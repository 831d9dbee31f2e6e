---------------------------- MODULE SegmentReview ----------------------------
(* registry_align/workbench.py: editors read the effective topology of an       *)
(* alignment and save revisions of it.  A save locks the row of the alignment,  *)
(* replays the stored history, compares the version the editor started from if  *)
(* it was given, validates the revision and inserts it; its place in later      *)
(* replays is decided by created_at, the clock of the saving program.           *)
EXTENDS SegmentTopology

CONSTANTS Alignment,    \* possible outputs of the aligner: sets of segments
          Editor,
          State,        \* review states of a revision
          MaxRevisions, \* bound: revisions ever saved
          Skew          \* bound: by how many places a clock may misplace a revision

VARIABLES model,   \* segments of the current alignment, never changed
          history, \* its revisions, in the order of (created_at, id)
          editor,  \* what each editor last read, and its save under way
          lock     \* who holds the row of the alignment

vars == <<model, history, editor, lock>>

topology == Replay(model, history)
Saved == {history[i] : i \in DOMAIN history}
Accepted == {rev \in Saved : rev.state = "accepted"}

NoSave == [at |-> "idle"]
NoView == [segs |-> {}, version |-> 0, seen |-> {}]

\* A segment as the aligner stores it: each with an identifier of its own.
Kind == {s.kind : s \in UNION Alignment}
ParentId == {s.parent : s \in UNION Alignment}
Sample == LET bounds == UNION {{s.from, s.to} : s \in UNION Alignment} IN bounds
Id == Ids(UNION Alignment) \cup {<<n, i>> : n \in 1..MaxRevisions, i \in 1..2}
Segments == [id: Id, kind: Kind, from: Int, to: Int, parent: ParentId, model: Ids(UNION Alignment)]

ASSUME AlignmentAssumption ==
  \A segs \in Alignment :
    /\ IsFiniteSet(segs) /\ segs \in SUBSET Segments
    /\ \A s \in segs : s.from < s.to
    /\ \A s, t \in segs : s.id = t.id => s = t
ASSUME BoundsAssumption == MaxRevisions \in Nat /\ Skew \in Nat
ASSUME NoneAssumption == None \notin Editor

TypeOK ==
  /\ model \in Alignment
  /\ lock \in Editor \cup {None}
  /\ \A rev \in Saved : /\ rev.state \in State
                        /\ rev.number \in 1..MaxRevisions
                        /\ \A i \in DOMAIN rev.targets : rev.targets[i] \in Id
  /\ Cardinality({rev.number : rev \in Saved}) = Len(history)
  /\ topology.version <= Cardinality(Accepted)
  /\ \A s \in topology.segs : s.id \in Id /\ s.model \in Ids(model)

Init ==
  /\ model \in Alignment
  /\ history = <<>>
  /\ editor = [e \in Editor |-> [view |-> NoView, save |-> NoSave]]
  /\ lock = None

-----------------------------------------------------------------------------
\* recording_detail: fails as a whole when the history does not replay.
Load(e) ==
  /\ editor[e].save = NoSave
  /\ topology.ok
  /\ editor' = [editor EXCEPT ![e].view =
       [segs |-> topology.segs, version |-> topology.version,
        seen |-> {rev.number : rev \in Accepted}]]
  /\ UNCHANGED <<model, history, lock>>

\* What an editor can ask for, from the segments it sees.  Identifiers of new
\* segments are fresh (uuid4): here the number of the revision and 1 or 2.
number == Len(history) + 1
Base(e) == {None, editor[e].view.version}
Revision(e, operation, anchor, targets, from, to, replacements, state, base) ==
  [number |-> number, operation |-> operation, anchor |-> anchor, targets |-> targets,
   from |-> from, to |-> to, replacements |-> replacements, state |-> state,
   base |-> base, seen |-> editor[e].view.seen]
Part(i, s, from, to) == [id |-> <<number, i>>, from |-> from, to |-> to, parent |-> s.parent]

Updates(e, state, base) ==
  {Revision(e, "update", s.model, <<s.id>>, bounds[1], bounds[2], <<>>, state, base) :
     s \in editor[e].view.segs,
     bounds \in {<<f, None>> : f \in Sample} \cup {<<None, t>> : t \in Sample}}
Splits(e, state, base) ==
  UNION {{Revision(e, "split", s.model, <<s.id>>, None, None,
                   <<Part(1, s, s.from, cut), Part(2, s, cut, s.to)>>, state, base) :
            cut \in {c \in Sample : s.from < c /\ c < s.to}} : s \in editor[e].view.segs}
Merges(e, state, base) ==
  {Revision(e, "merge", p[1].model, <<p[1].id, p[2].id>>, None, None,
            <<Part(1, p[1], p[1].from, p[2].to)>>, state, base) :
     p \in {q \in editor[e].view.segs \X editor[e].view.segs :
              q[1].kind = q[2].kind /\ q[1].to = q[2].from}}
Candidates(e) ==
  UNION {Updates(e, state, base) \cup Splits(e, state, base) \cup Merges(e, state, base) :
           state \in State, base \in Base(e)}

\* (Boundaries checked against the segments that the editor had read.)
AcceptableInView(e, rev) ==
  /\ topology.ok
  /\ rev.base \in {None, topology.version}
  /\ Resolvable(topology.segs, rev) /\ Fits(editor[e].view.segs, rev)

\* (A save that forgets which version it was made from.)
AcceptableAnyBase(e, rev) ==
  /\ topology.ok
  /\ Fits(topology.segs, rev)
  /\ \E i \in DOMAIN rev.targets :
       rev.anchor = Seg(topology.segs, TargetIds(topology.segs, rev)[i]).model

\* save_revision, first half: with the row locked, the history is replayed and
\* the revision must be based on its version, fit, and be kept under a segment
\* that one of its targets descends from.
Acceptable(e, rev) ==
  /\ topology.ok
  /\ rev.base \in {None, topology.version}
  /\ Fits(topology.segs, rev)
  /\ \E i \in DOMAIN rev.targets :
       rev.anchor = Seg(topology.segs, TargetIds(topology.segs, rev)[i]).model

BeginSave(e) ==
  /\ editor[e].save = NoSave
  /\ lock = None
  /\ Len(history) < MaxRevisions
  /\ \E rev \in Candidates(e) :
       /\ Acceptable(e, rev)
       /\ editor' = [editor EXCEPT ![e].save =
            [at |-> "insert", rev |-> [rev EXCEPT !.targets = TargetIds(topology.segs, rev)]]]
  /\ lock' = e
  /\ UNCHANGED <<model, history>>

\* save_revision, second half: the row is inserted and committed.  Its place is
\* the end of the history, or earlier if the clock of the program is behind.
InsertAt(seq, place, x) == SubSeq(seq, 1, place - 1) \o <<x>> \o SubSeq(seq, place, Len(seq))

Insert(e) ==
  /\ editor[e].save # NoSave
  /\ \E back \in 0..Skew :
       /\ back <= Len(history)
       /\ history' = InsertAt(history, Len(history) + 1 - back, editor[e].save.rev)
  /\ editor' = [editor EXCEPT ![e].save = NoSave]
  /\ lock' = None
  /\ UNCHANGED model

\* The transaction is rolled back, or the program ends.
Abandon(e) ==
  /\ editor[e].save # NoSave
  /\ editor' = [editor EXCEPT ![e].save = NoSave]
  /\ lock' = None
  /\ UNCHANGED <<model, history>>

Next == \E e \in Editor : Load(e) \/ BeginSave(e) \/ Insert(e) \/ Abandon(e)
Spec == Init /\ [][Next]_vars

-----------------------------------------------------------------------------
InOrder == \A i, j \in DOMAIN history : i < j => history[i].number < history[j].number

\* While the clocks of the editors agree, what is stored can always be read: no
\* two saves, however stale their views, leave a history whose replay fails
\* (save_revision validates under the lock what effective_segments replays).
HistoryReplays == InOrder => topology.ok

\* Whatever was accepted, siblings never overlap: every boundary was checked
\* against the segments that were there, also when revisions are reordered.
SiblingsAreDisjoint ==
  topology.ok =>
    \A s, t \in topology.segs : s.parent # None /\ Siblings(s, t) => ~Overlap(s, t)

\* A revision that names the version it is based on was made by an editor who
\* had seen every revision accepted before it: nobody's edit is overwritten
\* unseen (base_topology_version).
NoBlindEdit ==
  \A rev \in Saved : rev.base # None =>
    {other.number : other \in {o \in Accepted : o.number < rev.number}} = rev.seen
=============================================================================
