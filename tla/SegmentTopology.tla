--------------------------- MODULE SegmentTopology ---------------------------
(* registry_align/domain/topology.py: what readers see of an alignment is never *)
(* stored.  It is computed from the segments of the model by replaying the      *)
(* accepted revisions in order; every revision, accepted or not, is validated   *)
(* where it stands, and one that does not fit makes the whole replay fail.      *)
(* A segment is [id, kind, from, to, parent, model]: `model` is the segment of  *)
(* the aligner that it descends from, under which its history is kept.          *)
EXTENDS Integers, Sequences, FiniteSets

CONSTANT None \* no parent, no override

Ids(segs) == {s.id : s \in segs}
Seg(segs, id) == CHOOSE s \in segs : s.id = id
Pair(segs, targets) == {Seg(segs, targets[i]) : i \in DOMAIN targets}
Overlap(s, t) == s.from < t.to /\ t.from < s.to
Siblings(s, t) == s.id # t.id /\ s.kind = t.kind /\ s.parent = t.parent
Leftmost(segs) == CHOOSE s \in segs : \A t \in segs : s.from <= t.from
Rightmost(segs) == CHOOSE s \in segs : \A t \in segs : s.to >= t.to

\* A target is named by its id, or by the model segment that only it comes from.
Resolved(segs, id) == IF id \in Ids(segs) THEN {id} ELSE {s.id : s \in {t \in segs : t.model = id}}
Resolvable(segs, rev) ==
  /\ \A i \in DOMAIN rev.targets : Cardinality(Resolved(segs, rev.targets[i])) = 1
  /\ \A i, j \in DOMAIN rev.targets :
       i # j => Resolved(segs, rev.targets[i]) # Resolved(segs, rev.targets[j])
TargetIds(segs, rev) ==
  [i \in DOMAIN rev.targets |-> CHOOSE id \in Resolved(segs, rev.targets[i]) : TRUE]

Override(value, given) == IF given = None THEN value ELSE given

Parents(segs, s) == {p \in segs : p.id = s.parent \/ p.model = s.parent}
FreeOf(segs, s) == \A t \in segs : Siblings(t, s) => ~Overlap(s, t)

UpdateInside(segs, targets, rev) == \* (the neighbours are not looked at)
  LET old == Seg(segs, targets[1])
      new == [old EXCEPT !.from = Override(@, rev.from), !.to = Override(@, rev.to)]
  IN /\ Len(targets) = 1 /\ rev.replacements = <<>>
     /\ new.from < new.to
     /\ new.parent # None =>
          /\ Cardinality(Parents(segs, new)) <= 1
          /\ \A p \in Parents(segs, new) : p.from <= new.from /\ new.to <= p.to

\* A segment with a parent has to stay inside it, where exactly one segment of
\* the present topology is the parent or descends from it, and beside its
\* siblings; a segment without a parent is free.
ValidUpdate(segs, targets, rev) ==
  LET old == Seg(segs, targets[1])
      new == [old EXCEPT !.from = Override(@, rev.from), !.to = Override(@, rev.to)]
  IN /\ Len(targets) = 1 /\ rev.replacements = <<>>
     /\ new.from < new.to
     /\ new.parent # None =>
          /\ Cardinality(Parents(segs, new)) <= 1
          /\ \A p \in Parents(segs, new) : p.from <= new.from /\ new.to <= p.to
          /\ FreeOf(segs, new)

NewIds(segs, targets, rev) ==
  /\ \A i, j \in DOMAIN rev.replacements :
       i # j => rev.replacements[i].id # rev.replacements[j].id
  /\ \A i \in DOMAIN rev.replacements :
       rev.replacements[i].id \notin
         Ids(segs) \ {targets[k] : k \in DOMAIN targets}

ValidSplit(segs, targets, rev) ==
  /\ Len(targets) = 1 /\ Len(rev.replacements) = 2
  /\ LET old == Seg(segs, targets[1])
         new == {rev.replacements[1], rev.replacements[2]}
     IN /\ Leftmost(new).from = old.from
        /\ Leftmost(new).to = Rightmost(new).from
        /\ Rightmost(new).to = old.to
        /\ \A n \in new : n.parent = old.parent
  /\ NewIds(segs, targets, rev)

ValidMerge(segs, targets, rev) ==
  /\ Len(targets) = 2 /\ Len(rev.replacements) = 1
  /\ LET left == Leftmost(Pair(segs, targets))
         right == CHOOSE s \in Pair(segs, targets) : s # left
         new == rev.replacements[1]
     IN /\ left.kind = right.kind /\ left.parent = right.parent /\ left.to = right.from
        /\ new.from = left.from /\ new.to = right.to /\ new.parent = left.parent
  /\ NewIds(segs, targets, rev)

ValidOperation(segs, targets, rev) ==
  CASE rev.operation = "update" -> ValidUpdate(segs, targets, rev)
    [] rev.operation = "split"  -> ValidSplit(segs, targets, rev)
    [] OTHER                    -> ValidMerge(segs, targets, rev)

\* validate_candidate_revision, and the same check inside the replay.
Fits(segs, rev) == Resolvable(segs, rev) /\ ValidOperation(segs, TargetIds(segs, rev), rev)

\* An update changes its target in place.  A split or a merge puts replacements
\* where the targets were: they take the kind of the leftmost target and the
\* model segment of the first one.
Applied(segs, rev) ==
  LET targets == TargetIds(segs, rev)
      sources == Pair(segs, targets)
  IN IF rev.operation = "update"
     THEN {IF s.id = targets[1]
           THEN [s EXCEPT !.from = Override(@, rev.from), !.to = Override(@, rev.to)]
           ELSE s : s \in segs}
     ELSE (segs \ sources) \cup
          {[id |-> n.id, kind |-> Leftmost(sources).kind, from |-> n.from, to |-> n.to,
            parent |-> n.parent, model |-> Seg(segs, targets[1]).model] :
             n \in {rev.replacements[i] : i \in DOMAIN rev.replacements}}

\* replay_effective_topology: the segments, how many revisions were accepted
\* (the version), and whether every revision fitted.
ReplayStep(topology, rev) ==
  IF ~topology.ok THEN topology
  ELSE IF ~Fits(topology.segs, rev) THEN [topology EXCEPT !.ok = FALSE]
  ELSE IF rev.state # "accepted" THEN topology
  ELSE [topology EXCEPT !.segs = Applied(@, rev), !.version = @ + 1]

Replay(model, history) ==
  LET replay[n \in 0..Len(history)] ==
        IF n = 0 THEN [ok |-> TRUE, segs |-> model, version |-> 0]
        ELSE ReplayStep(replay[n - 1], history[n])
  IN replay[Len(history)]
=============================================================================
