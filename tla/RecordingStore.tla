---------------------------- MODULE RecordingStore ----------------------------
(***************************************************************************)
(* RecordingRepository.create and RecordingRepository.save                 *)
(* (persistence/sqlalchemy/recording_repository.py), each run by           *)
(* SqlAlchemyPersistence._run in a transaction of its own, under           *)
(* PostgreSQL's READ COMMITTED isolation: one action per SQL statement, a  *)
(* statement sees the committed rows and the rows of its own transaction.  *)
(*                                                                         *)
(* A revision id is a fresh UUID that belongs to one request, and every    *)
(* retry sends that same request again, so the request is a function of    *)
(* the revision id.  A call is one invocation of create or save: two calls *)
(* may carry the same revision id (a retry racing the first attempt).      *)
(***************************************************************************)
EXTENDS Naturals, FiniteSets

CONSTANTS Recording,   \* recording ids
          Revision,    \* revision ids, one per request
          NoRevision,  \* NULL in head_revision_id and parent_revision_id
          Call         \* concurrent invocations of the store

ASSUME NoRevisionAssumption == NoRevision \notin Revision

VARIABLES
  request,    \* request[id]: the immutable request that introduces revision id
  recordings, \* committed rows of recordings
  head,       \* committed recordings.head_revision_id
  revisions,  \* committed rows of recording_revisions
  pc,         \* the next statement of a call
  rev,        \* the revision id a call carries
  number,     \* revision_number the call has computed
  added,      \* the call's uncommitted recording_revisions rows
  outcome     \* what the call told its caller

callVars == <<pc, rev, number, added, outcome>>
tables   == <<recordings, head, revisions>>
vars     == <<request, tables, callVars>>

(* A create request has no expected parent; a save request names one. *)
Request == [recording: Recording, parent: Revision \cup {NoRevision}]

(* Rows as the CHECK constraints of recording_revisions admit them: only a    *)
(* first revision has no parent.                                              *)
Row == {r \in [id: Revision, recording: Recording,
               parent: Revision \cup {NoRevision}, number: Nat \ {0}] :
          r.number = 1 <=> r.parent = NoRevision}

Outcome == {"none", "ok", "concurrent", "integrity", "notfound", "unavailable"}

Running == {"check", "lookup", "addrecording", "read", "insert", "advance", "commit"}

recording(c) == request[rev[c]].recording
expected(c)  == request[rev[c]].parent
isCreate(c)  == expected(c) = NoRevision

TypeOK ==
  /\ request \in [Revision -> Request]
  /\ recordings \in SUBSET Recording
  /\ head \in [Recording -> Revision \cup {NoRevision}]
  /\ revisions \in SUBSET Row
  /\ pc \in [Call -> Running \cup {"idle", "done"}]
  /\ rev \in [Call -> Revision \cup {NoRevision}]
  /\ \A c \in Call : pc[c] # "idle" => rev[c] \in Revision
  /\ number \in [Call -> Nat]
  /\ added \in [Call -> SUBSET Row]
  /\ outcome \in [Call -> Outcome]

Stored(id) == \E r \in revisions : r.id = id
RowsOf(rec) == {r \in revisions : r.recording = rec}

-----------------------------------------------------------------------------
(* Locks held by transactions that have not ended yet. *)

(* Another transaction has inserted the row of this recording. *)
RecordingKeyHeld(c) ==
  \E d \in Call \ {c} : /\ pc[d] \in {"insert", "advance", "commit"}
                        /\ isCreate(d)
                        /\ recording(d) = recording(c)

(* recording_revisions: primary key, partial unique index on the parent, and *)
(* unique (recording_id, revision_number).                                   *)
SameId(r, s)     == r.id = s.id
SameParent(r, s) == r.parent # NoRevision /\ r.parent = s.parent
SameNumber(r, s) == r.recording = s.recording /\ r.number = s.number
Collides(r, s)   == SameId(r, s) \/ SameParent(r, s) \/ SameNumber(r, s)

(* The row lock an UPDATE of the recording takes until its transaction ends. *)
HeadLocked(c) ==
  \E d \in Call \ {c} : pc[d] = "commit" /\ recording(d) = recording(c)

-----------------------------------------------------------------------------
Goto(c, label) == pc' = [pc EXCEPT ![c] = label]

(* Faulty variant: the rows of a failed transaction stay behind, locked. *)
RollbackKeepingRows(c, result) ==
  /\ Goto(c, "done")
  /\ outcome' = [outcome EXCEPT ![c] = result]
  /\ UNCHANGED <<request, tables, rev, number, added>>

(* The transaction ends without effect: an exception leaves session.begin(). *)
Rollback(c, result) ==
  /\ Goto(c, "done")
  /\ outcome' = [outcome EXCEPT ![c] = result]
  /\ added' = [added EXCEPT ![c] = {}]
  /\ UNCHANGED <<request, tables, rev, number>>

Start(c) ==
  /\ pc[c] = "idle"
  /\ \E id \in Revision : rev' = [rev EXCEPT ![c] = id]
  /\ Goto(c, "check")
  /\ UNCHANGED <<request, tables, number, added, outcome>>

(* Faulty variant: any child of the expected parent passes for the result. *)
CheckSibling(c) ==
  /\ pc[c] = "check"
  /\ IF \E r \in RowsOf(recording(c)) : r.parent = expected(c)
     THEN Rollback(c, "ok")
     ELSE /\ Goto(c, IF isCreate(c) THEN "lookup" ELSE "read")
          /\ UNCHANGED <<request, tables, rev, number, added, outcome>>

(* _load_idempotent_revision: a revision that is already stored is the result. *)
CheckIdempotent(c) ==
  /\ pc[c] = "check"
  /\ IF Stored(rev[c])
     THEN Rollback(c, "ok")
     ELSE /\ Goto(c, IF isCreate(c) THEN "lookup" ELSE "read")
          /\ UNCHANGED <<request, tables, rev, number, added, outcome>>

(* create: session.get(RecordingRow, ...) *)
LookupRecording(c) ==
  /\ pc[c] = "lookup"
  /\ IF recording(c) \in recordings
     THEN Rollback(c, "integrity")
     ELSE /\ Goto(c, "addrecording")
          /\ UNCHANGED <<request, tables, rev, number, added, outcome>>

(* create: flush of the RecordingRow; waits for a transaction that is adding *)
(* the same key and fails if that one committed.                             *)
AddRecording(c) ==
  /\ pc[c] = "addrecording"
  /\ ~RecordingKeyHeld(c)
  /\ IF recording(c) \in recordings
     THEN Rollback(c, "integrity")
     ELSE /\ Goto(c, "insert")
          /\ number' = [number EXCEPT ![c] = 1]
          /\ UNCHANGED <<request, tables, rev, added, outcome>>

(* save: one SELECT reads the recording, its head and the head's number. *)
ReadHead(c) ==
  /\ pc[c] = "read"
  /\ \/ /\ recording(c) \notin recordings
        /\ Rollback(c, "notfound")
     \/ /\ recording(c) \in recordings
        /\ head[recording(c)] # expected(c)
        /\ Rollback(c, "concurrent")
     \/ /\ recording(c) \in recordings
        /\ head[recording(c)] = expected(c)
        /\ \E r \in revisions :
             /\ r.id = expected(c)
             /\ number' = [number EXCEPT ![c] = r.number + 1]
        /\ Goto(c, "insert")
        /\ UNCHANGED <<request, tables, rev, added, outcome>>

(* Faulty variant: the parent is not written. *)
NewRowWithoutParent(c) == [id |-> rev[c], recording |-> recording(c),
                           parent |-> NoRevision, number |-> number[c]]

NewRow(c) == [id |-> rev[c], recording |-> recording(c),
              parent |-> expected(c), number |-> number[c]]

(* Faulty variant: a row that is not committed yet already counts as a race. *)
InsertWithoutWaiting(c) ==
  /\ pc[c] = "insert"
  /\ IF \E r \in revisions \cup UNION {added[d] : d \in Call \ {c}} : Collides(NewRow(c), r)
     THEN Rollback(c, IF Stored(rev[c]) \/ isCreate(c) THEN "integrity" ELSE "concurrent")
     ELSE /\ added' = [added EXCEPT ![c] = {NewRow(c)}]
          /\ Goto(c, "advance")
          /\ UNCHANGED <<request, tables, rev, number, outcome>>

(* Faulty variant: the flush is visible before the transaction commits. *)
InsertAutocommitted(c) ==
  /\ pc[c] = "insert"
  /\ \A r \in revisions : ~Collides(NewRow(c), r)
  /\ revisions' = revisions \cup {NewRow(c)}
  /\ Goto(c, "advance")
  /\ UNCHANGED <<request, recordings, head, rev, number, added, outcome>>

(* _insert_revision: waits for every uncommitted row it collides with. A     *)
(* committed collision is an IntegrityError, which save turns into           *)
(* ConcurrentRevisionError for the two constraints of _is_revision_race; the *)
(* primary key, checked first, is not one of them.                           *)
InsertRevision(c) ==
  /\ pc[c] = "insert"
  /\ \A d \in Call \ {c} : \A r \in added[d] : ~Collides(NewRow(c), r)
  /\ \/ /\ \E r \in revisions : Collides(NewRow(c), r)
        /\ Rollback(c, IF Stored(rev[c]) \/ isCreate(c) THEN "integrity" ELSE "concurrent")
     \/ /\ \A r \in revisions : ~Collides(NewRow(c), r)
        /\ added' = [added EXCEPT ![c] = {NewRow(c)}]
        /\ Goto(c, "advance")
        /\ UNCHANGED <<request, tables, rev, number, outcome>>

(* _resolve_versions, _resolve_entries or a foreign key refuses the content. *)
RefuseContent(c) ==
  /\ pc[c] = "insert"
  /\ Rollback(c, "integrity")

(* UPDATE recordings SET head_revision_id WHERE the head is still the parent: *)
(* waits for the row lock, then re-evaluates its WHERE on the committed row.  *)
(* A creating call updates the row it has just added, whose head is NULL.     *)
AdvanceHead(c) ==
  /\ pc[c] = "advance"
  /\ ~HeadLocked(c)
  /\ IF isCreate(c) \/ head[recording(c)] = expected(c)
     THEN /\ Goto(c, "commit")
          /\ UNCHANGED <<request, tables, rev, number, added, outcome>>
     ELSE Rollback(c, "concurrent")

(* COMMIT. The server may commit and the connection may break before the      *)
(* client knows: _run then raises DatabaseUnavailableError.                   *)
Commit(c) ==
  /\ pc[c] = "commit"
  /\ recordings' = recordings \cup {recording(c)}
  /\ head' = [head EXCEPT ![recording(c)] = rev[c]]
  /\ revisions' = revisions \cup added[c]
  /\ added' = [added EXCEPT ![c] = {}]
  /\ \E result \in {"ok", "unavailable"} : outcome' = [outcome EXCEPT ![c] = result]
  /\ Goto(c, "done")
  /\ UNCHANGED <<request, rev, number>>

(* OperationalError or InterfaceError at any statement before the commit. *)
LoseConnection(c) ==
  /\ pc[c] \in Running
  /\ Rollback(c, "unavailable")

(* The caller has its answer; the slot can serve another invocation. *)
Return(c) ==
  /\ pc[c] = "done"
  /\ Goto(c, "idle")
  /\ rev' = [rev EXCEPT ![c] = NoRevision]
  /\ number' = [number EXCEPT ![c] = 0]
  /\ outcome' = [outcome EXCEPT ![c] = "none"]
  /\ UNCHANGED <<request, tables, added>>

Statement(c) ==
  \/ CheckIdempotent(c) \/ LookupRecording(c) \/ AddRecording(c) \/ ReadHead(c)
  \/ InsertRevision(c) \/ AdvanceHead(c) \/ Commit(c)

(* An editor names as parent a revision id that existed before its own, of    *)
(* the same recording.                                                        *)
Requests ==
  {q \in [Revision -> Request] :
     /\ \A id \in Revision : q[id].parent \in Revision
                             => q[q[id].parent].recording = q[id].recording
     /\ \A S \in SUBSET Revision \ {{}} : \E id \in S : q[id].parent \notin S}

Init ==
  /\ request \in Requests
  /\ recordings = {}
  /\ head = [rec \in Recording |-> NoRevision]
  /\ revisions = {}
  /\ pc = [c \in Call |-> "idle"]
  /\ rev = [c \in Call |-> NoRevision]
  /\ number = [c \in Call |-> 0]
  /\ added = [c \in Call |-> {}]
  /\ outcome = [c \in Call |-> "none"]

Next == \E c \in Call :
  Start(c) \/ Statement(c) \/ RefuseContent(c) \/ LoseConnection(c) \/ Return(c)

Spec == Init /\ [][Next]_vars

-----------------------------------------------------------------------------
(* The committed history of a recording is one chain that ends at the head,   *)
(* whatever transactions interleave, fail or are retried: the revisions are   *)
(* numbered 1, 2, ... up to the head's number, each number once, and each     *)
(* revision's parent is the one numbered below it.  (RecordingRepository.save *)
(* and create)                                                                *)
NumberedChain ==
  \A rec \in Recording :
    /\ rec \notin recordings => RowsOf(rec) = {} /\ head[rec] = NoRevision
    /\ rec \in recordings =>
         \E h \in RowsOf(rec) : /\ h.id = head[rec]
                               /\ {r.number : r \in RowsOf(rec)} = 1..h.number
    /\ \A r \in RowsOf(rec) :
         /\ \A s \in RowsOf(rec) : s.number = r.number => s = r
         /\ r.parent # NoRevision =>
              \E p \in RowsOf(rec) : r.parent = p.id /\ r.number = p.number + 1

(* A caller that is answered "ok" has its own request in the history, at the  *)
(* place it asked for, even when another call with the same revision id did   *)
(* the work.  (idempotent result of RecordingRepository.create and save)      *)
OkIsStored ==
  \A c \in Call : outcome[c] = "ok" =>
    \E r \in revisions : /\ r.id = rev[c]
                          /\ r.recording = recording(c)
                          /\ r.parent = expected(c)

(* ConcurrentRevisionError is only raised when the head really is not the     *)
(* parent the caller expected: no save is refused without a reason, also when *)
(* the refusal comes from a constraint.  (RecordingRepository.save)           *)
ConcurrentIsJustified ==
  [][\A c \in Call : outcome'[c] = "concurrent" /\ outcome[c] # "concurrent"
       => head[recording(c)] # expected(c)]_vars

(* Two transactions never wait for each other: a call in progress always ends, *)
(* by its own statements, under the waits for unique keys and row locks.       *)
CallReturns == \A c \in Call : pc[c] \in Running ~> pc[c] \notin Running

(* The chain of a recording in the terms of the abstract specification. *)
ChainLength(rec) ==
  IF rec \in recordings THEN (CHOOSE h \in RowsOf(rec) : h.id = head[rec]).number ELSE 0

RowNumbered(rec, n) == CHOOSE r \in RowsOf(rec) : r.number = n

ChainOf(rec) ==
  [n \in 1..ChainLength(rec) |-> [id     |-> RowNumbered(rec, n).id,
                                  parent |-> RowNumbered(rec, n).parent]]

History == INSTANCE RevisionHistory WITH chain <- [rec \in Recording |-> ChainOf(rec)]

(* Every transaction of the store is a single append to one chain, or nothing, *)
(* for an observer of the committed tables: no reader ever sees a revision     *)
(* without its parent, or a head that is not the last revision.                *)
ImplementsHistory == History!Spec
=============================================================================
