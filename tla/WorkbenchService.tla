-------------------------- MODULE WorkbenchService --------------------------
(* What the client's controllers call (application/handlers.py and              *)
(* edit_session.py): each call, made on a worker thread, is one of a set of     *)
(* outcomes, which say what becomes of the recording's head, of its saves in    *)
(* the outbox and of the session.  SaveRecovery models the same calls step by   *)
(* step; here they are what the windows have to live with.                      *)
EXTENDS AppLifecycle, Sequences, FiniteSets, Functions

CONSTANTS Recordings, \* recordings that exist, or that an import may create
          Imported,   \* those of Recordings that an import creates
          MaxRevisions, \* bound: revisions, stored or queued, of all recordings
          None        \* no session, recording or editor

VARIABLES head,  \* number of the head revision in the database, 0 before creation
          outbox \* saves of a recording that are pending, and whether one conflicts

serviceVars == <<head, outbox>>

Revision == 0..MaxRevisions
Session == [rec : Recordings, base : Nat, dirty : BOOLEAN,
            sync : {"synced", "pending", "conflict"}]

ASSUME ServiceAssumption ==
  /\ MaxRevisions \in Nat
  /\ Imported \subseteq Recordings
  /\ None \notin Recordings \cup Session
NothingQueued == [saves |-> 0, base |-> 0, conflict |-> FALSE]

ServiceTypeOK ==
  /\ head \in [Recordings -> Nat]
  /\ outbox \in [Recordings -> [saves : Nat, base : Nat, conflict : BOOLEAN]]

ServiceInit ==
  /\ head = [r \in Recordings |-> IF r \in Imported THEN 0 ELSE 1]
  /\ outbox = [r \in Recordings |-> NothingQueued]

Reachable == ssh = "open"
Active(r) == outbox[r] # NothingQueued
Fresh(r) == head[r] = 0 /\ ~Active(r)

\* An outcome: the answer, the session if there is one, the head and the outbox.
Outcome(answer, session, revision, queue) ==
  [answer |-> answer, session |-> session, head |-> revision, outbox |-> queue]
Unchanged(r, answer, session) == Outcome(answer, session, head[r], outbox[r])
Refused(r) == Unchanged(r, "failed", None)

\* The outbox with one more save, the first of them made on revision `base'.
Enqueued(r, base) ==
  [outbox[r] EXCEPT !.saves = @ + 1, !.base = IF outbox[r].saves = 0 THEN base ELSE @]

Fetched(r) == [rec |-> r, base |-> head[r], dirty |-> FALSE, sync |-> "synced"]

\* open(): refused while a save of the recording is pending or conflicts.
OpenOutcomes(r) ==
  {Refused(r)} \cup
  IF ~Active(r) /\ head[r] > 0 /\ Reachable THEN {Unchanged(r, "opened", Fetched(r))} ELSE {}

\* create(), and the listing the controller makes after it.  A creation that was
\* only queued is not listed, so its session is closed and the import has failed.
CreateOutcomes(r) ==
  {Refused(r), Outcome("failed", None, 0, Enqueued(r, 0))} \cup
  {Outcome(answer, IF answer = "opened" THEN [Fetched(r) EXCEPT !.base = 1] ELSE None,
           1, NothingQueued) : answer \in IF Reachable THEN {"opened", "failed"} ELSE {}}

\* _capture_queued_save(): the session goes on from the queued revision.
Captured(s) == [s EXCEPT !.base = @ + 1, !.dirty = FALSE, !.sync = "pending"]

\* save(), by what the outbox holds and by what the database answers.
SaveOutcomes(s) ==
  LET r == s.rec
      queued == Outcome("queued", Captured(s), head[r], Enqueued(r, s.base))
  IN IF s.sync = "conflict" \/ outbox[r].conflict
     THEN {Unchanged(r, "failed", [s EXCEPT !.sync = "conflict"])}
     ELSE IF s.sync = "pending" THEN {queued, Unchanged(r, "failed", s)}
     ELSE IF Active(r) THEN {Unchanged(r, "failed", s)}
     ELSE {Unchanged(r, "failed", s), queued} \cup
          IF ~Reachable THEN {}
          ELSE IF head[r] = s.base
          THEN {Outcome("saved", [s EXCEPT !.base = @ + 1, !.dirty = FALSE, !.sync = "synced"],
                        head[r] + 1, outbox[r])}
          ELSE {Outcome("conflict", [s EXCEPT !.sync = "conflict"], head[r],
                        [Enqueued(r, s.base) EXCEPT !.conflict = TRUE])}

Bounded ==
  FoldFunction(+, 0, [r \in Recordings |-> head'[r] + outbox'[r].saves]) <= MaxRevisions

\* The first n saves of a recording are sent again: they are applied if the head
\* is where they begin, and the first of them conflicts otherwise.
Resent(r, n) ==
  LET q == outbox[r] IN
  IF n = 0 \/ q.conflict THEN Unchanged(r, "done", None)
  ELSE IF head[r] # q.base THEN Outcome("done", None, head[r], [q EXCEPT !.conflict = TRUE])
  ELSE Outcome("done", None, head[r] + n,
               IF n = q.saves THEN NothingQueued ELSE [q EXCEPT !.saves = @ - n, !.base = @ + n])

\* retry_all(): any number of each recording's saves is sent before the database
\* is lost, or there are none left.
RetryAll ==
  \E n \in [Recordings -> Revision] :
    /\ \A r \in Recordings : n[r] <= outbox[r].saves
    /\ (\E r \in Recordings : n[r] > 0) => Reachable
    /\ head' = [r \in Recordings |-> Resent(r, n[r]).head]
    /\ outbox' = [r \in Recordings |-> Resent(r, n[r]).outbox]

Performed(r, o) ==
  /\ head' = [head EXCEPT ![r] = o.head]
  /\ outbox' = [outbox EXCEPT ![r] = o.outbox]
  /\ Bounded

=============================================================================
