----------------------------- MODULE SaveRecovery -----------------------------
(***************************************************************************)
(* Saving a recording from one machine: RecordingEditSession.save, open    *)
(* and reload, RecordingHandler.create, RecoveryHandler.retry, retry_all   *)
(* and archive, over the FileRecoveryOutbox they share, and the revision   *)
(* store in PostgreSQL.                                                    *)
(*                                                                         *)
(* A client is a thread or process of the machine: the save task of an     *)
(* editor window, a retry task, a second program.  It holds at most one    *)
(* edit session and runs one call at a time; every access to a directory   *)
(* of the outbox and every transaction of the store is a step of its own,  *)
(* and a client may crash between any two.                                 *)
(*                                                                         *)
(* The store is RevisionHistory, which RecordingStore implements.  An      *)
(* operation id and the revision id its request introduces are drawn       *)
(* together, so one value stands for both.                                 *)
(***************************************************************************)
EXTENDS Naturals, Sequences, FiniteSets

CONSTANTS Recording,    \* recording ids
          NoRecording,  \* recording of a client without a session
          Operation,    \* operation ids, each with its revision id
          NoOperation,  \* the parent of a first revision
          Client,       \* threads and processes of the machine
          MayHappen     \* of Events, those that happen in an instance

Events == {"unavailable", "refuse", "storage", "crash", "archive", "remote"}

ASSUME NoRecordingAssumption == NoRecording \notin Recording
ASSUME NoOperationAssumption == NoOperation \notin Operation

VARIABLES
  chain,      \* the store: the committed revisions of each recording
  target,     \* target[o]: the recording of request o, NoRecording before it is made
  parent,     \* parent[o]: the revision that request o expects as the head
  pending, conflicts, applied, archive,  \* directories of the outbox
  pc, task,   \* where a client's call is, and which call it is
  current,    \* the operation a call works on
  listed,     \* pending operations that a call has listed, not yet treated
  blocked,    \* recordings that a retry_all does not touch any more
  rec, base, sync,  \* the edit session: recording, base revision, sync state
  audio,      \* recordings whose managed audio file exists
  ack,        \* what callers have last been told of an operation
  abandoned   \* operations archived on request

requests == <<target, parent>>
outbox   == <<pending, conflicts, applied, archive>>
call     == <<pc, task, current, listed, blocked>>
session  == <<rec, base, sync>>
told     == <<ack, abandoned>>
vars     == <<chain, requests, outbox, audio, call, session, told>>

Store == INSTANCE RevisionHistory WITH Revision <- Operation, NoRevision <- NoOperation

Stored(o) == Store!Recorded(o)
head(r)   == Store!Tip(r)

Task  == {"none", "save", "create", "load", "retry", "retry_all"}
Label == {"idle", "scan", "enqueue", "check", "apply", "applied", "conflict", "write",
          "rewrite", "unlink", "abandon", "load", "next"}

TypeOK ==
  /\ chain \in [Recording -> Seq(Store!Link)]
  /\ target \in [Operation -> Recording \cup {NoRecording}]
  /\ parent \in [Operation -> Operation \cup {NoOperation}]
  /\ pending \in SUBSET Operation /\ conflicts \in SUBSET Operation
  /\ applied \in SUBSET Operation /\ archive \in SUBSET Operation
  /\ pc \in [Client -> Label]
  /\ task \in [Client -> Task]
  /\ current \in [Client -> Operation \cup {NoOperation}]
  /\ listed \in [Client -> SUBSET Operation]
  /\ blocked \in [Client -> SUBSET Recording]
  /\ rec \in [Client -> Recording \cup {NoRecording}]
  /\ base \in [Client -> Operation \cup {NoOperation}]
  /\ sync \in [Client -> {"none", "synced", "pending", "conflict"}]
  /\ audio \in SUBSET Recording
  /\ ack \in [Operation -> {"none", "saved", "queued", "conflict"}]
  /\ abandoned \in SUBSET Operation

Of(ops, r) == {o \in ops : target[o] = r}
Fresh(o)   == target[o] = NoRecording

Goto(c, label) == pc' = [pc EXCEPT ![c] = label]

-----------------------------------------------------------------------------
(* The end of a call, and of one operation of retry_all. *)

Finish(c) ==
  /\ Goto(c, "idle")
  /\ task' = [task EXCEPT ![c] = "none"]
  /\ current' = [current EXCEPT ![c] = NoOperation]
  /\ listed' = [listed EXCEPT ![c] = {}]
  /\ blocked' = [blocked EXCEPT ![c] = {}]

Continue(c, stop) ==
  /\ Goto(c, "next")
  /\ current' = [current EXCEPT ![c] = NoOperation]
  /\ blocked' = [blocked EXCEPT ![c] = @ \cup stop]
  /\ UNCHANGED <<task, listed>>

(* retry returned; retry_all goes on, without the recordings in stop. *)
Retried(c, stop) == IF task[c] = "retry_all" THEN Continue(c, stop) ELSE Finish(c)

Capture(c, o, state) ==
  /\ base' = [base EXCEPT ![c] = o]
  /\ sync' = [sync EXCEPT ![c] = state]
  /\ UNCHANGED rec

(* An exception ends the call; a create or an open that fails leaves no session. *)
Raise(c) ==
  /\ Finish(c)
  /\ rec' = [rec EXCEPT ![c] = IF sync[c] = "none" THEN NoRecording ELSE @]
  /\ UNCHANGED <<base, sync>>

Tell(o, answer) == ack' = [ack EXCEPT ![o] = answer] /\ UNCHANGED abandoned

Saving(c)   == task[c] \in {"save", "create"}
Retrying(c) == task[c] \in {"retry", "retry_all"}

-----------------------------------------------------------------------------
\* LocalAudioStorage.ingest: the copy is written to a temporary file and linked
\* to its final name, so it is there whole or not at all; its id is new.
IngestAudio(r) == audio' = audio \cup {r}

(* RecordingHandler.create: the audio file is ingested, then the request is    *)
(* made, an operation without parent.                                         *)
BeginCreate(c, r, o) ==
  /\ pc[c] = "idle" /\ sync[c] = "none"
  /\ Fresh(o) /\ \A p \in Operation : target[p] # r
  /\ IngestAudio(r)
  /\ target' = [target EXCEPT ![o] = r]
  /\ rec' = [rec EXCEPT ![c] = r]
  /\ current' = [current EXCEPT ![c] = o]
  /\ task' = [task EXCEPT ![c] = "create"]
  /\ Goto(c, "enqueue")
  /\ UNCHANGED <<chain, parent, outbox, listed, blocked, base, sync, told>>

(* RecordingEditSession.save: _active_recovery_operations lists pending/ ...  *)
BeginSave(c) ==
  /\ pc[c] = "idle" /\ sync[c] # "none"
  /\ listed' = [listed EXCEPT ![c] = Of(pending, rec[c])]
  /\ task' = [task EXCEPT ![c] = "save"]
  /\ Goto(c, "scan")
  /\ UNCHANGED <<chain, requests, outbox, audio, current, blocked, session, told>>

(* ... then conflicts/, and save raises or makes the request. A save that     *)
(* finds no operation id left is the bound of an instance, as if never begun. *)
BeginRequest(c) ==
  /\ pc[c] = "scan" /\ task[c] = "save"
  /\ \/ /\ sync[c] = "conflict" \/ Of(conflicts, rec[c]) # {}
        /\ sync' = [sync EXCEPT ![c] = "conflict"]
        /\ Finish(c)
        /\ UNCHANGED <<requests, rec, base>>
     \/ /\ \/ sync[c] = "synced" /\ Of(conflicts, rec[c]) = {} /\ listed[c] # {}
           \/ \A o \in Operation : ~Fresh(o)
        /\ Finish(c)
        /\ UNCHANGED <<requests, session>>
     \/ /\ sync[c] # "conflict" /\ Of(conflicts, rec[c]) = {}
        /\ sync[c] = "pending" \/ listed[c] = {}
        /\ \E o \in Operation :
             /\ Fresh(o)
             /\ target' = [target EXCEPT ![o] = rec[c]]
             /\ parent' = [parent EXCEPT ![o] = base[c]]
             /\ current' = [current EXCEPT ![c] = o]
        /\ listed' = [listed EXCEPT ![c] = {}]
        /\ Goto(c, "enqueue")
        /\ UNCHANGED <<task, blocked, session>>
  /\ UNCHANGED <<chain, outbox, audio, told>>

(* A create that fails removes its copy of the audio, unless the file cannot   *)
(* be removed.                                                                *)
DiscardAudio(c) ==
  \/ task[c] = "create" /\ audio' = audio \ {rec[c]}
  \/ /\ task[c] # "create" \/ "storage" \in MayHappen
     /\ UNCHANGED audio

(* Faulty variant: a save behind a queued one is only kept in memory. *)
EnqueueInMemory(c) ==
  /\ pc[c] = "enqueue"
  /\ IF sync[c] = "pending"
     THEN /\ Capture(c, current[c], "pending")
          /\ Tell(current[c], "queued")
          /\ Finish(c)
          /\ UNCHANGED pending
     ELSE /\ pending' = pending \cup {current[c]}
          /\ Goto(c, "check")
          /\ UNCHANGED <<task, current, listed, blocked, session, told>>
  /\ UNCHANGED <<chain, requests, conflicts, applied, archive, audio>>

(* FileRecoveryOutbox.enqueue. A session whose last save is queued stops here: *)
(* this save is queued behind it without asking the store.                     *)
Enqueue(c) ==
  /\ pc[c] = "enqueue"
  /\ \/ /\ "storage" \in MayHappen
        /\ Raise(c) /\ DiscardAudio(c)
        /\ UNCHANGED <<outbox, told>>
     \/ /\ pending' = pending \cup {current[c]}
        /\ IF sync[c] = "pending"
           THEN /\ Capture(c, current[c], "pending")
                /\ Tell(current[c], "queued")
                /\ Finish(c)
           ELSE /\ Goto(c, "check")
                /\ UNCHANGED <<task, current, listed, blocked, session, told>>
        /\ UNCHANGED <<conflicts, applied, archive, audio>>
  /\ UNCHANGED <<chain, requests>>

-----------------------------------------------------------------------------
(* RecordingRepository.create and save as their callers see them.            *)

(* Faulty variant: the session takes a queued save for a stored one. *)
UnavailableAsSynced(c) ==
  /\ "unavailable" \in MayHappen
  /\ IF Saving(c)
     THEN Capture(c, current[c], "synced") /\ Tell(current[c], "queued") /\ Finish(c)
     ELSE Retried(c, {target[current[c]]}) /\ UNCHANGED <<session, told>>
  /\ UNCHANGED <<requests, outbox, audio>>

(* Faulty variant: a queued create is treated as a failed import. *)
UnavailableDiscards(c) ==
  /\ "unavailable" \in MayHappen
  /\ IF Saving(c)
     THEN Capture(c, current[c], "pending") /\ Tell(current[c], "queued") /\ Finish(c)
     ELSE Retried(c, {target[current[c]]}) /\ UNCHANGED <<session, told>>
  /\ audio' = IF task[c] = "create" THEN audio \ {rec[c]} ELSE audio
  /\ UNCHANGED <<requests, outbox>>

(* DatabaseUnavailableError: the request stays queued; the session goes on    *)
(* from it, a retry leaves the recording for the next run.                    *)
Unavailable(c) ==
  /\ "unavailable" \in MayHappen
  /\ IF Saving(c)
     THEN Capture(c, current[c], "pending") /\ Tell(current[c], "queued") /\ Finish(c)
     ELSE Retried(c, {target[current[c]]}) /\ UNCHANGED <<session, told>>
  /\ UNCHANGED <<requests, outbox, audio>>

(* Any other error: save and create archive the request, a retry just raises. *)
StoreRaises(c) ==
  /\ IF Saving(c)
     THEN Goto(c, "abandon") /\ UNCHANGED <<task, current, listed, blocked>>
     ELSE Finish(c)
  /\ UNCHANGED <<chain, requests, outbox, audio, session, told>>

Answer(c, label) ==
  /\ Goto(c, label)
  /\ UNCHANGED <<requests, outbox, audio, task, current, listed, blocked, session, told>>

(* Faulty variant: a retry does not ask whether the revision exists. *)
CheckNothing(c) ==
  /\ pc[c] = "check"
  /\ Answer(c, "apply")
  /\ UNCHANGED chain

(* The query of _load_idempotent_revision. *)
Check(c) ==
  /\ pc[c] = "check"
  /\ \/ Answer(c, IF Stored(current[c]) THEN "applied" ELSE "apply") /\ UNCHANGED chain
     \/ Unavailable(c) /\ UNCHANGED chain

Commits(c) ==
  LET o == current[c] IN
  head(target[o]) = parent[o] /\ Store!Commit(target[o], o)

(* The rest of the transaction. When another call has committed this very    *)
(* request since Check, either the head is read after that commit and has    *)
(* moved, or the primary key is taken.                                        *)
Apply(c) ==
  LET o == current[c]
      r == target[o]
  IN
  /\ pc[c] = "apply"
  /\ \/ Commits(c) /\ (Answer(c, "applied") \/ Unavailable(c))
     \/ /\ parent[o] # NoOperation /\ chain[r] # <<>> /\ head(r) # parent[o]
        /\ Answer(c, "conflict") /\ UNCHANGED chain
     \/ /\ \/ "refuse" \in MayHappen /\ head(r) = parent[o]
           \/ Stored(o)
           \/ parent[o] = NoOperation /\ chain[r] # <<>>
           \/ parent[o] # NoOperation /\ chain[r] = <<>>
        /\ StoreRaises(c)
     \/ Unavailable(c) /\ UNCHANGED chain

-----------------------------------------------------------------------------
(* FileRecoveryOutbox.mark_applied and archive move the first active file.   *)
(* Each finds the file first, and another client may move it in between.      *)

MoveMayFail(c) == "storage" \in MayHappen \/ \E d \in Client : d # c

Remove(o) ==
  IF o \in pending
  THEN pending' = pending \ {o} /\ UNCHANGED conflicts
  ELSE conflicts' = conflicts \ {o} /\ UNCHANGED pending

Active(o) == o \in pending \cup conflicts

MarkApplied(c) ==
  LET o      == current[c]
      moved  == Active(o) /\ Remove(o) /\ applied' = applied \cup {o}
      absent == ~Active(o) /\ UNCHANGED <<pending, conflicts, applied>>
      failed == MoveMayFail(c) /\ UNCHANGED <<pending, conflicts, applied>>
  IN
  /\ pc[c] = "applied"
  /\ UNCHANGED <<chain, requests, archive, audio>>
  /\ \/ /\ Saving(c)
        /\ \/ moved \/ (absent /\ o \in applied) \/ failed
        /\ Capture(c, o, "synced") /\ Tell(o, "saved") /\ Finish(c)
     \/ /\ Saving(c) /\ absent /\ o \notin applied
        /\ IF task[c] = "save"
           THEN Capture(c, o, "synced") /\ Finish(c)
           ELSE Raise(c)
        /\ UNCHANGED told
     \/ /\ Retrying(c)
        /\ moved \/ (absent /\ o \in applied)
        /\ Tell(o, "saved") /\ Retried(c, {})
        /\ UNCHANGED session
     \/ /\ Retrying(c)
        /\ failed \/ (absent /\ o \notin applied)
        /\ Finish(c)
        /\ UNCHANGED <<session, told>>

(* Faulty variant: a conflict does not stop the chain of its recording. *)
ConflictKnownOnce(c) ==
  /\ Tell(current[c], "conflict")
  /\ IF Saving(c)
     THEN Capture(c, base[c], "conflict") /\ Finish(c)
     ELSE Retried(c, {}) /\ UNCHANGED session

(* SaveConflict, or a retry that ends in a conflict. *)
ConflictKnown(c) ==
  /\ Tell(current[c], "conflict")
  /\ IF Saving(c)
     THEN Capture(c, base[c], "conflict") /\ Finish(c)
     ELSE Retried(c, {target[current[c]]}) /\ UNCHANGED session

(* mark_conflict finds the source envelope and reads it, and has from now on   *)
(* what it is going to write, whatever becomes of the file.                   *)
ReadEnvelope(c) ==
  LET o == current[c] IN
  /\ pc[c] = "conflict"
  /\ \/ /\ Active(o)
        /\ Goto(c, IF o \in pending THEN "write" ELSE "rewrite")
        /\ UNCHANGED <<task, current, listed, blocked, session>>
     \/ /\ ~Active(o) \/ MoveMayFail(c)
        /\ Raise(c)
  /\ UNCHANGED <<chain, requests, outbox, audio, told>>

(* Faulty variant: the file is unlinked from pending/ first. *)
UnlinkBeforeWriting(c) ==
  /\ pc[c] \in {"write", "rewrite"}
  /\ pending' = pending \ {current[c]}
  /\ Goto(c, "unlink")
  /\ UNCHANGED <<chain, requests, conflicts, applied, archive, audio, task, current,
                 listed, blocked, session, told>>

(* The envelope is written to conflicts/. Another client may have settled the *)
(* operation since it was read: then it is active once more.                  *)
WriteConflict(c) ==
  LET o == current[c] IN
  /\ pc[c] \in {"write", "rewrite"}
  /\ UNCHANGED <<chain, requests, pending, applied, archive, audio>>
  /\ \/ /\ conflicts' = conflicts \cup {o}
        /\ IF pc[c] = "write"
           THEN Goto(c, "unlink") /\ UNCHANGED <<task, current, listed, blocked, session, told>>
           ELSE ConflictKnown(c)
     \/ /\ "storage" \in MayHappen
        /\ Raise(c)
        /\ UNCHANGED <<conflicts, told>>

(* A source in pending/ is unlinked at last. *)
UnlinkPending(c) ==
  LET o == current[c] IN
  /\ pc[c] = "unlink"
  /\ UNCHANGED <<chain, requests, conflicts, applied, archive, audio>>
  /\ \/ /\ o \in pending
        /\ pending' = pending \ {o}
        /\ ConflictKnown(c)
     \/ /\ o \notin pending \/ "storage" \in MayHappen
        /\ Raise(c)
        /\ UNCHANGED <<pending, told>>

(* _archive_best_effort, after which save and create raise. *)
Abandon(c) ==
  LET o == current[c] IN
  /\ pc[c] = "abandon"
  /\ \/ Active(o) /\ Remove(o) /\ archive' = archive \cup {o}
     \/ /\ ~Active(o) \/ MoveMayFail(c)
        /\ UNCHANGED <<pending, conflicts, archive>>
  /\ Raise(c) /\ DiscardAudio(c)
  /\ UNCHANGED <<chain, requests, applied, told>>

-----------------------------------------------------------------------------
(* RecoveryHandler.retry: get_active, then the request is sent again. *)
BeginRetry(c, o) ==
  /\ pc[c] = "idle"
  /\ Active(o)
  /\ current' = [current EXCEPT ![c] = o]
  /\ task' = [task EXCEPT ![c] = "retry"]
  /\ Goto(c, "check")
  /\ UNCHANGED <<chain, requests, outbox, audio, listed, blocked, session, told>>

(* Faulty variant: the recordings with pending saves are blocked. *)
BlockPending(c) ==
  /\ pc[c] = "idle"
  /\ blocked' = [blocked EXCEPT ![c] = {target[o] : o \in pending}]
  /\ task' = [task EXCEPT ![c] = "retry_all"]
  /\ Goto(c, "scan")
  /\ UNCHANGED <<chain, requests, outbox, audio, current, listed, session, told>>

(* RecoveryHandler.retry_all lists conflicts/ ... *)
BeginRetryAll(c) ==
  /\ pc[c] = "idle"
  /\ blocked' = [blocked EXCEPT ![c] = {target[o] : o \in conflicts}]
  /\ task' = [task EXCEPT ![c] = "retry_all"]
  /\ Goto(c, "scan")
  /\ UNCHANGED <<chain, requests, outbox, audio, current, listed, session, told>>

(* ... then pending/. *)
ListPending(c) ==
  /\ pc[c] = "scan" /\ task[c] = "retry_all"
  /\ listed' = [listed EXCEPT ![c] = pending]
  /\ Goto(c, "next")
  /\ UNCHANGED <<chain, requests, outbox, audio, task, current, blocked, session, told>>

(* Faulty variant: an operation without parent waits as well. *)
ReadyWithParent(c) ==
  {o \in listed[c] : /\ target[o] \notin blocked[c]
                     /\ parent[o] \notin listed[c] \cup {NoOperation}}

Ready(c) == {o \in listed[c] : target[o] \notin blocked[c] /\ parent[o] \notin listed[c]}

(* The next operation whose parent is not waiting; which one comes first is a *)
(* matter of created_at. Its file may have gone since it was listed.          *)
RetryNext(c) ==
  /\ pc[c] = "next"
  /\ \/ Ready(c) = {} /\ Finish(c)
     \/ \E o \in Ready(c) :
          IF Active(o)
          THEN /\ listed' = [listed EXCEPT ![c] = @ \ {o}]
               /\ current' = [current EXCEPT ![c] = o]
               /\ Goto(c, "check")
               /\ UNCHANGED <<task, blocked>>
          ELSE Finish(c)
  /\ UNCHANGED <<chain, requests, outbox, audio, session, told>>

(* RecoveryHandler.archive *)
Archive(c, o) ==
  /\ "archive" \in MayHappen
  /\ pc[c] = "idle"
  /\ Active(o) /\ Remove(o) /\ archive' = archive \cup {o}
  /\ abandoned' = abandoned \cup {o}
  /\ UNCHANGED <<chain, requests, applied, audio, call, session, ack>>

(* RecordingHandler.open, and reload when the client has a session: both     *)
(* refuse when the recording has an operation in pending/ ...                 *)
BeginLoad(c, r) ==
  /\ pc[c] = "idle"
  /\ sync[c] = "none" \/ r = rec[c]
  /\ Of(pending, r) = {}
  /\ rec' = [rec EXCEPT ![c] = r]
  /\ task' = [task EXCEPT ![c] = "load"]
  /\ Goto(c, "scan")
  /\ UNCHANGED <<chain, requests, outbox, audio, current, listed, blocked, base, sync, told>>

(* ... or in conflicts/ ... *)
BeginQuery(c) ==
  /\ pc[c] = "scan" /\ task[c] = "load"
  /\ \/ /\ Of(conflicts, rec[c]) = {}
        /\ Goto(c, "load")
        /\ UNCHANGED <<task, current, listed, blocked, session>>
     \/ /\ Of(conflicts, rec[c]) # {}
        /\ Raise(c)
  /\ UNCHANGED <<chain, requests, outbox, audio, told>>

(* ... and take the head the store answers with. *)
Load(c) ==
  /\ pc[c] = "load"
  /\ \/ /\ chain[rec[c]] # <<>>
        /\ Capture(c, head(rec[c]), "synced")
        /\ Finish(c)
     \/ /\ chain[rec[c]] = <<>> \/ "unavailable" \in MayHappen
        /\ Raise(c)
  /\ UNCHANGED <<chain, requests, outbox, audio, told>>

Forget(c) ==
  /\ rec' = [rec EXCEPT ![c] = NoRecording]
  /\ base' = [base EXCEPT ![c] = NoOperation]
  /\ sync' = [sync EXCEPT ![c] = "none"]

(* RecordingEditSession.close *)
Close(c) ==
  /\ pc[c] = "idle" /\ sync[c] # "none"
  /\ Forget(c)
  /\ UNCHANGED <<chain, requests, outbox, audio, call, told>>

(* The process dies: its memory is gone, the files and the store stay. *)
Crash(c) ==
  /\ "crash" \in MayHappen
  /\ pc[c] # "idle"
  /\ Finish(c) /\ Forget(c)
  /\ UNCHANGED <<chain, requests, outbox, audio, told>>

(* A save from another machine, which has an outbox of its own. *)
RemoteSave(r, o) ==
  /\ "remote" \in MayHappen
  /\ Fresh(o) /\ chain[r] # <<>>
  /\ target' = [target EXCEPT ![o] = r]
  /\ parent' = [parent EXCEPT ![o] = head(r)]
  /\ Store!Commit(r, o)
  /\ UNCHANGED <<outbox, audio, call, session, told>>

-----------------------------------------------------------------------------
Proceed(c) ==
  \/ BeginRequest(c) \/ Enqueue(c) \/ Check(c) \/ Apply(c)
  \/ MarkApplied(c) \/ ReadEnvelope(c) \/ WriteConflict(c) \/ UnlinkPending(c)
  \/ Abandon(c) \/ ListPending(c) \/ RetryNext(c) \/ BeginQuery(c) \/ Load(c)

Begin(c) ==
  \/ BeginSave(c) \/ BeginRetryAll(c) \/ Close(c)
  \/ \E o \in Operation : BeginRetry(c, o) \/ Archive(c, o)
  \/ \E r \in Recording : BeginLoad(c, r) \/ \E o \in Operation : BeginCreate(c, r, o)

Init ==
  /\ Store!Init
  /\ target = [o \in Operation |-> NoRecording]
  /\ parent = [o \in Operation |-> NoOperation]
  /\ pending = {} /\ conflicts = {} /\ applied = {} /\ archive = {}
  /\ pc = [c \in Client |-> "idle"]
  /\ task = [c \in Client |-> "none"]
  /\ current = [c \in Client |-> NoOperation]
  /\ listed = [c \in Client |-> {}]
  /\ blocked = [c \in Client |-> {}]
  /\ rec = [c \in Client |-> NoRecording]
  /\ base = [c \in Client |-> NoOperation]
  /\ sync = [c \in Client |-> "none"]
  /\ audio = {}
  /\ ack = [o \in Operation |-> "none"]
  /\ abandoned = {}

Next ==
  \/ \E c \in Client : Begin(c) \/ Proceed(c) \/ Crash(c)
  \/ \E r \in Recording, o \in Operation : RemoteSave(r, o)

Spec == Init /\ [][Next]_vars

(* A call that runs goes on, pending saves are retried again and again        *)
(* ("Retry Pending Saves"), the store does not stay away whenever it is asked *)
(* for the same request, and there is a last crash.                           *)
Answered(c) == pc'[c] \in {"apply", "applied", "conflict", "abandon"}

FairSpec ==
  /\ Spec
  /\ \A c \in Client :
       /\ WF_vars(Proceed(c))
       /\ SF_vars(BeginRetryAll(c))
       /\ \A o \in Operation : /\ SF_vars(current[c] = o /\ Check(c) /\ Answered(c))
                               /\ SF_vars(current[c] = o /\ Apply(c) /\ Answered(c))
  /\ <>[][\A c \in Client : ~Crash(c)]_vars

-----------------------------------------------------------------------------
Kept == pending \cup conflicts \cup applied \cup archive

(* What a caller was told of a save stays true through crashes, failing files *)
(* and other clients of the same outbox: "saved" is in the store, as is what  *)
(* the applied/ directory names, and "queued" is in the store or can still be *)
(* retried, unless someone archived it.                                       *)
(* (RecordingEditSession.save, RecordingHandler.create, RecoveryHandler)      *)
AcknowledgedSaveSurvives ==
  \A o \in Operation :
    /\ ack[o] = "saved" \/ o \in applied => Stored(o)
    /\ ack[o] = "queued" => Stored(o) \/ Active(o) \/ o \in abandoned

(* No step loses an envelope: whatever client, error or crash comes between   *)
(* the file accesses of mark_conflict, a record that was written is in some   *)
(* directory.  (FileRecoveryOutbox)                                           *)
RecordsAreRetained == [][\A o \in Kept : o \in Kept']_vars

(* With one client, an operation that the store refuses or that is marked as  *)
(* a conflict is really not in the store: no save that took effect is         *)
(* reported as failed.  (save, retry)                                         *)
RefusalIsGenuine ==
  \A c \in Client :
    pc[c] \in {"conflict", "write", "rewrite", "unlink", "abandon"} => ~Stored(current[c])

(* With one client, retry_all never sends a request of a recording that has a *)
(* conflict on file, nor one whose parent is not committed unless the parent  *)
(* was archived: children of a conflict make no secondary conflicts.          *)
(* (RecoveryHandler.retry_all)                                                *)
ChainStopsAtConflict ==
  \A c \in Client : task[c] = "retry_all" /\ pc[c] = "apply" =>
    /\ Of(conflicts, target[current[c]]) = {}
    /\ LET p == parent[current[c]] IN
         p = NoOperation \/ Stored(p) \/ p \in archive

(* retry_all never finds itself without a ready operation while one of an     *)
(* unblocked recording is left, so it never raises the cycle error.           *)
NoDependencyCycle ==
  \A c \in Client : pc[c] = "next" /\ Ready(c) = {}
                     => \A o \in listed[c] : target[o] \in blocked[c]

(* With one client, and files that can be moved, a committed recording has    *)
(* its audio: create discards the copy it ingested only when the store has    *)
(* not committed the recording and no envelope is left that may.  (create)    *)
StoredHasAudio == \A r \in Recording : chain[r] # <<>> => r \in audio

(* Whatever calls, errors, crashes and other clients come between the steps   *)
(* of a save, sessions, outbox and store keep SaveContract: a session moves   *)
(* only along the requests it makes or to the head, never from a queued save  *)
(* that still waits, and what it builds on is committed, on file, or was      *)
(* archived on request.  (RecordingEditSession, FileRecoveryOutbox)           *)
Contract == INSTANCE SaveContract WITH
  stored <- {o \in Operation : Stored(o)},
  newest <- [r \in Recording |-> head(r)],
  withdrawn <- abandoned,
  on <- [c \in Client |-> IF sync[c] = "none" THEN NoRecording ELSE rec[c]]
KeepsContract == Contract!Spec

(* A pending save leaves pending/, or its recording has a conflict: whatever  *)
(* was lost, and however many crashes left it where they did, the retries     *)
(* after the last crash send every save of a healthy recording.               *)
(* (RecoveryHandler.retry_all)                                                *)
PendingDrains ==
  \A o \in Operation :
    o \in pending ~> o \notin pending \/ Of(conflicts, target[o]) # {}
=============================================================================
