----------------------------- MODULE EditSession -----------------------------
(***************************************************************************)
(* RecordingEditSession: the editable state of one recording, its undo and *)
(* redo stacks, the checkpoint that "dirty" is measured against, and the   *)
(* base revision the next save names as parent.                            *)
(*                                                                         *)
(* A save runs in a worker thread of the GUI, which reads the session when *)
(* it builds its request and writes it when the store has answered; all    *)
(* other calls come from the GUI thread, through WorkbenchController, which *)
(* refuses them while the worker runs.                                     *)
(*                                                                         *)
(* The store and the recovery outbox are here in outline: retries, archive *)
(* and saves from elsewhere are single steps.  SaveRecovery and            *)
(* RecordingStore have their detail.                                       *)
(***************************************************************************)
EXTENDS SequencesExt

CONSTANTS Id,          \* annotation ids
          Library,     \* library versions, namespace@version
          Name,        \* values of the recording's other fields
          Revision, NoRevision,
          Elsewhere,   \* what other sessions save
          MaxBatch,    \* bound: annotations added by one call
          MaxUndo      \* bound: edits on the undo stack

(* An annotation, reduced to its id and the library its concept is from. *)
Annotation == [id: Id, library: Library]

(* What a revision holds; _EditableState adds two caches computed from it. *)
Snapshot == [name: Name, libraries: Seq(Library), annotations: Seq(Annotation)]
State    == [name: Name, libraries: Seq(Library), annotations: Seq(Annotation),
             validation: SUBSET Library,
             index: UNION {[ids -> Annotation] : ids \in SUBSET Id}]

(* What the store accepts: RecordingRepository refuses anything else. *)
Acceptable(s) ==
  /\ IsInjective(s.libraries)
  /\ \A i, j \in DOMAIN s.annotations :
       s.annotations[i].id = s.annotations[j].id => i = j
  /\ \A i \in DOMAIN s.annotations : s.annotations[i].library \in ToSet(s.libraries)

NoContent == [name |-> "none"]

ASSUME RevisionAssumption == NoRevision \notin Revision
ASSUME ElsewhereAssumption == \A s \in Elsewhere : s \in Snapshot /\ Acceptable(s)
ASSUME BoundAssumption == MaxBatch \in Nat /\ MaxUndo \in Nat

VARIABLES
  state, checkpoint,   \* _state and _checkpoint of the session
  undo, redo,          \* stacks of states, the top is last
  base, sync, closed,
  sending,             \* the request that the worker is saving
  chain,               \* the store: revisions, the head is last
  contents, parent,    \* of every revision that has been requested
  pending, conflicts   \* the recording's operations in the outbox

stacks  == <<undo, redo>>
store   == <<chain, contents, parent>>
outbox  == <<pending, conflicts>>
session == <<state, checkpoint, stacks, base, sync, closed>>
vars    == <<session, sending, store, outbox>>

TypeOK ==
  /\ state \in State /\ checkpoint \in State
  /\ undo \in Seq(State) /\ redo \in Seq(State)
  /\ base \in Revision
  /\ sync \in {"synced", "pending", "conflict"}
  /\ closed \in BOOLEAN
  /\ sending \in Revision \cup {NoRevision}
  /\ chain \in Seq(Revision)
  /\ contents \in [Revision -> Snapshot \cup {NoContent}]
  /\ parent \in [Revision -> Revision \cup {NoRevision}]
  /\ pending \in SUBSET Revision /\ conflicts \in SUBSET Revision

Content(s) == [name |-> s.name, libraries |-> s.libraries, annotations |-> s.annotations]

(* Equality of _EditableState leaves the caches out. *)
Same(s, t) == Content(s) = Content(t)
dirty == ~Same(state, checkpoint)

IndexOf(annotations) ==
  [d \in {annotations[i].id : i \in DOMAIN annotations} |->
     CHOOSE a \in ToSet(annotations) : a.id = d]

(* dict.update *)
Updated(index, more) ==
  [d \in DOMAIN index \cup DOMAIN more |->
     IF d \in DOMAIN more THEN more[d] ELSE index[d]]

StateFrom(s, validation) ==
  [name |-> s.name, libraries |-> s.libraries, annotations |-> s.annotations,
   validation |-> validation, index |-> IndexOf(s.annotations)]

(* The validator of the present state is kept when the pins are the same. *)
ValidationFor(libraries) ==
  IF state.libraries = libraries THEN state.validation ELSE ToSet(libraries)

(* Faulty variant: nothing keeps the GUI thread from editing during a save. *)
FreeWhileSending == ~closed

Free == ~closed /\ sending = NoRevision

-----------------------------------------------------------------------------
(* Edits *)

(* Faulty variant: what was undone stays on the redo stack. *)
MutateKeepingRedo(s) ==
  /\ Free
  /\ ~Same(s, state)
  /\ Len(undo) < MaxUndo
  /\ undo' = Append(undo, state)
  /\ state' = s
  /\ UNCHANGED <<redo, checkpoint, base, sync, closed, sending, store, outbox>>

Mutate(s) ==
  /\ Free
  /\ ~Same(s, state)
  /\ Len(undo) < MaxUndo
  /\ undo' = Append(undo, state)
  /\ state' = s
  /\ redo' = <<>>
  /\ UNCHANGED <<checkpoint, base, sync, closed, sending, store, outbox>>

SetName(n) == Mutate([state EXCEPT !.name = n])

AddAnnotations(batch) ==
  /\ \A i \in DOMAIN batch :
       /\ batch[i].id \notin DOMAIN state.index
       /\ \A j \in DOMAIN batch : batch[i].id = batch[j].id => i = j
       /\ batch[i].library \in state.validation
  /\ Mutate([state EXCEPT !.annotations = @ \o batch,
                          !.index = Updated(@, IndexOf(batch))])

ReplaceAnnotation(a) ==
  /\ a.id \in DOMAIN state.index
  /\ a # state.index[a.id]
  /\ a.library \in state.validation
  /\ \E i \in DOMAIN state.annotations :
       /\ state.annotations[i].id = a.id
       /\ Mutate([state EXCEPT !.annotations[i] = a, !.index[a.id] = a])

(* Faulty variant: the annotation stays in the index. *)
RemoveFromListOnly(d) ==
  /\ d \in DOMAIN state.index
  /\ \E i \in DOMAIN state.annotations :
       /\ state.annotations[i].id = d
       /\ Mutate([state EXCEPT !.annotations = RemoveAt(@, i)])

RemoveAnnotation(d) ==
  /\ d \in DOMAIN state.index
  /\ \E i \in DOMAIN state.annotations :
       /\ state.annotations[i].id = d
       /\ Mutate([state EXCEPT !.annotations = RemoveAt(@, i),
                               !.index = Restrict(@, DOMAIN @ \ {d})])

Repin(libraries) ==
  Mutate([state EXCEPT !.libraries = libraries, !.validation = ToSet(libraries)])

PinLibraryVersion(l) ==
  /\ l \notin ToSet(state.libraries)
  /\ Repin(Append(state.libraries, l))

(* Faulty variant: annotations may still refer to the library. *)
UnpinReferenced(l) ==
  \E i \in DOMAIN state.libraries :
    /\ state.libraries[i] = l
    /\ Repin(RemoveAt(state.libraries, i))

UnpinLibraryVersion(l) ==
  /\ \A i \in DOMAIN state.annotations : state.annotations[i].library # l
  /\ \E i \in DOMAIN state.libraries :
       /\ state.libraries[i] = l
       /\ Repin(RemoveAt(state.libraries, i))

(* Faulty variant: a restored revision replaces the state, as reload does. *)
RestoreInPlace(r) ==
  /\ Free
  /\ r \in ToSet(chain)
  /\ state' = StateFrom(contents[r], ValidationFor(contents[r].libraries))
  /\ undo' = <<>> /\ redo' = <<>>
  /\ UNCHANGED <<checkpoint, base, sync, closed, sending, store, outbox>>

RestoreRevision(r) ==
  /\ r \in ToSet(chain)
  /\ Mutate(StateFrom(contents[r], ValidationFor(contents[r].libraries)))

Undo ==
  /\ Free
  /\ undo # <<>>
  /\ redo' = Append(redo, state)
  /\ state' = Last(undo)
  /\ undo' = Front(undo)
  /\ UNCHANGED <<checkpoint, base, sync, closed, sending, store, outbox>>

Redo ==
  /\ Free
  /\ redo # <<>>
  /\ undo' = Append(undo, state)
  /\ state' = Last(redo)
  /\ redo' = Front(redo)
  /\ UNCHANGED <<checkpoint, base, sync, closed, sending, store, outbox>>

-----------------------------------------------------------------------------
(* The life of a session *)

Forget == undo' = <<>> /\ redo' = <<>>

ClearEditHistory ==
  /\ Free
  /\ Forget
  /\ UNCHANGED <<state, checkpoint, base, sync, closed, sending, store, outbox>>

RecoveryDecided == pending = {} /\ conflicts = {}

StartFrom(s) ==
  /\ state' = s /\ checkpoint' = s
  /\ base' = Last(chain)
  /\ sync' = "synced"
  /\ Forget
  /\ UNCHANGED <<sending, store, outbox>>

(* Faulty variant: reload does not ask for operations on file. *)
ReloadRegardless ==
  /\ Free
  /\ LET head == contents[Last(chain)]
     IN  StartFrom(StateFrom(head, ValidationFor(head.libraries)))
  /\ UNCHANGED closed

(* Everything is read before the first assignment, so a failure changes nothing. *)
Reload ==
  /\ Free
  /\ RecoveryDecided
  /\ LET head == contents[Last(chain)]
     IN  StartFrom(StateFrom(head, ValidationFor(head.libraries)))
  /\ UNCHANGED closed

DiscardUnsavedChanges ==
  /\ Free
  /\ RecoveryDecided
  /\ state' = checkpoint
  /\ Forget
  /\ UNCHANGED <<checkpoint, base, sync, closed, sending, store, outbox>>

Close(discard) ==
  /\ Free
  /\ dirty => discard
  /\ state' = IF discard THEN checkpoint ELSE state
  /\ Forget
  /\ closed' = TRUE
  /\ UNCHANGED <<checkpoint, base, sync, sending, store, outbox>>

(* RecordingHandler.open makes a new session. *)
Open ==
  /\ closed
  /\ RecoveryDecided
  /\ LET head == contents[Last(chain)] IN StartFrom(StateFrom(head, ToSet(head.libraries)))
  /\ closed' = FALSE

-----------------------------------------------------------------------------
(* Saving *)

Capture(r, answer) ==
  /\ base' = r
  /\ checkpoint' = state
  /\ sync' = answer
  /\ UNCHANGED <<state, stacks, closed>>

Request(r, p, s) ==
  /\ contents[r] = NoContent
  /\ contents' = [contents EXCEPT ![r] = s]
  /\ parent' = [parent EXCEPT ![r] = p]

(* A session that has a queued save queues the next one behind it. *)
Save(r) ==
  /\ Free
  /\ sync # "conflict" /\ conflicts = {}
  /\ sync # "pending" => pending = {}
  /\ Request(r, base, Content(state))
  /\ pending' = pending \cup {r}
  /\ \/ sync = "pending" /\ Capture(r, "pending") /\ UNCHANGED sending
     \/ sync # "pending" /\ sending' = r /\ UNCHANGED session
  /\ UNCHANGED <<chain, conflicts>>

(* save raises, because the recording has a conflict. *)
SaveRefused ==
  /\ Free
  /\ conflicts # {}
  /\ sync' = "conflict"
  /\ UNCHANGED <<state, checkpoint, stacks, base, closed, sending, store, outbox>>

Commits(r)  == r \in ToSet(chain) \/ parent[r] = Last(chain)
Committed(r) == IF r \in ToSet(chain) THEN chain ELSE Append(chain, r)

(* mark_applied and archive move the file in pending/ if there is one. *)
Drop(r) ==
  \/ r \in pending /\ pending' = pending \ {r} /\ UNCHANGED conflicts
  \/ r \notin pending /\ conflicts' = conflicts \ {r} /\ UNCHANGED pending

Conflict(r) == pending' = pending \ {r} /\ conflicts' = conflicts \cup {r}

(* mark_conflict raises: the file was archived before it was found, or some   *)
(* access to it failed, before conflicts/ was written or after.               *)
ConflictFails(r) == conflicts' \in {conflicts, conflicts \cup {r}} /\ UNCHANGED pending

(* mark_applied may fail; save does not report it. *)
Saved ==
  /\ Commits(sending)
  /\ chain' = Committed(sending)
  /\ Capture(sending, "synced")
  /\ Drop(sending) \/ UNCHANGED outbox

(* The answer is lost, or the store was not reached. *)
Queued ==
  /\ chain' = chain \/ (Commits(sending) /\ chain' = Committed(sending))
  /\ Capture(sending, "pending")
  /\ UNCHANGED outbox

(* When the conflict cannot be marked, save raises and the session is as it was. *)
SaveConflict ==
  /\ ~Commits(sending)
  /\ \/ /\ sending \in pending \cup conflicts
        /\ Conflict(sending)
        /\ sync' = "conflict"
     \/ ConflictFails(sending) /\ UNCHANGED sync
  /\ UNCHANGED <<chain, state, checkpoint, stacks, base, closed>>

(* Any other error: the operation is archived, if that does not fail as well. *)
SaveFailed ==
  /\ Drop(sending) \/ UNCHANGED outbox
  /\ UNCHANGED <<chain, session>>

Answer ==
  /\ sending # NoRevision
  /\ Saved \/ Queued \/ SaveConflict \/ SaveFailed
  /\ sending' = NoRevision
  /\ UNCHANGED <<contents, parent>>

-----------------------------------------------------------------------------
(* Around the session *)

Retry(r) ==
  /\ r \in pending \cup conflicts
  /\ \/ Commits(r) /\ chain' = Committed(r) /\ (Drop(r) \/ UNCHANGED outbox)
     \/ ~Commits(r) /\ (Conflict(r) \/ ConflictFails(r)) /\ UNCHANGED chain
  /\ UNCHANGED <<session, sending, contents, parent>>

Archive(r) ==
  /\ r \in pending \cup conflicts
  /\ Drop(r)
  /\ UNCHANGED <<session, sending, store>>

SaveElsewhere(r, s) ==
  /\ Request(r, Last(chain), s)
  /\ chain' = Append(chain, r)
  /\ UNCHANGED <<session, sending, outbox>>

-----------------------------------------------------------------------------
Batch == UNION {[1..n -> Annotation] : n \in 1..MaxBatch}

Edit ==
  \/ \E n \in Name : SetName(n)
  \/ \E batch \in Batch : AddAnnotations(batch)
  \/ \E a \in Annotation : ReplaceAnnotation(a)
  \/ \E d \in Id : RemoveAnnotation(d)
  \/ \E l \in Library : PinLibraryVersion(l) \/ UnpinLibraryVersion(l)
  \/ \E r \in Revision : RestoreRevision(r)

Init ==
  \E r \in Revision, s \in Elsewhere :
    /\ chain = <<r>>
    /\ contents = [q \in Revision |-> IF q = r THEN s ELSE NoContent]
    /\ parent = [q \in Revision |-> NoRevision]
    /\ state = StateFrom(s, ToSet(s.libraries)) /\ checkpoint = state
    /\ undo = <<>> /\ redo = <<>>
    /\ base = r /\ sync = "synced" /\ closed = FALSE
    /\ sending = NoRevision
    /\ pending = {} /\ conflicts = {}

Next ==
  \/ Edit \/ Undo \/ Redo
  \/ ClearEditHistory \/ Reload \/ DiscardUnsavedChanges \/ Open
  \/ \E discard \in BOOLEAN : Close(discard)
  \/ SaveRefused \/ Answer
  \/ \E r \in Revision : Save(r) \/ Retry(r) \/ Archive(r)
  \/ \E r \in Revision, s \in Elsewhere : SaveElsewhere(r, s)

Spec == Init /\ [][Next]_vars

-----------------------------------------------------------------------------
(* Properties *)

history == {state, checkpoint} \cup ToSet(undo) \cup ToSet(redo)

(* Whatever undo, redo, restore_revision and discard bring back can be     *)
(* saved: its annotation ids are unique and the library of every concept   *)
(* is pinned in that same state (edit_session.py, add_annotations to       *)
(* unpin_library_version validate only what they change).                  *)
HistoryIsAcceptable == \A s \in history : Acceptable(s)

(* The annotation index and the validator that a state carries are those   *)
(* of its own annotations and pins, also after undo and redo: a stale one  *)
(* would let an edit through, or end in "index and ordered annotations     *)
(* diverged" (edit_session.py:383).                                        *)
CachesAreFresh ==
  \A s \in history :
    /\ s.validation = ToSet(s.libraries)
    /\ DOMAIN s.index = {s.annotations[i].id : i \in DOMAIN s.annotations}
    /\ \A i \in DOMAIN s.annotations : s.index[s.annotations[i].id] = s.annotations[i]

(* What the session takes for unchanged is what its base revision holds.   *)
(* save assigns the checkpoint from the state when the store has answered, *)
(* not from the request it sent: an edit between the two would count as    *)
(* saved and be lost (edit_session.py:631).                                *)
CheckpointIsBase == Content(checkpoint) = contents[base]

(* An unsaved state is given up only by a call that says so; any other     *)
(* step that leaves it, restore_revision and the answer of a save          *)
(* included, keeps it within reach of undo or redo.                        *)
UnsavedStateStaysInReach ==
  [][dirty /\ state' # state =>
       \/ state \in ToSet(undo') \cup ToSet(redo')
       \/ Reload \/ DiscardUnsavedChanges \/ Close(TRUE)]_vars

(* Undo and redo walk along one line of states, each different from the    *)
(* next, and an edit cuts the line off: the session implements             *)
(* EditTimeline (edit_session.py, undo, redo and _mutate).                 *)
timeline == undo \o <<state>> \o Reverse(redo)
Timeline == INSTANCE EditTimeline WITH position <- Len(undo) + 1
ImplementsTimeline == Timeline!Spec

(* The outline of saving in this module keeps the contract that SaveRecovery  *)
(* keeps in detail; the session is the one client. An operation that was      *)
(* archived counts as withdrawn while the session, its save or another        *)
(* request builds on it.  (RecordingEditSession.save, open and reload)        *)
requested == {o \in Revision : contents[o] # NoContent}
onFile    == pending \cup conflicts
needed    == {parent[o] : o \in Revision} \cup {IF closed THEN NoRevision ELSE base, sending}
Contract == INSTANCE SaveContract WITH
  Recording <- {"recording"}, NoRecording <- "none",
  Operation <- Revision, NoOperation <- NoRevision, Client <- {"session"},
  stored <- ToSet(chain),
  newest <- [r \in {"recording"} |-> Last(chain)],
  target <- [o \in Revision |-> IF o \in requested THEN "recording" ELSE "none"],
  withdrawn <- {o \in requested \cap needed : o \notin onFile \cup ToSet(chain)},
  on <- [c \in {"session"} |-> IF closed THEN "none" ELSE "recording"],
  base <- [c \in {"session"} |-> IF closed THEN NoRevision ELSE base],
  sync <- [c \in {"session"} |-> IF closed THEN "none" ELSE sync]
KeepsContract == Contract!Spec
=============================================================================
