---------------------------- MODULE SaveContract ----------------------------
(***************************************************************************)
(* What the sessions of one machine, its recovery outbox and the revision  *)
(* store owe each other, with nothing of the calls, files and transactions *)
(* that provide it: a session follows its recording link by link, and a    *)
(* revision that something builds on is committed, on file, or was given   *)
(* up on request.                                                          *)
(*                                                                         *)
(* The contract constrains each part of the state in every step, whoever   *)
(* takes it, so one step may commit a request, settle its file and move a  *)
(* session.  SaveRecovery, where each of these is a step of its own, and   *)
(* EditSession, where a save is answered in one step, both implement it.   *)
(***************************************************************************)
CONSTANTS Recording, NoRecording,
          Operation,    \* operation ids, each with its revision id
          NoOperation,  \* the parent of a first revision, the base of no session
          Client        \* who may hold an edit session

VARIABLES stored,          \* operations whose revision is committed
          newest,          \* the newest revision of each recording
          target, parent,  \* what a request is for, and what it builds on
          pending, conflicts,  \* operations on file, by directory
          withdrawn,       \* operations that were archived on request
          on, base, sync   \* each client's session: recording, base, sync state

shared  == <<stored, newest, target, parent>>
session == <<on, base, sync>>
vars    == <<shared, pending, conflicts, withdrawn, session>>

TypeOK ==
  /\ stored \in SUBSET Operation
  /\ newest \in [Recording -> Operation \cup {NoOperation}]
  /\ target \in [Operation -> Recording \cup {NoRecording}]
  /\ parent \in [Operation -> Operation \cup {NoOperation}]
  /\ pending \in SUBSET Operation /\ conflicts \in SUBSET Operation
  /\ withdrawn \in SUBSET Operation
  /\ on \in [Client -> Recording \cup {NoRecording}]
  /\ base \in [Client -> Operation \cup {NoOperation}]
  /\ sync \in [Client -> {"none", "synced", "pending", "conflict"}]

Requested(o) == target[o] # NoRecording

waiting == pending \cup conflicts

(* Something is built on o: a session would be lost without it, or a request. *)
Needed(o) == (\E c \in Client : base[c] = o) \/ (\E q \in Operation : parent[q] = o)

Safe(o) == o \in stored \cup waiting \cup withdrawn

-----------------------------------------------------------------------------
(* The store takes a request on top of the revision its recording ends with. *)
StoreStep ==
  \/ UNCHANGED <<stored, newest>>
  \/ \E o \in Operation \ stored :
       /\ target'[o] \in Recording
       /\ parent'[o] = newest[target'[o]]
       /\ stored' = stored \cup {o}
       /\ newest' = [newest EXCEPT ![target'[o]] = o]

(* A request is made once, and builds on nothing, on the head of its          *)
(* recording, or on the base of a session of the recording.                   *)
RequestStep ==
  \A o \in Operation :
    \/ target'[o] = target[o] /\ parent'[o] = parent[o]
    \/ /\ ~Requested(o)
       /\ target'[o] \in Recording
       /\ \/ parent'[o] = NoOperation
          \/ parent'[o] = newest[target'[o]]
          \/ \E c \in Client : on[c] = target'[o] /\ parent'[o] = base[c]

(* A request is put on file before it is committed, and leaves it when it is  *)
(* committed, was withdrawn, or when nothing was built on it. A conflict is   *)
(* written of what was on file a moment ago, and may have been settled since. *)
FileStep ==
  /\ \A o \in pending' \ pending : Requested(o)' /\ o \notin stored \cup withdrawn
  /\ \A o \in conflicts' \ conflicts : Requested(o)'
  /\ \A o \in waiting \ waiting' : o \in stored' \cup withdrawn' \/ ~Needed(o)'

(* Withdrawing a request changes nothing else, and is remembered as long as   *)
(* that makes a difference.                                                   *)
WithdrawStep ==
  /\ \/ withdrawn' \subseteq withdrawn
     \/ /\ \E o \in waiting : withdrawn' = withdrawn \cup {o}
        /\ UNCHANGED <<shared, session>>
  /\ \A o \in withdrawn \ withdrawn' : o \in stored' \/ ~Needed(o)'

Stays(c) == on'[c] = on[c] /\ base'[c] = base[c] /\ sync'[c] = sync[c]

(* A save: the session goes on from the request it made. Once a request had   *)
(* to be queued, the ones behind it are queued too.                           *)
Advances(c) ==
  \E o \in Operation :
    /\ sync[c] # "conflict"
    /\ parent'[o] = base[c] /\ target'[o] \in Recording
    /\ on[c] \in {target'[o], NoRecording}
    /\ on'[c] = target'[o] /\ base'[c] = o
    /\ \/ sync[c] # "pending" /\ sync'[c] = "synced" /\ o \in stored'
       \/ sync'[c] = "pending" /\ Safe(o)'

(* A session stops at a conflict only while the recording has one on file. *)
Stops(c) ==
  /\ sync[c] # "none" /\ sync'[c] = "conflict"
  /\ on'[c] = on[c] /\ base'[c] = base[c]
  /\ \E o \in conflicts' : target'[o] = on[c]

(* Opening and reloading: the session does not leave a request behind that is *)
(* neither committed nor withdrawn.                                           *)
Loads(c) ==
  /\ on'[c] \in Recording /\ on[c] \in {on'[c], NoRecording}
  /\ base[c] \in stored \cup withdrawn \cup {NoOperation}
  /\ base'[c] = newest[on'[c]] /\ base'[c] \in stored
  /\ sync'[c] = "synced"

Leaves(c) == on'[c] = NoRecording /\ base'[c] = NoOperation /\ sync'[c] = "none"

SessionStep ==
  \A c \in Client : Stays(c) \/ Advances(c) \/ Stops(c) \/ Loads(c) \/ Leaves(c)

-----------------------------------------------------------------------------
(* No link of a recording's line is lost: what a session or a request builds  *)
(* on is committed, on file or withdrawn, a committed revision has a          *)
(* committed parent, and a synchronized session a committed base.             *)
Sound ==
  /\ \A o \in Operation :
       /\ Requested(o) \/ (parent[o] = NoOperation /\ o \notin stored \cup waiting \cup withdrawn)
       /\ Needed(o) => Safe(o)
       /\ parent[o] \in Operation => target[parent[o]] = target[o]
       /\ o \in stored => parent[o] \in stored \cup {NoOperation}
  /\ \A r \in Recording :
       newest[r] # NoOperation => newest[r] \in stored /\ target[newest[r]] = r
  /\ \A c \in Client :
       /\ sync[c] = "none" => on[c] = NoRecording /\ base[c] = NoOperation
       /\ sync[c] # "none" => on[c] \in Recording /\ base[c] \in Operation
                              /\ target[base[c]] = on[c]
       /\ sync[c] = "synced" => base[c] \in stored

(* A machine may start on a store that already holds revisions. *)
Init ==
  /\ TypeOK
  /\ Sound
  /\ pending = {} /\ conflicts = {} /\ withdrawn = {}

Next == StoreStep /\ RequestStep /\ FileStep /\ WithdrawStep /\ SessionStep

Spec == Init /\ [][Next]_vars
=============================================================================
