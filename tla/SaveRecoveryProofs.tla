------------------------- MODULE SaveRecoveryProofs -------------------------
(***************************************************************************)
(* The inductive invariant of SaveRecovery, and the theorems it gives for  *)
(* any number of clients, recordings and operations and any choice of      *)
(* failures.                                                               *)
(*                                                                         *)
(* Directories only exchange envelopes and the store only grows, so most   *)
(* of the invariant survives a step of another client: Step(c) says all    *)
(* that a step of c may do to the state it shares, and Preserves that this *)
(* is enough, with the call and the session of c, for the invariant.       *)
(*                                                                         *)
(* What holds of one client only (OneClient: a refusal is genuine, the     *)
(* descendants of a conflict stay where they are, audio is kept) adds an   *)
(* invariant of its own to this one.                                       *)
(*                                                                         *)
(* The last section refines SaveContract: what a call of a client has read *)
(* and requested stays in line with the session of that client.            *)
(***************************************************************************)
EXTENDS SaveRecovery, SequenceTheorems, TLAPS

(* The statements between the write of an envelope and the end of its treatment. *)
Sending ==
  {"check", "apply", "applied", "conflict", "write", "rewrite", "unlink", "abandon"}

(* A client that works on a request, and one that made it and waits for its fate. *)
Works(c) == pc[c] \in Sending \cup {"enqueue"}
Owns(c)  == Saving(c) /\ Works(c)

(* What the place of a call says of its request. *)
CallInv(c) ==
  /\ Works(c) => current[c] \in Operation /\ ~Fresh(current[c])
  /\ pc[c] \in Sending => current[c] \in Kept
  /\ pc[c] \in {"enqueue", "abandon"} => Saving(c)
  /\ pc[c] = "enqueue" => current[c] \notin Kept /\ ack[current[c]] = "none"
  /\ pc[c] = "applied" => Stored(current[c])
  /\ pc[c] = "unlink" => current[c] \in conflicts \cup applied \cup archive
  /\ Owns(c) => target[current[c]] = rec[c]
  /\ Saving(c) /\ pc[c] \in Sending =>
       /\ ack[current[c]] # "queued"
       /\ current[c] \in archive => current[c] \in abandoned
  /\ task[c] = "create" => sync[c] = "none"
  /\ task[c] = "save" => sync[c] # "none"
  /\ task[c] = "load" => rec[c] \in Recording
  /\ pc[c] = "load" => task[c] = "load"
  /\ pc[c] = "next" => task[c] = "retry_all"
  /\ pc[c] = "idle" => task[c] = "none"

(* A request has one owner. *)
OneOwner == \A c, d \in Client : c # d /\ Owns(c) /\ Owns(d) => current[c] # current[d]

SessionInv(c) ==
  /\ sync[c] # "none" => rec[c] \in Recording
  /\ sync[c] \in {"synced", "pending"} =>
       /\ base[c] \in Operation /\ target[base[c]] = rec[c]
       /\ Stored(base[c]) \/ base[c] \in Kept
  /\ sync[c] = "synced" => Stored(base[c])

RecordInv(o) ==
  /\ o \in Kept => ~Fresh(o)
  /\ ack[o] # "none" => ~Fresh(o)
  /\ ack[o] = "saved" => Stored(o)
  /\ o \in applied => Stored(o)
  /\ ack[o] = "queued" => o \in Kept /\ (o \in archive => o \in abandoned)
  /\ Fresh(o) => parent[o] = NoOperation

ParentInv(o) ==
  \A p \in Operation : ~Fresh(o) /\ parent[o] = p =>
    /\ target[p] = target[o]
    /\ Stored(p) \/ p \in Kept

(* A committed revision is in the chain of the recording of its request. *)
Located == \A r \in Recording : \A n \in 1..Len(chain[r]) : target[chain[r][n].id] = r

IInv ==
  /\ TypeOK
  /\ Located
  /\ \A o \in Operation : RecordInv(o) /\ ParentInv(o)
  /\ \A c \in Client : CallInv(c) /\ SessionInv(c)
  /\ OneOwner

-----------------------------------------------------------------------------
(* What every step leaves as it was, or larger. *)
Grows ==
  /\ \A o \in Operation : Stored(o) => Stored(o)'
  /\ Kept \subseteq Kept'
  /\ conflicts \cup applied \cup archive \subseteq conflicts' \cup applied' \cup archive'
  /\ abandoned \subseteq abandoned'
  /\ \A o \in Operation : ~Fresh(o) => target'[o] = target[o] /\ parent'[o] = parent[o]
  /\ Located'

SameCall(d)    == pc'[d] = pc[d] /\ task'[d] = task[d] /\ current'[d] = current[d]
SameSession(d) == rec'[d] = rec[d] /\ base'[d] = base[d] /\ sync'[d] = sync[d]
SameClient(d)  == SameCall(d) /\ SameSession(d)

(* What a new request may name as its parent. *)
Linked(o) ==
  /\ Fresh(o)' => parent'[o] = parent[o]
  /\ Fresh(o) /\ ~Fresh(o)' /\ parent'[o] # NoOperation =>
       /\ parent'[o] \in Operation
       /\ target[parent'[o]] = target'[o]
       /\ Stored(parent'[o]) \/ parent'[o] \in Kept

(* What a step of client c may do to operation o. *)
Touches(c, o) ==
  /\ o \in Kept' => o \in Kept \/ (pc[c] = "enqueue" /\ o = current[c])
  /\ o \in applied' => o \in applied \/ (pc[c] = "applied" /\ o = current[c])
  /\ o \in archive' => o \in archive \cup abandoned' \/ (pc[c] = "abandon" /\ o = current[c])
  /\ ack'[o] # ack[o] =>
       /\ Works(c) /\ o = current[c]
       /\ ack'[o] = "saved" => pc[c] = "applied"
       /\ ack'[o] = "queued" => /\ Saving(c) /\ pc[c] \in {"enqueue", "check", "apply"}
                                /\ o \in Kept'
  /\ Linked(o)

Step(c) ==
  /\ Grows
  /\ \A d \in Client \ {c} : SameClient(d)
  /\ \A o \in Operation : Touches(c, o)
  /\ Owns(c)' => (Owns(c) /\ current'[c] = current[c]) \/ Fresh(current'[c])

(* A client that a step leaves alone keeps its part of the invariant. *)
LEMMA Undisturbed ==
  ASSUME IInv, TypeOK', Grows, NEW d \in Client, SameClient(d),
         pc[d] = "enqueue" => current[d] \notin Kept' /\ ack'[current[d]] = "none",
         Saving(d) /\ pc[d] \in Sending =>
           /\ ack'[current[d]] # "queued"
           /\ current[d] \in archive' => current[d] \in abandoned'
  PROVE  CallInv(d)' /\ SessionInv(d)'
<1>1. CallInv(d) /\ SessionInv(d) /\ TypeOK
  BY DEF IInv
<1>2. Works(d)' = Works(d) /\ Saving(d)' = Saving(d) /\ Owns(d)' = Owns(d)
  BY DEF SameClient, SameCall, SameSession, Works, Saving, Owns
<1>3. CallInv(d)'
  <2>1. Works(d) => current[d] \in Operation /\ ~Fresh(current[d])
    BY <1>1 DEF CallInv
  <2>2. Works(d) => target'[current[d]] = target[current[d]]
    BY <2>1 DEF Grows
  <2>3. pc[d] \in Sending => current[d] \in Kept'
    BY <1>1 DEF CallInv, Grows
  <2>4. pc[d] = "applied" => Stored(current[d])'
    <3>1. pc[d] = "applied" => Stored(current[d]) /\ current[d] \in Operation
      BY <1>1, <2>1 DEF CallInv, Works, Sending
    <3>2. current'[d] = current[d]
      BY DEF SameClient, SameCall, SameSession
    <3> QED BY <3>1, <3>2 DEF Grows, Stored, Store!Recorded
  <2>5. pc[d] = "unlink" => current[d] \in conflicts' \cup applied' \cup archive'
    BY <1>1 DEF CallInv, Grows
  <2> QED
    BY <1>1, <1>2, <2>1, <2>2, <2>3, <2>4, <2>5 DEF CallInv, SameClient, SameCall, SameSession, Fresh, Works, Owns, Sending
<1>4. SessionInv(d)'
  <2>1. sync[d] \in {"synced", "pending"} =>
          /\ base[d] \in Operation /\ rec[d] \in Recording /\ target[base[d]] = rec[d]
    BY <1>1 DEF SessionInv
  <2>2. sync[d] \in {"synced", "pending"} => target'[base[d]] = rec[d]
    BY <2>1, NoRecordingAssumption DEF Grows, Fresh
  <2>3. base'[d] = base[d]
    BY DEF SameClient, SameCall, SameSession
  <2>4. \A o \in Operation : Stored(o) => Stored(o)'
    BY DEF Grows
  <2>5. Stored(base[d]) /\ base[d] \in Operation => Stored(base[d])'
    BY <2>3, <2>4 DEF Stored, Store!Recorded
  <2> QED
    BY <1>1, <2>1, <2>2, <2>3, <2>5 DEF SessionInv, SameClient, SameCall, SameSession, Grows
<1> QED BY <1>3, <1>4

(* A step of c within the bounds of Step keeps the invariant if it keeps what  *)
(* the invariant says of c.                                                    *)
LEMMA Preserves ==
  ASSUME IInv, TypeOK', NEW c \in Client, Step(c), CallInv(c)', SessionInv(c)'
  PROVE  IInv'
<1>1. CallInv(c) /\ TypeOK /\ Grows
  BY DEF IInv, Step
<1>2. ASSUME NEW d \in Client \ {c}
      PROVE  CallInv(d)' /\ SessionInv(d)'
  <2>1. SameClient(d) /\ CallInv(d)
    BY DEF Step, IInv
  <2>2. pc[d] = "enqueue" /\ pc[c] = "enqueue" => current[c] # current[d]
    BY <1>1, <2>1 DEF IInv, OneOwner, Owns, Works, CallInv
  <2>3. Saving(d) /\ pc[d] \in Sending /\ Saving(c) /\ pc[c] \in Sending \cup {"enqueue"}
          => current[c] # current[d]
    BY DEF IInv, OneOwner, Owns, Works
  <2>4. pc[d] = "enqueue" => current[d] \in Operation /\ current[d] \notin Kept'
    BY <2>1, <2>2 DEF Step, Touches, CallInv, Works
  <2>5. pc[d] = "enqueue" => ack'[current[d]] = "none"
    <3>1. pc[c] \in Sending => current[c] \in Kept
      BY <1>1 DEF CallInv
    <3> QED
      BY <2>1, <2>2, <2>4, <3>1 DEF Step, Touches, CallInv, Works, Sending
  <2>6. Saving(d) /\ pc[d] \in Sending => current[d] \in Operation
    BY <2>1 DEF CallInv, Works
  <2>7. Saving(d) /\ pc[d] \in Sending => ack'[current[d]] # "queued"
    BY <2>1, <2>3, <2>6 DEF Step, Touches, CallInv, Sending
  <2>8. Saving(d) /\ pc[d] \in Sending /\ current[d] \in archive' => current[d] \in abandoned'
    <3>1. pc[c] = "abandon" => Saving(c)
      BY <1>1 DEF CallInv
    <3> QED
      BY <1>1, <2>1, <2>3, <2>6, <3>1 DEF Step, Touches, CallInv, Sending, Grows
  <2> QED
    BY <1>1, <2>1, <2>4, <2>5, <2>7, <2>8, Undisturbed
<1>3. \A d \in Client : CallInv(d)' /\ SessionInv(d)'
  BY <1>2
<1>4. OneOwner'
  <2>1. \A d \in Client \ {c} : SameClient(d)
    BY DEF Step
  <2>2. \A d \in Client \ {c} : Owns(d)' = Owns(d) /\ current'[d] = current[d]
    BY <2>1 DEF SameClient, SameCall, SameSession, Owns, Works, Saving
  <2>3. \A d \in Client : Owns(d) => ~Fresh(current[d])
    BY DEF IInv, CallInv, Owns
  <2>4. \A d \in Client \ {c} : Owns(c)' /\ Owns(d)' => current'[c] # current'[d]
    BY <2>2, <2>3 DEF Step, IInv, OneOwner
  <2>5. \A d, e \in Client \ {c} : d # e /\ Owns(d)' /\ Owns(e)' => current'[d] # current'[e]
    BY <2>2 DEF IInv, OneOwner
  <2> QED BY <2>4, <2>5 DEF OneOwner
<1>5. ASSUME NEW o \in Operation
      PROVE  RecordInv(o)'
  <2>1. RecordInv(o) /\ Touches(c, o)
    BY DEF IInv, Step
  <2>2. /\ ~Fresh(o) => ~Fresh(o)'
        /\ Stored(o) => Stored(o)'
        /\ o \in Kept => o \in Kept'
        /\ o \in abandoned => o \in abandoned'
    BY <1>1, NoRecordingAssumption DEF Grows, Fresh
  <2>3. Works(c) /\ o = current[c] => ~Fresh(o)
    BY <1>1 DEF CallInv
  <2>4. pc[c] = "applied" /\ o = current[c] => Stored(o)
    BY <1>1 DEF CallInv
  <2>5. o \in Kept' => ~Fresh(o)'
    BY <2>1, <2>2, <2>3 DEF RecordInv, Touches, Works
  <2>6. ack'[o] # "none" => ~Fresh(o)'
    BY <2>1, <2>2, <2>3 DEF RecordInv, Touches
  <2>7. ack'[o] = "saved" => Stored(o)'
    BY <2>1, <2>2, <2>4 DEF RecordInv, Touches
  <2>8. o \in applied' => Stored(o)'
    BY <2>1, <2>2, <2>4 DEF RecordInv, Touches
  <2>9. ack'[o] = "queued" => o \in Kept'
    BY <2>1, <2>2 DEF RecordInv, Touches
  <2>10. ack'[o] = "queued" /\ o \in archive' => o \in abandoned'
    <3>1. CASE ack'[o] = ack[o]
      <4>1. pc[c] = "abandon" /\ o = current[c] => ack[o] # "queued"
        BY <1>1 DEF CallInv, Sending
      <4> QED BY <2>1, <2>2, <3>1, <4>1 DEF RecordInv, Touches
    <3>2. CASE ack'[o] # ack[o] /\ ack'[o] = "queued"
      <4>1. o = current[c] /\ Saving(c) /\ pc[c] \in {"enqueue", "check", "apply"}
        BY <2>1, <3>2 DEF Touches
      <4>2. o \in archive => o \in abandoned
        BY <1>1, <4>1 DEF CallInv, Sending, Kept
      <4> QED BY <2>1, <2>2, <4>1, <4>2 DEF Touches
    <3> QED BY <3>1, <3>2
  <2>11. Fresh(o)' => parent'[o] = NoOperation
    BY <2>1, <2>2 DEF RecordInv, Touches, Linked
  <2> QED BY <2>5, <2>6, <2>7, <2>8, <2>9, <2>10, <2>11 DEF RecordInv, Fresh
<1>6. ASSUME NEW o \in Operation
      PROVE  ParentInv(o)'
  <2>1. ParentInv(o) /\ Linked(o)
    BY DEF IInv, Step, Touches
  <2> SUFFICES ASSUME NEW p \in Operation, ~Fresh(o)', parent'[o] = p
               PROVE  target'[p] = target'[o] /\ (Stored(p)' \/ p \in Kept')
    BY DEF ParentInv
  <2>2. target[p] = target'[o] /\ (Stored(p) \/ p \in Kept)
    BY <1>1, <2>1, NoOperationAssumption DEF ParentInv, Linked, Grows
  <2>3. target'[p] = target[p]
    BY <1>1, <2>2 DEF Grows, Fresh
  <2> QED BY <1>1, <2>2, <2>3 DEF Grows
<1> QED
  BY <1>1, <1>3, <1>4, <1>5, <1>6 DEF IInv, Grows
-----------------------------------------------------------------------------
LEMMA InitIInv == Init => IInv
BY NoRecordingAssumption, NoOperationAssumption
   DEF Init, Store!Init, IInv, TypeOK, Located, RecordInv, ParentInv, CallInv, SessionInv,
       OneOwner, Owns, Works, Saving, Sending, Fresh, Kept, Task, Label

(* Steps that leave the store and the requests alone, and lose no envelope. *)
LEMMA OutboxGrows ==
  ASSUME IInv, UNCHANGED <<chain, requests>>, Kept \subseteq Kept',
         conflicts \cup applied \cup archive \subseteq conflicts' \cup applied' \cup archive',
         abandoned \subseteq abandoned'
  PROVE  Grows
BY DEF Grows, IInv, Located, Stored, Store!Recorded, requests

(* The entries of a chain. *)
LEMMA ChainEntry ==
  ASSUME IInv, NEW r \in Recording
  PROVE  /\ chain[r] \in Seq(Store!Link)
         /\ \A n \in 1..Len(chain[r]) :
              chain[r][n].id \in Operation /\ target[chain[r][n].id] = r
         /\ chain[r] # <<>> => Len(chain[r]) \in 1..Len(chain[r])
<1>1. chain \in [Recording -> Seq(Store!Link)] /\ Located
  BY DEF IInv, TypeOK
<1>2. chain[r] \in Seq(Store!Link)
  BY <1>1
<1>3. \A n \in 1..Len(chain[r]) : chain[r][n] \in Store!Link
  BY <1>2, ElementOfSeq
<1>4. \A x \in Store!Link : x.id \in Operation
  BY DEF Store!Link
<1>5. chain[r] # <<>> => Len(chain[r]) \in 1..Len(chain[r])
  BY <1>2, EmptySeq, LenProperties
<1> QED BY <1>1, <1>2, <1>3, <1>4, <1>5 DEF Located

(* Steps that make a request. *)
LEMMA RequestGrows ==
  ASSUME IInv, NEW o \in Operation, NEW r \in Recording, Fresh(o),
         UNCHANGED <<chain, outbox, abandoned>>, target' = [target EXCEPT ![o] = r],
         \A p \in Operation : p # o => parent'[p] = parent[p]
  PROVE  Grows
<1>1. \A p \in Operation : ~Fresh(p) => p # o /\ target'[p] = target[p]
  BY DEF IInv, TypeOK, Fresh
<1>2. Located'
  <2> SUFFICES ASSUME NEW s \in Recording
               PROVE  \A n \in 1..Len(chain[s]) : target'[chain[s][n].id] = s
    BY DEF Located
  <2> TAKE n \in 1..Len(chain[s])
  <2>1. chain[s][n].id \in Operation /\ target[chain[s][n].id] = s
    BY ChainEntry
  <2> QED BY <1>1, <2>1, NoRecordingAssumption DEF Fresh
<1> QED
  BY <1>1, <1>2 DEF Grows, outbox, Kept, Stored, Store!Recorded

(* A commit appends one revision to the chain of its recording. *)
LEMMA Committed ==
  ASSUME IInv, NEW r \in Recording, NEW o \in Operation, Store!Commit(r, o)
  PROVE  /\ chain' \in [Recording -> Seq(Store!Link)]
         /\ Stored(o)'
         /\ \A x \in Operation : Stored(x) => Stored(x)'
         /\ /\ target'[o] = r
            /\ \A x \in Operation : ~Fresh(x) => target'[x] = target[x]
            => Located'
<1> DEFINE link == [id |-> o, parent |-> head(r)]
<1>1. head(r) \in Operation \cup {NoOperation}
  BY ChainEntry DEF head, Store!Tip
<1>2. link \in Store!Link
  BY <1>1 DEF Store!Link
<1>3. chain' = [chain EXCEPT ![r] = Append(chain[r], link)]
  BY DEF Store!Commit, head
<1>4. chain[r] \in Seq(Store!Link)
  BY ChainEntry
<1>5. /\ chain'[r] \in Seq(Store!Link)
      /\ Len(chain'[r]) = Len(chain[r]) + 1
      /\ \A n \in 1..Len(chain[r]) : chain'[r][n] = chain[r][n]
      /\ chain'[r][Len(chain[r]) + 1] = link
  <2>1. chain'[r] = Append(chain[r], link)
    BY <1>3 DEF IInv, TypeOK
  <2> HIDE DEF link
  <2> QED BY <1>2, <1>4, <2>1, AppendProperties
<1>6. \A s \in Recording : s # r => chain'[s] = chain[s]
  BY <1>3 DEF IInv, TypeOK
<1>7. chain' \in [Recording -> Seq(Store!Link)]
  BY <1>3, <1>5 DEF IInv, TypeOK
<1>8. Stored(o)'
  <2>1. Len(chain[r]) + 1 \in 1..Len(chain'[r])
    BY <1>4, <1>5
  <2>2. chain'[r][Len(chain[r]) + 1].id = o
    BY <1>5
  <2> QED BY <2>1, <2>2 DEF Stored, Store!Recorded
<1>9. ASSUME NEW x \in Operation, Stored(x)
      PROVE  Stored(x)'
  <2> PICK s \in Recording : \E n \in 1..Len(chain[s]) : chain[s][n].id = x
    BY <1>9 DEF Stored, Store!Recorded
  <2>1. PICK n \in 1..Len(chain[s]) : chain[s][n].id = x
    OBVIOUS
  <2>2. n \in 1..Len(chain'[s]) /\ chain'[s][n].id = x
    BY <1>4, <1>5, <1>6, <2>1
  <2> QED BY <2>2 DEF Stored, Store!Recorded
<1>10. ASSUME target'[o] = r,
              \A x \in Operation : ~Fresh(x) => target'[x] = target[x]
       PROVE  Located'
  <2> SUFFICES ASSUME NEW s \in Recording
               PROVE  \A n \in 1..Len(chain'[s]) : target'[chain'[s][n].id] = s
    BY DEF Located
  <2> TAKE n \in 1..Len(chain'[s])
  <2>1. CASE s = r /\ n = Len(chain[r]) + 1
    BY <1>5, <1>10, <2>1
  <2>2. CASE ~(s = r /\ n = Len(chain[r]) + 1)
    <3>1. n \in 1..Len(chain[s]) /\ chain'[s][n] = chain[s][n]
      BY <1>4, <1>5, <1>6, <2>2
    <3>2. chain[s][n].id \in Operation /\ target[chain[s][n].id] = s
      BY <3>1, ChainEntry
    <3> QED BY <1>10, <3>1, <3>2, NoRecordingAssumption DEF Fresh
  <2> QED BY <2>1, <2>2
<1> QED BY <1>7, <1>8, <1>9, <1>10

(* The head of a recording is an operation on this recording. *)
LEMMA HeadIsLocated ==
  ASSUME IInv, NEW r \in Recording, chain[r] # <<>>
  PROVE  head(r) \in Operation /\ target[head(r)] = r /\ Stored(head(r))
BY ChainEntry DEF head, Store!Tip, Stored, Store!Recorded

-----------------------------------------------------------------------------
(* The pieces that steps are made of. *)

CallTypes ==
  /\ pc \in [Client -> Label]
  /\ task \in [Client -> Task]
  /\ current \in [Client -> Operation \cup {NoOperation}]
  /\ listed \in [Client -> SUBSET Operation]
  /\ blocked \in [Client -> SUBSET Recording]

SessionTypes ==
  /\ rec \in [Client -> Recording \cup {NoRecording}]
  /\ base \in [Client -> Operation \cup {NoOperation}]
  /\ sync \in [Client -> {"none", "synced", "pending", "conflict"}]

CallStep(c)    == CallTypes' /\ \A d \in Client \ {c} : SameCall(d)
SessionStep(c) == SessionTypes' /\ \A d \in Client \ {c} : SameSession(d)

LEMMA FinishCall ==
  ASSUME IInv, NEW c \in Client, Finish(c)
  PROVE  CallStep(c) /\ CallInv(c)' /\ ~Owns(c)'
<1>1. CallTypes
  BY DEF IInv, TypeOK, CallTypes
<1>2. CallStep(c)
  BY <1>1 DEF Finish, Goto, CallTypes, CallStep, SameCall, Label, Task
<1>3. pc'[c] = "idle" /\ task'[c] = "none"
  BY <1>1 DEF Finish, Goto, CallTypes
<1> QED BY <1>2, <1>3 DEF CallInv, Owns, Works, Saving, Sending

LEMMA ContinueCall ==
  ASSUME IInv, NEW c \in Client, NEW stop \in SUBSET Recording, task[c] = "retry_all",
         Continue(c, stop)
  PROVE  CallStep(c) /\ CallInv(c)' /\ ~Owns(c)'
<1>1. CallTypes
  BY DEF IInv, TypeOK, CallTypes
<1>2. CallStep(c)
  BY <1>1 DEF Continue, Goto, CallTypes, CallStep, SameCall, Label, Task
<1>3. pc'[c] = "next" /\ task'[c] = "retry_all"
  BY <1>1 DEF Continue, Goto, CallTypes
<1> QED BY <1>2, <1>3 DEF CallInv, Owns, Works, Saving, Sending

LEMMA RetriedCall ==
  ASSUME IInv, NEW c \in Client, NEW stop \in SUBSET Recording, Retried(c, stop)
  PROVE  CallStep(c) /\ CallInv(c)' /\ ~Owns(c)'
BY FinishCall, ContinueCall DEF Retried

LEMMA GotoCall ==
  ASSUME IInv, NEW c \in Client, NEW label \in Label, Goto(c, label),
         UNCHANGED <<task, current, listed, blocked>>
  PROVE  CallStep(c) /\ pc'[c] = label
<1>1. CallTypes
  BY DEF IInv, TypeOK, CallTypes
<1> QED BY <1>1 DEF Goto, CallTypes, CallStep, SameCall, Label, Task

(* A session that does not move, up to a recording it was not opened on. *)
LEMMA KeepSession ==
  ASSUME IInv, Grows, NEW c \in Client, UNCHANGED <<base, sync>>,
         \/ UNCHANGED rec
         \/ sync[c] = "none" /\ \E r \in Recording \cup {NoRecording} : rec' = [rec EXCEPT ![c] = r]
  PROVE  SessionStep(c) /\ SessionInv(c)'
<1>1. SessionTypes /\ SessionInv(c)
  BY DEF IInv, TypeOK, SessionTypes
<1>2. SessionStep(c)
  BY <1>1 DEF SessionTypes, SessionStep, SameSession
<1>3. sync'[c] = sync[c] /\ base'[c] = base[c] /\ (sync[c] # "none" => rec'[c] = rec[c])
  BY <1>1 DEF SessionTypes
<1>4. \A o \in Operation : /\ Stored(o) => Stored(o)'
                           /\ o \in Kept => o \in Kept'
                           /\ ~Fresh(o) => target'[o] = target[o]
  BY DEF Grows
<1>5. PICK b : b = base[c]
  OBVIOUS
<1>6. base'[c] = b
  BY <1>3, <1>5
<1>7. sync[c] \in {"synced", "pending"} =>
        /\ b \in Operation /\ target'[b] = rec[c]
        /\ Stored(b)' \/ b \in Kept'
        /\ sync[c] = "synced" => Stored(b)'
  BY <1>1, <1>4, <1>5, NoRecordingAssumption DEF SessionInv, Fresh
<1>8. Stored(b)' => Stored(base[c])'
  BY <1>6 DEF Stored, Store!Recorded
<1> QED BY <1>1, <1>2, <1>3, <1>6, <1>7, <1>8 DEF SessionInv

LEMMA RaiseSession ==
  ASSUME IInv, Grows, NEW c \in Client, Raise(c)
  PROVE  SessionStep(c) /\ SessionInv(c)'
<1>1. rec' = rec \/ (sync[c] = "none" /\ rec' = [rec EXCEPT ![c] = NoRecording])
  BY DEF Raise, IInv, TypeOK
<1> QED BY <1>1, KeepSession DEF Raise

LEMMA CaptureSession ==
  ASSUME IInv, NEW c \in Client, NEW o \in Operation, NEW state \in {"synced", "pending"},
         Capture(c, o, state), rec[c] \in Recording, target'[o] = rec[c],
         Stored(o)' \/ (state = "pending" /\ o \in Kept')
  PROVE  SessionStep(c) /\ SessionInv(c)'
<1>1. SessionTypes
  BY DEF IInv, TypeOK, SessionTypes
<1>2. SessionStep(c)
  BY <1>1 DEF SessionTypes, SessionStep, SameSession, Capture
<1>3. sync'[c] = state /\ base'[c] = o /\ rec'[c] = rec[c]
  BY <1>1 DEF SessionTypes, Capture
<1>4. Stored(o)' => Stored(base[c])'
  BY <1>3 DEF Stored, Store!Recorded
<1> QED BY <1>2, <1>3, <1>4 DEF SessionInv

LEMMA CaptureConflict ==
  ASSUME IInv, NEW c \in Client, Capture(c, base[c], "conflict"), rec[c] \in Recording
  PROVE  SessionStep(c) /\ SessionInv(c)'
<1>1. SessionTypes
  BY DEF IInv, TypeOK, SessionTypes
<1>2. SessionStep(c)
  BY <1>1 DEF SessionTypes, SessionStep, SameSession, Capture
<1>3. sync'[c] = "conflict" /\ rec'[c] = rec[c]
  BY <1>1 DEF SessionTypes, Capture
<1> QED BY <1>2, <1>3 DEF SessionInv

(* A request in the hands of a client: its recording is the one of the        *)
(* session of the client if this is a save or a create.                       *)
LEMMA Request ==
  ASSUME IInv, NEW c \in Client, Works(c)
  PROVE  /\ current[c] \in Operation
         /\ target[current[c]] \in Recording
         /\ Saving(c) => rec[c] = target[current[c]]
         /\ pc[c] # "enqueue" => current[c] \in Kept
BY DEF IInv, CallInv, Owns, Works, Fresh, TypeOK

(* Steps that change nothing but the call and the session of c, and audio. *)
LEMMA QuietGrows ==
  ASSUME IInv, UNCHANGED <<chain, requests, outbox, told>>
  PROVE  Grows
BY OutboxGrows DEF outbox, told, Kept

LEMMA QuietStep ==
  ASSUME IInv, NEW c \in Client, UNCHANGED <<chain, requests, outbox, told>>,
         audio' \in SUBSET Recording,
         CallStep(c), SessionStep(c), CallInv(c)', SessionInv(c)',
         Owns(c)' => Owns(c) /\ current'[c] = current[c]
  PROVE  IInv'
<1>1. TypeOK'
  BY DEF IInv, TypeOK, CallStep, SessionStep, CallTypes, SessionTypes, requests, outbox, told
<1>2. \A o \in Operation : Touches(c, o)
  BY DEF Touches, Linked, Fresh, outbox, told, requests, Kept
<1>3. \A d \in Client \ {c} : SameClient(d)
  BY DEF CallStep, SessionStep, SameClient
<1> QED BY <1>1, <1>2, <1>3, QuietGrows, Preserves DEF Step

-----------------------------------------------------------------------------
(* Calls that begin, list files, read the head, or end. *)

LEMMA BeginSaveStep ==
  ASSUME IInv, NEW c \in Client, BeginSave(c)
  PROVE  IInv'
<1>1. CallTypes /\ audio \in SUBSET Recording /\ pending \in SUBSET Operation
  BY DEF IInv, TypeOK, CallTypes
<1>2. UNCHANGED <<chain, requests, outbox, told, audio, rec, base, sync>>
  BY DEF BeginSave, session
<1>3. CallStep(c)
  BY <1>1 DEF BeginSave, Goto, Of, CallStep, CallTypes, SameCall, Label, Task
<1>4. pc'[c] = "scan" /\ task'[c] = "save" /\ sync'[c] # "none"
  BY <1>1, <1>2 DEF BeginSave, Goto, CallTypes
<1>5. SessionStep(c) /\ SessionInv(c)'
  BY <1>2, QuietGrows, KeepSession
<1>6. CallInv(c)' /\ ~Owns(c)'
  BY <1>4 DEF CallInv, Owns, Works, Saving, Sending
<1> QED BY <1>1, <1>2, <1>3, <1>5, <1>6, QuietStep

LEMMA BeginRetryStep ==
  ASSUME IInv, NEW c \in Client, NEW o \in Operation, BeginRetry(c, o)
  PROVE  IInv'
<1>1. CallTypes /\ audio \in SUBSET Recording /\ ~Fresh(o) /\ o \in Kept
  BY DEF IInv, TypeOK, CallTypes, RecordInv, BeginRetry, Active, Kept
<1>2. UNCHANGED <<chain, requests, outbox, told, audio, rec, base, sync>>
  BY DEF BeginRetry, session
<1>3. CallStep(c)
  BY <1>1 DEF BeginRetry, Goto, CallStep, CallTypes, SameCall, Label, Task
<1>4. pc'[c] = "check" /\ task'[c] = "retry" /\ current'[c] = o
  BY <1>1 DEF BeginRetry, Goto, CallTypes
<1>5. SessionStep(c) /\ SessionInv(c)'
  BY <1>2, QuietGrows, KeepSession
<1>6. CallInv(c)' /\ ~Owns(c)'
  BY <1>1, <1>2, <1>4
     DEF CallInv, Owns, Works, Saving, Sending, Fresh, Kept, outbox, requests
<1> QED BY <1>1, <1>2, <1>3, <1>5, <1>6, QuietStep

LEMMA BeginRetryAllStep ==
  ASSUME IInv, NEW c \in Client, BeginRetryAll(c)
  PROVE  IInv'
<1>1. CallTypes /\ audio \in SUBSET Recording
  BY DEF IInv, TypeOK, CallTypes
<1>2. UNCHANGED <<chain, requests, outbox, told, audio, rec, base, sync>>
  BY DEF BeginRetryAll, session
<1>3. {target[o] : o \in conflicts} \in SUBSET Recording
  BY DEF IInv, TypeOK, RecordInv, Kept, Fresh
<1>4. CallStep(c)
  BY <1>1, <1>3 DEF BeginRetryAll, Goto, CallStep, CallTypes, SameCall, Label, Task
<1>5. pc'[c] = "scan" /\ task'[c] = "retry_all"
  BY <1>1 DEF BeginRetryAll, Goto, CallTypes
<1>6. SessionStep(c) /\ SessionInv(c)'
  BY <1>2, QuietGrows, KeepSession
<1>7. CallInv(c)' /\ ~Owns(c)'
  BY <1>5 DEF CallInv, Owns, Works, Saving, Sending
<1> QED BY <1>1, <1>2, <1>4, <1>6, <1>7, QuietStep

LEMMA ListPendingStep ==
  ASSUME IInv, NEW c \in Client, ListPending(c)
  PROVE  IInv'
<1>1. CallTypes /\ audio \in SUBSET Recording /\ pending \in SUBSET Operation
  BY DEF IInv, TypeOK, CallTypes
<1>2. UNCHANGED <<chain, requests, outbox, told, audio, rec, base, sync>>
  BY DEF ListPending, session
<1>3. CallStep(c)
  BY <1>1 DEF ListPending, Goto, CallStep, CallTypes, SameCall, Label, Task
<1>4. pc'[c] = "next" /\ task'[c] = "retry_all"
  BY <1>1 DEF ListPending, Goto, CallTypes
<1>5. SessionStep(c) /\ SessionInv(c)'
  BY <1>2, QuietGrows, KeepSession
<1>6. CallInv(c)' /\ ~Owns(c)'
  BY <1>4 DEF CallInv, Owns, Works, Saving, Sending
<1> QED BY <1>1, <1>2, <1>3, <1>5, <1>6, QuietStep

LEMMA RetryNextStep ==
  ASSUME IInv, NEW c \in Client, RetryNext(c)
  PROVE  IInv'
<1>1. CallTypes /\ audio \in SUBSET Recording /\ pc[c] = "next" /\ task[c] = "retry_all"
  BY DEF IInv, TypeOK, CallTypes, CallInv, RetryNext
<1>2. UNCHANGED <<chain, requests, outbox, told, audio, rec, base, sync>>
  BY DEF RetryNext, session
<1>3. SessionStep(c) /\ SessionInv(c)'
  BY <1>2, QuietGrows, KeepSession
<1>4. CASE Finish(c)
  BY <1>1, <1>2, <1>3, <1>4, FinishCall, QuietStep
<1>5. CASE ~Finish(c)
  <2>1. PICK o \in Ready(c) :
          /\ Active(o)
          /\ listed' = [listed EXCEPT ![c] = @ \ {o}]
          /\ current' = [current EXCEPT ![c] = o]
          /\ Goto(c, "check")
          /\ UNCHANGED <<task, blocked>>
    BY <1>5 DEF RetryNext
  <2>2. o \in Operation /\ o \in Kept /\ ~Fresh(o)
    BY <2>1, <1>1 DEF IInv, TypeOK, Ready, RecordInv, Active, Kept
  <2>3. CallStep(c)
    BY <1>1, <2>1, <2>2 DEF Goto, CallStep, CallTypes, SameCall, Label, Task
  <2>4. pc'[c] = "check" /\ task'[c] = "retry_all" /\ current'[c] = o
    BY <1>1, <2>1 DEF Goto, CallTypes
  <2>5. CallInv(c)' /\ ~Owns(c)'
    BY <1>2, <2>2, <2>4
       DEF CallInv, Owns, Works, Saving, Sending, Fresh, Kept, outbox, requests
  <2> QED BY <1>1, <1>2, <1>3, <2>3, <2>5, QuietStep
<1> QED BY <1>4, <1>5

LEMMA BeginLoadStep ==
  ASSUME IInv, NEW c \in Client, NEW r \in Recording, BeginLoad(c, r)
  PROVE  IInv'
<1>1. CallTypes /\ SessionTypes /\ audio \in SUBSET Recording
  BY DEF IInv, TypeOK, CallTypes, SessionTypes
<1>2. UNCHANGED <<chain, requests, outbox, told, audio, current, listed, blocked, base, sync>>
  BY DEF BeginLoad
<1>3. pc'[c] = "scan" /\ task'[c] = "load" /\ rec'[c] = r
  BY <1>1 DEF BeginLoad, Goto, CallTypes, SessionTypes
<1>4. CallStep(c)
  BY <1>1 DEF BeginLoad, Goto, CallStep, CallTypes, SameCall, Label, Task
<1>5. UNCHANGED rec \/ (sync[c] = "none" /\ rec' = [rec EXCEPT ![c] = r])
  BY <1>1 DEF BeginLoad, SessionTypes
<1>6. SessionStep(c) /\ SessionInv(c)'
  BY <1>2, <1>5, QuietGrows, KeepSession
<1>7. CallInv(c)' /\ ~Owns(c)'
  BY <1>3 DEF CallInv, Owns, Works, Saving, Sending
<1> QED BY <1>1, <1>2, <1>4, <1>6, <1>7, QuietStep

LEMMA BeginQueryStep ==
  ASSUME IInv, NEW c \in Client, BeginQuery(c)
  PROVE  IInv'
<1>1. CallTypes /\ audio \in SUBSET Recording /\ CallInv(c) /\ task[c] = "load"
  BY DEF IInv, TypeOK, CallTypes, BeginQuery
<1>2. UNCHANGED <<chain, requests, outbox, told, audio>>
  BY DEF BeginQuery
<1>3. CASE Raise(c)
  BY <1>1, <1>2, <1>3, QuietGrows, RaiseSession, FinishCall, QuietStep DEF Raise
<1>4. CASE /\ Goto(c, "load")
           /\ UNCHANGED <<task, current, listed, blocked, session>>
  <2>1. SessionStep(c) /\ SessionInv(c)'
    BY <1>2, <1>4, QuietGrows, KeepSession DEF session
  <2>2. CallStep(c) /\ pc'[c] = "load" /\ task'[c] = "load"
    BY <1>1, <1>4, GotoCall DEF Label
  <2>3. CallInv(c)' /\ ~Owns(c)'
    BY <1>1, <1>4, <2>2 DEF CallInv, Owns, Works, Saving, Sending, session
  <2> QED BY <1>1, <1>2, <2>1, <2>2, <2>3, QuietStep
<1> QED BY <1>3, <1>4 DEF BeginQuery

LEMMA LoadStep ==
  ASSUME IInv, NEW c \in Client, Load(c)
  PROVE  IInv'
<1>1. audio \in SUBSET Recording /\ rec[c] \in Recording
  BY DEF IInv, TypeOK, CallInv, Load
<1>2. UNCHANGED <<chain, requests, outbox, told, audio>>
  BY DEF Load
<1>3. CASE Raise(c)
  BY <1>1, <1>2, <1>3, QuietGrows, RaiseSession, FinishCall, QuietStep DEF Raise
<1>4. CASE /\ chain[rec[c]] # <<>>
           /\ Capture(c, head(rec[c]), "synced")
           /\ Finish(c)
  <2>1. PICK h : h = head(rec[c])
    OBVIOUS
  <2>2. h \in Operation /\ target[h] = rec[c] /\ Stored(h)
    BY <1>1, <1>4, <2>1, HeadIsLocated
  <2>3. target'[h] = rec[c] /\ Stored(h)'
    BY <1>2, <2>2 DEF requests, Stored, Store!Recorded
  <2>4. SessionStep(c) /\ SessionInv(c)'
    BY <1>1, <1>4, <2>1, <2>2, <2>3, CaptureSession
  <2> QED BY <1>1, <1>2, <1>4, <2>4, FinishCall, QuietStep
<1> QED BY <1>3, <1>4 DEF Load

LEMMA ForgetSession ==
  ASSUME IInv, NEW c \in Client, Forget(c)
  PROVE  SessionStep(c) /\ SessionInv(c)'
<1>1. SessionTypes
  BY DEF IInv, TypeOK, SessionTypes
<1>2. SessionStep(c) /\ sync'[c] = "none"
  BY <1>1 DEF SessionTypes, SessionStep, SameSession, Forget
<1> QED BY <1>2 DEF SessionInv

LEMMA CloseStep ==
  ASSUME IInv, NEW c \in Client, Close(c)
  PROVE  IInv'
<1>1. CallTypes /\ audio \in SUBSET Recording /\ pc[c] = "idle" /\ task[c] = "none"
  BY DEF IInv, TypeOK, CallTypes, CallInv, Close
<1>2. UNCHANGED <<chain, requests, outbox, told, audio, pc, task, current, listed, blocked>>
  BY DEF Close, call
<1>3. CallStep(c)
  BY <1>1, <1>2 DEF CallStep, CallTypes, SameCall
<1>4. CallInv(c)' /\ ~Owns(c)'
  BY <1>1, <1>2 DEF CallInv, Owns, Works, Saving, Sending
<1> QED BY <1>1, <1>2, <1>3, <1>4, ForgetSession, QuietStep DEF Close

LEMMA CrashStep ==
  ASSUME IInv, NEW c \in Client, Crash(c)
  PROVE  IInv'
<1>1. audio \in SUBSET Recording
  BY DEF IInv, TypeOK
<1> QED BY <1>1, FinishCall, ForgetSession, QuietStep DEF Crash

-----------------------------------------------------------------------------
(* Steps that make requests, write records or commit. *)

SharedTypes ==
  /\ chain \in [Recording -> Seq(Store!Link)]
  /\ target \in [Operation -> Recording \cup {NoRecording}]
  /\ parent \in [Operation -> Operation \cup {NoOperation}]
  /\ pending \in SUBSET Operation /\ conflicts \in SUBSET Operation
  /\ applied \in SUBSET Operation /\ archive \in SUBSET Operation
  /\ audio \in SUBSET Recording
  /\ ack \in [Operation -> {"none", "saved", "queued", "conflict"}]
  /\ abandoned \in SUBSET Operation

LEMMA SharedStep ==
  ASSUME IInv, NEW c \in Client, SharedTypes', Grows, \A o \in Operation : Touches(c, o),
         CallStep(c), SessionStep(c), CallInv(c)', SessionInv(c)',
         Owns(c)' => (Owns(c) /\ current'[c] = current[c]) \/ Fresh(current'[c])
  PROVE  IInv'
<1>1. TypeOK'
  BY DEF TypeOK, CallStep, SessionStep, CallTypes, SessionTypes, SharedTypes
<1>2. \A d \in Client \ {c} : SameClient(d)
  BY DEF CallStep, SessionStep, SameClient
<1> QED BY <1>1, <1>2, Preserves DEF Step

(* Telling the caller changes what is known of one operation. *)
LEMMA Told ==
  ASSUME IInv, NEW o \in Operation, NEW answer \in {"saved", "queued", "conflict"},
         Tell(o, answer)
  PROVE  /\ ack' \in [Operation -> {"none", "saved", "queued", "conflict"}]
         /\ abandoned' = abandoned
         /\ ack'[o] = answer
         /\ \A p \in Operation : ack'[p] # ack[p] => p = o
BY DEF IInv, TypeOK, Tell

LEMMA BeginCreateStep ==
  ASSUME IInv, NEW c \in Client, NEW r \in Recording, NEW o \in Operation,
         BeginCreate(c, r, o)
  PROVE  IInv'
<1>1. CallTypes /\ SessionTypes /\ SharedTypes
  BY DEF IInv, TypeOK, CallTypes, SessionTypes, SharedTypes
<1>2. /\ Fresh(o) /\ sync[c] = "none"
      /\ target' = [target EXCEPT ![o] = r]
      /\ rec' = [rec EXCEPT ![c] = r]
      /\ UNCHANGED <<chain, parent, outbox, listed, blocked, base, sync, told>>
  BY DEF BeginCreate
<1>3. SharedTypes'
  BY <1>1, <1>2 DEF SharedTypes, BeginCreate, IngestAudio, outbox, told
<1>4. Grows
  BY <1>2, RequestGrows DEF told
<1>5. pc'[c] = "enqueue" /\ task'[c] = "create" /\ current'[c] = o /\ rec'[c] = r
      /\ target'[o] = r
  BY <1>1 DEF BeginCreate, Goto, CallTypes, SessionTypes, SharedTypes
<1>6. CallStep(c)
  BY <1>1 DEF BeginCreate, Goto, CallStep, CallTypes, SameCall, Label, Task
<1>7. SessionStep(c) /\ SessionInv(c)'
  BY <1>2, <1>4, KeepSession
<1>8. parent[o] = NoOperation /\ o \notin Kept /\ ack[o] = "none"
  BY <1>2 DEF IInv, RecordInv
<1>9. ASSUME NEW p \in Operation
      PROVE  Touches(c, p)
  <2>1. ~Fresh(p)' => p = o \/ ~Fresh(p)
    BY <1>1, <1>2 DEF Fresh, SharedTypes
  <2> QED BY <1>2, <1>8, <2>1 DEF Touches, Linked, outbox, told, Kept
<1>10. CallInv(c)'
  BY <1>2, <1>5, <1>8, NoRecordingAssumption
     DEF CallInv, Owns, Works, Saving, Sending, Fresh, Kept, outbox, told
<1> QED
  BY <1>2, <1>3, <1>4, <1>5, <1>6, <1>7, <1>9, <1>10, SharedStep

LEMMA BeginRequestStep ==
  ASSUME IInv, NEW c \in Client, BeginRequest(c)
  PROVE  IInv'
<1>1. /\ CallTypes /\ SessionTypes /\ SharedTypes
      /\ CallInv(c) /\ SessionInv(c) /\ pc[c] = "scan" /\ task[c] = "save" /\ sync[c] # "none"
  BY DEF IInv, TypeOK, CallTypes, SessionTypes, SharedTypes, CallInv, BeginRequest
<1>2. UNCHANGED <<chain, outbox, audio, told>>
  BY DEF BeginRequest
<1>3. CASE Finish(c) /\ sync' = [sync EXCEPT ![c] = "conflict"] /\ UNCHANGED <<requests, rec, base>>
  <2>1. SessionTypes' /\ \A d \in Client \ {c} : SameSession(d)
    BY <1>1, <1>3 DEF SessionTypes, SameSession
  <2>2. sync'[c] = "conflict" /\ rec'[c] \in Recording
    BY <1>1, <1>3 DEF SessionTypes, SessionInv
  <2>3. SessionStep(c) /\ SessionInv(c)'
    BY <2>1, <2>2 DEF SessionStep, SessionInv
  <2> QED BY <1>1, <1>2, <1>3, <2>3, FinishCall, QuietStep DEF SharedTypes
<1>4. CASE Finish(c) /\ UNCHANGED <<requests, session>>
  BY <1>1, <1>2, <1>4, QuietGrows, KeepSession, FinishCall, QuietStep DEF SharedTypes, session
<1>5. ASSUME NEW o \in Operation, Fresh(o), sync[c] # "conflict",
             target' = [target EXCEPT ![o] = rec[c]],
             parent' = [parent EXCEPT ![o] = base[c]],
             current' = [current EXCEPT ![c] = o],
             listed' = [listed EXCEPT ![c] = {}],
             Goto(c, "enqueue"),
             UNCHANGED <<task, blocked, session>>
      PROVE  IInv'
  <2>1. /\ rec[c] \in Recording /\ base[c] \in Operation /\ target[base[c]] = rec[c]
        /\ Stored(base[c]) \/ base[c] \in Kept
    BY <1>1, <1>5 DEF SessionTypes, SessionInv
  <2>2. SharedTypes'
    BY <1>1, <1>2, <1>5, <2>1 DEF SharedTypes, outbox, told
  <2>3. Grows
    BY <1>1, <1>2, <1>5, <2>1, RequestGrows DEF told, SharedTypes
  <2>4. pc'[c] = "enqueue" /\ task'[c] = "save" /\ current'[c] = o
        /\ rec'[c] = rec[c] /\ sync'[c] = sync[c] /\ target'[o] = rec[c]
    BY <1>1, <1>5 DEF Goto, CallTypes, SharedTypes, session
  <2>5. CallStep(c)
    BY <1>1, <1>5 DEF Goto, CallStep, CallTypes, SameCall, Label, Task
  <2>6. SessionStep(c) /\ SessionInv(c)'
    BY <1>5, <2>3, KeepSession DEF session
  <2>7. o \notin Kept /\ ack[o] = "none"
    BY <1>5 DEF IInv, RecordInv
  <2>8. ASSUME NEW p \in Operation
        PROVE  Touches(c, p)
    <3>1. p # o => target'[p] = target[p] /\ parent'[p] = parent[p]
      BY <1>1, <1>5 DEF SharedTypes
    <3>2. target'[o] = rec[c] /\ parent'[o] = base[c]
      BY <1>1, <1>5 DEF SharedTypes
    <3>3. Linked(p)
      BY <2>1, <3>1, <3>2, NoRecordingAssumption DEF Linked, Fresh
    <3> QED BY <1>2, <3>3 DEF Touches, outbox, told, Kept
  <2>9. CallInv(c)'
    BY <1>1, <1>2, <2>1, <2>4, <2>7, NoRecordingAssumption
       DEF CallInv, Owns, Works, Saving, Sending, Fresh, Kept, outbox, told
  <2> QED
    BY <1>5, <2>2, <2>3, <2>4, <2>5, <2>6, <2>8, <2>9, SharedStep
<1> QED BY <1>3, <1>4, <1>5 DEF BeginRequest

LEMMA DiscardedAudio ==
  ASSUME IInv, NEW c \in Client, DiscardAudio(c)
  PROVE  audio' \in SUBSET Recording
BY DEF IInv, TypeOK, DiscardAudio

LEMMA EnqueueStep ==
  ASSUME IInv, NEW c \in Client, Enqueue(c)
  PROVE  IInv'
<1> DEFINE o == current[c]
<1>1. /\ CallTypes /\ SessionTypes /\ SharedTypes /\ CallInv(c)
      /\ pc[c] = "enqueue" /\ Works(c) /\ Saving(c) /\ Owns(c)
  BY DEF IInv, TypeOK, CallTypes, SessionTypes, SharedTypes, CallInv, Enqueue, Works, Owns
<1>2. o \in Operation /\ target[o] \in Recording /\ rec[c] = target[o]
  BY <1>1, Request
<1>3. UNCHANGED <<chain, requests>>
  BY DEF Enqueue
<1>4. o \notin Kept /\ ack[o] = "none" /\ ~Fresh(o)
  BY <1>1 DEF CallInv
<1>5. CASE Raise(c) /\ DiscardAudio(c) /\ UNCHANGED <<outbox, told>>
  BY <1>3, <1>5, QuietGrows, RaiseSession, FinishCall, DiscardedAudio, QuietStep DEF Raise
<1>6. CASE pending' = pending \cup {o} /\ UNCHANGED <<conflicts, applied, archive, audio>>
           /\ \/ /\ sync[c] = "pending"
                 /\ Capture(c, o, "pending") /\ Tell(o, "queued") /\ Finish(c)
              \/ /\ Goto(c, "check")
                 /\ UNCHANGED <<task, current, listed, blocked, session, told>>
  <2>1. Kept' = Kept \cup {o}
    BY <1>6 DEF Kept
  <2>2. abandoned' = abandoned
    BY <1>6 DEF Tell, told
  <2>3. Grows
    BY <1>3, <1>6, <2>1, <2>2, OutboxGrows
  <2>4. /\ ack' \in [Operation -> {"none", "saved", "queued", "conflict"}]
        /\ \A p \in Operation : ack'[p] # ack[p] => p = o /\ ack'[p] = "queued"
    BY <1>1, <1>2, <1>6, Told DEF SharedTypes, told
  <2>5. SharedTypes'
    BY <1>1, <1>2, <1>3, <1>6, <2>2, <2>4 DEF SharedTypes, requests
  <2>6. ASSUME NEW p \in Operation
        PROVE  Touches(c, p)
    BY <1>1, <1>3, <1>6, <2>1, <2>4 DEF Touches, Linked, Fresh, requests
  <2>7. CASE sync[c] = "pending" /\ Capture(c, o, "pending") /\ Tell(o, "queued") /\ Finish(c)
    <3>1. target'[o] = rec[c] /\ o \in Kept'
      BY <1>2, <1>3, <2>1 DEF requests
    <3>2. SessionStep(c) /\ SessionInv(c)'
      BY <1>2, <2>7, <3>1, CaptureSession
    <3> QED
      BY <2>3, <2>5, <2>6, <2>7, <3>2, FinishCall, SharedStep
  <2>8. CASE Goto(c, "check") /\ UNCHANGED <<task, current, listed, blocked, session, told>>
    <3>1. CallStep(c) /\ pc'[c] = "check"
      BY <2>8, GotoCall DEF Label
    <3>2. SessionStep(c) /\ SessionInv(c)'
      BY <2>3, <2>8, KeepSession DEF session
    <3>3. o \notin archive
      BY <1>4 DEF Kept
    <3>4. CallInv(c)'
      BY <1>1, <1>2, <1>3, <1>4, <1>6, <2>1, <2>8, <3>1, <3>3
         DEF CallInv, Owns, Works, Saving, Sending, Fresh, requests, session, told
    <3>5. Owns(c)' => Owns(c) /\ current'[c] = current[c]
      BY <1>1, <2>8
    <3> QED
      BY <2>3, <2>5, <2>6, <3>1, <3>2, <3>4, <3>5, SharedStep
  <2> QED BY <1>6, <2>7, <2>8
<1> QED BY <1>5, <1>6 DEF Enqueue

(* The store has answered, or the answer is lost. *)
LEMMA AnswerStep ==
  ASSUME IInv, NEW c \in Client, pc[c] \in {"check", "apply"},
         NEW label \in {"apply", "applied", "conflict", "abandon"}, Answer(c, label),
         Grows, chain' \in [Recording -> Seq(Store!Link)],
         label = "applied" => \A o \in Operation : o = current[c] => Stored(o)',
         label = "abandon" => Saving(c)
  PROVE  IInv'
<1>1. CallTypes /\ SharedTypes /\ CallInv(c) /\ Works(c)
  BY DEF IInv, TypeOK, CallTypes, SharedTypes, Works, Sending
<1>2. current[c] \in Operation /\ ~Fresh(current[c]) /\ current[c] \in Kept
  BY <1>1 DEF CallInv, Sending
<1>3. UNCHANGED <<requests, outbox, audio, task, current, listed, blocked, session, told>>
  BY DEF Answer
<1>4. SharedTypes'
  BY <1>1, <1>3 DEF SharedTypes, requests, outbox, told
<1>5. CallStep(c) /\ pc'[c] = label
  BY <1>3, GotoCall DEF Answer, Label
<1>6. SessionStep(c) /\ SessionInv(c)'
  BY <1>3, KeepSession DEF session
<1>7. \A p \in Operation : Touches(c, p)
  BY <1>3 DEF Touches, Linked, Fresh, requests, outbox, told, Kept
<1>8. Owns(c)' => Owns(c) /\ current'[c] = current[c]
  BY <1>1, <1>3 DEF Owns, Saving
<1>9. label = "applied" => Stored(current[c])'
  <2>1. PICK o \in Operation : o = current[c]
    BY <1>2
  <2>2. current'[c] = o
    BY <1>3, <2>1
  <2> QED BY <2>1, <2>2 DEF Stored, Store!Recorded
<1>10. CallInv(c)'
  BY <1>1, <1>2, <1>3, <1>5, <1>9
     DEF CallInv, Owns, Works, Saving, Sending, Fresh, Kept, requests, outbox, session, told
<1> QED
  BY <1>4, <1>5, <1>6, <1>7, <1>8, <1>10, SharedStep

LEMMA UnavailableStep ==
  ASSUME IInv, NEW c \in Client, pc[c] \in {"check", "apply"}, Unavailable(c),
         Grows, chain' \in [Recording -> Seq(Store!Link)]
  PROVE  IInv'
<1> DEFINE o == current[c]
<1>1. CallTypes /\ SharedTypes /\ CallInv(c) /\ Works(c)
  BY DEF IInv, TypeOK, CallTypes, SharedTypes, Works, Sending
<1>2. o \in Operation /\ target[o] \in Recording /\ (Saving(c) => rec[c] = target[o])
      /\ o \in Kept
  BY <1>1, Request
<1>3. UNCHANGED <<requests, outbox, audio>>
  BY DEF Unavailable
<1>4. CASE Saving(c)
  <2>1. Capture(c, o, "pending") /\ Tell(o, "queued") /\ Finish(c)
    BY <1>4 DEF Unavailable
  <2>2. /\ ack' \in [Operation -> {"none", "saved", "queued", "conflict"}]
        /\ abandoned' = abandoned
        /\ \A p \in Operation : ack'[p] # ack[p] => p = o /\ ack'[p] = "queued"
    BY <1>2, <2>1, Told
  <2>3. SharedTypes'
    BY <1>1, <1>3, <2>2 DEF SharedTypes, requests, outbox
  <2>4. ASSUME NEW p \in Operation
        PROVE  Touches(c, p)
    BY <1>1, <1>2, <1>3, <1>4, <2>2 DEF Touches, Linked, Fresh, Kept, requests, outbox
  <2>5. target'[o] = rec[c] /\ o \in Kept'
    BY <1>2, <1>3, <1>4 DEF requests, outbox, Kept
  <2>6. SessionStep(c) /\ SessionInv(c)'
    BY <1>2, <1>4, <2>1, <2>5, CaptureSession
  <2> QED BY <2>1, <2>3, <2>4, <2>6, FinishCall, SharedStep
<1>5. CASE ~Saving(c)
  <2>1. Retried(c, {target[o]}) /\ UNCHANGED <<session, told>>
    BY <1>5 DEF Unavailable
  <2>2. SharedTypes'
    BY <1>1, <1>3, <2>1 DEF SharedTypes, requests, outbox, told
  <2>3. \A p \in Operation : Touches(c, p)
    BY <1>3, <2>1 DEF Touches, Linked, Fresh, Kept, requests, outbox, told
  <2>4. SessionStep(c) /\ SessionInv(c)'
    BY <2>1, KeepSession DEF session
  <2> QED BY <1>2, <2>1, <2>2, <2>3, <2>4, RetriedCall, SharedStep
<1> QED BY <1>4, <1>5

LEMMA CheckStep ==
  ASSUME IInv, NEW c \in Client, Check(c)
  PROVE  IInv'
<1>1. UNCHANGED chain /\ pc[c] = "check"
  BY DEF Check
<1>2. Grows
  BY <1>1, OutboxGrows DEF Check, Answer, Unavailable, Tell, outbox, told, Kept
<1>3. chain' \in [Recording -> Seq(Store!Link)]
  BY <1>1 DEF IInv, TypeOK
<1>4. CASE Answer(c, IF Stored(current[c]) THEN "applied" ELSE "apply")
  <2>1. CASE Stored(current[c])
    BY <1>1, <1>2, <1>3, <1>4, <2>1, AnswerStep DEF Grows
  <2>2. CASE ~Stored(current[c])
    BY <1>1, <1>2, <1>3, <1>4, <2>2, AnswerStep
  <2> QED BY <2>1, <2>2
<1> QED BY <1>1, <1>2, <1>3, <1>4, UnavailableStep DEF Check

LEMMA ApplyStep ==
  ASSUME IInv, NEW c \in Client, Apply(c)
  PROVE  IInv'
<1> DEFINE o == current[c]
<1>1. pc[c] = "apply" /\ Works(c) /\ chain \in [Recording -> Seq(Store!Link)]
  BY DEF Apply, Works, Sending, IInv, TypeOK
<1>2. o \in Operation /\ target[o] \in Recording
  BY <1>1, Request
<1>3. CASE Commits(c) /\ (Answer(c, "applied") \/ Unavailable(c))
  <2>1. UNCHANGED <<requests, outbox, abandoned>>
    BY <1>3 DEF Answer, Unavailable, Tell, told
  <2>2. PICK p \in Operation : p = o
    BY <1>2
  <2>3. PICK r \in Recording : r = target[p]
    BY <1>2, <2>2
  <2>4. Store!Commit(r, p)
    BY <1>3, <2>2, <2>3 DEF Commits
  <2>5. target'[p] = r /\ \A x \in Operation : target'[x] = target[x]
    BY <2>1, <2>3 DEF requests
  <2>6. /\ chain' \in [Recording -> Seq(Store!Link)]
        /\ Stored(p)'
        /\ \A x \in Operation : Stored(x) => Stored(x)'
        /\ Located'
    BY <2>4, <2>5, Committed
  <2>7. Grows
    BY <2>1, <2>6 DEF Grows, requests, outbox, Kept
  <2>8. \A x \in Operation : x = current[c] => Stored(x)'
    BY <2>2, <2>6
  <2> QED BY <1>1, <1>3, <2>6, <2>7, <2>8, AnswerStep, UnavailableStep
<1>4. CASE UNCHANGED chain
  <2>1. CASE Answer(c, "conflict")
    <3>1. Grows
      BY <1>4, <2>1, QuietGrows DEF Answer
    <3> QED BY <1>1, <1>4, <2>1, <3>1, AnswerStep
  <2>2. CASE Unavailable(c)
    <3>1. Grows
      BY <1>4, <2>2, OutboxGrows DEF Unavailable, Tell, told, outbox, Kept
    <3> QED BY <1>1, <1>4, <2>2, <3>1, UnavailableStep
  <2>3. CASE StoreRaises(c)
    <3>1. UNCHANGED <<chain, requests, outbox, audio, session, told>>
      BY <2>3 DEF StoreRaises
    <3>2. Grows
      BY <3>1, QuietGrows
    <3>3. CASE Saving(c)
      <4>1. Answer(c, "abandon")
        BY <2>3, <3>3 DEF StoreRaises, Answer
      <4> QED BY <1>1, <1>4, <3>2, <3>3, <4>1, AnswerStep
    <3>4. CASE ~Saving(c)
      <4>1. Finish(c) /\ audio' \in SUBSET Recording
        BY <2>3, <3>1, <3>4 DEF StoreRaises, IInv, TypeOK
      <4> QED BY <3>1, <3>2, <4>1, KeepSession, FinishCall, QuietStep DEF session
    <3> QED BY <3>3, <3>4
  <2> QED BY <1>3, <1>4, <2>1, <2>2, <2>3 DEF Apply
<1>5. (Commits(c) /\ (Answer(c, "applied") \/ Unavailable(c))) \/ UNCHANGED chain
  BY DEF Apply, StoreRaises
<1> QED BY <1>3, <1>4, <1>5

(* Moving the first active file of an operation keeps a record of it. *)
LEMMA Moved ==
  ASSUME IInv, NEW o \in Operation, Remove(o),
         \/ applied' = applied \cup {o} /\ archive' = archive
         \/ applied' = applied /\ archive' = archive \cup {o}
  PROVE  /\ Kept \subseteq Kept'
         /\ Kept' \subseteq Kept \cup {o}
         /\ conflicts \cup applied \cup archive \subseteq conflicts' \cup applied' \cup archive'
         /\ pending' \in SUBSET Operation /\ conflicts' \in SUBSET Operation
         /\ applied' \in SUBSET Operation /\ archive' \in SUBSET Operation
BY DEF IInv, TypeOK, Remove, Kept

LEMMA MarkAppliedStep ==
  ASSUME IInv, NEW c \in Client, MarkApplied(c)
  PROVE  IInv'
<1> DEFINE o == current[c]
<1>1. CallTypes /\ SharedTypes /\ CallInv(c) /\ SessionInv(c) /\ pc[c] = "applied" /\ Works(c)
  BY DEF IInv, TypeOK, CallTypes, SharedTypes, MarkApplied, Works, Sending
<1>2. o \in Operation /\ target[o] \in Recording /\ (Saving(c) => rec[c] = target[o])
      /\ o \in Kept /\ Stored(o)
  BY <1>1, Request DEF CallInv
<1>3. UNCHANGED <<chain, requests, archive, audio>>
  BY DEF MarkApplied
<1>4. \/ Remove(o) /\ applied' = applied \cup {o}
      \/ UNCHANGED <<pending, conflicts, applied>>
  BY DEF MarkApplied
<1>5. /\ Kept \subseteq Kept' /\ Kept' \subseteq Kept \cup {o}
      /\ conflicts \cup applied \cup archive \subseteq conflicts' \cup applied' \cup archive'
      /\ pending' \in SUBSET Operation /\ conflicts' \in SUBSET Operation
      /\ applied' \in SUBSET Operation
      /\ applied' \subseteq applied \cup {o}
  <2>1. CASE Remove(o) /\ applied' = applied \cup {o}
    BY <1>2, <1>3, <2>1, Moved
  <2>2. CASE UNCHANGED <<pending, conflicts, applied>>
    BY <1>1, <1>3, <2>2 DEF Kept, SharedTypes
  <2> QED BY <1>4, <2>1, <2>2
<1>6. Tell(o, "saved") \/ UNCHANGED told
  BY DEF MarkApplied
<1>7. /\ ack' \in [Operation -> {"none", "saved", "queued", "conflict"}]
      /\ abandoned' = abandoned
      /\ \A p \in Operation : ack'[p] # ack[p] => p = o /\ ack'[p] = "saved"
  BY <1>1, <1>2, <1>6, Told DEF told, SharedTypes
<1>8. Grows
  BY <1>3, <1>5, <1>7, OutboxGrows
<1>9. SharedTypes'
  BY <1>1, <1>3, <1>5, <1>7 DEF SharedTypes, requests
<1>10. ASSUME NEW p \in Operation
       PROVE  Touches(c, p)
  BY <1>1, <1>2, <1>3, <1>5, <1>7 DEF Touches, Linked, Fresh, requests
<1>11. PICK p \in Operation : p = o
  BY <1>2
<1>12. CASE Saving(c) /\ Capture(c, o, "synced") /\ Finish(c)
  <2>1. target'[p] = rec[c] /\ rec[c] \in Recording /\ Stored(p)'
    BY <1>2, <1>3, <1>11, <1>12 DEF requests, Stored, Store!Recorded
  <2>2. SessionStep(c) /\ SessionInv(c)'
    BY <1>11, <1>12, <2>1, CaptureSession
  <2> QED BY <1>8, <1>9, <1>10, <1>12, <2>2, FinishCall, SharedStep
<1>13. CASE Raise(c)
  BY <1>8, <1>9, <1>10, <1>13, RaiseSession, FinishCall, SharedStep DEF Raise
<1>14. CASE (Retried(c, {}) \/ Finish(c)) /\ UNCHANGED session
  <2>1. SessionStep(c) /\ SessionInv(c)'
    BY <1>8, <1>14, KeepSession DEF session
  <2>2. CallStep(c) /\ CallInv(c)' /\ ~Owns(c)'
    BY <1>14, RetriedCall, FinishCall
  <2> QED BY <1>8, <1>9, <1>10, <2>1, <2>2, SharedStep
<1> QED BY <1>12, <1>13, <1>14 DEF MarkApplied

LEMMA ConflictKnownStep ==
  ASSUME IInv, NEW c \in Client, pc[c] \in {"rewrite", "unlink"}, ConflictKnown(c),
         UNCHANGED <<chain, requests, applied, archive, audio>>,
         \/ conflicts' = conflicts \cup {current[c]} /\ UNCHANGED pending
         \/ /\ pc[c] = "unlink"
            /\ pending' = pending \ {current[c]} /\ UNCHANGED conflicts
  PROVE  IInv'
<1> DEFINE o == current[c]
<1>1. CallTypes /\ SharedTypes /\ CallInv(c) /\ Works(c)
  BY DEF IInv, TypeOK, CallTypes, SharedTypes, Works, Sending
<1>2. o \in Operation /\ target[o] \in Recording /\ (Saving(c) => rec[c] = target[o])
      /\ o \in Kept /\ (pc[c] = "unlink" => o \in conflicts \cup applied \cup archive)
  BY <1>1, Request DEF CallInv
<1>3. /\ ack' \in [Operation -> {"none", "saved", "queued", "conflict"}]
      /\ abandoned' = abandoned
      /\ \A p \in Operation : ack'[p] # ack[p] => p = o /\ ack'[p] = "conflict"
  BY <1>2, Told DEF ConflictKnown
<1>4. /\ Kept \subseteq Kept' /\ Kept' \subseteq Kept
      /\ conflicts \cup applied \cup archive \subseteq conflicts' \cup applied' \cup archive'
  BY <1>2 DEF Kept
<1>5. Grows
  BY <1>3, <1>4, OutboxGrows
<1>6. SharedTypes'
  BY <1>1, <1>2, <1>3 DEF SharedTypes, requests
<1>7. ASSUME NEW p \in Operation
      PROVE  Touches(c, p)
  BY <1>1, <1>3, <1>4 DEF Touches, Linked, Fresh, requests
<1>8. CASE Saving(c)
  BY <1>2, <1>5, <1>6, <1>7, <1>8, CaptureConflict, FinishCall, SharedStep DEF ConflictKnown
<1>9. CASE ~Saving(c)
  <2>1. Retried(c, {target[o]}) /\ UNCHANGED session
    BY <1>9 DEF ConflictKnown
  <2>2. SessionStep(c) /\ SessionInv(c)'
    BY <1>5, <2>1, KeepSession DEF session
  <2> QED BY <1>2, <1>5, <1>6, <1>7, <2>1, <2>2, RetriedCall, SharedStep
<1> QED BY <1>8, <1>9

LEMMA ReadEnvelopeStep ==
  ASSUME IInv, NEW c \in Client, ReadEnvelope(c)
  PROVE  IInv'
<1>1. CallTypes /\ SharedTypes /\ CallInv(c) /\ pc[c] = "conflict" /\ Works(c)
  BY DEF IInv, TypeOK, CallTypes, SharedTypes, ReadEnvelope, Works, Sending
<1>2. UNCHANGED <<chain, requests, outbox, audio, told>>
  BY DEF ReadEnvelope
<1>3. Grows /\ audio' \in SUBSET Recording
  BY <1>1, <1>2, QuietGrows DEF SharedTypes
<1>4. CASE Raise(c)
  BY <1>2, <1>3, <1>4, RaiseSession, FinishCall, QuietStep DEF Raise
<1>5. ASSUME NEW label \in {"write", "rewrite"}, Goto(c, label),
             UNCHANGED <<task, current, listed, blocked, session>>
      PROVE  IInv'
  <2>1. CallStep(c) /\ pc'[c] = label
    BY <1>5, GotoCall DEF Label
  <2>2. SessionStep(c) /\ SessionInv(c)'
    BY <1>3, <1>5, KeepSession DEF session
  <2>3. CallInv(c)'
    BY <1>1, <1>2, <1>5, <2>1
       DEF CallInv, Owns, Works, Saving, Sending, Fresh, Kept, requests, outbox, session, told
  <2>4. Owns(c)' => Owns(c) /\ current'[c] = current[c]
    BY <1>1, <1>5 DEF Owns, Saving
  <2> QED BY <1>2, <1>3, <2>1, <2>2, <2>3, <2>4, QuietStep
<1> QED BY <1>4, <1>5 DEF ReadEnvelope

LEMMA WriteConflictStep ==
  ASSUME IInv, NEW c \in Client, WriteConflict(c)
  PROVE  IInv'
<1> DEFINE o == current[c]
<1>1. CallTypes /\ SharedTypes /\ CallInv(c) /\ pc[c] \in {"write", "rewrite"} /\ Works(c)
  BY DEF IInv, TypeOK, CallTypes, SharedTypes, WriteConflict, Works, Sending
<1>2. o \in Operation /\ o \in Kept
  BY <1>1, Request
<1>3. UNCHANGED <<chain, requests, pending, applied, archive, audio>>
  BY DEF WriteConflict
<1>4. CASE Raise(c) /\ UNCHANGED <<conflicts, told>>
  <2>1. UNCHANGED outbox /\ audio' \in SUBSET Recording
    BY <1>1, <1>3, <1>4 DEF outbox, SharedTypes
  <2> QED BY <1>3, <1>4, <2>1, QuietGrows, RaiseSession, FinishCall, QuietStep DEF Raise
<1>5. CASE conflicts' = conflicts \cup {o} /\ ConflictKnown(c) /\ pc[c] = "rewrite"
  BY <1>1, <1>3, <1>5, ConflictKnownStep
<1>6. CASE /\ conflicts' = conflicts \cup {o}
           /\ Goto(c, "unlink")
           /\ UNCHANGED <<task, current, listed, blocked, session, told>>
  <2>1. CallStep(c) /\ pc'[c] = "unlink"
    BY <1>6, GotoCall DEF Label
  <2>2. Kept \subseteq Kept' /\ Kept' \subseteq Kept
    BY <1>2, <1>3, <1>6 DEF Kept
  <2>3. Grows
    BY <1>3, <1>6, <2>2, OutboxGrows DEF told
  <2>4. SharedTypes'
    BY <1>1, <1>2, <1>3, <1>6 DEF SharedTypes, requests, told
  <2>5. \A p \in Operation : Touches(c, p)
    BY <1>3, <1>6, <2>2 DEF Touches, Linked, Fresh, requests, told
  <2>6. SessionStep(c) /\ SessionInv(c)'
    BY <1>6, <2>3, KeepSession DEF session
  <2>7. CallInv(c)'
    BY <1>1, <1>2, <1>3, <1>6, <2>1, <2>2
       DEF CallInv, Owns, Works, Saving, Sending, Fresh, requests, session, told
  <2>8. Owns(c)' => Owns(c) /\ current'[c] = current[c]
    BY <1>1, <1>6 DEF Owns, Saving
  <2> QED BY <2>1, <2>3, <2>4, <2>5, <2>6, <2>7, <2>8, SharedStep
<1> QED BY <1>1, <1>4, <1>5, <1>6 DEF WriteConflict

LEMMA UnlinkPendingStep ==
  ASSUME IInv, NEW c \in Client, UnlinkPending(c)
  PROVE  IInv'
<1>1. pc[c] = "unlink" /\ UNCHANGED <<chain, requests, conflicts, applied, archive, audio>>
  BY DEF UnlinkPending
<1>2. CASE Raise(c) /\ UNCHANGED <<pending, told>>
  <2>1. UNCHANGED outbox /\ audio' \in SUBSET Recording
    BY <1>1, <1>2 DEF outbox, IInv, TypeOK
  <2> QED BY <1>1, <1>2, <2>1, QuietGrows, RaiseSession, FinishCall, QuietStep DEF Raise
<1>3. CASE pending' = pending \ {current[c]} /\ ConflictKnown(c)
  BY <1>1, <1>3, ConflictKnownStep
<1> QED BY <1>2, <1>3 DEF UnlinkPending

LEMMA AbandonStep ==
  ASSUME IInv, NEW c \in Client, Abandon(c)
  PROVE  IInv'
<1> DEFINE o == current[c]
<1>1. CallTypes /\ SharedTypes /\ CallInv(c) /\ pc[c] = "abandon" /\ Works(c)
  BY DEF IInv, TypeOK, CallTypes, SharedTypes, Abandon, Works, Sending
<1>2. o \in Operation /\ o \in Kept
  BY <1>1, Request
<1>3. UNCHANGED <<chain, requests, applied, told>> /\ Raise(c) /\ audio' \in SUBSET Recording
  BY DiscardedAudio DEF Abandon
<1>4. CASE UNCHANGED <<pending, conflicts, archive>>
  <2>1. UNCHANGED outbox
    BY <1>3, <1>4 DEF outbox
  <2> QED BY <1>3, <2>1, QuietGrows, RaiseSession, FinishCall, QuietStep DEF Raise
<1>5. CASE Remove(o) /\ archive' = archive \cup {o}
  <2>1. /\ Kept \subseteq Kept' /\ Kept' \subseteq Kept
        /\ conflicts \cup applied \cup archive \subseteq conflicts' \cup applied' \cup archive'
        /\ pending' \in SUBSET Operation /\ conflicts' \in SUBSET Operation
        /\ archive' \in SUBSET Operation
    BY <1>2, <1>3, <1>5, Moved
  <2>2. Grows
    BY <1>3, <2>1, OutboxGrows DEF told
  <2>3. SharedTypes'
    BY <1>1, <1>3, <2>1 DEF SharedTypes, requests, told
  <2>4. \A p \in Operation : Touches(c, p)
    BY <1>1, <1>3, <1>5, <2>1 DEF Touches, Linked, Fresh, requests, told
  <2> QED BY <1>3, <2>2, <2>3, <2>4, RaiseSession, FinishCall, SharedStep DEF Raise
<1> QED BY <1>4, <1>5 DEF Abandon

LEMMA ArchiveStep ==
  ASSUME IInv, NEW c \in Client, NEW o \in Operation, Archive(c, o)
  PROVE  IInv'
<1>1. CallTypes /\ SharedTypes /\ CallInv(c) /\ pc[c] = "idle" /\ task[c] = "none" /\ o \in Kept
  BY DEF IInv, TypeOK, CallTypes, SharedTypes, CallInv, Archive, Active, Kept
<1>2. UNCHANGED <<chain, requests, applied, audio, call, session, ack>>
      /\ abandoned' = abandoned \cup {o}
      /\ Remove(o) /\ archive' = archive \cup {o}
  BY DEF Archive
<1>3. /\ Kept \subseteq Kept' /\ Kept' \subseteq Kept
      /\ conflicts \cup applied \cup archive \subseteq conflicts' \cup applied' \cup archive'
      /\ pending' \in SUBSET Operation /\ conflicts' \in SUBSET Operation
      /\ archive' \in SUBSET Operation
  BY <1>1, <1>2, Moved
<1>4. Grows
  BY <1>2, <1>3, OutboxGrows
<1>5. SharedTypes'
  BY <1>1, <1>2, <1>3 DEF SharedTypes, requests
<1>6. \A p \in Operation : Touches(c, p)
  BY <1>2, <1>3 DEF Touches, Linked, Fresh, requests
<1>7. CallStep(c)
  BY <1>1, <1>2 DEF CallStep, CallTypes, SameCall, call
<1>8. SessionStep(c) /\ SessionInv(c)'
  BY <1>2, <1>4, KeepSession DEF session
<1>9. CallInv(c)' /\ ~Owns(c)'
  BY <1>1, <1>2 DEF CallInv, Owns, Works, Saving, Sending, call
<1> QED BY <1>4, <1>5, <1>6, <1>7, <1>8, <1>9, SharedStep

LEMMA RemoteSaveStep ==
  ASSUME IInv, NEW r \in Recording, NEW o \in Operation, RemoteSave(r, o)
  PROVE  IInv'
<1>1. /\ TypeOK /\ SharedTypes /\ Fresh(o) /\ chain[r] # <<>>
      /\ target' = [target EXCEPT ![o] = r]
      /\ parent' = [parent EXCEPT ![o] = head(r)]
      /\ Store!Commit(r, o)
      /\ UNCHANGED <<outbox, audio, call, session, told>>
  BY DEF IInv, TypeOK, SharedTypes, RemoteSave
<1>2. PICK h : h = head(r)
  OBVIOUS
<1>3. h \in Operation /\ target[h] = r /\ Stored(h)
  BY <1>1, <1>2, HeadIsLocated
<1>4. /\ target'[o] = r /\ parent'[o] = h
      /\ \A p \in Operation : p # o => target'[p] = target[p] /\ parent'[p] = parent[p]
  BY <1>1, <1>2 DEF SharedTypes
<1>5. \A p \in Operation : ~Fresh(p) => p # o
  BY <1>1 DEF Fresh
<1>6. /\ chain' \in [Recording -> Seq(Store!Link)]
      /\ \A x \in Operation : Stored(x) => Stored(x)'
      /\ Located'
  BY <1>1, <1>4, <1>5, Committed
<1>7. Grows
  BY <1>1, <1>4, <1>5, <1>6 DEF Grows, outbox, told, Kept
<1>8. TypeOK'
  BY <1>1, <1>2, <1>3, <1>6 DEF TypeOK, outbox, call, session, told
<1>9. ASSUME NEW d \in Client
      PROVE  CallInv(d)' /\ SessionInv(d)'
  <2>1. SameClient(d)
    BY <1>1 DEF SameClient, SameCall, SameSession, call, session
  <2>2. pc[d] = "enqueue" => current[d] \notin Kept' /\ ack'[current[d]] = "none"
    BY <1>1 DEF IInv, CallInv, outbox, told, Kept
  <2>3. Saving(d) /\ pc[d] \in Sending =>
          /\ ack'[current[d]] # "queued"
          /\ current[d] \in archive' => current[d] \in abandoned'
    BY <1>1 DEF IInv, CallInv, outbox, told
  <2> QED BY <1>7, <1>8, <2>1, <2>2, <2>3, Undisturbed
<1>10. OneOwner'
  BY <1>1 DEF IInv, OneOwner, Owns, Works, Saving, call
<1>11. ASSUME NEW p \in Operation
       PROVE  RecordInv(p)'
  <2>1. RecordInv(p) /\ (Stored(p) => Stored(p)') /\ (~Fresh(p) => ~Fresh(p)')
    BY <1>4, <1>5, <1>6 DEF IInv, Fresh
  <2>2. Fresh(p)' => Fresh(p) /\ parent'[p] = parent[p]
    BY <1>4, <1>5, NoRecordingAssumption DEF Fresh
  <2> QED BY <1>1, <2>1, <2>2 DEF RecordInv, Fresh, outbox, told, Kept
<1>12. ASSUME NEW p \in Operation
       PROVE  ParentInv(p)'
  <2> SUFFICES ASSUME NEW q \in Operation, ~Fresh(p)', parent'[p] = q
               PROVE  target'[q] = target'[p] /\ (Stored(q)' \/ q \in Kept')
    BY DEF ParentInv
  <2>1. ParentInv(p)
    BY DEF IInv
  <2>2. CASE p = o
    <3>1. q = h
      BY <1>4, <2>2
    <3> QED BY <1>3, <1>4, <1>5, <1>6, <2>2, <3>1, NoRecordingAssumption DEF Fresh
  <2>3. CASE p # o
    <3>1. ~Fresh(p) /\ parent[p] = q /\ target'[p] = target[p]
      BY <1>4, <2>3 DEF Fresh
    <3>2. target[q] = target[p] /\ (Stored(q) \/ q \in Kept)
      BY <2>1, <3>1 DEF ParentInv
    <3> QED BY <1>4, <1>5, <1>7, <3>1, <3>2 DEF Grows, Fresh
  <2> QED BY <2>2, <2>3
<1> QED BY <1>6, <1>8, <1>9, <1>10, <1>11, <1>12 DEF IInv

-----------------------------------------------------------------------------
LEMMA StutterStep == ASSUME IInv, UNCHANGED vars PROVE IInv'
BY DEF IInv, TypeOK, Located, RecordInv, ParentInv, CallInv, SessionInv, OneOwner, Owns,
       Works, Saving, Fresh, Kept, Stored, Store!Recorded,
       vars, requests, outbox, call, session, told

LEMMA NextIInv == ASSUME IInv, [Next]_vars PROVE IInv'
<1>1. CASE UNCHANGED vars
  BY <1>1, StutterStep
<1>2. ASSUME NEW c \in Client, Begin(c)
      PROVE  IInv'
  BY <1>2, BeginSaveStep, BeginRetryAllStep, CloseStep, BeginRetryStep, ArchiveStep,
     BeginLoadStep, BeginCreateStep DEF Begin
<1>3. ASSUME NEW c \in Client, Proceed(c)
      PROVE  IInv'
  BY <1>3, BeginRequestStep, EnqueueStep, CheckStep, ApplyStep, MarkAppliedStep,
     ReadEnvelopeStep, WriteConflictStep, UnlinkPendingStep, AbandonStep, ListPendingStep,
     RetryNextStep, BeginQueryStep, LoadStep DEF Proceed
<1> QED
  BY <1>1, <1>2, <1>3, CrashStep, RemoteSaveStep DEF Next

(* The invariant holds of every state the clients, the outbox and the store   *)
(* can reach.                                                                 *)
THEOREM RecoveryInvariant == Spec => []IInv
<1>1. Init => IInv
  BY InitIInv
<1>2. IInv /\ [Next]_vars => IInv'
  BY NextIInv
<1> QED BY <1>1, <1>2, PTL DEF Spec

(* Every variable keeps its type.  (the outbox, edit sessions, handlers)      *)
THEOREM RecoveryTypes == Spec => []TypeOK
<1>1. IInv => TypeOK
  BY DEF IInv
<1> QED BY <1>1, RecoveryInvariant, PTL

(* "saved" and what applied/ names is in the store, "queued" is on file until *)
(* it is, whatever fails.  (RecordingEditSession.save,                        *)
(* RecordingHandler.create)                                                   *)
THEOREM AcknowledgementsHold == Spec => []AcknowledgedSaveSurvives
<1>1. IInv => AcknowledgedSaveSurvives
  <2> SUFFICES ASSUME IInv, NEW o \in Operation
               PROVE  /\ ack[o] = "saved" \/ o \in applied => Stored(o)
                      /\ ack[o] = "queued" => Stored(o) \/ Active(o) \/ o \in abandoned
    BY DEF AcknowledgedSaveSurvives
  <2> QED BY DEF IInv, RecordInv, Kept, Active
<1> QED BY <1>1, RecoveryInvariant, PTL

LEMMA StepKeepsRecords ==
  ASSUME IInv, [Next]_vars
  PROVE  Kept \subseteq Kept'
<1>1. CASE UNCHANGED outbox
  BY <1>1 DEF outbox, Kept
<1>2. ASSUME NEW o, Remove(o), applied \subseteq applied', archive \subseteq archive',
             o \in applied' \cup archive'
      PROVE  Kept \subseteq Kept'
  BY <1>2 DEF Remove, Kept
<1>3. ASSUME NEW c \in Client, NEW o \in Operation, Archive(c, o)
      PROVE  Kept \subseteq Kept'
  BY <1>2, <1>3 DEF Archive
<1>4. ASSUME NEW c \in Client, Proceed(c)
      PROVE  Kept \subseteq Kept'
  <2>1. CASE Enqueue(c)
    BY <2>1 DEF Enqueue, Kept, outbox
  <2>2. CASE MarkApplied(c)
    <3>1. UNCHANGED <<pending, conflicts, applied>> \/ Remove(current[c])
      BY <2>2 DEF MarkApplied
    <3> QED BY <1>2, <2>2, <3>1 DEF MarkApplied, Kept
  <2>3. CASE WriteConflict(c)
    BY <2>3 DEF WriteConflict, Kept
  <2>4. CASE UnlinkPending(c)
    <3>1. current[c] \in conflicts \cup applied \cup archive
      BY <2>4 DEF IInv, CallInv, UnlinkPending
    <3> QED BY <2>4, <3>1 DEF UnlinkPending, Kept
  <2>5. CASE Abandon(c)
    <3>1. UNCHANGED <<pending, conflicts, archive>> \/ Remove(current[c])
      BY <2>5 DEF Abandon
    <3> QED BY <1>2, <2>5, <3>1 DEF Abandon, Kept
  <2>6. CASE \/ BeginRequest(c) \/ Check(c) \/ Apply(c) \/ ReadEnvelope(c) \/ ListPending(c)
             \/ RetryNext(c) \/ BeginQuery(c) \/ Load(c)
    BY <1>1, <2>6 DEF BeginRequest, Check, Apply, Answer, Unavailable, StoreRaises,
                      ReadEnvelope, ListPending, RetryNext, BeginQuery, Load
  <2> QED BY <1>4, <2>1, <2>2, <2>3, <2>4, <2>5, <2>6 DEF Proceed
<1>5. ASSUME NEW c \in Client, Begin(c) \/ Crash(c), \A o \in Operation : ~Archive(c, o)
      PROVE  Kept \subseteq Kept'
  BY <1>1, <1>5 DEF Begin, BeginSave, BeginRetryAll, Close, BeginRetry, BeginLoad,
                    BeginCreate, Crash
<1>6. ASSUME NEW r \in Recording, NEW o \in Operation, RemoteSave(r, o)
      PROVE  Kept \subseteq Kept'
  BY <1>1, <1>6 DEF RemoteSave
<1> QED BY <1>1, <1>3, <1>4, <1>5, <1>6 DEF Next, vars

(* No step loses a record, in particular none between the two file            *)
(* operations of mark_conflict.  (FileRecoveryOutbox)                         *)
THEOREM NoRecordIsLost == Spec => RecordsAreRetained
<1>1. ASSUME IInv, [Next]_vars
      PROVE  Kept \subseteq Kept'
  BY <1>1, StepKeepsRecords
<1>2. ASSUME IInv, [Next]_vars
      PROVE  [\A o \in Kept : o \in Kept']_vars
  BY <1>1, <1>2
<1> QED BY <1>2, RecoveryInvariant, PTL DEF Spec, RecordsAreRetained
-----------------------------------------------------------------------------
(* The requests form no cycle: every set of them has one whose parent is      *)
(* outside of it.  (A set stands for a chain of parents that comes back.)     *)
Rooted == \A S \in SUBSET Operation : S # {} => \E o \in S : parent[o] \notin S

LEMMA StoredIsMade ==
  ASSUME IInv, NEW o \in Operation, Stored(o)
  PROVE  ~Fresh(o)
<1>1. PICK r \in Recording : \E n \in 1..Len(chain[r]) : chain[r][n].id = o
  BY DEF Stored, Store!Recorded
<1>2. PICK n \in 1..Len(chain[r]) : chain[r][n].id = o
  BY <1>1
<1> QED
  BY <1>2, ChainEntry, NoRecordingAssumption DEF Fresh

LEMMA RequestIsRooted ==
  ASSUME IInv, Rooted, NEW o \in Operation, Fresh(o), NEW p, p # o,
         parent' = [parent EXCEPT ![o] = p]
  PROVE  Rooted'
<1>1. parent'[o] = p /\ \A x \in Operation : x # o => parent'[x] = parent[x]
  BY DEF IInv, TypeOK
<1>2. \A x \in Operation : parent[x] # o
  <2> SUFFICES ASSUME NEW x \in Operation, parent[x] = o PROVE FALSE
    OBVIOUS
  <2>1. ~Fresh(x)
    BY NoOperationAssumption DEF IInv, RecordInv
  <2>2. target[o] = target[x]
    BY <2>1 DEF IInv, ParentInv
  <2> QED BY <2>1, <2>2 DEF Fresh
<1> SUFFICES ASSUME NEW S \in SUBSET Operation, S # {}
             PROVE  \E x \in S : parent'[x] \notin S
  BY DEF Rooted
<1>3. CASE S \ {o} = {}
  <2>1. o \in S /\ p \notin S
    BY <1>3
  <2> QED BY <1>1, <2>1
<1>4. CASE S \ {o} # {}
  <2>1. PICK x \in S \ {o} : parent[x] \notin S \ {o}
    BY <1>4 DEF Rooted
  <2> QED BY <1>1, <1>2, <2>1
<1> QED BY <1>3, <1>4

LEMMA RootedStep ==
  ASSUME IInv, Rooted, [Next]_vars
  PROVE  Rooted'
<1>1. CASE UNCHANGED parent
  BY <1>1 DEF Rooted
<1>2. ASSUME NEW c \in Client, BeginRequest(c) PROVE Rooted'
  <2>1. CASE UNCHANGED requests
    BY <1>1, <2>1 DEF requests
  <2>2. CASE ~UNCHANGED requests
    <3>1. PICK o \in Operation : Fresh(o) /\ parent' = [parent EXCEPT ![o] = base[c]]
      BY <1>2, <2>2 DEF BeginRequest
    <3>2. sync[c] \in {"synced", "pending"}
      <4>1. sync[c] # "conflict" /\ task[c] = "save"
        BY <1>2, <2>2 DEF BeginRequest
      <4> QED BY <4>1 DEF IInv, TypeOK, CallInv
    <3>3. base[c] # o
      <4>1. target[base[c]] = rec[c] /\ rec[c] \in Recording
        BY <3>2 DEF IInv, SessionInv
      <4> QED BY <3>1, <4>1, NoRecordingAssumption DEF Fresh
    <3> QED BY <3>1, <3>3, RequestIsRooted
  <2> QED BY <2>1, <2>2
<1>3. ASSUME NEW r \in Recording, NEW o \in Operation, RemoteSave(r, o) PROVE Rooted'
  <2>1. Fresh(o) /\ chain[r] # <<>> /\ parent' = [parent EXCEPT ![o] = head(r)]
    BY <1>3 DEF RemoteSave
  <2>2. head(r) # o
    BY <2>1, HeadIsLocated, NoRecordingAssumption DEF Fresh
  <2> QED BY <2>1, <2>2, RequestIsRooted
<1>4. ASSUME NEW c \in Client, Begin(c) \/ Crash(c) PROVE Rooted'
  <2>1. UNCHANGED parent
    BY <1>4 DEF Begin, BeginSave, BeginRetryAll, Close, BeginRetry, Archive, BeginLoad,
                BeginCreate, Crash, requests
  <2> QED BY <1>1, <2>1
<1>5. ASSUME NEW c \in Client, Proceed(c), ~BeginRequest(c) PROVE Rooted'
  <2>1. UNCHANGED parent
    BY <1>5 DEF Proceed, Enqueue, Check, Apply, Answer, Unavailable, StoreRaises, MarkApplied,
                ReadEnvelope, WriteConflict, UnlinkPending, Abandon, ListPending, RetryNext,
                BeginQuery, Load, requests
  <2> QED BY <1>1, <2>1
<1> QED BY <1>1, <1>2, <1>3, <1>4, <1>5 DEF Next, vars, requests

(* retry_all never raises its cycle error, whatever other clients of the      *)
(* outbox do meanwhile.  (RecoveryHandler.retry_all)                          *)
THEOREM NoCycleIsFound == Spec => []NoDependencyCycle
<1>1. Init => Rooted
  BY NoOperationAssumption DEF Init, Rooted
<1>2. IInv /\ Rooted /\ [Next]_vars => Rooted'
  BY RootedStep
<1>3. IInv /\ Rooted => NoDependencyCycle
  <2> SUFFICES ASSUME IInv, Rooted, NEW c \in Client, Ready(c) = {}
               PROVE  \A o \in listed[c] : target[o] \in blocked[c]
    BY DEF NoDependencyCycle
  <2> DEFINE S == {o \in listed[c] : target[o] \notin blocked[c]}
  <2>1. S \in SUBSET Operation /\ listed[c] \in SUBSET Operation
    BY DEF IInv, TypeOK
  <2>2. ASSUME S # {} PROVE FALSE
    <3>1. PICK o \in S : parent[o] \notin S
      BY <2>1, <2>2 DEF Rooted
    <3>2. parent[o] \in listed[c]
      BY <3>1 DEF Ready
    <3>3. ~Fresh(o) /\ parent[o] \in Operation
      BY <2>1, <3>1, <3>2, NoOperationAssumption DEF IInv, RecordInv
    <3>4. target[parent[o]] = target[o]
      BY <2>1, <3>1, <3>3 DEF IInv, ParentInv
    <3> QED BY <3>1, <3>2, <3>4
  <2> QED BY <2>2
<1> QED BY <1>1, <1>2, <1>3, RecoveryInvariant, PTL DEF Spec

-----------------------------------------------------------------------------
(* What only holds with one client: a second one may commit the very request  *)
(* that the first is about to refuse (RefusalRace).                           *)
OneClient == \A c, d \in Client : c = d

(* The places of a call that has not seen its request in the store. *)
NotYet(c) ==
  /\ pc[c] \in {"enqueue", "apply", "conflict", "write", "rewrite", "unlink", "abandon"} =>
       ~Stored(current[c])
  /\ Saving(c) /\ pc[c] = "check" => ~Stored(current[c])

LEMMA CommitStoresOne ==
  ASSUME IInv, NEW r \in Recording, NEW o \in Operation, Store!Commit(r, o),
         NEW x \in Operation, Stored(x)'
  PROVE  x = o \/ Stored(x)
<1> DEFINE link == [id |-> o, parent |-> head(r)]
<1>1. chain' = [chain EXCEPT ![r] = Append(chain[r], link)]
  BY DEF Store!Commit, head
<1>2. PICK s \in Recording : \E n \in 1..Len(chain'[s]) : chain'[s][n].id = x
  BY DEF Stored, Store!Recorded
<1>3. PICK n \in 1..Len(chain'[s]) : chain'[s][n].id = x
  BY <1>2
<1>4. CASE s # r
  <2>1. chain'[s] = chain[s]
    BY <1>1, <1>4 DEF IInv, TypeOK
  <2> QED BY <1>3, <2>1 DEF Stored, Store!Recorded
<1>5. CASE s = r
  <2>1. chain'[r] = Append(chain[r], link)
    BY <1>1 DEF IInv, TypeOK
  <2>2. head(r) \in Operation \cup {NoOperation}
    BY ChainEntry DEF head, Store!Tip
  <2>3. link \in Store!Link /\ chain[r] \in Seq(Store!Link)
    BY <2>2, ChainEntry DEF Store!Link
  <2>4. /\ Len(chain'[r]) = Len(chain[r]) + 1
        /\ chain'[r][Len(chain[r]) + 1] = link
        /\ \A k \in 1..Len(chain[r]) : chain'[r][k] = chain[r][k]
    BY <2>1, <2>3, AppendProperties
  <2>5. Len(chain[r]) \in Nat
    BY <2>3, LenProperties
  <2>6. CASE n = Len(chain[r]) + 1
    BY <1>3, <1>5, <2>4, <2>6
  <2>7. CASE n # Len(chain[r]) + 1
    <3>1. n \in 1..Len(chain[r])
      BY <1>5, <2>4, <2>5, <2>7
    <3> QED BY <1>3, <1>5, <2>4, <3>1 DEF Stored, Store!Recorded
  <2> QED BY <2>6, <2>7
<1> QED BY <1>4, <1>5

LEMMA StoreStands ==
  ASSUME UNCHANGED chain, NEW x
  PROVE  Stored(x)' = Stored(x)
BY DEF Stored, Store!Recorded

LEMMA NotYetStep ==
  ASSUME OneClient, IInv, NEW c \in Client, NotYet(c), [Next]_vars
  PROVE  NotYet(c)'
<1>1. TypeOK /\ CallInv(c)
  BY DEF IInv
<1>2. \A o \in Operation : Fresh(o) => ~Stored(o)
  BY StoredIsMade
<1>3. CASE UNCHANGED vars
  BY <1>3 DEF vars, call, NotYet, Saving, Stored, Store!Recorded
<1>4. ASSUME NEW r \in Recording, NEW o \in Operation, RemoteSave(r, o) PROVE NotYet(c)'
  <2>1. Fresh(o) /\ Store!Commit(r, o) /\ UNCHANGED call
    BY <1>4 DEF RemoteSave
  <2>2. Works(c) => current[c] \in Operation /\ ~Fresh(current[c])
    BY <1>1 DEF CallInv
  <2>3. Works(c) /\ Stored(current[c])' => Stored(current[c])
    <3>1. \A x \in Operation : Stored(x)' => x = o \/ Stored(x)
      BY <2>1, CommitStoresOne
    <3>2. current'[c] = current[c]
      BY <2>1 DEF call
    <3> QED BY <2>1, <2>2, <3>1, <3>2 DEF Stored, Store!Recorded
  <2> QED BY <2>1, <2>3 DEF NotYet, call, Saving, Works, Sending
<1>5. ASSUME NEW d \in Client, Begin(d) \/ Crash(d) PROVE NotYet(c)'
  <2>1. c = d /\ UNCHANGED chain
    BY <1>5 DEF OneClient, Begin, BeginSave, BeginRetryAll, Close, BeginRetry, Archive,
                BeginLoad, BeginCreate, Crash
  <2>2. \A x : Stored(x)' = Stored(x)
    BY <2>1, StoreStands
  <2>3. ASSUME NEW r \in Recording, NEW o \in Operation, BeginCreate(c, r, o)
        PROVE  NotYet(c)'
    <3>1. current'[c] = o /\ ~Stored(o)' /\ pc'[c] = "enqueue"
      <4>1. current'[c] = o /\ Fresh(o) /\ pc'[c] = "enqueue"
        BY <1>1, <2>3 DEF BeginCreate, TypeOK, Goto
      <4> QED BY <1>2, <2>2, <4>1
    <3> QED BY <3>1 DEF NotYet, Stored, Store!Recorded
  <2>4. ASSUME NEW o \in Operation, Archive(c, o) PROVE NotYet(c)'
    BY <1>1, <2>4 DEF Archive, call, NotYet
  <2>5. CASE BeginSave(c) \/ BeginRetryAll(c) \/ Close(c) \/ Crash(c)
             \/ (\E o \in Operation : BeginRetry(c, o))
             \/ (\E r \in Recording : BeginLoad(c, r))
    BY <1>1, <2>5 DEF BeginSave, BeginRetryAll, Close, Crash, BeginRetry, BeginLoad, Goto,
                      Finish, NotYet, TypeOK, Saving, call
  <2> QED BY <1>5, <2>1, <2>3, <2>4, <2>5 DEF Begin
<1>6. ASSUME NEW d \in Client, Proceed(d) PROVE NotYet(c)'
  <2>1. c = d
    BY DEF OneClient
  <2>2. CASE Apply(c)
    <3>1. pc'[c] \in {"applied", "idle", "next"} \/ (UNCHANGED <<chain, current>> /\ pc'[c] \in {"conflict", "abandon"})
      BY <1>1, <2>2 DEF Apply, Answer, Unavailable, StoreRaises, Retried, Continue, Finish,
                        Goto, TypeOK
    <3>2. pc[c] = "apply"
      BY <2>2 DEF Apply
    <3> QED BY <3>1, <3>2 DEF NotYet, Stored, Store!Recorded
  <2>3. CASE ~Apply(c)
    <3>1. UNCHANGED chain
      BY <1>6, <2>1, <2>3 DEF Proceed, BeginRequest, Enqueue, Check, MarkApplied, ReadEnvelope,
                              WriteConflict, UnlinkPending, Abandon, ListPending, RetryNext, BeginQuery, Load
    <3>2. \A x : Stored(x)' = Stored(x)
      BY <3>1, StoreStands
    <3>3. CASE BeginRequest(c)
      <4>1. pc'[c] = "idle" \/ (pc'[c] = "enqueue" /\ current'[c] \in Operation /\ Fresh(current'[c]))
        BY <1>1, <3>3 DEF BeginRequest, Finish, Goto, TypeOK
      <4> QED BY <1>2, <3>1, <4>1 DEF NotYet, Stored, Store!Recorded
    <3>4. CASE Enqueue(c)
      <4>1. pc'[c] = "idle" \/ (pc'[c] = "check" /\ current'[c] = current[c] /\ pc[c] = "enqueue")
        BY <1>1, <3>4 DEF Enqueue, Raise, Finish, Goto, TypeOK
      <4> QED BY <3>1, <4>1 DEF NotYet, Stored, Store!Recorded
    <3>5. CASE Check(c)
      <4>1. \/ pc'[c] \in {"idle", "next", "applied"}
            \/ pc'[c] = "apply" /\ current'[c] = current[c] /\ ~Stored(current[c])
        BY <1>1, <3>5 DEF Check, Answer, Unavailable, Retried, Continue, Finish, Goto, TypeOK
      <4> QED BY <3>1, <4>1 DEF NotYet, Stored, Store!Recorded
    <3>6. CASE RetryNext(c)
      <4>1. pc'[c] = "idle" \/ (pc'[c] = "check" /\ task'[c] = "retry_all")
        BY <1>1, <3>6 DEF RetryNext, Finish, Goto, TypeOK, CallInv
      <4> QED BY <4>1 DEF NotYet, Saving
    <3>7. CASE ReadEnvelope(c) \/ WriteConflict(c)
      <4>1. \/ pc'[c] \in {"idle", "next"}
            \/ /\ pc'[c] \in {"write", "rewrite", "unlink"} /\ current'[c] = current[c]
               /\ pc[c] \in {"conflict", "write", "rewrite"}
        BY <1>1, <3>7 DEF ReadEnvelope, WriteConflict, ConflictKnown, Raise, Retried, Continue,
                          Finish, Goto, TypeOK
      <4> QED BY <3>1, <4>1 DEF NotYet, Stored, Store!Recorded
    <3>8. CASE \/ MarkApplied(c) \/ UnlinkPending(c) \/ Abandon(c)
               \/ ListPending(c) \/ BeginQuery(c) \/ Load(c)
      <4>1. pc'[c] \in {"idle", "next", "load"}
        BY <1>1, <3>8 DEF MarkApplied, UnlinkPending, Abandon, ListPending, BeginQuery, Load,
                          ConflictKnown, Raise, Retried, Continue, Finish, Goto, TypeOK
      <4> QED BY <4>1 DEF NotYet
    <3> QED BY <1>6, <2>1, <2>3, <3>3, <3>4, <3>5, <3>6, <3>7, <3>8 DEF Proceed
  <2> QED BY <2>2, <2>3
<1> QED BY <1>3, <1>4, <1>5, <1>6 DEF Next

(* With one client, no save that took effect is refused or marked as a        *)
(* conflict, whatever other machines commit, and however often answers are    *)
(* lost and calls crash.  (save, retry)                                       *)
THEOREM RefusalsAreGenuine == ASSUME OneClient PROVE Spec => []RefusalIsGenuine
<1> DEFINE Sound == \A c \in Client : NotYet(c)
<1>1. Init => Sound
  BY DEF Init, NotYet, Saving
<1>2. IInv /\ Sound /\ [Next]_vars => Sound'
  BY NotYetStep
<1>3. Sound => RefusalIsGenuine
  BY DEF NotYet, RefusalIsGenuine
<1> QED BY <1>1, <1>2, <1>3, RecoveryInvariant, PTL DEF Spec

-----------------------------------------------------------------------------
(* The parent of the request a call works on is not to be sent any more. *)
ParentIsDone(c) ==
  LET p == parent[current[c]] IN p = NoOperation \/ Stored(p) \/ p \in archive

(* What a retry_all knows of the outbox that it listed in two steps: every    *)
(* conflict on file belongs to a blocked recording (or is the one it writes), *)
(* and every pending operation of the others is still ahead of it.            *)
ChainOfCall(c) ==
  task[c] = "retry_all" =>
    /\ pc[c] \in {"scan", "next", "check", "apply", "applied", "conflict", "write", "rewrite"} =>
         \A o \in conflicts : target[o] \in blocked[c]
    /\ pc[c] = "unlink" =>
         \A o \in conflicts : target[o] \in blocked[c] \cup {target[current[c]]}
    /\ pc[c] \in Sending => target[current[c]] \notin blocked[c]
    /\ pc[c] = "next" => \A o \in pending : o \in listed[c] \/ target[o] \in blocked[c]
    /\ pc[c] \in Sending =>
         \A o \in pending : o \in listed[c] \/ target[o] \in blocked[c] \/ o = current[c]
    /\ pc[c] \in {"check", "apply"} => ParentIsDone(c)

LEMMA NextInChain ==
  ASSUME IInv, NEW c \in Client, ChainOfCall(c), RetryNext(c)
  PROVE  ChainOfCall(c)'
<1>1. TypeOK /\ pc[c] = "next" /\ task[c] = "retry_all"
  BY DEF IInv, CallInv, RetryNext
<1>2. CASE Finish(c)
  BY <1>1, <1>2 DEF Finish, ChainOfCall, TypeOK
<1>3. CASE ~Finish(c)
  <2>1. PICK o \in Ready(c) :
          /\ Active(o)
          /\ listed' = [listed EXCEPT ![c] = @ \ {o}]
          /\ current' = [current EXCEPT ![c] = o]
          /\ Goto(c, "check")
          /\ UNCHANGED <<task, blocked>>
    BY <1>3 DEF RetryNext
  <2>2. UNCHANGED <<chain, requests, outbox>>
    BY DEF RetryNext
  <2>3. o \in Operation /\ o \in listed[c] /\ target[o] \notin blocked[c] /\ parent[o] \notin listed[c]
    BY <1>1, <2>1 DEF Ready, TypeOK
  <2>4. ~Fresh(o)
    BY <2>1, <2>3 DEF IInv, RecordInv, Active, Kept
  <2>5. PICK p : p = parent[o]
    OBVIOUS
  <2>6. p = NoOperation \/ Stored(p) \/ p \in archive
    <3>1. CASE p \in Operation
      <4>1. target[p] = target[o] /\ (Stored(p) \/ p \in Kept)
        BY <2>3, <2>4, <2>5, <3>1 DEF IInv, ParentInv
      <4>2. p \notin pending /\ p \notin conflicts
        BY <1>1, <2>3, <2>5, <4>1 DEF ChainOfCall
      <4>3. p \in applied => Stored(p)
        BY <3>1 DEF IInv, RecordInv
      <4> QED BY <4>1, <4>2, <4>3 DEF Kept
    <3> QED BY <1>1, <2>3, <2>5, <3>1 DEF TypeOK
  <2>7. /\ pc'[c] = "check" /\ task'[c] = "retry_all" /\ current'[c] = o
        /\ blocked'[c] = blocked[c] /\ listed'[c] = listed[c] \ {o}
    BY <1>1, <2>1 DEF Goto, TypeOK
  <2>8. ParentIsDone(c)'
    <3>1. parent'[current'[c]] = p
      BY <2>2, <2>5, <2>7 DEF requests
    <3> QED BY <2>2, <2>6, <3>1 DEF ParentIsDone, outbox, Stored, Store!Recorded
  <2>9. \A x \in conflicts : target[x] \in blocked[c]
    BY <1>1 DEF ChainOfCall
  <2>10. \A x \in pending : x \in listed[c] \/ target[x] \in blocked[c]
    BY <1>1 DEF ChainOfCall
  <2> QED
    BY <2>2, <2>3, <2>7, <2>8, <2>9, <2>10 DEF ChainOfCall, outbox, requests, Sending
<1> QED BY <1>2, <1>3

(* A treated operation is out of pending/, or its recording is blocked. *)
LEMMA ContinueInChain ==
  ASSUME IInv, NEW c \in Client, ChainOfCall(c), task[c] = "retry_all", pc[c] \in Sending,
         NEW stop, Continue(c, stop), UNCHANGED requests,
         pending' \subseteq pending, current[c] \notin pending' \/ target[current[c]] \in stop,
         \A o \in conflicts' : o \in conflicts \/ target[o] \in stop,
         pc[c] = "unlink" => target[current[c]] \in stop
  PROVE  ChainOfCall(c)'
<1>1. TypeOK /\ pc[c] # "abandon"
  BY DEF IInv, CallInv, Saving
<1>2. /\ pc'[c] = "next" /\ listed'[c] = listed[c] /\ blocked'[c] = blocked[c] \cup stop
      /\ target' = target
  BY <1>1 DEF Continue, Goto, TypeOK, requests
<1>3. \A o \in conflicts : target[o] \in blocked[c] \cup stop
  BY <1>1 DEF ChainOfCall, Sending
<1>4. \A o \in pending : o \in listed[c] \/ target[o] \in blocked[c] \/ o = current[c]
  BY DEF ChainOfCall
<1> QED BY <1>2, <1>3, <1>4 DEF ChainOfCall, Sending

LEMMA FinishInChain ==
  ASSUME IInv, NEW c \in Client, Finish(c)
  PROVE  ChainOfCall(c)'
BY DEF Finish, ChainOfCall, IInv, TypeOK

LEMMA ChainStep ==
  ASSUME OneClient, IInv, NEW c \in Client, ChainOfCall(c), [Next]_vars
  PROVE  ChainOfCall(c)'
<1>1. TypeOK /\ CallInv(c)
  BY DEF IInv
<1>2. pc[c] = "idle" => task[c] # "retry_all"
  BY <1>1 DEF CallInv
<1>3. CASE UNCHANGED vars
  BY <1>3 DEF vars, call, outbox, requests, ChainOfCall, ParentIsDone, Stored, Store!Recorded
<1>4. ASSUME NEW r \in Recording, NEW o \in Operation, RemoteSave(r, o) PROVE ChainOfCall(c)'
  <2>1. /\ Fresh(o) /\ Store!Commit(r, o) /\ UNCHANGED <<call, outbox>>
        /\ \A x \in Operation : ~Fresh(x) => target'[x] = target[x] /\ parent'[x] = parent[x]
    BY <1>1, <1>4 DEF RemoteSave, TypeOK
  <2>2. \A x \in pending \cup conflicts : target'[x] = target[x]
    BY <1>1, <2>1 DEF IInv, RecordInv, Kept, TypeOK
  <2>3. Works(c) => /\ current[c] \in Operation
                    /\ target'[current[c]] = target[current[c]]
                    /\ parent'[current[c]] = parent[current[c]]
    BY <1>1, <2>1 DEF CallInv
  <2>4. \A x \in Operation : Stored(x) => Stored(x)'
    BY <2>1, Committed
  <2>5. ASSUME pc[c] \in {"check", "apply"}, ParentIsDone(c) PROVE ParentIsDone(c)'
    <3>1. PICK p : p = parent[current[c]]
      OBVIOUS
    <3>2. parent'[current'[c]] = p /\ p \in Operation \cup {NoOperation}
      BY <1>1, <2>1, <2>3, <2>5, <3>1 DEF call, Works, Sending, TypeOK
    <3>3. p = NoOperation \/ Stored(p)' \/ p \in archive'
      BY <2>1, <2>4, <2>5, <3>1, <3>2 DEF ParentIsDone, outbox
    <3> QED BY <3>2, <3>3 DEF ParentIsDone, Stored, Store!Recorded
  <2> QED
    BY <2>1, <2>2, <2>3, <2>5 DEF ChainOfCall, call, outbox, Works, Sending
<1>5. ASSUME NEW d \in Client, Begin(d) \/ Crash(d) PROVE ChainOfCall(c)'
  <2>1. c = d
    BY <1>5 DEF OneClient
  <2>2. CASE BeginRetryAll(c)
    BY <1>1, <2>2 DEF BeginRetryAll, Goto, ChainOfCall, TypeOK, requests, outbox, Sending
  <2>3. CASE ~BeginRetryAll(c)
    <3>1. task'[c] # "retry_all"
      BY <1>1, <1>2, <1>5, <2>1, <2>3
         DEF Begin, BeginSave, Close, BeginRetry, Archive, BeginLoad, BeginCreate, Crash,
             Finish, TypeOK, call
    <3> QED BY <3>1 DEF ChainOfCall
  <2> QED BY <2>2, <2>3
<1>6. ASSUME NEW d \in Client, Proceed(d) PROVE ChainOfCall(c)'
  <2>1. c = d
    BY DEF OneClient
  <2>2. CASE Finish(c)
    BY <2>2, FinishInChain
  <2>3. CASE task[c] # "retry_all"
    <3>1. task'[c] # "retry_all"
      BY <1>1, <1>6, <2>1, <2>3
         DEF Proceed, BeginRequest, Enqueue, Check, Apply, MarkApplied, ReadEnvelope,
             WriteConflict, UnlinkPending, Abandon, ListPending, RetryNext, BeginQuery, Load, Answer,
             Unavailable, StoreRaises, ConflictKnown, Raise, Retried, Finish, CallInv, TypeOK
    <3> QED BY <3>1 DEF ChainOfCall
  <2>4. CASE task[c] = "retry_all" /\ ~Finish(c)
    <3>1. ~Saving(c) /\ Retrying(c)
      BY <2>4 DEF Saving, Retrying
    <3>2. pc[c] \notin {"enqueue", "abandon", "load"}
      BY <1>1, <2>4, <3>1 DEF CallInv
    <3>3. \A stop : Retried(c, stop) => Continue(c, stop)
      BY <2>4 DEF Retried
    <3>4. CASE Check(c)
      <4>1. pc[c] = "check" /\ UNCHANGED <<chain, requests, outbox>>
        BY <3>4 DEF Check, Answer, Unavailable
      <4>2. CASE Answer(c, IF Stored(current[c]) THEN "applied" ELSE "apply")
        <5>1. /\ pc'[c] \in {"applied", "apply"}
              /\ UNCHANGED <<task, current, listed, blocked>>
          BY <1>1, <4>2 DEF Answer, Goto, TypeOK
        <5> QED
          BY <4>1, <5>1 DEF ChainOfCall, ParentIsDone, requests, outbox, Sending, Stored,
                            Store!Recorded
      <4>3. CASE Unavailable(c)
        <5>1. Continue(c, {target[current[c]]})
          BY <3>1, <3>3, <4>3 DEF Unavailable
        <5> QED
          BY <2>4, <4>1, <5>1, ContinueInChain DEF outbox, Sending
      <4> QED BY <3>4, <4>2, <4>3 DEF Check
    <3>5. CASE Apply(c)
      <4>1. pc[c] = "apply" /\ UNCHANGED <<requests, outbox>>
        BY <3>5 DEF Apply, Answer, Unavailable, StoreRaises
      <4>2. CASE Answer(c, "applied") \/ Answer(c, "conflict")
        <5>1. /\ pc'[c] \in {"applied", "conflict"}
              /\ UNCHANGED <<task, current, listed, blocked>>
          BY <1>1, <4>2 DEF Answer, Goto, TypeOK
        <5> QED
          BY <4>1, <5>1 DEF ChainOfCall, requests, outbox, Sending
      <4>3. CASE Unavailable(c)
        <5>1. Continue(c, {target[current[c]]})
          BY <3>1, <3>3, <4>3 DEF Unavailable
        <5> QED
          BY <2>4, <4>1, <5>1, ContinueInChain DEF outbox, Sending
      <4> QED BY <2>4, <3>1, <3>5, <4>2, <4>3 DEF Apply, StoreRaises
    <3>6. CASE MarkApplied(c)
      <4>1. /\ pc[c] = "applied" /\ UNCHANGED requests /\ Continue(c, {})
            /\ pending' \subseteq pending /\ conflicts' \subseteq conflicts
            /\ current[c] \notin pending'
        BY <2>4, <3>1, <3>3, <3>6 DEF MarkApplied, Active, Remove
      <4> QED
        BY <2>4, <4>1, ContinueInChain DEF Sending
    <3>7. CASE WriteConflict(c)
      <4>1. /\ pc[c] \in {"write", "rewrite"} /\ UNCHANGED <<requests, pending>>
            /\ conflicts' = conflicts \cup {current[c]}
            /\ IF pc[c] = "write"
               THEN Goto(c, "unlink") /\ UNCHANGED <<task, current, listed, blocked>>
               ELSE ConflictKnown(c)
        BY <2>4, <3>7 DEF WriteConflict, Raise
      <4>2. CASE pc[c] = "write"
        <5>1. pc'[c] = "unlink" /\ UNCHANGED <<task, current, listed, blocked>>
          BY <1>1, <4>1, <4>2 DEF Goto, TypeOK
        <5> QED
          BY <4>1, <5>1 DEF ChainOfCall, requests, Sending
      <4>3. CASE pc[c] # "write"
        <5>1. Continue(c, {target[current[c]]})
          BY <3>1, <3>3, <4>1, <4>3 DEF ConflictKnown
        <5> QED
          BY <2>4, <4>1, <5>1, ContinueInChain DEF Sending
      <4> QED BY <4>2, <4>3
    <3>12. CASE ReadEnvelope(c)
      <4>1. /\ pc[c] = "conflict" /\ pc'[c] \in {"write", "rewrite"}
            /\ UNCHANGED <<requests, outbox, task, current, listed, blocked>>
        BY <1>1, <2>4, <3>12 DEF ReadEnvelope, Raise, Goto, TypeOK
      <4> QED
        BY <4>1 DEF ChainOfCall, requests, outbox, Sending
    <3>8. CASE UnlinkPending(c)
      <4>1. /\ pc[c] = "unlink" /\ UNCHANGED <<requests, conflicts>>
            /\ pending' = pending \ {current[c]}
            /\ Continue(c, {target[current[c]]})
        BY <2>4, <3>1, <3>3, <3>8 DEF UnlinkPending, Raise, ConflictKnown
      <4> QED
        BY <2>4, <4>1, ContinueInChain DEF Sending
    <3>9. CASE ListPending(c)
      <4>1. /\ pc[c] = "scan" /\ pc'[c] = "next" /\ listed'[c] = pending
            /\ UNCHANGED <<requests, outbox, task, blocked>>
        BY <1>1, <3>9 DEF ListPending, Goto, TypeOK
      <4> QED
        BY <2>4, <4>1 DEF ChainOfCall, requests, outbox, Sending
    <3>10. CASE RetryNext(c)
      BY <3>10, NextInChain
    <3>11. ~(BeginRequest(c) \/ Enqueue(c) \/ Abandon(c) \/ BeginQuery(c) \/ Load(c))
      BY <2>4, <3>2 DEF BeginRequest, Enqueue, Abandon, BeginQuery, Load
    <3> QED
      BY <1>6, <2>1, <3>4, <3>5, <3>6, <3>7, <3>8, <3>9, <3>10, <3>11, <3>12
         DEF Proceed
  <2> QED BY <2>2, <2>3, <2>4
<1> QED BY <1>3, <1>4, <1>5, <1>6 DEF Next

(* With one client, retry_all sends no request whose recording has a conflict *)
(* on file, nor a child of anything but a committed or archived parent: a     *)
(* conflict makes no secondary conflicts.  (RecoveryHandler.retry_all)        *)
THEOREM ConflictStopsChain == ASSUME OneClient PROVE Spec => []ChainStopsAtConflict
<1> DEFINE Knows == \A c \in Client : ChainOfCall(c)
<1>1. Init => Knows
  BY DEF Init, ChainOfCall
<1>2. IInv /\ Knows /\ [Next]_vars => Knows'
  BY ChainStep
<1>3. Knows => ChainStopsAtConflict
  BY DEF ChainOfCall, ChainStopsAtConflict, ParentIsDone, Of, Sending
<1> QED BY <1>1, <1>2, <1>3, RecoveryInvariant, PTL DEF Spec

-----------------------------------------------------------------------------
(* The places of a call whose request has not reached the store. *)
Ahead == {"enqueue", "check", "apply", "abandon"}

(* A recording of which something is left, in the store, in the outbox or in  *)
(* a session, has its audio; a create that may still discard it is alone with *)
(* its recording.                                                             *)
AudioOfCall(c) ==
  /\ sync[c] # "none" => rec[c] \in audio
  /\ Works(c) => target[current[c]] \in audio
  /\ Saving(c) /\ pc[c] \in Ahead => current[c] \notin conflicts
  /\ task[c] = "create" /\ pc[c] \in Ahead =>
       \A o \in Operation : target[o] = rec[c] => o = current[c]

AudioOfFiles == \A o \in Operation : Active(o) => target[o] \in audio

AudioInv ==
  /\ StoredHasAudio /\ AudioOfFiles
  /\ \A c \in Client : AudioOfCall(c) /\ NotYet(c)

LEMMA ChainHasMember ==
  ASSUME IInv, NEW r \in Recording, chain[r] # <<>>
  PROVE  \E o \in Operation : Stored(o) /\ target[o] = r
<1>1. PICK n \in 1..Len(chain[r]) : chain[r][n].id \in Operation /\ target[chain[r][n].id] = r
  BY ChainEntry
<1> QED BY <1>1 DEF Stored, Store!Recorded

(* A create that gives up is not in the store, and nothing else is of its recording. *)
LEMMA CreateIsAlone ==
  ASSUME IInv, NEW c \in Client, NotYet(c), AudioOfCall(c), task[c] = "create", pc[c] \in Ahead
  PROVE  \A r \in Recording : chain[r] # <<>> => r # rec[c]
<1> SUFFICES ASSUME NEW r \in Recording, chain[r] # <<>>, r = rec[c] PROVE FALSE
  OBVIOUS
<1>1. PICK o \in Operation : Stored(o) /\ target[o] = r
  BY ChainHasMember
<1>2. o = current[c]
  BY <1>1 DEF AudioOfCall
<1> QED BY <1>1, <1>2 DEF NotYet, Saving, Ahead

(* Steps that leave the audio files and the requests alone. *)
LEMMA FilesKeepAudio ==
  ASSUME AudioInv, NEW c \in Client, UNCHANGED <<audio, target>>,
         \A o \in Operation : Active(o)' => Active(o) \/ (Works(c) /\ o = current[c])
  PROVE  AudioOfFiles'
BY DEF AudioInv, AudioOfFiles, AudioOfCall

LEMMA ChainKeepsAudio ==
  ASSUME AudioInv, UNCHANGED <<audio, chain>>
  PROVE  StoredHasAudio'
BY DEF AudioInv, StoredHasAudio

LEMMA BeginAudio ==
  ASSUME OneClient, IInv, AudioInv, NEW c \in Client, Begin(c) \/ Crash(c)
  PROVE  StoredHasAudio' /\ AudioOfFiles' /\ AudioOfCall(c)'
<1>1. TypeOK /\ CallInv(c) /\ AudioOfCall(c) /\ NotYet(c)
  BY DEF IInv, AudioInv
<1>2. ASSUME NEW r \in Recording, NEW o \in Operation, BeginCreate(c, r, o)
      PROVE  StoredHasAudio' /\ AudioOfFiles' /\ AudioOfCall(c)'
  <2>1. /\ Fresh(o) /\ UNCHANGED <<chain, outbox, sync>> /\ sync[c] = "none"
        /\ audio' = audio \cup {r}
        /\ target'[o] = r /\ \A x \in Operation : x # o => target'[x] = target[x]
        /\ \A x \in Operation : target[x] # r
        /\ current'[c] = o /\ rec'[c] = r
    BY <1>1, <1>2 DEF BeginCreate, IngestAudio, TypeOK
  <2>2. o \notin pending \cup conflicts
    BY <2>1 DEF IInv, RecordInv, Kept
  <2>3. StoredHasAudio'
    BY <2>1 DEF AudioInv, StoredHasAudio
  <2>4. AudioOfFiles'
    BY <2>1, <2>2 DEF AudioInv, AudioOfFiles, Active, outbox
  <2>5. AudioOfCall(c)'
    BY <2>1, <2>2 DEF AudioOfCall, outbox
  <2> QED BY <2>3, <2>4, <2>5
<1>3. ASSUME NEW o \in Operation, BeginRetry(c, o) \/ Archive(c, o)
      PROVE  StoredHasAudio' /\ AudioOfFiles' /\ AudioOfCall(c)'
  <2>1. UNCHANGED <<chain, requests, audio, session>>
    BY <1>3 DEF BeginRetry, Archive
  <2>2. \A x \in Operation : Active(x)' => Active(x)
    BY <1>3 DEF BeginRetry, Archive, Active, Remove, outbox
  <2>3. StoredHasAudio' /\ AudioOfFiles'
    BY <2>1, <2>2, ChainKeepsAudio, FilesKeepAudio DEF requests
  <2>4. ASSUME BeginRetry(c, o) PROVE AudioOfCall(c)'
    <3>1. /\ task'[c] = "retry" /\ current'[c] = o /\ target'[o] = target[o]
          /\ target[o] \in audio
      BY <1>1, <2>1, <2>4 DEF BeginRetry, TypeOK, requests, AudioInv, AudioOfFiles
    <3> QED BY <1>1, <2>1, <3>1 DEF AudioOfCall, Saving, session
  <2>5. ASSUME Archive(c, o) PROVE AudioOfCall(c)'
    <3>1. UNCHANGED call /\ pc[c] = "idle"
      BY <2>5 DEF Archive
    <3> QED BY <1>1, <2>1, <3>1 DEF AudioOfCall, session, call, Works, Sending, Ahead
  <2> QED BY <1>3, <2>3, <2>4, <2>5
<1>4. CASE BeginSave(c) \/ BeginRetryAll(c) \/ Close(c) \/ Crash(c)
           \/ (\E r \in Recording : BeginLoad(c, r))
  <2>1. UNCHANGED <<chain, requests, outbox, audio>>
    BY <1>4 DEF BeginSave, BeginRetryAll, Close, Crash, BeginLoad
  <2>2. StoredHasAudio' /\ AudioOfFiles'
    BY <2>1, ChainKeepsAudio, FilesKeepAudio DEF requests, outbox, Active
  <2>3. pc'[c] \in {"idle", "scan"} /\ (sync'[c] = "none" \/ (sync'[c] = sync[c] /\ rec'[c] = rec[c]))
    BY <1>1, <1>4 DEF BeginSave, BeginRetryAll, Close, Crash, BeginLoad, Finish, Forget, Goto,
                      TypeOK, session, call
  <2>4. AudioOfCall(c)'
    BY <1>1, <2>1, <2>3 DEF AudioOfCall, Works, Sending, Ahead
  <2> QED BY <2>2, <2>4
<1> QED BY <1>2, <1>3, <1>4 DEF Begin

LEMMA RemoteAudio ==
  ASSUME IInv, AudioInv, NEW r \in Recording, NEW o \in Operation, RemoteSave(r, o)
  PROVE  StoredHasAudio' /\ AudioOfFiles' /\ \A c \in Client : AudioOfCall(c)'
<1>1. /\ TypeOK /\ Fresh(o) /\ chain[r] # <<>> /\ Store!Commit(r, o)
      /\ UNCHANGED <<outbox, audio, call, session>>
      /\ target'[o] = r /\ \A x \in Operation : x # o => target'[x] = target[x]
  BY DEF RemoteSave, IInv, TypeOK
<1>2. StoredHasAudio'
  <2>1. r \in audio
    BY <1>1 DEF AudioInv, StoredHasAudio
  <2>2. \A s \in Recording : s # r => chain'[s] = chain[s]
    BY <1>1 DEF Store!Commit, TypeOK
  <2> QED BY <1>1, <2>1, <2>2 DEF AudioInv, StoredHasAudio
<1>3. o \notin pending \cup conflicts
  BY <1>1 DEF IInv, RecordInv, Kept
<1>4. AudioOfFiles'
  BY <1>1, <1>3 DEF AudioInv, AudioOfFiles, Active, outbox
<1>5. ASSUME NEW c \in Client PROVE AudioOfCall(c)'
  <2>1. AudioOfCall(c) /\ NotYet(c) /\ CallInv(c)
    BY DEF AudioInv, IInv
  <2>2. Works(c) => target'[current[c]] = target[current[c]]
    BY <1>1, <2>1 DEF CallInv
  <2>3. task[c] = "create" /\ pc[c] \in Ahead => r # rec[c]
    BY <1>1, <2>1, CreateIsAlone
  <2> QED
    BY <1>1, <2>1, <2>2, <2>3 DEF AudioOfCall, call, session, outbox, Works, Saving
<1> QED BY <1>2, <1>4, <1>5

(* How a call ends: its session is the one it had, or that of its request. *)
LEMMA EndedAudio ==
  ASSUME IInv, NEW c \in Client, AudioOfCall(c), UNCHANGED audio,
         pc'[c] \in {"idle", "next", "write", "rewrite", "unlink", "load"},
         Works(c)' => UNCHANGED <<target, current>> /\ Works(c),
         \/ sync'[c] = "none"
         \/ rec'[c] = rec[c] /\ (sync[c] # "none" \/ Owns(c) \/ rec[c] \in audio)
  PROVE  AudioOfCall(c)'
<1>1. Owns(c) => rec[c] \in audio
  BY DEF AudioOfCall, IInv, CallInv, Owns
<1> QED BY <1>1 DEF AudioOfCall, Ahead

LEMMA ProceedAudio ==
  ASSUME "storage" \notin MayHappen, OneClient, IInv, AudioInv, NEW c \in Client, Proceed(c)
  PROVE  StoredHasAudio' /\ AudioOfFiles' /\ AudioOfCall(c)'
<1>1. TypeOK /\ CallInv(c) /\ SessionInv(c) /\ AudioOfCall(c) /\ NotYet(c)
  BY DEF IInv, AudioInv
<1>2. CASE Abandon(c)
  <2>1. /\ pc[c] = "abandon" /\ UNCHANGED <<chain, requests>> /\ Raise(c)
        /\ current[c] \notin pending' \cup conflicts'
        /\ \A o \in Operation : Active(o)' => Active(o)
    <3>1. current[c] \notin conflicts
      BY <1>1, <1>2 DEF Abandon, AudioOfCall, CallInv, Ahead
    <3>2. ~MoveMayFail(c)
      BY DEF OneClient, MoveMayFail
    <3> QED BY <1>2, <3>1, <3>2 DEF Abandon, Active, Remove
  <2>2. pc'[c] = "idle" /\ sync' = sync /\ rec' = [rec EXCEPT ![c] = IF sync[c] = "none" THEN NoRecording ELSE @]
    BY <1>1, <2>1 DEF Raise, Finish, Goto, TypeOK
  <2>3. CASE task[c] # "create"
    <3>1. UNCHANGED audio
      BY <1>2, <2>3 DEF Abandon, DiscardAudio
    <3>2. UNCHANGED target
      BY <2>1 DEF requests
    <3> QED
      BY <1>1, <2>1, <2>2, <3>1, <3>2, ChainKeepsAudio, FilesKeepAudio, EndedAudio
         DEF Works, Sending, TypeOK
  <2>4. CASE task[c] = "create"
    <3>1. audio' = audio \ {rec[c]} /\ sync[c] = "none"
      BY <1>1, <1>2, <2>4 DEF Abandon, DiscardAudio, CallInv
    <3>2. \A r \in Recording : chain[r] # <<>> => r # rec[c]
      BY <1>1, <2>1, <2>4, CreateIsAlone DEF Ahead
    <3>3. \A o \in Operation : Active(o)' => target[o] # rec[c]
      BY <1>1, <2>1, <2>4 DEF AudioOfCall, Ahead, Active
    <3>4. StoredHasAudio'
      BY <2>1, <3>1, <3>2 DEF AudioInv, StoredHasAudio
    <3>5. AudioOfFiles'
      BY <2>1, <3>1, <3>3 DEF AudioInv, AudioOfFiles, requests
    <3>6. AudioOfCall(c)'
      BY <2>2, <3>1 DEF AudioOfCall, Works, Sending, Ahead
    <3> QED BY <3>4, <3>5, <3>6
  <2> QED BY <2>3, <2>4
<1>3. CASE BeginRequest(c)
  <2>1. UNCHANGED <<chain, outbox, audio, rec>> /\ task[c] = "save" /\ sync[c] # "none"
    BY <1>1, <1>3 DEF BeginRequest, session, CallInv
  <2>2. StoredHasAudio' /\ rec[c] \in audio
    BY <1>1, <2>1, ChainKeepsAudio DEF AudioOfCall
  <2>3. ASSUME NEW o \in Operation, Fresh(o), target' = [target EXCEPT ![o] = rec[c]],
               current' = [current EXCEPT ![c] = o], UNCHANGED <<task, session>>
        PROVE  AudioOfFiles' /\ AudioOfCall(c)'
    <3>1. /\ target'[o] = rec[c] /\ current'[c] = o
          /\ \A x \in Operation : x # o => target'[x] = target[x]
      BY <1>1, <2>3 DEF TypeOK
    <3>2. o \notin pending \cup conflicts
      BY <2>3 DEF IInv, RecordInv, Kept
    <3>3. AudioOfFiles'
      BY <2>1, <3>1, <3>2 DEF AudioInv, AudioOfFiles, Active, outbox
    <3> QED BY <2>1, <2>2, <2>3, <3>1, <3>2, <3>3 DEF AudioOfCall, outbox, session
  <2>4. ASSUME pc'[c] = "idle", UNCHANGED requests
        PROVE  AudioOfFiles' /\ AudioOfCall(c)'
    BY <1>1, <2>1, <2>4, FilesKeepAudio, EndedAudio DEF requests, Works, Sending, outbox, Active
  <2>5. Finish(c) => pc'[c] = "idle"
    BY <1>1 DEF Finish, Goto, TypeOK
  <2> QED BY <1>3, <2>2, <2>3, <2>4, <2>5 DEF BeginRequest, session
<1>4. CASE Apply(c)
  <2>1. pc[c] = "apply" /\ UNCHANGED <<requests, outbox, audio>>
    BY <1>4 DEF Apply, Answer, Unavailable, StoreRaises
  <2>2. AudioOfFiles'
    BY <2>1, FilesKeepAudio DEF requests, outbox, Active
  <2>3. StoredHasAudio'
    <3>1. CASE UNCHANGED chain
      BY <2>1, <3>1, ChainKeepsAudio
    <3>2. CASE Commits(c)
      <4>1. target[current[c]] \in audio
        BY <1>1, <2>1 DEF AudioOfCall, Works, Sending
      <4>2. \A r \in Recording : r # target[current[c]] => chain'[r] = chain[r]
        BY <1>1, <3>2 DEF Commits, Store!Commit, TypeOK
      <4> QED BY <2>1, <4>1, <4>2 DEF AudioInv, StoredHasAudio
    <3> QED BY <1>4, <3>1, <3>2 DEF Apply, StoreRaises
  <2>4. AudioOfCall(c)'
    <3>1. \/ UNCHANGED <<task, current, session>>
          \/ /\ pc'[c] \in {"idle", "next"}
             /\ \/ UNCHANGED session
                \/ rec' = rec /\ Owns(c)
      BY <1>1, <1>4 DEF Apply, Answer, Unavailable, StoreRaises, Retried, Continue, Finish,
                        Capture, Goto, TypeOK, Owns, Works, Sending
    <3>2. CASE UNCHANGED <<task, current, session>>
      BY <1>1, <2>1, <3>2 DEF AudioOfCall, Works, Sending, Ahead, session, requests, outbox, Saving
    <3>3. CASE pc'[c] \in {"idle", "next"} /\ (UNCHANGED session \/ (rec' = rec /\ Owns(c)))
      <4>1. ~Works(c)'
        BY <3>3 DEF Works, Sending
      <4> QED BY <1>1, <2>1, <3>3, <4>1, EndedAudio DEF session
    <3> QED BY <3>1, <3>2, <3>3
  <2> QED BY <2>2, <2>3, <2>4
<1>5. CASE Enqueue(c) \/ Check(c)
  <2>1. /\ pc[c] \in {"enqueue", "check"} /\ UNCHANGED <<chain, requests, conflicts, audio>>
        /\ pending' \in {pending, pending \cup {current[c]}}
    BY <1>5 DEF Enqueue, Check, Answer, Unavailable, outbox
  <2>2. StoredHasAudio' /\ AudioOfFiles'
    BY <2>1, ChainKeepsAudio, FilesKeepAudio DEF requests, Active, Works, Sending
  <2>3. \/ UNCHANGED <<task, current, session>> /\ pc'[c] \in {"check", "apply", "applied"}
        \/ /\ pc'[c] \in {"idle", "next"}
           /\ \/ UNCHANGED session
              \/ rec' = rec /\ Owns(c)
    BY <1>1, <1>5 DEF Enqueue, Check, Answer, Unavailable, Retried, Continue, Finish, Capture,
                      Goto, TypeOK, Owns, Works, Sending, CallInv
  <2>4. CASE UNCHANGED <<task, current, session>> /\ pc'[c] \in {"check", "apply", "applied"}
    <3>1. AudioOfCall(c)'
      BY <1>1, <2>1, <2>4 DEF AudioOfCall, Works, Sending, Ahead, session, requests, Saving
    <3> QED BY <2>2, <3>1
  <2>5. CASE pc'[c] \in {"idle", "next"} /\ (UNCHANGED session \/ (rec' = rec /\ Owns(c)))
    <3>1. ~Works(c)'
      BY <2>5 DEF Works, Sending
    <3> QED BY <1>1, <2>1, <2>2, <2>5, <3>1, EndedAudio DEF session
  <2> QED BY <2>3, <2>4, <2>5
<1>6. CASE MarkApplied(c) \/ ReadEnvelope(c) \/ WriteConflict(c) \/ UnlinkPending(c)
  <2>1. /\ pc[c] \in {"applied", "conflict", "write", "rewrite", "unlink"}
        /\ UNCHANGED <<chain, requests, audio>>
        /\ \A o \in Operation : Active(o)' => Active(o) \/ o = current[c]
    BY <1>6 DEF MarkApplied, ReadEnvelope, WriteConflict, UnlinkPending, Active, Remove, outbox
  <2>2. StoredHasAudio' /\ AudioOfFiles'
    BY <2>1, ChainKeepsAudio, FilesKeepAudio DEF requests, Works, Sending
  <2>3. /\ \/ pc'[c] \in {"idle", "next"}
           \/ pc'[c] \in {"write", "rewrite", "unlink"} /\ UNCHANGED <<current, session>>
        /\ \/ UNCHANGED session
           \/ rec' = rec /\ Owns(c)
           \/ Raise(c)
    BY <1>1, <1>6 DEF MarkApplied, ReadEnvelope, WriteConflict, UnlinkPending, ConflictKnown,
                      Raise, Retried, Continue, Finish, Capture, Goto, TypeOK, Owns, Works, Sending
  <2>4. Works(c)' => UNCHANGED <<target, current>> /\ Works(c)
    BY <2>1, <2>3 DEF Works, Sending, requests
  <2>5. Raise(c) => sync' = sync /\ (sync[c] # "none" => rec'[c] = rec[c])
    BY <1>1 DEF Raise, TypeOK
  <2>6. \/ sync'[c] = "none"
        \/ rec'[c] = rec[c] /\ (sync[c] # "none" \/ Owns(c) \/ rec[c] \in audio)
    BY <2>3, <2>5 DEF session
  <2>7. pc'[c] \in {"idle", "next", "write", "rewrite", "unlink", "load"}
    BY <2>3
  <2>8. AudioOfCall(c)'
    BY <1>1, <2>1, <2>4, <2>6, <2>7, EndedAudio
  <2> QED BY <2>2, <2>8
<1>7. CASE ListPending(c) \/ RetryNext(c) \/ BeginQuery(c) \/ Load(c)
  <2>1. UNCHANGED <<chain, requests, outbox, audio>>
    BY <1>7 DEF ListPending, RetryNext, BeginQuery, Load
  <2>2. StoredHasAudio' /\ AudioOfFiles'
    BY <2>1, ChainKeepsAudio, FilesKeepAudio DEF requests, outbox, Active
  <2>3. CASE RetryNext(c) /\ ~Finish(c)
    <3>1. PICK o \in Ready(c) :
            Active(o) /\ current' = [current EXCEPT ![c] = o] /\ UNCHANGED <<task, session>>
      BY <2>3 DEF RetryNext
    <3>2. o \in Operation /\ target[o] \in audio /\ task[c] = "retry_all"
      BY <1>1, <2>3, <3>1 DEF Ready, TypeOK, AudioInv, AudioOfFiles, RetryNext, CallInv
    <3>3. current'[c] = o /\ target' = target
      BY <1>1, <2>1, <3>1 DEF TypeOK, requests
    <3>4. AudioOfCall(c)'
      BY <1>1, <2>1, <3>1, <3>2, <3>3 DEF AudioOfCall, session, Saving
    <3> QED BY <2>2, <3>4
  <2>4. CASE ~(RetryNext(c) /\ ~Finish(c))
    <3>1. pc'[c] \in {"idle", "next", "load"}
      BY <1>1, <1>7, <2>4 DEF ListPending, RetryNext, BeginQuery, Load, Raise, Finish, Goto, TypeOK
    <3>2. ~Works(c)'
      BY <3>1 DEF Works, Sending
    <3>3. \/ UNCHANGED session
          \/ sync' = sync /\ (sync[c] # "none" => rec'[c] = rec[c])
          \/ Load(c) /\ chain[rec[c]] # <<>> /\ rec' = rec
      BY <1>1, <1>7, <2>4 DEF ListPending, RetryNext, BeginQuery, Load, Capture, Raise, TypeOK
    <3>4. Load(c) /\ chain[rec[c]] # <<>> => rec[c] \in audio
      BY <1>1 DEF Load, CallInv, AudioInv, StoredHasAudio
    <3>5. \/ sync'[c] = "none"
          \/ rec'[c] = rec[c] /\ (sync[c] # "none" \/ Owns(c) \/ rec[c] \in audio)
      BY <3>3, <3>4 DEF session
    <3>6. AudioOfCall(c)'
      BY <1>1, <2>1, <3>1, <3>2, <3>5, EndedAudio
    <3> QED BY <2>2, <3>6
  <2> QED BY <2>3, <2>4
<1> QED BY <1>2, <1>3, <1>4, <1>5, <1>6, <1>7 DEF Proceed


(* With one client, and files that can be moved, no failure of a create       *)
(* discards the audio of a recording that is in the store, or whose request   *)
(* can still reach it.  (RecordingHandler.create)                             *)
THEOREM AudioIsKept ==
  ASSUME OneClient, "storage" \notin MayHappen PROVE Spec => []StoredHasAudio
<1>1. Init => AudioInv
  BY DEF Init, Store!Init, AudioInv, StoredHasAudio, AudioOfFiles, AudioOfCall, NotYet, Active,
         Saving, Works, Sending, Ahead
<1>2. ASSUME IInv, AudioInv, [Next]_vars
      PROVE  AudioInv'
  <2>1. \A c \in Client : NotYet(c)'
    BY <1>2, NotYetStep DEF AudioInv
  <2>2. StoredHasAudio' /\ AudioOfFiles' /\ \A c \in Client : AudioOfCall(c)'
    <3>1. CASE UNCHANGED vars
      BY <1>2, <3>1 DEF vars, call, session, outbox, requests, AudioInv, StoredHasAudio,
                        AudioOfFiles, AudioOfCall, Active, Saving, Works
    <3>2. ASSUME NEW r \in Recording, NEW o \in Operation, RemoteSave(r, o)
          PROVE  StoredHasAudio' /\ AudioOfFiles' /\ \A c \in Client : AudioOfCall(c)'
      BY <1>2, <3>2, RemoteAudio
    <3>3. ASSUME NEW c \in Client, Begin(c) \/ Proceed(c) \/ Crash(c)
          PROVE  StoredHasAudio' /\ AudioOfFiles' /\ \A d \in Client : AudioOfCall(d)'
      <4>1. StoredHasAudio' /\ AudioOfFiles' /\ AudioOfCall(c)'
        BY <1>2, <3>3, BeginAudio, ProceedAudio
      <4>2. \A d \in Client : d = c
        BY DEF OneClient
      <4> QED BY <4>1, <4>2 DEF AudioOfCall, Works, Saving
    <3> QED BY <1>2, <3>1, <3>2, <3>3 DEF Next
  <2> QED BY <2>1, <2>2 DEF AudioInv
<1>3. AudioInv => StoredHasAudio
  BY DEF AudioInv
<1>4. IInv /\ AudioInv /\ [Next]_vars => AudioInv'
  BY <1>2
<1> QED BY <1>1, <1>3, <1>4, RecoveryInvariant, PTL DEF Spec

-----------------------------------------------------------------------------
(* The contract between sessions, outbox and store.                          *)

(* Something is built on the revision of o. *)
Needed(o) == (\E c \in Client : base[c] = o) \/ (\E q \in Operation : parent[q] = o)

(* What a running call of c owes the contract: its request builds on the base *)
(* of the session and nothing is built on the request before it is answered,  *)
(* and a load has seen that the base of the session does not wait any more.   *)
CallLine(c) ==
  /\ Owns(c) => /\ parent[current[c]] = base[c]
                /\ sync[c] # "conflict"
                /\ pc[c] # "enqueue" => sync[c] # "pending"
                /\ Stored(current[c]) \/ ~Needed(current[c])
  /\ pc[c] = "enqueue" => ~Stored(current[c])
  /\ pc[c] \in {"conflict", "write", "rewrite", "unlink"} => parent[current[c]] # NoOperation
  /\ pc[c] = "unlink" /\ current[c] \in pending => current[c] \in conflicts
  /\ task[c] = "load" /\ sync[c] # "none" =>
       /\ pc[c] = "scan" => base[c] \notin pending
       /\ pc[c] = "load" => Stored(base[c]) \/ base[c] \in abandoned

SessionLine(c) ==
  /\ sync[c] = "none" => base[c] = NoOperation
  /\ sync[c] # "none" => /\ base[c] \in Operation /\ target[base[c]] = rec[c]
                         /\ Stored(base[c]) \/ base[c] \in Kept

LineInv ==
  /\ \A c \in Client : CallLine(c) /\ SessionLine(c)
  /\ abandoned \subseteq archive

LEMMA InitLine == Init => LineInv
BY DEF Init, LineInv, CallLine, SessionLine, Owns, Works, Saving, Sending

(* The parts of the contract, one by one. *)

LEMMA StoreStays ==
  ASSUME UNCHANGED chain
  PROVE  /\ Contract!StoreStep
         /\ \A o \in Operation : Stored(o)' = Stored(o)
         /\ \A r \in Recording : head(r)' = head(r)
<1>1. \A o \in Operation : Stored(o)' = Stored(o)
  BY DEF Stored, Store!Recorded
<1>2. \A r \in Recording : head(r)' = head(r)
  BY DEF head, Store!Tip
<1> QED BY <1>1, <1>2 DEF Contract!StoreStep

LEMMA NewHead ==
  ASSUME IInv, NEW r \in Recording, NEW o \in Operation, Store!Commit(r, o)
  PROVE  /\ head(r)' = o
         /\ \A s \in Recording : s # r => head(s)' = head(s)
         /\ Stored(o)' /\ ~Stored(o)
         /\ \A x \in Operation : Stored(x)' => Stored(x) \/ x = o
         /\ \A x \in Operation : Stored(x) => Stored(x)'
<1>1. chain \in [Recording -> Seq(Store!Link)] /\ chain[r] \in Seq(Store!Link)
  BY ChainEntry DEF IInv, TypeOK
<1>2. PICK h \in Operation \cup {NoOperation} : h = head(r)
  BY ChainEntry DEF head, Store!Tip
<1>3. PICK link \in Store!Link : link = [id |-> o, parent |-> h]
  BY DEF Store!Link
<1>4. chain' = [chain EXCEPT ![r] = Append(chain[r], link)]
  BY <1>2, <1>3 DEF Store!Commit, head
<1>5. chain'[r] = Append(chain[r], link) /\ \A s \in Recording : s # r => chain'[s] = chain[s]
  BY <1>1, <1>4
<1>6. /\ Len(chain'[r]) = Len(chain[r]) + 1 /\ Len(chain[r]) \in Nat
      /\ \A n \in 1..Len(chain[r]) : chain'[r][n] = chain[r][n]
      /\ chain'[r][Len(chain[r]) + 1] = link
      /\ chain'[r] # <<>>
  BY <1>1, <1>5, AppendProperties, LenProperties
<1>7. head(r)' = o
  BY <1>3, <1>6 DEF head, Store!Tip
<1>8. \A s \in Recording : s # r => head(s)' = head(s)
  BY <1>5 DEF head, Store!Tip
<1>9. ASSUME NEW x \in Operation, Stored(x)', x # o
      PROVE  Stored(x)
  <2>1. PICK s \in Recording : \E n \in 1..Len(chain'[s]) : chain'[s][n].id = x
    BY <1>9 DEF Stored, Store!Recorded
  <2>2. PICK n \in 1..Len(chain'[s]) : chain'[s][n].id = x
    BY <2>1
  <2>3. n \in 1..Len(chain[s]) /\ chain[s][n].id = x
    BY <1>3, <1>5, <1>6, <1>9, <2>2
  <2> QED BY <2>3 DEF Stored, Store!Recorded
<1>10. ~Stored(o)
  BY DEF Stored, Store!Commit
<1> QED BY <1>7, <1>8, <1>9, <1>10, Committed

LEMMA StoreCommits ==
  ASSUME IInv, NEW r \in Recording, NEW o \in Operation, Store!Commit(r, o),
         target'[o] = r, parent'[o] = head(r)
  PROVE  Contract!StoreStep
<1> DEFINE stored == {x \in Operation : Stored(x)}
           newest == [s \in Recording |-> head(s)]
<1>1. /\ head(r)' = o
      /\ \A s \in Recording : s # r => head(s)' = head(s)
      /\ Stored(o)' /\ ~Stored(o)
      /\ \A x \in Operation : Stored(x)' => Stored(x) \/ x = o
      /\ \A x \in Operation : Stored(x) => Stored(x)'
  BY NewHead
<1>2. o \in Operation \ stored
  BY <1>1
<1>3. stored' = stored \cup {o}
  BY <1>1
<1>4. newest' = [newest EXCEPT ![r] = o]
  BY <1>1
<1>5. parent'[o] = newest[target'[o]] /\ target'[o] \in Recording
  OBVIOUS
<1>6. newest' = [newest EXCEPT ![target'[o]] = o]
  BY <1>4
<1> QED BY <1>2, <1>3, <1>5, <1>6 DEF Contract!StoreStep

LEMMA RequestsStay == ASSUME UNCHANGED requests PROVE Contract!RequestStep
BY DEF requests, Contract!RequestStep

LEMMA RequestMade ==
  ASSUME NEW o \in Operation, Fresh(o), target'[o] \in Recording,
         \A p \in Operation : p # o => target'[p] = target[p] /\ parent'[p] = parent[p],
         \/ parent'[o] = NoOperation
         \/ parent'[o] = head(target'[o])
         \/ \E c \in Client : sync[c] # "none" /\ rec[c] = target'[o] /\ parent'[o] = base[c]
  PROVE  Contract!RequestStep
<1> DEFINE newest == [r \in Recording |-> head(r)]
           on     == [c \in Client |-> IF sync[c] = "none" THEN NoRecording ELSE rec[c]]
<1>1. ~Contract!Requested(o)
  BY DEF Fresh, Contract!Requested
<1>2. \/ parent'[o] = NoOperation
      \/ parent'[o] = newest[target'[o]]
      \/ \E c \in Client : on[c] = target'[o] /\ parent'[o] = base[c]
  OBVIOUS
<1> QED BY <1>1, <1>2 DEF Contract!RequestStep

(* Nothing is queued that was on file before, only a request is put into      *)
(* conflicts/, and nothing leaves that is needed and neither committed nor    *)
(* withdrawn.                                                                 *)
LEMMA FilesMove ==
  ASSUME \A o \in Operation : o \in pending' \ pending =>
           ~Fresh(o)' /\ ~Stored(o) /\ o \notin abandoned,
         \A o \in Operation : o \in conflicts' \ conflicts => ~Fresh(o)',
         \A o \in Operation : Active(o) /\ ~Active(o)' =>
           Stored(o)' \/ o \in abandoned' \/ ~Needed(o)',
         pending \cup conflicts \subseteq Operation,
         pending' \cup conflicts' \subseteq Operation
  PROVE  Contract!FileStep
<1>1. \A o : Contract!Needed(o)' = Needed(o)'
  BY DEF Needed, Contract!Needed
<1>2. \A o : Contract!Requested(o)' = ~Fresh(o)'
  BY DEF Contract!Requested, Fresh
<1>3. \A o : Active(o) = (o \in pending \cup conflicts)
  BY DEF Active
<1>4. \A o : Active(o)' = (o \in pending' \cup conflicts')
  BY DEF Active
<1>5. ASSUME NEW o \in pending' \ pending
      PROVE  Contract!Requested(o)' /\ o \notin {x \in Operation : Stored(x)} \cup abandoned
  BY <1>2
<1>6. \A o \in conflicts' \ conflicts : Contract!Requested(o)'
  BY <1>2
<1>7. ASSUME NEW o \in (pending \cup conflicts) \ (pending' \cup conflicts')
      PROVE  o \in {x \in Operation : Stored(x)}' \cup abandoned' \/ ~Contract!Needed(o)'
  BY <1>1, <1>3, <1>4
<1> QED BY <1>5, <1>6, <1>7 DEF Contract!FileStep, Contract!waiting

LEMMA NothingWithdrawn == ASSUME UNCHANGED abandoned PROVE Contract!WithdrawStep
BY DEF Contract!WithdrawStep

(* What a step of c may do to its session. *)
Remains(c) == /\ base'[c] = base[c] /\ sync'[c] = sync[c]
              /\ sync[c] # "none" => rec'[c] = rec[c]

GoesOn(c, o) ==
  /\ o \in Operation /\ sync[c] # "conflict"
  /\ parent'[o] = base[c] /\ target'[o] \in Recording
  /\ rec'[c] = target'[o] /\ (sync[c] # "none" => rec[c] = target'[o])
  /\ base'[c] = o
  /\ \/ sync[c] # "pending" /\ sync'[c] = "synced" /\ Stored(o)'
     \/ sync'[c] = "pending" /\ (Stored(o)' \/ Active(o)' \/ o \in abandoned')

Stopped(c) ==
  /\ sync[c] # "none" /\ sync'[c] = "conflict" /\ rec'[c] = rec[c] /\ base'[c] = base[c]
  /\ \E o \in conflicts' : o \in Operation /\ target'[o] = rec[c]

Loaded(c) ==
  /\ rec'[c] \in Recording /\ (sync[c] # "none" => rec[c] = rec'[c])
  /\ \/ base[c] \in abandoned \cup {NoOperation}
     \/ \E b \in Operation : b = base[c] /\ Stored(b)
  /\ base'[c] = head(rec'[c]) /\ base'[c] \in Operation /\ Stored(head(rec'[c]))
  /\ sync'[c] = "synced" /\ UNCHANGED chain

Left(c) == base'[c] = NoOperation /\ sync'[c] = "none"

Moves(c) ==
  \/ Remains(c) \/ (\E o \in Operation : GoesOn(c, o)) \/ Stopped(c) \/ Loaded(c) \/ Left(c)

LEMMA SessionsMove ==
  ASSUME NEW c \in Client, \A d \in Client \ {c} : SameSession(d), Moves(c)
  PROVE  Contract!SessionStep
<1> DEFINE on == [d \in Client |-> IF sync[d] = "none" THEN NoRecording ELSE rec[d]]
<1>1. \A d \in Client : on[d] = IF sync[d] = "none" THEN NoRecording ELSE rec[d]
  OBVIOUS
<1>2. \A d \in Client : on'[d] = IF sync'[d] = "none" THEN NoRecording ELSE rec'[d]
  OBVIOUS
<1>3. ASSUME NEW d \in Client \ {c}
      PROVE  Contract!Stays(d)
  <2>1. on'[d] = on[d] /\ base'[d] = base[d] /\ sync'[d] = sync[d]
    BY <1>1, <1>2 DEF SameSession
  <2> QED BY <2>1 DEF Contract!Stays
<1>4. CASE Remains(c)
  <2>1. on'[c] = on[c] /\ base'[c] = base[c] /\ sync'[c] = sync[c]
    BY <1>1, <1>2, <1>4 DEF Remains
  <2>2. Contract!Stays(c)
    BY <2>1 DEF Contract!Stays
  <2> QED BY <1>3, <2>2 DEF Contract!SessionStep
<1>5. ASSUME NEW o \in Operation, GoesOn(c, o)
      PROVE  Contract!Advances(c)
  <2>1. on[c] \in {target'[o], NoRecording} /\ on'[c] = target'[o]
    BY <1>1, <1>2, <1>5 DEF GoesOn
  <2>2. \/ sync[c] # "pending" /\ sync'[c] = "synced" /\ o \in {x \in Operation : Stored(x)}'
        \/ sync'[c] = "pending" /\ o \in {x \in Operation : Stored(x)}' \cup
                                         (pending' \cup conflicts') \cup abandoned'
    BY <1>5 DEF GoesOn, Active
  <2> QED BY <1>5, <2>1, <2>2 DEF GoesOn, Contract!Advances, Contract!Safe, Contract!waiting
<1>6. CASE Stopped(c)
  <2>1. on'[c] = on[c] /\ on[c] = rec[c]
    BY <1>1, <1>2, <1>6 DEF Stopped
  <2>2. Contract!Stops(c)
    BY <1>6, <2>1 DEF Stopped, Contract!Stops
  <2> QED BY <1>3, <2>2 DEF Contract!SessionStep
<1>7. CASE Loaded(c)
  <2>1. on'[c] = rec'[c] /\ on[c] \in {rec'[c], NoRecording}
    BY <1>1, <1>2, <1>7 DEF Loaded
  <2>2. base'[c] = [r \in Recording |-> head(r)][on'[c]]
    BY <1>7, <2>1 DEF Loaded
  <2>3. base'[c] \in {x \in Operation : Stored(x)}
    <3>1. PICK h \in Operation : h = base'[c]
      BY <1>7 DEF Loaded
    <3>2. Stored(h)
      BY <1>7, <3>1 DEF Loaded
    <3> QED BY <3>1, <3>2
  <2>4. base[c] \in {x \in Operation : Stored(x)} \cup abandoned \cup {NoOperation}
    BY <1>7 DEF Loaded
  <2>5. Contract!Loads(c)
    BY <1>7, <2>1, <2>2, <2>3, <2>4 DEF Loaded, Contract!Loads
  <2> QED BY <1>3, <2>5 DEF Contract!SessionStep
<1>8. CASE Left(c)
  <2>1. on'[c] = NoRecording
    BY <1>2, <1>8 DEF Left
  <2>2. Contract!Leaves(c)
    BY <1>8, <2>1 DEF Left, Contract!Leaves
  <2> QED BY <1>3, <2>2 DEF Contract!SessionStep
<1> QED BY <1>3, <1>4, <1>5, <1>6, <1>7, <1>8 DEF Moves, Contract!SessionStep


-----------------------------------------------------------------------------
(* What a step does to the files, and where the base of a session goes.      *)
FilesStep ==
  \A o \in Operation :
    /\ o \in pending' => o \in pending \/ (o \notin Kept /\ ~Stored(o))
    /\ o \in conflicts /\ o \in pending' => o \in conflicts'

(* A client that a step leaves alone. *)
LEMMA LineUndisturbed ==
  ASSUME IInv, IInv', LineInv, NEW d \in Client, SameClient(d), Grows, FilesStep,
         pc[d] = "enqueue" => ~Stored(current[d])',
         Owns(d) /\ Needed(current[d])' => Needed(current[d]) \/ Stored(current[d])
  PROVE  CallLine(d)' /\ SessionLine(d)'
<1>1. CallLine(d) /\ SessionLine(d) /\ CallInv(d)
  BY DEF LineInv, IInv
<1>2. /\ pc'[d] = pc[d] /\ task'[d] = task[d] /\ current'[d] = current[d]
      /\ rec'[d] = rec[d] /\ base'[d] = base[d] /\ sync'[d] = sync[d]
  BY DEF SameClient, SameCall, SameSession
<1>3. Owns(d)' = Owns(d)
  BY <1>2 DEF Owns, Works, Saving
<1>4. PICK x : x = current[d]
  OBVIOUS
<1>5. PICK b : b = base[d]
  OBVIOUS
<1>6. current'[d] = x /\ base'[d] = b
  BY <1>2, <1>4, <1>5
<1>7. Works(d) => x \in Operation /\ ~Fresh(x) /\ parent'[x] = parent[x]
  BY <1>1, <1>4 DEF CallInv, Grows
<1>8. sync[d] # "none" => b \in Operation /\ target[b] = rec[d] /\ (Stored(b) \/ b \in Kept)
  BY <1>1, <1>5 DEF SessionLine
<1>9. sync[d] # "none" => ~Fresh(b)
  BY <1>8, NoRecordingAssumption DEF IInv, SessionInv, Fresh
<1>10. SessionLine(d)'
  <2>1. sync[d] # "none" => target'[b] = rec[d] /\ (Stored(b)' \/ b \in Kept')
    BY <1>8, <1>9 DEF Grows
  <2> QED BY <1>1, <1>2, <1>5, <1>6, <1>8, <2>1 DEF SessionLine
<1>11. Owns(d) => /\ parent'[x] = b
                  /\ sync'[d] # "conflict"
                  /\ pc'[d] # "enqueue" => sync'[d] # "pending"
                  /\ Stored(x)' \/ ~Needed(x)'
  <2>1. Owns(d) => Works(d)
    BY DEF Owns
  <2>2. Owns(d) => Stored(x) \/ ~Needed(x)
    BY <1>1, <1>4 DEF CallLine
  <2>3. Owns(d) /\ Needed(x)' => Needed(x) \/ Stored(x)
    BY <1>4, <1>6 DEF Needed
  <2>4. Owns(d) /\ Stored(x) => Stored(x)'
    BY <1>7, <2>1 DEF Grows
  <2> QED BY <1>1, <1>2, <1>4, <1>5, <1>7, <2>1, <2>2, <2>3, <2>4 DEF CallLine
<1>12. pc'[d] = "enqueue" => ~Stored(x)'
  BY <1>2, <1>6 DEF Stored, Store!Recorded
<1>13. pc'[d] \in {"conflict", "write", "rewrite", "unlink"} => parent'[x] # NoOperation
  BY <1>1, <1>2, <1>4, <1>7 DEF CallLine, Works, Sending
<1>14. pc'[d] = "unlink" /\ x \in pending' => x \in conflicts'
  <2>1. pc[d] = "unlink" => x \in Operation /\ x \in Kept /\ (x \in pending => x \in conflicts)
    BY <1>1, <1>4, <1>7 DEF CallLine, CallInv, Works, Sending
  <2> QED BY <1>2, <2>1 DEF FilesStep
<1>15. task'[d] = "load" /\ sync'[d] # "none" =>
         /\ pc'[d] = "scan" => b \notin pending'
         /\ pc'[d] = "load" => Stored(base[d])' \/ b \in abandoned'
  <2>1. task[d] = "load" /\ sync[d] # "none" =>
          /\ pc[d] = "scan" => b \notin pending
          /\ pc[d] = "load" => Stored(b) \/ b \in abandoned
    BY <1>1, <1>5 DEF CallLine
  <2>2. Stored(b)' => Stored(base[d])'
    BY <1>6 DEF Stored, Store!Recorded
  <2> QED BY <1>2, <1>8, <2>1, <2>2 DEF FilesStep, Grows
<1>16. CallLine(d)'
  <2>1. Stored(x)' => Stored(current[d])'
    BY <1>6 DEF Stored, Store!Recorded
  <2>2. Stored(current[d])' => Stored(x)'
    BY <1>6 DEF Stored, Store!Recorded
  <2>3. Needed(current[d])' => Needed(x)'
    BY <1>6 DEF Needed
  <2> QED
    BY <1>3, <1>6, <1>11, <1>12, <1>13, <1>14, <1>15, <2>1, <2>2, <2>3 DEF CallLine
<1> QED BY <1>10, <1>16


Rebased(c) ==
  \/ base'[c] \in {base[c], NoOperation}
  \/ \E o \in Operation : base'[c] = o /\ Stored(o)
  \/ Owns(c) /\ base'[c] = current[c]

LEMMA LineKept ==
  ASSUME IInv, IInv', LineInv, NEW c \in Client, Grows, FilesStep,
         \A d \in Client \ {c} : SameClient(d),
         \A o \in Operation : Stored(o)' => Stored(o) \/ (pc[c] = "apply" /\ o = current[c]),
         Rebased(c), \A q \in Operation : parent'[q] \in {parent[q], base[c]},
         abandoned' \subseteq archive',
         CallLine(c)', SessionLine(c)'
  PROVE  LineInv'
<1>1. ASSUME NEW d \in Client \ {c}
      PROVE  CallLine(d)' /\ SessionLine(d)'
  <2>1. SameClient(d) /\ current'[d] = current[d]
    BY DEF SameClient, SameCall
  <2>2. CallInv(c) /\ CallInv(d) /\ CallLine(d)
    BY DEF IInv, LineInv
  <2>3. PICK x : x = current[d]
    OBVIOUS
  <2>4. Works(d) => x \in Operation
    BY <2>2, <2>3 DEF CallInv
  <2>5. pc[d] = "enqueue" => ~Stored(x)'
    <3>1. pc[d] = "enqueue" => x \notin Kept /\ ~Stored(x) /\ x \in Operation
      BY <2>2, <2>3, <2>4 DEF CallInv, CallLine, Works
    <3>2. pc[c] = "apply" => current[c] \in Kept
      BY <2>2 DEF CallInv, Sending
    <3> QED BY <3>1, <3>2
  <2>6. pc[d] = "enqueue" => ~Stored(current[d])'
    BY <2>1, <2>3, <2>5 DEF Stored, Store!Recorded
  <2>7. ASSUME Owns(d), Needed(x)'
        PROVE  Needed(x) \/ Stored(x)
    <3>1. x \in Operation
      BY <2>4, <2>7 DEF Owns
    <3>2. CASE \E q \in Operation : parent'[q] = x
      BY <3>2 DEF Needed
    <3>3. ASSUME NEW e \in Client, base'[e] = x, e # c
          PROVE  Needed(x)
      BY <3>3 DEF SameClient, SameSession, Needed
    <3>4. CASE base'[c] = x
      <4>1. CASE base'[c] \in {base[c], NoOperation}
        BY <3>1, <3>4, <4>1, NoOperationAssumption DEF Needed
      <4>2. CASE \E o \in Operation : base'[c] = o /\ Stored(o)
        BY <3>4, <4>2
      <4>3. CASE Owns(c) /\ base'[c] = current[c]
        BY <2>3, <2>7, <3>4, <4>3 DEF IInv, OneOwner
      <4> QED BY <4>1, <4>2, <4>3 DEF Rebased
    <3> QED BY <2>7, <3>2, <3>3, <3>4 DEF Needed
  <2>8. Owns(d) /\ Needed(current[d])' => Needed(current[d]) \/ Stored(current[d])
    <3>1. Needed(current[d])' => Needed(x)'
      BY <2>1, <2>3 DEF Needed
    <3> QED BY <2>3, <2>7, <3>1
  <2> QED BY <2>1, <2>6, <2>8, LineUndisturbed
<1> QED BY <1>1 DEF LineInv

(* The session line of c, for what a step may do to the session. *)
LEMMA SessionRemains ==
  ASSUME LineInv, IInv, Grows, NEW c \in Client, Remains(c)
  PROVE  SessionLine(c)' /\ Rebased(c) /\ Moves(c)
<1>1. SessionLine(c) /\ SessionInv(c)
  BY DEF LineInv, IInv
<1>2. PICK b : b = base[c]
  OBVIOUS
<1>3. base'[c] = b /\ sync'[c] = sync[c] /\ (sync[c] # "none" => rec'[c] = rec[c])
  BY <1>2 DEF Remains
<1>4. sync[c] # "none" => b \in Operation /\ target[b] = rec[c] /\ ~Fresh(b)
                          /\ (Stored(b) \/ b \in Kept)
  BY <1>1, <1>2, NoRecordingAssumption DEF SessionLine, SessionInv, Fresh
<1>5. sync[c] # "none" => target'[b] = rec[c] /\ (Stored(b)' \/ b \in Kept')
  BY <1>4 DEF Grows
<1>6. Stored(b)' => Stored(base[c])'
  BY <1>3 DEF Stored, Store!Recorded
<1>7. SessionLine(c)'
  BY <1>1, <1>2, <1>3, <1>4, <1>5, <1>6 DEF SessionLine
<1> QED BY <1>3, <1>2, <1>7 DEF Rebased, Moves

LEMMA SessionStops ==
  ASSUME LineInv, IInv, Grows, NEW c \in Client, Stopped(c)
  PROVE  SessionLine(c)' /\ Rebased(c) /\ Moves(c)
<1>1. SessionLine(c) /\ SessionInv(c)
  BY DEF LineInv, IInv
<1>2. PICK b : b = base[c]
  OBVIOUS
<1>3. base'[c] = b /\ sync'[c] = "conflict" /\ sync[c] # "none" /\ rec'[c] = rec[c]
  BY <1>2 DEF Stopped
<1>4. b \in Operation /\ target[b] = rec[c] /\ ~Fresh(b) /\ (Stored(b) \/ b \in Kept)
  BY <1>1, <1>2, <1>3, NoRecordingAssumption DEF SessionLine, SessionInv, Fresh
<1>5. target'[b] = rec[c] /\ (Stored(b)' \/ b \in Kept')
  BY <1>4 DEF Grows
<1>6. Stored(b)' => Stored(base[c])'
  BY <1>3 DEF Stored, Store!Recorded
<1> QED BY <1>2, <1>3, <1>4, <1>5, <1>6 DEF SessionLine, Rebased, Moves

LEMMA SessionGoesOn ==
  ASSUME NEW c \in Client, NEW o \in Operation, o = current[c], Owns(c), GoesOn(c, o),
         abandoned' \subseteq archive'
  PROVE  SessionLine(c)' /\ Rebased(c) /\ Moves(c)
<1>1. base'[c] = o /\ target'[o] = rec'[c] /\ sync'[c] # "none"
      /\ (Stored(o)' \/ o \in Kept')
  BY DEF GoesOn, Active, Kept
<1>2. Stored(o)' => Stored(base[c])'
  BY <1>1 DEF Stored, Store!Recorded
<1> QED BY <1>1, <1>2 DEF SessionLine, Rebased, Moves

LEMMA SessionLeaves ==
  ASSUME NEW c \in Client, Left(c)
  PROVE  SessionLine(c)' /\ Rebased(c) /\ Moves(c)
BY DEF Left, SessionLine, Rebased, Moves

LEMMA SessionLoads ==
  ASSUME IInv, NEW c \in Client, Loaded(c), target' = target, chain[rec'[c]] # <<>>
  PROVE  SessionLine(c)' /\ Rebased(c) /\ Moves(c)
<1>1. PICK h \in Operation : h = base'[c]
  BY DEF Loaded
<1>2. h = head(rec'[c]) /\ rec'[c] \in Recording /\ sync'[c] = "synced"
  BY <1>1 DEF Loaded
<1>3. target[h] = rec'[c] /\ Stored(h)
  BY <1>2, HeadIsLocated
<1>4. Stored(base[c])'
  BY <1>1, <1>3 DEF Loaded, Stored, Store!Recorded
<1> QED BY <1>1, <1>2, <1>3, <1>4 DEF SessionLine, Rebased, Moves

(* A call that is over owes nothing. *)
LEMMA CallEnds ==
  ASSUME NEW c \in Client, pc'[c] \in {"idle", "next"}
  PROVE  CallLine(c)'
BY DEF CallLine, Owns, Works, Sending


(* A client's step leaves the others' calls and sessions alone. *)
LEMMA FinishOthers ==
  ASSUME IInv, NEW c \in Client, NEW d \in Client \ {c}, NEW stop,
         Finish(c) \/ Continue(c, stop) \/ Retried(c, stop)
  PROVE  SameCall(d)
BY DEF IInv, TypeOK, Finish, Continue, Retried, Goto, SameCall

LEMMA GotoOthers ==
  ASSUME IInv, NEW c \in Client, NEW d \in Client \ {c}, NEW label, Goto(c, label)
  PROVE  pc'[d] = pc[d]
BY DEF IInv, TypeOK, Goto

LEMMA RaiseOthers ==
  ASSUME IInv, NEW c \in Client, NEW d \in Client \ {c}, Raise(c)
  PROVE  SameClient(d)
BY FinishOthers DEF IInv, TypeOK, Raise, SameClient, SameSession

LEMMA SessionOthers ==
  ASSUME IInv, NEW c \in Client, NEW d \in Client \ {c}, NEW o, NEW state,
         Capture(c, o, state) \/ Forget(c) \/ UNCHANGED session
  PROVE  SameSession(d)
BY DEF IInv, TypeOK, Capture, Forget, session, SameSession

LEMMA AnswerOthers ==
  ASSUME IInv, NEW c \in Client, NEW d \in Client \ {c},
         (\E label : Answer(c, label)) \/ Unavailable(c) \/ StoreRaises(c) \/ ConflictKnown(c)
  PROVE  SameClient(d)
<1>1. ASSUME NEW label, Answer(c, label)
      PROVE  SameClient(d)
  BY <1>1, GotoOthers, SessionOthers DEF Answer, SameClient, SameCall
<1>2. CASE Unavailable(c)
  BY <1>2, FinishOthers, SessionOthers DEF Unavailable, SameClient
<1>3. CASE StoreRaises(c)
  <2>1. UNCHANGED session
    BY <1>3 DEF StoreRaises
  <2>2. SameCall(d)
    BY <1>3, FinishOthers, GotoOthers DEF StoreRaises, SameCall
  <2> QED BY <2>1, <2>2, SessionOthers DEF SameClient
<1>4. CASE ConflictKnown(c)
  BY <1>4, FinishOthers, SessionOthers DEF ConflictKnown, SameClient
<1> QED BY <1>1, <1>2, <1>3, <1>4

LEMMA OthersSame ==
  ASSUME IInv, NEW c \in Client, Begin(c) \/ Proceed(c) \/ Crash(c), NEW d \in Client \ {c}
  PROVE  SameClient(d)
<1> USE DEF IInv, TypeOK
<1>1. CASE BeginSave(c) \/ BeginRetryAll(c) \/ ListPending(c)
  BY <1>1, GotoOthers, SessionOthers
     DEF BeginSave, BeginRetryAll, ListPending, SameClient, SameCall
<1>2. CASE Close(c) \/ Crash(c)
  BY <1>2, FinishOthers, SessionOthers DEF Close, Crash, SameClient, SameCall, call
<1>3. ASSUME NEW o \in Operation, BeginRetry(c, o) \/ Archive(c, o)
      PROVE  SameClient(d)
  BY <1>3, GotoOthers, SessionOthers DEF BeginRetry, Archive, SameClient, SameCall, call
<1>4. ASSUME NEW r \in Recording, BeginLoad(c, r)
      PROVE  SameClient(d)
  BY <1>4, GotoOthers DEF BeginLoad, SameClient, SameCall, SameSession
<1>5. ASSUME NEW r \in Recording, NEW o \in Operation, BeginCreate(c, r, o)
      PROVE  SameClient(d)
  BY <1>5, GotoOthers DEF BeginCreate, SameClient, SameCall, SameSession
<1>6. CASE BeginRequest(c)
  <2>1. CASE Finish(c)
    BY <1>6, <2>1, FinishOthers DEF BeginRequest, SameClient, SameCall, SameSession, session
  <2>2. CASE ~Finish(c)
    BY <1>6, <2>2, GotoOthers, SessionOthers DEF BeginRequest, SameClient, SameCall
  <2> QED BY <2>1, <2>2
<1>7. CASE Enqueue(c)
  <2>1. CASE Raise(c)
    BY <2>1, RaiseOthers
  <2>2. CASE Finish(c) /\ Capture(c, current[c], "pending")
    BY <2>2, FinishOthers, SessionOthers DEF SameClient
  <2>3. CASE Goto(c, "check") /\ UNCHANGED <<task, current, listed, blocked, session, told>>
    BY <2>3, GotoOthers, SessionOthers DEF SameClient, SameCall
  <2> QED BY <1>7, <2>1, <2>2, <2>3 DEF Enqueue
<1>8. CASE Check(c) \/ Apply(c)
  BY <1>8, AnswerOthers DEF Check, Apply
<1>9. CASE MarkApplied(c)
  <2>1. CASE Raise(c)
    BY <2>1, RaiseOthers
  <2>2. CASE Finish(c) /\ Capture(c, current[c], "synced")
    BY <2>2, FinishOthers, SessionOthers DEF SameClient
  <2>3. CASE (Retried(c, {}) \/ Finish(c)) /\ UNCHANGED session
    BY <2>3, FinishOthers, SessionOthers DEF SameClient
  <2> QED BY <1>9, <2>1, <2>2, <2>3 DEF MarkApplied
<1>10. CASE WriteConflict(c) \/ UnlinkPending(c)
  <2>1. CASE Raise(c)
    BY <2>1, RaiseOthers
  <2>2. CASE ConflictKnown(c)
    BY <2>2, AnswerOthers
  <2>3. CASE Goto(c, "unlink") /\ UNCHANGED <<task, current, listed, blocked, session, told>>
    BY <2>3, GotoOthers, SessionOthers DEF SameClient, SameCall
  <2> QED BY <1>10, <2>1, <2>2, <2>3 DEF WriteConflict, UnlinkPending
<1>11. CASE Abandon(c)
  BY <1>11, RaiseOthers DEF Abandon
<1>12. CASE RetryNext(c)
  <2>1. CASE Finish(c)
    BY <1>12, <2>1, FinishOthers, SessionOthers DEF RetryNext, SameClient
  <2>2. CASE ~Finish(c)
    BY <1>12, <2>2, GotoOthers, SessionOthers DEF RetryNext, SameClient, SameCall
  <2> QED BY <2>1, <2>2
<1>13. CASE BeginQuery(c) \/ ReadEnvelope(c)
  <2>1. CASE Raise(c)
    BY <2>1, RaiseOthers
  <2>2. CASE ~Raise(c)
    BY <1>13, <2>2, GotoOthers, SessionOthers DEF BeginQuery, ReadEnvelope, SameClient, SameCall
  <2> QED BY <2>1, <2>2
<1>14. CASE Load(c)
  <2>1. CASE Raise(c)
    BY <2>1, RaiseOthers
  <2>2. CASE ~Raise(c)
    BY <1>14, <2>2, FinishOthers, SessionOthers DEF Load, SameClient
  <2> QED BY <2>1, <2>2
<1> QED
  BY <1>1, <1>2, <1>3, <1>4, <1>5, <1>6, <1>7, <1>8, <1>9, <1>10, <1>11, <1>12, <1>13, <1>14
     DEF Begin, Proceed


-----------------------------------------------------------------------------
LEMMA FilesStay ==
  ASSUME IInv, IInv', UNCHANGED <<pending, conflicts>>
  PROVE  FilesStep /\ Contract!FileStep
<1>1. \A o \in Operation : Active(o)' = Active(o)
  BY DEF Active
<1>2. pending \cup conflicts \subseteq Operation /\ pending' \cup conflicts' \subseteq Operation
  BY DEF IInv, TypeOK
<1> QED BY <1>1, <1>2, FilesMove DEF FilesStep

(* Steps that move a session or a call and nothing else the contract speaks of. *)
LEMMA QuietLine ==
  ASSUME IInv, IInv', LineInv, NEW c \in Client, Begin(c) \/ Proceed(c) \/ Crash(c),
         UNCHANGED <<chain, requests, outbox, abandoned>>,
         CallLine(c)', SessionLine(c)', Rebased(c), Moves(c)
  PROVE  LineInv' /\ Contract!Next
<1>1. \A d \in Client \ {c} : SameClient(d) /\ SameSession(d)
  BY OthersSame DEF SameClient
<1>2. Grows
  BY OutboxGrows DEF outbox, Kept
<1>3. \A o \in Operation : Stored(o)' = Stored(o)
  BY StoreStays
<1>4. FilesStep
  BY DEF FilesStep, outbox
<1>5. abandoned' \subseteq archive'
  BY DEF LineInv, outbox
<1>6. \A q \in Operation : parent'[q] \in {parent[q], base[c]}
  BY DEF requests
<1>7. LineInv'
  BY <1>1, <1>2, <1>3, <1>4, <1>5, <1>6, LineKept
<1>8. Contract!StoreStep /\ Contract!RequestStep /\ Contract!WithdrawStep
  BY StoreStays, RequestsStay, NothingWithdrawn
<1>9. Contract!FileStep
  <2>1. UNCHANGED <<pending, conflicts>>
    BY DEF outbox
  <2> QED BY <2>1, FilesStay
<1>10. Contract!SessionStep
  BY <1>1, SessionsMove
<1> QED BY <1>7, <1>8, <1>9, <1>10 DEF Contract!Next

(* ... and do not move the session either. *)
LEMMA QuietRemains ==
  ASSUME IInv, IInv', LineInv, NEW c \in Client, Begin(c) \/ Proceed(c) \/ Crash(c),
         UNCHANGED <<chain, requests, outbox, abandoned>>, CallLine(c)', Remains(c)
  PROVE  LineInv' /\ Contract!Next
<1>1. Grows
  BY OutboxGrows DEF outbox, Kept
<1> QED BY <1>1, SessionRemains, QuietLine

LEMMA RaiseRemains ==
  ASSUME IInv, NEW c \in Client, Raise(c)
  PROVE  Remains(c) /\ CallLine(c)' /\ pc'[c] = "idle"
<1>1. Remains(c)
  BY DEF IInv, TypeOK, Raise, Remains
<1>2. pc'[c] = "idle"
  BY DEF IInv, TypeOK, Raise, Finish, Goto
<1> QED BY <1>1, <1>2, CallEnds

LEMMA CallOver ==
  ASSUME IInv, NEW c \in Client, NEW stop, Finish(c) \/ Continue(c, stop) \/ Retried(c, stop)
  PROVE  CallLine(c)'
<1>1. pc'[c] \in {"idle", "next"}
  BY DEF IInv, TypeOK, Finish, Continue, Retried, Goto
<1> QED BY <1>1, CallEnds

LEMMA BeginLine ==
  ASSUME IInv, IInv', LineInv, NEW c \in Client,
         \/ BeginSave(c) \/ BeginRetryAll(c) \/ ListPending(c) \/ RetryNext(c)
         \/ \E o \in Operation : BeginRetry(c, o)
  PROVE  LineInv' /\ Contract!Next
<1>1. UNCHANGED <<chain, requests, outbox, abandoned, session>>
  BY DEF BeginSave, BeginRetryAll, ListPending, RetryNext, BeginRetry, told
<1>2. Remains(c)
  BY <1>1 DEF Remains, session
<1>3. task'[c] \in {"save", "none", "retry", "retry_all"} /\ pc'[c] \in {"idle", "scan", "check", "next"}
      /\ (task'[c] = "save" => pc'[c] = "scan")
  <2>1. CASE Finish(c)
    BY <2>1 DEF IInv, TypeOK, Finish, Goto
  <2>2. CASE ~Finish(c)
    BY <2>2 DEF IInv, TypeOK, CallInv, BeginSave, BeginRetryAll, ListPending, RetryNext,
                BeginRetry, Goto
  <2> QED BY <2>1, <2>2
<1>4. CallLine(c)'
  BY <1>3 DEF CallLine, Owns, Works, Saving, Sending
<1>5. Begin(c) \/ Proceed(c)
  BY DEF Begin, Proceed
<1> QED BY <1>1, <1>2, <1>4, <1>5, QuietRemains

LEMMA BeginLoadLine ==
  ASSUME IInv, IInv', LineInv, NEW c \in Client, NEW r \in Recording, BeginLoad(c, r)
  PROVE  LineInv' /\ Contract!Next
<1>1. UNCHANGED <<chain, requests, outbox, abandoned, base, sync>>
  BY DEF BeginLoad, told
<1>2. Remains(c)
  BY <1>1 DEF Remains, BeginLoad, IInv, TypeOK
<1>3. task'[c] = "load" /\ pc'[c] = "scan"
  BY DEF IInv, TypeOK, BeginLoad, Goto
<1>4. PICK b : b = base[c]
  OBVIOUS
<1>5. sync[c] # "none" => b \in Operation /\ target[b] = r
  BY <1>4 DEF LineInv, SessionLine, BeginLoad
<1>6. sync[c] # "none" => b \notin pending
  BY <1>5 DEF BeginLoad, Of
<1>7. CallLine(c)'
  BY <1>1, <1>3, <1>4, <1>6 DEF CallLine, Owns, Works, Saving, Sending, outbox
<1>8. Begin(c)
  BY DEF Begin
<1> QED BY <1>1, <1>2, <1>7, <1>8, QuietRemains

LEMMA BeginQueryLine ==
  ASSUME IInv, IInv', LineInv, Contract!Sound, NEW c \in Client, BeginQuery(c)
  PROVE  LineInv' /\ Contract!Next
<1>1. UNCHANGED <<chain, requests, outbox, abandoned>> /\ Proceed(c)
  BY DEF BeginQuery, told, Proceed
<1>2. CASE Raise(c)
  BY <1>1, <1>2, RaiseRemains, QuietRemains
<1>3. CASE /\ Of(conflicts, rec[c]) = {}
           /\ Goto(c, "load")
           /\ UNCHANGED <<task, current, listed, blocked, session>>
  <2>1. Remains(c)
    BY <1>3 DEF Remains, session
  <2>2. pc[c] = "scan" /\ task[c] = "load" /\ pc'[c] = "load" /\ task'[c] = "load"
    BY <1>3 DEF IInv, TypeOK, BeginQuery, Goto
  <2>3. PICK b : b = base[c]
    OBVIOUS
  <2>4. sync[c] # "none" => b \in Operation /\ target[b] = rec[c] /\ b \notin pending
    BY <2>2, <2>3 DEF LineInv, SessionLine, CallLine
  <2>5. sync[c] # "none" => b \notin conflicts
    BY <1>3, <2>4 DEF Of
  <2>6. sync[c] # "none" => Stored(b) \/ b \in abandoned
    <3>1. b \in Operation => Contract!Needed(b)
      BY <2>3 DEF Contract!Needed
    <3>2. b \in Operation => b \in {x \in Operation : Stored(x)} \cup (pending \cup conflicts)
                                   \cup abandoned
      BY <3>1 DEF Contract!Sound, Contract!Safe, Contract!waiting
    <3> QED BY <2>4, <2>5, <3>2
  <2>7. sync[c] # "none" => Stored(base[c])' \/ b \in abandoned'
    <3>1. Stored(b)' => Stored(base[c])'
      BY <1>3, <2>3 DEF session, Stored, Store!Recorded
    <3> QED BY <1>1, <2>4, <2>6, <3>1, StoreStays
  <2>8. CallLine(c)'
    BY <1>1, <1>3, <2>2, <2>3, <2>7
       DEF CallLine, Owns, Works, Saving, Sending, outbox, session
  <2> QED BY <1>1, <2>1, <2>8, QuietRemains
<1> QED BY <1>2, <1>3 DEF BeginQuery

LEMMA LoadLine ==
  ASSUME IInv, IInv', LineInv, NEW c \in Client, Load(c)
  PROVE  LineInv' /\ Contract!Next
<1>1. UNCHANGED <<chain, requests, outbox, abandoned>> /\ Proceed(c) /\ pc[c] = "load"
  BY DEF Load, told, Proceed
<1>2. CASE Raise(c)
  BY <1>1, <1>2, RaiseRemains, QuietRemains
<1>3. CASE chain[rec[c]] # <<>> /\ Capture(c, head(rec[c]), "synced") /\ Finish(c)
  <2>1. rec[c] \in Recording /\ task[c] = "load"
    BY <1>1 DEF IInv, CallInv
  <2>2. PICK h \in Operation : h = head(rec[c]) /\ Stored(h)
    BY <1>3, <2>1, HeadIsLocated
  <2>3. Stored(head(rec[c]))
    BY <2>2
  <2>4. rec'[c] = rec[c] /\ base'[c] = h /\ sync'[c] = "synced"
    BY <1>3, <2>2 DEF IInv, TypeOK, Capture
  <2>5. \/ base[c] \in abandoned \cup {NoOperation}
        \/ \E b \in Operation : b = base[c] /\ Stored(b)
    <3>1. PICK b : b = base[c]
      OBVIOUS
    <3>2. \/ b = NoOperation
          \/ b \in Operation /\ (Stored(b) \/ b \in abandoned)
      BY <1>1, <2>1, <3>1 DEF LineInv, CallLine, SessionLine
    <3> QED BY <3>1, <3>2
  <2>6. Loaded(c)
    BY <1>1, <2>1, <2>2, <2>3, <2>4, <2>5 DEF Loaded
  <2>7. SessionLine(c)' /\ Rebased(c) /\ Moves(c)
    BY <1>1, <1>3, <2>4, <2>6, SessionLoads DEF requests
  <2> QED BY <1>1, <1>3, <2>7, CallOver, QuietLine
<1> QED BY <1>2, <1>3 DEF Load

LEMMA LeaveLine ==
  ASSUME IInv, IInv', LineInv, NEW c \in Client, Close(c) \/ Crash(c)
  PROVE  LineInv' /\ Contract!Next
<1>1. UNCHANGED <<chain, requests, outbox, abandoned>> /\ (Begin(c) \/ Crash(c)) /\ Forget(c)
  BY DEF Close, Crash, told, Begin
<1>2. Left(c)
  BY <1>1 DEF IInv, TypeOK, Forget, Left
<1>3. pc'[c] = "idle"
  BY DEF IInv, TypeOK, Close, Crash, Finish, Goto, call
<1> QED BY <1>1, <1>2, <1>3, SessionLeaves, CallEnds, QuietLine


-----------------------------------------------------------------------------
(* Steps that make a request. *)
LEMMA FreshIsNew ==
  ASSUME IInv, LineInv, NEW o \in Operation, Fresh(o)
  PROVE  ~Stored(o) /\ ~Needed(o) /\ o \notin Kept
<1>1. ~Stored(o)
  <2> SUFFICES ASSUME Stored(o) PROVE FALSE
    OBVIOUS
  <2>1. PICK r \in Recording : \E n \in 1..Len(chain[r]) : chain[r][n].id = o
    BY DEF Stored, Store!Recorded
  <2>2. target[o] = r
    BY <2>1, ChainEntry
  <2> QED BY <2>2, NoRecordingAssumption DEF Fresh
<1>2. \A q \in Operation : parent[q] # o
  <2> SUFFICES ASSUME NEW q \in Operation, parent[q] = o PROVE FALSE
    OBVIOUS
  <2>1. ~Fresh(q)
    BY NoOperationAssumption DEF IInv, RecordInv
  <2> QED BY <2>1 DEF IInv, ParentInv, Fresh
<1>3. \A c \in Client : base[c] # o
  <2> SUFFICES ASSUME NEW c \in Client, base[c] = o PROVE FALSE
    OBVIOUS
  <2>1. sync[c] # "none" /\ target[o] = rec[c]
    BY NoOperationAssumption DEF LineInv, SessionLine
  <2>2. rec[c] \in Recording
    BY <2>1 DEF IInv, SessionInv
  <2> QED BY <2>1, <2>2, NoRecordingAssumption DEF Fresh
<1>4. o \notin Kept
  BY DEF IInv, RecordInv
<1> QED BY <1>1, <1>2, <1>3, <1>4 DEF Needed

LEMMA RequestLine ==
  ASSUME IInv, IInv', LineInv, NEW c \in Client, Begin(c) \/ Proceed(c),
         NEW o \in Operation, Fresh(o), NEW r \in Recording,
         target' = [target EXCEPT ![o] = r],
         parent'[o] = base[c], \A p \in Operation : p # o => parent'[p] = parent[p],
         sync[c] # "none" => rec[c] = r,
         sync[c] # "conflict", Remains(c),
         pc'[c] = "enqueue", current'[c] = o,
         UNCHANGED <<chain, outbox, abandoned>>
  PROVE  LineInv' /\ Contract!Next
<1>1. \A d \in Client \ {c} : SameClient(d) /\ SameSession(d)
  BY OthersSame DEF SameClient
<1>2. Grows
  BY RequestGrows
<1>3. \A x \in Operation : Stored(x)' = Stored(x)
  BY StoreStays
<1>4. FilesStep
  BY DEF FilesStep, outbox
<1>5. abandoned' \subseteq archive'
  BY DEF LineInv, outbox
<1>6. \A q \in Operation : parent'[q] \in {parent[q], base[c]}
  OBVIOUS
<1>7. ~Stored(o) /\ ~Needed(o) /\ o \notin Kept
  BY FreshIsNew
<1>8. base'[c] = base[c] /\ sync'[c] = sync[c]
  BY DEF Remains
<1>9. CallLine(c)'
  <2>1. ~Needed(o)'
    <3>1. \A d \in Client : base'[d] = base[d]
      BY <1>1, <1>8 DEF SameSession
    <3>2. \A q \in Operation : parent'[q] # o
      BY <1>6, <1>7 DEF Needed
    <3> QED BY <1>7, <3>1, <3>2 DEF Needed
  <2>2. ~Needed(current[c])'
    BY <2>1 DEF Needed
  <2>3. ~Stored(o)'
    BY <1>3, <1>7
  <2>4. ~Stored(current[c])'
    BY <2>3 DEF Stored, Store!Recorded
  <2> QED BY <1>8, <2>2, <2>4 DEF CallLine
<1>10. SessionLine(c)' /\ Rebased(c) /\ Moves(c)
  BY <1>2, SessionRemains
<1>11. LineInv'
  BY <1>1, <1>2, <1>3, <1>4, <1>5, <1>6, <1>9, <1>10, LineKept
<1>12. Contract!RequestStep
  <2>1. /\ target'[o] = r
        /\ \A p \in Operation : p # o => target'[p] = target[p] /\ parent'[p] = parent[p]
    BY DEF IInv, TypeOK
  <2>2. sync[c] = "none" => parent'[o] = NoOperation
    BY DEF LineInv, SessionLine
  <2> QED BY <2>1, <2>2, RequestMade
<1>13. Contract!FileStep
  <2>1. UNCHANGED <<pending, conflicts>>
    BY DEF outbox
  <2> QED BY <2>1, FilesStay
<1> QED
  BY <1>1, <1>10, <1>11, <1>12, <1>13, StoreStays, NothingWithdrawn, SessionsMove
     DEF Contract!Next

LEMMA BeginCreateLine ==
  ASSUME IInv, IInv', LineInv, NEW c \in Client, NEW r \in Recording, NEW o \in Operation,
         BeginCreate(c, r, o)
  PROVE  LineInv' /\ Contract!Next
<1>1. /\ Fresh(o) /\ sync[c] = "none" /\ target' = [target EXCEPT ![o] = r]
      /\ UNCHANGED <<chain, parent, outbox, abandoned, base, sync>>
  BY DEF BeginCreate, told
<1>2. parent'[o] = base[c]
  BY <1>1 DEF IInv, RecordInv, LineInv, SessionLine
<1>3. Remains(c) /\ Begin(c)
  BY <1>1 DEF Remains, Begin
<1>4. pc'[c] = "enqueue" /\ current'[c] = o
  BY DEF IInv, TypeOK, BeginCreate, Goto
<1> QED BY <1>1, <1>2, <1>3, <1>4, RequestLine

LEMMA BeginRequestLine ==
  ASSUME IInv, IInv', LineInv, NEW c \in Client, BeginRequest(c)
  PROVE  LineInv' /\ Contract!Next
<1>1. UNCHANGED <<chain, outbox, abandoned>> /\ Proceed(c)
  BY DEF BeginRequest, told, Proceed
<1>2. task[c] = "save" /\ pc[c] = "scan" /\ sync[c] # "none" /\ rec[c] \in Recording
  BY DEF BeginRequest, IInv, CallInv, SessionInv
<1>3. CASE /\ sync[c] = "conflict" \/ Of(conflicts, rec[c]) # {}
           /\ sync' = [sync EXCEPT ![c] = "conflict"]
           /\ Finish(c) /\ UNCHANGED <<requests, rec, base>>
  <2>1. sync'[c] = "conflict" /\ rec'[c] = rec[c] /\ base'[c] = base[c]
    BY <1>3 DEF IInv, TypeOK
  <2>2. CASE sync[c] = "conflict"
    BY <1>1, <1>3, <2>1, <2>2, CallOver, QuietRemains DEF Remains
  <2>3. CASE Of(conflicts, rec[c]) # {}
    <3>1. PICK o \in conflicts : target[o] = rec[c]
      BY <2>3 DEF Of
    <3>2. o \in Operation /\ o \in conflicts' /\ target'[o] = rec[c]
      BY <1>1, <1>3, <3>1 DEF IInv, TypeOK, outbox, requests
    <3>3. Stopped(c)
      BY <1>2, <2>1, <3>2 DEF Stopped
    <3>4. Grows
      BY <1>1, <1>3, OutboxGrows DEF outbox, Kept
    <3>5. SessionLine(c)' /\ Rebased(c) /\ Moves(c)
      BY <3>3, <3>4, SessionStops
    <3> QED BY <1>1, <1>3, <3>5, CallOver, QuietLine
  <2> QED BY <1>3, <2>2, <2>3
<1>4. CASE Finish(c) /\ UNCHANGED <<requests, session>>
  BY <1>1, <1>4, CallOver, QuietRemains DEF Remains, session
<1>5. ASSUME NEW o \in Operation, Fresh(o), sync[c] # "conflict",
             target' = [target EXCEPT ![o] = rec[c]],
             parent' = [parent EXCEPT ![o] = base[c]],
             current' = [current EXCEPT ![c] = o],
             Goto(c, "enqueue"),
             UNCHANGED session
      PROVE  LineInv' /\ Contract!Next
  <2>1. parent'[o] = base[c] /\ \A p \in Operation : p # o => parent'[p] = parent[p]
    BY <1>5 DEF IInv, TypeOK
  <2>2. pc'[c] = "enqueue" /\ current'[c] = o
    BY <1>5 DEF IInv, TypeOK, Goto
  <2>3. Remains(c)
    BY <1>5 DEF Remains, session
  <2> QED BY <1>1, <1>2, <1>5, <2>1, <2>2, <2>3, RequestLine
<1> QED BY <1>3, <1>4, <1>5 DEF BeginRequest


-----------------------------------------------------------------------------
(* Steps that change the store or the files.                                 *)
LEMMA ClientLine ==
  ASSUME IInv, IInv', LineInv, NEW c \in Client, Begin(c) \/ Proceed(c) \/ Crash(c),
         UNCHANGED <<requests, abandoned>>, Grows, FilesStep, archive \subseteq archive',
         \A o \in Operation : Stored(o)' => Stored(o) \/ (pc[c] = "apply" /\ o = current[c]),
         Contract!StoreStep, Contract!FileStep,
         CallLine(c)', SessionLine(c)', Rebased(c), Moves(c)
  PROVE  LineInv' /\ Contract!Next
<1>1. \A d \in Client \ {c} : SameClient(d) /\ SameSession(d)
  BY OthersSame DEF SameClient
<1>2. abandoned' \subseteq archive'
  BY DEF LineInv
<1>3. \A q \in Operation : parent'[q] \in {parent[q], base[c]}
  BY DEF requests
<1>4. LineInv'
  BY <1>1, <1>2, <1>3, LineKept
<1> QED
  BY <1>1, <1>4, RequestsStay, NothingWithdrawn, SessionsMove DEF Contract!Next

(* The record of an operation whose revision is stored, or that nothing is    *)
(* built on, may leave the active files.                                      *)
LEMMA FileLeaves ==
  ASSUME IInv, IInv', NEW o \in Operation,
         Remove(o) \/ (pending' = pending \ {o} /\ UNCHANGED conflicts),
         Stored(o)' \/ ~Needed(o)'
  PROVE  FilesStep /\ Contract!FileStep
<1>1. \A x \in Operation : x # o => Active(x)' = Active(x)
  BY DEF Active, Remove
<1>2. pending' \subseteq pending /\ conflicts' \subseteq conflicts
  BY DEF Remove
<1>3. pending \cup conflicts \subseteq Operation /\ pending' \cup conflicts' \subseteq Operation
  BY DEF IInv, TypeOK
<1>4. Contract!FileStep
  BY <1>1, <1>2, <1>3, FilesMove
<1> QED BY <1>4 DEF FilesStep, Remove


LEMMA EnqueueLine ==
  ASSUME IInv, IInv', LineInv, NEW c \in Client, Enqueue(c)
  PROVE  LineInv' /\ Contract!Next
<1>1. UNCHANGED <<chain, requests>> /\ Proceed(c) /\ pc[c] = "enqueue"
  BY DEF Enqueue, Proceed
<1>2. CASE Raise(c) /\ UNCHANGED <<outbox, told>>
  BY <1>1, <1>2, RaiseRemains, QuietRemains DEF told
<1>3. PICK o \in Operation : o = current[c]
  BY <1>1 DEF IInv, CallInv, Works
<1>4. ASSUME pending' = pending \cup {o}, UNCHANGED <<conflicts, applied, archive>>,
             IF sync[c] = "pending"
             THEN /\ Capture(c, o, "pending")
                  /\ Tell(o, "queued")
                  /\ Finish(c)
             ELSE /\ Goto(c, "check")
                  /\ UNCHANGED <<task, current, listed, blocked, session, told>>
      PROVE  LineInv' /\ Contract!Next
  <2>1. Owns(c) /\ ~Fresh(o) /\ o \notin Kept /\ target[o] = rec[c]
    BY <1>1, <1>3 DEF IInv, CallInv, Works, Owns
  <2>2. /\ parent[o] = base[c] /\ sync[c] # "conflict" /\ ~Stored(o)
        /\ Stored(o) \/ ~Needed(o)
    <3>1. CallLine(c)
      BY DEF LineInv
    <3>2. Stored(current[c]) => Stored(o)
      BY <1>3
    <3>3. Stored(o) => Stored(current[c])
      BY <1>3
    <3>4. ~Needed(current[c]) => ~Needed(o)
      BY <1>3
    <3> QED BY <1>1, <1>3, <2>1, <3>1, <3>2, <3>3, <3>4 DEF CallLine
  <2>3. o \notin abandoned /\ rec[c] \in Recording
    BY <1>1, <1>3, <2>1, Request DEF LineInv, Kept, Works
  <2>4. UNCHANGED abandoned
    BY <1>4 DEF Tell, told
  <2>5. Grows
    BY <1>1, <1>4, <2>4, OutboxGrows DEF Kept
  <2>6. FilesStep
    BY <1>4, <2>1, <2>2 DEF FilesStep
  <2>7. Contract!FileStep
    <3>1. \A x \in Operation : Active(x) => Active(x)'
      BY <1>4 DEF Active
    <3>2. pending' \ pending \subseteq {o} /\ conflicts' = conflicts /\ ~Fresh(o)'
      BY <1>1, <1>4, <2>1 DEF Fresh, requests
    <3>3. pending \cup conflicts \subseteq Operation /\ pending' \cup conflicts' \subseteq Operation
      BY DEF IInv, TypeOK
    <3> QED BY <2>2, <2>3, <3>1, <3>2, <3>3, FilesMove
  <2>8. Contract!StoreStep /\ \A x \in Operation : Stored(x)' = Stored(x)
    BY <1>1, StoreStays
  <2>9. CallLine(c)' /\ SessionLine(c)' /\ Rebased(c) /\ Moves(c)
    <3>1. CASE sync[c] = "pending"
      <4>1. base'[c] = o /\ sync'[c] = "pending" /\ rec'[c] = rec[c]
        BY <1>4, <3>1 DEF IInv, TypeOK, Capture
      <4>2. target'[o] = rec[c] /\ parent'[o] = base[c] /\ Active(o)'
        BY <1>1, <1>4, <2>1, <2>2 DEF requests, Active
      <4>3. GoesOn(c, o)
        BY <2>2, <2>3, <4>1, <4>2 DEF GoesOn
      <4>4. abandoned' \subseteq archive'
        BY <1>4, <2>4 DEF LineInv
      <4> QED BY <1>3, <1>4, <2>1, <3>1, <4>3, <4>4, SessionGoesOn, CallOver
    <3>2. CASE sync[c] # "pending"
      <4>1. /\ pc'[c] = "check" /\ current'[c] = o /\ task'[c] = task[c]
            /\ UNCHANGED session
        BY <1>3, <1>4, <3>2 DEF IInv, TypeOK, Goto
      <4>2. Remains(c)
        BY <4>1 DEF Remains, session
      <4>3. Needed(o)' = Needed(o)
        BY <1>1, <4>1 DEF Needed, requests, session
      <4>4. ~Needed(o)'
        BY <2>2, <4>3
      <4>5. ~Needed(current[c])'
        BY <4>1, <4>4 DEF Needed
      <4>6. task'[c] \in {"save", "create"}
        BY <1>1, <4>1 DEF IInv, CallInv, Saving
      <4>7. CallLine(c)'
        BY <1>1, <2>2, <3>2, <4>1, <4>5, <4>6 DEF CallLine, requests, session
      <4> QED BY <2>5, <4>2, <4>7, SessionRemains
    <3> QED BY <3>1, <3>2
  <2> QED BY <1>1, <1>4, <2>4, <2>5, <2>6, <2>7, <2>8, <2>9, ClientLine
<1> QED BY <1>2, <1>3, <1>4 DEF Enqueue


(* What the store may do in a step of c. *)
StoreWorks(c) ==
  /\ Grows /\ Contract!StoreStep
  /\ \A o \in Operation : Stored(o)' => Stored(o) \/ (pc[c] = "apply" /\ o = current[c])

(* The request of a call, and what holds of it. *)
LEMMA RequestOf ==
  ASSUME IInv, LineInv, NEW c \in Client, Works(c), NEW o, o = current[c]
  PROVE  /\ o \in Operation /\ ~Fresh(o) /\ target[o] \in Recording
         /\ pc[c] # "enqueue" => o \in Kept
         /\ Saving(c) => /\ Owns(c) /\ rec[c] = target[o]
                         /\ parent[o] = base[c] /\ sync[c] # "conflict"
                         /\ pc[c] # "enqueue" => sync[c] # "pending"
                         /\ Stored(o) \/ ~Needed(o)
<1>1. CallLine(c) /\ CallInv(c)
  BY DEF LineInv, IInv
<1>2. Stored(current[c]) => Stored(o)
  OBVIOUS
<1>3. ~Needed(current[c]) => ~Needed(o)
  OBVIOUS
<1> QED BY <1>1, <1>2, <1>3, Request DEF CallLine, CallInv, Owns

LEMMA AnswerLine ==
  ASSUME IInv, IInv', LineInv, NEW c \in Client, Check(c) \/ Apply(c), StoreWorks(c),
         NEW label \in {"apply", "applied", "conflict", "abandon"}, Answer(c, label),
         label = "conflict" => parent[current[c]] # NoOperation
  PROVE  LineInv' /\ Contract!Next
<1>1. /\ UNCHANGED <<requests, outbox, abandoned, session>> /\ Proceed(c)
      /\ pc[c] \in {"check", "apply"} /\ Works(c)
  BY DEF Answer, told, Proceed, Check, Apply, Works, Sending
<1>2. PICK o \in Operation : o = current[c]
  BY <1>1, RequestOf
<1>3. /\ Saving(c) => /\ parent[o] = base[c] /\ sync[c] \notin {"conflict", "pending"}
                      /\ Stored(o) \/ ~Needed(o)
  BY <1>1, <1>2, RequestOf
<1>4. pc'[c] = label /\ current'[c] = o /\ task'[c] = task[c]
  BY <1>2 DEF IInv, TypeOK, Answer, Goto
<1>5. Saving(c)' = Saving(c) /\ Owns(c)' = Saving(c)
  BY <1>4 DEF Saving, Owns, Works, Sending
<1>6. Saving(c) => Stored(o)' \/ ~Needed(o)'
  BY <1>1, <1>3 DEF StoreWorks, Grows, Needed, requests, session
<1>7. Saving(c) => Stored(current[c])' \/ ~Needed(current[c])'
  <2>1. Stored(o)' => Stored(current[c])'
    BY <1>4 DEF Stored, Store!Recorded
  <2>2. ~Needed(o)' => ~Needed(current[c])'
    BY <1>4 DEF Needed
  <2> QED BY <1>6, <2>1, <2>2
<1>8. CallLine(c)'
  BY <1>1, <1>2, <1>3, <1>4, <1>5, <1>7 DEF CallLine, requests, session
<1>9. Remains(c)
  BY <1>1 DEF Remains, session
<1>10. FilesStep /\ Contract!FileStep
  BY <1>1, FilesStay DEF outbox
<1> QED BY <1>1, <1>8, <1>9, <1>10, SessionRemains, ClientLine DEF StoreWorks, outbox

LEMMA UnavailableLine ==
  ASSUME IInv, IInv', LineInv, NEW c \in Client, Check(c) \/ Apply(c), StoreWorks(c),
         Unavailable(c)
  PROVE  LineInv' /\ Contract!Next
<1>1. /\ UNCHANGED <<requests, outbox, abandoned>> /\ Proceed(c)
      /\ pc[c] \in {"check", "apply"} /\ Works(c)
  BY DEF Unavailable, Tell, told, Proceed, Check, Apply, Works, Sending
<1>2. PICK o \in Operation : o = current[c]
  BY <1>1, RequestOf
<1>3. /\ target[o] \in Recording /\ o \in Kept
      /\ Saving(c) => /\ Owns(c) /\ parent[o] = base[c] /\ sync[c] \notin {"conflict", "pending"}
                      /\ rec[c] = target[o]
  BY <1>1, <1>2, RequestOf
<1>4. CallLine(c)'
  BY CallOver DEF Unavailable
<1>5. SessionLine(c)' /\ Rebased(c) /\ Moves(c)
  <2>1. CASE Saving(c)
    <3>1. base'[c] = o /\ sync'[c] = "pending" /\ rec'[c] = rec[c]
      BY <1>2, <2>1 DEF IInv, TypeOK, Unavailable, Capture
    <3>2. Stored(o)' \/ Active(o)' \/ o \in abandoned'
      <4>1. o \in archive => o \in abandoned
        BY <1>1, <1>2, <2>1 DEF IInv, CallInv, Sending
      <4>2. o \in applied => Stored(o)
        BY DEF IInv, RecordInv
      <4> QED BY <1>1, <1>3, <4>1, <4>2 DEF Kept, Active, outbox, StoreWorks, Grows
    <3>3. target'[o] = target[o] /\ parent'[o] = parent[o]
      BY <1>1 DEF requests
    <3>4. GoesOn(c, o)
      BY <1>3, <2>1, <3>1, <3>2, <3>3 DEF GoesOn
    <3>5. abandoned' \subseteq archive'
      BY <1>1 DEF LineInv, outbox
    <3> QED BY <1>2, <1>3, <2>1, <3>4, <3>5, SessionGoesOn
  <2>2. CASE ~Saving(c)
    <3>1. Remains(c)
      BY <2>2 DEF Unavailable, Remains, session
    <3> QED BY <3>1, SessionRemains DEF StoreWorks
  <2> QED BY <2>1, <2>2
<1>6. FilesStep /\ Contract!FileStep
  BY <1>1, FilesStay DEF outbox
<1> QED BY <1>1, <1>4, <1>5, <1>6, ClientLine DEF StoreWorks, outbox


LEMMA StoreRests ==
  ASSUME IInv, LineInv, NEW c \in Client, UNCHANGED <<chain, requests, outbox, abandoned>>
  PROVE  StoreWorks(c)
<1>1. Grows
  BY OutboxGrows DEF outbox, Kept
<1> QED BY <1>1, StoreStays DEF StoreWorks

LEMMA StoreTakes ==
  ASSUME IInv, LineInv, NEW c \in Client, pc[c] = "apply", Commits(c),
         UNCHANGED <<requests, outbox, abandoned>>
  PROVE  StoreWorks(c)
<1>1. PICK o \in Operation : o = current[c] /\ target[o] \in Recording
  BY RequestOf DEF Works, Sending
<1>2. PICK r \in Recording : r = target[o]
  BY <1>1
<1>3. Store!Commit(r, o) /\ head(r) = parent[o]
  BY <1>1, <1>2 DEF Commits
<1>4. target'[o] = r /\ parent'[o] = head(r) /\ \A x \in Operation : target'[x] = target[x]
  BY <1>2, <1>3 DEF requests
<1>5. Contract!StoreStep
  BY <1>3, <1>4, StoreCommits
<1>6. \A x \in Operation : Stored(x)' => Stored(x) \/ x = o
  BY <1>3, NewHead
<1>7. /\ \A x \in Operation : Stored(x) => Stored(x)'
      /\ Located'
  BY <1>3, <1>4, Committed
<1>8. Grows
  BY <1>7 DEF Grows, requests, outbox, Kept
<1> QED BY <1>1, <1>5, <1>6, <1>8 DEF StoreWorks

LEMMA StoreRaisesLine ==
  ASSUME IInv, IInv', LineInv, NEW c \in Client, Check(c) \/ Apply(c), StoreRaises(c)
  PROVE  LineInv' /\ Contract!Next
<1>1. UNCHANGED <<chain, requests, outbox, audio, session, told, abandoned>> /\ Proceed(c)
  BY DEF StoreRaises, told, Proceed
<1>2. CASE Saving(c)
  <2>1. Answer(c, "abandon")
    BY <1>2 DEF StoreRaises, Answer
  <2> QED BY <1>1, <2>1, StoreRests, AnswerLine
<1>3. CASE ~Saving(c)
  <2>1. Finish(c) /\ Remains(c)
    BY <1>1, <1>3 DEF StoreRaises, Remains, session
  <2> QED BY <1>1, <2>1, CallOver, QuietRemains
<1> QED BY <1>2, <1>3

LEMMA CheckLine ==
  ASSUME IInv, IInv', LineInv, NEW c \in Client, Check(c)
  PROVE  LineInv' /\ Contract!Next
<1>1. UNCHANGED <<chain, requests, outbox, abandoned>>
  BY DEF Check, Answer, Unavailable, Tell, told
<1>2. StoreWorks(c)
  BY <1>1, StoreRests
<1>3. ASSUME NEW label \in {"apply", "applied"}, Answer(c, label)
      PROVE  LineInv' /\ Contract!Next
  BY <1>2, <1>3, AnswerLine
<1>4. CASE Unavailable(c)
  BY <1>2, <1>4, UnavailableLine
<1> QED BY <1>3, <1>4 DEF Check

LEMMA ApplyLine ==
  ASSUME IInv, IInv', LineInv, NEW c \in Client, Apply(c)
  PROVE  LineInv' /\ Contract!Next
<1>1. pc[c] = "apply"
  BY DEF Apply
<1>2. CASE Commits(c) /\ (Answer(c, "applied") \/ Unavailable(c))
  <2>1. UNCHANGED <<requests, outbox, abandoned>>
    BY <1>2 DEF Answer, Unavailable, Tell, told
  <2>2. StoreWorks(c)
    BY <1>1, <1>2, <2>1, StoreTakes
  <2> QED BY <1>2, <2>2, AnswerLine, UnavailableLine
<1>3. CASE parent[current[c]] # NoOperation /\ Answer(c, "conflict") /\ UNCHANGED chain
  <2>1. UNCHANGED <<chain, requests, outbox, abandoned>>
    BY <1>3 DEF Answer, told
  <2> QED BY <1>3, <2>1, StoreRests, AnswerLine
<1>4. CASE StoreRaises(c)
  BY <1>4, StoreRaisesLine
<1>5. CASE Unavailable(c) /\ UNCHANGED chain
  <2>1. UNCHANGED <<chain, requests, outbox, abandoned>>
    BY <1>5 DEF Unavailable, Tell, told
  <2> QED BY <1>5, <2>1, StoreRests, UnavailableLine
<1> QED BY <1>2, <1>3, <1>4, <1>5 DEF Apply


LEMMA MarkAppliedLine ==
  ASSUME IInv, IInv', LineInv, NEW c \in Client, MarkApplied(c)
  PROVE  LineInv' /\ Contract!Next
<1>1. /\ UNCHANGED <<chain, requests, archive, abandoned>> /\ Proceed(c)
      /\ pc[c] = "applied" /\ Works(c)
  BY DEF MarkApplied, Tell, told, Proceed, Works, Sending
<1>2. PICK o \in Operation : o = current[c]
  BY <1>1, RequestOf
<1>3. /\ target[o] \in Recording /\ o \in Kept
      /\ Saving(c) => /\ Owns(c) /\ parent[o] = base[c] /\ sync[c] \notin {"conflict", "pending"}
                      /\ rec[c] = target[o]
  BY <1>1, <1>2, RequestOf
<1>4. Stored(o)
  BY <1>1, <1>2 DEF IInv, CallInv
<1>5. \A x \in Operation : Stored(x)' = Stored(x)
  BY <1>1, StoreStays
<1>6. \/ Active(o) /\ Remove(o) /\ applied' = applied \cup {o}
      \/ UNCHANGED <<pending, conflicts, applied>>
  BY <1>2 DEF MarkApplied
<1>7. Grows
  <2>1. CASE Remove(o) /\ applied' = applied \cup {o}
    BY <1>1, <2>1, OutboxGrows, Moved
  <2>2. CASE UNCHANGED <<pending, conflicts, applied>>
    BY <1>1, <2>2, OutboxGrows DEF Kept
  <2> QED BY <1>6, <2>1, <2>2
<1>8. FilesStep /\ Contract!FileStep
  <2>1. CASE Remove(o)
    BY <1>4, <1>5, <2>1, FileLeaves
  <2>2. CASE UNCHANGED <<pending, conflicts, applied>>
    BY <2>2, FilesStay
  <2> QED BY <1>6, <2>1, <2>2
<1>9. CASE Saving(c) /\ Capture(c, o, "synced") /\ Finish(c)
  <2>1. base'[c] = o /\ sync'[c] = "synced" /\ rec'[c] = rec[c]
    BY <1>9 DEF IInv, TypeOK, Capture
  <2>2. target'[o] = target[o] /\ parent'[o] = parent[o] /\ Stored(o)'
    BY <1>1, <1>4, <1>5 DEF requests
  <2>3. GoesOn(c, o)
    BY <1>3, <1>9, <2>1, <2>2 DEF GoesOn
  <2>4. abandoned' \subseteq archive'
    BY <1>1 DEF LineInv
  <2>5. SessionLine(c)' /\ Rebased(c) /\ Moves(c) /\ CallLine(c)'
    BY <1>2, <1>3, <1>9, <2>3, <2>4, SessionGoesOn, CallOver
  <2> QED BY <1>1, <1>5, <1>7, <1>8, <2>5, StoreStays, ClientLine
<1>10. CASE Remains(c) /\ CallLine(c)'
  <2>1. SessionLine(c)' /\ Rebased(c) /\ Moves(c)
    BY <1>7, <1>10, SessionRemains
  <2> QED BY <1>1, <1>5, <1>7, <1>8, <1>10, <2>1, StoreStays, ClientLine
<1>11. CASE Raise(c)
  BY <1>10, <1>11, RaiseRemains
<1>12. CASE (Retried(c, {}) \/ Finish(c)) /\ UNCHANGED session
  <2>1. Remains(c)
    BY <1>12 DEF Remains, session
  <2> QED BY <1>10, <1>12, <2>1, CallOver
<1> QED BY <1>2, <1>9, <1>11, <1>12 DEF MarkApplied

LEMMA ConflictKnownLine ==
  ASSUME IInv, IInv', LineInv, NEW c \in Client, Proceed(c), pc[c] \in {"rewrite", "unlink"},
         NEW o \in Operation, o = current[c], ConflictKnown(c),
         UNCHANGED <<chain, requests, applied, archive>>,
         Grows, FilesStep, Contract!FileStep, o \in conflicts'
  PROVE  LineInv' /\ Contract!Next
<1>1. UNCHANGED abandoned /\ Works(c)
  BY DEF ConflictKnown, Tell, Works, Sending
<1>2. CASE Saving(c)
  <2>1. /\ Owns(c) /\ parent[o] = base[c] /\ rec[c] = target[o] /\ target[o] \in Recording
    BY <1>1, <1>2, RequestOf
  <2>2. base[c] # NoOperation
    <3>1. CallLine(c)
      BY DEF LineInv
    <3> QED BY <2>1, <3>1 DEF CallLine
  <2>3. sync[c] # "none"
    BY <2>2 DEF LineInv, SessionLine
  <2>4. base'[c] = base[c] /\ sync'[c] = "conflict" /\ rec'[c] = rec[c]
    BY <1>2 DEF IInv, TypeOK, ConflictKnown, Capture
  <2>5. target'[o] = rec[c]
    BY <2>1 DEF requests
  <2>6. Stopped(c)
    BY <1>2, <2>3, <2>4, <2>5 DEF Stopped
  <2>7. CallLine(c)'
    BY <1>2, CallOver DEF ConflictKnown
  <2>8. SessionLine(c)' /\ Rebased(c) /\ Moves(c)
    BY <2>6, SessionStops
  <2> QED BY <1>1, <2>7, <2>8, StoreStays, ClientLine
<1>3. CASE ~Saving(c)
  <2>1. Remains(c)
    BY <1>3 DEF ConflictKnown, Remains, session
  <2>2. CallLine(c)'
    BY <1>3, CallOver DEF ConflictKnown
  <2> QED BY <1>1, <2>1, <2>2, SessionRemains, StoreStays, ClientLine
<1> QED BY <1>2, <1>3


(* A call goes on to write the conflict or to unlink the file of its request. *)
LEMMA CallGoesOn ==
  ASSUME IInv, LineInv, NEW c \in Client, pc[c] \in Sending, NEW o \in Operation, o = current[c],
         UNCHANGED <<chain, requests, task, current, session>>,
         NEW label \in {"write", "rewrite", "unlink"}, Goto(c, label),
         parent[o] # NoOperation, label = "unlink" /\ o \in pending' => o \in conflicts'
  PROVE  CallLine(c)' /\ Remains(c)
<1>1. pc'[c] = label /\ current'[c] = o /\ task'[c] = task[c] /\ Works(c) /\ pc[c] # "enqueue"
  BY DEF IInv, TypeOK, Goto, Works, Sending
<1>2. Saving(c) => /\ parent[o] = base[c] /\ sync[c] \notin {"conflict", "pending"}
                   /\ Stored(o) \/ ~Needed(o)
  BY <1>1, RequestOf
<1>3. Owns(c)' = Saving(c)
  BY <1>1 DEF Saving, Owns, Works, Sending
<1>4. Saving(c) => Stored(o)' \/ ~Needed(o)'
  BY <1>2, StoreStays DEF Needed, requests, session
<1>5. Saving(c) => Stored(current[c])' \/ ~Needed(current[c])'
  <2>1. Stored(o)' => Stored(current[c])'
    BY <1>1 DEF Stored, Store!Recorded
  <2>2. ~Needed(o)' => ~Needed(current[c])'
    BY <1>1 DEF Needed
  <2> QED BY <1>4, <2>1, <2>2
<1>6. CallLine(c)'
  BY <1>1, <1>2, <1>3, <1>5 DEF CallLine, requests, session
<1> QED BY <1>6 DEF Remains, session

LEMMA ReadEnvelopeLine ==
  ASSUME IInv, IInv', LineInv, NEW c \in Client, ReadEnvelope(c)
  PROVE  LineInv' /\ Contract!Next
<1>1. /\ UNCHANGED <<chain, requests, outbox, abandoned>> /\ Proceed(c)
      /\ pc[c] = "conflict" /\ Works(c)
  BY DEF ReadEnvelope, Proceed, Works, Sending, told
<1>2. PICK o \in Operation : o = current[c]
  BY <1>1, RequestOf
<1>3. parent[o] # NoOperation
  BY <1>1, <1>2 DEF LineInv, CallLine
<1>4. CASE Raise(c)
  BY <1>1, <1>4, RaiseRemains, QuietRemains
<1>5. ASSUME NEW label \in {"write", "rewrite"}, Goto(c, label),
             UNCHANGED <<task, current, listed, blocked, session>>
      PROVE  LineInv' /\ Contract!Next
  <2>1. CallLine(c)' /\ Remains(c)
    BY <1>1, <1>2, <1>3, <1>5, CallGoesOn DEF Sending
  <2> QED BY <1>1, <2>1, QuietRemains
<1> QED BY <1>4, <1>5 DEF ReadEnvelope

LEMMA WriteConflictLine ==
  ASSUME IInv, IInv', LineInv, NEW c \in Client, WriteConflict(c)
  PROVE  LineInv' /\ Contract!Next
<1>1. /\ UNCHANGED <<chain, requests, pending, applied, archive>> /\ Proceed(c)
      /\ pc[c] \in {"write", "rewrite"} /\ Works(c)
  BY DEF WriteConflict, Proceed, Works, Sending
<1>2. PICK o \in Operation : o = current[c] /\ ~Fresh(o)
  BY <1>1, RequestOf
<1>3. parent[o] # NoOperation
  BY <1>1, <1>2 DEF LineInv, CallLine
<1>4. CASE Raise(c) /\ UNCHANGED <<conflicts, told>>
  BY <1>1, <1>4, RaiseRemains, QuietRemains DEF told, outbox
<1>5. CASE /\ conflicts' = conflicts \cup {o}
           /\ \/ /\ Goto(c, "unlink")
                 /\ UNCHANGED <<task, current, listed, blocked, session, told>>
              \/ pc[c] = "rewrite" /\ ConflictKnown(c)
  <2>1. UNCHANGED abandoned
    BY <1>5 DEF ConflictKnown, Tell, told
  <2>2. Grows
    BY <1>1, <1>5, <2>1, OutboxGrows DEF Kept
  <2>3. FilesStep
    BY <1>1, <1>5 DEF FilesStep
  <2>4. Contract!FileStep
    <3>1. \A x \in Operation : Active(x) => Active(x)'
      BY <1>1, <1>5 DEF Active
    <3>2. pending' = pending /\ conflicts' \ conflicts \subseteq {o} /\ ~Fresh(o)'
      BY <1>1, <1>2, <1>5 DEF Fresh, requests
    <3>3. pending \cup conflicts \subseteq Operation /\ pending' \cup conflicts' \subseteq Operation
      BY DEF IInv, TypeOK
    <3> QED BY <3>1, <3>2, <3>3, FilesMove
  <2>5. CASE Goto(c, "unlink") /\ UNCHANGED <<task, current, listed, blocked, session, told>>
    <3>1. CallLine(c)' /\ Remains(c)
      BY <1>1, <1>2, <1>3, <1>5, <2>5, CallGoesOn DEF Sending
    <3>2. SessionLine(c)' /\ Rebased(c) /\ Moves(c)
      BY <2>2, <3>1, SessionRemains
    <3> QED BY <1>1, <2>1, <2>2, <2>3, <2>4, <3>1, <3>2, StoreStays, ClientLine
  <2>6. CASE pc[c] = "rewrite" /\ ConflictKnown(c)
    BY <1>1, <1>2, <1>5, <2>2, <2>3, <2>4, <2>6, ConflictKnownLine
  <2> QED BY <1>5, <2>5, <2>6
<1> QED BY <1>1, <1>2, <1>4, <1>5 DEF WriteConflict

LEMMA UnlinkPendingLine ==
  ASSUME IInv, IInv', LineInv, NEW c \in Client, UnlinkPending(c)
  PROVE  LineInv' /\ Contract!Next
<1>1. /\ UNCHANGED <<chain, requests, conflicts, applied, archive>> /\ Proceed(c)
      /\ pc[c] = "unlink" /\ Works(c)
  BY DEF UnlinkPending, Proceed, Works, Sending
<1>2. PICK o \in Operation : o = current[c]
  BY <1>1, RequestOf
<1>3. CASE Raise(c) /\ UNCHANGED <<pending, told>>
  BY <1>1, <1>3, RaiseRemains, QuietRemains DEF told, outbox
<1>4. CASE o \in pending /\ pending' = pending \ {o} /\ ConflictKnown(c)
  <2>1. o \in conflicts
    BY <1>1, <1>2, <1>4 DEF LineInv, CallLine
  <2>2. UNCHANGED abandoned
    BY <1>4 DEF ConflictKnown, Tell
  <2>3. Grows
    BY <1>1, <1>4, <2>1, <2>2, OutboxGrows DEF Kept
  <2>4. FilesStep
    BY <1>1, <1>4 DEF FilesStep
  <2>5. Contract!FileStep
    <3>1. \A x \in Operation : Active(x)' = Active(x)
      BY <1>1, <1>4, <2>1 DEF Active
    <3>2. pending \cup conflicts \subseteq Operation /\ pending' \cup conflicts' \subseteq Operation
      BY DEF IInv, TypeOK
    <3>3. pending' \subseteq pending /\ conflicts' = conflicts
      BY <1>1, <1>4
    <3> QED BY <3>1, <3>2, <3>3, FilesMove
  <2> QED BY <1>1, <1>2, <1>4, <2>1, <2>3, <2>4, <2>5, ConflictKnownLine
<1> QED BY <1>2, <1>3, <1>4 DEF UnlinkPending

LEMMA AbandonLine ==
  ASSUME IInv, IInv', LineInv, NEW c \in Client, Abandon(c)
  PROVE  LineInv' /\ Contract!Next
<1>1. /\ UNCHANGED <<chain, requests, applied, abandoned>> /\ Proceed(c) /\ Raise(c)
      /\ pc[c] = "abandon" /\ Works(c) /\ Saving(c)
  BY DEF Abandon, Proceed, Works, Sending, told, IInv, CallInv
<1>2. PICK o \in Operation : o = current[c]
  BY <1>1, RequestOf
<1>3. Remains(c) /\ CallLine(c)'
  BY <1>1, RaiseRemains
<1>4. CASE UNCHANGED <<pending, conflicts, archive>>
  BY <1>1, <1>3, <1>4, QuietRemains DEF outbox
<1>5. CASE Active(o) /\ Remove(o) /\ archive' = archive \cup {o}
  <2>1. Stored(o) \/ ~Needed(o)
    BY <1>1, <1>2, RequestOf
  <2>2. \A d \in Client : base'[d] = base[d]
    BY <1>1 DEF Raise
  <2>3. Stored(o)' \/ ~Needed(o)'
    BY <1>1, <2>1, <2>2, StoreStays DEF Needed, requests
  <2>4. FilesStep /\ Contract!FileStep
    BY <1>5, <2>3, FileLeaves
  <2>5. Grows
    BY <1>1, <1>5, OutboxGrows, Moved
  <2>6. SessionLine(c)' /\ Rebased(c) /\ Moves(c)
    BY <1>3, <2>5, SessionRemains
  <2> QED BY <1>1, <1>3, <1>5, <2>4, <2>5, <2>6, StoreStays, ClientLine
<1> QED BY <1>2, <1>4, <1>5 DEF Abandon


(* Steps that move no client. *)
LEMMA SessionsStay ==
  ASSUME \A d \in Client : SameSession(d)
  PROVE  Contract!SessionStep
<1> DEFINE on == [d \in Client |-> IF sync[d] = "none" THEN NoRecording ELSE rec[d]]
<1> SUFFICES ASSUME NEW d \in Client PROVE Contract!Stays(d)
  BY DEF Contract!SessionStep
<1>1. on'[d] = on[d] /\ base'[d] = base[d] /\ sync'[d] = sync[d]
  BY DEF SameSession
<1> QED BY <1>1 DEF Contract!Stays

LEMMA ArchiveLine ==
  ASSUME IInv, IInv', LineInv, NEW c \in Client, NEW o \in Operation, Archive(c, o)
  PROVE  LineInv' /\ Contract!Next
<1>1. /\ UNCHANGED <<chain, requests, applied, call, session>>
      /\ Active(o) /\ Remove(o) /\ archive' = archive \cup {o} /\ abandoned' = abandoned \cup {o}
  BY DEF Archive
<1>2. \A d \in Client : SameClient(d) /\ SameSession(d)
  BY <1>1 DEF SameClient, SameCall, SameSession, call, session
<1>3. Grows
  BY <1>1, OutboxGrows, Moved
<1>4. FilesStep
  BY <1>1 DEF FilesStep, Remove
<1>5. Contract!StoreStep /\ \A x \in Operation : Stored(x)' = Stored(x)
  BY <1>1, StoreStays
<1>6. LineInv'
  <2>1. ASSUME NEW d \in Client
        PROVE  CallLine(d)' /\ SessionLine(d)'
    <3>1. PICK x : x = current[d]
      OBVIOUS
    <3>2. pc[d] = "enqueue" => x \in Operation /\ ~Stored(x)
      BY <3>1 DEF IInv, LineInv, CallInv, CallLine, Works
    <3>3. pc[d] = "enqueue" => ~Stored(x)'
      BY <1>5, <3>2
    <3>4. pc[d] = "enqueue" => ~Stored(current[d])'
      BY <1>2, <3>1, <3>3 DEF SameClient, SameCall, Stored, Store!Recorded
    <3>5. Needed(current[d])' => Needed(current[d])
      BY <1>1 DEF Needed, requests, call, session
    <3> QED BY <1>2, <1>3, <1>4, <3>4, <3>5, LineUndisturbed
  <2>2. abandoned' \subseteq archive'
    BY <1>1 DEF LineInv
  <2> QED BY <2>1, <2>2 DEF LineInv
<1>7. Contract!FileStep
  <2>1. \A x \in Operation : x # o => Active(x)' = Active(x)
    BY <1>1 DEF Active, Remove
  <2>2. pending \cup conflicts \subseteq Operation /\ pending' \cup conflicts' \subseteq Operation
    BY DEF IInv, TypeOK
  <2>3. pending' \subseteq pending /\ conflicts' \subseteq conflicts /\ o \in abandoned'
    BY <1>1 DEF Remove
  <2> QED BY <2>1, <2>2, <2>3, FilesMove
<1>8. Contract!WithdrawStep
  <2> DEFINE stored == {x \in Operation : Stored(x)}
             newest == [r \in Recording |-> head(r)]
             on     == [d \in Client |-> IF sync[d] = "none" THEN NoRecording ELSE rec[d]]
  <2>1. stored' = stored
    BY <1>5
  <2>2. newest' = newest
    BY <1>1, StoreStays
  <2>3. on' = on
    BY <1>1 DEF session
  <2>4. UNCHANGED <<target, parent, base, sync>>
    BY <1>1 DEF requests, session
  <2>5. o \in pending \cup conflicts /\ abandoned' = abandoned \cup {o}
    BY <1>1 DEF Active
  <2> QED BY <2>1, <2>2, <2>3, <2>4, <2>5
             DEF Contract!WithdrawStep, Contract!waiting, Contract!shared, Contract!session
<1>9. Contract!SessionStep
  BY <1>2, SessionsStay
<1> QED BY <1>1, <1>5, <1>6, <1>7, <1>8, <1>9, RequestsStay DEF Contract!Next


LEMMA RemoteSaveLine ==
  ASSUME IInv, IInv', LineInv, NEW r \in Recording, NEW o \in Operation, RemoteSave(r, o)
  PROVE  LineInv' /\ Contract!Next
<1>1. /\ Fresh(o) /\ chain[r] # <<>> /\ Store!Commit(r, o)
      /\ UNCHANGED <<outbox, audio, call, session, told, abandoned>>
  BY DEF RemoteSave, told
<1>2. PICK h : h = head(r)
  OBVIOUS
<1>3. h \in Operation /\ Stored(h)
  BY <1>1, <1>2, HeadIsLocated
<1>4. /\ target'[o] = r /\ parent'[o] = h
      /\ \A p \in Operation : p # o => target'[p] = target[p] /\ parent'[p] = parent[p]
  BY <1>2 DEF RemoteSave, IInv, TypeOK
<1>5. /\ \A x \in Operation : Stored(x) => Stored(x)'
      /\ \A x \in Operation : Stored(x)' => Stored(x) \/ x = o
      /\ Located'
  BY <1>1, <1>4, Committed, NewHead DEF Fresh
<1>6. Grows
  BY <1>1, <1>4, <1>5 DEF Grows, outbox, Kept, Fresh
<1>7. FilesStep /\ Contract!FileStep
  BY <1>1, FilesStay DEF outbox
<1>8. \A d \in Client : SameClient(d) /\ SameSession(d)
  BY <1>1 DEF SameClient, SameCall, SameSession, call, session
<1>9. LineInv'
  <2>1. ASSUME NEW d \in Client
        PROVE  CallLine(d)' /\ SessionLine(d)'
    <3>1. PICK x : x = current[d]
      OBVIOUS
    <3>2. Works(d) => x \in Operation /\ x # o
      BY <1>1, <3>1 DEF IInv, CallInv
    <3>3. pc[d] = "enqueue" => ~Stored(x)
      BY <3>1 DEF LineInv, CallLine
    <3>4. pc[d] = "enqueue" => ~Stored(x)'
      BY <1>5, <3>2, <3>3 DEF Works
    <3>5. current'[d] = x
      BY <1>8, <3>1 DEF SameClient, SameCall
    <3>6. pc[d] = "enqueue" => ~Stored(current[d])'
      BY <3>4, <3>5 DEF Stored, Store!Recorded
    <3>7. Needed(x)' => Needed(x) \/ x = h
      BY <1>1, <1>4 DEF Needed, session
    <3>8. Owns(d) /\ Needed(current[d])' => Needed(current[d]) \/ Stored(current[d])
      <4>1. Needed(current[d])' => Needed(x)'
        BY <3>5 DEF Needed
      <4>2. CASE x = h
        BY <1>3, <3>1, <4>2
      <4>3. CASE x # h
        BY <3>1, <3>7, <4>1, <4>3
      <4> QED BY <4>2, <4>3
    <3> QED BY <1>6, <1>7, <1>8, <3>6, <3>8, LineUndisturbed
  <2> QED BY <1>1, <2>1 DEF LineInv, outbox
<1>10. Contract!StoreStep
  BY <1>1, <1>2, <1>4, StoreCommits
<1>11. Contract!RequestStep
  BY <1>1, <1>2, <1>4, RequestMade
<1> QED BY <1>1, <1>7, <1>8, <1>9, <1>10, <1>11, SessionsStay, NothingWithdrawn DEF Contract!Next

LEMMA NextLine ==
  ASSUME IInv, IInv', LineInv, Contract!Sound, [Next]_vars
  PROVE  LineInv' /\ [Contract!Next]_(Contract!vars)
<1>1. ASSUME NEW c \in Client, Begin(c) \/ Proceed(c) \/ Crash(c)
      PROVE  LineInv' /\ Contract!Next
  BY <1>1, BeginLine, BeginLoadLine, BeginQueryLine, LoadLine, LeaveLine, BeginCreateLine,
     BeginRequestLine, EnqueueLine, CheckLine, ApplyLine, MarkAppliedLine, ReadEnvelopeLine,
     WriteConflictLine, UnlinkPendingLine, AbandonLine, ArchiveLine DEF Begin, Proceed
<1>2. ASSUME NEW r \in Recording, NEW o \in Operation, RemoteSave(r, o)
      PROVE  LineInv' /\ Contract!Next
  BY <1>2, RemoteSaveLine
<1>3. CASE UNCHANGED vars
  <2> DEFINE stored == {x \in Operation : Stored(x)}
             newest == [r \in Recording |-> head(r)]
             on     == [d \in Client |-> IF sync[d] = "none" THEN NoRecording ELSE rec[d]]
  <2>1. UNCHANGED <<chain, target, parent, pending, conflicts, applied, archive, abandoned,
                    pc, task, current, rec, base, sync>>
    BY <1>3 DEF vars, requests, outbox, call, session, told
  <2>2. stored' = stored /\ newest' = newest /\ on' = on
    BY <2>1 DEF Stored, Store!Recorded, head, Store!Tip
  <2>3. UNCHANGED (Contract!vars)
    BY <2>1, <2>2 DEF Contract!vars, Contract!shared, Contract!session
  <2>4. LineInv'
    BY <2>1 DEF LineInv, CallLine, SessionLine, Owns, Works, Saving, Needed, Kept,
                Stored, Store!Recorded
  <2> QED BY <2>3, <2>4
<1> QED BY <1>1, <1>2, <1>3 DEF Next


-----------------------------------------------------------------------------
LEMMA InitContract == Init => Contract!Init
<1> SUFFICES ASSUME Init PROVE Contract!Init
  OBVIOUS
<1>1. \A o \in Operation : ~Stored(o)
  BY DEF Init, Store!Init, Stored, Store!Recorded
<1>2. \A r \in Recording : head(r) = NoOperation
  BY DEF Init, Store!Init, head, Store!Tip
<1>3. Contract!TypeOK
  BY <1>2 DEF Contract!TypeOK, Init
<1>4. Contract!Sound
  <2>1. \A o \in Operation : /\ ~Contract!Requested(o) /\ parent[o] = NoOperation
                             /\ ~Contract!Needed(o)
    BY NoOperationAssumption DEF Init, Contract!Requested, Contract!Needed
  <2>2. \A c \in Client : sync[c] = "none" /\ base[c] = NoOperation
    BY DEF Init
  <2> QED BY <1>1, <1>2, <2>1, <2>2, NoOperationAssumption
         DEF Contract!Sound, Contract!waiting, Init
<1> QED BY <1>3, <1>4 DEF Contract!Init, Init

(* The contract is enough for its lines of requests to hold together. *)
LEMMA SoundStep ==
  ASSUME IInv, IInv', Contract!Sound, Contract!Next
  PROVE  Contract!Sound'
<1>1. PICK S : S = {o \in Operation : Stored(o)}
  OBVIOUS
<1>2. PICK S2 : S2 = {o \in Operation : Stored(o)}'
  OBVIOUS
<1>3. PICK N : N = [r \in Recording |-> head(r)]
  OBVIOUS
<1>4. PICK N2 : N2 = [r \in Recording |-> head(r)]'
  OBVIOUS
<1>5. PICK F : F = [c \in Client |-> IF sync[c] = "none" THEN NoRecording ELSE rec[c]]
  OBVIOUS
<1>6. PICK F2 : F2 = [c \in Client |-> IF sync[c] = "none" THEN NoRecording ELSE rec[c]]'
  OBVIOUS
<1>7. PICK W : W = pending \cup conflicts
  OBVIOUS
<1>8. PICK W2 : W2 = pending' \cup conflicts'
  OBVIOUS
<1> DEFINE Need(o)  == (\E c \in Client : base[c] = o) \/ (\E q \in Operation : parent[q] = o)
           Need2(o) == (\E c \in Client : base'[c] = o) \/ (\E q \in Operation : parent'[q] = o)
           Made(o)  == target[o] # NoRecording
           Made2(o) == target'[o] # NoRecording
<1>10. /\ \A o \in Operation :
            /\ Made(o) \/ (parent[o] = NoOperation /\ o \notin S \cup W \cup abandoned)
            /\ Need(o) => o \in S \cup W \cup abandoned
            /\ parent[o] \in Operation => target[parent[o]] = target[o]
            /\ o \in S => parent[o] \in S \cup {NoOperation}
       /\ \A r \in Recording : N[r] # NoOperation => N[r] \in S /\ target[N[r]] = r
       /\ \A c \in Client :
            /\ sync[c] = "none" => F[c] = NoRecording /\ base[c] = NoOperation
            /\ sync[c] # "none" => F[c] \in Recording /\ base[c] \in Operation
                                   /\ target[base[c]] = F[c]
            /\ sync[c] = "synced" => base[c] \in S
  BY <1>1, <1>3, <1>5, <1>7
     DEF Contract!Sound, Contract!Needed, Contract!Requested, Contract!Safe, Contract!waiting
<1>11. \/ S2 = S /\ N2 = N
       \/ \E o \in Operation \ S :
            /\ target'[o] \in Recording /\ parent'[o] = N[target'[o]]
            /\ S2 = S \cup {o} /\ N2 = [N EXCEPT ![target'[o]] = o]
  BY <1>1, <1>2, <1>3, <1>4 DEF Contract!Next, Contract!StoreStep
<1>12. \A o \in Operation :
         \/ target'[o] = target[o] /\ parent'[o] = parent[o]
         \/ /\ ~Made(o) /\ target'[o] \in Recording
            /\ \/ parent'[o] = NoOperation
               \/ parent'[o] = N[target'[o]]
               \/ \E c \in Client : F[c] = target'[o] /\ parent'[o] = base[c]
  BY <1>3, <1>5 DEF Contract!Next, Contract!RequestStep, Contract!Requested
<1>13. /\ \A o \in W2 \ W : Made2(o)
       /\ \A o \in W \ W2 : o \in S2 \cup abandoned' \/ ~Need2(o)
  BY <1>1, <1>2, <1>7, <1>8
     DEF Contract!Next, Contract!FileStep, Contract!Needed, Contract!Requested, Contract!waiting
<1>14. /\ abandoned' \subseteq abandoned \cup W
       /\ \A o \in abandoned \ abandoned' : o \in S2 \/ ~Need2(o)
  BY <1>2, <1>7 DEF Contract!Next, Contract!WithdrawStep, Contract!Needed, Contract!waiting
<1>15. \A c \in Client :
         \/ F2[c] = F[c] /\ base'[c] = base[c] /\ sync'[c] = sync[c]
         \/ \E o \in Operation :
              /\ target'[o] \in Recording /\ F2[c] = target'[o] /\ base'[c] = o
              /\ \/ sync'[c] = "synced" /\ o \in S2
                 \/ sync'[c] = "pending" /\ o \in S2 \cup W2 \cup abandoned'
         \/ sync[c] # "none" /\ sync'[c] = "conflict" /\ F2[c] = F[c] /\ base'[c] = base[c]
         \/ /\ F2[c] \in Recording /\ base'[c] = N[F2[c]] /\ base'[c] \in S
            /\ sync'[c] = "synced"
         \/ F2[c] = NoRecording /\ base'[c] = NoOperation /\ sync'[c] = "none"
  BY <1>1, <1>2, <1>3, <1>5, <1>6, <1>7, <1>8
     DEF Contract!Next, Contract!SessionStep, Contract!Stays, Contract!Advances, Contract!Stops,
         Contract!Loads, Contract!Leaves, Contract!Safe, Contract!waiting
<1>16. /\ target \in [Operation -> Recording \cup {NoRecording}]
       /\ parent \in [Operation -> Operation \cup {NoOperation}]
       /\ parent' \in [Operation -> Operation \cup {NoOperation}]
       /\ base \in [Client -> Operation \cup {NoOperation}]
       /\ S \subseteq Operation /\ W \subseteq Operation /\ abandoned \subseteq Operation
       /\ N \in [Recording -> Operation \cup {NoOperation}]
  BY <1>1, <1>3, <1>7, ChainEntry DEF IInv, TypeOK, head, Store!Tip
<1>20. S \subseteq S2 /\ S2 \subseteq Operation
  BY <1>11, <1>16
<1>21. \A o \in Operation : Made(o) => Made2(o) /\ target'[o] = target[o] /\ parent'[o] = parent[o]
  BY <1>12
<1>22. ASSUME NEW o \in Operation, ~Made2(o)
       PROVE  parent'[o] = NoOperation /\ o \notin S2 \cup W2 \cup abandoned'
  <2>1. ~Made(o) /\ parent'[o] = parent[o]
    BY <1>12, <1>21, <1>22, NoRecordingAssumption
  <2>2. parent[o] = NoOperation /\ o \notin S \cup W \cup abandoned
    BY <1>10, <2>1
  <2>3. o \notin S2
    BY <1>11, <1>22, <2>2, NoRecordingAssumption
  <2> QED BY <1>13, <1>14, <1>22, <2>1, <2>2, <2>3
<1>23. ASSUME NEW o \in Operation, Need2(o)
       PROVE  o \in S2 \cup W2 \cup abandoned'
  <2>1. CASE o \in S \cup W \cup abandoned
    BY <1>13, <1>14, <1>20, <1>23, <2>1
  <2>2. CASE o \notin S \cup W \cup abandoned
    <3>1. ~Need(o)
      BY <1>10, <2>2
    <3>2. ASSUME NEW c \in Client, base'[c] = o
          PROVE  o \in S2 \cup W2 \cup abandoned'
      BY <1>15, <1>20, <3>1, <3>2, NoOperationAssumption
    <3>3. ASSUME NEW q \in Operation, parent'[q] = o
          PROVE  FALSE
      <4>1. target'[q] \in Recording /\ parent'[q] = N[target'[q]]
        BY <1>12, <3>1, <3>3, NoOperationAssumption
      <4> QED BY <1>10, <2>2, <3>3, <4>1, NoOperationAssumption
    <3> QED BY <1>23, <3>2, <3>3
  <2> QED BY <2>1, <2>2
<1>24. ASSUME NEW o \in Operation, parent'[o] \in Operation
       PROVE  target'[parent'[o]] = target'[o]
  <2>1. CASE target'[o] = target[o] /\ parent'[o] = parent[o]
    <3>1. target[parent[o]] = target[o] /\ Made(o)
      BY <1>10, <1>24, <2>1, NoOperationAssumption
    <3> QED BY <1>21, <1>24, <2>1, <3>1
  <2>2. CASE target'[o] \in Recording /\ target[parent'[o]] = target'[o]
    BY <1>21, <1>24, <2>2, NoRecordingAssumption
  <2>3. CASE target'[o] \in Recording /\ parent'[o] = N[target'[o]]
    BY <1>10, <1>24, <2>2, <2>3, NoOperationAssumption
  <2>4. ASSUME NEW c \in Client, target'[o] \in Recording, F[c] = target'[o], parent'[o] = base[c]
        PROVE  target'[parent'[o]] = target'[o]
    BY <1>10, <1>24, <2>2, <2>4, NoRecordingAssumption
  <2> QED BY <1>12, <1>24, <2>1, <2>3, <2>4, NoOperationAssumption
<1>25. ASSUME NEW o \in Operation, o \in S2
       PROVE  parent'[o] \in S2 \cup {NoOperation}
  <2>1. CASE o \in S
    BY <1>10, <1>20, <1>21, <2>1
  <2>2. CASE o \notin S
    BY <1>10, <1>11, <1>20, <1>25, <2>2
  <2> QED BY <2>1, <2>2
<1>26. ASSUME NEW r \in Recording, N2[r] # NoOperation
       PROVE  N2[r] \in S2 /\ target'[N2[r]] = r
  <2>1. CASE N2[r] = N[r]
    BY <1>10, <1>16, <1>20, <1>21, <1>26, <2>1, NoRecordingAssumption
  <2>2. CASE N2[r] # N[r]
    BY <1>11, <1>16, <2>2
  <2> QED BY <2>1, <2>2
<1>27. ASSUME NEW c \in Client
       PROVE  /\ sync'[c] = "none" => F2[c] = NoRecording /\ base'[c] = NoOperation
              /\ sync'[c] # "none" => F2[c] \in Recording /\ base'[c] \in Operation
                                      /\ target'[base'[c]] = F2[c]
              /\ sync'[c] = "synced" => base'[c] \in S2
  <2>1. CASE F2[c] = F[c] /\ base'[c] = base[c] /\ (sync[c] # "none" <=> sync'[c] # "none")
             /\ (sync'[c] = "synced" => sync[c] = "synced")
    BY <1>10, <1>20, <1>21, <2>1, NoRecordingAssumption
  <2>2. CASE /\ F2[c] \in Recording /\ base'[c] = N[F2[c]] /\ base'[c] \in S
             /\ sync'[c] = "synced"
    BY <1>10, <1>16, <1>20, <1>21, <2>2, NoRecordingAssumption, NoOperationAssumption
  <2> QED BY <1>15, <2>1, <2>2
<1> QED
  BY <1>2, <1>4, <1>6, <1>8, <1>22, <1>23, <1>24, <1>25, <1>26, <1>27
     DEF Contract!Sound, Contract!Needed, Contract!Requested, Contract!Safe, Contract!waiting

LEMMA ContractStep ==
  ASSUME IInv, IInv', LineInv, Contract!Sound, [Next]_vars
  PROVE  LineInv' /\ Contract!Sound' /\ [Contract!Next]_(Contract!vars)
<1>1. LineInv' /\ [Contract!Next]_(Contract!vars)
  BY NextLine
<1>2. CASE Contract!Next
  BY <1>1, <1>2, SoundStep
<1>3. CASE UNCHANGED (Contract!vars)
  BY <1>1, <1>3
     DEF Contract!vars, Contract!shared, Contract!session, Contract!Sound, Contract!Needed,
         Contract!Requested, Contract!Safe, Contract!waiting
<1> QED BY <1>1, <1>2, <1>3

(* Sessions move only along their requests or to the head, never from a save  *)
(* that still waits, and everything that is built on stays, in every run.     *)
(* (RecordingEditSession, RecordingHandler, RecoveryHandler)                  *)
THEOREM SessionsKeepContract == Spec => KeepsContract
<1>1. Init => Contract!Init /\ Contract!Sound /\ LineInv
  BY InitContract, InitLine DEF Contract!Init
<1>2. /\ IInv /\ IInv' /\ LineInv /\ Contract!Sound /\ [Next]_vars
      => LineInv' /\ (Contract!Sound)' /\ [Contract!Next]_(Contract!vars)
  BY ContractStep
<1> QED BY <1>1, <1>2, RecoveryInvariant, PTL DEF Spec, KeepsContract, Contract!Spec

(* No session and no request is ever without what it builds on: that revision *)
(* is committed, on file, or was archived on request, and what is committed   *)
(* has a committed parent.  (RecordingEditSession, FileRecoveryOutbox)        *)
THEOREM NoLinkIsLost == Spec => []Contract!Sound
<1>1. Init => Contract!Sound /\ LineInv
  BY InitContract, InitLine DEF Contract!Init
<1>2. IInv /\ IInv' /\ LineInv /\ Contract!Sound /\ [Next]_vars => LineInv' /\ (Contract!Sound)'
  BY ContractStep
<1> QED BY <1>1, <1>2, RecoveryInvariant, PTL DEF Spec

=============================================================================
