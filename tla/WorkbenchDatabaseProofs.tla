------------------------ MODULE WorkbenchDatabaseProofs ------------------------
(***************************************************************************)
(* Theorems about WorkbenchDatabase, for any programs, releases, requests, *)
(* recordings and concurrent calls.  First the inductive invariant of      *)
(* RecordingStore and what follows from it; then that of the publication   *)
(* of libraries: what a running program requires is published, and only    *)
(* other content refuses it; at last that the composition behaves as       *)
(* RecordingStore, so that its theorems hold of the programs, too.         *)
(***************************************************************************)
EXTENDS WorkbenchDatabase, SequenceTheorems, TLAPS

(* The unique indexes hold of the committed rows, and of the rows of the      *)
(* transactions in progress, taken together.                                  *)

UniqueKeys ==
  /\ \A r, s \in revisions : r # s => ~Collides(r, s)
  /\ \A c \in Call : \A r \in added[c] : \A s \in revisions : ~Collides(r, s)
  /\ \A c, d \in Call : c # d => \A r \in added[c] : \A s \in added[d] : ~Collides(r, s)

(* A committed row is what its request asked for. *)
RowsAsRequested ==
  \A r \in revisions : /\ r.recording = request[r.id].recording
                       /\ r.parent = request[r.id].parent

(* What a call has established by the time it reaches a statement. *)
CreateProgress(c) ==
  /\ isCreate(c)
  /\ pc[c] \in {"insert", "advance", "commit"} =>
       /\ number[c] = 1
       /\ recording(c) \notin recordings
       /\ ~RecordingKeyHeld(c)

SaveProgress(c) ==
  /\ ~isCreate(c)
  /\ pc[c] \in {"insert", "advance", "commit"} =>
       /\ recording(c) \in recordings
       /\ \E p \in RowsOf(recording(c)) : p.id = expected(c) /\ number[c] = p.number + 1
  /\ pc[c] = "commit" => head[recording(c)] = expected(c)

CallProgress ==
  \A c \in Call :
    /\ added[c] = IF pc[c] \in {"advance", "commit"} THEN {NewRow(c)} ELSE {}
    /\ outcome[c] # "none" => pc[c] = "done"
    /\ pc[c] \in {"lookup", "addrecording"} => CreateProgress(c)
    /\ pc[c] = "read" => SaveProgress(c)
    /\ pc[c] \in {"insert", "advance", "commit"} => CreateProgress(c) \/ SaveProgress(c)
    /\ pc[c] = "commit" => ~HeadLocked(c)

IInv ==
  /\ TypeOK
  /\ NumberedChain
  /\ UniqueKeys
  /\ RowsAsRequested
  /\ CallProgress
  /\ OkIsStored
-----------------------------------------------------------------------------
LEMMA InitIInv == Init => IInv
BY NoRevisionAssumption
   DEF Init, IInv, TypeOK, NumberedChain, UniqueKeys, RowsAsRequested, CallProgress,
       OkIsStored, Requests, RowsOf, Running, Outcome, HeadLocked

(* A call that changes no table and adds no row leaves the others' progress.  *)
LEMMA QuietStep ==
  ASSUME IInv, NEW c \in Call, UNCHANGED <<request, tables>>,
         pc' = [pc EXCEPT ![c] = pc'[c]], pc'[c] \in Running \cup {"idle", "done"},
         rev' = [rev EXCEPT ![c] = rev'[c]], rev'[c] \in Revision \cup {NoRevision},
         pc'[c] # "idle" => rev'[c] \in Revision,
         number' = [number EXCEPT ![c] = number'[c]], number'[c] \in Nat,
         added' = [added EXCEPT ![c] = {}],
         outcome' = [outcome EXCEPT ![c] = outcome'[c]], outcome'[c] \in Outcome,
         outcome'[c] # "none" => pc'[c] = "done",
         pc'[c] \notin {"insert", "advance", "commit"},
         pc'[c] = "lookup" \/ pc'[c] = "addrecording" => isCreate(c)',
         pc'[c] = "read" => ~isCreate(c)',
         outcome'[c] = "ok" =>
           \E r \in revisions : r.id = rev'[c]
  PROVE  IInv'
<1>1. TypeOK'
  BY DEF IInv, TypeOK, tables
<1>2. NumberedChain'
  BY DEF IInv, NumberedChain, RowsOf, tables
<1>3. UniqueKeys'
  BY DEF IInv, TypeOK, UniqueKeys, Collides, SameId, SameParent, SameNumber, tables
<1>4. RowsAsRequested'
  BY DEF IInv, RowsAsRequested, tables
<1>5. CallProgress'
  <2> SUFFICES ASSUME NEW d \in Call
               PROVE  /\ added'[d] = IF pc'[d] \in {"advance", "commit"} THEN {NewRow(d)'} ELSE {}
                      /\ outcome'[d] # "none" => pc'[d] = "done"
                      /\ pc'[d] \in {"lookup", "addrecording"} => CreateProgress(d)'
                      /\ pc'[d] = "read" => SaveProgress(d)'
                      /\ pc'[d] \in {"insert", "advance", "commit"}
                           => CreateProgress(d)' \/ SaveProgress(d)'
                      /\ pc'[d] = "commit" => ~HeadLocked(d)'
    BY DEF CallProgress
  <2>1. CASE d = c
    BY <2>1 DEF IInv, TypeOK, CreateProgress, SaveProgress
  <2>2. CASE d # c
    <3>1. \A e \in Call \ {c} :
            /\ pc'[e] = pc[e] /\ rev'[e] = rev[e] /\ number'[e] = number[e]
            /\ added'[e] = added[e] /\ outcome'[e] = outcome[e]
      BY DEF IInv, TypeOK
    <3>2. \A e \in Call \ {c} :
            /\ NewRow(e)' = NewRow(e) /\ recording(e)' = recording(e)
            /\ expected(e)' = expected(e) /\ (isCreate(e)' <=> isCreate(e))
      BY <3>1 DEF NewRow, recording, expected, isCreate, tables
    <3>3. RecordingKeyHeld(d)' => RecordingKeyHeld(d)
      <4> SUFFICES ASSUME NEW e \in Call \ {d}, pc'[e] \in {"insert", "advance", "commit"},
                          isCreate(e)', recording(e)' = recording(d)'
                   PROVE  RecordingKeyHeld(d)
        BY DEF RecordingKeyHeld
      <4> e # c
        OBVIOUS
      <4> QED BY <2>2, <3>1, <3>2 DEF RecordingKeyHeld
    <3>4. HeadLocked(d)' => HeadLocked(d)
      <4> SUFFICES ASSUME NEW e \in Call \ {d}, pc'[e] = "commit",
                          recording(e)' = recording(d)'
                   PROVE  HeadLocked(d)
        BY DEF HeadLocked
      <4> e # c
        OBVIOUS
      <4> QED BY <2>2, <3>1, <3>2 DEF HeadLocked
    <3>5. CreateProgress(d) => CreateProgress(d)'
      BY <2>2, <3>1, <3>2, <3>3 DEF CreateProgress, tables
    <3>6. SaveProgress(d) => SaveProgress(d)'
      BY <2>2, <3>1, <3>2 DEF SaveProgress, RowsOf, tables
    <3> QED
      BY <2>2, <3>1, <3>2, <3>4, <3>5, <3>6 DEF IInv, CallProgress
  <2> QED BY <2>1, <2>2
<1>6. OkIsStored'
  BY DEF IInv, OkIsStored, RowsAsRequested, TypeOK, recording, expected, tables
<1> QED
  BY <1>1, <1>2, <1>3, <1>4, <1>5, <1>6 DEF IInv

LEMMA RollbackStep ==
  ASSUME IInv, NEW c \in Call, NEW result \in Outcome, pc[c] \in Running,
         Rollback(c, result), result = "ok" => Stored(rev[c])
  PROVE  IInv'
<1>1. /\ pc'[c] = "done" /\ outcome'[c] = result /\ rev'[c] = rev[c] /\ number'[c] = number[c]
      /\ rev[c] \in Revision /\ number[c] \in Nat
  BY DEF Rollback, Goto, IInv, TypeOK, Running
<1>2. /\ UNCHANGED <<request, tables>>
      /\ pc' = [pc EXCEPT ![c] = pc'[c]] /\ outcome' = [outcome EXCEPT ![c] = outcome'[c]]
      /\ added' = [added EXCEPT ![c] = {}]
  BY <1>1 DEF Rollback, Goto
<1>3. rev' = [rev EXCEPT ![c] = rev'[c]] /\ number' = [number EXCEPT ![c] = number'[c]]
  BY DEF Rollback, IInv, TypeOK
<1>4. outcome'[c] = "ok" => \E r \in revisions : r.id = rev'[c]
  BY <1>1 DEF Stored
<1> QED
  BY <1>1, <1>2, <1>3, <1>4, QuietStep

LEMMA StartStep ==
  ASSUME IInv, NEW c \in Call, Start(c)
  PROVE  IInv'
<1>1. /\ UNCHANGED <<request, tables, number, added, outcome>>
      /\ pc[c] = "idle" /\ pc' = [pc EXCEPT ![c] = "check"]
  BY DEF Start, Goto
<1>2. PICK id \in Revision : rev' = [rev EXCEPT ![c] = id]
  BY DEF Start
<1>3. pc'[c] = "check" /\ rev'[c] = id /\ outcome[c] = "none" /\ added[c] = {}
  BY <1>1, <1>2 DEF IInv, TypeOK, CallProgress
<1>4. added' = [added EXCEPT ![c] = {}] /\ number' = [number EXCEPT ![c] = number'[c]]
      /\ outcome' = [outcome EXCEPT ![c] = outcome'[c]]
      /\ number'[c] \in Nat /\ outcome'[c] = "none"
  BY <1>1, <1>3 DEF IInv, TypeOK
<1> QED
  BY <1>1, <1>2, <1>3, <1>4, QuietStep DEF Running, Outcome

(* A statement that only moves on to another query. *)
LEMMA QueryStep ==
  ASSUME IInv, NEW c \in Call, NEW label \in {"lookup", "addrecording", "read"},
         pc[c] \in {"check", "lookup"}, Goto(c, label),
         label \in {"lookup", "addrecording"} <=> isCreate(c),
         UNCHANGED <<request, tables, rev, number, added, outcome>>
  PROVE  IInv'
<1>1. pc'[c] = label /\ outcome[c] = "none" /\ added[c] = {} /\ rev[c] \in Revision
  BY DEF Goto, IInv, TypeOK, CallProgress
<1>2. (isCreate(c)' <=> isCreate(c))
  BY DEF isCreate, expected
<1>3. /\ pc' = [pc EXCEPT ![c] = pc'[c]]
      /\ rev' = [rev EXCEPT ![c] = rev'[c]] /\ number' = [number EXCEPT ![c] = number'[c]]
      /\ added' = [added EXCEPT ![c] = {}] /\ outcome' = [outcome EXCEPT ![c] = outcome'[c]]
      /\ number'[c] \in Nat /\ outcome'[c] = "none" /\ rev'[c] \in Revision
  BY <1>1 DEF Goto, IInv, TypeOK
<1>4. /\ pc'[c] \in Running \cup {"idle", "done"} /\ outcome'[c] \in Outcome
      /\ pc'[c] \notin {"insert", "advance", "commit"}
      /\ pc'[c] = "lookup" \/ pc'[c] = "addrecording" => isCreate(c)'
      /\ pc'[c] = "read" => ~isCreate(c)'
  BY <1>1, <1>2, <1>3 DEF Running, Outcome
<1>5. outcome'[c] # "none" => pc'[c] = "done"
  BY <1>3
<1>6. UNCHANGED <<request, tables>> /\ rev'[c] \in Revision \cup {NoRevision}
  BY <1>3
<1>7. outcome'[c] # "ok"
  BY <1>3
<1> QED
  BY <1>3, <1>4, <1>5, <1>6, <1>7, QuietStep

LEMMA ReturnStep ==
  ASSUME IInv, NEW c \in Call, Return(c)
  PROVE  IInv'
<1>1. /\ pc'[c] = "idle" /\ rev'[c] = NoRevision /\ number'[c] = 0 /\ outcome'[c] = "none"
      /\ added[c] = {}
  BY DEF Return, Goto, IInv, TypeOK, CallProgress
<1>2. /\ pc' = [pc EXCEPT ![c] = pc'[c]]
      /\ rev' = [rev EXCEPT ![c] = rev'[c]] /\ number' = [number EXCEPT ![c] = number'[c]]
      /\ added' = [added EXCEPT ![c] = {}] /\ outcome' = [outcome EXCEPT ![c] = outcome'[c]]
      /\ UNCHANGED <<request, tables>>
  BY <1>1 DEF Return, Goto, IInv, TypeOK
<1>3. /\ pc'[c] \in Running \cup {"idle", "done"} /\ rev'[c] \in Revision \cup {NoRevision}
      /\ number'[c] \in Nat /\ outcome'[c] \in Outcome
      /\ pc'[c] \notin {"insert", "advance", "commit"}
      /\ outcome'[c] # "ok" /\ outcome'[c] = "none" /\ pc'[c] = "idle"
  BY <1>1 DEF Outcome
<1> QED
  BY <1>2, <1>3, QuietStep

-----------------------------------------------------------------------------
(* A call gets past its checks: its number is computed, nothing is inserted.  *)
LEMMA EnterInsert ==
  ASSUME IInv, NEW c \in Call, NEW n \in Nat, pc[c] \in {"addrecording", "read"},
         Goto(c, "insert"), number' = [number EXCEPT ![c] = n],
         UNCHANGED <<request, tables, rev, added, outcome>>,
         \/ /\ isCreate(c) /\ n = 1 /\ recording(c) \notin recordings
            /\ ~RecordingKeyHeld(c)
         \/ /\ ~isCreate(c) /\ recording(c) \in recordings
            /\ \E p \in RowsOf(recording(c)) : p.id = expected(c) /\ n = p.number + 1
  PROVE  IInv'
<1>1. TypeOK'
  BY DEF IInv, TypeOK, Goto, Running, tables
<1>2. NumberedChain' /\ UniqueKeys' /\ RowsAsRequested' /\ OkIsStored'
  <2>1. NumberedChain'
    BY DEF IInv, NumberedChain, RowsOf, tables
  <2>2. UniqueKeys'
    BY DEF IInv, UniqueKeys, Collides, SameId, SameParent, SameNumber, tables
  <2>3. RowsAsRequested'
    BY DEF IInv, RowsAsRequested, tables
  <2>4. OkIsStored'
    BY DEF IInv, OkIsStored, recording, expected, tables
  <2> QED BY <2>1, <2>2, <2>3, <2>4
<1>3. pc'[c] = "insert" /\ number'[c] = n /\ added[c] = {} /\ outcome[c] = "none"
  BY DEF Goto, IInv, TypeOK, CallProgress
<1>4. \A e \in Call \ {c} : pc'[e] = pc[e] /\ number'[e] = number[e]
  BY DEF Goto, IInv, TypeOK
<1>5. \A e \in Call : /\ recording(e)' = recording(e) /\ expected(e)' = expected(e)
                      /\ (isCreate(e)' <=> isCreate(e))
  BY DEF recording, expected, isCreate
<1>6. \A e \in Call \ {c} : NewRow(e)' = NewRow(e)
  BY <1>4, <1>5 DEF NewRow
<1>7. \A rec : RowsOf(rec)' = RowsOf(rec)
  BY DEF RowsOf, tables
<1>8. RecordingKeyHeld(c)' => RecordingKeyHeld(c)
  BY <1>4, <1>5 DEF RecordingKeyHeld
<1>9. CreateProgress(c)' \/ SaveProgress(c)'
  BY <1>3, <1>5, <1>7, <1>8 DEF CreateProgress, SaveProgress, tables
<1>10. ASSUME NEW d \in Call \ {c}
       PROVE  /\ CreateProgress(d) => CreateProgress(d)'
              /\ SaveProgress(d) => SaveProgress(d)'
              /\ HeadLocked(d)' => HeadLocked(d)
  <2>1. SaveProgress(d) => SaveProgress(d)'
    BY <1>4, <1>5, <1>7 DEF SaveProgress, tables
  <2>2. HeadLocked(d)' => HeadLocked(d)
    <3> SUFFICES ASSUME NEW e \in Call \ {d}, pc'[e] = "commit", recording(e)' = recording(d)'
                 PROVE  HeadLocked(d)
      BY DEF HeadLocked
    <3> e # c
      BY <1>3
    <3> QED BY <1>4, <1>5 DEF HeadLocked
  <2>3. ASSUME CreateProgress(d) PROVE CreateProgress(d)'
    <3> SUFFICES ASSUME pc[d] \in {"insert", "advance", "commit"},
                        NEW e \in Call \ {d}, pc'[e] \in {"insert", "advance", "commit"},
                        isCreate(e)', recording(e)' = recording(d)'
                 PROVE  FALSE
      BY <1>4, <1>5, <2>3 DEF CreateProgress, RecordingKeyHeld, tables
    <3>1. CASE e = c
      BY <3>1, <1>4, <1>5, <2>3 DEF CreateProgress, RecordingKeyHeld
    <3>2. CASE e # c
      BY <3>2, <1>4, <1>5, <2>3 DEF CreateProgress, RecordingKeyHeld
    <3> QED BY <3>1, <3>2
  <2> QED BY <2>1, <2>2, <2>3
<1>11. CallProgress'
  <2> SUFFICES ASSUME NEW d \in Call
               PROVE  /\ added'[d] = IF pc'[d] \in {"advance", "commit"} THEN {NewRow(d)'} ELSE {}
                      /\ outcome'[d] # "none" => pc'[d] = "done"
                      /\ pc'[d] \in {"lookup", "addrecording"} => CreateProgress(d)'
                      /\ pc'[d] = "read" => SaveProgress(d)'
                      /\ pc'[d] \in {"insert", "advance", "commit"}
                           => CreateProgress(d)' \/ SaveProgress(d)'
                      /\ pc'[d] = "commit" => ~HeadLocked(d)'
    BY DEF CallProgress
  <2>1. CASE d = c
    BY <2>1, <1>3, <1>9
  <2>2. CASE d # c
    BY <2>2, <1>4, <1>6, <1>10 DEF IInv, CallProgress
  <2> QED BY <2>1, <2>2
<1> QED BY <1>1, <1>2, <1>11 DEF IInv

(* The row a call is about to insert satisfies the CHECK constraints. *)
LEMMA NewRowType ==
  ASSUME IInv, NEW c \in Call, pc[c] = "insert"
  PROVE  NewRow(c) \in Row
<1>1. /\ rev[c] \in Revision /\ request[rev[c]] \in Request
      /\ recording(c) \in Recording /\ expected(c) \in Revision \cup {NoRevision}
  BY DEF IInv, TypeOK, Request, recording, expected
<1>2. CASE CreateProgress(c)
  BY <1>1, <1>2 DEF CreateProgress, isCreate, NewRow, Row
<1>3. CASE SaveProgress(c)
  <2>1. PICK q \in RowsOf(recording(c)) : number[c] = q.number + 1
    BY <1>3 DEF SaveProgress
  <2>2. q.number \in Nat \ {0}
    BY DEF RowsOf, IInv, TypeOK, Row
  <2>3. number[c] \in Nat \ {0} /\ number[c] # 1
    BY <2>1, <2>2
  <2> QED BY <1>1, <1>3, <2>3 DEF SaveProgress, isCreate, NewRow, Row
<1> QED BY <1>2, <1>3 DEF IInv, CallProgress

LEMMA InsertStep ==
  ASSUME IInv, NEW c \in Call, pc[c] = "insert",
         \A d \in Call \ {c} : \A r \in added[d] : ~Collides(NewRow(c), r),
         \A r \in revisions : ~Collides(NewRow(c), r),
         added' = [added EXCEPT ![c] = {NewRow(c)}], Goto(c, "advance"),
         UNCHANGED <<request, tables, rev, number, outcome>>
  PROVE  IInv'
<1>1. /\ pc'[c] = "advance" /\ added'[c] = {NewRow(c)} /\ outcome[c] = "none"
      /\ rev[c] \in Revision
  BY DEF Goto, IInv, TypeOK, CallProgress
<1>2. \A e \in Call \ {c} : pc'[e] = pc[e] /\ added'[e] = added[e]
  BY DEF Goto, IInv, TypeOK
<1>3. \A e \in Call : /\ NewRow(e)' = NewRow(e) /\ recording(e)' = recording(e)
                      /\ expected(e)' = expected(e) /\ (isCreate(e)' <=> isCreate(e))
  BY DEF recording, expected, isCreate, NewRow
<1>4. \A rec : RowsOf(rec)' = RowsOf(rec)
  BY DEF RowsOf, tables
<1>5. TypeOK'
  BY <1>1, NewRowType DEF IInv, TypeOK, Goto, Running, tables
<1>6. NumberedChain' /\ RowsAsRequested' /\ OkIsStored'
  BY <1>3, <1>4 DEF IInv, NumberedChain, RowsAsRequested, OkIsStored, tables
<1>7. UniqueKeys'
  <2>1. \A r, s \in revisions : r # s => ~Collides(r, s)
    BY DEF IInv, UniqueKeys
  <2>2. ASSUME NEW d \in Call, NEW r \in added'[d], NEW s \in revisions
        PROVE  ~Collides(r, s)
    BY <1>1, <1>2 DEF IInv, UniqueKeys
  <2>3. ASSUME NEW d \in Call, NEW e \in Call, d # e, NEW r \in added'[d], NEW s \in added'[e]
        PROVE  ~Collides(r, s)
    <3>1. CASE d # c /\ e # c
      BY <3>1, <1>2, <2>3 DEF IInv, UniqueKeys
    <3>2. CASE d = c
      BY <3>2, <1>1, <1>2, <2>3
    <3>3. CASE e = c
      <4>1. ~Collides(s, r)
        BY <3>3, <1>1, <1>2, <2>3
      <4> QED BY <4>1 DEF Collides, SameId, SameParent, SameNumber
    <3> QED BY <3>1, <3>2, <3>3
  <2>4. revisions' = revisions /\ \A r, s : Collides(r, s)' <=> Collides(r, s)
    BY DEF tables, Collides, SameId, SameParent, SameNumber
  <2> QED BY <2>1, <2>2, <2>3, <2>4 DEF UniqueKeys
<1>8. ASSUME NEW d \in Call
      PROVE  /\ RecordingKeyHeld(d)' => RecordingKeyHeld(d)
             /\ HeadLocked(d)' => HeadLocked(d)
  <2>1. ASSUME NEW e \in Call \ {d}, pc'[e] \in {"insert", "advance", "commit"},
               isCreate(e)', recording(e)' = recording(d)'
        PROVE  RecordingKeyHeld(d)
    <3>1. pc[e] \in {"insert", "advance", "commit"}
      BY <1>2, <2>1
    <3> QED BY <3>1, <1>3, <2>1 DEF RecordingKeyHeld
  <2>2. ASSUME NEW e \in Call \ {d}, pc'[e] = "commit", recording(e)' = recording(d)'
        PROVE  HeadLocked(d)
    <3>1. e # c
      BY <1>1, <2>2
    <3> QED BY <3>1, <1>2, <1>3, <2>2 DEF HeadLocked
  <2> QED BY <2>1, <2>2 DEF RecordingKeyHeld, HeadLocked
<1>9. ASSUME NEW d \in Call
      PROVE  /\ CreateProgress(d) => CreateProgress(d)'
             /\ SaveProgress(d) => SaveProgress(d)'
  <2>1. pc'[d] \in {"insert", "advance", "commit"} => pc[d] \in {"insert", "advance", "commit"}
    BY <1>2
  <2>2. pc'[d] = "commit" => pc[d] = "commit"
    BY <1>1, <1>2
  <2> QED BY <2>1, <2>2, <1>3, <1>4, <1>8 DEF CreateProgress, SaveProgress, tables
<1>10. CallProgress'
  <2> SUFFICES ASSUME NEW d \in Call
               PROVE  /\ added'[d] = IF pc'[d] \in {"advance", "commit"} THEN {NewRow(d)'} ELSE {}
                      /\ outcome'[d] # "none" => pc'[d] = "done"
                      /\ pc'[d] \in {"lookup", "addrecording"} => CreateProgress(d)'
                      /\ pc'[d] = "read" => SaveProgress(d)'
                      /\ pc'[d] \in {"insert", "advance", "commit"}
                           => CreateProgress(d)' \/ SaveProgress(d)'
                      /\ pc'[d] = "commit" => ~HeadLocked(d)'
    BY DEF CallProgress
  <2>1. CASE d = c
    BY <2>1, <1>1, <1>3, <1>9 DEF IInv, CallProgress
  <2>2. CASE d # c
    BY <2>2, <1>2, <1>3, <1>8, <1>9 DEF IInv, CallProgress
  <2> QED BY <2>1, <2>2
<1> QED BY <1>5, <1>6, <1>7, <1>10 DEF IInv

LEMMA AdvanceStep ==
  ASSUME IInv, NEW c \in Call, pc[c] = "advance", ~HeadLocked(c),
         isCreate(c) \/ head[recording(c)] = expected(c),
         Goto(c, "commit"), UNCHANGED <<request, tables, rev, number, added, outcome>>
  PROVE  IInv'
<1>1. pc'[c] = "commit" /\ \A e \in Call \ {c} : pc'[e] = pc[e]
  BY DEF Goto, IInv, TypeOK
<1>2. \A e \in Call : /\ NewRow(e)' = NewRow(e) /\ recording(e)' = recording(e)
                      /\ expected(e)' = expected(e) /\ (isCreate(e)' <=> isCreate(e))
  BY DEF recording, expected, isCreate, NewRow
<1>3. \A rec : RowsOf(rec)' = RowsOf(rec)
  BY DEF RowsOf, tables
<1>4. TypeOK'
  BY DEF IInv, TypeOK, Goto, Running, tables
<1>5. NumberedChain' /\ RowsAsRequested' /\ OkIsStored'
  BY <1>2, <1>3 DEF IInv, NumberedChain, RowsAsRequested, OkIsStored, tables
<1>6. UniqueKeys'
  BY DEF IInv, UniqueKeys, Collides, SameId, SameParent, SameNumber, tables
<1>7. ASSUME NEW d \in Call
      PROVE  RecordingKeyHeld(d)' => RecordingKeyHeld(d)
  <2> SUFFICES ASSUME NEW e \in Call \ {d}, pc'[e] \in {"insert", "advance", "commit"},
                      isCreate(e)', recording(e)' = recording(d)'
               PROVE  RecordingKeyHeld(d)
    BY DEF RecordingKeyHeld
  <2>1. pc[e] \in {"insert", "advance", "commit"}
    BY <1>1
  <2> QED BY <2>1, <1>2 DEF RecordingKeyHeld
<1>8. ASSUME NEW d \in Call, pc'[d] = "commit"
      PROVE  ~HeadLocked(d)'
  <2> SUFFICES ASSUME NEW e \in Call \ {d}, pc'[e] = "commit", recording(e)' = recording(d)'
               PROVE  FALSE
    BY DEF HeadLocked
  <2>1. CASE d # c /\ e # c
    <3>1. pc[d] = "commit" /\ ~HeadLocked(d)
      BY <2>1, <1>1, <1>8 DEF IInv, CallProgress
    <3> QED BY <3>1, <2>1, <1>1, <1>2 DEF HeadLocked
  <2>2. CASE d = c
    BY <2>2, <1>1, <1>2 DEF HeadLocked
  <2>3. CASE e = c
    BY <2>3, <1>1, <1>2, <1>8 DEF HeadLocked
  <2> QED BY <2>1, <2>2, <2>3
<1>9. ASSUME NEW d \in Call
      PROVE  /\ CreateProgress(d) => CreateProgress(d)'
             /\ SaveProgress(d) => SaveProgress(d)'
  <2>1. pc'[d] \in {"insert", "advance", "commit"} => pc[d] \in {"insert", "advance", "commit"}
    BY <1>1
  <2>2. CreateProgress(d) => CreateProgress(d)'
    BY <2>1, <1>2, <1>7 DEF CreateProgress, tables
  <2>3. SaveProgress(d) => SaveProgress(d)'
    BY <2>1, <1>1, <1>2, <1>3 DEF SaveProgress, tables
  <2> QED BY <2>2, <2>3
<1>10. CallProgress'
  <2> SUFFICES ASSUME NEW d \in Call
               PROVE  /\ added'[d] = IF pc'[d] \in {"advance", "commit"} THEN {NewRow(d)'} ELSE {}
                      /\ outcome'[d] # "none" => pc'[d] = "done"
                      /\ pc'[d] \in {"lookup", "addrecording"} => CreateProgress(d)'
                      /\ pc'[d] = "read" => SaveProgress(d)'
                      /\ pc'[d] \in {"insert", "advance", "commit"}
                           => CreateProgress(d)' \/ SaveProgress(d)'
                      /\ pc'[d] = "commit" => ~HeadLocked(d)'
    BY DEF CallProgress
  <2>1. CASE d = c
    BY <2>1, <1>1, <1>2, <1>8, <1>9 DEF IInv, CallProgress
  <2>2. CASE d # c
    BY <2>2, <1>1, <1>2, <1>8, <1>9 DEF IInv, CallProgress
  <2> QED BY <2>1, <2>2
<1> QED BY <1>4, <1>5, <1>6, <1>10 DEF IInv

-----------------------------------------------------------------------------
(* The head row of a recording is the row with the greatest number: there is  *)
(* one row with the head's id.                                                *)
LEMMA HeadIsLast ==
  ASSUME IInv, NEW rec \in recordings, NEW p \in RowsOf(rec), p.id = head[rec]
  PROVE  {r.number : r \in RowsOf(rec)} = 1..p.number
<1>1. PICK h \in RowsOf(rec) : h.id = head[rec] /\ {r.number : r \in RowsOf(rec)} = 1..h.number
  BY DEF IInv, TypeOK, NumberedChain
<1>2. h = p
  BY <1>1 DEF IInv, UniqueKeys, Collides, SameId, RowsOf
<1> QED BY <1>1, <1>2

(* What Commit appends. *)
LEMMA CommitAppends ==
  ASSUME IInv, NEW c \in Call, Commit(c)
  PROVE  LET rec == recording(c)
             x   == NewRow(c)
         IN  /\ rec \in Recording /\ rev[c] \in Revision /\ x \in Row
             /\ added[c] = {x} /\ revisions' = revisions \cup {x}
             /\ \A s \in revisions : ~Collides(x, s)
             /\ \/ /\ isCreate(c) /\ rec \notin recordings /\ x.number = 1
                   /\ RowsOf(rec) = {}
                \/ /\ ~isCreate(c) /\ rec \in recordings
                   /\ \E p \in RowsOf(rec) :
                        /\ p.id = head[rec] /\ x.parent = p.id /\ x.number = p.number + 1
                        /\ {r.number : r \in RowsOf(rec)} = 1..p.number
<1>1. pc[c] = "commit" /\ added[c] = {NewRow(c)} /\ revisions' = revisions \cup {NewRow(c)}
  BY DEF Commit, IInv, CallProgress
<1>2. recording(c) \in Recording /\ rev[c] \in Revision
  BY <1>1 DEF IInv, TypeOK, Request, recording
<1>3. NewRow(c) \in Row /\ \A s \in revisions : ~Collides(NewRow(c), s)
  BY <1>1 DEF IInv, TypeOK, UniqueKeys
<1>4. CASE CreateProgress(c)
  BY <1>1, <1>2, <1>3, <1>4 DEF CreateProgress, NewRow, IInv, NumberedChain
<1>5. CASE SaveProgress(c)
  <2>1. PICK p \in RowsOf(recording(c)) : p.id = expected(c) /\ number[c] = p.number + 1
    BY <1>1, <1>5 DEF SaveProgress
  <2>2. p.id = head[recording(c)] /\ recording(c) \in recordings /\ ~isCreate(c)
    BY <1>1, <1>5, <2>1 DEF SaveProgress
  <2>3. {r.number : r \in RowsOf(recording(c))} = 1..p.number
    BY <2>2, HeadIsLast
  <2>4. NewRow(c).parent = p.id /\ NewRow(c).number = p.number + 1
    BY <2>1 DEF NewRow
  <2> QED BY <1>1, <1>2, <1>3, <2>2, <2>3, <2>4
<1> QED BY <1>1, <1>4, <1>5 DEF IInv, CallProgress

LEMMA CommitStep ==
  ASSUME IInv, NEW c \in Call, Commit(c)
  PROVE  IInv'
<1>a. PICK rec \in Recording : rec = recording(c)
  BY CommitAppends
<1>b. PICK x : x = NewRow(c)
  OBVIOUS
<1>1. /\ rec \in Recording /\ rev[c] \in Revision /\ x \in Row
      /\ added[c] = {x} /\ revisions' = revisions \cup {x}
      /\ \A s \in revisions : ~Collides(x, s)
      /\ x.recording = rec /\ x.id = rev[c] /\ x.parent = expected(c)
  BY <1>a, <1>b, CommitAppends DEF NewRow
<1>2. /\ pc[c] = "commit" /\ pc'[c] = "done" /\ added'[c] = {}
      /\ recordings' = recordings \cup {rec} /\ head' = [head EXCEPT ![rec] = rev[c]]
      /\ UNCHANGED <<request, rev, number>>
  BY <1>a DEF Commit, Goto, IInv, TypeOK
<1>3. \A e \in Call \ {c} : pc'[e] = pc[e] /\ added'[e] = added[e] /\ outcome'[e] = outcome[e]
  BY DEF Commit, Goto, IInv, TypeOK
<1>4. \A e \in Call : /\ NewRow(e)' = NewRow(e) /\ recording(e)' = recording(e)
                      /\ expected(e)' = expected(e) /\ (isCreate(e)' <=> isCreate(e))
  BY <1>2 DEF recording, expected, isCreate, NewRow
<1>5. TypeOK'
  <2>1. /\ recordings' \in SUBSET Recording /\ revisions' \in SUBSET Row
        /\ head' \in [Recording -> Revision \cup {NoRevision}]
    BY <1>1, <1>2 DEF IInv, TypeOK
  <2>2. /\ pc' \in [Call -> Running \cup {"idle", "done"}]
        /\ \A d \in Call : pc'[d] # "idle" => rev'[d] \in Revision
    BY <1>1, <1>2, <1>3 DEF IInv, TypeOK, Commit, Goto
  <2>3. added' \in [Call -> SUBSET Row] /\ outcome' \in [Call -> Outcome]
    BY DEF IInv, TypeOK, Commit, Outcome
  <2> QED BY <1>2, <2>1, <2>2, <2>3 DEF IInv, TypeOK
<1>6. UniqueKeys'
  <2>1. \A r, s : Collides(r, s)' <=> Collides(r, s)
    BY DEF Collides, SameId, SameParent, SameNumber
  <2>2. \A r, s : Collides(r, s) <=> Collides(s, r)
    BY DEF Collides, SameId, SameParent, SameNumber
  <2>3. ASSUME NEW r \in revisions', NEW s \in revisions', r # s
        PROVE  ~Collides(r, s)
    BY <1>1, <2>2, <2>3 DEF IInv, UniqueKeys
  <2>4. ASSUME NEW d \in Call, NEW r \in added'[d], NEW s \in revisions'
        PROVE  ~Collides(r, s)
    <3>1. d # c /\ r \in added[d]
      BY <1>2, <1>3, <2>4
    <3> QED BY <3>1, <1>1 DEF IInv, UniqueKeys
  <2>5. ASSUME NEW d \in Call, NEW e \in Call, d # e, NEW r \in added'[d], NEW s \in added'[e]
        PROVE  ~Collides(r, s)
    <3>1. r \in added[d] /\ s \in added[e]
      BY <1>2, <1>3
    <3> QED BY <3>1, <2>5 DEF IInv, UniqueKeys
  <2> QED BY <2>1, <2>3, <2>4, <2>5 DEF UniqueKeys
<1>7. RowsAsRequested'
  BY <1>a, <1>1, <1>2 DEF IInv, RowsAsRequested, recording, expected
<1>8. OkIsStored'
  BY <1>a, <1>1, <1>2, <1>3, <1>4 DEF IInv, OkIsStored
<1>9. /\ RowsOf(rec)' = RowsOf(rec) \cup {x}
      /\ \A other : other # rec => RowsOf(other)' = RowsOf(other)
  <2>1. \A other : RowsOf(other)' = {r \in revisions \cup {x} : r.recording = other}
    BY <1>1 DEF RowsOf
  <2>2. \A other : {r \in revisions \cup {x} : r.recording = other}
                    = RowsOf(other) \cup {r \in {x} : r.recording = other}
    BY DEF RowsOf
  <2>3. {r \in {x} : r.recording = rec} = {x} /\ x.recording = rec
    BY <1>1
  <2>4. \A other : other # rec => {r \in {x} : r.recording = other} = {}
    BY <2>3
  <2> QED BY <2>1, <2>2, <2>3, <2>4
<1>10. NumberedChain'
  <2> SUFFICES ASSUME NEW rr \in Recording
               PROVE  /\ rr \notin recordings' => RowsOf(rr)' = {} /\ head'[rr] = NoRevision
                      /\ rr \in recordings' =>
                           \E h \in RowsOf(rr)' : /\ h.id = head'[rr]
                                                  /\ {r.number : r \in RowsOf(rr)'} = 1..h.number
                      /\ \A r \in RowsOf(rr)' :
                           /\ \A s \in RowsOf(rr)' : s.number = r.number => s = r
                           /\ r.parent # NoRevision =>
                                \E p \in RowsOf(rr)' : r.parent = p.id /\ r.number = p.number + 1
    BY DEF NumberedChain
  <2>1. CASE rr # rec
    <3>1. /\ RowsOf(rr)' = RowsOf(rr) /\ head'[rr] = head[rr]
          /\ (rr \in recordings' <=> rr \in recordings)
      BY <2>1, <1>2, <1>9 DEF IInv, TypeOK
    <3> QED BY <3>1 DEF IInv, NumberedChain
  <2>2. CASE rr = rec
    <3>1. head'[rec] = x.id /\ rec \in recordings' /\ x \in RowsOf(rec)'
      BY <1>1, <1>2, <1>9 DEF IInv, TypeOK
    <3>2. \A r \in RowsOf(rec) : ~SameNumber(x, r) /\ r.recording = rec
      BY <1>1 DEF RowsOf, Collides
    <3>3. \A r, s \in RowsOf(rec)' : s.number = r.number => s = r
      BY <3>2, <1>1, <1>9 DEF SameNumber, IInv, NumberedChain
    <3>4. {r.number : r \in RowsOf(rec)'} = {r.number : r \in RowsOf(rec)} \cup {x.number}
      BY <1>9
    <3>5. ASSUME NEW r \in RowsOf(rec), r.parent # NoRevision
          PROVE  \E p \in RowsOf(rec)' : r.parent = p.id /\ r.number = p.number + 1
      BY <3>5, <1>1, <1>9 DEF IInv, NumberedChain
    <3>6. CASE isCreate(c) /\ rec \notin recordings /\ x.number = 1 /\ RowsOf(rec) = {}
      <4>1. RowsOf(rec)' = {x} /\ {r.number : r \in RowsOf(rec)'} = 1..x.number
        BY <3>4, <3>6, <1>9
      <4>2. x.parent = NoRevision
        BY <3>6, <1>1 DEF isCreate
      <4>3. \A r \in RowsOf(rec)' : r = x
        BY <4>1
      <4> QED BY <2>2, <3>1, <3>3, <4>1, <4>2, <4>3
    <3>7. CASE ~isCreate(c) /\ rec \in recordings
               /\ \E p \in RowsOf(rec) :
                    /\ p.id = head[rec] /\ x.parent = p.id /\ x.number = p.number + 1
                    /\ {r.number : r \in RowsOf(rec)} = 1..p.number
      <4>1. PICK p \in RowsOf(rec) :
              /\ p.id = head[rec] /\ x.parent = p.id /\ x.number = p.number + 1
              /\ {r.number : r \in RowsOf(rec)} = 1..p.number
        BY <3>7
      <4>2. p.number \in Nat /\ p \in RowsOf(rec)'
        BY <1>9 DEF IInv, TypeOK, RowsOf, Row
      <4>3. {r.number : r \in RowsOf(rec)'} = 1..x.number
        BY <3>4, <4>1, <4>2
      <4>4. \A r \in RowsOf(rec)' : r.parent # NoRevision =>
              \E q \in RowsOf(rec)' : r.parent = q.id /\ r.number = q.number + 1
        BY <3>5, <4>1, <4>2, <1>9
      <4> QED BY <2>2, <3>1, <3>3, <4>3, <4>4
    <3> QED BY <1>a, <1>b, <3>6, <3>7, CommitAppends
  <2> QED BY <2>1, <2>2
<1>11. ASSUME NEW d \in Call
       PROVE  /\ RecordingKeyHeld(d)' => RecordingKeyHeld(d)
              /\ HeadLocked(d)' => HeadLocked(d)
  <2>1. ASSUME NEW e \in Call \ {d}, pc'[e] \in {"insert", "advance", "commit"},
               isCreate(e)', recording(e)' = recording(d)'
        PROVE  RecordingKeyHeld(d)
    <3>1. pc[e] \in {"insert", "advance", "commit"}
      BY <1>2, <1>3, <2>1
    <3> QED BY <3>1, <1>4, <2>1 DEF RecordingKeyHeld
  <2>2. ASSUME NEW e \in Call \ {d}, pc'[e] = "commit", recording(e)' = recording(d)'
        PROVE  HeadLocked(d)
    <3>1. pc[e] = "commit"
      BY <1>2, <1>3, <2>2
    <3> QED BY <3>1, <1>4, <2>2 DEF HeadLocked
  <2> QED BY <2>1, <2>2 DEF RecordingKeyHeld, HeadLocked
<1>12. ASSUME NEW d \in Call \ {c}
       PROVE  /\ CreateProgress(d) => CreateProgress(d)'
              /\ SaveProgress(d) => SaveProgress(d)'
  <2>1. ASSUME CreateProgress(d) PROVE CreateProgress(d)'
    <3> SUFFICES ASSUME pc[d] \in {"insert", "advance", "commit"}
                 PROVE  recording(d) \notin recordings \cup {rec}
      BY <1>a, <1>2, <1>3, <1>4, <1>11, <2>1 DEF CreateProgress
    <3>1. recording(d) \notin recordings /\ ~RecordingKeyHeld(d)
      BY <2>1 DEF CreateProgress
    <3>2. CASE isCreate(c)
      BY <3>1, <3>2, <1>a, <1>2 DEF RecordingKeyHeld
    <3>3. CASE ~isCreate(c)
      BY <3>1, <3>3, <1>a, CommitAppends
    <3> QED BY <3>2, <3>3
  <2>2. ASSUME SaveProgress(d) PROVE SaveProgress(d)'
    <3>1. ASSUME pc[d] = "commit" PROVE recording(d) # rec
      BY <3>1, <1>a, <1>2 DEF IInv, CallProgress, HeadLocked
    <3>2. pc[d] = "commit" => head'[recording(d)] = expected(d)
      BY <3>1, <1>2, <2>2 DEF SaveProgress, IInv, TypeOK
    <3>3. pc[d] \in {"insert", "advance", "commit"} =>
            /\ recording(d) \in recordings'
            /\ \E p \in RowsOf(recording(d))' : p.id = expected(d) /\ number[d] = p.number + 1
      <4>1. RowsOf(recording(d)) \subseteq RowsOf(recording(d))'
        BY <1>4, <1>9
      <4>2. expected(d)' = expected(d)
        BY <1>4
      <4> QED BY <4>1, <1>2, <2>2 DEF SaveProgress
    <3> QED BY <3>2, <3>3, <1>2, <1>3, <1>4, <2>2 DEF SaveProgress
  <2> QED BY <2>1, <2>2
<1>13. CallProgress'
  <2> SUFFICES ASSUME NEW d \in Call
               PROVE  /\ added'[d] = IF pc'[d] \in {"advance", "commit"} THEN {NewRow(d)'} ELSE {}
                      /\ outcome'[d] # "none" => pc'[d] = "done"
                      /\ pc'[d] \in {"lookup", "addrecording"} => CreateProgress(d)'
                      /\ pc'[d] = "read" => SaveProgress(d)'
                      /\ pc'[d] \in {"insert", "advance", "commit"}
                           => CreateProgress(d)' \/ SaveProgress(d)'
                      /\ pc'[d] = "commit" => ~HeadLocked(d)'
    BY DEF CallProgress
  <2>1. CASE d = c
    BY <2>1, <1>2
  <2>2. CASE d # c
    BY <2>2, <1>3, <1>4, <1>11, <1>12 DEF IInv, CallProgress
  <2> QED BY <2>1, <2>2
<1> QED BY <1>5, <1>6, <1>7, <1>8, <1>10, <1>13 DEF IInv

-----------------------------------------------------------------------------
LEMMA StepIInv == IInv /\ [Next]_vars => IInv'
<1> SUFFICES ASSUME IInv, [Next]_vars PROVE IInv'
  OBVIOUS
<1>1. CASE UNCHANGED vars
  <2>1. UNCHANGED <<request, recordings, head, revisions, pc, rev, number, added, outcome>>
    BY <1>1 DEF vars, tables, callVars
  <2>2. TypeOK' /\ NumberedChain' /\ UniqueKeys' /\ RowsAsRequested' /\ OkIsStored'
    BY <2>1 DEF IInv, TypeOK, NumberedChain, RowsOf, UniqueKeys, Collides, SameId,
                SameParent, SameNumber, RowsAsRequested, OkIsStored, recording, expected
  <2>3. CallProgress'
    BY <2>1 DEF IInv, CallProgress, CreateProgress, SaveProgress, RecordingKeyHeld, HeadLocked,
                NewRow, RowsOf, recording, expected, isCreate
  <2> QED BY <2>2, <2>3 DEF IInv
<1>2. ASSUME NEW c \in Call, Start(c) PROVE IInv'
  BY <1>2, StartStep
<1>3. ASSUME NEW c \in Call, CheckIdempotent(c) PROVE IInv'
  <2>1. CASE Stored(rev[c])
    BY <1>3, <2>1, RollbackStep DEF CheckIdempotent, Running, Outcome
  <2>2. CASE ~Stored(rev[c]) /\ isCreate(c)
    BY <1>3, <2>2, QueryStep DEF CheckIdempotent
  <2>3. CASE ~Stored(rev[c]) /\ ~isCreate(c)
    BY <1>3, <2>3, QueryStep DEF CheckIdempotent
  <2> QED BY <2>1, <2>2, <2>3
<1>4. ASSUME NEW c \in Call, LookupRecording(c) PROVE IInv'
  <2>1. CASE recording(c) \in recordings
    BY <1>4, <2>1, RollbackStep DEF LookupRecording, Running, Outcome
  <2>2. CASE recording(c) \notin recordings
    <3>1. isCreate(c)
      BY <1>4 DEF LookupRecording, IInv, CallProgress, CreateProgress
    <3> QED BY <1>4, <2>2, <3>1, QueryStep DEF LookupRecording
  <2> QED BY <2>1, <2>2
<1>5. ASSUME NEW c \in Call, AddRecording(c) PROVE IInv'
  <2>1. CASE recording(c) \in recordings
    BY <1>5, <2>1, RollbackStep DEF AddRecording, Running, Outcome
  <2>2. CASE recording(c) \notin recordings
    <3>1. isCreate(c)
      BY <1>5 DEF AddRecording, IInv, CallProgress, CreateProgress
    <3> QED BY <1>5, <2>2, <3>1, EnterInsert DEF AddRecording
  <2> QED BY <2>1, <2>2
<1>6. ASSUME NEW c \in Call, ReadHead(c) PROVE IInv'
  <2>1. CASE \E result \in {"notfound", "concurrent"} : Rollback(c, result)
    BY <1>6, <2>1, RollbackStep DEF ReadHead, Running, Outcome
  <2>2. CASE /\ recording(c) \in recordings /\ head[recording(c)] = expected(c)
             /\ \E r \in revisions : /\ r.id = expected(c)
                                     /\ number' = [number EXCEPT ![c] = r.number + 1]
             /\ Goto(c, "insert")
             /\ UNCHANGED <<request, tables, rev, added, outcome>>
    <3>1. PICK r \in revisions : /\ r.id = expected(c)
                                 /\ number' = [number EXCEPT ![c] = r.number + 1]
      BY <2>2
    <3>2. recording(c) \in Recording /\ pc[c] = "read" /\ ~isCreate(c)
      BY <1>6, <2>2 DEF ReadHead, IInv, TypeOK, CallProgress, SaveProgress
    <3>3. PICK h \in RowsOf(recording(c)) : h.id = head[recording(c)]
      BY <2>2, <3>2 DEF IInv, NumberedChain
    <3>4. r = h
      BY <2>2, <3>1, <3>3 DEF IInv, UniqueKeys, Collides, SameId, RowsOf
    <3>5. r.number + 1 \in Nat
      BY DEF IInv, TypeOK, Row
    <3> QED BY <2>2, <3>1, <3>2, <3>3, <3>4, <3>5, EnterInsert
  <2> QED BY <1>6, <2>1, <2>2 DEF ReadHead
<1>7. ASSUME NEW c \in Call, InsertRevision(c) PROVE IInv'
  <2>1. CASE \E result \in {"integrity", "concurrent"} : Rollback(c, result)
    BY <1>7, <2>1, RollbackStep DEF InsertRevision, Running, Outcome
  <2>2. CASE ~\E result \in {"integrity", "concurrent"} : Rollback(c, result)
    BY <1>7, <2>2, InsertStep DEF InsertRevision
  <2> QED BY <2>1, <2>2
<1>8. ASSUME NEW c \in Call, RefuseContent(c) PROVE IInv'
  BY <1>8, RollbackStep DEF RefuseContent, Running, Outcome
<1>9. ASSUME NEW c \in Call, AdvanceHead(c) PROVE IInv'
  <2>1. CASE isCreate(c) \/ head[recording(c)] = expected(c)
    BY <1>9, <2>1, AdvanceStep DEF AdvanceHead
  <2>2. CASE ~(isCreate(c) \/ head[recording(c)] = expected(c))
    BY <1>9, <2>2, RollbackStep DEF AdvanceHead, Running, Outcome
  <2> QED BY <2>1, <2>2
<1>10. ASSUME NEW c \in Call, Commit(c) PROVE IInv'
  BY <1>10, CommitStep
<1>11. ASSUME NEW c \in Call, LoseConnection(c) PROVE IInv'
  BY <1>11, RollbackStep DEF LoseConnection, Outcome
<1>12. ASSUME NEW c \in Call, Return(c) PROVE IInv'
  BY <1>12, ReturnStep
<1> QED
  BY <1>1, <1>2, <1>3, <1>4, <1>5, <1>6, <1>7, <1>8, <1>9, <1>10, <1>11, <1>12
     DEF Next, Statement

(* The invariant of the transactions of the recording store, for any number   *)
(* of recordings, requests and concurrent calls.                              *)
THEOREM StoreInvariant == Spec => []IInv
BY InitIInv, StepIInv, PTL DEF Spec

(* The variables keep their types and the CHECK constraints hold.             *)
THEOREM StoreTypes == Spec => []TypeOK
BY StoreInvariant, PTL DEF IInv

(* However calls interleave, fail and are repeated, the committed history of  *)
(* each recording is one numbered chain that ends at its head.                *)
THEOREM ChainIsNumbered == Spec => []NumberedChain
BY StoreInvariant, PTL DEF IInv

(* A caller that got "ok" finds its own request in the history.               *)
THEOREM OkMeansStored == Spec => []OkIsStored
BY StoreInvariant, PTL DEF IInv

(* A collision on the parent or the number means that the head has moved.     *)
LEMMA CollisionMeansMoved ==
  ASSUME IInv, NEW c \in Call, pc[c] = "insert", ~isCreate(c), ~Stored(rev[c]),
         NEW r \in revisions, Collides(NewRow(c), r)
  PROVE  head[recording(c)] # expected(c)
<1> SUFFICES ASSUME head[recording(c)] = expected(c)
             PROVE  FALSE
  OBVIOUS
<1>1. SaveProgress(c)
  BY DEF IInv, CallProgress, CreateProgress
<1>2. recording(c) \in recordings
  BY <1>1 DEF SaveProgress
<1>3. PICK p \in RowsOf(recording(c)) : p.id = expected(c) /\ number[c] = p.number + 1
  BY <1>1 DEF SaveProgress
<1>4. {s.number : s \in RowsOf(recording(c))} = 1..p.number
  BY <1>2, <1>3, HeadIsLast
<1>5. p.number \in Nat /\ r.number \in Nat /\ r.recording \in Recording
      /\ p.recording = recording(c) /\ p \in revisions
  BY DEF IInv, TypeOK, Row, RowsOf
<1>6. r \in RowsOf(recording(c)) => r.number # p.number + 1
  BY <1>4, <1>5
<1>7. CASE SameId(NewRow(c), r)
  BY <1>7 DEF SameId, NewRow, Stored
<1>8. CASE SameNumber(NewRow(c), r)
  BY <1>8, <1>3, <1>6 DEF SameNumber, NewRow, RowsOf
<1>9. CASE SameParent(NewRow(c), r)
  <2>1. r.parent = p.id /\ r.parent # NoRevision /\ r \in RowsOf(r.recording)
    BY <1>9, <1>3 DEF SameParent, NewRow, RowsOf
  <2>2. PICK q \in RowsOf(r.recording) : r.parent = q.id /\ r.number = q.number + 1
    BY <1>5, <2>1 DEF IInv, NumberedChain
  <2>3. q = p
    BY <1>5, <2>1, <2>2 DEF IInv, UniqueKeys, Collides, SameId, RowsOf
  <2>4. r.recording = recording(c)
    BY <1>5, <2>2, <2>3 DEF RowsOf
  <2> QED BY <1>6, <2>1, <2>2, <2>3, <2>4
<1> QED BY <1>7, <1>8, <1>9 DEF Collides

(* No save is refused as concurrent while the head still is its parent.       *)
THEOREM ConcurrentMeansMoved == Spec => ConcurrentIsJustified
<1>1. ASSUME IInv, [Next]_vars, NEW c \in Call, outcome'[c] = "concurrent", outcome[c] # "concurrent"
      PROVE  head[recording(c)] # expected(c)
  <2>1. PICK d \in Call : Start(d) \/ Statement(d) \/ RefuseContent(d) \/ LoseConnection(d) \/ Return(d)
    BY <1>1 DEF Next, vars, callVars
  <2>2. CASE d # c
    <3>1. outcome'[c] = outcome[c]
      BY <1>1, <2>1, <2>2 DEF IInv, TypeOK, Start, Statement, CheckIdempotent, LookupRecording,
         AddRecording, ReadHead, InsertRevision, RefuseContent, AdvanceHead, Commit,
         LoseConnection, Return, Rollback
    <3> QED BY <1>1, <3>1
  <2>3. CASE d = c
    <3>1. CASE ReadHead(c)
      BY <1>1, <3>1 DEF IInv, TypeOK, ReadHead, Rollback
    <3>2. CASE InsertRevision(c)
      <4>1. /\ \E r \in revisions : Collides(NewRow(c), r)
            /\ ~Stored(rev[c]) /\ ~isCreate(c) /\ pc[c] = "insert"
        BY <1>1, <3>2 DEF IInv, TypeOK, InsertRevision, Rollback
      <4> QED BY <1>1, <4>1, CollisionMeansMoved
    <3>3. CASE AdvanceHead(c)
      BY <1>1, <3>3 DEF AdvanceHead
    <3>4. CASE Start(c) \/ CheckIdempotent(c) \/ LookupRecording(c) \/ AddRecording(c)
               \/ RefuseContent(c) \/ Commit(c) \/ LoseConnection(c) \/ Return(c)
      BY <1>1, <3>4 DEF IInv, TypeOK, Start, CheckIdempotent, LookupRecording, AddRecording,
         RefuseContent, Commit, LoseConnection, Return, Rollback
    <3> QED BY <2>1, <2>3, <3>1, <3>2, <3>3, <3>4 DEF Statement
  <2> QED BY <2>2, <2>3
<1>2. IInv /\ [Next]_vars =>
        (\A c \in Call : outcome'[c] = "concurrent" /\ outcome[c] # "concurrent"
           => head[recording(c)] # expected(c))
  BY <1>1
<1> QED
  BY <1>2, StoreInvariant, PTL DEF Spec, ConcurrentIsJustified

-----------------------------------------------------------------------------
(* The refinement. A commit appends to one chain, nothing else touches any.   *)

Chains == [rec \in Recording |-> ChainOf(rec)]

(* The rows of a recording, in the terms of ChainOf. *)
LEMMA ChainShape ==
  ASSUME IInv, NEW rec \in recordings, NEW p \in RowsOf(rec), p.id = head[rec]
  PROVE  /\ ChainLength(rec) = p.number /\ p.number \in Nat \ {0}
         /\ \A n \in 1..p.number : RowNumbered(rec, n) \in RowsOf(rec)
         /\ RowNumbered(rec, p.number) = p
<1>1. {r.number : r \in RowsOf(rec)} = 1..p.number
  BY HeadIsLast
<1>2. \A h \in RowsOf(rec) : h.id = head[rec] => h = p
  BY DEF IInv, UniqueKeys, Collides, SameId, RowsOf
<1>3. ChainLength(rec) = p.number
  BY <1>2 DEF ChainLength
<1>4. p.number \in Nat \ {0}
  BY DEF RowsOf, IInv, TypeOK, Row
<1>5. ASSUME NEW n \in 1..p.number PROVE RowNumbered(rec, n) \in RowsOf(rec)
  <2>1. \E r \in RowsOf(rec) : r.number = n
    BY <1>1
  <2> QED BY <2>1 DEF RowNumbered
<1>6. RowNumbered(rec, p.number) = p
  <2>1. \A r \in RowsOf(rec) : r.number = p.number => r = p
    BY DEF IInv, TypeOK, NumberedChain
  <2> QED BY <2>1 DEF RowNumbered
<1> QED BY <1>3, <1>4, <1>5, <1>6

LEMMA NoTableNoChange ==
  ASSUME UNCHANGED tables
  PROVE  UNCHANGED Chains
BY DEF tables, Chains, ChainOf, ChainLength, RowNumbered, RowsOf

(* A commit leaves the other recordings' chains alone. *)
LEMMA OtherChains ==
  ASSUME IInv, NEW c \in Call, Commit(c), NEW rec \in Recording, rec # recording(c)
  PROVE  ChainOf(rec)' = ChainOf(rec)
<1>1. RowsOf(rec)' = RowsOf(rec)
  <2>1. /\ revisions' = revisions \cup {NewRow(c)}
        /\ NewRow(c).recording = recording(c)
    BY CommitAppends DEF NewRow
  <2>2. \A r : r \in RowsOf(rec)' <=> r \in RowsOf(rec)
    BY <2>1 DEF RowsOf
  <2> QED BY <2>2
<1>2. (rec \in recordings' <=> rec \in recordings) /\ head'[rec] = head[rec]
  BY DEF Commit, IInv, TypeOK
<1> QED BY <1>1, <1>2 DEF ChainOf, ChainLength, RowNumbered

(* A commit extends the chain of its recording. *)
LEMMA OwnChain ==
  ASSUME IInv, NEW c \in Call, Commit(c), NEW rec, rec = recording(c),
         NEW len, len = ChainLength(rec)
  PROVE  /\ len \in Nat
         /\ ChainLength(rec)' = len + 1
         /\ \A n \in 1..len : RowNumbered(rec, n)' = RowNumbered(rec, n)
         /\ RowNumbered(rec, len + 1)' = NewRow(c)
         /\ NewRow(c).parent = IF len = 0 THEN NoRevision ELSE RowNumbered(rec, len).id
<1>1. PICK x : x = NewRow(c)
  OBVIOUS
<1>2. /\ rec \in Recording /\ x.recording = rec /\ x.id = rev[c] /\ x.parent = expected(c)
      /\ revisions' = revisions \cup {x} /\ \A s \in revisions : ~Collides(x, s)
      /\ rec \in recordings' /\ head'[rec] = x.id /\ x \in revisions'
  BY <1>1, CommitAppends DEF NewRow, Commit, IInv, TypeOK
<1>3. \A r : r \in RowsOf(rec)' <=> r \in RowsOf(rec) \/ r = x
  BY <1>2 DEF RowsOf
<1>4. \A r \in RowsOf(rec) : r.id # x.id /\ r.number # x.number
  BY <1>2 DEF RowsOf, Collides, SameId, SameNumber
<1>5. ChainLength(rec)' = x.number
  BY <1>2, <1>3, <1>4 DEF ChainLength
<1>6. RowNumbered(rec, x.number)' = x
  BY <1>3, <1>4 DEF RowNumbered
<1>7. CASE isCreate(c) /\ rec \notin recordings /\ x.number = 1 /\ RowsOf(rec) = {}
  <2>1. len = 0
    BY <1>7 DEF ChainLength
  <2>2. ChainLength(rec)' = 1 /\ x.parent = NoRevision
    BY <1>2, <1>5, <1>7 DEF isCreate
  <2>3. RowNumbered(rec, len + 1)' = x
    BY <1>6, <1>7, <2>1
  <2> QED BY <1>1, <2>1, <2>2, <2>3
<1>8. CASE ~isCreate(c) /\ rec \in recordings
           /\ \E p \in RowsOf(rec) :
                /\ p.id = head[rec] /\ x.parent = p.id /\ x.number = p.number + 1
                /\ {r.number : r \in RowsOf(rec)} = 1..p.number
  <2>1. PICK p \in RowsOf(rec) : p.id = head[rec] /\ x.parent = p.id /\ x.number = p.number + 1
    BY <1>8
  <2>2. /\ ChainLength(rec) = p.number /\ p.number \in Nat \ {0}
        /\ \A n \in 1..p.number : RowNumbered(rec, n) \in RowsOf(rec)
        /\ RowNumbered(rec, p.number) = p
    BY <1>8, <2>1, ChainShape
  <2>3. ASSUME NEW n \in 1..p.number
        PROVE  RowNumbered(rec, n)' = RowNumbered(rec, n)
    <3>1. n # x.number
      BY <2>1, <2>2
    <3>2. \A r : (r \in RowsOf(rec)' /\ r.number = n) <=> (r \in RowsOf(rec) /\ r.number = n)
      BY <1>3, <3>1
    <3> QED BY <3>2 DEF RowNumbered
  <2>4. x.number = len + 1 /\ len # 0
    BY <2>1, <2>2
  <2>5. RowNumbered(rec, len + 1)' = x
    BY <1>6, <2>4
  <2> QED BY <1>1, <1>5, <2>1, <2>2, <2>3, <2>4, <2>5
<1> QED BY <1>1, <1>7, <1>8, CommitAppends

(* A function over 1..len is a sequence of that length. *)
LEMMA FunctionIsSeq ==
  ASSUME NEW len \in Nat, NEW S, NEW f \in [1..len -> S]
  PROVE  f \in Seq(S) /\ Len(f) = len /\ (f = <<>> <=> len = 0)
<1>1. f \in Seq(S)
  BY SeqDef
<1>2. Len(f) \in Nat /\ DOMAIN f = 1..Len(f)
  BY <1>1, LenProperties
<1>3. Len(f) = len
  BY <1>2
<1> QED BY <1>1, <1>3, EmptySeq

LEMMA FunctionIsAppend ==
  ASSUME NEW len \in Nat, NEW S, NEW f \in [1..len -> S], NEW g \in [1..len + 1 -> S],
         \A n \in 1..len : g[n] = f[n]
  PROVE  g = Append(f, g[len + 1])
<1>1. f \in Seq(S) /\ Len(f) = len /\ g \in Seq(S) /\ Len(g) = len + 1 /\ g[len + 1] \in S
  BY FunctionIsSeq
<1> DEFINE a == Append(f, g[len + 1])
<1>2. /\ a \in Seq(S) /\ Len(a) = len + 1
      /\ \A n \in 1..len : a[n] = f[n]
      /\ a[len + 1] = g[len + 1]
  BY <1>1, AppendProperties
<1>3. \A n \in 1..len + 1 : g[n] = a[n]
  BY <1>2
<1> HIDE DEF a
<1>4. g = a
  BY <1>1, <1>2, <1>3, SeqEqual
<1> QED BY <1>4 DEF a

(* The chains are sequences of links, and hold what revisions holds. *)
LEMMA ChainType ==
  ASSUME IInv, NEW rec \in Recording
  PROVE  /\ ChainLength(rec) \in Nat
         /\ ChainOf(rec) \in [1..ChainLength(rec) -> History!Link]
         /\ \A n \in 1..ChainLength(rec) :
              /\ ChainOf(rec)[n].id = RowNumbered(rec, n).id
              /\ RowNumbered(rec, n) \in revisions
<1>1. CASE rec \notin recordings
  BY <1>1 DEF ChainLength, ChainOf
<1>2. CASE rec \in recordings
  <2>1. PICK p \in RowsOf(rec) : p.id = head[rec]
    BY <1>2 DEF IInv, NumberedChain
  <2>2. /\ ChainLength(rec) = p.number /\ p.number \in Nat
        /\ \A n \in 1..p.number : RowNumbered(rec, n) \in RowsOf(rec)
    BY <1>2, <2>1, ChainShape
  <2>3. \A r \in RowsOf(rec) : r \in revisions /\ r.id \in Revision
                              /\ r.parent \in Revision \cup {NoRevision}
    BY DEF RowsOf, IInv, TypeOK, Row
  <2> QED BY <2>2, <2>3 DEF ChainOf, History!Link
<1> QED BY <1>1, <1>2

LEMMA ChainAppends ==
  ASSUME IInv, NEW c \in Call, Commit(c)
  PROVE  \E rec \in Recording, id \in Revision : History!Commit(rec, id)
<1>1. PICK rec \in Recording : rec = recording(c)
  BY CommitAppends
<1>2. PICK id \in Revision : id = rev[c]
  BY CommitAppends
<1>3. PICK ch : ch = Chains
  OBVIOUS
<1>4. PICK new : new = Chains'
  OBVIOUS
<1>5. PICK len : len = ChainLength(rec)
  OBVIOUS
<1>6. PICK x : x = NewRow(c)
  OBVIOUS
<1>7. /\ len \in Nat /\ ch[rec] \in [1..len -> History!Link]
      /\ \A n \in 1..len : ch[rec][n].id = RowNumbered(rec, n).id
  BY <1>3, <1>5, ChainType DEF Chains
<1>8. /\ ChainLength(rec)' = len + 1
      /\ \A n \in 1..len : RowNumbered(rec, n)' = RowNumbered(rec, n)
      /\ RowNumbered(rec, len + 1)' = x
      /\ x.parent = IF len = 0 THEN NoRevision ELSE RowNumbered(rec, len).id
      /\ x.id = id /\ x.parent \in Revision \cup {NoRevision}
  BY <1>1, <1>2, <1>5, <1>6, OwnChain, CommitAppends DEF NewRow, Row
<1>9. new[rec] = [n \in 1..len + 1 |-> [id     |-> RowNumbered(rec, n)'.id,
                                       parent |-> RowNumbered(rec, n)'.parent]]
  BY <1>4, <1>8 DEF Chains, ChainOf
<1>10. ch[rec] = [n \in 1..len |-> [id     |-> RowNumbered(rec, n).id,
                                   parent |-> RowNumbered(rec, n).parent]]
  BY <1>3, <1>5 DEF Chains, ChainOf
<1>11. /\ \A n \in 1..len : new[rec][n] = ch[rec][n]
       /\ new[rec][len + 1] = [id |-> id, parent |-> x.parent]
  BY <1>7, <1>8, <1>9, <1>10
<1>12. new[rec] \in [1..len + 1 -> History!Link]
  <2>1. new[rec][len + 1] \in History!Link
    BY <1>8, <1>11 DEF History!Link
  <2>2. \A n \in 1..len + 1 : new[rec][n] \in History!Link
    BY <1>7, <1>11, <2>1
  <2> QED BY <1>9, <2>2
<1>13. new[rec] = Append(ch[rec], [id |-> id, parent |-> x.parent])
  BY <1>7, <1>11, <1>12, FunctionIsAppend
<1>14. Len(ch[rec]) = len /\ (ch[rec] = <<>> <=> len = 0)
  BY <1>7, FunctionIsSeq
<1>15. x.parent = IF ch[rec] = <<>> THEN NoRevision ELSE ch[rec][Len(ch[rec])].id
  BY <1>7, <1>8, <1>14
<1>16. \A other \in Recording \ {rec} : new[other] = ch[other]
  BY <1>1, <1>3, <1>4, OtherChains DEF Chains
<1>17. new = [ch EXCEPT ![rec] = Append(ch[rec], [id |-> id, parent |-> x.parent])]
  <2>1. new = [r \in Recording |-> new[r]] /\ ch = [r \in Recording |-> ch[r]]
    BY <1>3, <1>4 DEF Chains
  <2> QED BY <1>13, <1>16, <2>1
<1>18. ASSUME NEW other \in Recording, NEW n \in 1..Len(ch[other])
       PROVE  ch[other][n].id # id
  <2>1. PICK k : k = ChainLength(other)
    OBVIOUS
  <2>2. k \in Nat /\ ch[other] \in [1..k -> History!Link]
    BY <1>3, <2>1, ChainType DEF Chains
  <2>3. Len(ch[other]) = k
    BY <2>2, FunctionIsSeq
  <2>4. ch[other][n].id = RowNumbered(other, n).id /\ RowNumbered(other, n) \in revisions
    BY <1>3, <2>1, <2>3, ChainType DEF Chains
  <2> QED BY <1>2, <2>4, CommitAppends DEF NewRow, Collides, SameId
<1>19. History!Commit(rec, id)
  BY <1>3, <1>4, <1>15, <1>17, <1>18
     DEF History!Commit, History!Recorded, History!Tip, Chains
<1> QED BY <1>19

(* The transactions of the store implement the append-only history.           *)
THEOREM StoreImplementsHistory == Spec => ImplementsHistory
<1>1. Init => History!Init
  BY DEF Init, History!Init, ChainOf, ChainLength
<1>2. ASSUME IInv, [Next]_vars
      PROVE  [History!Next]_Chains
  <2>1. CASE \E c \in Call : Commit(c)
    BY <1>2, <2>1, ChainAppends DEF History!Next
  <2>2. CASE ~\E c \in Call : Commit(c)
    <3>1. UNCHANGED tables
      BY <1>2, <2>2 DEF Next, vars, Start, Statement, CheckIdempotent, LookupRecording,
         AddRecording, ReadHead, InsertRevision, RefuseContent, AdvanceHead,
         LoseConnection, Return, Rollback
    <3> QED BY <3>1, NoTableNoChange
  <2> QED BY <2>1, <2>2
<1>3. IInv /\ [Next]_vars => [History!Next]_[rec \in Recording |-> ChainOf(rec)]
  BY <1>2 DEF Chains
<1> QED
  BY <1>1, <1>3, StoreInvariant, PTL DEF Spec, ImplementsHistory, History!Spec

-----------------------------------------------------------------------------

(* The call of a program has ensured the bundles before the present one, and  *)
(* a call of a program that is starting goes through all of them.             *)
CallInOrder(p) ==
  step[p] # "idle" =>
    /\ goal[p] \in 1..Len(release[p])
    /\ item[p] \in 1..goal[p]
    /\ \A i \in 1..(item[p] - 1) : release[p][i] \in versions
    /\ up[p] \/ goal[p] = Len(release[p])

(* What a step has read still stands when a later one relies on it. *)
ReadingsHold(p) ==
  /\ step[p] = "verify" => found[p] \in versions /\ SameLabel(found[p], required(p))
  /\ step[p] = "relist" => namespace(p) \in libraries
  /\ step[p] = "reversions" => \E v \in versions : Conflicting(v, required(p))
  /\ step[p] = "refused" => \E v \in versions : Conflicting(v, required(p)) /\ v # required(p)

HasRequired(p) == up[p] => \A i \in DOMAIN release[p] : release[p][i] \in versions

LibraryInvariant ==
  /\ LibraryTypeOK
  /\ \A p \in Program : CallInOrder(p) /\ ReadingsHold(p) /\ HasRequired(p)

-----------------------------------------------------------------------------
LEMMA ReleaseIsSequence ==
  ASSUME LibraryTypeOK, NEW p \in Program
  PROVE  release[p] \in Seq(Version) /\ Len(release[p]) \in Nat \ {0}
<1>1. release \in [Program -> Seq(Version) \ {<<>>}]
  BY InstalledAssumption DEF LibraryTypeOK
<1>2. release[p] \in Seq(Version) /\ release[p] # <<>>
  BY <1>1
<1>3. Len(release[p]) \in Nat /\ Len(release[p]) # 0
  BY <1>2
<1> QED
  BY <1>2, <1>3

(* The bundle a call works on is one of the program's versions. *)
LEMMA RequiredIsVersion ==
  ASSUME LibraryTypeOK, NEW p \in Program, CallInOrder(p), step[p] # "idle"
  PROVE  required(p) \in Version /\ namespace(p) \in Namespace
<1>1. release[p] \in Seq(Version) /\ Len(release[p]) \in Nat
  BY ReleaseIsSequence
<1>2. item[p] \in 1..Len(release[p])
  BY <1>1 DEF CallInOrder
<1>3. required(p) \in Version
  BY <1>1, <1>2 DEF required
<1> QED
  BY <1>3 DEF namespace, Version

(* A version is its namespace, its label and its content. *)
LEMMA VersionsAreEqual ==
  ASSUME NEW v \in Version, NEW w \in Version, SameLabel(v, w), v.content = w.content
  PROVE  v = w
  BY DEF Version, SameLabel

LEMMA LibraryInitially == LibraryInit => LibraryInvariant
  BY DEF LibraryInit, LibraryInvariant, LibraryTypeOK, CallInOrder, ReadingsHold, HasRequired

(* A program that does nothing keeps its part of the invariant while the       *)
(* tables grow.                                                                *)
LEMMA BystanderKeepsItsPart ==
  ASSUME NEW q \in Program, CallInOrder(q), ReadingsHold(q), HasRequired(q),
         release' = release, libraries \subseteq libraries', versions \subseteq versions',
         step'[q] = step[q], item'[q] = item[q], goal'[q] = goal[q],
         found'[q] = found[q], up'[q] = up[q]
  PROVE  CallInOrder(q)' /\ ReadingsHold(q)' /\ HasRequired(q)'
<1>1. required(q)' = required(q) /\ namespace(q)' = namespace(q)
  BY DEF required, namespace
<1>2. CallInOrder(q)'
  BY DEF CallInOrder
<1>3. ReadingsHold(q)'
  BY <1>1 DEF ReadingsHold
<1>4. HasRequired(q)'
  BY DEF HasRequired
<1> QED
  BY <1>2, <1>3, <1>4

(* A step that only moves on within the call. *)
LEMMA GoOnKeepsTheInvariant ==
  ASSUME LibraryInvariant, NEW p \in Program, NEW next \in Active \cup {"refused"},
         GoOn(p, next), step[p] # "idle", next # "verify",
         next = "relist" => namespace(p) \in libraries,
         next = "reversions" => \E v \in versions : Conflicting(v, required(p)),
         next = "refused" => \E v \in versions : Conflicting(v, required(p)) /\ v # required(p)
  PROVE  LibraryInvariant'
<1>1. LibraryTypeOK'
  BY DEF LibraryInvariant, LibraryTypeOK, GoOn, Proceed
<1>2. step' = [step EXCEPT ![p] = next] /\ step'[p] = next
  BY DEF GoOn, Proceed, LibraryInvariant, LibraryTypeOK
<1>3. ASSUME NEW q \in Program
      PROVE  CallInOrder(q)' /\ ReadingsHold(q)' /\ HasRequired(q)'
  <2>0. CallInOrder(q) /\ ReadingsHold(q) /\ HasRequired(q)
    BY DEF LibraryInvariant
  <2>1. CASE q # p
    BY <2>0, <2>1, <1>2, BystanderKeepsItsPart DEF GoOn
  <2>2. CASE q = p
    <3>1. CallInOrder(q)' /\ HasRequired(q)'
      BY <2>0, <2>2, <1>2 DEF GoOn, CallInOrder, HasRequired
    <3>2. required(q)' = required(q) /\ namespace(q)' = namespace(q)
      BY DEF GoOn, required, namespace
    <3>3. ReadingsHold(q)'
      BY <2>2, <1>2, <3>2 DEF GoOn, ReadingsHold
    <3> QED
      BY <3>1, <3>3
  <2> QED
    BY <2>1, <2>2
<1> QED
  BY <1>1, <1>3 DEF LibraryInvariant

(* The end of a call, when what was published stays. *)
LEMMA LeaveKeepsTheInvariant ==
  ASSUME LibraryInvariant, NEW p \in Program, NEW running \in BOOLEAN, Leave(p, running),
         libraries \subseteq libraries', versions \subseteq versions',
         libraries' \subseteq Namespace, versions' \subseteq Version,
         running => \A i \in DOMAIN release[p] : release[p][i] \in versions'
  PROVE  LibraryInvariant'
<1>1. LibraryTypeOK'
  BY DEF LibraryInvariant, LibraryTypeOK, Leave, Proceed
<1>2. /\ step' = [step EXCEPT ![p] = "idle"] /\ step'[p] = "idle"
      /\ up' = [up EXCEPT ![p] = running] /\ up'[p] = running
  BY DEF Leave, Proceed, LibraryInvariant, LibraryTypeOK
<1>3. ASSUME NEW q \in Program
      PROVE  CallInOrder(q)' /\ ReadingsHold(q)' /\ HasRequired(q)'
  <2>0. CallInOrder(q) /\ ReadingsHold(q) /\ HasRequired(q)
    BY DEF LibraryInvariant
  <2>1. CASE q # p
    BY <2>0, <2>1, <1>2, BystanderKeepsItsPart DEF Leave
  <2>2. CASE q = p
    BY <2>2, <1>2 DEF Leave, CallInOrder, ReadingsHold, HasRequired
  <2> QED
    BY <2>1, <2>2
<1> QED
  BY <1>1, <1>3 DEF LibraryInvariant

(* A version with the required label is at hand for verification. *)
LEMMA FindingKeepsTheInvariant ==
  ASSUME LibraryInvariant, NEW p \in Program, NEW v, step[p] # "idle",
         step' = [step EXCEPT ![p] = "verify"], found' = [found EXCEPT ![p] = v],
         v \in versions', SameLabel(v, required(p)),
         versions \subseteq versions', versions' \subseteq Version,
         UNCHANGED <<release, libraries, up, item, goal>>
  PROVE  LibraryInvariant'
<1>1. LibraryTypeOK'
  BY DEF LibraryInvariant, LibraryTypeOK, Active
<1>2. step'[p] = "verify" /\ found'[p] = v
  BY DEF LibraryInvariant, LibraryTypeOK
<1>3. ASSUME NEW q \in Program
      PROVE  CallInOrder(q)' /\ ReadingsHold(q)' /\ HasRequired(q)'
  <2>0. CallInOrder(q) /\ ReadingsHold(q) /\ HasRequired(q)
    BY DEF LibraryInvariant
  <2>1. CASE q # p
    BY <2>0, <2>1, <1>2, BystanderKeepsItsPart
  <2>2. CASE q = p
    <3>1. CallInOrder(q)' /\ HasRequired(q)'
      BY <2>0, <2>2, <1>2 DEF CallInOrder, HasRequired
    <3>2. required(q)' = required(q)
      BY DEF required
    <3>3. ReadingsHold(q)'
      BY <2>2, <1>2, <3>2 DEF ReadingsHold
    <3> QED
      BY <3>1, <3>3
  <2> QED
    BY <2>1, <2>2
<1> QED
  BY <1>1, <1>3 DEF LibraryInvariant

(* Both ways a call begins. *)
LEMMA EnsureKeepsTheInvariant ==
  ASSUME LibraryInvariant, NEW p \in Program, NEW last \in 1..Len(release[p]),
         Ensure(p, last), up[p] \/ last = Len(release[p])
  PROVE  LibraryInvariant'
<1>0. Len(release[p]) \in Nat \ {0}
  BY ReleaseIsSequence DEF LibraryInvariant
<1>1. LibraryTypeOK'
  BY <1>0 DEF LibraryInvariant, LibraryTypeOK, Ensure, Proceed, Active
<1>2. step'[p] = "list" /\ item'[p] = 1 /\ goal'[p] = last
  BY DEF LibraryInvariant, LibraryTypeOK, Ensure, Proceed
<1>3. ASSUME NEW q \in Program
      PROVE  CallInOrder(q)' /\ ReadingsHold(q)' /\ HasRequired(q)'
  <2>0. CallInOrder(q) /\ ReadingsHold(q) /\ HasRequired(q)
    BY DEF LibraryInvariant
  <2>1. CASE q # p
    BY <2>0, <2>1, BystanderKeepsItsPart DEF Ensure, Proceed, LibraryInvariant, LibraryTypeOK
  <2>2. CASE q = p
    <3>1. CallInOrder(q)'
      BY <2>2, <1>0, <1>2 DEF Ensure, CallInOrder
    <3>2. ReadingsHold(q)' /\ HasRequired(q)'
      BY <2>0, <2>2, <1>2 DEF Ensure, ReadingsHold, HasRequired
    <3> QED
      BY <3>1, <3>2
  <2> QED
    BY <2>1, <2>2
<1> QED
  BY <1>1, <1>3 DEF LibraryInvariant

(* Reading the versions of a library, where a caller without its label goes   *)
(* on to "otherwise".                                                         *)
LEMMA ReadVersionsKeepsTheInvariant ==
  ASSUME LibraryInvariant, NEW p \in Program, step[p] # "idle",
         NEW otherwise \in {"refused", "publish"}, ReadVersions(p, otherwise),
         otherwise = "refused" => \E v \in versions : Conflicting(v, required(p))
  PROVE  LibraryInvariant'
<1> DEFINE labelled == {v \in versions : SameLabel(v, required(p))}
<1>1. CASE labelled # {}
  <2>1. PICK v \in labelled : found' = [found EXCEPT ![p] = v]
    BY <1>1 DEF ReadVersions
  <2> QED
    BY <1>1, <2>1, FindingKeepsTheInvariant
    DEF ReadVersions, Proceed, LibraryInvariant, LibraryTypeOK
<1>2. CASE labelled = {}
  <2>1. GoOn(p, otherwise)
    BY <1>2 DEF ReadVersions
  <2>2. ASSUME NEW v \in versions, Conflicting(v, required(p))
        PROVE  v # required(p)
    BY <2>2, <1>2 DEF SameLabel
  <2> QED
    BY <2>1, <2>2, GoOnKeepsTheInvariant DEF Active
<1> QED
  BY <1>1, <1>2

(* A bundle that is published and verified. *)
LEMMA EnsuredKeepsTheInvariant ==
  ASSUME LibraryInvariant, NEW p \in Program, step[p] = "verify", Ensured(p),
         required(p) \in versions
  PROVE  LibraryInvariant'
<1>0. LibraryTypeOK /\ CallInOrder(p) /\ ReadingsHold(p) /\ HasRequired(p)
  BY DEF LibraryInvariant
<1>1. release[p] \in Seq(Version) /\ Len(release[p]) \in Nat \ {0}
  BY <1>0, ReleaseIsSequence
<1>2. /\ goal[p] \in 1..Len(release[p]) /\ item[p] \in 1..goal[p]
      /\ up[p] \/ goal[p] = Len(release[p])
  BY <1>0 DEF CallInOrder
<1>3. \A i \in 1..item[p] : release[p][i] \in versions
  BY <1>0, <1>1, <1>2 DEF CallInOrder, required
<1>4. CASE item[p] < goal[p]
  <2>1. LibraryTypeOK'
    BY <1>0, <1>4 DEF LibraryTypeOK, Ensured, Proceed, Active
  <2>2. step'[p] = "list" /\ item'[p] = item[p] + 1
    BY <1>0, <1>4 DEF LibraryTypeOK, Ensured, Proceed
  <2>3. ASSUME NEW q \in Program
        PROVE  CallInOrder(q)' /\ ReadingsHold(q)' /\ HasRequired(q)'
    <3>0. CallInOrder(q) /\ ReadingsHold(q) /\ HasRequired(q)
      BY DEF LibraryInvariant
    <3>1. CASE q # p
      BY <3>0, <3>1, <1>0, <1>4, BystanderKeepsItsPart DEF Ensured, Proceed, LibraryTypeOK
    <3>2. CASE q = p
      <4>1. CallInOrder(q)'
        BY <3>2, <1>1, <1>2, <1>3, <1>4, <2>2 DEF Ensured, CallInOrder
      <4>2. ReadingsHold(q)' /\ HasRequired(q)'
        BY <3>0, <3>2, <1>4, <2>2 DEF Ensured, ReadingsHold, HasRequired
      <4> QED
        BY <4>1, <4>2
    <3> QED
      BY <3>1, <3>2
  <2> QED
    BY <2>1, <2>3 DEF LibraryInvariant
<1>5. CASE ~(item[p] < goal[p])
  <2>1. item[p] = goal[p]
    BY <1>1, <1>2, <1>5
  <2>2. \A i \in DOMAIN release[p] : release[p][i] \in versions
    <3>1. CASE up[p]
      BY <3>1, <1>0 DEF HasRequired
    <3>2. CASE goal[p] = Len(release[p])
      BY <3>2, <2>1, <1>1, <1>3
    <3> QED
      BY <3>1, <3>2, <1>2
  <2>3. Leave(p, TRUE) /\ UNCHANGED <<libraries, versions>>
    BY <1>5 DEF Ensured
  <2> QED
    BY <2>2, <2>3, LeaveKeepsTheInvariant DEF LibraryInvariant, LibraryTypeOK
<1> QED
  BY <1>4, <1>5

LEMMA LibraryStepKeepsTheInvariant == LibraryInvariant /\ LibraryNext => LibraryInvariant'
<1> SUFFICES ASSUME LibraryInvariant, NEW p \in Program,
                    \/ StartProgram(p) \/ UseCoreLibrary(p)
                    \/ ListLibraries(p) \/ CreateLibrary(p) \/ CommitLibrary(p)
                    \/ RelistLibraries(p) \/ ListVersions(p) \/ PublishVersion(p)
                    \/ CommitVersion(p) \/ RelistVersions(p) \/ VerifyContent(p)
                    \/ LoseDatabase(p) \/ ReportRefusal(p) \/ EndProgram(p)
             PROVE  LibraryInvariant'
  BY DEF LibraryNext
<1>0. LibraryTypeOK /\ CallInOrder(p) /\ ReadingsHold(p) /\ HasRequired(p)
  BY DEF LibraryInvariant
<1>a. Len(release[p]) \in Nat \ {0}
  BY <1>0, ReleaseIsSequence
<1>b. up[p] \in BOOLEAN
  BY <1>0 DEF LibraryTypeOK
<1>c. step[p] # "idle" => required(p) \in Version /\ namespace(p) \in Namespace
  BY <1>0, RequiredIsVersion
<1>d. libraries \subseteq Namespace /\ versions \subseteq Version
  BY <1>0 DEF LibraryTypeOK
<1>1. CASE StartProgram(p)
  BY <1>1, <1>a, EnsureKeepsTheInvariant DEF StartProgram
<1>2. CASE UseCoreLibrary(p)
  BY <1>2, <1>a, EnsureKeepsTheInvariant DEF UseCoreLibrary
<1>3. CASE ListLibraries(p)
  BY <1>3, GoOnKeepsTheInvariant DEF ListLibraries, Active
<1>4. CASE CreateLibrary(p)
  BY <1>4, GoOnKeepsTheInvariant DEF CreateLibrary, Active
<1>5. CASE CommitLibrary(p)
  <2>1. /\ step[p] = "commitlibrary" /\ libraries' = libraries \cup {namespace(p)}
        /\ versions' = versions /\ namespace(p) \in Namespace
    BY <1>5, <1>c DEF CommitLibrary
  <2>2. CASE Leave(p, up[p])
    BY <2>1, <2>2, <1>0, <1>b, <1>d, LeaveKeepsTheInvariant DEF HasRequired
  <2>3. CASE Proceed(p, "versions") /\ UNCHANGED <<release, up, item, goal, found>>
    <3>1. LibraryTypeOK'
      BY <2>1, <2>3, <1>0 DEF LibraryTypeOK, Proceed, Active
    <3>2. step'[p] = "versions"
      BY <2>3, <1>0 DEF LibraryTypeOK, Proceed
    <3>3. ASSUME NEW q \in Program
          PROVE  CallInOrder(q)' /\ ReadingsHold(q)' /\ HasRequired(q)'
      <4>0. CallInOrder(q) /\ ReadingsHold(q) /\ HasRequired(q)
        BY DEF LibraryInvariant
      <4>1. CASE q # p
        BY <4>0, <4>1, <2>1, <2>3, <1>0, BystanderKeepsItsPart DEF Proceed, LibraryTypeOK
      <4>2. CASE q = p
        BY <4>0, <4>2, <2>1, <2>3, <3>2 DEF CallInOrder, ReadingsHold, HasRequired
      <4> QED
        BY <4>1, <4>2
    <3> QED
      BY <3>1, <3>3 DEF LibraryInvariant
  <2> QED
    BY <1>5, <2>2, <2>3 DEF CommitLibrary
<1>6. CASE RelistLibraries(p)
  BY <1>6, <1>0, GoOnKeepsTheInvariant DEF RelistLibraries, ReadingsHold, Active
<1>7. CASE ListVersions(p)
  <2>1. CASE \E v \in versions : SameContent(v, required(p))
    BY <2>1, <1>7, ReadVersionsKeepsTheInvariant DEF ListVersions, Conflicting
  <2>2. CASE ~\E v \in versions : SameContent(v, required(p))
    BY <2>2, <1>7, ReadVersionsKeepsTheInvariant DEF ListVersions
  <2> QED
    BY <2>1, <2>2
<1>8. CASE PublishVersion(p)
  BY <1>8, GoOnKeepsTheInvariant DEF PublishVersion, Active
<1>9. CASE CommitVersion(p)
  <2>1. /\ step[p] = "commitversion" /\ versions' = versions \cup {required(p)}
        /\ libraries' = libraries /\ required(p) \in Version
    BY <1>9, <1>c DEF CommitVersion
  <2>2. CASE Leave(p, up[p])
    BY <2>1, <2>2, <1>0, <1>b, <1>d, LeaveKeepsTheInvariant DEF HasRequired
  <2>3. CASE /\ Proceed(p, "verify") /\ found' = [found EXCEPT ![p] = required(p)]
             /\ UNCHANGED <<release, up, item, goal>>
    BY <2>1, <2>3, <1>d, FindingKeepsTheInvariant DEF Proceed, SameLabel
  <2> QED
    BY <1>9, <2>2, <2>3 DEF CommitVersion
<1>10. CASE RelistVersions(p)
  BY <1>10, <1>0, ReadVersionsKeepsTheInvariant DEF RelistVersions, ReadingsHold
<1>11. CASE VerifyContent(p)
  <2>1. /\ step[p] = "verify" /\ found[p] \in versions /\ found[p] \in Version
        /\ SameLabel(found[p], required(p)) /\ required(p) \in Version
    BY <1>11, <1>0, <1>c, <1>d DEF VerifyContent, ReadingsHold
  <2>2. CASE found[p].content = required(p).content
    <3>1. required(p) \in versions
      BY <2>1, <2>2, VersionsAreEqual
    <3> QED
      BY <2>1, <2>2, <3>1, <1>11, EnsuredKeepsTheInvariant DEF VerifyContent
  <2>3. CASE found[p].content # required(p).content
    <3>1. Conflicting(found[p], required(p)) /\ found[p] # required(p)
      BY <2>1, <2>3 DEF Conflicting
    <3> QED
      BY <2>1, <2>3, <3>1, <1>11, GoOnKeepsTheInvariant DEF VerifyContent
  <2> QED
    BY <2>2, <2>3
<1>12. CASE LoseDatabase(p)
  BY <1>12, <1>0, <1>b, <1>d, LeaveKeepsTheInvariant DEF LoseDatabase, HasRequired
<1>13. CASE ReportRefusal(p)
  BY <1>13, <1>0, <1>b, <1>d, LeaveKeepsTheInvariant DEF ReportRefusal, HasRequired
<1>14. CASE EndProgram(p)
  BY <1>14, <1>d, LeaveKeepsTheInvariant DEF EndProgram
<1> QED
  BY <1>1, <1>2, <1>3, <1>4, <1>5, <1>6, <1>7, <1>8, <1>9, <1>10, <1>11, <1>12, <1>13, <1>14

LEMMA LibraryStutterKeepsTheInvariant ==
  ASSUME LibraryInvariant, UNCHANGED libraryVars
  PROVE  LibraryInvariant'
  BY DEF LibraryInvariant, libraryVars, LibraryTypeOK, CallInOrder, ReadingsHold, HasRequired,
         required, namespace, Conflicting, SameLabel, SameContent

-----------------------------------------------------------------------------
(* The inductive invariant of the publication holds while recordings are       *)
(* saved beside it. (core_library.ensure_publication)                          *)
THEOREM PublicationInvariant == DatabaseSpec => []LibraryInvariant
<1>1. LibraryInvariant /\ [StoreStep \/ LibraryStep]_databaseVars => LibraryInvariant'
  <2> SUFFICES ASSUME LibraryInvariant, [StoreStep \/ LibraryStep]_databaseVars
               PROVE  LibraryInvariant'
    OBVIOUS
  <2>1. CASE StoreStep
    BY <2>1, LibraryStutterKeepsTheInvariant DEF StoreStep
  <2>2. CASE LibraryStep
    BY <2>2, LibraryStepKeepsTheInvariant DEF LibraryStep
  <2>3. CASE UNCHANGED databaseVars
    BY <2>3, LibraryStutterKeepsTheInvariant DEF databaseVars
  <2> QED
    BY <2>1, <2>2, <2>3
<1> QED
  BY LibraryInitially, <1>1, PTL DEF DatabaseSpec, DatabaseInit

(* Every program that runs finds its libraries in the database, with exactly   *)
(* its content. (core_library.ensure_publication)                              *)
THEOREM RequiredStaysPublished == DatabaseSpec => []RequiredIsPublished
<1>1. LibraryInvariant => RequiredIsPublished
  BY DEF LibraryInvariant, HasRequired, RequiredIsPublished
<1> QED
  BY <1>1, PublicationInvariant, PTL

(* A program is refused its libraries only because of other content.           *)
(* (core_library.ensure_publication)                                           *)
THEOREM LibraryRefusalsAreGenuine == DatabaseSpec => []LibraryRefusalIsGenuine
<1>1. LibraryInvariant => LibraryRefusalIsGenuine
  BY DEF LibraryInvariant, ReadingsHold, LibraryRefusalIsGenuine
<1> QED
  BY <1>1, PublicationInvariant, PTL

(* The calls of the programs behave as RecordingStore allows, so that its      *)
(* theorems hold of them. (RecordingRepository.create and save)                *)
THEOREM DatabaseImplementsStore == DatabaseSpec => Spec
<1>1. [StoreStep \/ LibraryStep]_databaseVars => [Next]_vars
  <2>1. StoreStep => Next
    BY DEF StoreStep, Next
  <2> QED
    BY <2>1 DEF LibraryStep, databaseVars
<1> QED
  BY <1>1, PTL DEF DatabaseSpec, DatabaseInit, Spec

(* What holds of the store therefore holds of the programs that run on it: one *)
(* numbered chain for every recording, no answer ok without a row, no conflict *)
(* without another revision, and appends that look atomic.                     *)
THEOREM ProgramsKeepTheStore ==
  DatabaseSpec => /\ []NumberedChain /\ []OkIsStored
                  /\ ConcurrentIsJustified /\ ImplementsHistory
  BY DatabaseImplementsStore, ChainIsNumbered, OkMeansStored, ConcurrentMeansMoved,
     StoreImplementsHistory, PTL
=============================================================================
