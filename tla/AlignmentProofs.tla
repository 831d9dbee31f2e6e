--------------------------- MODULE AlignmentProofs ---------------------------
(* Proofs about AlignmentPipeline: its types, that no upload ever damages or     *)
(* loses an object, that every version has its audio, that an alignment has one *)
(* owner, that readers see exactly the complete alignments, and that the report *)
(* of a run that ended is true.                                                  *)
EXTENDS AlignmentPipeline, WellFoundedInduction, TLAPS

-----------------------------------------------------------------------------
\* Induction over the naturals, from the least counterexample.
Below == {pair \in Nat \X Nat : pair[1] < pair[2]}

LEMMA BelowIsWellFounded == IsWellFoundedOn(Below, Nat)
  BY NatLessThanWellFounded DEF OpToRel, Below

LEMMA LeastElement ==
  ASSUME NEW T \in SUBSET Nat, T # {}
  PROVE  \E m \in T : \A k \in T : m <= k
<1>1. PICK m \in T : \A k \in T : ~(<<k, m>> \in Below)
  BY BelowIsWellFounded, WFMin
<1>2. \A k \in Nat : k < m => <<k, m>> \in Below
  BY DEF Below
<1>3. \A k \in T : ~(k < m)
  BY <1>1, <1>2
<1>4. m \in Int /\ \A k \in T : k \in Int
  OBVIOUS
<1> QED
  BY <1>3, <1>4

LEMMA Induction ==
  ASSUME NEW S, 0 \in S, \A n \in Nat : n \in S => n + 1 \in S
  PROVE  \A n \in Nat : n \in S
<1> SUFFICES ASSUME Nat \ S # {} PROVE FALSE
  OBVIOUS
<1>1. PICK m \in Nat \ S : \A k \in Nat \ S : m <= k
  <2>1. Nat \ S \in SUBSET Nat
    OBVIOUS
  <2> QED
    BY <2>1, LeastElement
<1>2. m - 1 \in Nat /\ m - 1 \in S
  BY <1>1
<1> QED
  BY <1>1, <1>2

-----------------------------------------------------------------------------
\* What the loader returns, for a document of any length: a list of entries of
\* the document, no two of them with the same id.
DistinctEntries(entries) ==
  \A i, j \in DOMAIN entries : entries[i].id = entries[j].id => i = j
Loaded ==
  {l \in [entries : Seq(RawEntry), issues : Nat, stopped : BOOLEAN] : DistinctEntries(l.entries)}

LEMMA LoadEntryKeeps ==
  ASSUME NEW l \in Loaded, NEW raw \in RawEntry, NEW failFast \in BOOLEAN
  PROVE  LoadEntry(l, raw, failFast) \in Loaded
<1>1. CASE l.stopped \/ ~WellFormed(raw) \/ Duplicates(l.entries, raw)
  <2>1. LoadEntry(l, raw, failFast) \in {l, [l EXCEPT !.issues = @ + 1, !.stopped = failFast]}
    BY <1>1 DEF LoadEntry
  <2> DEFINE refused == [l EXCEPT !.issues = @ + 1, !.stopped = failFast]
  <2>2. l \in [entries : Seq(RawEntry), issues : Nat, stopped : BOOLEAN]
    BY DEF Loaded
  <2>3. refused \in [entries : Seq(RawEntry), issues : Nat, stopped : BOOLEAN]
    <3> DEFINE R == [entries : Seq(RawEntry), issues : Nat, stopped : BOOLEAN]
               counted == [l EXCEPT !.issues = @ + 1]
    <3>1. \A k \in R, n \in Nat : [k EXCEPT !.issues = n] \in R
      OBVIOUS
    <3>2. \A k \in R, b \in BOOLEAN : [k EXCEPT !.stopped = b] \in R
      OBVIOUS
    <3>3. l.issues + 1 \in Nat
      BY <2>2
    <3>4. counted \in R
      BY <2>2, <3>1, <3>3
    <3> QED
      BY <3>2, <3>4
  <2>4. refused.entries = l.entries
    BY <2>2
  <2>5. refused \in Loaded
    BY <2>3, <2>4 DEF Loaded
  <2> QED
    BY <2>1, <2>5
<1>2. CASE ~(l.stopped \/ ~WellFormed(raw) \/ Duplicates(l.entries, raw))
  <2> DEFINE more == Append(l.entries, raw)
  <2>1. LoadEntry(l, raw, failFast) = [l EXCEPT !.entries = more]
    BY <1>2 DEF LoadEntry
  <2>2. more \in Seq(RawEntry) /\ DOMAIN more = 1..(Len(l.entries) + 1)
    BY DEF Loaded
  <2>3. \A i \in DOMAIN l.entries : l.entries[i].id # raw.id
    BY <1>2 DEF Duplicates
  <2>4. DistinctEntries(more)
    BY <2>2, <2>3 DEF DistinctEntries, Loaded
  <2> QED
    BY <2>1, <2>2, <2>4 DEF Loaded
<1> QED
  BY <1>1, <1>2

LEMMA LoadEntriesKeeps ==
  ASSUME NEW d \in Seq(RawEntry), NEW k \in Nat, NEW failFast \in BOOLEAN
  PROVE  LoadEntries(d, k, failFast) \in Loaded
<1>3. PICK zero \in Loaded : zero = [entries |-> <<>>, issues |-> k, stopped |-> FALSE]
  <2>1. /\ [entries |-> <<>>, issues |-> k, stopped |-> FALSE] \in
             [entries : Seq(RawEntry), issues : Nat, stopped : BOOLEAN]
        /\ DistinctEntries(<<>>)
    BY DEF DistinctEntries
  <2> QED
    BY <2>1 DEF Loaded
<1> DEFINE Def(f) == [n \in 0..Len(d) |->
                        IF n = 0 THEN zero ELSE LoadEntry(f[n - 1], d[n], failFast)]
           load == CHOOSE f : f = Def(f)
           Prefix(n, f) == \A m \in 0..n :
                             f[m] = IF m = 0 THEN zero ELSE LoadEntry(f[m - 1], d[m], failFast)
           Good == {n \in Nat : n <= Len(d) => \E f \in [0..n -> Loaded] : Prefix(n, f)}
<1>1. LoadEntries(d, k, failFast) = load[Len(d)]
  BY <1>3 DEF LoadEntries
<1>2. Len(d) \in Nat /\ \A n \in 1..Len(d) : d[n] \in RawEntry
  OBVIOUS
<1>4. Len(d) \in Good
  <2>1. 0 \in Good
    <3>1. [m \in 0..0 |-> zero] \in [0..0 -> Loaded] /\ Prefix(0, [m \in 0..0 |-> zero])
      BY <1>3
    <3> QED
      BY <3>1
  <2>2. ASSUME NEW n \in Nat, n \in Good PROVE n + 1 \in Good
    <3> SUFFICES ASSUME n + 1 <= Len(d)
                 PROVE  \E f \in [0..(n + 1) -> Loaded] : Prefix(n + 1, f)
      OBVIOUS
    <3>1. PICK f \in [0..n -> Loaded] : Prefix(n, f)
      BY <2>2, <1>2
    <3> DEFINE g == [m \in 0..(n + 1) |->
                       IF m = n + 1 THEN LoadEntry(f[n], d[n + 1], failFast) ELSE f[m]]
    <3>2. LoadEntry(f[n], d[n + 1], failFast) \in Loaded
      BY <1>2, LoadEntryKeeps
    <3>3. g \in [0..(n + 1) -> Loaded]
      BY <3>2
    <3>4. Prefix(n + 1, g)
      <4> SUFFICES ASSUME NEW m \in 0..(n + 1)
                   PROVE  g[m] = IF m = 0 THEN zero ELSE LoadEntry(g[m - 1], d[m], failFast)
        OBVIOUS
      <4>1. CASE m = n + 1
        <5>1. g[m] = LoadEntry(f[n], d[m], failFast) /\ g[m - 1] = f[n] /\ m # 0
          BY <4>1
        <5> QED
          BY <5>1
      <4>2. CASE m <= n
        <5>1. g[m] = f[m] /\ (m # 0 => g[m - 1] = f[m - 1]) /\ m \in 0..n
          BY <4>2
        <5> QED
          BY <3>1, <5>1
      <4> QED
        BY <4>1, <4>2
    <3> QED
      BY <3>3, <3>4
  <2> HIDE DEF Good
  <2> QED
    BY <1>2, <2>1, <2>2, Induction
<1>5. \E f : f = Def(f)
  <2>1. PICK f \in [0..Len(d) -> Loaded] : Prefix(Len(d), f)
    BY <1>2, <1>4
  <2>2. f = Def(f)
    BY <2>1
  <2> QED
    BY <2>2
<1>6. load = Def(load)
  BY <1>5
<1> DEFINE Kept == {n \in Nat : n <= Len(d) => load[n] \in Loaded}
<1> HIDE DEF load
<1>7. \A n \in 0..Len(d) :
        load[n] = IF n = 0 THEN zero ELSE LoadEntry(load[n - 1], d[n], failFast)
  BY <1>6
<1>8. 0 \in Kept
  <2>1. load[0] = zero
    BY <1>2, <1>7
  <2> QED
    BY <2>1
<1>9. ASSUME NEW n \in Nat, n \in Kept PROVE n + 1 \in Kept
  <2> SUFFICES ASSUME n + 1 <= Len(d) PROVE load[n + 1] \in Loaded
    OBVIOUS
  <2>1. load[n] \in Loaded /\ d[n + 1] \in RawEntry
    BY <1>2, <1>9
  <2>2. load[n + 1] = LoadEntry(load[n], d[n + 1], failFast)
    BY <1>2, <1>7
  <2> QED
    BY <2>1, <2>2, LoadEntryKeeps
<1>10. Len(d) \in Kept
  <2> HIDE DEF Kept
  <2> QED
    BY <1>2, <1>8, <1>9, Induction
<1> QED
  BY <1>1, <1>2, <1>10

LEMMA LoadRegistryKeeps ==
  ASSUME NEW document \in [hasEntries : BOOLEAN, issues : Nat, entries : Seq(RawEntry)],
         NEW failFast \in BOOLEAN
  PROVE  LoadRegistry(document, failFast) \in Loaded
<1>1. \A n \in Nat : [entries |-> <<>>, issues |-> n, stopped |-> TRUE] \in Loaded
  BY DEF Loaded, DistinctEntries
<1>2. LoadEntries(document.entries, document.issues, failFast) \in Loaded
  BY LoadEntriesKeeps
<1> QED
  BY <1>1, <1>2 DEF LoadRegistry

LEMMA ValidatedEntriesAreDistinct ==
  ASSUME NEW d \in Documents
  PROVE  /\ ValidatedEntries(d, {}) \in Seq(RawEntry)
         /\ DistinctEntries(ValidatedEntries(d, {}))
<1>1. LoadRegistry(d, FALSE) \in Loaded
  BY LoadRegistryKeeps, DocumentsAssumption
<1>2. ValidatedEntries(d, {}) \in {<<>>, LoadRegistry(d, FALSE).entries}
  BY DEF ValidatedEntries, Selected
<1>3. <<>> \in Seq(RawEntry) /\ DistinctEntries(<<>>)
  BY DEF DistinctEntries
<1> QED
  BY <1>1, <1>2, <1>3 DEF Loaded

-----------------------------------------------------------------------------
\* Types.
LEMMA IdleIsTyped == Idle \in WorkerState
  BY DEF Idle, WorkerState, Places, Item, NoItem

LEMMA NoItemIsTyped == NoItem \in Item
  BY DEF Item, NoItem

LEMMA LeaveIsTyped ==
  ASSUME TypeOK, NEW r \in Run, NEW place \in Places, leave(r, place)
  PROVE  worker' \in [Run -> WorkerState]
<1>1. worker[r].entries \in Seq(RawEntry) /\ worker \in [Run -> WorkerState]
  BY DEF TypeOK, WorkerState
<1>2. PICK entries \in Seq(RawEntry), unheard \in SUBSET Recording :
        entries = worker[r].entries /\ unheard = worker[r].unheard
  BY <1>1 DEF WorkerState
<1>3. [[[Idle EXCEPT !.at = place] EXCEPT !.entries = entries] EXCEPT !.unheard = unheard]
        \in WorkerState
  <2>1. [Idle EXCEPT !.at = place] \in WorkerState
    BY IdleIsTyped DEF WorkerState
  <2>2. [[Idle EXCEPT !.at = place] EXCEPT !.entries = entries] \in WorkerState
    BY <2>1 DEF WorkerState
  <2> QED
    BY <2>2 DEF WorkerState
<1>4. worker' = [worker EXCEPT ![r] =
        [[[Idle EXCEPT !.at = place] EXCEPT !.entries = entries] EXCEPT !.unheard = unheard]]
  BY <1>2 DEF leave
<1> QED
  BY <1>1, <1>3, <1>4

LEMMA MoveIsTyped ==
  ASSUME TypeOK, NEW r \in Run, NEW place \in Places, move(r, place)
  PROVE  worker' \in [Run -> WorkerState]
<1>1. worker \in [Run -> WorkerState] /\ worker' = [worker EXCEPT ![r].at = place]
  BY DEF TypeOK, move
<1>2. \A w \in WorkerState : [w EXCEPT !.at = place] \in WorkerState
  BY DEF WorkerState
<1> QED
  BY <1>1, <1>2

LEMMA Next1IsTyped ==
  ASSUME NEW w \in WorkerState
  PROVE  Next1(w) \in WorkerState
<1>1. /\ \A v \in WorkerState, n \in Nat : [v EXCEPT !.next = n] \in WorkerState
      /\ \A v \in WorkerState, place \in Places : [v EXCEPT !.at = place] \in WorkerState
      /\ \A v \in WorkerState, i \in Item : [v EXCEPT !.found = i] \in WorkerState
  BY DEF WorkerState
<1>2. /\ \A v \in WorkerState, seq \in Seq(RawEntry) :
           [v EXCEPT !.entries = seq] \in WorkerState /\ [v EXCEPT !.jobs = seq] \in WorkerState
      /\ \A v \in WorkerState, p \in Profile \cup {None} : [v EXCEPT !.profile = p] \in WorkerState
  BY DEF WorkerState
<1>3. /\ w.next + 1 \in Nat /\ w.entries \in Seq(RawEntry) /\ w.jobs \in Seq(RawEntry)
      /\ w.profile \in Profile \cup {None} /\ {"entry", "finish", "align"} \subseteq Places
  BY DEF WorkerState, Places
<1>4. CASE w.next < Len(w.entries)
  <2>1. [[[w EXCEPT !.next = w.next + 1] EXCEPT !.at = "entry"] EXCEPT !.found = NoItem]
          \in WorkerState
    BY <1>1, <1>3, NoItemIsTyped
  <2> QED
    BY <1>4, <2>1 DEF Next1
<1>5. CASE ~(w.next < Len(w.entries))
  <2> DEFINE kept == [[[Idle EXCEPT !.entries = w.entries] EXCEPT !.profile = w.profile]
                        EXCEPT !.jobs = w.jobs]
  <2>1. kept \in WorkerState
    BY <1>2, <1>3, IdleIsTyped
  <2>2. /\ [kept EXCEPT !.at = "finish"] \in WorkerState
        /\ [kept EXCEPT !.at = "align"] \in WorkerState
    BY <1>1, <1>3, <2>1
  <2>3. Next1(w) = [kept EXCEPT !.at = IF w.jobs = <<>> THEN "finish" ELSE "align"]
    BY <1>5 DEF Next1
  <2> QED
    BY <2>2, <2>3
<1> QED
  BY <1>4, <1>5

LEMMA AdvanceIsTyped ==
  ASSUME TypeOK, NEW r \in Run, advance(r)
  PROVE  worker' \in [Run -> WorkerState]
  BY Next1IsTyped DEF TypeOK, advance

LEMMA EntryIsTyped ==
  ASSUME TypeOK, NEW r \in Run, worker[r].next \in DOMAIN worker[r].entries
  PROVE  /\ entry(r) \in RawEntry
         /\ entry(r).id \in Recording /\ entry(r).content \in Content
         /\ <<entry(r).id, entry(r).content>> \in Version
<1>1. worker[r].entries \in Seq(RawEntry)
  BY DEF TypeOK, WorkerState
<1>2. entry(r) \in RawEntry
  BY <1>1 DEF entry
<1> QED
  BY <1>2, DocumentsAssumption DEF Version

LEMMA IdsAreTyped ==
  ASSUME TypeOK, NEW r \in Run
  PROVE  Ids(r) \subseteq Recording
<1>1. worker[r].entries \in Seq(RawEntry)
  BY DEF TypeOK, WorkerState
<1> QED
  BY <1>1, DocumentsAssumption DEF Ids

\* The transactions keep the types of the tables.
LEMMA SaveItemIsTyped ==
  ASSUME StoreTypeOK, NEW r \in Run, NEW x \in Recording, NEW outcome \in Outcomes,
         NEW content \in Content \cup {None}, SaveItemTx(r, x, outcome, content)
  PROVE  runs' \in [Run -> [status : {"none", "running", "complete", "partial", "failed", "pruned"},
                            item : [Recording -> Item]]]
<1>1. [outcome |-> outcome, content |-> content] \in Item
  BY DEF Item
<1> QED
  BY <1>1 DEF StoreTypeOK, SaveItemTx

LEMMA IngestIsTyped ==
  ASSUME StoreTypeOK, NEW x \in Recording, NEW c \in Content, NEW overwrite, IngestTx(x, c, overwrite)
  PROVE  versions' \subseteq Version /\ current' \in [Recording -> Content \cup {None}]
  BY DEF StoreTypeOK, IngestTx, Version

Row == [status : {"none", "running", "complete", "failed"},
        owner : Run \cup {None}, leased : BOOLEAN, segments : BOOLEAN]

\* What the three transactions on a row of alignments do to it.
RowStep(k, row) ==
  /\ alignment' \in [Version \X Profile -> Row]
  /\ alignment'[k] = row
  /\ \A other \in Version \X Profile : other # k => alignment'[other] = alignment[other]

LEMMA ClaimEffect ==
  ASSUME StoreTypeOK, NEW k \in Version \X Profile, NEW r \in Run, ClaimTx(k, r)
  PROVE  RowStep(k, IF Claimed(k) = "claimed"
                    THEN [alignment[k] EXCEPT !.status = "running", !.owner = r, !.leased = TRUE]
                    ELSE alignment[k])
<1> DEFINE row == [alignment[k] EXCEPT !.status = "running", !.owner = r, !.leased = TRUE]
<1>1. alignment \in [Version \X Profile -> Row]
  BY DEF StoreTypeOK, Row
<1>2. row \in Row
  <2>1. [alignment[k] EXCEPT !.status = "running"] \in Row
    BY <1>1 DEF Row
  <2>2. [[alignment[k] EXCEPT !.status = "running"] EXCEPT !.owner = r] \in Row
    BY <2>1 DEF Row
  <2> QED
    BY <2>2 DEF Row
<1>3. Claimed(k) = "claimed" => alignment' = [alignment EXCEPT ![k] = row]
  BY <1>1 DEF ClaimTx
<1>4. Claimed(k) # "claimed" => alignment' = alignment
  BY DEF ClaimTx
<1> HIDE DEF row
<1>5. CASE Claimed(k) = "claimed"
  BY <1>1, <1>2, <1>3, <1>5 DEF RowStep, row
<1>6. CASE Claimed(k) # "claimed"
  BY <1>1, <1>4, <1>6 DEF RowStep
<1> QED
  BY <1>5, <1>6

LEMMA ClaimIsTyped ==
  ASSUME StoreTypeOK, NEW k \in Version \X Profile, NEW r \in Run, ClaimTx(k, r)
  PROVE  alignment' \in [Version \X Profile -> Row]
  BY ClaimEffect, Zenon DEF RowStep

LEMMA CompleteEffect ==
  ASSUME StoreTypeOK, NEW k \in Version \X Profile, CompleteTx(k)
  PROVE  /\ RowStep(k, [alignment[k] EXCEPT
              !.segments = TRUE,
              !.status = IF @ = "running" THEN "complete" ELSE @,
              !.leased = IF alignment[k].status = "running" THEN FALSE ELSE @])
         /\ published' \in [Version -> Profile \cup {None}]
<1> DEFINE status == IF alignment[k].status = "running" THEN "complete" ELSE alignment[k].status
           leased == IF alignment[k].status = "running" THEN FALSE ELSE alignment[k].leased
           row == [alignment[k] EXCEPT !.segments = TRUE, !.status = status, !.leased = leased]
<1>1. alignment \in [Version \X Profile -> Row]
  BY DEF StoreTypeOK, Row
<1>2. status \in {"none", "running", "complete", "failed"} /\ leased \in BOOLEAN
  BY <1>1 DEF Row
<1>3. row \in Row
  <2> HIDE DEF status, leased
  <2>1. [alignment[k] EXCEPT !.segments = TRUE] \in Row
    BY <1>1 DEF Row
  <2>2. [[alignment[k] EXCEPT !.segments = TRUE] EXCEPT !.status = status] \in Row
    BY <1>2, <2>1 DEF Row
  <2> QED
    BY <1>2, <2>2 DEF Row
<1>4. alignment' = [alignment EXCEPT ![k] = row]
  BY <1>1 DEF CompleteTx, Row
<1>5. RowStep(k, row)
  <2> HIDE DEF row
  <2> QED
    BY <1>1, <1>3, <1>4 DEF RowStep
<1>6. published' \in [Version -> Profile \cup {None}]
  BY DEF StoreTypeOK, CompleteTx
<1> QED
  BY <1>1, <1>5, <1>6 DEF Row

LEMMA LeaseEffect ==
  ASSUME StoreTypeOK, NEW k \in Version \X Profile,
         alignment' = [alignment EXCEPT ![k].leased = FALSE]
  PROVE  RowStep(k, [alignment[k] EXCEPT !.leased = FALSE])
<1> DEFINE row == [alignment[k] EXCEPT !.leased = FALSE]
<1>1. alignment \in [Version \X Profile -> Row]
  BY DEF StoreTypeOK, Row
<1>2. row \in Row
  BY <1>1 DEF Row
<1>3. alignment' = [alignment EXCEPT ![k] = row]
  BY <1>1
<1> HIDE DEF row
<1>4. RowStep(k, row)
  BY <1>1, <1>2, <1>3 DEF RowStep
<1> QED
  BY <1>4 DEF row

LEMMA FailEffect ==
  ASSUME StoreTypeOK, NEW k \in Version \X Profile, FailTx(k)
  PROVE  RowStep(k, [alignment[k] EXCEPT
           !.status = IF @ = "running" THEN "failed" ELSE @,
           !.leased = IF alignment[k].status = "running" THEN FALSE ELSE @])
<1> DEFINE status == IF alignment[k].status = "running" THEN "failed" ELSE alignment[k].status
           leased == IF alignment[k].status = "running" THEN FALSE ELSE alignment[k].leased
           row == [alignment[k] EXCEPT !.status = status, !.leased = leased]
<1>1. alignment \in [Version \X Profile -> Row]
  BY DEF StoreTypeOK, Row
<1>2. status \in {"none", "running", "complete", "failed"} /\ leased \in BOOLEAN
  BY <1>1 DEF Row
<1>3. row \in Row
  <2> HIDE DEF status, leased
  <2>1. [alignment[k] EXCEPT !.status = status] \in Row
    BY <1>1, <1>2 DEF Row
  <2> QED
    BY <1>2, <2>1 DEF Row
<1>4. alignment' = [alignment EXCEPT ![k] = row]
  BY <1>1 DEF FailTx, Row
<1>5. RowStep(k, row)
  <2> HIDE DEF row
  <2> QED
    BY <1>1, <1>3, <1>4 DEF RowStep
<1> QED
  BY <1>1, <1>5 DEF Row

\* The steps of an upload.
LEMMA AudioStepIsTyped ==
  ASSUME AudioTypeOK, NEW b \in Batch, Refuse(b) \/ Preflight(b) \/ Upload(b)
  PROVE  AudioTypeOK'
<1> USE DEF AudioTypeOK
<1>1. /\ \A c \in [at : BatchPlaces, wants : SUBSET Audio, missing : SUBSET Audio],
            place \in BatchPlaces : [c EXCEPT !.at = place]
              \in [at : BatchPlaces, wants : SUBSET Audio, missing : SUBSET Audio]
      /\ \A c \in [at : BatchPlaces, wants : SUBSET Audio, missing : SUBSET Audio],
            rest \in SUBSET Audio : [c EXCEPT !.missing = rest]
              \in [at : BatchPlaces, wants : SUBSET Audio, missing : SUBSET Audio]
  OBVIOUS
<1>2. ASSUME NEW place \in BatchPlaces, Go(b, place)
      PROVE  batch' \in [Batch -> [at : BatchPlaces, wants : SUBSET Audio, missing : SUBSET Audio]]
  BY <1>1, <1>2 DEF Go
<1>3. ASSUME NEW whole \in SUBSET Audio, NEW torn \in SUBSET Audio
      PROVE  Copies(b, whole, torn) \subseteq StagedFile
  BY DEF Copies, StagedFile
<1>4. {"failed", "stored", "staging", "finalizing", "cleaning"} \subseteq BatchPlaces
  BY DEF BatchPlaces
<1>5. CASE Refuse(b)
  BY <1>2, <1>4, <1>5 DEF Refuse
<1>6. CASE Preflight(b)
  <2> DEFINE place == IF Damaged(b) THEN "failed"
                      ELSE IF Missing(b) = {} THEN "stored" ELSE "staging"
             rest == IF Damaged(b) THEN {} ELSE Missing(b)
  <2>1. place \in BatchPlaces /\ rest \in SUBSET Audio
    BY <1>4 DEF Missing
  <2>2. [[batch[b] EXCEPT !.at = place] EXCEPT !.missing = rest]
          \in [at : BatchPlaces, wants : SUBSET Audio, missing : SUBSET Audio]
    <3> HIDE DEF place, rest
    <3> QED
      BY <1>1, <2>1
  <2>3. batch' = [batch EXCEPT ![b] = [[batch[b] EXCEPT !.at = place] EXCEPT !.missing = rest]]
    BY <1>6 DEF Preflight
  <2>4. objects' = objects /\ staging' = staging
    BY <1>6 DEF Preflight
  <2> HIDE DEF place, rest
  <2> QED
    BY <2>2, <2>3, <2>4
<1>7. CASE Stage(b)
  BY <1>2, <1>3, <1>4, <1>7 DEF Stage
<1>8. CASE StageFails(b)
  BY <1>2, <1>3, <1>4, <1>8 DEF StageFails
<1>9. CASE StageTears(b)
  BY <1>2, <1>3, <1>4, <1>9 DEF StageTears
<1>10. CASE FinalizeObject(b)
  <2>1. PICK a \in batch[b].missing :
          /\ staging' = {f \in staging : ~(f.batch = b /\ f.audio = a)}
          /\ objects' = [objects EXCEPT ![a] = IF @ = "absent" THEN "good" ELSE @]
          /\ batch' = [batch EXCEPT ![b].missing = @ \ {a},
                                    ![b].at = IF batch[b].missing = {a} THEN "stored" ELSE @]
    BY <1>10, Zenon DEF FinalizeObject
  <2> DEFINE place == IF batch[b].missing = {a} THEN "stored" ELSE batch[b].at
             rest == batch[b].missing \ {a}
  <2>2. place \in BatchPlaces /\ rest \in SUBSET Audio
    BY <1>4
  <2>3. [[batch[b] EXCEPT !.missing = rest] EXCEPT !.at = place]
          \in [at : BatchPlaces, wants : SUBSET Audio, missing : SUBSET Audio]
    <3> HIDE DEF place, rest
    <3> QED
      BY <1>1, <2>2
  <2>4. batch' = [batch EXCEPT ![b] = [[batch[b] EXCEPT !.missing = rest] EXCEPT !.at = place]]
    BY <2>1
  <2>5. batch' \in [Batch -> [at : BatchPlaces, wants : SUBSET Audio, missing : SUBSET Audio]]
    <3> HIDE DEF place, rest
    <3> QED
      BY <2>3, <2>4
  <2> QED
    BY <2>1, <2>5, Zenon
<1>11. CASE FinalizeFails(b)
  BY <1>2, <1>4, <1>11 DEF FinalizeFails
<1>12. CASE Cleanup(b)
  BY <1>2, <1>4, <1>12 DEF Cleanup
<1> QED
  BY <1>5, <1>6, <1>7, <1>8, <1>9, <1>10, <1>11, <1>12 DEF Upload

\* One step keeps the types.  Shape, defined below, gives the place in the lists.
Before == {"idle", "check", "skip", "doctor", "start", "prepare", "upload"}
Loop == {"entry", "claim", "note"}
Back == {"align", "import", "fail"}

Shape(r) ==
  /\ DistinctEntries(worker[r].entries)
  /\ Running(r) => worker[r].entries # <<>> /\ worker[r].profile \in Profile
  /\ worker[r].at \in Before => worker[r].next = 1 /\ worker[r].jobs = <<>>
  /\ worker[r].at \in Loop => worker[r].next \in DOMAIN worker[r].entries
  /\ worker[r].at \in Back => worker[r].next \in DOMAIN worker[r].jobs
  /\ in(r, "align") => worker[r].next = 1

LEMMA KeyIsTyped ==
  ASSUME TypeOK, NEW r \in Run, Shape(r), Running(r), NEW e \in RawEntry
  PROVE  Key(r, e) \in Version \X Profile /\ Key(r, e)[1] = <<e.id, e.content>>
         /\ Key(r, e)[2] = worker[r].profile
  BY DocumentsAssumption DEF Key, Shape, Version

LEMMA JobIsTyped ==
  ASSUME TypeOK, NEW r \in Run, Shape(r), in(r, "import") \/ in(r, "fail")
  PROVE  /\ job(r) \in RawEntry /\ job(r).id \in Recording /\ job(r).content \in Content
         /\ Key(r, job(r)) \in Version \X Profile
<1>1. worker[r].jobs \in Seq(RawEntry) /\ worker[r].next \in DOMAIN worker[r].jobs
  BY DEF TypeOK, WorkerState, Shape, Back, in
<1>2. job(r) \in RawEntry
  BY <1>1 DEF job
<1> QED
  BY <1>2, KeyIsTyped, DocumentsAssumption DEF Running, in

LEMMA FieldsAreTyped ==
  ASSUME NEW w \in WorkerState
  PROVE  /\ \A place \in Places : [w EXCEPT !.at = place] \in WorkerState
         /\ \A known \in SUBSET Recording : [w EXCEPT !.known = known] \in WorkerState
         /\ \A ready \in SUBSET Recording : [w EXCEPT !.ready = ready] \in WorkerState
         /\ \A next \in Nat : [w EXCEPT !.next = next] \in WorkerState
         /\ \A found \in Item : [w EXCEPT !.found = found] \in WorkerState
         /\ \A got \in SUBSET Recording : [w EXCEPT !.aligned = got] \in WorkerState
         /\ \A lost \in SUBSET Recording : [w EXCEPT !.unheard = lost] \in WorkerState
         /\ \A jobs \in Seq(RawEntry) : [w EXCEPT !.jobs = jobs] \in WorkerState
         /\ \A entries \in Seq(RawEntry) : [w EXCEPT !.entries = entries] \in WorkerState
         /\ \A p \in Profile : [w EXCEPT !.profile = p] \in WorkerState
         /\ \A b \in BOOLEAN : /\ [w EXCEPT !.overwrite = b] \in WorkerState
                               /\ [w EXCEPT !.continues = b] \in WorkerState
                               /\ [w EXCEPT !.aborted = b] \in WorkerState
  BY DEF WorkerState

LEMMA BeforeIsTyped ==
  ASSUME TypeOK, NEW r \in Run, Shape(r),
         \/ CheckExisting(r) \/ CompleteAllSkipped(r) \/ Doctor(r) \/ StartRun(r)
         \/ Prepare(r) \/ UploadStep(r) \/ AwaitUploads(r)
         \/ \E d \in Documents, overwrite \in BOOLEAN, p \in Profile, continues \in ContinueOnError :
              Request(r, d, overwrite, p, continues)
  PROVE  TypeOK'
<1>1. worker \in [Run -> WorkerState] /\ worker[r] \in WorkerState
      /\ worker[r].entries \in Seq(RawEntry)
  BY DEF TypeOK, WorkerState
<1>2. \A place \in Places : move(r, place) => worker' \in [Run -> WorkerState]
  BY MoveIsTyped
<1>3. {"skip", "doctor", "start", "refused", "done", "check", "prepare", "upload", "entry"}
        \subseteq Places
  BY DEF Places
<1>4. CASE CheckExisting(r)
  BY <1>2, <1>3, <1>4 DEF CheckExisting, TypeOK, StoreTypeOK, AudioTypeOK, storeVars, audioVars
<1>5. CASE Doctor(r)
  BY <1>2, <1>3, <1>5 DEF Doctor, TypeOK, StoreTypeOK, AudioTypeOK, storeVars, audioVars
<1>6. CASE CompleteAllSkipped(r)
  <2>1. worker' \in [Run -> WorkerState]
    BY <1>3, <1>6, LeaveIsTyped DEF CompleteAllSkipped
  <2>2. [outcome |-> "skipped", content |-> None] \in Item
    BY DEF Item, Outcomes
  <2>3. runs' \in [Run -> [status : {"none", "running", "complete", "partial", "failed", "pruned"},
                           item : [Recording -> Item]]]
    BY <1>6, <2>2, NoItemIsTyped DEF CompleteAllSkipped, SkipAllTx, TypeOK, StoreTypeOK
  <2>4. started' \in Seq(Run)
    BY <1>6 DEF CompleteAllSkipped, SkipAllTx, TypeOK, StoreTypeOK
  <2> QED
    BY <1>6, <2>1, <2>3, <2>4 DEF CompleteAllSkipped, TypeOK, StoreTypeOK, AudioTypeOK, audioVars
<1>7. CASE StartRun(r)
  <2>1. Existing(Ids(r)) \in SUBSET Recording
    BY IdsAreTyped DEF Existing
  <2>2. [[worker[r] EXCEPT !.known = Existing(Ids(r))] EXCEPT !.at = "prepare"] \in WorkerState
    BY <1>1, <1>3, <2>1, FieldsAreTyped
  <2>3. worker' \in [Run -> WorkerState]
    BY <1>1, <1>7, <2>2 DEF StartRun
  <2>4. runs' \in [Run -> [status : {"none", "running", "complete", "partial", "failed", "pruned"},
                           item : [Recording -> Item]]]
    BY <1>7 DEF StartRun, StartRunTx, TypeOK, StoreTypeOK
  <2>5. started' \in Seq(Run)
    BY <1>7 DEF StartRun, StartRunTx, TypeOK, StoreTypeOK
  <2> QED
    BY <1>7, <2>3, <2>4, <2>5 DEF StartRun, TypeOK, StoreTypeOK, AudioTypeOK, audioVars
<1>8. CASE Prepare(r)
  <2>1. PICK good \in Probed(r) :
          /\ worker' = [worker EXCEPT ![r].ready = good, ![r].at = "upload"]
          /\ batch' = [b \in Batch |->
               IF b[1] = r /\ InBatch(Prepared(r, good), b[2]) # {}
               THEN [at |-> "queued", missing |-> {},
                     wants |-> {audio(worker[r].entries[i]) : i \in InBatch(Prepared(r, good), b[2])}]
               ELSE batch[b]]
    BY <1>8 DEF Prepare
  <2>2. \A i \in DOMAIN worker[r].entries :
          worker[r].entries[i].id \in Recording /\ audio(worker[r].entries[i]) \in Audio
    BY <1>1, DocumentsAssumption, AudioOfAssumption DEF audio
  <2>3. good \in SUBSET Recording
    BY <2>2 DEF Probed, Candidates
  <2>4. [[worker[r] EXCEPT !.ready = good] EXCEPT !.at = "upload"] \in WorkerState
    BY <1>1, <1>3, <2>3, FieldsAreTyped
  <2>5. worker' \in [Run -> WorkerState]
    BY <1>1, <2>1, <2>4
  <2>6. \A n : {audio(worker[r].entries[i]) : i \in InBatch(Prepared(r, good), n)} \in SUBSET Audio
    BY <2>2 DEF InBatch, Prepared, Candidates
  <2>7. batch' \in [Batch -> [at : BatchPlaces, wants : SUBSET Audio, missing : SUBSET Audio]]
    <3>1. "queued" \in BatchPlaces
      BY DEF BatchPlaces
    <3> QED
      BY <2>1, <2>6, <3>1 DEF TypeOK, AudioTypeOK
  <2> QED
    <3>1. UNCHANGED <<storeVars, objects, staging>>
      BY <1>8, Zenon DEF Prepare
    <3> QED
      BY <2>5, <2>7, <3>1 DEF TypeOK, StoreTypeOK, AudioTypeOK, storeVars
<1>9. CASE UploadStep(r)
  <2>1. PICK b \in {r} \X BatchNumber : Refuse(b) \/ Preflight(b) \/ Upload(b)
    BY <1>9 DEF UploadStep
  <2>2. b \in Batch
    BY BatchAssumption
  <2>3. AudioTypeOK'
    BY <2>1, <2>2, AudioStepIsTyped DEF TypeOK
  <2> QED
    BY <1>1, <1>9, <2>3 DEF UploadStep, TypeOK, StoreTypeOK, storeVars
<1>10. CASE AwaitUploads(r)
  <2> DEFINE kept == {e.id : e \in UNION {BatchEntries(r, n) :
                                          n \in {m \in BatchNumber : At(<<r, m>>, "stored")}}}
  <2>1. \A n : BatchEntries(r, n) \subseteq RawEntry
    <3>1. \A i \in DOMAIN worker[r].entries : worker[r].entries[i] \in RawEntry
      BY <1>1
    <3>2. \A n : InBatch(Prepared(r, worker[r].ready), n) \subseteq DOMAIN worker[r].entries
      BY DEF InBatch, Prepared, Candidates
    <3> QED
      BY <3>1, <3>2 DEF BatchEntries
  <2>2. kept \in SUBSET Recording
    BY <2>1, DocumentsAssumption
  <2>3. [[worker[r] EXCEPT !.ready = kept] EXCEPT !.at = "entry"] \in WorkerState
    <3> HIDE DEF kept
    <3> QED
      BY <1>1, <1>3, <2>2, FieldsAreTyped
  <2>4. worker' = [worker EXCEPT ![r] = [[worker[r] EXCEPT !.ready = kept] EXCEPT !.at = "entry"]]
    BY <1>1, <1>10 DEF AwaitUploads
  <2>5. worker' \in [Run -> WorkerState]
    <3> HIDE DEF kept
    <3> QED
      BY <1>1, <2>3, <2>4
  <2>6. batch' \in [Batch -> [at : BatchPlaces, wants : SUBSET Audio, missing : SUBSET Audio]]
    BY <1>10 DEF AwaitUploads, TypeOK, AudioTypeOK, NoBatch, BatchPlaces
  <2> QED
    BY <1>10, <2>5, <2>6 DEF AwaitUploads, TypeOK, StoreTypeOK, AudioTypeOK, storeVars
<1>11. ASSUME NEW d \in Documents, NEW overwrite \in BOOLEAN, NEW p \in Profile,
              NEW continues \in ContinueOnError, Request(r, d, overwrite, p, continues)
       PROVE  TypeOK'
  <2> DEFINE entries == ValidatedEntries(d, {})
             place == IF entries = <<>> THEN "refused" ELSE IF overwrite THEN "doctor" ELSE "check"
  <2>1. entries \in Seq(RawEntry) /\ place \in Places /\ continues \in BOOLEAN
    BY <1>3, ValidatedEntriesAreDistinct, ContinueAssumption
  <2>2. worker' = [worker EXCEPT ![r] =
          [[[[[Idle EXCEPT !.at = place] EXCEPT !.entries = entries] EXCEPT !.overwrite = overwrite]
             EXCEPT !.profile = p] EXCEPT !.continues = continues]]
    <3>1. worker' = [worker EXCEPT ![r] =
            [Idle EXCEPT !.at = place, !.entries = entries, !.overwrite = overwrite,
                         !.profile = p, !.continues = continues]]
      BY <1>11, Zenon DEF Request
    <3> QED
      BY <3>1, Zenon
  <2> HIDE DEF entries, place
  <2>3. [Idle EXCEPT !.at = place] \in WorkerState
    BY <2>1, IdleIsTyped, FieldsAreTyped
  <2>4. [[Idle EXCEPT !.at = place] EXCEPT !.entries = entries] \in WorkerState
    BY <2>1, <2>3, FieldsAreTyped
  <2>5. [[[Idle EXCEPT !.at = place] EXCEPT !.entries = entries] EXCEPT !.overwrite = overwrite]
          \in WorkerState
    BY <2>1, <2>4, FieldsAreTyped
  <2>6. [[[[[Idle EXCEPT !.at = place] EXCEPT !.entries = entries] EXCEPT !.overwrite = overwrite]
             EXCEPT !.profile = p] EXCEPT !.continues = continues] \in WorkerState
    BY <2>1, <2>5, FieldsAreTyped
  <2>7. worker' \in [Run -> WorkerState]
    BY <1>1, <2>2, <2>6
  <2> QED
    <3>1. UNCHANGED <<storeVars, audioVars>>
      BY <1>11, Zenon DEF Request
    <3> QED
      BY <2>7, <3>1 DEF TypeOK, StoreTypeOK, AudioTypeOK, storeVars, audioVars
<1> QED
  BY <1>4, <1>5, <1>6, <1>7, <1>8, <1>9, <1>10, <1>11

LEMMA LoopIsTyped ==
  ASSUME TypeOK, NEW r \in Run, Shape(r),
         SkipEntry(r) \/ Ingest(r) \/ Claim(r) \/ Note(r) \/ FailEntry(r)
  PROVE  TypeOK'
<1>1. worker \in [Run -> WorkerState] /\ worker[r] \in WorkerState
      /\ worker[r].entries \in Seq(RawEntry) /\ worker[r].jobs \in Seq(RawEntry)
      /\ worker[r].found \in Item
  BY DEF TypeOK, WorkerState
<1>2. /\ worker[r].at \in Loop /\ Running(r)
      /\ worker[r].next \in DOMAIN worker[r].entries
  BY DEF Shape, SkipEntry, Ingest, Claim, Note, FailEntry, Attempted, in, Loop, Running
<1>3. /\ entry(r) \in RawEntry /\ entry(r).id \in Recording /\ entry(r).content \in Content
      /\ Key(r, entry(r)) \in Version \X Profile
  BY <1>2, EntryIsTyped, KeyIsTyped
<1> DEFINE RunsOK == runs' \in
             [Run -> [status : {"none", "running", "complete", "partial", "failed", "pruned"},
                      item : [Recording -> Item]]]
<1>4. \A outcome \in Outcomes, content \in Content \cup {None} :
        SaveItemTx(r, entry(r).id, outcome, content) => RunsOK
  BY <1>3, SaveItemIsTyped DEF TypeOK
<1>5. {"failed", "skipped", "unchanged", "version-created", "alignment-reused"} \subseteq Outcomes
      /\ {"claim", "note"} \subseteq Places
  BY DEF Outcomes, Places
<1>6. CASE SkipEntry(r)
  <2>1. RunsOK
    BY <1>4, <1>5, <1>6 DEF SkipEntry
  <2>2. worker' \in [Run -> WorkerState]
    BY <1>6, AdvanceIsTyped DEF SkipEntry
  <2> QED
    BY <1>6, <2>1, <2>2 DEF SkipEntry, TypeOK, StoreTypeOK, AudioTypeOK, audioVars
<1>7. CASE Ingest(r)
  <2> DEFINE state == Ingested(entry(r).id, entry(r).content, worker[r].overwrite)
             place == IF state = "created" THEN "claim" ELSE "note"
             item == [outcome |-> IF state = "created" THEN "version-created" ELSE state,
                      content |-> IF state = "skipped" THEN None ELSE entry(r).content]
  <2>1. item \in Item /\ place \in Places
    BY <1>3, <1>5 DEF Item, Ingested
  <2>2. worker' = [worker EXCEPT ![r] = [[worker[r] EXCEPT !.at = place] EXCEPT !.found = item]]
    BY <1>1, <1>7 DEF Ingest
  <2>3. worker' \in [Run -> WorkerState]
    <3> HIDE DEF place, item
    <3>1. [[worker[r] EXCEPT !.at = place] EXCEPT !.found = item] \in WorkerState
      BY <1>1, <2>1, FieldsAreTyped
    <3> QED
      BY <1>1, <2>2, <3>1
  <2>4. IngestTx(entry(r).id, entry(r).content, worker[r].overwrite)
    BY <1>7 DEF Ingest
  <2>5. versions' \subseteq Version /\ current' \in [Recording -> Content \cup {None}]
    BY <1>3, <2>4, IngestIsTyped DEF TypeOK
  <2>6. UNCHANGED <<published, alignment, runs, started, audioVars>>
    BY <1>7 DEF Ingest
  <2> QED
    BY <2>3, <2>5, <2>6 DEF TypeOK, StoreTypeOK, AudioTypeOK, audioVars
<1>8. CASE Claim(r)
  <2> DEFINE claimed == Claimed(Key(r, entry(r))) = "claimed"
             jobs == IF claimed THEN Append(worker[r].jobs, entry(r)) ELSE worker[r].jobs
             outcome == IF claimed THEN "version-created" ELSE "alignment-reused"
             item == [worker[r].found EXCEPT !.outcome = outcome]
  <2>1. jobs \in Seq(RawEntry)
    BY <1>1, <1>3
  <2>2. item \in Item
    <3>1. outcome \in Outcomes
      BY <1>5
    <3> HIDE DEF outcome
    <3>2. worker[r].found.content \in Content \cup {None}
      BY <1>1 DEF Item, NoItem
    <3>3. item = [outcome |-> outcome, content |-> worker[r].found.content]
      BY <1>1 DEF Item, NoItem
    <3> QED
      BY <3>1, <3>2, <3>3 DEF Item
  <2>3. worker' = [worker EXCEPT ![r] =
          [[[worker[r] EXCEPT !.at = "note"] EXCEPT !.jobs = jobs] EXCEPT !.found = item]]
    <3>1. worker' = [worker EXCEPT ![r].at = "note", ![r].jobs = jobs, ![r].found.outcome = outcome]
      BY <1>8, Zenon DEF Claim
    <3> HIDE DEF jobs, outcome
    <3> QED
      BY <1>1, <3>1
  <2>4. worker' \in [Run -> WorkerState]
    <3> HIDE DEF jobs, item
    <3>1. [[[worker[r] EXCEPT !.at = "note"] EXCEPT !.jobs = jobs] EXCEPT !.found = item]
            \in WorkerState
      BY <1>1, <1>5, <2>1, <2>2, FieldsAreTyped
    <3> QED
      BY <1>1, <2>3, <3>1
  <2>5. ClaimTx(Key(r, entry(r)), r)
    BY <1>8 DEF Claim
  <2>6. alignment' \in [Version \X Profile -> Row]
    BY <1>3, <2>5, ClaimIsTyped DEF TypeOK
  <2>7. UNCHANGED <<versions, current, published, runs, started, audioVars>>
    BY <1>8 DEF Claim
  <2> QED
    BY <2>4, <2>6, <2>7 DEF TypeOK, StoreTypeOK, AudioTypeOK, audioVars, Row
<1>9. CASE Note(r)
  <2>1. SaveItemTx(r, entry(r).id, worker[r].found.outcome, worker[r].found.content)
    BY <1>9 DEF Note
  <2>2. RunsOK
    <3>1. [outcome |-> worker[r].found.outcome, content |-> worker[r].found.content] \in Item
      BY <1>1 DEF Item, NoItem
    <3> QED
      BY <1>3, <2>1, <3>1 DEF SaveItemTx, TypeOK, StoreTypeOK
  <2>3. worker' \in [Run -> WorkerState]
    BY <1>9, AdvanceIsTyped DEF Note
  <2> QED
    BY <1>9, <2>2, <2>3 DEF Note, TypeOK, StoreTypeOK, AudioTypeOK, audioVars
<1>10. CASE FailEntry(r)
  <2>1. RunsOK
    BY <1>4, <1>5, <1>10 DEF FailEntry
  <2>2. worker' \in [Run -> WorkerState]
    <3>1. [worker[r] EXCEPT !.aborted = ~worker[r].continues] \in WorkerState
      BY <1>1, FieldsAreTyped
    <3>2. Next1([worker[r] EXCEPT !.aborted = ~worker[r].continues]) \in WorkerState
      BY <3>1, Next1IsTyped
    <3> QED
      <4>1. worker' = [worker EXCEPT
              ![r] = Next1([worker[r] EXCEPT !.aborted = ~worker[r].continues])]
        BY <1>10, Zenon DEF FailEntry
      <4> QED
        BY <1>1, <3>2, <4>1
  <2>3. Committed(r)
    BY <1>10 DEF FailEntry
  <2>4. /\ versions' \subseteq Version /\ current' \in [Recording -> Content \cup {None}]
        /\ alignment' \in [Version \X Profile -> Row]
    <3>1. CASE UNCHANGED <<versions, current, alignment>>
      BY <3>1 DEF TypeOK, StoreTypeOK, Row
    <3>2. CASE IngestTx(entry(r).id, entry(r).content, worker[r].overwrite) /\ UNCHANGED alignment
      BY <1>3, <3>2, IngestIsTyped DEF TypeOK, StoreTypeOK, Row
    <3>3. CASE ClaimTx(Key(r, entry(r)), r) /\ UNCHANGED <<versions, current>>
      BY <1>3, <3>3, ClaimIsTyped DEF TypeOK, StoreTypeOK
    <3> QED
      BY <2>3, <3>1, <3>2, <3>3 DEF Committed
  <2>5. UNCHANGED <<published, started, audioVars>>
    BY <1>10 DEF FailEntry
  <2> QED
    BY <2>1, <2>2, <2>4, <2>5 DEF TypeOK, StoreTypeOK, AudioTypeOK, audioVars, Row
<1> QED
  BY <1>6, <1>7, <1>8, <1>9, <1>10

LEMMA BackIsTyped ==
  ASSUME TypeOK, NEW r \in Run, Shape(r),
         Align(r) \/ ImportJob(r) \/ FailJob(r) \/ FinishRun(r)
  PROVE  TypeOK'
<1>1. worker \in [Run -> WorkerState] /\ worker[r] \in WorkerState
      /\ worker[r].jobs \in Seq(RawEntry) /\ worker[r].next \in Nat
  BY DEF TypeOK, WorkerState
<1> DEFINE RunsOK == runs' \in
             [Run -> [status : {"none", "running", "complete", "partial", "failed", "pruned"},
                      item : [Recording -> Item]]]
<1>2. ASSUME in(r, "import") \/ in(r, "fail")
      PROVE  /\ job(r).id \in Recording /\ Key(r, job(r)) \in Version \X Profile
             /\ runs[r].item[job(r).id].content \in Content \cup {None}
             /\ \A outcome \in {"processed", "failed"} :
                  SaveItemTx(r, job(r).id, outcome, runs[r].item[job(r).id].content) => RunsOK
  <2>1. job(r).id \in Recording /\ Key(r, job(r)) \in Version \X Profile
    BY <1>2, JobIsTyped
  <2>2. runs[r].item[job(r).id].content \in Content \cup {None}
    BY <2>1 DEF TypeOK, StoreTypeOK, Item, NoItem
  <2> QED
    BY <2>1, <2>2, SaveItemIsTyped DEF TypeOK, Outcomes
<1>3. ASSUME NextJob(r) PROVE worker' \in [Run -> WorkerState]
  <2> DEFINE place == IF worker[r].next < Len(worker[r].jobs) THEN "import" ELSE "finish"
             next == IF worker[r].next < Len(worker[r].jobs) THEN worker[r].next + 1
                     ELSE worker[r].next
  <2>1. place \in Places /\ next \in Nat
    BY <1>1 DEF Places
  <2>2. worker' = [worker EXCEPT ![r] = [[worker[r] EXCEPT !.at = place] EXCEPT !.next = next]]
    BY <1>1, <1>3 DEF NextJob
  <2> HIDE DEF place, next
  <2>3. [[worker[r] EXCEPT !.at = place] EXCEPT !.next = next] \in WorkerState
    BY <1>1, <2>1, FieldsAreTyped
  <2> QED
    BY <1>1, <2>2, <2>3
<1>4. CASE Align(r)
  <2>1. PICK got \in Parsed(r) :
          worker' = [worker EXCEPT ![r].aligned = got, ![r].at = "import"]
    BY <1>4 DEF Align
  <2>2. got \in SUBSET Recording
    BY <1>1, DocumentsAssumption DEF Parsed, Staged
  <2>3. [[worker[r] EXCEPT !.aligned = got] EXCEPT !.at = "import"] \in WorkerState
    BY <1>1, <2>2, FieldsAreTyped DEF Places
  <2>4. worker' \in [Run -> WorkerState]
    BY <1>1, <2>1, <2>3
  <2>5. UNCHANGED <<storeVars, audioVars>>
    BY <1>4 DEF Align
  <2> QED
    BY <2>4, <2>5 DEF TypeOK, StoreTypeOK, AudioTypeOK, storeVars, audioVars
<1>5. CASE ImportJob(r)
  <2>0. ASSUME worker' = [worker EXCEPT ![r].at = "fail", ![r].unheard = @ \cup {job(r).id}]
        PROVE  worker' \in [Run -> WorkerState]
    <3>1. PICK lost \in SUBSET Recording : lost = worker[r].unheard \cup {job(r).id}
      BY <1>1, <1>2, <1>5 DEF ImportJob, WorkerState
    <3>2. worker' = [worker EXCEPT ![r] = [[worker[r] EXCEPT !.at = "fail"] EXCEPT !.unheard = lost]]
      BY <1>1, <2>0, <3>1
    <3>3. [[worker[r] EXCEPT !.at = "fail"] EXCEPT !.unheard = lost] \in WorkerState
      BY <1>1, FieldsAreTyped DEF Places
    <3> QED
      BY <1>1, <3>2, <3>3
  <2>1. /\ in(r, "import") /\ CompleteTx(Key(r, job(r))) /\ worker' \in [Run -> WorkerState]
        /\ SaveItemTx(r, job(r).id, "processed", runs[r].item[job(r).id].content)
        /\ UNCHANGED <<versions, current, started, audioVars>>
    BY <1>3, <1>5, <2>0 DEF ImportJob
  <2>2. /\ alignment' \in [Version \X Profile -> Row]
        /\ published' \in [Version -> Profile \cup {None}]
    BY <1>2, <2>1, CompleteEffect, Zenon DEF TypeOK, RowStep
  <2> QED
    BY <1>2, <2>1, <2>2 DEF TypeOK, StoreTypeOK, AudioTypeOK, audioVars, Row
<1>6. CASE FailJob(r)
  <2>1. /\ in(r, "import") \/ in(r, "fail")
        /\ FailTx(Key(r, job(r))) /\ NextJob(r)
        /\ SaveItemTx(r, job(r).id, "failed", runs[r].item[job(r).id].content)
        /\ UNCHANGED <<versions, current, published, started, audioVars>>
    BY <1>6 DEF FailJob
  <2>2. alignment' \in [Version \X Profile -> Row]
    BY <1>2, <2>1, FailEffect, Zenon DEF TypeOK, RowStep
  <2> QED
    BY <1>2, <1>3, <2>1, <2>2 DEF TypeOK, StoreTypeOK, AudioTypeOK, audioVars, Row
<1>7. CASE FinishRun(r)
  <2>1. worker' \in [Run -> WorkerState]
    BY <1>7, LeaveIsTyped DEF FinishRun, Places
  <2>2. RunsOK
    BY <1>7 DEF FinishRun, FinishRunTx, RunStatus, TypeOK, StoreTypeOK
  <2>3. UNCHANGED <<versions, current, published, alignment, started, audioVars>>
    BY <1>7 DEF FinishRun
  <2> QED
    BY <2>1, <2>2, <2>3 DEF TypeOK, StoreTypeOK, AudioTypeOK, audioVars
<1> QED
  BY <1>4, <1>5, <1>6, <1>7

LEMMA OutsideIsTyped ==
  ASSUME TypeOK, (\E r \in Run : Crash(r)) \/ LeaseExpires \/ PruneRuns \/ UNCHANGED vars
  PROVE  TypeOK'
<1>1. ASSUME NEW r \in Run, Crash(r) PROVE TypeOK'
  <2>1. worker' \in [Run -> WorkerState]
    BY <1>1, LeaveIsTyped DEF Crash, Places
  <2>2. batch' \in [Batch -> [at : BatchPlaces, wants : SUBSET Audio, missing : SUBSET Audio]]
    BY <1>1 DEF Crash, TypeOK, AudioTypeOK, NoBatch, BatchPlaces
  <2>3. staging' \subseteq staging
    BY <1>1 DEF Crash
  <2>4. UNCHANGED <<storeVars, objects>>
    BY <1>1 DEF Crash
  <2> QED
    BY <2>1, <2>2, <2>3, <2>4 DEF TypeOK, StoreTypeOK, AudioTypeOK, storeVars
<1>2. CASE LeaseExpires
  <2>1. PICK k \in Version \X Profile : alignment' = [alignment EXCEPT ![k].leased = FALSE]
    BY <1>2 DEF LeaseExpires
  <2>2. alignment' \in [Version \X Profile -> Row]
    BY <2>1, LeaseEffect, Zenon DEF TypeOK, RowStep
  <2>3. UNCHANGED <<versions, current, published, runs, started, audioVars, worker>>
    BY <1>2 DEF LeaseExpires
  <2> QED
    BY <2>2, <2>3 DEF TypeOK, StoreTypeOK, AudioTypeOK, audioVars, Row
<1>3. CASE PruneRuns
  <2>1. PICK gone : PruneTx(gone)
    BY <1>3 DEF PruneRuns
  <2>2. runs' \in [Run -> [status : {"none", "running", "complete", "partial", "failed", "pruned"},
                           item : [Recording -> Item]]]
    BY <2>1, NoItemIsTyped DEF PruneTx, TypeOK, StoreTypeOK
  <2>3. UNCHANGED <<versions, current, published, alignment, started, audioVars, worker>>
    BY <1>3 DEF PruneRuns
  <2> QED
    BY <2>2, <2>3 DEF TypeOK, StoreTypeOK, AudioTypeOK, audioVars
<1>4. CASE UNCHANGED vars
  BY <1>4 DEF vars, storeVars, audioVars, TypeOK, StoreTypeOK, AudioTypeOK
<1> QED
  BY <1>1, <1>2, <1>3, <1>4

-----------------------------------------------------------------------------
\* Where a run is in its lists, step by step.
LEMMA Next1Effect ==
  ASSUME NEW w \in WorkerState
  PROVE  LET n == Next1(w)
         IN /\ n.entries = w.entries /\ n.profile = w.profile /\ n.jobs = w.jobs
            /\ n.at \in {"entry", "finish", "align"}
            /\ n.at = "entry" =>
                 /\ w.next < Len(w.entries) /\ n.next = w.next + 1
                 /\ n.ready = w.ready /\ n.known = w.known /\ n.overwrite = w.overwrite
            /\ n.at # "entry" => n.next = 1 /\ n.known = {} /\ ~(w.next < Len(w.entries))
            /\ n.at = "finish" => w.jobs = <<>>
            /\ n.at = "align" => w.jobs # <<>>
<1>1. CASE w.next < Len(w.entries)
  BY <1>1 DEF Next1, WorkerState
<1>2. CASE ~(w.next < Len(w.entries))
  BY <1>2 DEF Next1, WorkerState, Idle
<1> QED
  BY <1>1, <1>2

\* The others' records do not change when a run takes a step.
LEMMA OthersStay ==
  ASSUME TypeOK, NEW r \in Run,
         \/ Work(r) \/ Crash(r)
         \/ \E d \in Documents, overwrite \in BOOLEAN, p \in Profile, continues \in ContinueOnError :
              Request(r, d, overwrite, p, continues)
  PROVE  \A s \in Run : s # r => worker'[s] = worker[s]
<1> USE DEF TypeOK
<1>1. CASE CheckExisting(r) \/ CompleteAllSkipped(r) \/ Doctor(r) \/ StartRun(r)
  BY <1>1 DEF CheckExisting, CompleteAllSkipped, Doctor, StartRun, move, leave
<1>2. CASE Prepare(r) \/ UploadStep(r) \/ AwaitUploads(r)
  <2>1. (\E w : worker' = [worker EXCEPT ![r] = w]) \/ worker' = worker
    BY <1>2, Zenon DEF Prepare, UploadStep, AwaitUploads
  <2> QED
    BY <2>1
<1>3. CASE SkipEntry(r) \/ Note(r) \/ Ingest(r)
  BY <1>3 DEF SkipEntry, Note, Ingest, advance
<1>4. CASE Claim(r) \/ FailEntry(r)
  <2>1. \E w : worker' = [worker EXCEPT ![r] = w]
    BY <1>4, Zenon DEF Claim, FailEntry
  <2> QED
    BY <2>1
<1>5. CASE Align(r) \/ FinishRun(r)
  BY <1>5 DEF Align, FinishRun, leave
<1>6. CASE ImportJob(r) \/ FailJob(r)
  <2>1. \/ NextJob(r)
        \/ \E lost : worker' = [worker EXCEPT ![r].at = "fail", ![r].unheard = lost]
    BY <1>6, Zenon DEF ImportJob, FailJob
  <2> QED
    BY <2>1 DEF NextJob
<1>7. CASE Crash(r)
  BY <1>7 DEF Crash, leave
<1>8. ASSUME NEW d \in Documents, NEW overwrite \in BOOLEAN, NEW p \in Profile,
             NEW continues \in ContinueOnError, Request(r, d, overwrite, p, continues)
      PROVE  \A s \in Run : s # r => worker'[s] = worker[s]
  <2>1. \E w : worker' = [worker EXCEPT ![r] = w]
    BY <1>8, Zenon DEF Request
  <2> QED
    BY <2>1
<1> QED
  BY <1>1, <1>2, <1>3, <1>4, <1>5, <1>6, <1>7, <1>8 DEF Work

\* Fields of a record after the assignments that the actions make.
Same(v, w, fields) == \A f \in fields : v[f] = w[f]

LEMMA MoveEffect ==
  ASSUME TypeOK, NEW r \in Run, NEW place, move(r, place)
  PROVE  /\ worker'[r].at = place
         /\ Same(worker'[r], worker[r],
                 {"entries", "overwrite", "profile", "continues", "known", "ready", "next",
                  "found", "jobs", "aligned", "unheard", "aborted"})
  BY DEF TypeOK, move, WorkerState, Same

LEMMA LeaveEffect ==
  ASSUME TypeOK, NEW r \in Run, NEW place, leave(r, place)
  PROVE  /\ worker'[r].at = place /\ worker'[r].entries = worker[r].entries
         /\ worker'[r].unheard = worker[r].unheard
         /\ Same(worker'[r], Idle,
                 {"overwrite", "profile", "continues", "known", "ready", "next",
                  "found", "jobs", "aligned", "aborted"})
  BY DEF TypeOK, leave, Idle, Same

LEMMA AdvanceEffect ==
  ASSUME TypeOK, NEW r \in Run, Shape(r),
         \/ advance(r)
         \/ worker' = [worker EXCEPT ![r] = Next1([worker[r] EXCEPT !.aborted = ~worker[r].continues])]
  PROVE  /\ Same(worker'[r], worker[r], {"entries", "profile", "jobs"})
         /\ worker'[r].at \in {"entry", "finish", "align"}
         /\ worker'[r].at = "entry" =>
              /\ worker[r].next < Len(worker[r].entries) /\ worker'[r].next = worker[r].next + 1
              /\ Same(worker'[r], worker[r], {"ready", "known", "overwrite"})
         /\ worker'[r].at # "entry" =>
              /\ worker'[r].next = 1 /\ worker'[r].known = {}
              /\ ~(worker[r].next < Len(worker[r].entries))
         /\ worker'[r].at = "finish" => worker[r].jobs = <<>>
         /\ worker'[r].at = "align" => worker[r].jobs # <<>>
<1>1. worker \in [Run -> WorkerState] /\ worker[r] \in WorkerState
  BY DEF TypeOK
<1>2. CASE advance(r)
  <2>1. worker'[r] = Next1(worker[r])
    BY <1>1, <1>2 DEF advance
  <2> QED
    BY <1>1, <2>1, Next1Effect DEF Same
<1>3. CASE worker' = [worker EXCEPT ![r] = Next1([worker[r] EXCEPT !.aborted = ~worker[r].continues])]
  <2> DEFINE w == [worker[r] EXCEPT !.aborted = ~worker[r].continues]
  <2>1. worker'[r] = Next1(w)
    BY <1>1, <1>3
  <2>2. w \in WorkerState
    BY <1>1, FieldsAreTyped
  <2>3. Same(w, worker[r], {"entries", "profile", "jobs", "next", "ready", "known", "overwrite"})
    BY <1>1 DEF WorkerState, Same
  <2> HIDE DEF w
  <2> QED
    BY <2>1, <2>2, <2>3, Next1Effect DEF Same
<1> QED
  BY <1>2, <1>3

LEMMA SameShape ==
  ASSUME TypeOK, NEW r \in Run, Shape(r),
         Same(worker'[r], worker[r], {"entries", "profile", "next", "jobs"}),
         \/ worker'[r].at = worker[r].at
         \/ Running(r) /\ worker'[r].at \in Before /\ worker[r].at \in Before
         \/ worker[r].at \in Loop /\ worker'[r].at \in {"claim", "note"}
         \/ worker'[r].at = "refused"
         \/ in(r, "align") /\ worker'[r].at = "import"
  PROVE  Shape(r)'
  BY DEF Shape, Same, Running, in, Before, Loop, Back

LEMMA BeforeKeepsShape ==
  ASSUME TypeOK, NEW r \in Run, Shape(r),
         \/ CheckExisting(r) \/ CompleteAllSkipped(r) \/ Doctor(r) \/ StartRun(r)
         \/ Prepare(r) \/ UploadStep(r) \/ AwaitUploads(r)
  PROVE  Shape(r)'
<1> DEFINE Kept == Same(worker'[r], worker[r], {"entries", "profile", "next", "jobs"})
<1>1. CASE CheckExisting(r) \/ Doctor(r)
  <2>1. PICK place \in {"skip", "doctor", "start", "refused"} : move(r, place)
    BY <1>1 DEF CheckExisting, Doctor
  <2>2. worker'[r].at = place /\ Kept
    BY <2>1, MoveEffect DEF Same
  <2>3. Running(r) /\ worker[r].at \in Before
    BY <1>1 DEF CheckExisting, Doctor, Running, in, Before
  <2> QED
    BY <2>2, <2>3, SameShape DEF Before
<1>2. CASE CompleteAllSkipped(r)
  <2>1. leave(r, "done")
    BY <1>2 DEF CompleteAllSkipped
  <2>2. worker'[r].at = "done" /\ worker'[r].entries = worker[r].entries
    BY <2>1, LeaveEffect
  <2> QED
    BY <2>2 DEF Shape, Running, in, Before, Loop, Back
<1>3. CASE StartRun(r)
  <2>1. worker'[r].at = "prepare" /\ Kept /\ Running(r) /\ worker[r].at \in Before
    BY <1>3 DEF StartRun, TypeOK, WorkerState, Same, Running, in, Before
  <2> QED
    BY <2>1, SameShape DEF Before
<1>4. CASE Prepare(r)
  <2>1. PICK good : worker' = [worker EXCEPT ![r].ready = good, ![r].at = "upload"]
    BY <1>4, Zenon DEF Prepare
  <2>2. worker'[r].at = "upload" /\ Kept
    BY <2>1 DEF TypeOK, WorkerState, Same
  <2>3. Running(r) /\ worker[r].at \in Before
    BY <1>4, Zenon DEF Prepare, Running, in, Before
  <2> QED
    BY <2>2, <2>3, SameShape DEF Before
<1>5. CASE UploadStep(r)
  <2>1. worker' = worker
    BY <1>5 DEF UploadStep
  <2> QED
    BY <2>1, SameShape DEF Same
<1>6. CASE AwaitUploads(r)
  <2>1. PICK kept : worker' = [worker EXCEPT ![r].ready = kept, ![r].at = "entry"]
    BY <1>6, Zenon DEF AwaitUploads
  <2>2. worker'[r].at = "entry" /\ Kept
    BY <2>1 DEF TypeOK, WorkerState, Same
  <2>3. Running(r) /\ worker[r].at \in Before
    BY <1>6, Zenon DEF AwaitUploads, Running, in, Before
  <2>4. worker[r].entries \in Seq(RawEntry)
    BY DEF TypeOK, WorkerState
  <2> QED
    BY <2>2, <2>3, <2>4 DEF Shape, Same, Running, in, Before, Loop, Back
<1> QED
  BY <1>1, <1>2, <1>3, <1>4, <1>5, <1>6

LEMMA RequestEffect ==
  ASSUME TypeOK, NEW r \in Run,
         NEW d \in Documents, NEW overwrite \in BOOLEAN, NEW p \in Profile,
         NEW continues \in ContinueOnError, Request(r, d, overwrite, p, continues)
  PROVE  /\ in(r, "idle") /\ UNCHANGED <<storeVars, audioVars>>
         /\ worker'[r].entries = ValidatedEntries(d, {}) /\ worker'[r].profile = p
         /\ worker'[r].at \in {"refused", "doctor", "check"}
         /\ worker'[r].entries = <<>> <=> worker'[r].at = "refused"
         /\ worker'[r].next = 1 /\ worker'[r].jobs = <<>> /\ worker'[r].known = {}
<1> DEFINE entries == ValidatedEntries(d, {})
           place == IF entries = <<>> THEN "refused" ELSE IF overwrite THEN "doctor" ELSE "check"
<1>1. worker' = [worker EXCEPT ![r] =
        [Idle EXCEPT !.at = place, !.entries = entries, !.overwrite = overwrite,
                     !.profile = p, !.continues = continues]]
  BY Zenon DEF Request
<1>2. in(r, "idle") /\ UNCHANGED <<storeVars, audioVars>>
  BY Zenon DEF Request
<1>3. /\ worker'[r].entries = entries /\ worker'[r].profile = p /\ worker'[r].at = place
      /\ worker'[r].next = 1 /\ worker'[r].jobs = <<>> /\ worker'[r].known = {}
  <2> HIDE DEF entries, place
  <2> QED
    BY <1>1 DEF TypeOK, Idle
<1> QED
  BY <1>2, <1>3

LEMMA RequestKeepsShape ==
  ASSUME TypeOK, NEW r \in Run, Shape(r),
         NEW d \in Documents, NEW overwrite \in BOOLEAN, NEW p \in Profile,
         NEW continues \in ContinueOnError, Request(r, d, overwrite, p, continues)
  PROVE  Shape(r)'
<1> HIDE DEF Request
<1>1. DistinctEntries(ValidatedEntries(d, {}))
  BY ValidatedEntriesAreDistinct
<1> QED
  BY <1>1, RequestEffect DEF Shape, Running, in, Before, Loop, Back

\* Ingest, Claim and the steps of the backend: what they do to the record.
LEMMA IngestEffect ==
  ASSUME TypeOK, NEW r \in Run, Ingest(r)
  PROVE  LET state == Ingested(entry(r).id, entry(r).content, worker[r].overwrite)
         IN /\ worker'[r].at = IF state = "created" THEN "claim" ELSE "note"
            /\ worker'[r].found =
                 [outcome |-> IF state = "created" THEN "version-created" ELSE state,
                  content |-> IF state = "skipped" THEN None ELSE entry(r).content]
            /\ Same(worker'[r], worker[r],
                    {"entries", "overwrite", "profile", "known", "ready", "next", "jobs"})
  BY DEF Ingest, TypeOK, WorkerState, Same

LEMMA ClaimWorkerEffect ==
  ASSUME TypeOK, NEW r \in Run, Claim(r)
  PROVE  /\ worker'[r].at = "note"
         /\ worker'[r].jobs = IF Claimed(Key(r, entry(r))) = "claimed"
                              THEN Append(worker[r].jobs, entry(r)) ELSE worker[r].jobs
         /\ worker'[r].found.outcome = IF Claimed(Key(r, entry(r))) = "claimed"
                                       THEN "version-created" ELSE "alignment-reused"
         /\ Same(worker'[r], worker[r], {"entries", "overwrite", "profile", "known", "ready", "next"})
<1> DEFINE claimed == Claimed(Key(r, entry(r))) = "claimed"
           jobs == IF claimed THEN Append(worker[r].jobs, entry(r)) ELSE worker[r].jobs
           outcome == IF claimed THEN "version-created" ELSE "alignment-reused"
<1>1. worker' = [worker EXCEPT ![r].at = "note", ![r].jobs = jobs, ![r].found.outcome = outcome]
  BY Zenon DEF Claim
<1>2. worker[r] \in WorkerState /\ worker[r].found \in Item /\ worker \in [Run -> WorkerState]
  BY DEF TypeOK, WorkerState
<1>3. worker[r].found =
        [outcome |-> worker[r].found.outcome, content |-> worker[r].found.content]
  BY <1>2 DEF Item, NoItem
<1> HIDE DEF jobs, outcome
<1>4. worker'[r] = [[[worker[r] EXCEPT !.at = "note"] EXCEPT !.jobs = jobs]
                      EXCEPT !.found.outcome = outcome]
  BY <1>1, <1>2
<1>5. worker'[r].at = "note" /\ worker'[r].jobs = jobs
      /\ Same(worker'[r], worker[r], {"entries", "overwrite", "profile", "known", "ready", "next"})
  BY <1>2, <1>4 DEF WorkerState, Same
<1>6. worker'[r].found.outcome = outcome
  BY <1>2, <1>3, <1>4 DEF WorkerState
<1> QED
  BY <1>5, <1>6 DEF jobs, outcome

LEMMA AlignEffect ==
  ASSUME TypeOK, NEW r \in Run, Align(r)
  PROVE  /\ worker'[r].at = "import"
         /\ Same(worker'[r], worker[r], {"entries", "profile", "known", "next", "jobs"})
<1>1. PICK got : worker' = [worker EXCEPT ![r].aligned = got, ![r].at = "import"]
  BY DEF Align
<1> QED
  BY <1>1 DEF TypeOK, WorkerState, Same

LEMMA NextJobEffect ==
  ASSUME TypeOK, NEW r \in Run, NextJob(r)
  PROVE  /\ Same(worker'[r], worker[r], {"entries", "profile", "known", "jobs", "unheard"})
         /\ worker[r].next < Len(worker[r].jobs) =>
              worker'[r].at = "import" /\ worker'[r].next = worker[r].next + 1
         /\ ~(worker[r].next < Len(worker[r].jobs)) => worker'[r].at = "finish"
  BY DEF NextJob, TypeOK, WorkerState, Same

\* A job is behind the run, or its import was not answered and is to be failed.
LEMMA JobEffect ==
  ASSUME TypeOK, NEW r \in Run, ImportJob(r) \/ FailJob(r)
  PROVE  /\ in(r, "import") \/ (in(r, "fail") /\ FailJob(r))
         /\ Same(worker'[r], worker[r], {"entries", "profile", "known", "jobs"})
         /\ worker'[r].at \in {"import", "fail", "finish"}
         /\ worker'[r].at = "import" => worker'[r].next = worker[r].next + 1
         /\ worker'[r].at = "import" => worker[r].next < Len(worker[r].jobs)
         /\ worker'[r].at = "finish" => ~(worker[r].next < Len(worker[r].jobs))
         /\ worker'[r].at = "fail" =>
              /\ ImportJob(r) /\ worker'[r].next = worker[r].next
              /\ worker'[r].unheard = worker[r].unheard \cup {job(r).id}
         /\ worker'[r].at # "fail" => worker'[r].unheard = worker[r].unheard
<1>1. in(r, "import") \/ (in(r, "fail") /\ FailJob(r))
  BY Zenon DEF ImportJob, FailJob
<1>2. \/ NextJob(r)
      \/ /\ ImportJob(r)
         /\ worker' = [worker EXCEPT ![r].at = "fail", ![r].unheard = @ \cup {job(r).id}]
  BY Zenon DEF ImportJob, FailJob
<1>3. CASE NextJob(r)
  BY <1>1, <1>3, NextJobEffect DEF Same
<1>4. CASE /\ ImportJob(r)
           /\ worker' = [worker EXCEPT ![r].at = "fail", ![r].unheard = @ \cup {job(r).id}]
  <2>1. worker'[r].at = "fail" /\ worker'[r].unheard = worker[r].unheard \cup {job(r).id}
    BY <1>4 DEF TypeOK, WorkerState
  <2>2. Same(worker'[r], worker[r], {"entries", "profile", "known", "jobs", "next"})
    BY <1>4 DEF TypeOK, WorkerState, Same
  <2> QED
    BY <1>1, <1>4, <2>1, <2>2 DEF Same
<1> QED
  BY <1>2, <1>3, <1>4

LEMMA LoopKeepsShape ==
  ASSUME TypeOK, NEW r \in Run, Shape(r),
         SkipEntry(r) \/ Ingest(r) \/ Claim(r) \/ Note(r) \/ FailEntry(r)
  PROVE  Shape(r)'
<1>1. /\ worker[r].at \in Loop /\ Running(r)
  BY DEF SkipEntry, Ingest, Claim, Note, FailEntry, Attempted, in, Loop, Running
<1>2. worker[r].entries \in Seq(RawEntry) /\ worker[r].jobs \in Seq(RawEntry)
      /\ worker[r].next \in Nat
  BY DEF TypeOK, WorkerState
<1>3. CASE SkipEntry(r) \/ Note(r) \/ FailEntry(r)
  <2>1. \/ advance(r)
        \/ worker' = [worker EXCEPT ![r] = Next1([worker[r] EXCEPT !.aborted = ~worker[r].continues])]
    BY <1>3, Zenon DEF SkipEntry, Note, FailEntry
  <2>2. Shape(r) /\ worker[r].next \in DOMAIN worker[r].entries
    BY <1>1 DEF Shape
  <2>3. /\ worker'[r].entries = worker[r].entries /\ worker'[r].profile = worker[r].profile
        /\ worker'[r].jobs = worker[r].jobs /\ worker'[r].at \in {"entry", "finish", "align"}
        /\ worker'[r].at = "entry" =>
             worker'[r].next = worker[r].next + 1 /\ worker[r].next < Len(worker[r].entries)
        /\ worker'[r].at # "entry" => worker'[r].next = 1
        /\ worker'[r].at = "align" => worker[r].jobs # <<>>
    BY <2>1, AdvanceEffect DEF Same
  <2>4. worker'[r].at = "entry" => worker'[r].next \in DOMAIN worker'[r].entries
    BY <1>2, <2>2, <2>3
  <2>5. worker'[r].at = "align" => worker'[r].next \in DOMAIN worker'[r].jobs
    BY <1>2, <2>3
  <2> QED
    BY <1>1, <2>2, <2>3, <2>4, <2>5 DEF Shape, Running, in, Before, Loop, Back
<1>4. CASE Ingest(r)
  <2>1. /\ worker'[r].at \in {"claim", "note"}
        /\ Same(worker'[r], worker[r], {"entries", "profile", "next", "jobs"})
    BY <1>4, IngestEffect DEF Same
  <2> QED
    BY <1>1, <2>1, SameShape
<1>5. CASE Claim(r)
  <2>1. /\ worker'[r].at = "note" /\ worker'[r].entries = worker[r].entries
        /\ worker'[r].profile = worker[r].profile /\ worker'[r].next = worker[r].next
    BY <1>5, ClaimWorkerEffect DEF Same
  <2> QED
    BY <1>1, <2>1 DEF Shape, Running, in, Before, Loop, Back
<1> QED
  BY <1>3, <1>4, <1>5

LEMMA BackKeepsShape ==
  ASSUME TypeOK, NEW r \in Run, Shape(r),
         Align(r) \/ ImportJob(r) \/ FailJob(r) \/ FinishRun(r) \/ Crash(r)
  PROVE  Shape(r)'
<1>1. worker[r].jobs \in Seq(RawEntry) /\ worker[r].next \in Nat
  BY DEF TypeOK, WorkerState
<1>2. CASE Align(r)
  <2>1. in(r, "align")
    BY <1>2 DEF Align
  <2> QED
    BY <1>2, <2>1, AlignEffect, SameShape DEF Same
<1>3. CASE ImportJob(r) \/ FailJob(r)
  <2>1. in(r, "import") \/ in(r, "fail")
    BY <1>3, JobEffect
  <2>2. worker[r].next \in DOMAIN worker[r].jobs
    BY <2>1 DEF Shape, in, Back
  <2> QED
    BY <1>1, <1>3, <2>1, <2>2, JobEffect DEF Shape, Same, Running, in, Before, Loop, Back
<1>4. CASE FinishRun(r) \/ Crash(r)
  <2>1. PICK place \in {"done", "crashed"} : leave(r, place)
    BY <1>4 DEF FinishRun, Crash
  <2> QED
    BY <2>1, LeaveEffect DEF Shape, Running, in, Before, Loop, Back
<1> QED
  BY <1>2, <1>3, <1>4

Typed == TypeOK /\ \A r \in Run : Shape(r)

LEMMA TypedInit == Init => Typed
<1> SUFFICES ASSUME Init PROVE Typed
  OBVIOUS
<1>1. StoreTypeOK
  BY NoItemIsTyped DEF Init, StoreInit, StoreTypeOK, NoAlignment
<1>2. AudioTypeOK
  BY DEF Init, AudioInit, AudioTypeOK, NoBatch, BatchPlaces
<1>3. worker = [r \in Run |-> Idle]
  BY DEF Init
<1>4. \A r \in Run : Shape(r)
  BY <1>3 DEF Shape, Idle, DistinctEntries, Running, in, Before, Loop, Back
<1> QED
  BY <1>1, <1>2, <1>3, <1>4, IdleIsTyped DEF Typed, TypeOK

LEMMA TypedStep == Typed /\ [Next]_vars => Typed'
<1> SUFFICES ASSUME Typed, [Next]_vars PROVE Typed'
  OBVIOUS
<1>1. TypeOK /\ \A r \in Run : Shape(r)
  BY DEF Typed
<1>2. ASSUME NEW r \in Run, Shape(r)', \A s \in Run : s # r => worker'[s] = worker[s]
      PROVE  \A s \in Run : Shape(s)'
  BY <1>1, <1>2 DEF Shape, Running, in
<1>3. ASSUME NEW r \in Run, Work(r) \/ Crash(r) PROVE Typed'
  <2>1. TypeOK'
    BY <1>1, <1>3, BeforeIsTyped, LoopIsTyped, BackIsTyped, OutsideIsTyped DEF Work
  <2>2. Shape(r)'
    BY <1>1, <1>3, BeforeKeepsShape, LoopKeepsShape, BackKeepsShape DEF Work
  <2>3. \A s \in Run : s # r => worker'[s] = worker[s]
    BY <1>1, <1>3, OthersStay
  <2> QED
    BY <1>2, <2>1, <2>2, <2>3 DEF Typed
<1>4. ASSUME NEW r \in Run, NEW d \in Documents, NEW overwrite \in BOOLEAN, NEW p \in Profile,
             NEW continues \in ContinueOnError, Request(r, d, overwrite, p, continues)
      PROVE  Typed'
  <2>1. TypeOK'
    BY <1>1, <1>4, BeforeIsTyped
  <2>2. Shape(r)'
    BY <1>1, <1>4, RequestKeepsShape
  <2>3. \A s \in Run : s # r => worker'[s] = worker[s]
    BY <1>1, <1>4, OthersStay
  <2> QED
    BY <1>2, <2>1, <2>2, <2>3 DEF Typed
<1>5. ASSUME LeaseExpires \/ PruneRuns \/ UNCHANGED vars PROVE Typed'
  <2>1. TypeOK'
    BY <1>1, <1>5, OutsideIsTyped
  <2>2. worker' = worker
    BY <1>5 DEF LeaseExpires, PruneRuns, vars
  <2>3. \A r \in Run : Shape(r)'
    BY <1>1, <2>2 DEF Shape, Running, in
  <2> QED
    BY <2>1, <2>3 DEF Typed
<1> QED
  BY <1>3, <1>4, <1>5 DEF Next

\* Every variable keeps its type, in every run of the program; the loader gives
\* lists of entries without duplicates, and no list is read past its end.
THEOREM TypeCorrect == Spec => []TypeOK
<1>1. Spec => []Typed
  BY TypedInit, TypedStep, PTL DEF Spec
<1>2. Typed => TypeOK
  BY DEF Typed
<1> QED
  BY <1>1, <1>2, PTL

-----------------------------------------------------------------------------
\* The audio server.  While a batch moves, what it wants is there or still to be
\* moved, under a name nothing damaged is stored under; a stored batch is there.
BatchOK(b) ==
  /\ batch[b].at \in {"staging", "finalizing"} =>
       \A a \in batch[b].wants :
         objects[a] = "good" \/ (a \in batch[b].missing /\ objects[a] # "damaged")
  /\ At(b, "stored") => \A a \in batch[b].wants : objects[a] = "good"
UploadsHold == \A b \in Batch : BatchOK(b)

LEMMA FinalizeEffect ==
  ASSUME AudioTypeOK, NEW b \in Batch, FinalizeObject(b)
  PROVE  /\ At(b, "finalizing")
         /\ \E a \in batch[b].missing :
              /\ objects' = [objects EXCEPT ![a] = IF objects[a] = "absent" THEN "good" ELSE objects[a]]
              /\ batch'[b].wants = batch[b].wants /\ batch'[b].missing = batch[b].missing \ {a}
              /\ batch'[b].at = IF batch[b].missing = {a} THEN "stored" ELSE batch[b].at
              /\ \A c \in Batch : c # b => batch'[c] = batch[c]
<1>1. At(b, "finalizing")
  BY Zenon DEF FinalizeObject
<1>2. PICK a \in batch[b].missing :
          /\ objects' = [objects EXCEPT ![a] = IF @ = "absent" THEN "good" ELSE @]
          /\ batch' = [batch EXCEPT ![b].missing = @ \ {a},
                                    ![b].at = IF batch[b].missing = {a} THEN "stored" ELSE @]
  BY Zenon DEF FinalizeObject
<1>3. objects' = [objects EXCEPT ![a] = IF objects[a] = "absent" THEN "good" ELSE objects[a]]
  BY <1>2
<1>4. /\ batch'[b].wants = batch[b].wants /\ batch'[b].missing = batch[b].missing \ {a}
      /\ batch'[b].at = IF batch[b].missing = {a} THEN "stored" ELSE batch[b].at
      /\ \A c \in Batch : c # b => batch'[c] = batch[c]
  BY <1>2 DEF AudioTypeOK
<1> QED
  BY <1>1, <1>3, <1>4

\* An upload moves only what is absent, and only bytes that it verified.
LEMMA UploadKeepsObjects ==
  ASSUME AudioTypeOK, NEW b \in Batch, Refuse(b) \/ Preflight(b) \/ Upload(b)
  PROVE  /\ ObjectStep
         /\ \A c \in Batch : c # b => batch'[c] = batch[c]
         /\ batch'[b].wants = batch[b].wants
<1> USE DEF AudioTypeOK
<1>1. CASE FinalizeObject(b)
  <2>1. PICK a \in batch[b].missing :
          /\ objects' = [objects EXCEPT ![a] = IF objects[a] = "absent" THEN "good" ELSE objects[a]]
          /\ batch'[b].wants = batch[b].wants
          /\ \A c \in Batch : c # b => batch'[c] = batch[c]
    BY <1>1, FinalizeEffect
  <2> QED
    BY <2>1 DEF ObjectStep
<1>2. CASE Refuse(b) \/ Preflight(b)
  BY <1>2 DEF Refuse, Preflight, Go, ObjectStep
<1>3. CASE Stage(b) \/ StageFails(b) \/ StageTears(b) \/ FinalizeFails(b) \/ Cleanup(b)
  BY <1>3 DEF Stage, StageFails, StageTears, FinalizeFails, Cleanup, Go, ObjectStep
<1> QED
  BY <1>1, <1>2, <1>3 DEF Upload

LEMMA UploadKeepsBatches ==
  ASSUME AudioTypeOK, NEW b \in Batch, Refuse(b) \/ Preflight(b) \/ Upload(b), UploadsHold
  PROVE  UploadsHold'
<1> USE DEF AudioTypeOK
<1>1. ASSUME NEW c \in Batch, c # b PROVE BatchOK(c)'
  <2>1. ObjectStep /\ batch'[c] = batch[c] /\ BatchOK(c) /\ batch[c].wants \subseteq Audio
    BY <1>1, UploadKeepsObjects DEF UploadsHold
  <2> QED
    BY <2>1 DEF BatchOK, ObjectStep, At
<1>2. BatchOK(b) /\ batch[b].wants \subseteq Audio
  BY DEF UploadsHold
<1>3. CASE Refuse(b) \/ FinalizeFails(b) \/ Cleanup(b) \/ StageFails(b)
  <2>1. batch'[b].at \in {"failed", "cleaning"}
    BY <1>3 DEF Refuse, FinalizeFails, Cleanup, StageFails, Go
  <2> QED
    BY <1>1, <2>1 DEF UploadsHold, BatchOK, At
<1>4. CASE Stage(b) \/ StageTears(b)
  <2>1. /\ batch[b].at = "staging" /\ batch'[b].at = "finalizing" /\ objects' = objects
        /\ batch'[b].wants = batch[b].wants /\ batch'[b].missing = batch[b].missing
    BY <1>4 DEF Stage, StageTears, At, Go
  <2> QED
    BY <1>1, <1>2, <2>1 DEF UploadsHold, BatchOK, At
<1>5. CASE Preflight(b)
  <2>1. /\ objects' = objects /\ batch'[b].wants = batch[b].wants
        /\ batch'[b].at = IF Damaged(b) THEN "failed"
                          ELSE IF Missing(b) = {} THEN "stored" ELSE "staging"
        /\ batch'[b].missing = IF Damaged(b) THEN {} ELSE Missing(b)
    BY <1>5 DEF Preflight
  <2>2. ~Damaged(b) => \A a \in batch[b].wants :
          objects[a] = "good" \/ (a \in Missing(b) /\ objects[a] # "damaged")
    BY <1>2 DEF Damaged, Missing
  <2> QED
    BY <1>1, <2>1, <2>2 DEF UploadsHold, BatchOK, At
<1>6. CASE FinalizeObject(b)
  <2>1. PICK a \in batch[b].missing :
              /\ objects' = [objects EXCEPT ![a] = IF objects[a] = "absent" THEN "good" ELSE objects[a]]
              /\ batch'[b].wants = batch[b].wants /\ batch'[b].missing = batch[b].missing \ {a}
              /\ batch'[b].at = IF batch[b].missing = {a} THEN "stored" ELSE batch[b].at
    BY <1>6, FinalizeEffect
  <2>2. batch[b].at = "finalizing"
    BY <1>6, FinalizeEffect DEF At
  <2>3. \A x \in batch[b].wants :
          objects'[x] = "good" \/ (x \in batch'[b].missing /\ objects'[x] # "damaged")
    BY <1>2, <2>1, <2>2 DEF BatchOK
  <2>4. batch'[b].at = "stored" => batch'[b].missing = {}
    BY <2>1, <2>2
  <2> QED
    BY <1>1, <2>1, <2>3, <2>4 DEF UploadsHold, BatchOK, At
<1> QED
  BY <1>3, <1>4, <1>5, <1>6 DEF Upload

\* What a run does to the objects: nothing, outside its uploads.
LEMMA ObjectsStep == Typed /\ [Next]_vars => ObjectStep
<1> SUFFICES ASSUME Typed, [Next]_vars PROVE ObjectStep
  OBVIOUS
<1>1. ASSUME NEW r \in Run, UploadStep(r) PROVE ObjectStep
  <2>1. PICK b \in {r} \X BatchNumber : Refuse(b) \/ Preflight(b) \/ Upload(b)
    BY <1>1 DEF UploadStep
  <2> QED
    BY <2>1, UploadKeepsObjects, BatchAssumption DEF Typed, TypeOK
<1>2. ASSUME objects' = objects PROVE ObjectStep
  BY <1>2 DEF ObjectStep
<1>3. ASSUME NEW r \in Run, Work(r), ~UploadStep(r) PROVE objects' = objects
  BY <1>3, Zenon DEF Work, CheckExisting, CompleteAllSkipped, Doctor, StartRun, Prepare,
       AwaitUploads, SkipEntry, Ingest, Claim, Note, FailEntry, Align, ImportJob, FailJob,
       FinishRun, audioVars
<1>4. ASSUME \/ \E r \in Run : Crash(r)
             \/ \E r \in Run, d \in Documents, overwrite \in BOOLEAN,
                  p \in Profile, continues \in ContinueOnError :
                  Request(r, d, overwrite, p, continues)
             \/ LeaseExpires \/ PruneRuns \/ UNCHANGED vars
      PROVE  objects' = objects
  BY <1>4, Zenon DEF Crash, Request, LeaseExpires, PruneRuns, vars, audioVars
<1> QED
  BY <1>1, <1>2, <1>3, <1>4 DEF Next

\* An object that is stored stays as it is, and no upload of any process stores
\* bytes under a name that is not their hash: whatever is torn, retried, broken off or
\* done at the same time (SshAudioObjectStore.ensure_many).
THEOREM ObjectsStayGood == Spec => ObjectsAreImmutable
<1>1. Typed /\ [Next]_vars => [ObjectStep]_objects
  BY ObjectsStep
<1> QED
  BY <1>1, TypedInit, TypedStep, PTL DEF Spec, ObjectsAreImmutable

-----------------------------------------------------------------------------
\* A run has batches only while it uploads, and they want what it prepared; an
\* entry of the loop that counts as uploaded has its audio on the server.
Wanted(r, n) ==
  {audio(worker[r].entries[i]) : i \in InBatch(Prepared(r, worker[r].ready), n)}
BatchesOf(r) == \A n \in BatchNumber :
  /\ ~in(r, "upload") => At(<<r, n>>, "none")
  /\ ~At(<<r, n>>, "none") => batch[<<r, n>>].wants = Wanted(r, n)
ReadyHasAudio(r) == worker[r].at \in Loop =>
  \A i \in DOMAIN worker[r].entries :
    Uploaded(r, worker[r].entries[i]) => objects[audio(worker[r].entries[i])] = "good"

AudioInv ==
  /\ Typed /\ UploadsHold /\ VersionHasAudio
  /\ \A r \in Run : BatchesOf(r) /\ ReadyHasAudio(r)

LEMMA SameBatches ==
  ASSUME NEW s \in Run, worker'[s] = worker[s], BatchesOf(s),
         \A n \in BatchNumber : batch'[<<s, n>>] = batch[<<s, n>>]
  PROVE  BatchesOf(s)'
<1>1. ASSUME NEW n \in BatchNumber PROVE Wanted(s, n)' = Wanted(s, n)
  <2>1. Prepared(s, worker[s].ready)' = Prepared(s, worker[s].ready)
    BY DEF Prepared, Candidates
  <2> QED
    BY <2>1 DEF Wanted, InBatch, audio
<1>2. in(s, "upload")' = in(s, "upload")
  BY DEF in
<1>3. ASSUME NEW n \in BatchNumber
      PROVE  At(<<s, n>>, "none")' = At(<<s, n>>, "none")
             /\ (batch[<<s, n>>].wants)' = batch[<<s, n>>].wants
  BY DEF At
<1> QED
  BY <1>1, <1>2, <1>3 DEF BatchesOf

\* Most steps leave the batches alone, and neither enter nor leave the upload.
LEMMA QuietBatches ==
  ASSUME AudioInv, UNCHANGED audioVars, \A s \in Run :
           worker'[s] = worker[s] \/ (~in(s, "upload") /\ ~in(s, "upload")')
  PROVE  UploadsHold' /\ \A s \in Run : BatchesOf(s)'
<1>1. objects' = objects /\ batch' = batch
  BY DEF audioVars
<1>2. UploadsHold'
  BY <1>1 DEF AudioInv, UploadsHold, BatchOK, At
<1>3. ASSUME NEW s \in Run PROVE BatchesOf(s)'
  <2>1. BatchesOf(s)
    BY DEF AudioInv
  <2>2. CASE worker'[s] = worker[s]
    BY <1>1, <2>1, <2>2, SameBatches
  <2>3. CASE ~in(s, "upload") /\ ~in(s, "upload")'
    BY <1>1, <2>1, <2>3 DEF BatchesOf, At
  <2> QED
    BY <2>2, <2>3
<1> QED
  BY <1>2, <1>3

LEMMA BatchesStep ==
  ASSUME AudioInv, NEW r \in Run, Work(r) \/ Crash(r)
  PROVE  UploadsHold' /\ \A s \in Run : BatchesOf(s)'
<1>1. TypeOK /\ AudioTypeOK /\ Shape(r) /\ BatchesOf(r)
  BY DEF AudioInv, Typed, TypeOK
<1>2. \A s \in Run : s # r => worker'[s] = worker[s]
  BY <1>1, OthersStay
<1>3. ASSUME NEW s \in Run, s # r, \A n \in BatchNumber : batch'[<<s, n>>] = batch[<<s, n>>]
      PROVE  BatchesOf(s)'
  <2>1. BatchesOf(s) /\ worker'[s] = worker[s]
    BY <1>2, <1>3 DEF AudioInv
  <2> QED
    BY <1>3, <2>1, SameBatches
<1>4. \A s \in Run, n \in BatchNumber : <<s, n>> \in Batch
  BY BatchAssumption
<1>5. CASE Prepare(r)
  <2>1. PICK good \in Probed(r) :
          /\ worker' = [worker EXCEPT ![r].ready = good, ![r].at = "upload"]
          /\ batch' = [b \in Batch |->
               IF b[1] = r /\ InBatch(Prepared(r, good), b[2]) # {}
               THEN [at |-> "queued", missing |-> {},
                     wants |-> {audio(worker[r].entries[i]) : i \in InBatch(Prepared(r, good), b[2])}]
               ELSE batch[b]]
    BY <1>5, Zenon DEF Prepare
  <2>2. objects' = objects /\ in(r, "prepare")
    BY <1>5, Zenon DEF Prepare
  <2>3. /\ worker'[r].at = "upload" /\ worker'[r].ready = good
        /\ worker'[r].entries = worker[r].entries /\ worker'[r].overwrite = worker[r].overwrite
        /\ worker'[r].known = worker[r].known
    BY <1>1, <2>1 DEF TypeOK, WorkerState
  <2>4. \A n : Wanted(r, n)' = {audio(worker[r].entries[i]) : i \in InBatch(Prepared(r, good), n)}
    BY <2>3 DEF Wanted, Prepared, Candidates, InBatch, audio
  <2>5. BatchesOf(r)'
    <3> SUFFICES ASSUME NEW n \in BatchNumber, ~At(<<r, n>>, "none")'
                 PROVE  (batch[<<r, n>>].wants)' = Wanted(r, n)'
      BY <2>3 DEF BatchesOf, in
    <3>1. At(<<r, n>>, "none")
      BY <1>1, <2>2 DEF BatchesOf, in
    <3>2. InBatch(Prepared(r, good), n) # {}
      BY <1>4, <2>1, <3>1 DEF At
    <3> QED
      BY <1>4, <2>1, <2>4, <3>2
  <2>6. \A s \in Run : s # r => BatchesOf(s)'
    BY <1>3, <1>4, <2>1
  <2>7. UploadsHold'
    BY <2>1, <2>2 DEF AudioInv, UploadsHold, BatchOK, At
  <2> QED
    BY <2>5, <2>6, <2>7
<1>6. CASE UploadStep(r)
  <2>1. PICK b \in {r} \X BatchNumber : Refuse(b) \/ Preflight(b) \/ Upload(b)
    BY <1>6 DEF UploadStep
  <2>2. b \in Batch /\ worker' = worker /\ in(r, "upload")
    BY <1>6, BatchAssumption DEF UploadStep
  <2>3. UploadsHold'
    BY <1>1, <2>1, <2>2, UploadKeepsBatches DEF AudioInv
  <2>4. ~At(b, "none")
    BY <2>1 DEF Refuse, Preflight, Upload, Stage, StageFails, StageTears, FinalizeObject,
                FinalizeFails, Cleanup, At
  <2>5. batch'[b].wants = batch[b].wants /\ \A c \in Batch : c # b => batch'[c] = batch[c]
    BY <1>1, <2>1, <2>2, UploadKeepsObjects
  <2>6. BatchesOf(r)'
    <3> SUFFICES ASSUME NEW n \in BatchNumber, ~At(<<r, n>>, "none")'
                 PROVE  (batch[<<r, n>>].wants)' = Wanted(r, n)'
      BY <2>2 DEF BatchesOf, in
    <3>1. Wanted(r, n)' = Wanted(r, n)
      BY <2>2 DEF Wanted, Prepared, Candidates, InBatch, audio
    <3>2. ~At(<<r, n>>, "none") /\ batch'[<<r, n>>].wants = batch[<<r, n>>].wants
      BY <1>4, <2>4, <2>5 DEF At
    <3> QED
      BY <1>1, <3>1, <3>2 DEF BatchesOf
  <2>7. \A s \in Run : s # r => BatchesOf(s)'
    BY <1>3, <1>4, <2>1, <2>5
  <2> QED
    BY <2>3, <2>6, <2>7
<1>7. CASE AwaitUploads(r) \/ Crash(r)
  <2>1. /\ batch' = [b \in Batch |-> IF b[1] = r THEN NoBatch ELSE batch[b]] /\ objects' = objects
    BY <1>7, Zenon DEF AwaitUploads, Crash
  <2>2. \A n \in BatchNumber : batch'[<<r, n>>].at = "none"
    BY <1>4, <2>1 DEF NoBatch
  <2>3. BatchesOf(r)'
    BY <2>2 DEF BatchesOf, At
  <2>4. \A s \in Run : s # r => BatchesOf(s)'
    BY <1>3, <1>4, <2>1
  <2>5. UploadsHold'
    BY <2>1 DEF AudioInv, UploadsHold, BatchOK, At, NoBatch
  <2> QED
    BY <2>3, <2>4, <2>5
<1>8. CASE CheckExisting(r) \/ CompleteAllSkipped(r) \/ Doctor(r) \/ StartRun(r)
  <2>1. UNCHANGED audioVars /\ ~in(r, "upload")
    BY <1>8 DEF CheckExisting, CompleteAllSkipped, Doctor, StartRun, in, audioVars
  <2>2. ~in(r, "upload")'
    <3>1. CASE CheckExisting(r) \/ Doctor(r)
      BY <1>1, <3>1, MoveEffect DEF CheckExisting, Doctor, in
    <3>2. CASE CompleteAllSkipped(r)
      BY <1>1, <3>2, LeaveEffect DEF CompleteAllSkipped, in
    <3>3. CASE StartRun(r)
      BY <1>1, <3>3 DEF StartRun, in, TypeOK, WorkerState
    <3> QED
      BY <1>8, <3>1, <3>2, <3>3
  <2> QED
    BY <1>2, <2>1, <2>2, QuietBatches
<1>9. CASE SkipEntry(r) \/ Ingest(r) \/ Claim(r) \/ Note(r) \/ FailEntry(r)
  <2>1. UNCHANGED audioVars /\ ~in(r, "upload")
    BY <1>9, Zenon DEF SkipEntry, Ingest, Claim, Note, FailEntry, Attempted, in, audioVars
  <2>2. CASE Ingest(r) \/ Claim(r)
    <3>1. worker'[r].at \in {"claim", "note"}
      BY <1>1, <2>2, IngestEffect, ClaimWorkerEffect
    <3> QED
      BY <1>2, <2>1, <3>1, QuietBatches DEF in
  <2>3. CASE SkipEntry(r) \/ Note(r) \/ FailEntry(r)
    <3>1. \/ advance(r)
          \/ worker' = [worker EXCEPT ![r] = Next1([worker[r] EXCEPT !.aborted = ~worker[r].continues])]
      BY <2>3, Zenon DEF SkipEntry, Note, FailEntry
    <3>2. worker'[r].at \in {"entry", "finish", "align"}
      BY <1>1, <3>1, AdvanceEffect
    <3> QED
      BY <1>2, <2>1, <3>2, QuietBatches DEF in
  <2> QED
    BY <1>9, <2>2, <2>3
<1>10. CASE Align(r) \/ ImportJob(r) \/ FailJob(r) \/ FinishRun(r)
  <2>1. UNCHANGED audioVars /\ ~in(r, "upload")
    BY <1>10, Zenon DEF Align, ImportJob, FailJob, FinishRun, in, audioVars
  <2>2. CASE Align(r)
    BY <1>1, <1>2, <2>1, <2>2, AlignEffect, QuietBatches DEF in
  <2>3. CASE ImportJob(r) \/ FailJob(r)
    <3>1. worker'[r].at \in {"import", "fail", "finish"}
      BY <1>1, <2>3, JobEffect
    <3> QED
      BY <1>1, <1>2, <2>1, <3>1, QuietBatches DEF in
  <2>4. CASE FinishRun(r)
    <3>1. leave(r, "done")
      BY <2>4 DEF FinishRun
    <3> QED
      BY <1>1, <1>2, <2>1, <3>1, LeaveEffect, QuietBatches DEF in
  <2> QED
    BY <1>10, <2>2, <2>3, <2>4
<1> QED
  BY <1>5, <1>6, <1>7, <1>8, <1>9, <1>10 DEF Work

\* The loop is entered after the uploads, and keeps what counts as uploaded.
LEMMA EntersLoop ==
  ASSUME TypeOK, NEW r \in Run, Shape(r), Work(r) \/ Crash(r), worker'[r].at \in Loop
  PROVE  \/ AwaitUploads(r)
         \/ worker[r].at \in Loop /\ Same(worker'[r], worker[r], {"entries", "ready"})
<1>1. CASE CheckExisting(r) \/ Doctor(r)
  <2>1. PICK place \in {"skip", "doctor", "start", "refused"} : move(r, place)
    BY <1>1 DEF CheckExisting, Doctor
  <2> QED
    BY <2>1, MoveEffect DEF Loop
<1>2. CASE CompleteAllSkipped(r) \/ FinishRun(r) \/ Crash(r)
  <2>1. PICK place \in {"done", "crashed"} : leave(r, place)
    BY <1>2 DEF CompleteAllSkipped, FinishRun, Crash
  <2> QED
    BY <2>1, LeaveEffect DEF Loop
<1>3. CASE StartRun(r)
  BY <1>3 DEF StartRun, TypeOK, WorkerState, Loop
<1>4. CASE Prepare(r)
  <2>1. PICK good : worker' = [worker EXCEPT ![r].ready = good, ![r].at = "upload"]
    BY <1>4, Zenon DEF Prepare
  <2> QED
    BY <2>1 DEF TypeOK, WorkerState, Loop
<1>5. CASE UploadStep(r)
  BY <1>5 DEF UploadStep, in, Loop
<1>6. CASE SkipEntry(r) \/ Note(r) \/ FailEntry(r)
  <2>1. \/ advance(r)
        \/ worker' = [worker EXCEPT ![r] = Next1([worker[r] EXCEPT !.aborted = ~worker[r].continues])]
    BY <1>6, Zenon DEF SkipEntry, Note, FailEntry
  <2>2. worker[r].at \in Loop
    BY <1>6, Zenon DEF SkipEntry, Note, FailEntry, Attempted, in, Loop
  <2> QED
    BY <2>1, <2>2, AdvanceEffect DEF Same, Loop
<1>7. CASE Ingest(r)
  <2>1. in(r, "entry")
    BY <1>7 DEF Ingest
  <2> QED
    BY <1>7, <2>1, IngestEffect DEF Same, Loop, in
<1>8. CASE Claim(r)
  <2>1. in(r, "claim")
    BY <1>8, Zenon DEF Claim
  <2> QED
    BY <1>8, <2>1, ClaimWorkerEffect DEF Same, Loop, in
<1>9. CASE Align(r)
  BY <1>9, AlignEffect DEF Loop
<1>10. CASE ImportJob(r) \/ FailJob(r)
  BY <1>10, JobEffect DEF Loop
<1> QED
  BY <1>1, <1>2, <1>3, <1>4, <1>5, <1>6, <1>7, <1>8, <1>9, <1>10 DEF Work

LEMMA ReadyStep ==
  ASSUME AudioInv, ObjectStep, NEW r \in Run, Work(r) \/ Crash(r)
  PROVE  ReadyHasAudio(r)'
<1> SUFFICES ASSUME worker'[r].at \in Loop, NEW i \in DOMAIN worker'[r].entries,
                    Uploaded(r, worker[r].entries[i])'
             PROVE  objects'[audio(worker'[r].entries[i])] = "good"
  BY DEF ReadyHasAudio, audio
<1>1. TypeOK /\ Shape(r) /\ BatchesOf(r) /\ ReadyHasAudio(r) /\ UploadsHold
      /\ worker[r].entries \in Seq(RawEntry)
  BY DEF AudioInv, Typed, TypeOK, WorkerState
<1>2. \A e \in RawEntry : audio(e) \in Audio /\ (objects[audio(e)] = "good" => objects'[audio(e)] = "good")
  BY DocumentsAssumption, AudioOfAssumption DEF ObjectStep, audio
<1>3. CASE worker[r].at \in Loop /\ Same(worker'[r], worker[r], {"entries", "ready"})
  <2>1. worker'[r].entries = worker[r].entries /\ worker'[r].ready = worker[r].ready
    BY <1>3 DEF Same
  <2>2. objects[audio(worker[r].entries[i])] = "good"
    BY <1>1, <1>3, <2>1 DEF ReadyHasAudio, Uploaded
  <2> QED
    BY <1>1, <1>2, <2>1, <2>2
<1>4. CASE AwaitUploads(r)
  <2> DEFINE kept == {e.id : e \in UNION {BatchEntries(r, n) :
                                          n \in {m \in BatchNumber : At(<<r, m>>, "stored")}}}
  <2>1. worker' = [worker EXCEPT ![r].ready = kept, ![r].at = "entry"]
    BY <1>4, Zenon DEF AwaitUploads
  <2>2. worker'[r].entries = worker[r].entries /\ worker'[r].ready = kept
    <3> HIDE DEF kept
    <3> QED
      BY <1>1, <2>1 DEF TypeOK, WorkerState
  <2>3. PICK n \in BatchNumber :
          At(<<r, n>>, "stored") /\ \E e \in BatchEntries(r, n) : e.id = worker[r].entries[i].id
    BY <2>2 DEF Uploaded
  <2>4. PICK j \in InBatch(Prepared(r, worker[r].ready), n) :
          worker[r].entries[j].id = worker[r].entries[i].id
    BY <2>3 DEF BatchEntries
  <2>5. j \in DOMAIN worker[r].entries
    BY DEF InBatch, Prepared, Candidates
  <2>6. j = i
    BY <1>1, <2>2, <2>3, <2>4, <2>5 DEF Shape, DistinctEntries
  <2>7. audio(worker[r].entries[i]) \in batch[<<r, n>>].wants
    <3>1. batch[<<r, n>>].wants = Wanted(r, n)
      BY <1>1, <2>3 DEF BatchesOf, At
    <3> QED
      BY <2>4, <2>6, <3>1 DEF Wanted
  <2>8. objects[audio(worker[r].entries[i])] = "good"
    BY <1>1, <2>3, <2>7, BatchAssumption DEF UploadsHold, BatchOK
  <2> QED
    BY <1>1, <1>2, <2>2, <2>8
<1> QED
  BY <1>1, <1>3, <1>4, EntersLoop

\* A version is inserted for an entry of the loop that counts as uploaded.
LEMMA VersionsGrow ==
  ASSUME Typed, [Next]_vars
  PROVE  /\ versions \subseteq versions'
         /\ \A v \in versions' \ versions : \E r \in Run :
              /\ in(r, "entry") /\ worker[r].next \in DOMAIN worker[r].entries
              /\ Uploaded(r, entry(r)) /\ v = <<entry(r).id, entry(r).content>>
<1>1. ASSUME NEW r \in Run, in(r, "entry") /\ Uploaded(r, entry(r)),
             IngestTx(entry(r).id, entry(r).content, worker[r].overwrite)
      PROVE  /\ versions \subseteq versions'
             /\ versions' \subseteq versions \cup {<<entry(r).id, entry(r).content>>}
             /\ worker[r].next \in DOMAIN worker[r].entries
  BY <1>1 DEF IngestTx, Typed, Shape, Loop, in
<1>2. CASE versions' = versions
  BY <1>2
<1>3. ASSUME NEW r \in Run, Ingest(r) \/ FailEntry(r), versions' # versions
      PROVE  /\ in(r, "entry") /\ Uploaded(r, entry(r))
             /\ IngestTx(entry(r).id, entry(r).content, worker[r].overwrite)
  BY <1>3, Zenon DEF Ingest, FailEntry, Committed
<1>4. ASSUME NEW r \in Run, Work(r), ~(Ingest(r) \/ FailEntry(r)) PROVE versions' = versions
  BY <1>4, Zenon DEF Work, CheckExisting, CompleteAllSkipped, Doctor, StartRun, Prepare,
       UploadStep, AwaitUploads, SkipEntry, Claim, Note, Align, ImportJob, FailJob,
       FinishRun, storeVars
<1>5. ASSUME \/ \E r \in Run : Crash(r)
             \/ \E r \in Run, d \in Documents, overwrite \in BOOLEAN,
                  p \in Profile, continues \in ContinueOnError :
                  Request(r, d, overwrite, p, continues)
             \/ LeaseExpires \/ PruneRuns \/ UNCHANGED vars
      PROVE  versions' = versions
  BY <1>5, Zenon DEF Crash, Request, LeaseExpires, PruneRuns, vars, storeVars
<1> QED
  BY <1>1, <1>2, <1>3, <1>4, <1>5 DEF Next

LEMMA AudioInvInit == Init => AudioInv
<1> SUFFICES ASSUME Init PROVE AudioInv
  OBVIOUS
<1>1. \A b \in Batch : batch[b] = NoBatch
  BY DEF Init, AudioInit
<1>2. UploadsHold
  BY <1>1 DEF UploadsHold, BatchOK, At, NoBatch
<1>3. \A r \in Run : worker[r].at = "idle"
  BY DEF Init, Idle
<1>4. \A r \in Run : BatchesOf(r) /\ ReadyHasAudio(r)
  BY <1>1, <1>3, BatchAssumption DEF BatchesOf, ReadyHasAudio, At, NoBatch, Loop
<1>5. VersionHasAudio
  BY DEF Init, StoreInit, VersionHasAudio
<1> QED
  BY <1>2, <1>4, <1>5, TypedInit DEF AudioInv

LEMMA AudioInvStep == AudioInv /\ [Next]_vars => AudioInv'
<1> SUFFICES ASSUME AudioInv, [Next]_vars PROVE AudioInv'
  OBVIOUS
<1>1. Typed /\ Typed' /\ ObjectStep
  BY TypedStep, ObjectsStep DEF AudioInv
<1>2. VersionHasAudio'
  <2> SUFFICES ASSUME NEW v \in versions' PROVE objects'[AudioOf[v[2]]] = "good"
    BY DEF VersionHasAudio, FetchAudio, Fetchable
  <2>1. AudioOf[v[2]] \in Audio
    BY <1>1, AudioOfAssumption DEF Typed, TypeOK, StoreTypeOK, Version
  <2>2. objects[AudioOf[v[2]]] = "good"
    <3>1. CASE v \in versions
      BY <3>1 DEF AudioInv, VersionHasAudio, FetchAudio, Fetchable
    <3>2. CASE v \notin versions
      <4>1. PICK r \in Run :
              /\ in(r, "entry") /\ worker[r].next \in DOMAIN worker[r].entries
              /\ Uploaded(r, entry(r)) /\ v = <<entry(r).id, entry(r).content>>
        BY <1>1, <3>2, VersionsGrow
      <4> QED
        BY <4>1 DEF AudioInv, ReadyHasAudio, Loop, in, entry, audio
    <3> QED
      BY <3>1, <3>2
  <2> QED
    BY <1>1, <2>1, <2>2 DEF ObjectStep
<1>3. ASSUME NEW s \in Run, worker'[s] = worker[s] PROVE ReadyHasAudio(s)'
  <2>1. ReadyHasAudio(s) /\ worker[s].entries \in Seq(RawEntry)
    BY <1>1 DEF AudioInv, Typed, TypeOK, WorkerState
  <2>2. \A e \in RawEntry : audio(e) \in Audio
    BY DocumentsAssumption, AudioOfAssumption DEF audio
  <2>3. \A i \in DOMAIN worker[s].entries : audio(worker[s].entries[i]) \in Audio
    BY <2>1, <2>2
  <2> QED
    BY <1>1, <1>3, <2>1, <2>3 DEF ReadyHasAudio, Uploaded, ObjectStep, audio
<1>4. ASSUME NEW r \in Run, Work(r) \/ Crash(r) PROVE AudioInv'
  <2>1. \A s \in Run : s # r => worker'[s] = worker[s]
    BY <1>1, <1>4, OthersStay DEF Typed
  <2> QED
    BY <1>1, <1>2, <1>3, <1>4, <2>1, BatchesStep, ReadyStep DEF AudioInv
<1>5. ASSUME NEW r \in Run, NEW d \in Documents, NEW overwrite \in BOOLEAN, NEW p \in Profile,
             NEW continues \in ContinueOnError, Request(r, d, overwrite, p, continues)
      PROVE  AudioInv'
  <2>1. \A s \in Run : s # r => worker'[s] = worker[s]
    BY <1>1, <1>5, OthersStay DEF Typed
  <2>2. /\ UNCHANGED audioVars /\ ~in(r, "upload") /\ ~in(r, "upload")'
        /\ worker'[r].at \notin Loop
    BY <1>1, <1>5, RequestEffect DEF Typed, in, Loop
  <2>3. ReadyHasAudio(r)'
    BY <2>2 DEF ReadyHasAudio
  <2> QED
    BY <1>1, <1>2, <1>3, <2>1, <2>2, <2>3, QuietBatches DEF AudioInv
<1>6. ASSUME LeaseExpires \/ PruneRuns \/ UNCHANGED vars PROVE AudioInv'
  <2>1. worker' = worker /\ UNCHANGED audioVars
    BY <1>6 DEF LeaseExpires, PruneRuns, vars, audioVars
  <2> QED
    BY <1>1, <1>2, <1>3, <2>1, QuietBatches DEF AudioInv
<1> QED
  BY <1>4, <1>5, <1>6 DEF Next

\* The database never names audio that the server does not hold whole, whatever
\* fails, dies, or runs at the same time (AlignmentService._prepare_and_upload).
THEOREM VersionsHaveAudio == Spec => []VersionHasAudio
<1>1. Spec => []AudioInv
  BY AudioInvInit, AudioInvStep, PTL DEF Spec
<1>2. AudioInv => VersionHasAudio
  BY DEF AudioInv
<1> QED
  BY <1>1, <1>2, PTL

-----------------------------------------------------------------------------
\* The rows of alignments: one with an owner belongs to a version, and it is
\* complete, has its segments and is published, or has none of the three.
RowOK(v, p) ==
  LET a == alignment[<<v, p>>]
  IN /\ a.owner # None => v \in versions
     /\ a.status = "none" <=> a.owner = None
     /\ a.segments <=> a.status = "complete"
     /\ a.status = "complete" => published[v] # None
     /\ published[v] = p => a.status = "complete"
RowsHold == \A v \in Version, p \in Profile : RowOK(v, p)

\* A run that is about to claim inserted the version: nobody else is about to,
\* and the version has no alignment of any profile.
VersionAt(r) == <<entry(r).id, entry(r).content>>
Unclaimed(r) == in(r, "claim") =>
  /\ VersionAt(r) \in versions
  /\ \A p \in Profile : alignment[<<VersionAt(r), p>>].owner = None
  /\ \A other \in Run : other # r /\ in(other, "claim") => VersionAt(other) # VersionAt(r)

\* The jobs still ahead of a run: each is of an entry the loop has passed, no two
\* of the same, and its alignment runs under this run.
Pending(r) ==
  IF worker[r].at \in Loop \cup {"align"} THEN DOMAIN worker[r].jobs
  ELSE IF in(r, "import") THEN {j \in DOMAIN worker[r].jobs : j >= worker[r].next}
  ELSE IF in(r, "fail") THEN {j \in DOMAIN worker[r].jobs : j > worker[r].next}
  ELSE {}
JobsHold(r) ==
  /\ \A j \in Pending(r) :
       LET a == alignment[Key(r, worker[r].jobs[j])]
       IN a.owner = r /\ a.status = "running"
  /\ \A i, j \in Pending(r) : worker[r].jobs[i].id = worker[r].jobs[j].id => i = j
  /\ worker[r].at \in Loop => \A j \in Pending(r) : \E i \in DOMAIN worker[r].entries :
       /\ worker[r].entries[i].id = worker[r].jobs[j].id
       /\ i < worker[r].next \/ (i = worker[r].next /\ in(r, "note"))
  /\ worker[r].at \in Back => \A j \in Pending(r) : worker[r].jobs[j].id \in Ids(r)

\* A run that was not told of its import is about to fail what is complete.
Unanswered(r) == in(r, "fail") =>
  /\ job(r).id \in Ids(r) /\ job(r).id \in worker[r].unheard
  /\ LET a == alignment[Key(r, job(r))] IN a.owner = r /\ a.status = "complete"
  /\ \A j \in Pending(r) : worker[r].jobs[j].id # job(r).id

RowInv ==
  /\ Typed /\ RowsHold
  /\ \A r \in Run : Unclaimed(r) /\ JobsHold(r) /\ Unanswered(r)

\* What a step of a run may do to a row, and to the alignment of a version.
Kept(k) ==
  /\ alignment'[k].status = alignment[k].status /\ alignment'[k].owner = alignment[k].owner
  /\ alignment'[k].segments = alignment[k].segments
Taken(r, k) ==
  /\ in(r, "claim") /\ k = Key(r, entry(r))
  /\ alignment[k].status = "none" /\ alignment[k].owner = None /\ ~alignment[k].segments
  /\ alignment'[k].status = "running" /\ alignment'[k].owner = r /\ ~alignment'[k].segments
Settled(r, k, status) ==
  /\ in(r, "import") /\ k = Key(r, job(r))
  /\ alignment[k].status = "running" /\ alignment[k].owner = r /\ ~alignment[k].segments
  /\ alignment'[k].status = status /\ alignment'[k].owner = r
  /\ alignment'[k].segments <=> status = "complete"
RowsChange(r) ==
  \/ published' = published /\ \A k \in Version \X Profile : Kept(k)
  \/ /\ published' = published
     /\ Taken(r, Key(r, entry(r))) /\ Key(r, entry(r)) \in Version \X Profile
     /\ \A k \in Version \X Profile : k # Key(r, entry(r)) => Kept(k)
  \/ /\ published' = published
     /\ Settled(r, Key(r, job(r)), "failed") /\ Key(r, job(r)) \in Version \X Profile
     /\ \A k \in Version \X Profile : k # Key(r, job(r)) => Kept(k)
  \/ /\ published' = [published EXCEPT ![Key(r, job(r))[1]] = Key(r, job(r))[2]]
     /\ Settled(r, Key(r, job(r)), "complete") /\ Key(r, job(r)) \in Version \X Profile
     /\ \A k \in Version \X Profile : k # Key(r, job(r)) => Kept(k)

LEMMA ClaimChanges ==
  ASSUME RowInv, NEW r \in Run, in(r, "claim"), ClaimTx(Key(r, entry(r)), r), published' = published
  PROVE  RowsChange(r) /\ Taken(r, Key(r, entry(r))) /\ Claimed(Key(r, entry(r))) = "claimed"
<1> DEFINE k == Key(r, entry(r))
<1>1. TypeOK /\ StoreTypeOK /\ Shape(r) /\ Unclaimed(r) /\ RowsHold
  BY DEF RowInv, Typed, TypeOK
<1>2. /\ k \in Version \X Profile /\ k = <<VersionAt(r), worker[r].profile>>
      /\ VersionAt(r) \in Version /\ worker[r].profile \in Profile
  <2>1. Running(r) /\ worker[r].next \in DOMAIN worker[r].entries /\ worker[r].profile \in Profile
    BY <1>1 DEF Shape, Running, in, Loop
  <2> QED
    BY <1>1, <2>1, EntryIsTyped, KeyIsTyped DEF Key, VersionAt
<1>3. /\ alignment[k].owner = None /\ alignment[k].status = "none" /\ ~alignment[k].segments
      /\ alignment[k] \in Row
  BY <1>1, <1>2 DEF Unclaimed, RowsHold, RowOK, StoreTypeOK, Row
<1>4. Claimed(k) = "claimed"
  BY <1>3 DEF Claimed
<1> HIDE DEF k
<1>5. RowStep(k, IF Claimed(k) = "claimed"
                 THEN [alignment[k] EXCEPT !.status = "running", !.owner = r, !.leased = TRUE]
                 ELSE alignment[k])
  BY <1>1, <1>2, ClaimEffect, Zenon DEF k
<1>6. /\ alignment'[k] = [[[alignment[k] EXCEPT !.status = "running"] EXCEPT !.owner = r]
                            EXCEPT !.leased = TRUE]
      /\ \A other \in Version \X Profile : other # k => alignment'[other] = alignment[other]
  BY <1>4, <1>5, Zenon DEF RowStep
<1>7. /\ alignment'[k].status = "running" /\ alignment'[k].owner = r
      /\ alignment'[k].segments = alignment[k].segments
  BY <1>3, <1>6 DEF Row
<1> QED
  BY <1>2, <1>3, <1>4, <1>6, <1>7 DEF RowsChange, Taken, Kept, k

LEMMA ImportChanges ==
  ASSUME RowInv, NEW r \in Run, in(r, "import"),
         \/ CompleteTx(Key(r, job(r)))
         \/ FailTx(Key(r, job(r))) /\ published' = published
  PROVE  /\ RowsChange(r)
         /\ CompleteTx(Key(r, job(r))) => Settled(r, Key(r, job(r)), "complete")
         /\ \E status \in {"complete", "failed"} : Settled(r, Key(r, job(r)), status)
<1> DEFINE k == Key(r, job(r))
<1>1. TypeOK /\ StoreTypeOK /\ Shape(r) /\ JobsHold(r) /\ RowsHold
  BY DEF RowInv, Typed, TypeOK
<1>2. k \in Version \X Profile /\ k = <<k[1], k[2]>> /\ k[1] \in Version /\ k[2] \in Profile
  BY <1>1, JobIsTyped
<1>3. worker[r].next \in Pending(r) /\ job(r) = worker[r].jobs[worker[r].next]
  BY <1>1 DEF Pending, Shape, job, Loop, Back, in, TypeOK, WorkerState
<1>4. /\ alignment[k].owner = r /\ alignment[k].status = "running" /\ alignment[k] \in Row
      /\ ~alignment[k].segments
  <2>1. alignment[k].owner = r /\ alignment[k].status = "running"
    BY <1>1, <1>3 DEF JobsHold
  <2>2. ~alignment[k].segments
    BY <1>1, <1>2, <2>1 DEF RowsHold, RowOK
  <2> QED
    BY <1>1, <1>2, <2>1, <2>2 DEF StoreTypeOK, Row
<1> HIDE DEF k
<1>5. ASSUME CompleteTx(k) PROVE RowsChange(r) /\ Settled(r, k, "complete")
  <2>1. RowStep(k, [alignment[k] EXCEPT
              !.segments = TRUE,
              !.status = IF @ = "running" THEN "complete" ELSE @,
              !.leased = IF alignment[k].status = "running" THEN FALSE ELSE @])
    BY <1>1, <1>2, <1>5, CompleteEffect, Zenon
  <2>2. /\ alignment'[k] = [[[alignment[k] EXCEPT !.segments = TRUE] EXCEPT !.status = "complete"]
                              EXCEPT !.leased = FALSE]
        /\ \A other \in Version \X Profile : other # k => alignment'[other] = alignment[other]
    <3>1. \A other \in Version \X Profile : other # k => alignment'[other] = alignment[other]
      BY <2>1, Zenon DEF RowStep
    <3>2. alignment' = [alignment EXCEPT
             ![k].segments = TRUE,
             ![k].status = IF @ = "running" THEN "complete" ELSE @,
             ![k].leased = IF alignment[k].status = "running" THEN FALSE ELSE @]
      BY <1>5 DEF CompleteTx
    <3> QED
      BY <1>1, <1>2, <1>4, <3>1, <3>2 DEF StoreTypeOK, Row
  <2>3. published' = [published EXCEPT ![k[1]] = k[2]]
    BY <1>5 DEF CompleteTx
  <2>4. /\ alignment'[k].status = "complete" /\ alignment'[k].owner = r /\ alignment'[k].segments = TRUE
    BY <1>4, <2>2 DEF Row
  <2> QED
    BY <1>2, <1>4, <2>2, <2>3, <2>4 DEF RowsChange, Settled, Kept, k
<1>6. ASSUME FailTx(k), published' = published PROVE RowsChange(r) /\ Settled(r, k, "failed")
  <2>1. RowStep(k, [alignment[k] EXCEPT
           !.status = IF @ = "running" THEN "failed" ELSE @,
           !.leased = IF alignment[k].status = "running" THEN FALSE ELSE @])
    BY <1>1, <1>2, <1>6, FailEffect, Zenon
  <2>2. \A other \in Version \X Profile : other # k => alignment'[other] = alignment[other]
    BY <2>1, Zenon DEF RowStep
  <2>3. alignment'[k] = [[alignment[k] EXCEPT !.status = "failed"] EXCEPT !.leased = FALSE]
    <3>1. alignment' = [alignment EXCEPT
            ![k].status = IF @ = "running" THEN "failed" ELSE @,
            ![k].leased = IF alignment[k].status = "running" THEN FALSE ELSE @]
      BY <1>6 DEF FailTx
    <3> QED
      BY <1>1, <1>2, <1>4, <3>1 DEF StoreTypeOK, Row
  <2>4. /\ alignment'[k].status = "failed" /\ alignment'[k].owner = r
        /\ alignment'[k].segments = alignment[k].segments
    BY <1>4, <2>3 DEF Row
  <2>5. Settled(r, k, "failed")
    BY <1>4, <2>4 DEF Settled, k
  <2>6. \A other \in Version \X Profile : other # k => Kept(other)
    BY <2>2 DEF Kept
  <2> QED
    BY <1>2, <1>6, <2>5, <2>6 DEF RowsChange, k
<1> QED
  BY <1>5, <1>6 DEF k

\* Failing what is complete leaves it as it is.
LEMMA FailingKeepsRows ==
  ASSUME RowInv, NEW r \in Run, in(r, "fail"), FailTx(Key(r, job(r)))
  PROVE  \A k \in Version \X Profile : Kept(k)
<1>1. TypeOK /\ StoreTypeOK /\ Shape(r) /\ Unanswered(r)
  BY DEF RowInv, Typed, TypeOK
<1>2. PICK k \in Version \X Profile : k = Key(r, job(r))
  BY <1>1, JobIsTyped
<1>3. alignment[k].status = "complete" /\ alignment \in [Version \X Profile -> Row]
  BY <1>1, <1>2 DEF Unanswered, StoreTypeOK, Row
<1>4. alignment' = [alignment EXCEPT
        ![k].status = IF @ = "running" THEN "failed" ELSE @,
        ![k].leased = IF alignment[k].status = "running" THEN FALSE ELSE @]
  BY <1>2 DEF FailTx
<1>5. \A other \in Version \X Profile : other # k => alignment'[other] = alignment[other]
  BY <1>3, <1>4
<1>6. alignment'[k] = alignment[k]
  BY <1>3, <1>4 DEF Row
<1> QED
  BY <1>5, <1>6 DEF Kept

LEMMA RunsChangeRows ==
  ASSUME RowInv, NEW r \in Run, Work(r) \/ Crash(r)
  PROVE  RowsChange(r)
<1>1. CASE published' = published /\ alignment' = alignment
  BY <1>1 DEF RowsChange, Kept
<1>2. CASE Claim(r) \/ FailEntry(r)
  <2>1. /\ published' = published
        /\ alignment' = alignment \/ (in(r, "claim") /\ ClaimTx(Key(r, entry(r)), r))
    BY <1>2, Zenon DEF Claim, FailEntry, Committed
  <2> QED
    BY <1>1, <2>1, ClaimChanges
<1>3. CASE ImportJob(r) \/ FailJob(r)
  <2>1. /\ CompleteTx(Key(r, job(r))) \/ (FailTx(Key(r, job(r))) /\ published' = published)
        /\ \/ in(r, "import")
           \/ in(r, "fail") /\ FailTx(Key(r, job(r))) /\ published' = published
    BY <1>3, Zenon DEF ImportJob, FailJob
  <2> QED
    BY <2>1, ImportChanges, FailingKeepsRows DEF RowsChange
<1>4. CASE ~(Claim(r) \/ FailEntry(r) \/ ImportJob(r) \/ FailJob(r))
  <2>1. published' = published /\ alignment' = alignment
    BY <1>4, Zenon DEF Work, CheckExisting, CompleteAllSkipped, Doctor, StartRun, Prepare,
       UploadStep, AwaitUploads, SkipEntry, Ingest, Note, Align, FinishRun, Crash, storeVars
  <2> QED
    BY <1>1, <2>1
<1> QED
  BY <1>2, <1>3, <1>4

\* Nothing else changes what the rows say.
LEMMA OutsideKeepsRows ==
  ASSUME RowInv,
         \/ \E r \in Run, d \in Documents, overwrite \in BOOLEAN, p \in Profile,
              continues \in ContinueOnError : Request(r, d, overwrite, p, continues)
         \/ LeaseExpires \/ PruneRuns \/ UNCHANGED vars
  PROVE  published' = published /\ versions' = versions /\ \A k \in Version \X Profile : Kept(k)
<1>1. CASE LeaseExpires
  <2>1. PICK k \in Version \X Profile : alignment' = [alignment EXCEPT ![k].leased = FALSE]
    BY <1>1 DEF LeaseExpires
  <2>2. alignment \in [Version \X Profile -> Row]
    BY DEF RowInv, Typed, TypeOK, StoreTypeOK, Row
  <2>3. \A other \in Version \X Profile : Kept(other)
    BY <2>1, <2>2 DEF Kept, Row
  <2>4. published' = published /\ versions' = versions
    BY <1>1 DEF LeaseExpires
  <2> QED
    BY <2>3, <2>4
<1>2. ASSUME \/ \E r \in Run, d \in Documents, overwrite \in BOOLEAN, p \in Profile,
                  continues \in ContinueOnError : Request(r, d, overwrite, p, continues)
             \/ PruneRuns \/ UNCHANGED vars
      PROVE  published' = published /\ versions' = versions /\ alignment' = alignment
  BY <1>2, Zenon DEF Request, PruneRuns, vars, storeVars
<1> QED
  BY <1>1, <1>2 DEF Kept

LEMMA RowsStep ==
  ASSUME RowInv, [Next]_vars
  PROVE  RowsHold'
<1>1. Typed /\ RowsHold /\ TypeOK
  BY DEF RowInv, Typed
<1>2. versions \subseteq versions'
  BY <1>1, VersionsGrow
<1>3. \A v \in Version, p \in Profile : <<v, p>> \in Version \X Profile
  OBVIOUS
<1>4. ASSUME published' = published, NEW v \in Version, NEW p \in Profile, Kept(<<v, p>>)
      PROVE  RowOK(v, p)'
  BY <1>1, <1>2, <1>4 DEF RowsHold, RowOK, Kept
<1>5. ASSUME NEW r \in Run, RowsChange(r) PROVE RowsHold'
  <2>1. CASE published' = published /\ \A k \in Version \X Profile : Kept(k)
    BY <1>3, <1>4, <2>1 DEF RowsHold
  <2>2. CASE /\ published' = published
             /\ Taken(r, Key(r, entry(r))) /\ Key(r, entry(r)) \in Version \X Profile
             /\ \A k \in Version \X Profile : k # Key(r, entry(r)) => Kept(k)
    <3>1. ASSUME NEW v \in Version, NEW p \in Profile, <<v, p>> = Key(r, entry(r))
          PROVE  RowOK(v, p)'
      <4>1. /\ alignment[<<v, p>>].status = "none" /\ published[v] # p
            /\ alignment'[<<v, p>>].status = "running" /\ alignment'[<<v, p>>].owner = r
            /\ ~alignment'[<<v, p>>].segments
        BY <1>1, <2>2, <3>1 DEF Taken, RowsHold, RowOK
      <4>2. v \in versions
        <5>1. v = VersionAt(r) /\ in(r, "claim")
          BY <2>2, <3>1 DEF Key, VersionAt, Taken
        <5> QED
          BY <5>1 DEF RowInv, Unclaimed
      <4> QED
        BY <1>2, <2>2, <4>1, <4>2, NoneAssumption DEF RowOK
    <3> QED
      BY <1>3, <1>4, <2>2, <3>1 DEF RowsHold
  <2>3. CASE /\ published' = published
             /\ Settled(r, Key(r, job(r)), "failed") /\ Key(r, job(r)) \in Version \X Profile
             /\ \A k \in Version \X Profile : k # Key(r, job(r)) => Kept(k)
    <3>1. ASSUME NEW v \in Version, NEW p \in Profile, <<v, p>> = Key(r, job(r))
          PROVE  RowOK(v, p)'
      <4>1. /\ alignment[<<v, p>>].status = "running" /\ published[v] # p /\ v \in versions
            /\ alignment'[<<v, p>>].status = "failed" /\ alignment'[<<v, p>>].owner = r
            /\ ~alignment'[<<v, p>>].segments
        BY <1>1, <2>3, <3>1, NoneAssumption DEF Settled, RowsHold, RowOK
      <4> QED
        BY <1>2, <2>3, <4>1, NoneAssumption DEF RowOK
    <3> QED
      BY <1>3, <1>4, <2>3, <3>1 DEF RowsHold
  <2>4. CASE /\ published' = [published EXCEPT ![Key(r, job(r))[1]] = Key(r, job(r))[2]]
             /\ Settled(r, Key(r, job(r)), "complete") /\ Key(r, job(r)) \in Version \X Profile
             /\ \A k \in Version \X Profile : k # Key(r, job(r)) => Kept(k)
    <3>1. PICK w \in Version, q \in Profile : Key(r, job(r)) = <<w, q>>
      BY <2>4
    <3>2. published' = [published EXCEPT ![w] = q] /\ published \in [Version -> Profile \cup {None}]
      BY <1>1, <2>4, <3>1 DEF TypeOK, StoreTypeOK
    <3>3. /\ alignment'[<<w, q>>].status = "complete" /\ alignment'[<<w, q>>].owner = r
          /\ alignment'[<<w, q>>].segments /\ alignment[<<w, q>>].owner = r
          /\ q # None
      BY <2>4, <3>1, NoneAssumption DEF Settled
    <3>4. RowOK(w, q)'
      <4>1. w \in versions /\ r # None
        BY <1>1, <3>1, <3>3, NoneAssumption DEF RowsHold, RowOK
      <4>2. published'[w] = q
        BY <3>1, <3>2
      <4> QED
        BY <1>2, <3>1, <3>3, <4>1, <4>2 DEF RowOK
    <3>5. ASSUME NEW v \in Version, NEW p \in Profile, <<v, p>> # <<w, q>> PROVE RowOK(v, p)'
      <4>1. Kept(<<v, p>>) /\ RowOK(v, p)
        <5>1. <<v, p>> \in Version \X Profile /\ <<v, p>> # Key(r, job(r))
          BY <3>1, <3>5
        <5> QED
          BY <1>1, <2>4, <5>1, Zenon DEF RowsHold
      <4>2. v # w => published'[v] = published[v]
        BY <3>2
      <4>3. v = w => published'[v] = q /\ p # q
        BY <3>1, <3>2, <3>5
      <4> QED
        BY <1>2, <3>3, <4>1, <4>2, <4>3 DEF RowOK, Kept
    <3> QED
      BY <3>4, <3>5 DEF RowsHold
  <2> QED
    BY <1>5, <2>1, <2>2, <2>3, <2>4 DEF RowsChange
<1>6. ASSUME \/ \E r \in Run, d \in Documents, overwrite \in BOOLEAN, p \in Profile,
                  continues \in ContinueOnError : Request(r, d, overwrite, p, continues)
             \/ LeaseExpires \/ PruneRuns \/ UNCHANGED vars
      PROVE  RowsHold'
  BY <1>3, <1>4, <1>6, OutsideKeepsRows DEF RowsHold
<1> QED
  BY <1>5, <1>6, RunsChangeRows DEF Next

\* A row with an owner keeps it.
OwnerStep == \A k \in Version \X Profile :
  alignment[k].owner # None => alignment'[k].owner = alignment[k].owner

LEMMA OwnersStay ==
  ASSUME RowInv, [Next]_vars
  PROVE  OwnerStep
<1>1. ASSUME NEW r \in Run, RowsChange(r), NEW k \in Version \X Profile
      PROVE  alignment[k].owner # None => alignment'[k].owner = alignment[k].owner
  BY <1>1 DEF RowsChange, Kept, Taken, Settled
<1>2. ASSUME \A k \in Version \X Profile : Kept(k) PROVE OwnerStep
  BY <1>2 DEF OwnerStep, Kept
<1> QED
  BY <1>1, <1>2, RunsChangeRows, OutsideKeepsRows DEF Next, OwnerStep

\* A run comes to its claim only from an ingest that inserted the version.
LEMMA EntersClaim ==
  ASSUME TypeOK, NEW r \in Run, Shape(r), Work(r) \/ Crash(r), in(r, "claim")'
  PROVE  /\ in(r, "entry") /\ VersionAt(r) \notin versions /\ versions' = versions \cup {VersionAt(r)}
         /\ Same(worker'[r], worker[r], {"entries", "next"})
         /\ published' = published /\ alignment' = alignment
<1>1. worker'[r].at = "claim"
  BY DEF in
<1>2. AwaitUploads(r) => worker'[r].at = "entry"
  <2>1. ASSUME AwaitUploads(r) PROVE \E kept : worker' = [worker EXCEPT ![r].ready = kept, ![r].at = "entry"]
    BY <2>1, Zenon DEF AwaitUploads
  <2> QED
    BY <2>1 DEF TypeOK, WorkerState
<1>3. worker[r].at \in Loop
  BY <1>1, <1>2, EntersLoop DEF Loop
<1>4. ~(SkipEntry(r) \/ Note(r) \/ FailEntry(r))
  <2>1. SkipEntry(r) \/ Note(r) \/ FailEntry(r) =>
          \/ advance(r)
          \/ worker' = [worker EXCEPT ![r] = Next1([worker[r] EXCEPT !.aborted = ~worker[r].continues])]
    BY Zenon DEF SkipEntry, Note, FailEntry
  <2> QED
    BY <1>1, <2>1, AdvanceEffect
<1>5. ~Claim(r)
  BY <1>1, ClaimWorkerEffect
<1>6. Crash(r) => worker'[r].at = "crashed"
  BY LeaveEffect DEF Crash
<1>7. Ingest(r)
  <2>1. \/ CheckExisting(r) \/ CompleteAllSkipped(r) \/ Doctor(r) \/ StartRun(r) \/ Prepare(r)
        \/ UploadStep(r) \/ AwaitUploads(r) \/ Align(r) \/ ImportJob(r) \/ FailJob(r) \/ FinishRun(r)
        => in(r, "check") \/ in(r, "skip") \/ in(r, "doctor") \/ in(r, "start") \/ in(r, "prepare")
           \/ in(r, "upload") \/ in(r, "align") \/ in(r, "import") \/ in(r, "fail") \/ in(r, "finish")
    BY Zenon DEF CheckExisting, CompleteAllSkipped, Doctor, StartRun, Prepare, UploadStep,
         AwaitUploads, Align, ImportJob, FailJob, FinishRun
  <2>2. ~(\/ CheckExisting(r) \/ CompleteAllSkipped(r) \/ Doctor(r) \/ StartRun(r) \/ Prepare(r)
          \/ UploadStep(r) \/ AwaitUploads(r) \/ Align(r) \/ ImportJob(r) \/ FailJob(r) \/ FinishRun(r))
    BY <1>3, <2>1 DEF in, Loop
  <2>3. ~Crash(r)
    BY <1>1, <1>6
  <2> QED
    BY <1>4, <1>5, <2>2, <2>3, Zenon DEF Work
<1>8. Ingested(entry(r).id, entry(r).content, worker[r].overwrite) = "created"
  BY <1>1, <1>7, IngestEffect
<1>9. IngestTx(entry(r).id, entry(r).content, worker[r].overwrite)
  BY <1>7 DEF Ingest
<1>10. VersionAt(r) \notin versions /\ versions' = versions \cup {VersionAt(r)}
  BY <1>8, <1>9 DEF Ingested, IngestTx, VersionAt
<1>11. Same(worker'[r], worker[r], {"entries", "next"})
  BY <1>7, IngestEffect DEF Same
<1>12. in(r, "entry") /\ published' = published /\ alignment' = alignment
  BY <1>7 DEF Ingest
<1> QED
  BY <1>10, <1>11, <1>12

LEMMA UnclaimedStep ==
  ASSUME RowInv, NEW r \in Run, Work(r) \/ Crash(r)
  PROVE  \A s \in Run : Unclaimed(s)'
<1>1. Typed /\ TypeOK /\ Shape(r) /\ RowsHold /\ Unclaimed(r)
  BY DEF RowInv, Typed
<1>2. \A s \in Run : s # r => worker'[s] = worker[s]
  BY <1>1, OthersStay
<1>3. versions \subseteq versions'
  BY <1>1, VersionsGrow DEF Next
<1>4. ASSUME NEW s \in Run, s # r, in(s, "claim")'
      PROVE  /\ in(s, "claim") /\ VersionAt(s)' = VersionAt(s) /\ Unclaimed(s)
             /\ VersionAt(s) \in versions /\ VersionAt(s) \in Version
  <2>1. in(s, "claim") /\ VersionAt(s)' = VersionAt(s)
    BY <1>2, <1>4 DEF in, VersionAt, entry
  <2>2. Unclaimed(s)
    BY DEF RowInv
  <2>3. VersionAt(s) \in versions /\ versions \subseteq Version
    BY <1>1, <2>1, <2>2 DEF Unclaimed, TypeOK, StoreTypeOK
  <2> QED
    BY <2>1, <2>2, <2>3
<1>5. ASSUME in(r, "claim")'
      PROVE  /\ VersionAt(r)' = VersionAt(r) /\ VersionAt(r) \in versions' /\ VersionAt(r) \in Version
             /\ VersionAt(r) \notin versions /\ alignment' = alignment
  <2>1. /\ VersionAt(r) \notin versions /\ versions' = versions \cup {VersionAt(r)}
        /\ Same(worker'[r], worker[r], {"entries", "next"}) /\ alignment' = alignment
        /\ in(r, "entry")
    BY <1>1, <1>5, EntersClaim
  <2>2. VersionAt(r)' = VersionAt(r)
    BY <2>1 DEF VersionAt, entry, Same
  <2>3. VersionAt(r) \in Version
    BY <1>1, <2>1, EntryIsTyped DEF Shape, Loop, in, VersionAt
  <2> QED
    BY <2>1, <2>2, <2>3
<1>6. ASSUME NEW s \in Run, NEW t \in Run, s # t, in(s, "claim")', in(t, "claim")'
      PROVE  VersionAt(s)' # VersionAt(t)'
  <2>1. CASE s # r /\ t # r
    BY <1>4, <1>6, <2>1 DEF Unclaimed
  <2>2. CASE s = r
    BY <1>4, <1>5, <1>6, <2>2
  <2>3. CASE t = r
    BY <1>4, <1>5, <1>6, <2>3
  <2> QED
    BY <2>1, <2>2, <2>3
<1>7. ASSUME in(r, "claim")', NEW p \in Profile
      PROVE  alignment'[<<VersionAt(r), p>>].owner = None
  BY <1>1, <1>5, <1>7 DEF RowsHold, RowOK
<1>8. ASSUME NEW s \in Run, s # r, in(s, "claim")', NEW p \in Profile
      PROVE  alignment'[<<VersionAt(s), p>>].owner = None
  <2>1. /\ in(s, "claim") /\ Unclaimed(s) /\ <<VersionAt(s), p>> \in Version \X Profile
        /\ alignment[<<VersionAt(s), p>>].owner = None
    BY <1>4, <1>8 DEF Unclaimed
  <2>2. in(r, "claim") => VersionAt(r) # VersionAt(s)
    BY <1>8, <2>1 DEF Unclaimed
  <2>3. Kept(<<VersionAt(s), p>>)
    <3>1. RowsChange(r)
      BY RunsChangeRows
    <3>2. Taken(r, Key(r, entry(r))) => <<VersionAt(s), p>> # Key(r, entry(r))
      BY <2>2 DEF Taken, Key, VersionAt
    <3>3. \A status : Settled(r, Key(r, job(r)), status) => <<VersionAt(s), p>> # Key(r, job(r))
      BY <2>1, NoneAssumption DEF Settled
    <3> QED
      BY <2>1, <3>1, <3>2, <3>3 DEF RowsChange
  <2> QED
    BY <2>1, <2>3 DEF Kept
<1> SUFFICES ASSUME NEW s \in Run, in(s, "claim")'
             PROVE  /\ VersionAt(s)' \in versions'
                    /\ \A p \in Profile : alignment'[<<VersionAt(s)', p>>].owner = None
                    /\ \A other \in Run : other # s /\ in(other, "claim")' =>
                         VersionAt(other)' # VersionAt(s)'
  BY DEF Unclaimed
<1>9. CASE s = r
  BY <1>5, <1>6, <1>7, <1>9
<1>10. CASE s # r
  BY <1>3, <1>4, <1>6, <1>8, <1>10
<1> QED
  BY <1>9, <1>10

-----------------------------------------------------------------------------
(* The jobs ahead of a run stay its own.                                        *)

\* The index of a pending job, and the row of it.
LEMMA PendingIsTyped ==
  ASSUME TypeOK, NEW r \in Run, Shape(r), NEW j \in Pending(r)
  PROVE  /\ j \in DOMAIN worker[r].jobs /\ worker[r].jobs[j] \in RawEntry
         /\ worker[r].jobs[j].id \in Recording /\ worker[r].jobs[j].content \in Content
         /\ worker[r].at \in Loop \cup Back
         /\ Key(r, worker[r].jobs[j]) \in Version \X Profile
<1>1. j \in DOMAIN worker[r].jobs /\ worker[r].at \in Loop \cup Back
  BY DEF Pending, in, Back
<1>2. worker[r].jobs[j] \in RawEntry
  BY <1>1 DEF TypeOK, WorkerState
<1>3. Running(r)
  BY <1>1 DEF Running, Loop, Back
<1> QED
  BY <1>1, <1>2, <1>3, KeyIsTyped, DocumentsAssumption

\* A run that goes on without a new job keeps what it knows of those ahead of it,
\* if their rows are left alone.
LEMMA JobsCarry ==
  ASSUME TypeOK, NEW s \in Run, Shape(s), JobsHold(s),
         Same(worker'[s], worker[s], {"entries", "profile", "jobs"}),
         Pending(s)' \subseteq Pending(s),
         \A j \in Pending(s)' : Kept(Key(s, worker[s].jobs[j])),
         worker'[s].at \in Back => worker[s].at \in Loop \cup Back,
         worker'[s].at \in Loop => worker[s].at \in Loop /\
           \/ worker'[s].next = worker[s].next + 1
           \/ worker'[s].next = worker[s].next /\ (in(s, "note") => in(s, "note")')
  PROVE  JobsHold(s)'
<1>1. /\ worker'[s].entries = worker[s].entries /\ worker'[s].jobs = worker[s].jobs
      /\ worker'[s].profile = worker[s].profile /\ Ids(s)' = Ids(s)
  BY DEF Same, Ids
<1>2. \A j \in Pending(s)' :
        /\ alignment'[Key(s, worker[s].jobs[j])].owner = s
        /\ alignment'[Key(s, worker[s].jobs[j])].status = "running"
  BY DEF JobsHold, Kept
<1>3. \A j : Key(s, worker[s].jobs[j])' = Key(s, worker[s].jobs[j])
  BY <1>1 DEF Key
<1>4. \A i, j \in Pending(s)' : worker[s].jobs[i].id = worker[s].jobs[j].id => i = j
  BY DEF JobsHold
<1>5. ASSUME worker'[s].at \in Loop, NEW j \in Pending(s)'
      PROVE  \E i \in DOMAIN worker[s].entries :
               /\ worker[s].entries[i].id = worker[s].jobs[j].id
               /\ i < worker'[s].next \/ (i = worker'[s].next /\ in(s, "note")')
  <2>1. PICK i \in DOMAIN worker[s].entries :
          /\ worker[s].entries[i].id = worker[s].jobs[j].id
          /\ i < worker[s].next \/ (i = worker[s].next /\ in(s, "note"))
    BY <1>5 DEF JobsHold
  <2>2. i \in Nat /\ worker[s].next \in Nat
    BY DEF TypeOK, WorkerState
  <2> QED
    BY <1>5, <2>1, <2>2
<1>6. ASSUME worker'[s].at \in Back, NEW j \in Pending(s)' PROVE worker[s].jobs[j].id \in Ids(s)
  <2>1. CASE worker[s].at \in Loop
    BY <2>1 DEF JobsHold, Ids
  <2>2. CASE worker[s].at \in Back
    BY <2>2 DEF JobsHold
  <2> QED
    BY <1>6, <2>1, <2>2
<1> QED
  BY <1>1, <1>2, <1>3, <1>4, <1>5, <1>6 DEF JobsHold

\* Where nothing is ahead of a run there is nothing to know.
LEMMA NothingPending ==
  ASSUME NEW s \in Run, Pending(s)' = {}
  PROVE  JobsHold(s)'
  BY DEF JobsHold

\* Nobody touches the rows of another run's jobs.
LEMMA JobsOfOthers ==
  ASSUME RowInv, NEW r \in Run, RowsChange(r), NEW s \in Run, s # r, NEW j \in Pending(s)
  PROVE  Kept(Key(s, worker[s].jobs[j]))
<1> DEFINE k == Key(s, worker[s].jobs[j])
<1>1. k \in Version \X Profile /\ alignment[k].owner = s /\ alignment[k].owner # None
  <2>1. TypeOK /\ Shape(s) /\ JobsHold(s)
    BY DEF RowInv, Typed
  <2> QED
    BY <2>1, PendingIsTyped, NoneAssumption DEF JobsHold
<1> HIDE DEF k
<1>2. Taken(r, Key(r, entry(r))) => k # Key(r, entry(r))
  BY <1>1 DEF Taken
<1>3. \A status : Settled(r, Key(r, job(r)), status) => k # Key(r, job(r))
  BY <1>1 DEF Settled
<1>4. Kept(k)
  BY <1>1, <1>2, <1>3 DEF RowsChange
<1> QED
  BY <1>4 DEF k

\* Outside the import a run leaves the rows of its jobs alone.
LEMMA JobsOfItsOwn ==
  ASSUME RowInv, NEW r \in Run, RowsChange(r), NEW j \in Pending(r),
         in(r, "import") => worker[r].jobs[j].id # job(r).id
  PROVE  Kept(Key(r, worker[r].jobs[j]))
<1> DEFINE k == Key(r, worker[r].jobs[j])
<1>1. k \in Version \X Profile /\ alignment[k].owner = r /\ alignment[k].owner # None
  <2>1. TypeOK /\ Shape(r) /\ JobsHold(r)
    BY DEF RowInv, Typed
  <2> QED
    BY <2>1, PendingIsTyped, NoneAssumption DEF JobsHold
<1>2. \A status : Settled(r, Key(r, job(r)), status) => k # Key(r, job(r))
  BY DEF Settled, Key
<1> HIDE DEF k
<1>3. Taken(r, Key(r, entry(r))) => k # Key(r, entry(r))
  BY <1>1 DEF Taken
<1>4. Kept(k)
  BY <1>1, <1>2, <1>3 DEF RowsChange
<1> QED
  BY <1>4 DEF k

\* The run that claims gets one more job, the entry it is at.
LEMMA ClaimAddsJob ==
  ASSUME RowInv, NEW r \in Run, Claim(r)
  PROVE  JobsHold(r)'
<1> DEFINE e == entry(r)
           jobs == worker[r].jobs
<1>1. TypeOK /\ Shape(r) /\ JobsHold(r) /\ in(r, "claim") /\ worker[r].at \in Loop
  BY Zenon DEF RowInv, Typed, Claim, in, Loop
<1>2. RowsChange(r) /\ Taken(r, Key(r, e)) /\ Claimed(Key(r, e)) = "claimed"
  <2>1. ClaimTx(Key(r, entry(r)), r) /\ published' = published
    BY Zenon DEF Claim
  <2> QED
    BY <1>1, <2>1, ClaimChanges
<1>3. /\ worker'[r].at = "note" /\ worker'[r].jobs = Append(jobs, e)
      /\ Same(worker'[r], worker[r], {"entries", "profile", "next"})
  BY <1>1, <1>2, ClaimWorkerEffect DEF Same
<1>4. /\ jobs \in Seq(RawEntry) /\ e \in RawEntry /\ worker[r].next \in DOMAIN worker[r].entries
      /\ e = worker[r].entries[worker[r].next] /\ worker[r].entries \in Seq(RawEntry)
      /\ DistinctEntries(worker[r].entries)
  BY <1>1, EntryIsTyped DEF Shape, TypeOK, WorkerState, entry
<1>5. PICK n \in Nat : n = Len(jobs)
  BY <1>4
<1>6. /\ Pending(r) = 1..n /\ Pending(r)' = 1..(n + 1)
      /\ worker'[r].jobs[n + 1] = e /\ \A j \in 1..n : worker'[r].jobs[j] = jobs[j]
  BY <1>1, <1>3, <1>4, <1>5 DEF Pending, in, Loop
<1>7. \A j \in 1..n : Kept(Key(r, jobs[j]))
  <2>1. ~in(r, "import")
    BY <1>1 DEF in
  <2> QED
    BY <1>2, <1>6, <2>1, JobsOfItsOwn
<1>8. \A x : Key(r, x)' = <<<<x.id, x.content>>', worker[r].profile>>
  BY <1>3 DEF Key, Same
<1>9. ASSUME NEW j \in Pending(r)'
      PROVE  /\ alignment'[Key(r, worker[r].jobs[j])'].owner = r
             /\ alignment'[Key(r, worker[r].jobs[j])'].status = "running"
  <2>1. CASE j = n + 1
    <3>1. Key(r, worker[r].jobs[j])' = Key(r, e)
      BY <1>3, <1>6, <2>1 DEF Key, Same
    <3> QED
      BY <1>2, <3>1 DEF Taken
  <2>2. CASE j \in 1..n
    <3>1. Key(r, worker[r].jobs[j])' = Key(r, jobs[j])
      BY <1>3, <1>6, <2>2 DEF Key, Same
    <3> QED
      BY <1>1, <1>6, <1>7, <2>2, <3>1 DEF JobsHold, Kept
  <2> QED
    BY <1>5, <1>6, <1>9, <2>1, <2>2
<1>10. ASSUME NEW j \in 1..n
       PROVE  \E i \in DOMAIN worker[r].entries :
                i < worker[r].next /\ worker[r].entries[i].id = jobs[j].id
  BY <1>1, <1>6 DEF JobsHold, in
<1>11. \A j \in 1..n : jobs[j].id # e.id
  <2>1. \A i \in DOMAIN worker[r].entries : i \in Nat
    BY <1>4
  <2> QED
    BY <1>4, <1>10, <2>1 DEF DistinctEntries
<1>12. \A i, j \in Pending(r)' : worker'[r].jobs[i].id = worker'[r].jobs[j].id => i = j
  <2>1. \A i, j \in 1..n : jobs[i].id = jobs[j].id => i = j
    BY <1>1, <1>6 DEF JobsHold
  <2>2. \A i \in 1..(n + 1) : i \in 1..n \/ i = n + 1
    BY <1>5
  <2> QED
    BY <1>6, <1>11, <2>1, <2>2
<1>13. ASSUME NEW j \in Pending(r)'
       PROVE  \E i \in DOMAIN worker'[r].entries :
                /\ worker'[r].entries[i].id = worker'[r].jobs[j].id
                /\ i < worker'[r].next \/ (i = worker'[r].next /\ in(r, "note")')
  <2>1. j \in 1..n \/ j = n + 1
    BY <1>5, <1>6, <1>13
  <2>2. CASE j \in 1..n
    BY <1>3, <1>6, <1>10, <2>2 DEF Same
  <2>3. CASE j = n + 1
    BY <1>3, <1>4, <1>6, <2>3 DEF Same, in
  <2> QED
    BY <2>1, <2>2, <2>3
<1> QED
  BY <1>3, <1>9, <1>12, <1>13 DEF JobsHold, Back

\* What is done with a job leaves the others ahead.
LEMMA PendingShrinks ==
  ASSUME TypeOK, NEW r \in Run, Shape(r), ImportJob(r) \/ FailJob(r)
  PROVE  Pending(r)' = Pending(r) \ {worker[r].next}
<1>1. /\ in(r, "import") \/ in(r, "fail")
      /\ worker'[r].at = "fail" => in(r, "import")
  BY JobEffect DEF ImportJob
<1>2. /\ worker'[r].jobs = worker[r].jobs
      /\ worker'[r].at \in {"import", "fail", "finish"}
      /\ worker'[r].at = "import" => worker'[r].next = worker[r].next + 1
      /\ worker'[r].at = "fail" => worker'[r].next = worker[r].next
      /\ worker'[r].at = "finish" => ~(worker[r].next < Len(worker[r].jobs))
  BY JobEffect DEF Same
<1>3. PICK jobs \in Seq(RawEntry), n \in Nat :
        jobs = worker[r].jobs /\ n = worker[r].next /\ n \in DOMAIN jobs
  BY <1>1 DEF in, Back, Shape, TypeOK, WorkerState
<1>4. Pending(r) \ {n} = {j \in DOMAIN jobs : j > n}
  <2>1. CASE in(r, "import")
    <3>1. Pending(r) = {j \in DOMAIN jobs : j >= n}
      BY <1>3, <2>1 DEF Pending, in, Loop
    <3> QED
      BY <1>3, <3>1
  <2>2. CASE in(r, "fail")
    <3>1. Pending(r) = {j \in DOMAIN jobs : j > n}
      BY <1>3, <2>2 DEF Pending, in, Loop
    <3> QED
      BY <1>3, <3>1
  <2> QED
    BY <1>1, <2>1, <2>2
<1>5. Pending(r)' = {j \in DOMAIN jobs : j > n}
  <2>1. CASE worker'[r].at = "finish"
    <3>1. Pending(r)' = {}
      BY <2>1 DEF Pending, in, Loop
    <3>2. ~(n < Len(jobs)) /\ DOMAIN jobs = 1..Len(jobs)
      BY <1>2, <1>3, <2>1
    <3> QED
      BY <1>3, <3>1, <3>2
  <2>2. CASE worker'[r].at = "import"
    <3>1. Pending(r)' = {j \in DOMAIN jobs : j >= n + 1}
      BY <1>2, <1>3, <2>2 DEF Pending, in, Loop
    <3> QED
      BY <1>3, <3>1
  <2>3. CASE worker'[r].at = "fail"
    BY <1>2, <1>3, <2>3 DEF Pending, in, Loop
  <2> QED
    BY <1>2, <2>1, <2>2, <2>3
<1> QED
  BY <1>3, <1>4, <1>5

\* The steps of a run outside its lists.
LEMMA OutsideLists ==
  ASSUME TypeOK, NEW r \in Run,
         \/ CheckExisting(r) \/ CompleteAllSkipped(r) \/ Doctor(r) \/ StartRun(r)
         \/ Prepare(r) \/ UploadStep(r) \/ FinishRun(r) \/ Crash(r)
  PROVE  worker'[r].at \notin Loop \cup Back
<1>1. CASE CheckExisting(r) \/ Doctor(r)
  <2>1. \E place \in {"skip", "doctor", "start", "refused"} : move(r, place)
    BY <1>1 DEF CheckExisting, Doctor
  <2> QED
    BY <2>1, MoveEffect DEF Loop, Back
<1>2. CASE CompleteAllSkipped(r) \/ FinishRun(r) \/ Crash(r)
  <2>1. \E place \in {"done", "crashed"} : leave(r, place)
    BY <1>2, Zenon DEF CompleteAllSkipped, FinishRun, Crash
  <2> QED
    BY <2>1, LeaveEffect DEF Loop, Back
<1>3. CASE StartRun(r) \/ Prepare(r)
  <2>1. \/ \E known : worker' = [worker EXCEPT ![r].known = known, ![r].at = "prepare"]
        \/ \E good : worker' = [worker EXCEPT ![r].ready = good, ![r].at = "upload"]
    BY <1>3, Zenon DEF StartRun, Prepare
  <2>2. worker'[r].at \in {"prepare", "upload"}
    <3>1. CASE \E known : worker' = [worker EXCEPT ![r].known = known, ![r].at = "prepare"]
      BY <3>1 DEF TypeOK, WorkerState
    <3>2. CASE \E good : worker' = [worker EXCEPT ![r].ready = good, ![r].at = "upload"]
      BY <3>2 DEF TypeOK, WorkerState
    <3> QED
      BY <2>1, <3>1, <3>2
  <2> QED
    BY <2>2 DEF Loop, Back
<1>4. CASE UploadStep(r)
  BY <1>4 DEF UploadStep, in, Loop, Back
<1> QED
  BY <1>1, <1>2, <1>3, <1>4

LEMMA JobsStep ==
  ASSUME RowInv, NEW r \in Run, Work(r) \/ Crash(r)
  PROVE  \A s \in Run : JobsHold(s)'
<1>1. TypeOK /\ Shape(r) /\ JobsHold(r)
  BY DEF RowInv, Typed
<1>2. RowsChange(r)
  BY RunsChangeRows
<1>3. ASSUME NEW s \in Run, s # r PROVE JobsHold(s)'
  <2>1. worker'[s] = worker[s]
    BY <1>1, <1>3, OthersStay
  <2>2. Pending(s)' = Pending(s) /\ (in(s, "note") => in(s, "note")')
    BY <2>1 DEF Pending, in
  <2>3. TypeOK /\ Shape(s) /\ JobsHold(s)
    BY DEF RowInv, Typed
  <2>4. \A j \in Pending(s)' : Kept(Key(s, worker[s].jobs[j]))
    BY <1>2, <1>3, <2>2, JobsOfOthers
  <2> QED
    BY <2>1, <2>2, <2>3, <2>4, JobsCarry DEF Same
<1>4. ASSUME worker'[r].at \notin Loop \cup Back PROVE JobsHold(r)'
  <2>1. Pending(r)' = {}
    BY <1>4 DEF Pending, in, Back
  <2> QED
    BY <2>1, NothingPending
<1>5. ASSUME AwaitUploads(r) PROVE JobsHold(r)'
  <2>1. \E kept : worker' = [worker EXCEPT ![r].ready = kept, ![r].at = "entry"]
    BY <1>5, Zenon DEF AwaitUploads
  <2>2. worker'[r].jobs = <<>> /\ worker'[r].at = "entry"
    <3>1. worker[r].jobs = <<>>
      BY <1>1, <1>5 DEF AwaitUploads, Shape, in, Before
    <3> QED
      BY <1>1, <2>1, <3>1 DEF TypeOK, WorkerState
  <2> QED
    <3>1. Pending(r)' = DOMAIN worker'[r].jobs /\ DOMAIN <<>> = {}
      BY <2>2 DEF Pending, in, Loop
    <3> QED
      BY <2>2, <3>1, NothingPending
<1>6. ASSUME SkipEntry(r) \/ Note(r) \/ FailEntry(r) PROVE JobsHold(r)'
  <2>1. /\ \/ advance(r)
           \/ worker' = [worker EXCEPT ![r] = Next1([worker[r] EXCEPT !.aborted = ~worker[r].continues])]
        /\ in(r, "entry") \/ in(r, "claim") \/ in(r, "note")
    BY <1>6, Zenon DEF SkipEntry, Note, FailEntry, Attempted
  <2>2. /\ Same(worker'[r], worker[r], {"entries", "profile", "jobs"})
        /\ worker'[r].at \in {"entry", "finish", "align"}
        /\ worker'[r].at = "entry" => worker'[r].next = worker[r].next + 1
    BY <1>1, <2>1, AdvanceEffect
  <2>3. worker[r].at \in Loop /\ ~in(r, "import")
    BY <2>1 DEF in, Loop
  <2>4. Pending(r) = DOMAIN worker[r].jobs /\ Pending(r)' \subseteq Pending(r)
    BY <2>2, <2>3 DEF Pending, in, Same, Loop
  <2>5. \A j \in Pending(r)' : Kept(Key(r, worker[r].jobs[j]))
    BY <1>2, <2>3, <2>4, JobsOfItsOwn
  <2> QED
    <3>1. worker'[r].at \in Back => worker[r].at \in Loop \cup Back
      BY <2>2, <2>3 DEF Loop, Back, Same, in
    <3>2. worker'[r].at \in Loop => worker[r].at \in Loop /\
            \/ worker'[r].next = worker[r].next + 1
            \/ worker'[r].next = worker[r].next /\ (in(r, "note") => in(r, "note")')
      BY <2>2, <2>3 DEF Loop, Back, Same, in
    <3>3. Same(worker'[r], worker[r], {"entries", "profile", "jobs"})
      BY <2>2 DEF Same
    <3> QED
      BY <1>1, <2>4, <2>5, <3>1, <3>2, <3>3, JobsCarry
<1>7. ASSUME Ingest(r) PROVE JobsHold(r)'
  <2>1. in(r, "entry")
    BY <1>7, Zenon DEF Ingest
  <2>2. /\ Same(worker'[r], worker[r], {"entries", "profile", "jobs", "next"})
        /\ worker'[r].at \in {"claim", "note"}
    BY <1>1, <1>7, IngestEffect DEF Same
  <2>3. worker[r].at \in Loop /\ ~in(r, "import") /\ ~in(r, "note")
    BY <2>1 DEF in, Loop
  <2>4. Pending(r) = DOMAIN worker[r].jobs /\ Pending(r)' \subseteq Pending(r)
    BY <2>2, <2>3 DEF Pending, in, Same, Loop
  <2>5. \A j \in Pending(r)' : Kept(Key(r, worker[r].jobs[j]))
    BY <1>2, <2>3, <2>4, JobsOfItsOwn
  <2> QED
    <3>1. worker'[r].at \in Back => worker[r].at \in Loop \cup Back
      BY <2>2, <2>3 DEF Loop, Back, Same, in
    <3>2. worker'[r].at \in Loop => worker[r].at \in Loop /\
            \/ worker'[r].next = worker[r].next + 1
            \/ worker'[r].next = worker[r].next /\ (in(r, "note") => in(r, "note")')
      BY <2>2, <2>3 DEF Loop, Back, Same, in
    <3>3. Same(worker'[r], worker[r], {"entries", "profile", "jobs"})
      BY <2>2 DEF Same
    <3> QED
      BY <1>1, <2>4, <2>5, <3>1, <3>2, <3>3, JobsCarry
<1>8. ASSUME Align(r) PROVE JobsHold(r)'
  <2>1. in(r, "align")
    BY <1>8 DEF Align
  <2>2. worker'[r].at = "import" /\ Same(worker'[r], worker[r], {"entries", "profile", "next", "jobs"})
    BY <1>1, <1>8, AlignEffect DEF Same
  <2>3. worker[r].at \in Back /\ ~in(r, "import")
    BY <2>1 DEF in, Back
  <2>4. Pending(r)' \subseteq Pending(r)
    BY <2>1, <2>2 DEF Pending, in, Same
  <2>5. \A j \in Pending(r)' : Kept(Key(r, worker[r].jobs[j]))
    BY <1>2, <2>3, <2>4, JobsOfItsOwn
  <2> QED
    <3>1. worker'[r].at \in Back => worker[r].at \in Loop \cup Back
      BY <2>2, <2>3 DEF Loop, Back, Same, in
    <3>2. worker'[r].at \in Loop => worker[r].at \in Loop /\
            \/ worker'[r].next = worker[r].next + 1
            \/ worker'[r].next = worker[r].next /\ (in(r, "note") => in(r, "note")')
      BY <2>2, <2>3 DEF Loop, Back, Same, in
    <3>3. Same(worker'[r], worker[r], {"entries", "profile", "jobs"})
      BY <2>2 DEF Same
    <3> QED
      BY <1>1, <2>4, <2>5, <3>1, <3>2, <3>3, JobsCarry
<1>9. ASSUME ImportJob(r) \/ FailJob(r) PROVE JobsHold(r)'
  <2>1. /\ in(r, "import") \/ in(r, "fail")
        /\ worker'[r].at = "fail" => in(r, "import")
    BY <1>1, <1>9, JobEffect DEF ImportJob
  <2>2. /\ Same(worker'[r], worker[r], {"entries", "profile", "jobs"})
        /\ worker'[r].at \in {"import", "fail", "finish"}
        /\ worker'[r].at = "import" => worker'[r].next = worker[r].next + 1
        /\ worker'[r].at = "fail" => worker'[r].next = worker[r].next
    BY <1>1, <1>9, JobEffect DEF Same
  <2>3. /\ worker[r].at \in Back /\ worker[r].next \in DOMAIN worker[r].jobs
        /\ worker[r].jobs \in Seq(RawEntry)
    BY <1>1, <2>1 DEF in, Back, Shape, TypeOK, WorkerState
  <2>5. Pending(r)' = Pending(r) \ {worker[r].next}
    BY <1>1, <1>9, PendingShrinks
  <2>6. ASSUME NEW j \in Pending(r)' PROVE Kept(Key(r, worker[r].jobs[j]))
    <3>1. j \in Pending(r) /\ j # worker[r].next
      BY <2>5, <2>6
    <3>2. in(r, "import") => worker[r].jobs[j].id # job(r).id
      <4>1. in(r, "import") => worker[r].next \in Pending(r)
        BY <2>3 DEF Pending, in, Loop
      <4> QED
        BY <1>1, <3>1, <4>1 DEF JobsHold, job
    <3> QED
      BY <1>2, <3>1, <3>2, JobsOfItsOwn
  <2> QED
    <3>1. worker'[r].at \in Back => worker[r].at \in Loop \cup Back
      BY <2>2, <2>3 DEF Loop, Back, Same
    <3>2. worker'[r].at \in Loop => worker[r].at \in Loop /\
            \/ worker'[r].next = worker[r].next + 1
            \/ worker'[r].next = worker[r].next /\ (in(r, "note") => in(r, "note")')
      BY <2>2, <2>3 DEF Loop, Back, Same
    <3>3. Same(worker'[r], worker[r], {"entries", "profile", "jobs"})
      BY <2>2 DEF Same
    <3> QED
      BY <1>1, <2>5, <2>6, <3>1, <3>2, <3>3, JobsCarry
<1>10. ASSUME \/ CheckExisting(r) \/ CompleteAllSkipped(r) \/ Doctor(r) \/ StartRun(r)
              \/ Prepare(r) \/ UploadStep(r) \/ FinishRun(r) \/ Crash(r)
       PROVE  worker'[r].at \notin Loop \cup Back
  BY <1>1, <1>10, OutsideLists
<1>11. JobsHold(r)'
  BY <1>4, <1>5, <1>6, <1>7, <1>8, <1>9, <1>10, ClaimAddsJob DEF Work
<1> QED
  BY <1>3, <1>11

\* A run comes to fail a complete alignment only from its import.
LEMMA EntersFail ==
  ASSUME TypeOK, NEW r \in Run, Shape(r), Work(r) \/ Crash(r), in(r, "fail")'
  PROVE  ImportJob(r)
<1>1. worker'[r].at = "fail" /\ worker'[r].at \in Back
  BY DEF in, Back
<1>2. ~(\/ CheckExisting(r) \/ CompleteAllSkipped(r) \/ Doctor(r) \/ StartRun(r)
        \/ Prepare(r) \/ UploadStep(r) \/ FinishRun(r) \/ Crash(r))
  BY <1>1, OutsideLists
<1>3. ~AwaitUploads(r)
  <2>1. ASSUME AwaitUploads(r) PROVE \E kept : worker' = [worker EXCEPT ![r].ready = kept, ![r].at = "entry"]
    BY <2>1, Zenon DEF AwaitUploads
  <2> QED
    BY <1>1, <2>1 DEF TypeOK, WorkerState
<1>4. ~(SkipEntry(r) \/ Note(r) \/ FailEntry(r))
  <2>1. SkipEntry(r) \/ Note(r) \/ FailEntry(r) =>
          \/ advance(r)
          \/ worker' = [worker EXCEPT ![r] = Next1([worker[r] EXCEPT !.aborted = ~worker[r].continues])]
    BY Zenon DEF SkipEntry, Note, FailEntry
  <2> QED
    BY <1>1, <2>1, AdvanceEffect
<1>5. ~Ingest(r) /\ ~Claim(r) /\ ~Align(r)
  BY <1>1, IngestEffect, ClaimWorkerEffect, AlignEffect
<1>6. FailJob(r) => ImportJob(r)
  BY <1>1, JobEffect
<1> QED
  BY <1>2, <1>3, <1>4, <1>5, <1>6 DEF Work

LEMMA UnansweredStep ==
  ASSUME RowInv, NEW r \in Run, Work(r) \/ Crash(r)
  PROVE  \A s \in Run : Unanswered(s)'
<1>1. TypeOK /\ Shape(r) /\ JobsHold(r) /\ RowsChange(r)
  BY RunsChangeRows DEF RowInv, Typed
<1>2. ASSUME NEW s \in Run, s # r PROVE Unanswered(s)'
  <2>1. worker'[s] = worker[s]
    BY <1>1, <1>2, OthersStay
  <2>2. /\ in(s, "fail")' = in(s, "fail") /\ Pending(s)' = Pending(s) /\ Ids(s)' = Ids(s)
        /\ job(s)' = job(s) /\ Key(s, job(s))' = Key(s, job(s))
    BY <2>1 DEF in, Pending, Ids, job, Key
  <2>3. ASSUME in(s, "fail") PROVE Kept(Key(s, job(s)))
    <3>1. TypeOK /\ Shape(s) /\ Unanswered(s)
      BY DEF RowInv, Typed
    <3>2. PICK k \in Version \X Profile : k = Key(s, job(s)) /\ alignment[k].owner = s
      BY <2>3, <3>1, JobIsTyped DEF Unanswered
    <3>3. Taken(r, Key(r, entry(r))) => k # Key(r, entry(r))
      BY <3>2, NoneAssumption DEF Taken
    <3>4. \A status : Settled(r, Key(r, job(r)), status) => k # Key(r, job(r))
      BY <1>2, <3>2 DEF Settled
    <3> QED
      BY <1>1, <3>2, <3>3, <3>4 DEF RowsChange
  <2>4. Unanswered(s)
    BY DEF RowInv
  <2> QED
    BY <2>1, <2>2, <2>3, <2>4 DEF Unanswered, Kept
<1>3. ASSUME in(r, "fail")' PROVE Unanswered(r)'
  <2>1. ImportJob(r)
    BY <1>1, <1>3, EntersFail
  <2>2. /\ in(r, "import") /\ CompleteTx(Key(r, job(r)))
        /\ worker'[r].next = worker[r].next
        /\ worker'[r].unheard = worker[r].unheard \cup {job(r).id}
        /\ Same(worker'[r], worker[r], {"entries", "profile", "known", "jobs"})
    BY <1>1, <1>3, <2>1, JobEffect DEF ImportJob, in
  <2>3. /\ job(r)' = job(r) /\ Key(r, job(r))' = Key(r, job(r)) /\ Ids(r)' = Ids(r)
        /\ worker'[r].jobs = worker[r].jobs
    BY <2>2 DEF job, Key, Ids, Same
  <2>4. worker[r].next \in Pending(r) /\ job(r) = worker[r].jobs[worker[r].next]
    BY <1>1, <2>2 DEF Pending, Shape, job, Loop, Back, in, TypeOK, WorkerState
  <2>5. job(r).id \in Ids(r)
    BY <1>1, <2>2, <2>4 DEF JobsHold, Back, in
  <2>6. Settled(r, Key(r, job(r)), "complete")
    BY <2>2, ImportChanges
  <2>7. Pending(r)' = Pending(r) \ {worker[r].next}
    BY <1>1, <2>1, PendingShrinks
  <2>8. \A j \in Pending(r)' : worker[r].jobs[j].id # job(r).id
    BY <1>1, <2>4, <2>7 DEF JobsHold
  <2> QED
    BY <2>2, <2>3, <2>5, <2>6, <2>8 DEF Unanswered, Settled
<1>4. ~in(r, "fail")' => Unanswered(r)'
  BY DEF Unanswered
<1> QED
  BY <1>2, <1>3, <1>4

\* Whoever does not move knows what it knew, if the rows of alignments are kept.
LEMMA OutsideKeepsRuns ==
  ASSUME RowInv,
         \/ \E r \in Run, d \in Documents, overwrite \in BOOLEAN, p \in Profile,
              continues \in ContinueOnError : Request(r, d, overwrite, p, continues)
         \/ LeaseExpires \/ PruneRuns \/ UNCHANGED vars
  PROVE  \A s \in Run : Unclaimed(s)' /\ JobsHold(s)' /\ Unanswered(s)'
<1>1. TypeOK /\ \A s \in Run : Shape(s) /\ JobsHold(s) /\ Unclaimed(s) /\ Unanswered(s)
  BY DEF RowInv, Typed
<1>2. versions' = versions /\ \A k \in Version \X Profile : Kept(k)
  BY OutsideKeepsRows
<1>3. \A s \in Run : worker'[s] = worker[s] \/ worker'[s].at \in {"refused", "doctor", "check"}
  <2>1. ASSUME NEW r \in Run, NEW d \in Documents, NEW overwrite \in BOOLEAN, NEW p \in Profile,
               NEW continues \in ContinueOnError, Request(r, d, overwrite, p, continues), NEW s \in Run
        PROVE  worker'[s] = worker[s] \/ worker'[s].at \in {"refused", "doctor", "check"}
    BY <1>1, <2>1, OthersStay, RequestEffect
  <2>2. LeaseExpires \/ PruneRuns \/ UNCHANGED vars => worker' = worker
    BY DEF LeaseExpires, PruneRuns, vars
  <2> QED
    BY <2>1, <2>2
<1>4. ASSUME NEW s \in Run PROVE JobsHold(s)'
  <2>1. CASE worker'[s] = worker[s]
    <3>1. Pending(s)' = Pending(s) /\ (in(s, "note") => in(s, "note")')
      BY <2>1 DEF Pending, in
    <3>2. \A j \in Pending(s)' : Kept(Key(s, worker[s].jobs[j]))
      BY <1>1, <1>2, <3>1, PendingIsTyped
    <3>3. Same(worker'[s], worker[s], {"entries", "profile", "jobs"})
      BY <2>1 DEF Same
    <3> QED
      BY <1>1, <2>1, <3>1, <3>2, <3>3, JobsCarry
  <2>2. CASE worker'[s].at \in {"refused", "doctor", "check"}
    <3>1. Pending(s)' = {}
      BY <2>2 DEF Pending, in, Loop
    <3> QED
      BY <3>1, NothingPending
  <2> QED
    BY <1>3, <2>1, <2>2
<1>5. ASSUME NEW s \in Run, in(s, "claim")'
      PROVE  in(s, "claim") /\ VersionAt(s)' = VersionAt(s)
  <2>1. worker'[s] = worker[s]
    BY <1>3, <1>5 DEF in
  <2> QED
    BY <1>5, <2>1 DEF in, VersionAt, entry
<1>6. ASSUME NEW s \in Run, in(s, "claim")' PROVE Unclaimed(s)'
  <2>1. /\ VersionAt(s) \in versions /\ \A p \in Profile : alignment[<<VersionAt(s), p>>].owner = None
        /\ \A other \in Run : other # s /\ in(other, "claim") => VersionAt(other) # VersionAt(s)
    BY <1>1, <1>5, <1>6 DEF Unclaimed
  <2>2. VersionAt(s) \in Version
    BY <1>1, <2>1 DEF TypeOK, StoreTypeOK
  <2>3. \A p \in Profile : alignment'[<<VersionAt(s), p>>].owner = None
    BY <1>2, <2>1, <2>2 DEF Kept
  <2> QED
    BY <1>2, <1>5, <1>6, <2>1, <2>3 DEF Unclaimed
<1>7. ASSUME NEW s \in Run, in(s, "fail")' PROVE Unanswered(s)'
  <2>1. worker'[s] = worker[s]
    BY <1>3, <1>7 DEF in
  <2>2. /\ in(s, "fail") /\ Pending(s)' = Pending(s) /\ Ids(s)' = Ids(s)
        /\ job(s)' = job(s) /\ Key(s, job(s))' = Key(s, job(s))
    BY <1>7, <2>1 DEF in, Pending, Ids, job, Key
  <2>3. Kept(Key(s, job(s)))
    BY <1>1, <1>2, <2>2, JobIsTyped
  <2> QED
    BY <1>1, <2>1, <2>2, <2>3 DEF Unanswered, Kept
<1> QED
  BY <1>4, <1>6, <1>7 DEF Unclaimed, Unanswered

LEMMA RowInvInit == Init => RowInv
<1> SUFFICES ASSUME Init PROVE RowInv
  OBVIOUS
<1>1. /\ \A k \in Version \X Profile : alignment[k] = NoAlignment
      /\ \A v \in Version : published[v] = None
  BY DEF Init, StoreInit
<1>2. RowsHold
  BY <1>1, NoneAssumption DEF RowsHold, RowOK, NoAlignment
<1>3. \A r \in Run : worker[r].at = "idle"
  BY DEF Init, Idle
<1>4. \A r \in Run : Unclaimed(r) /\ JobsHold(r) /\ Unanswered(r)
  BY <1>3 DEF Unclaimed, JobsHold, Unanswered, Pending, in, Loop, Back
<1> QED
  BY <1>2, <1>4, TypedInit DEF RowInv

LEMMA RowInvStep == RowInv /\ [Next]_vars => RowInv'
<1> SUFFICES ASSUME RowInv, [Next]_vars PROVE RowInv'
  OBVIOUS
<1>1. Typed' /\ RowsHold'
  BY TypedStep, RowsStep DEF RowInv
<1>2. \A s \in Run : Unclaimed(s)' /\ JobsHold(s)' /\ Unanswered(s)'
  BY UnclaimedStep, JobsStep, UnansweredStep, OutsideKeepsRuns DEF Next
<1> QED
  BY <1>1, <1>2 DEF RowInv

\* Nobody takes up work that another run left behind, whatever becomes of its
\* lease: claim_alignment could hand it on, but only the run that inserted a
\* version comes to ask.  This is the other side of StaleWorkIsReclaimed, which
\* the aligner's README promises and which does not hold.
THEOREM StaleWorkIsLeft == Spec => [][OwnerStep]_alignment
<1>1. RowInv /\ [Next]_vars => [OwnerStep]_alignment
  BY OwnersStay
<1> QED
  BY <1>1, RowInvInit, RowInvStep, PTL DEF Spec

\* Readers see an alignment only complete with its segments, and whatever was
\* completed is in sight (complete_alignment, effective_segments).
THEOREM ReadersSeeComplete == Spec => []PublishedIsComplete
<1>1. Spec => []RowInv
  BY RowInvInit, RowInvStep, PTL DEF Spec
<1>2. RowInv => PublishedIsComplete
  <2> SUFFICES ASSUME RowInv, NEW v \in Version PROVE
        /\ published[v] # None =>
             /\ v \in versions /\ alignment[<<v, published[v]>>].status = "complete"
             /\ alignment[<<v, published[v]>>].segments
        /\ \A p \in Profile : alignment[<<v, p>>].status = "complete" => published[v] # None
    BY DEF PublishedIsComplete
  <2>1. published[v] \in Profile \cup {None} /\ \A p \in Profile : RowOK(v, p)
    BY DEF RowInv, Typed, TypeOK, StoreTypeOK, RowsHold
  <2> QED
    BY <2>1 DEF RowOK
<1> QED
  BY <1>1, <1>2, PTL

-----------------------------------------------------------------------------
\* The report: the row of a run follows its process, and the entries that have
\* been noted tell what became of them.
RowFollows(r) ==
  /\ worker[r].at \in {"idle", "check", "skip", "doctor", "start", "refused"} => runs[r].status = "none"
  /\ HasRow(r) => runs[r].status = "running"
  /\ in(r, "done") => runs[r].status \in {"complete", "partial", "failed", "pruned"}
  /\ in(r, "crashed") => runs[r].status \in {"none", "running"}
OwnsNothingYet(r) == worker[r].at \in Before \cup {"refused"} =>
  \A k \in Version \X Profile : alignment[k].owner # r
Existed(r) ==
  /\ \A x \in worker[r].known : current[x] # None
  /\ in(r, "skip") => \A x \in Ids(r) : current[x] # None

Noted(r) ==
  IF worker[r].at \in Loop THEN {i \in DOMAIN worker[r].entries : i < worker[r].next}
  ELSE IF \/ worker[r].at \in Back \cup {"finish"}
          \/ (in(r, "done") /\ runs[r].status # "pruned")
       THEN DOMAIN worker[r].entries
  ELSE {}
NotedIds(r) == {worker[r].entries[i].id : i \in Noted(r)}

Told(r, x, item) ==
  /\ item.outcome # "none"
  /\ item.outcome = "skipped" => current[x] # None
  /\ item.outcome = "unchanged" => <<x, item.content>> \in versions
  /\ item.outcome = "version-created" => \E j \in Pending(r) : worker[r].jobs[j].id = x
  /\ item.outcome = "processed" =>
       \E c \in Content, p \in Profile :
         alignment[<<<<x, c>>, p>>].status = "complete" /\ alignment[<<<<x, c>>, p>>].owner = r
ItemsTold(r) ==
  /\ \A x \in NotedIds(r) : Told(r, x, runs[r].item[x])
  /\ in(r, "note") => Told(r, entry(r).id, worker[r].found)

\* An alignment a run owns and that still runs is a job ahead of it, or was
\* lost and reported.
OwnedIsKnown(r) == Running(r) \/ (in(r, "done") /\ runs[r].status # "pruned") =>
  \A v \in Version, p \in Profile :
    alignment[<<v, p>>].owner = r /\ alignment[<<v, p>>].status = "running" =>
      \/ \E j \in Pending(r) : Key(r, worker[r].jobs[j]) = <<v, p>>
      \/ /\ v[1] \in NotedIds(r) /\ runs[r].item[v[1]].outcome = "failed"
         /\ \A j \in Pending(r) : worker[r].jobs[j].id # v[1]

ReportOf(r) ==
  /\ RowFollows(r) /\ OwnsNothingYet(r) /\ Existed(r) /\ ItemsTold(r) /\ OwnedIsKnown(r)
ReportInv == RowInv /\ \A r \in Run : ReportOf(r)

\* What the tables have told stays true; a run has no new alignment.
Grown ==
  /\ versions \subseteq versions'
  /\ \A x \in Recording : current[x] # None => current'[x] # None
  /\ \A k \in Version \X Profile : alignment[k].status = "complete" =>
       alignment'[k].status = "complete" /\ alignment'[k].owner = alignment[k].owner
NothingNew(r) == \A k \in Version \X Profile : alignment'[k].owner = r =>
  alignment[k].owner = r /\ (alignment'[k].status = "running" => alignment[k].status = "running")

LEMMA CurrentStays ==
  ASSUME TypeOK, NEW r \in Run, Shape(r), Work(r) \/ Crash(r)
  PROVE  \A x \in Recording : current[x] # None => current'[x] # None
<1>1. CASE current' = current
  BY <1>1
<1>2. ASSUME in(r, "entry"), IngestTx(entry(r).id, entry(r).content, worker[r].overwrite)
      PROVE  \A x \in Recording : current[x] # None => current'[x] # None
  <2>1. entry(r).id \in Recording /\ entry(r).content \in Content
    BY <1>2, EntryIsTyped DEF Shape, Loop, in
  <2>2. current' = current \/ current' = [current EXCEPT ![entry(r).id] = entry(r).content]
    BY <1>2 DEF IngestTx
  <2> QED
    BY <2>1, <2>2, NoneAssumption DEF TypeOK, StoreTypeOK
<1>3. CASE FailEntry(r) \/ Ingest(r)
  <2>1. \/ current' = current
        \/ in(r, "entry") /\ IngestTx(entry(r).id, entry(r).content, worker[r].overwrite)
    BY <1>3, Zenon DEF FailEntry, Ingest, Committed
  <2> QED
    BY <1>1, <1>2, <2>1
<1>4. CASE ~(FailEntry(r) \/ Ingest(r))
  <2>1. current' = current
    BY <1>4, Zenon DEF Work, CheckExisting, CompleteAllSkipped, Doctor, StartRun, Prepare,
       UploadStep, AwaitUploads, SkipEntry, Claim, Note, Align, ImportJob, FailJob, FinishRun,
       Crash, storeVars
  <2> QED
    BY <1>1, <2>1
<1> QED
  BY <1>3, <1>4

\* A run writes its own row and items only.
LEMMA RunsOfOthers ==
  ASSUME TypeOK, NEW r \in Run, Work(r) \/ Crash(r)
  PROVE  \A s \in Run : s # r => runs'[s] = runs[s]
<1>1. CASE runs' = runs
  BY <1>1
<1>2. runs \in [Run -> [status : {"none", "running", "complete", "partial", "failed", "pruned"},
                        item : [Recording -> Item]]]
  BY DEF TypeOK, StoreTypeOK
<1>3. CASE SkipEntry(r) \/ Note(r) \/ FailEntry(r) \/ ImportJob(r) \/ FailJob(r)
  <2>1. \E x, outcome, content : SaveItemTx(r, x, outcome, content)
    BY <1>3, Zenon DEF SkipEntry, Note, FailEntry, ImportJob, FailJob
  <2> QED
    BY <1>2, <2>1 DEF SaveItemTx
<1>4. CASE CompleteAllSkipped(r) \/ StartRun(r) \/ FinishRun(r)
  BY <1>2, <1>4 DEF CompleteAllSkipped, StartRun, FinishRun, SkipAllTx, StartRunTx, FinishRunTx
<1>5. CASE \/ CheckExisting(r) \/ Doctor(r) \/ Prepare(r) \/ UploadStep(r) \/ AwaitUploads(r)
           \/ Ingest(r) \/ Claim(r) \/ Align(r) \/ Crash(r)
  <2>1. runs' = runs
    BY <1>5, Zenon DEF CheckExisting, Doctor, Prepare, UploadStep, AwaitUploads, Ingest, Claim,
       Align, Crash, storeVars
  <2> QED
    BY <1>1, <2>1
<1> QED
  BY <1>3, <1>4, <1>5 DEF Work

LEMMA RunsGrow ==
  ASSUME RowInv, NEW r \in Run, Work(r) \/ Crash(r)
  PROVE  Grown /\ \A s \in Run : s # r => NothingNew(s)
<1>1. TypeOK /\ Typed /\ Shape(r)
  BY DEF RowInv, Typed
<1>2. versions \subseteq versions' /\ \A x \in Recording : current[x] # None => current'[x] # None
  BY <1>1, VersionsGrow, CurrentStays DEF Next
<1>3. RowsChange(r)
  BY RunsChangeRows
<1>4. \A k \in Version \X Profile :
        \/ Kept(k) \/ Taken(r, k)
        \/ \E status : Settled(r, k, status)
  BY <1>3 DEF RowsChange
<1>5. ASSUME NEW k \in Version \X Profile, alignment[k].status = "complete"
      PROVE  alignment'[k].status = "complete" /\ alignment'[k].owner = alignment[k].owner
  BY <1>4, <1>5 DEF Kept, Taken, Settled
<1>6. ASSUME NEW k \in Version \X Profile, NEW s \in Run, s # r, alignment'[k].owner = s
      PROVE  alignment[k].owner = s /\ (alignment'[k].status = "running" => alignment[k].status = "running")
  BY <1>4, <1>6 DEF Kept, Taken, Settled
<1> QED
  BY <1>2, <1>5, <1>6 DEF Grown, NothingNew

\* What was told of an entry stays true.
LEMMA ToldStays ==
  ASSUME Typed, Grown, NEW r \in Run, NEW x \in Recording, NEW item, Told(r, x, item),
         item.content \in Content \cup {None},
         item.outcome = "version-created" =>
           \E j \in Pending(r)' : worker'[r].jobs[j].id = x
  PROVE  Told(r, x, item)'
<1>1. item.outcome = "processed" =>
        \E c \in Content, p \in Profile :
          alignment'[<<<<x, c>>, p>>].status = "complete" /\ alignment'[<<<<x, c>>, p>>].owner = r
  <2> SUFFICES ASSUME item.outcome = "processed" PROVE
        \E c \in Content, p \in Profile :
          alignment'[<<<<x, c>>, p>>].status = "complete" /\ alignment'[<<<<x, c>>, p>>].owner = r
    OBVIOUS
  <2>1. PICK c \in Content, p \in Profile :
          alignment[<<<<x, c>>, p>>].status = "complete" /\ alignment[<<<<x, c>>, p>>].owner = r
    BY DEF Told
  <2>2. <<<<x, c>>, p>> \in Version \X Profile
    BY DEF Version
  <2> QED
    BY <2>1, <2>2 DEF Grown
<1> QED
  BY <1>1 DEF Told, Grown

\* Where a run is among its entries, and the names it has noted.
LEMMA NotedIsTyped ==
  ASSUME Typed, NEW r \in Run
  PROVE  NotedIds(r) \subseteq Ids(r) /\ Ids(r) \subseteq Recording
<1>1. Ids(r) \subseteq Recording
  BY IdsAreTyped DEF Typed
<1>2. Noted(r) \subseteq DOMAIN worker[r].entries
  BY DEF Noted
<1> QED
  BY <1>1, <1>2 DEF NotedIds, Ids

\* What is known of a run that does not move stays true.
LEMMA ReportCarry ==
  ASSUME Typed, Grown, NEW s \in Run, ReportOf(s), NothingNew(s),
         worker'[s] = worker[s], runs'[s] = runs[s]
  PROVE  ReportOf(s)'
<1>1. /\ Pending(s)' = Pending(s) /\ Noted(s)' = Noted(s) /\ NotedIds(s)' = NotedIds(s)
      /\ Ids(s)' = Ids(s) /\ Running(s)' = Running(s) /\ HasRow(s)' = HasRow(s)
      /\ entry(s)' = entry(s) /\ \A place : in(s, place)' = in(s, place)
      /\ \A e : Key(s, e)' = <<<<e.id, e.content>>', worker[s].profile>>
  BY DEF Pending, Noted, NotedIds, Ids, Running, HasRow, entry, in, Key
<1>2. RowFollows(s)'
  BY <1>1 DEF ReportOf, RowFollows
<1>3. OwnsNothingYet(s)'
  BY DEF ReportOf, OwnsNothingYet, NothingNew
<1>4. Existed(s)'
  <2>1. worker[s].known \subseteq Recording /\ Ids(s) \subseteq Recording
    BY NotedIsTyped DEF Typed, TypeOK, WorkerState
  <2> QED
    BY <1>1, <2>1 DEF ReportOf, Existed, Grown
<1>5. ItemsTold(s)'
  <2>1. ASSUME NEW x \in NotedIds(s) PROVE Told(s, x, runs[s].item[x])'
    <3>1. x \in Recording /\ runs[s].item[x] \in Item
      BY NotedIsTyped DEF Typed, TypeOK, StoreTypeOK
    <3>2. Told(s, x, runs[s].item[x]) /\ runs[s].item[x].content \in Content \cup {None}
      BY <3>1 DEF ReportOf, ItemsTold, Item, NoItem
    <3>3. runs[s].item[x].outcome = "version-created" =>
            \E j \in Pending(s)' : worker'[s].jobs[j].id = x
      BY <1>1, <3>2 DEF Told
    <3> QED
      BY <3>1, <3>2, <3>3, ToldStays
  <2>2. ASSUME in(s, "note") PROVE Told(s, entry(s).id, worker[s].found)'
    <3>1. worker[s].found \in Item /\ entry(s).id \in Recording
      BY <2>2, EntryIsTyped DEF Typed, TypeOK, WorkerState, Shape, Loop, in
    <3>2. Told(s, entry(s).id, worker[s].found) /\ worker[s].found.content \in Content \cup {None}
      BY <2>2, <3>1 DEF ReportOf, ItemsTold, Item, NoItem
    <3>3. worker[s].found.outcome = "version-created" =>
            \E j \in Pending(s)' : worker'[s].jobs[j].id = entry(s).id
      BY <1>1, <3>2 DEF Told
    <3> QED
      BY <1>1, <3>1, <3>2, <3>3, ToldStays
  <2> QED
    BY <1>1, <2>1, <2>2 DEF ItemsTold
<1>6. OwnedIsKnown(s)'
  BY <1>1 DEF ReportOf, OwnedIsKnown, NothingNew, Key
<1> QED
  BY <1>2, <1>3, <1>4, <1>5, <1>6 DEF ReportOf

-----------------------------------------------------------------------------
(* The run that moves, action by action.                                        *)

\* Before its loop a run has no alignment and has noted nothing.
LEMMA EarlyReport ==
  ASSUME ReportInv, Typed', NEW r \in Run, worker[r].at \in Before, alignment' = alignment, current' = current,
         worker'[r].at \in Before \cup {"refused", "entry"},
         worker'[r].at = "entry" => worker'[r].next = 1,
         worker'[r].entries = worker[r].entries \/ worker'[r].at # "skip",
         worker'[r].known = worker[r].known \/ (\A x \in worker'[r].known : current[x] # None),
         worker'[r].at = "skip" => in(r, "check") /\ Existing(Ids(r)) = Ids(r),
         RowFollows(r)'
  PROVE  ReportOf(r)'
<1>1. Typed /\ ReportOf(r) /\ \A k \in Version \X Profile : alignment[k].owner # r
  BY DEF ReportInv, RowInv, ReportOf, OwnsNothingYet
<1>2. \A k \in Version \X Profile : alignment'[k].owner # r
  BY <1>1
<1>3. OwnsNothingYet(r)'
  BY <1>2 DEF OwnsNothingYet
<1>4. OwnedIsKnown(r)'
  <2>1. \A v \in Version, p \in Profile : <<v, p>> \in Version \X Profile
    OBVIOUS
  <2> QED
    BY <1>2, <2>1 DEF OwnedIsKnown
<1>5. Existed(r)'
  <2>1. \A x \in worker'[r].known : current'[x] # None
    BY <1>1 DEF ReportOf, Existed
  <2>2. in(r, "skip")' => \A x \in Ids(r)' : current'[x] # None
    BY DEF in, Ids, Existing
  <2> QED
    BY <2>1, <2>2 DEF Existed
<1>6. Noted(r)' = {} /\ ~in(r, "note")'
  <2>1. CASE worker'[r].at = "entry"
    <3>1. Noted(r)' = {i \in DOMAIN worker'[r].entries : i < 1}
      BY <2>1 DEF Noted, Loop
    <3>2. \A i \in DOMAIN worker'[r].entries : i \in Nat \ {0}
      BY DEF Typed, TypeOK, WorkerState
    <3> QED
      BY <2>1, <3>1, <3>2 DEF in
  <2>2. CASE worker'[r].at \in Before \cup {"refused"}
    BY <2>2 DEF Noted, Loop, Back, Before, in
  <2> QED
    BY <2>1, <2>2
<1>7. ItemsTold(r)'
  BY <1>6 DEF ItemsTold, NotedIds
<1> QED
  BY <1>3, <1>4, <1>5, <1>7 DEF ReportOf


LEMMA BeforeReports ==
  ASSUME ReportInv, Typed', NEW r \in Run,
         \/ CheckExisting(r) \/ Doctor(r) \/ StartRun(r)
         \/ Prepare(r) \/ UploadStep(r) \/ AwaitUploads(r)
  PROVE  ReportOf(r)'
<1>1. /\ TypeOK /\ ReportOf(r) /\ Shape(r)
      /\ runs \in [Run -> [status : {"none", "running", "complete", "partial", "failed", "pruned"},
                           item : [Recording -> Item]]]
  BY DEF ReportInv, RowInv, Typed, TypeOK, StoreTypeOK
<1>2. alignment' = alignment /\ current' = current
  BY Zenon DEF CheckExisting, Doctor, StartRun, Prepare, UploadStep, AwaitUploads, storeVars
<1>3. CASE CheckExisting(r) \/ Doctor(r)
  <2>1. PICK place \in {"skip", "doctor", "start", "refused"} :
          /\ move(r, place) /\ runs' = runs
          /\ in(r, "check") \/ in(r, "doctor")
          /\ place = "skip" => in(r, "check") /\ Existing(Ids(r)) = Ids(r)
    BY <1>3 DEF CheckExisting, Doctor, storeVars
  <2>2. worker'[r].at = place /\ Same(worker'[r], worker[r], {"entries", "known"})
    BY <1>1, <2>1, MoveEffect DEF Same
  <2>3. RowFollows(r)'
    BY <1>1, <2>1, <2>2 DEF ReportOf, RowFollows, in, HasRow, Running
  <2>4. worker[r].at \in Before
    BY <2>1 DEF in, Before
  <2> QED
    BY <1>2, <2>1, <2>2, <2>3, <2>4, EarlyReport DEF Same, Before
<1>4. CASE StartRun(r)
  <2>1. /\ worker' = [worker EXCEPT ![r].known = Existing(Ids(r)), ![r].at = "prepare"]
        /\ runs' = [runs EXCEPT ![r].status = "running"] /\ in(r, "start")
    BY <1>4 DEF StartRun, StartRunTx
  <2>2. worker'[r].at = "prepare" /\ worker'[r].known = Existing(Ids(r)) /\ runs'[r].status = "running"
    BY <1>1, <2>1 DEF TypeOK, WorkerState
  <2>3. RowFollows(r)'
    BY <2>2 DEF RowFollows, in, HasRow, Running
  <2>4. worker[r].at \in Before /\ \A x \in worker'[r].known : current[x] # None
    BY <2>1, <2>2 DEF in, Before, Existing
  <2> QED
    BY <1>2, <2>2, <2>3, <2>4, EarlyReport DEF Before
<1>5. CASE Prepare(r)
  <2>1. /\ \E good : worker' = [worker EXCEPT ![r].ready = good, ![r].at = "upload"]
        /\ in(r, "prepare") /\ runs' = runs
    BY <1>5, Zenon DEF Prepare, storeVars
  <2>2. worker'[r].at = "upload" /\ worker'[r].known = worker[r].known
    BY <1>1, <2>1 DEF TypeOK, WorkerState
  <2>3. RowFollows(r)'
    BY <1>1, <2>1, <2>2 DEF ReportOf, RowFollows, in, HasRow, Running
  <2>4. worker[r].at \in Before
    BY <2>1 DEF in, Before
  <2> QED
    BY <1>2, <2>2, <2>3, <2>4, EarlyReport DEF Before
<1>6. CASE UploadStep(r)
  <2>1. worker' = worker /\ runs' = runs /\ in(r, "upload")
    BY <1>6, Zenon DEF UploadStep, storeVars
  <2>3. RowFollows(r)'
    BY <1>1, <2>1 DEF ReportOf, RowFollows, in, HasRow, Running
  <2>4. worker[r].at \in Before /\ worker[r].at = "upload"
    BY <2>1 DEF in, Before
  <2> QED
    BY <1>2, <2>1, <2>3, <2>4, EarlyReport DEF Before
<1>7. CASE AwaitUploads(r)
  <2>1. /\ \E kept : worker' = [worker EXCEPT ![r].ready = kept, ![r].at = "entry"]
        /\ in(r, "upload") /\ runs' = runs
    BY <1>7, Zenon DEF AwaitUploads, storeVars
  <2>2. worker'[r].at = "entry" /\ worker'[r].known = worker[r].known /\ worker'[r].next = worker[r].next
    BY <1>1, <2>1 DEF TypeOK, WorkerState
  <2>3. RowFollows(r)'
    BY <1>1, <2>1, <2>2 DEF ReportOf, RowFollows, in, HasRow, Running
  <2>4. worker[r].at \in Before /\ worker[r].next = 1
    BY <1>1, <2>1 DEF in, Before, Shape
  <2> QED
    BY <1>2, <2>2, <2>3, <2>4, EarlyReport DEF Before
<1> QED
  BY <1>3, <1>4, <1>5, <1>6, <1>7

LEMMA RequestReports ==
  ASSUME ReportInv, Typed', NEW r \in Run, NEW d \in Documents, NEW overwrite \in BOOLEAN,
         NEW p \in Profile, NEW continues \in ContinueOnError,
         Request(r, d, overwrite, p, continues)
  PROVE  ReportOf(r)'
<1>1. TypeOK /\ ReportOf(r)
  BY DEF ReportInv, RowInv, Typed
<1>2. /\ in(r, "idle") /\ alignment' = alignment /\ current' = current /\ runs' = runs
      /\ worker'[r].at \in {"refused", "doctor", "check"} /\ worker'[r].known = {}
  BY <1>1, RequestEffect DEF storeVars
<1>3. RowFollows(r)'
  BY <1>1, <1>2 DEF ReportOf, RowFollows, in, HasRow, Running
<1>4. worker[r].at \in Before
  BY <1>2 DEF in, Before
<1> QED
  BY <1>2, <1>3, <1>4, EarlyReport DEF Before

\* An entry behind it: the run has noted one more.
LEMMA NotedGrows ==
  ASSUME Typed, NEW r \in Run, worker[r].at \in Loop,
         \/ advance(r)
         \/ worker' = [worker EXCEPT ![r] = Next1([worker[r] EXCEPT !.aborted = ~worker[r].continues])]
  PROVE  /\ NotedIds(r)' = NotedIds(r) \cup {entry(r).id} /\ entry(r).id \notin NotedIds(r)
         /\ Pending(r)' = Pending(r)
         /\ Same(worker'[r], worker[r], {"entries", "profile", "jobs"})
         /\ worker'[r].at \in {"entry", "finish", "align"}
         /\ worker'[r].known \subseteq worker[r].known
<1>1. TypeOK /\ Shape(r)
  BY DEF Typed
<1>2. /\ Same(worker'[r], worker[r], {"entries", "profile", "jobs"})
      /\ worker'[r].at \in {"entry", "finish", "align"}
      /\ worker'[r].at = "entry" =>
           /\ worker[r].next < Len(worker[r].entries) /\ worker'[r].next = worker[r].next + 1
           /\ worker'[r].known = worker[r].known
      /\ worker'[r].at # "entry" =>
           worker'[r].known = {} /\ ~(worker[r].next < Len(worker[r].entries))
      /\ worker'[r].at = "finish" => worker[r].jobs = <<>>
  BY <1>1, AdvanceEffect DEF Same
<1> DEFINE entries == worker[r].entries
           n == worker[r].next
<1>3. /\ entries \in Seq(RawEntry) /\ n \in DOMAIN entries /\ entry(r) = entries[n]
      /\ DistinctEntries(entries)
  BY <1>1 DEF TypeOK, WorkerState, Shape, entry
<1>4. worker'[r].entries = entries /\ worker'[r].jobs = worker[r].jobs
  BY <1>2 DEF Same
<1>5. Noted(r) = {i \in DOMAIN entries : i < n}
  BY DEF Noted
<1>6. Noted(r)' = Noted(r) \cup {n}
  <2>1. CASE worker'[r].at = "entry"
    <3>1. Noted(r)' = {i \in DOMAIN entries : i < n + 1}
      BY <1>2, <1>4, <2>1 DEF Noted, Loop
    <3> QED
      BY <1>3, <1>5, <3>1
  <2>2. CASE worker'[r].at \in {"finish", "align"}
    <3>1. Noted(r)' = DOMAIN entries
      BY <1>4, <2>2 DEF Noted, Loop, Back
    <3>2. DOMAIN entries = 1..Len(entries) /\ Len(entries) \in Nat /\ ~(n < Len(entries))
      BY <1>2, <1>3, <2>2
    <3> QED
      BY <1>3, <1>5, <3>1, <3>2
  <2> QED
    BY <1>2, <2>1, <2>2
<1>7. NotedIds(r)' = NotedIds(r) \cup {entry(r).id}
  BY <1>3, <1>4, <1>6 DEF NotedIds
<1>8. entry(r).id \notin NotedIds(r)
  <2>1. ASSUME NEW i \in Noted(r) PROVE entries[i].id # entry(r).id
    <3>1. i \in DOMAIN entries /\ i < n /\ n \in Nat
      BY <1>3, <1>5, <2>1
    <3>2. i # n
      BY <1>3, <3>1
    <3> QED
      BY <1>3, <3>1, <3>2 DEF DistinctEntries
  <2> QED
    BY <2>1 DEF NotedIds
<1>9. Pending(r)' = Pending(r)
  <2>1. Pending(r) = DOMAIN worker[r].jobs
    BY DEF Pending
  <2>2. CASE worker'[r].at \in {"entry", "align"}
    BY <1>4, <2>1, <2>2 DEF Pending, Loop
  <2>3. CASE worker'[r].at = "finish"
    BY <1>2, <2>1, <2>3 DEF Pending, Loop, in
  <2> QED
    BY <1>2, <2>2, <2>3
<1> QED
  BY <1>2, <1>7, <1>8, <1>9

LEMMA AdvanceReports ==
  ASSUME ReportInv, Typed', Grown, NEW r \in Run, worker[r].at \in Loop,
         \/ advance(r)
         \/ worker' = [worker EXCEPT ![r] = Next1([worker[r] EXCEPT !.aborted = ~worker[r].continues])],
         NEW item \in Item, Told(r, entry(r).id, item),
         runs' = [runs EXCEPT ![r].item[entry(r).id] = item],
         \A v \in Version, p \in Profile :
           alignment'[<<v, p>>].owner = r /\ alignment'[<<v, p>>].status = "running" =>
             \/ alignment[<<v, p>>].owner = r /\ alignment[<<v, p>>].status = "running"
             \/ /\ v[1] = entry(r).id /\ item.outcome = "failed"
                /\ \A j \in Pending(r) : worker[r].jobs[j].id # entry(r).id
  PROVE  ReportOf(r)'
<1>1. /\ Typed /\ TypeOK /\ Shape(r) /\ ReportOf(r) /\ entry(r).id \in Recording
      /\ runs \in [Run -> [status : {"none", "running", "complete", "partial", "failed", "pruned"},
                           item : [Recording -> Item]]]
  BY EntryIsTyped DEF ReportInv, RowInv, Typed, TypeOK, StoreTypeOK, Shape
<1>0. PICK x \in Recording : x = entry(r).id
  BY <1>1
<1>2. /\ NotedIds(r)' = NotedIds(r) \cup {x} /\ x \notin NotedIds(r)
      /\ Pending(r)' = Pending(r)
      /\ worker'[r].entries = worker[r].entries /\ worker'[r].profile = worker[r].profile
      /\ worker'[r].jobs = worker[r].jobs
      /\ worker'[r].at \in {"entry", "finish", "align"}
      /\ worker'[r].known \subseteq worker[r].known
  BY <1>0, <1>1, NotedGrows DEF Same
<1>3. /\ runs'[r].item[x] = item /\ runs'[r].status = runs[r].status
      /\ \A y \in Recording : y # x => runs'[r].item[y] = runs[r].item[y]
  BY <1>0, <1>1
<1>4. RowFollows(r)'
  <2>1. runs[r].status = "running"
    BY <1>1 DEF ReportOf, RowFollows, HasRow, Running, Loop
  <2> QED
    BY <1>2, <1>3, <2>1 DEF RowFollows, in
<1>5. OwnsNothingYet(r)'
  BY <1>2 DEF OwnsNothingYet, Before
<1>6. Existed(r)'
  <2>1. \A y \in worker'[r].known : y \in Recording /\ current[y] # None
    BY <1>1, <1>2 DEF ReportOf, Existed, TypeOK, WorkerState
  <2> QED
    BY <1>2, <2>1 DEF Existed, Grown, in
<1>7. ItemsTold(r)'
  <2>1. Told(r, x, item)'
    <3>1. item.content \in Content \cup {None}
      BY DEF Item, NoItem
    <3>2. item.outcome = "version-created" => \E j \in Pending(r)' : worker'[r].jobs[j].id = x
      BY <1>0, <1>2 DEF Told
    <3> QED
      BY <1>0, <1>1, <3>1, <3>2, ToldStays
  <2>2. ASSUME NEW y \in NotedIds(r) PROVE Told(r, y, runs[r].item[y])'
    <3>1. y \in Recording /\ runs[r].item[y] \in Item /\ y # x
      BY <1>1, <1>2, NotedIsTyped
    <3>2. Told(r, y, runs[r].item[y]) /\ runs[r].item[y].content \in Content \cup {None}
      BY <1>1, <3>1 DEF ReportOf, ItemsTold, Item, NoItem
    <3>3. runs[r].item[y].outcome = "version-created" =>
            \E j \in Pending(r)' : worker'[r].jobs[j].id = y
      BY <1>2, <3>2 DEF Told
    <3>4. PICK old \in Item : old = runs[r].item[y]
      BY <3>1
    <3>5. Told(r, y, old)'
      BY <1>1, <3>1, <3>2, <3>3, <3>4, ToldStays
    <3>6. runs'[r].item[y] = old
      BY <1>3, <3>1, <3>4
    <3> QED
      BY <3>5, <3>6
  <2>3. ~in(r, "note")'
    BY <1>2 DEF in
  <2> QED
    BY <1>2, <1>3, <2>1, <2>2, <2>3 DEF ItemsTold
<1>8. OwnedIsKnown(r)'
  <2> SUFFICES ASSUME NEW v \in Version, NEW p \in Profile,
                      alignment'[<<v, p>>].owner = r, alignment'[<<v, p>>].status = "running"
               PROVE  \/ \E j \in Pending(r) : Key(r, worker[r].jobs[j]) = <<v, p>>
                      \/ /\ v[1] \in NotedIds(r)' /\ runs'[r].item[v[1]].outcome = "failed"
                         /\ \A j \in Pending(r) : worker[r].jobs[j].id # v[1]
    BY <1>2 DEF OwnedIsKnown, Key
  <2>1. CASE v[1] = x /\ item.outcome = "failed" /\ \A j \in Pending(r) : worker[r].jobs[j].id # x
    BY <1>2, <1>3, <2>1
  <2>2. CASE alignment[<<v, p>>].owner = r /\ alignment[<<v, p>>].status = "running"
    <3>1. Running(r)
      BY DEF Running, Loop
    <3>2. v[1] \in NotedIds(r) => v[1] \in Recording /\ v[1] # x
      BY <1>1, <1>2, NotedIsTyped
    <3> QED
      BY <1>1, <1>2, <1>3, <2>2, <3>1, <3>2 DEF ReportOf, OwnedIsKnown
  <2> QED
    BY <1>0, <2>1, <2>2
<1> QED
  BY <1>4, <1>5, <1>6, <1>7, <1>8 DEF ReportOf

LEMMA NotingReports ==
  ASSUME ReportInv, Typed', Grown, NEW r \in Run, SkipEntry(r) \/ Note(r) \/ FailEntry(r)
  PROVE  ReportOf(r)'
<1>1. /\ Typed /\ TypeOK /\ Shape(r) /\ ReportOf(r) /\ RowInv /\ Unclaimed(r) /\ JobsHold(r) /\ RowsHold
  BY DEF ReportInv, RowInv, Typed
<1>2. ASSUME alignment' = alignment
      PROVE  \A v \in Version, p \in Profile :
               alignment'[<<v, p>>].owner = r /\ alignment'[<<v, p>>].status = "running" =>
                 alignment[<<v, p>>].owner = r /\ alignment[<<v, p>>].status = "running"
  BY <1>2
<1>3. ASSUME SkipEntry(r) \/ FailEntry(r), worker[r].at \in Loop,
             \/ advance(r)
             \/ worker' = [worker EXCEPT ![r] = Next1([worker[r] EXCEPT !.aborted = ~worker[r].continues])],
             SaveItemTx(r, entry(r).id, "failed", None),
             alignment' = alignment \/ (in(r, "claim") /\ ClaimTx(Key(r, entry(r)), r) /\ published' = published)
      PROVE  ReportOf(r)'
  <2> DEFINE item == [outcome |-> "failed", content |-> None]
  <2>1. item \in Item /\ Told(r, entry(r).id, item) /\ item.outcome = "failed"
    BY DEF Item, Outcomes, Told
  <2>2. runs' = [runs EXCEPT ![r].item[entry(r).id] = item]
    BY <1>3 DEF SaveItemTx
  <2>3. CASE alignment' = alignment
    BY <1>2, <1>3, <2>1, <2>2, <2>3, AdvanceReports
  <2>4. CASE in(r, "claim") /\ ClaimTx(Key(r, entry(r)), r) /\ published' = published
    <3>1. RowsChange(r) /\ Taken(r, Key(r, entry(r)))
      BY <1>1, <2>4, ClaimChanges
    <3>2. \A j \in Pending(r) : worker[r].jobs[j].id # entry(r).id
      <4>1. ASSUME NEW j \in Pending(r) PROVE worker[r].jobs[j].id # entry(r).id
        <5>1. PICK i \in DOMAIN worker[r].entries :
                /\ worker[r].entries[i].id = worker[r].jobs[j].id /\ i < worker[r].next
          BY <1>1, <1>3, <2>4 DEF JobsHold, in
        <5>2. i # worker[r].next /\ worker[r].next \in DOMAIN worker[r].entries
          BY <1>1, <1>3, <5>1 DEF Shape, TypeOK, WorkerState
        <5> QED
          BY <1>1, <5>1, <5>2 DEF Shape, DistinctEntries, entry
      <4> QED
        BY <4>1
    <3>3. ASSUME NEW v \in Version, NEW p \in Profile,
                 alignment'[<<v, p>>].owner = r, alignment'[<<v, p>>].status = "running"
          PROVE  \/ alignment[<<v, p>>].owner = r /\ alignment[<<v, p>>].status = "running"
                 \/ v[1] = entry(r).id
      <4>1. Kept(<<v, p>>) \/ Taken(r, <<v, p>>) \/ \E status : Settled(r, <<v, p>>, status)
        BY <3>1 DEF RowsChange
      <4>2. Taken(r, <<v, p>>) => v[1] = entry(r).id
        BY DEF Taken, Key
      <4> QED
        BY <3>3, <4>1, <4>2 DEF Kept, Settled
    <3> QED
      BY <1>3, <2>1, <2>2, <3>2, <3>3, AdvanceReports
  <2> QED
    BY <1>3, <2>3, <2>4
<1>4. CASE FailEntry(r)
  <2>1. /\ SaveItemTx(r, entry(r).id, "failed", None)
        /\ worker' = [worker EXCEPT ![r] = Next1([worker[r] EXCEPT !.aborted = ~worker[r].continues])]
        /\ alignment' = alignment \/ (in(r, "claim") /\ ClaimTx(Key(r, entry(r)), r))
        /\ published' = published
        /\ in(r, "entry") \/ in(r, "claim") \/ in(r, "note")
    BY <1>4, Zenon DEF FailEntry, Committed, Attempted
  <2>2. worker[r].at \in Loop
    BY <2>1 DEF in, Loop
  <2> QED
    BY <1>3, <1>4, <2>1, <2>2
<1>5. CASE SkipEntry(r)
  <2>1. /\ advance(r) /\ alignment' = alignment /\ in(r, "entry")
        /\ \/ SaveItemTx(r, entry(r).id, "failed", None)
           \/ Known(r, entry(r)) /\ SaveItemTx(r, entry(r).id, "skipped", None)
    BY <1>5, Zenon DEF SkipEntry
  <2>2. worker[r].at \in Loop
    BY <2>1 DEF in, Loop
  <2>3. CASE SaveItemTx(r, entry(r).id, "failed", None)
    BY <1>3, <1>5, <2>1, <2>2, <2>3
  <2>4. CASE Known(r, entry(r)) /\ SaveItemTx(r, entry(r).id, "skipped", None)
    <3> DEFINE item == [outcome |-> "skipped", content |-> None]
    <3>1. item \in Item /\ Told(r, entry(r).id, item)
      BY <1>1, <2>4 DEF Item, Outcomes, Told, Known, ReportOf, Existed
    <3>2. runs' = [runs EXCEPT ![r].item[entry(r).id] = item]
      BY <2>4 DEF SaveItemTx
    <3> QED
      BY <1>2, <2>1, <2>2, <3>1, <3>2, AdvanceReports
  <2> QED
    BY <2>1, <2>3, <2>4
<1>6. CASE Note(r)
  <2>1. /\ advance(r) /\ alignment' = alignment /\ in(r, "note")
        /\ SaveItemTx(r, entry(r).id, worker[r].found.outcome, worker[r].found.content)
    BY <1>6, Zenon DEF Note
  <2>2. worker[r].at \in Loop
    BY <2>1 DEF in, Loop
  <2>3. Told(r, entry(r).id, worker[r].found) /\ worker[r].found \in Item
    BY <1>1, <2>1 DEF ReportOf, ItemsTold, TypeOK, WorkerState
  <2> DEFINE item == [outcome |-> worker[r].found.outcome, content |-> worker[r].found.content]
  <2>4. item = worker[r].found
    BY <2>3 DEF Item, NoItem
  <2>5. item \in Item /\ Told(r, entry(r).id, item)
    BY <2>3, <2>4
  <2>6. runs' = [runs EXCEPT ![r].item[entry(r).id] = item]
    BY <2>1 DEF SaveItemTx
  <2>7. PICK told \in Item : told = item
    BY <2>5
  <2> HIDE DEF item
  <2> QED
    BY <1>2, <2>1, <2>2, <2>5, <2>6, <2>7, AdvanceReports
<1> QED
  BY <1>4, <1>5, <1>6

\* A step that notes nothing: what was noted stays true, if jobs are only added.
LEMMA QuietReports ==
  ASSUME ReportInv, Typed', Grown, NEW r \in Run, runs' = runs,
         worker[r].at \in Loop \cup Back, worker'[r].at \in Loop \cup Back,
         NotedIds(r)' = NotedIds(r),
         Same(worker'[r], worker[r], {"entries", "profile"}),
         worker'[r].known \subseteq worker[r].known,
         Pending(r) \subseteq Pending(r)',
         \A j \in Pending(r) : worker'[r].jobs[j] = worker[r].jobs[j],
         \A j \in Pending(r)' \ Pending(r) : worker'[r].jobs[j].id \notin NotedIds(r),
         in(r, "note")' => Told(r, entry(r).id, worker[r].found)',
         \A v \in Version, p \in Profile :
           alignment'[<<v, p>>].owner = r /\ alignment'[<<v, p>>].status = "running" =>
             \/ alignment[<<v, p>>].owner = r /\ alignment[<<v, p>>].status = "running"
             \/ \E j \in Pending(r)' : Key(r, worker'[r].jobs[j]) = <<v, p>>
  PROVE  ReportOf(r)'
<1>1. /\ Typed /\ TypeOK /\ ReportOf(r) /\ runs[r].status = "running"
  BY DEF ReportInv, RowInv, Typed, ReportOf, RowFollows, HasRow, Running, Loop, Back
<1>2. RowFollows(r)'
  BY <1>1 DEF RowFollows, in, Loop, Back
<1>3. OwnsNothingYet(r)'
  BY DEF OwnsNothingYet, Before, Loop, Back
<1>4. Existed(r)'
  <2>1. \A y \in worker'[r].known : y \in Recording /\ current[y] # None
    BY <1>1 DEF ReportOf, Existed, TypeOK, WorkerState
  <2>2. ~in(r, "skip")'
    BY DEF in, Loop, Back
  <2> QED
    BY <2>1, <2>2 DEF Existed, Grown
<1>5. ItemsTold(r)'
  <2>1. ASSUME NEW y \in NotedIds(r) PROVE Told(r, y, runs[r].item[y])'
    <3>1. y \in Recording /\ runs[r].item[y] \in Item
      BY <1>1, NotedIsTyped DEF TypeOK, StoreTypeOK
    <3>2. Told(r, y, runs[r].item[y]) /\ runs[r].item[y].content \in Content \cup {None}
      BY <1>1, <3>1 DEF ReportOf, ItemsTold, Item, NoItem
    <3>3. runs[r].item[y].outcome = "version-created" =>
            \E j \in Pending(r)' : worker'[r].jobs[j].id = y
      BY <3>2 DEF Told
    <3>4. PICK old \in Item : old = runs[r].item[y]
      BY <3>1
    <3>5. Told(r, y, old)'
      BY <1>1, <3>1, <3>2, <3>3, <3>4, ToldStays
    <3> QED
      BY <3>4, <3>5
  <2> QED
    BY <2>1 DEF ItemsTold
<1>6. OwnedIsKnown(r)'
  <2> SUFFICES ASSUME NEW v \in Version, NEW p \in Profile,
                      alignment'[<<v, p>>].owner = r, alignment'[<<v, p>>].status = "running"
               PROVE  \/ \E j \in Pending(r)' : Key(r, worker[r].jobs[j])' = <<v, p>>
                      \/ /\ v[1] \in NotedIds(r) /\ runs[r].item[v[1]].outcome = "failed"
                         /\ \A j \in Pending(r)' : worker'[r].jobs[j].id # v[1]
    BY DEF OwnedIsKnown
  <2>1. \A j : Key(r, worker[r].jobs[j])' = Key(r, worker'[r].jobs[j])
    BY DEF Key, Same
  <2>2. CASE \E j \in Pending(r)' : Key(r, worker'[r].jobs[j]) = <<v, p>>
    BY <2>1, <2>2
  <2>3. CASE alignment[<<v, p>>].owner = r /\ alignment[<<v, p>>].status = "running"
    <3>1. Running(r)
      BY DEF Running, Loop, Back
    <3>2. \/ \E j \in Pending(r) : Key(r, worker[r].jobs[j]) = <<v, p>>
          \/ /\ v[1] \in NotedIds(r) /\ runs[r].item[v[1]].outcome = "failed"
             /\ \A j \in Pending(r) : worker[r].jobs[j].id # v[1]
      BY <1>1, <2>3, <3>1 DEF ReportOf, OwnedIsKnown
    <3>3. CASE \E j \in Pending(r) : Key(r, worker[r].jobs[j]) = <<v, p>>
      BY <2>1, <3>3
    <3>4. CASE /\ v[1] \in NotedIds(r) /\ runs[r].item[v[1]].outcome = "failed"
               /\ \A j \in Pending(r) : worker[r].jobs[j].id # v[1]
      BY <3>4
    <3> QED
      BY <3>2, <3>3, <3>4
  <2> QED
    BY <2>2, <2>3
<1> QED
  BY <1>2, <1>3, <1>4, <1>5, <1>6 DEF ReportOf

LEMMA IngestReports ==
  ASSUME ReportInv, Typed', Grown, NEW r \in Run, Ingest(r)
  PROVE  ReportOf(r)'
<1>1. /\ Typed /\ TypeOK /\ Shape(r) /\ RowInv
  BY DEF ReportInv, RowInv, Typed
<1>2. /\ in(r, "entry") /\ alignment' = alignment /\ runs' = runs
      /\ IngestTx(entry(r).id, entry(r).content, worker[r].overwrite)
  BY DEF Ingest
<1> DEFINE state == Ingested(entry(r).id, entry(r).content, worker[r].overwrite)
<1>3. /\ worker'[r].at = IF state = "created" THEN "claim" ELSE "note"
      /\ worker'[r].found =
           [outcome |-> IF state = "created" THEN "version-created" ELSE state,
            content |-> IF state = "skipped" THEN None ELSE entry(r).content]
      /\ Same(worker'[r], worker[r], {"entries", "profile", "known", "next", "jobs"})
  BY <1>1, IngestEffect DEF Same
<1>4. worker[r].at = "entry" /\ worker[r].at \in Loop /\ worker'[r].at \in Loop
  BY <1>2, <1>3 DEF in, Loop
<1>5. /\ Pending(r)' = Pending(r) /\ NotedIds(r)' = NotedIds(r) /\ entry(r)' = entry(r)
  BY <1>3, <1>4 DEF Pending, Noted, NotedIds, Same, entry, in
<1>6. in(r, "note")' => Told(r, entry(r).id, worker[r].found)'
  <2>1. \/ state = "skipped" /\ current[entry(r).id] # None
        \/ state = "unchanged" /\ VersionAt(r) \in versions
        \/ state = "created"
    BY DEF Ingested, VersionAt
  <2>2. CASE state = "created"
    BY <1>3, <2>2 DEF in
  <2>3. CASE state = "skipped" /\ current[entry(r).id] # None
    <3>1. current' = current
      BY <1>2, <2>3 DEF IngestTx
    <3>2. worker'[r].found.outcome = "skipped"
      BY <1>3, <2>3
    <3> QED
      BY <1>5, <2>3, <3>1, <3>2 DEF Told
  <2>4. CASE state = "unchanged" /\ VersionAt(r) \in versions
    <3>1. versions' = versions
      BY <1>2, <2>4 DEF IngestTx
    <3>2. worker'[r].found.outcome = "unchanged" /\ worker'[r].found.content = entry(r).content
      BY <1>3, <2>4
    <3> QED
      BY <1>5, <2>4, <3>1, <3>2 DEF Told, VersionAt
  <2> QED
    BY <2>1, <2>2, <2>3, <2>4
<1>7. /\ worker'[r].known = worker[r].known /\ worker'[r].jobs = worker[r].jobs
      /\ Same(worker'[r], worker[r], {"entries", "profile"})
  BY <1>3 DEF Same
<1> QED
  BY <1>2, <1>4, <1>5, <1>6, <1>7, QuietReports

LEMMA ClaimReports ==
  ASSUME ReportInv, Typed', Grown, NEW r \in Run, Claim(r)
  PROVE  ReportOf(r)'
<1>1. /\ Typed /\ TypeOK /\ Shape(r) /\ RowInv /\ JobsHold(r)
  BY DEF ReportInv, RowInv, Typed
<1>2. in(r, "claim") /\ ClaimTx(Key(r, entry(r)), r) /\ published' = published /\ runs' = runs
  BY Zenon DEF Claim
<1>3. RowsChange(r) /\ Taken(r, Key(r, entry(r))) /\ Claimed(Key(r, entry(r))) = "claimed"
  BY <1>1, <1>2, ClaimChanges
<1>4. /\ worker'[r].at = "note" /\ worker'[r].jobs = Append(worker[r].jobs, entry(r))
      /\ worker'[r].found.outcome = "version-created"
      /\ Same(worker'[r], worker[r], {"entries", "profile", "known", "next"})
  BY <1>1, <1>3, ClaimWorkerEffect DEF Same
<1>5. worker[r].at = "claim" /\ worker[r].at \in Loop /\ worker'[r].at \in Loop
  BY <1>2, <1>4 DEF in, Loop
<1>6. NotedIds(r)' = NotedIds(r) /\ entry(r)' = entry(r)
  BY <1>4, <1>5 DEF Noted, NotedIds, Same, entry
<1>7. worker[r].jobs \in Seq(RawEntry) /\ entry(r) \in RawEntry
  BY <1>1, <1>5, EntryIsTyped DEF TypeOK, WorkerState, Shape
<1>8. PICK n \in Nat : n = Len(worker[r].jobs)
  BY <1>7
<1>9. /\ Pending(r) = 1..n /\ Pending(r)' = 1..(n + 1)
      /\ worker'[r].jobs[n + 1] = entry(r)
      /\ \A j \in 1..n : worker'[r].jobs[j] = worker[r].jobs[j]
  BY <1>4, <1>5, <1>7, <1>8 DEF Pending
<1>10. n + 1 \in 1..(n + 1) /\ \A j \in 1..(n + 1) : j \in 1..n \/ j = n + 1
  BY <1>8
<1>11. entry(r).id \notin NotedIds(r)
  <2>1. worker[r].next \in DOMAIN worker[r].entries /\ DistinctEntries(worker[r].entries)
    BY <1>1, <1>5 DEF Shape
  <2>2. \A i \in Noted(r) : i \in DOMAIN worker[r].entries /\ i # worker[r].next
    BY <1>1, <1>5 DEF Noted, TypeOK, WorkerState
  <2> QED
    BY <2>1, <2>2 DEF NotedIds, entry, DistinctEntries
<1>12. Told(r, entry(r).id, worker[r].found)'
  BY <1>4, <1>6, <1>9, <1>10 DEF Told
<1>13. ASSUME NEW v \in Version, NEW p \in Profile,
              alignment'[<<v, p>>].owner = r, alignment'[<<v, p>>].status = "running"
       PROVE  \/ alignment[<<v, p>>].owner = r /\ alignment[<<v, p>>].status = "running"
              \/ \E j \in Pending(r)' : Key(r, worker'[r].jobs[j]) = <<v, p>>
  <2>1. Kept(<<v, p>>) \/ Taken(r, <<v, p>>) \/ \E status : Settled(r, <<v, p>>, status)
    BY <1>3 DEF RowsChange
  <2>2. CASE Taken(r, <<v, p>>)
    BY <1>9, <1>10, <2>2 DEF Taken
  <2>3. CASE Kept(<<v, p>>) \/ \E status : Settled(r, <<v, p>>, status)
    BY <1>13, <2>3 DEF Kept, Settled
  <2> QED
    BY <2>1, <2>2, <2>3
<1>14. /\ worker'[r].known = worker[r].known
       /\ Same(worker'[r], worker[r], {"entries", "profile"})
  BY <1>4 DEF Same
<1>15. \A j \in Pending(r)' \ Pending(r) : worker'[r].jobs[j].id \notin NotedIds(r)
  BY <1>9, <1>10, <1>11
<1>16. Pending(r) \subseteq Pending(r)' /\ \A j \in Pending(r) : worker'[r].jobs[j] = worker[r].jobs[j]
  BY <1>8, <1>9
<1> QED
  BY <1>2, <1>5, <1>6, <1>12, <1>13, <1>14, <1>15, <1>16, QuietReports

LEMMA AlignReports ==
  ASSUME ReportInv, Typed', Grown, NEW r \in Run, Align(r)
  PROVE  ReportOf(r)'
<1>1. /\ Typed /\ TypeOK /\ Shape(r)
  BY DEF ReportInv, RowInv, Typed
<1>2. in(r, "align") /\ alignment' = alignment /\ runs' = runs
  BY DEF Align, storeVars
<1>3. worker'[r].at = "import" /\ Same(worker'[r], worker[r], {"entries", "profile", "known", "next", "jobs"})
  BY <1>1, AlignEffect
<1>4. /\ worker[r].at = "align" /\ worker[r].at \in Back /\ worker'[r].at \in Back
      /\ worker[r].next = 1 /\ worker[r].jobs \in Seq(RawEntry)
  BY <1>1, <1>2, <1>3 DEF in, Back, Shape, TypeOK, WorkerState
<1>5. /\ worker'[r].entries = worker[r].entries /\ worker'[r].jobs = worker[r].jobs
      /\ worker'[r].next = 1 /\ worker'[r].known = worker[r].known
      /\ Same(worker'[r], worker[r], {"entries", "profile"})
  BY <1>3, <1>4 DEF Same
<1>6. NotedIds(r)' = NotedIds(r)
  BY <1>3, <1>4, <1>5 DEF Noted, NotedIds, Loop, Back
<1>7. Pending(r)' = Pending(r)
  <2>1. Pending(r) = DOMAIN worker[r].jobs
    BY <1>4 DEF Pending
  <2>2. Pending(r)' = {j \in DOMAIN worker[r].jobs : j >= 1}
    BY <1>3, <1>5 DEF Pending, in, Loop
  <2> QED
    BY <1>4, <2>1, <2>2
<1>8. ~in(r, "note")'
  BY <1>3 DEF in
<1> QED
  BY <1>2, <1>4, <1>5, <1>6, <1>7, <1>8, QuietReports

\* The job leaves the list and its row is settled: its entry is noted anew.
LEMMA ImportReports ==
  ASSUME ReportInv, Typed', Grown, NEW r \in Run, ImportJob(r) \/ FailJob(r)
  PROVE  ReportOf(r)'
<1>1. /\ Typed /\ TypeOK /\ Shape(r) /\ RowInv /\ JobsHold(r) /\ Unanswered(r) /\ ReportOf(r)
      /\ runs \in [Run -> [status : {"none", "running", "complete", "partial", "failed", "pruned"},
                           item : [Recording -> Item]]]
  BY DEF ReportInv, RowInv, Typed, TypeOK, StoreTypeOK
<1>2. /\ in(r, "import") \/ (in(r, "fail") /\ FailTx(Key(r, job(r))) /\ published' = published)
      /\ \/ /\ in(r, "import") /\ CompleteTx(Key(r, job(r)))
            /\ SaveItemTx(r, job(r).id, "processed", runs[r].item[job(r).id].content)
         \/ /\ FailTx(Key(r, job(r))) /\ published' = published
            /\ SaveItemTx(r, job(r).id, "failed", runs[r].item[job(r).id].content)
  BY Zenon DEF ImportJob, FailJob
<1>3. /\ RowsChange(r)
      /\ in(r, "import") /\ CompleteTx(Key(r, job(r))) => Settled(r, Key(r, job(r)), "complete")
      /\ in(r, "import") => \E status \in {"complete", "failed"} : Settled(r, Key(r, job(r)), status)
      /\ in(r, "fail") => \A k \in Version \X Profile : Kept(k)
  <2>1. ASSUME in(r, "fail") PROVE \A k \in Version \X Profile : Kept(k)
    <3>1. FailTx(Key(r, job(r)))
      BY <1>2, <2>1 DEF in
    <3> QED
      BY <1>1, <2>1, <3>1, FailingKeepsRows
  <2>2. in(r, "import") =>
          /\ CompleteTx(Key(r, job(r))) => Settled(r, Key(r, job(r)), "complete")
          /\ \E status \in {"complete", "failed"} : Settled(r, Key(r, job(r)), status)
    BY <1>1, <1>2, ImportChanges
  <2> QED
    BY <1>1, <2>1, <2>2, RunsChangeRows DEF Work
<1>4. /\ Same(worker'[r], worker[r], {"entries", "profile", "known", "jobs"})
      /\ worker'[r].at \in {"import", "fail", "finish"}
  BY <1>1, JobEffect
<1>5. /\ worker'[r].entries = worker[r].entries /\ worker'[r].profile = worker[r].profile
      /\ worker'[r].jobs = worker[r].jobs /\ worker'[r].known = worker[r].known
  BY <1>4 DEF Same
<1>6. /\ worker[r].at \in {"import", "fail"} /\ worker[r].next \in DOMAIN worker[r].jobs
  BY <1>1, <1>2 DEF in, Back, Shape
<1>8. Pending(r)' = Pending(r) \ {worker[r].next}
  BY <1>1, PendingShrinks
<1>9. PICK x \in Recording : x = job(r).id
  BY <1>1, <1>2, JobIsTyped
<1>10. /\ job(r) = worker[r].jobs[worker[r].next]
       /\ in(r, "import") => worker[r].next \in Pending(r)
  <2>1. in(r, "import") => worker[r].next \in Pending(r)
    <3>1. worker[r].next \in Nat
      BY <1>1 DEF TypeOK, WorkerState
    <3> QED
      BY <1>6, <3>1 DEF Pending, in, Loop
  <2> QED
    BY <2>1 DEF job
<1>11. NotedIds(r)' = NotedIds(r) /\ x \in NotedIds(r) /\ ~in(r, "note")'
  <2>1. Noted(r) = DOMAIN worker[r].entries /\ Noted(r)' = DOMAIN worker[r].entries
    BY <1>4, <1>5, <1>6 DEF Noted, Loop, Back
  <2>2. x \in Ids(r)
    <3>1. CASE in(r, "import")
      BY <1>1, <1>6, <1>9, <1>10, <3>1 DEF JobsHold, Back
    <3>2. CASE in(r, "fail")
      BY <1>1, <1>9, <3>2 DEF Unanswered
    <3> QED
      BY <1>2, <3>1, <3>2
  <2> QED
    BY <1>4, <1>5, <2>1, <2>2 DEF NotedIds, Ids, in
<1>12. \A j \in Pending(r)' : j \in Pending(r) /\ worker[r].jobs[j].id # x
  <2>1. CASE in(r, "import")
    BY <1>1, <1>8, <1>9, <1>10, <2>1 DEF JobsHold
  <2>2. CASE in(r, "fail")
    BY <1>1, <1>8, <1>9, <2>2 DEF Unanswered
  <2> QED
    BY <1>2, <2>1, <2>2
<1>13. PICK item \in Item :
         /\ runs' = [runs EXCEPT ![r].item[x] = item]
         /\ \/ item.outcome = "processed" /\ in(r, "import") /\ CompleteTx(Key(r, job(r)))
            \/ item.outcome = "failed"
  <2>1. PICK content \in Content \cup {None} : content = runs[r].item[x].content
    BY <1>1, <1>9 DEF Item, NoItem
  <2>2. \A outcome \in Outcomes : [outcome |-> outcome, content |-> content] \in Item
    BY DEF Item
  <2>3. "processed" \in Outcomes /\ "failed" \in Outcomes
    BY DEF Outcomes
  <2>4. CASE /\ in(r, "import") /\ CompleteTx(Key(r, job(r)))
             /\ SaveItemTx(r, job(r).id, "processed", runs[r].item[job(r).id].content)
    <3>1. runs' = [runs EXCEPT ![r].item[x] = [outcome |-> "processed", content |-> content]]
      BY <1>9, <2>1, <2>4 DEF SaveItemTx
    <3> QED
      BY <2>2, <2>3, <2>4, <3>1
  <2>5. CASE SaveItemTx(r, job(r).id, "failed", runs[r].item[job(r).id].content)
    <3>1. runs' = [runs EXCEPT ![r].item[x] = [outcome |-> "failed", content |-> content]]
      BY <1>9, <2>1, <2>5 DEF SaveItemTx
    <3> QED
      BY <2>2, <2>3, <3>1
  <2> QED
    BY <1>2, <2>4, <2>5
<1>14. /\ runs'[r].item[x] = item /\ runs'[r].status = runs[r].status
       /\ \A y \in Recording : y # x => runs'[r].item[y] = runs[r].item[y]
  BY <1>1, <1>13
<1>15. RowFollows(r)' /\ OwnsNothingYet(r)' /\ Existed(r)'
  <2>1. runs[r].status = "running"
    BY <1>1, <1>6 DEF ReportOf, RowFollows, HasRow, Running
  <2>2. RowFollows(r)'
    BY <1>4, <1>14, <2>1 DEF RowFollows, in
  <2>3. OwnsNothingYet(r)'
    BY <1>4 DEF OwnsNothingYet, Before
  <2>4. \A y \in worker'[r].known : y \in Recording /\ current[y] # None
    BY <1>1, <1>5 DEF ReportOf, Existed, TypeOK, WorkerState
  <2>5. Existed(r)'
    BY <1>4, <2>4 DEF Existed, Grown, in
  <2> QED
    BY <2>2, <2>3, <2>5
<1>16. ItemsTold(r)'
  <2>1. Told(r, x, item)'
    <3>1. CASE item.outcome = "failed"
      BY <3>1 DEF Told
    <3>2. CASE item.outcome = "processed" /\ in(r, "import") /\ CompleteTx(Key(r, job(r)))
      <4>1. Settled(r, Key(r, job(r)), "complete")
        BY <1>3, <3>2
      <4>2. /\ Key(r, job(r)) = <<<<x, job(r).content>>, worker[r].profile>>
            /\ job(r).content \in Content /\ worker[r].profile \in Profile
        <5>1. Running(r)
          BY <1>6 DEF Running
        <5> QED
          BY <1>1, <1>2, <1>9, <5>1, JobIsTyped DEF Key, Shape
      <4>3. PICK c \in Content, p \in Profile : Key(r, job(r)) = <<<<x, c>>, p>>
        BY <4>2
      <4> QED
        BY <3>2, <4>1, <4>3 DEF Told, Settled
    <3> QED
      BY <1>13, <3>1, <3>2
  <2>2. ASSUME NEW y \in NotedIds(r), y # x PROVE Told(r, y, runs[r].item[y])'
    <3>1. y \in Recording /\ runs[r].item[y] \in Item
      BY <1>1, NotedIsTyped
    <3>2. Told(r, y, runs[r].item[y]) /\ runs[r].item[y].content \in Content \cup {None}
      BY <1>1, <3>1 DEF ReportOf, ItemsTold, Item, NoItem
    <3>3. runs[r].item[y].outcome = "version-created" =>
            \E j \in Pending(r)' : worker'[r].jobs[j].id = y
      BY <1>5, <1>8, <1>9, <1>10, <2>2, <3>2 DEF Told
    <3>4. PICK old \in Item : old = runs[r].item[y]
      BY <3>1
    <3>5. Told(r, y, old)'
      BY <1>1, <3>1, <3>2, <3>3, <3>4, ToldStays
    <3>6. runs'[r].item[y] = old
      BY <1>14, <2>2, <3>1, <3>4
    <3> QED
      BY <3>5, <3>6
  <2> QED
    BY <1>11, <1>14, <2>1, <2>2 DEF ItemsTold
<1>17. OwnedIsKnown(r)'
  <2> SUFFICES ASSUME NEW v \in Version, NEW p \in Profile,
                      alignment'[<<v, p>>].owner = r, alignment'[<<v, p>>].status = "running"
               PROVE  \/ \E j \in Pending(r)' : Key(r, worker[r].jobs[j]) = <<v, p>>
                      \/ /\ v[1] \in NotedIds(r) /\ runs'[r].item[v[1]].outcome = "failed"
                         /\ \A j \in Pending(r)' : worker[r].jobs[j].id # v[1]
    BY <1>5, <1>11 DEF OwnedIsKnown, Key
  <2>1. /\ in(r, "import") => <<v, p>> # Key(r, job(r))
        /\ alignment[<<v, p>>].owner = r /\ alignment[<<v, p>>].status = "running"
    <3>1. CASE in(r, "import")
      <4>1. <<v, p>> # Key(r, job(r))
        BY <1>3, <3>1 DEF Settled
      <4>2. ~Taken(r, Key(r, entry(r)))
        BY <1>6, <3>1 DEF Taken, in
      <4>3. Kept(<<v, p>>)
        BY <1>3, <4>1, <4>2 DEF RowsChange
      <4> QED
        BY <4>1, <4>3 DEF Kept
    <3>2. CASE in(r, "fail")
      <4>1. Kept(<<v, p>>)
        BY <1>3, <3>2
      <4> QED
        BY <3>2, <4>1 DEF Kept, in
    <3> QED
      BY <1>2, <3>1, <3>2
  <2>2. \/ \E j \in Pending(r) : Key(r, worker[r].jobs[j]) = <<v, p>>
        \/ /\ v[1] \in NotedIds(r) /\ runs[r].item[v[1]].outcome = "failed"
           /\ \A j \in Pending(r) : worker[r].jobs[j].id # v[1]
    <3>1. Running(r)
      BY <1>6 DEF Running
    <3> QED
      BY <1>1, <2>1, <3>1 DEF ReportOf, OwnedIsKnown
  <2>3. CASE \E j \in Pending(r) : Key(r, worker[r].jobs[j]) = <<v, p>>
    <3>1. PICK j \in Pending(r) : Key(r, worker[r].jobs[j]) = <<v, p>>
      BY <2>3
    <3>2. CASE in(r, "import")
      BY <1>8, <1>10, <2>1, <3>1, <3>2
    <3>3. CASE in(r, "fail")
      <4>1. j # worker[r].next
        BY <1>1, <1>10, <3>1, <3>3 DEF Unanswered
      <4> QED
        BY <1>8, <3>1, <4>1
    <3> QED
      BY <1>2, <3>2, <3>3
  <2>4. CASE /\ v[1] \in NotedIds(r) /\ runs[r].item[v[1]].outcome = "failed"
             /\ \A j \in Pending(r) : worker[r].jobs[j].id # v[1]
    <3>1. v[1] \in Recording
      BY <1>1, <2>4, NotedIsTyped
    <3>2. v[1] = x => item.outcome = "failed"
      <4>1. in(r, "import") => v[1] # x
        BY <1>9, <1>10, <2>4
      <4> QED
        BY <1>13, <4>1
    <3> QED
      BY <1>12, <1>14, <2>4, <3>1, <3>2
  <2> QED
    BY <2>2, <2>3, <2>4
<1> QED
  BY <1>15, <1>16, <1>17 DEF ReportOf

\* A run that ends in order has noted every entry; one that dies says nothing.
LEMMA EndReports ==
  ASSUME ReportInv, Typed', Grown, NEW r \in Run,
         CompleteAllSkipped(r) \/ FinishRun(r) \/ Crash(r)
  PROVE  ReportOf(r)'
<1>1. /\ Typed /\ TypeOK /\ Shape(r) /\ ReportOf(r)
      /\ runs \in [Run -> [status : {"none", "running", "complete", "partial", "failed", "pruned"},
                           item : [Recording -> Item]]]
  BY DEF ReportInv, RowInv, Typed, TypeOK, StoreTypeOK
<1>2. alignment' = alignment
  BY Zenon DEF CompleteAllSkipped, FinishRun, Crash, storeVars
<1>3. ASSUME NEW place \in {"done", "crashed"}, leave(r, place)
      PROVE  /\ worker'[r].at = place /\ worker'[r].entries = worker[r].entries
             /\ OwnsNothingYet(r)' /\ Existed(r)' /\ ~in(r, "note")' /\ Pending(r)' = {}
             /\ ~Running(r)' /\ ~HasRow(r)'
  <2>1. worker'[r].at = place /\ worker'[r].entries = worker[r].entries /\ worker'[r].known = {}
    BY <1>1, <1>3, LeaveEffect DEF Same, Idle
  <2>2. OwnsNothingYet(r)' /\ Existed(r)' /\ ~in(r, "note")' /\ ~Running(r)' /\ ~HasRow(r)'
    BY <2>1 DEF OwnsNothingYet, Existed, in, Before, Running, HasRow
  <2>3. Pending(r)' = {}
    BY <2>1 DEF Pending, in, Loop
  <2> QED
    BY <2>1, <2>2, <2>3
<1>4. CASE Crash(r)
  <2>1. Running(r) /\ leave(r, "crashed") /\ runs' = runs
    BY <1>4 DEF Crash, storeVars
  <2>2. worker'[r].at = "crashed" /\ OwnsNothingYet(r)' /\ Existed(r)' /\ ~in(r, "note")' /\ ~Running(r)'
    BY <1>3, <2>1
  <2>3. RowFollows(r)'
    <3>1. runs[r].status \in {"none", "running"}
      BY <1>1, <2>1 DEF ReportOf, RowFollows, HasRow, Running
    <3> QED
      BY <2>1, <2>2, <3>1 DEF RowFollows, HasRow, Running, in
  <2>4. Noted(r)' = {}
    BY <2>2 DEF Noted, in, Loop, Back
  <2>5. ItemsTold(r)' /\ OwnedIsKnown(r)'
    BY <2>2, <2>4 DEF ItemsTold, NotedIds, OwnedIsKnown, in
  <2> QED
    BY <2>2, <2>3, <2>5 DEF ReportOf
<1>5. CASE CompleteAllSkipped(r)
  <2>1. in(r, "skip") /\ SkipAllTx(r, Ids(r)) /\ leave(r, "done")
    BY <1>5 DEF CompleteAllSkipped
  <2>2. /\ worker'[r].at = "done" /\ OwnsNothingYet(r)' /\ Existed(r)' /\ ~in(r, "note")'
        /\ Pending(r)' = {} /\ ~HasRow(r)' /\ worker'[r].entries = worker[r].entries
    BY <1>3, <2>1
  <2>3. /\ runs'[r].status = "complete"
        /\ \A x \in Ids(r) : runs'[r].item[x] = [outcome |-> "skipped", content |-> None]
    <3>1. Ids(r) \subseteq Recording
      BY <1>1, NotedIsTyped
    <3> QED
      BY <1>1, <2>1, <3>1 DEF SkipAllTx
  <2>4. RowFollows(r)'
    BY <2>2, <2>3 DEF RowFollows, in
  <2>5. NotedIds(r)' = Ids(r)
    BY <2>2, <2>3 DEF NotedIds, Noted, Ids, in, Loop, Back
  <2>6. ItemsTold(r)'
    <3>1. \A x \in Ids(r) : x \in Recording /\ current[x] # None
      BY <1>1, <2>1, NotedIsTyped DEF ReportOf, Existed
    <3>2. \A x \in Ids(r) : current'[x] # None
      BY <3>1 DEF Grown
    <3> QED
      BY <2>2, <2>3, <2>5, <3>2 DEF ItemsTold, Told
  <2>7. OwnedIsKnown(r)'
    <3>1. \A k \in Version \X Profile : alignment[k].owner # r
      BY <1>1, <2>1 DEF ReportOf, OwnsNothingYet, in, Before
    <3>2. \A v \in Version, p \in Profile : <<v, p>> \in Version \X Profile
      OBVIOUS
    <3> QED
      BY <1>2, <3>1, <3>2 DEF OwnedIsKnown
  <2> QED
    BY <2>2, <2>4, <2>6, <2>7 DEF ReportOf
<1>6. CASE FinishRun(r)
  <2>1. in(r, "finish") /\ runs' = [runs EXCEPT ![r].status = RunStatus(r)] /\ leave(r, "done")
    BY <1>6 DEF FinishRun, FinishRunTx
  <2>2. /\ worker'[r].at = "done" /\ OwnsNothingYet(r)' /\ Existed(r)' /\ ~in(r, "note")'
        /\ Pending(r)' = {} /\ ~HasRow(r)' /\ worker'[r].entries = worker[r].entries
    BY <1>3, <2>1
  <2>3. RunStatus(r) \in {"complete", "partial", "failed"}
    BY DEF RunStatus
  <2>4. runs'[r].status \in {"complete", "partial", "failed"} /\ runs'[r].item = runs[r].item
    BY <1>1, <2>1, <2>3
  <2>5. RowFollows(r)'
    BY <2>2, <2>4 DEF RowFollows, in
  <2>6. NotedIds(r)' = NotedIds(r) /\ Pending(r) = {}
    BY <2>1, <2>2, <2>4 DEF NotedIds, Noted, Pending, in, Loop, Back
  <2>7. ItemsTold(r)'
    <3>1. ASSUME NEW y \in NotedIds(r) PROVE Told(r, y, runs[r].item[y])'
      <4>1. y \in Recording /\ runs[r].item[y] \in Item
        BY <1>1, NotedIsTyped
      <4>2. Told(r, y, runs[r].item[y]) /\ runs[r].item[y].content \in Content \cup {None}
        BY <1>1, <4>1 DEF ReportOf, ItemsTold, Item, NoItem
      <4>3. runs[r].item[y].outcome # "version-created"
        BY <2>6, <4>2 DEF Told
      <4>4. PICK old \in Item : old = runs[r].item[y]
        BY <4>1
      <4>5. Told(r, y, old)'
        BY <1>1, <4>1, <4>2, <4>3, <4>4, ToldStays
      <4>6. runs'[r].item[y] = old
        BY <2>4, <4>4
      <4> QED
        BY <4>5, <4>6
    <3> QED
      BY <2>2, <2>6, <3>1 DEF ItemsTold
  <2>8. OwnedIsKnown(r)'
    <3>1. Running(r)
      BY <2>1 DEF Running, in
    <3>2. \A v \in Version, p \in Profile :
            alignment[<<v, p>>].owner = r /\ alignment[<<v, p>>].status = "running" =>
              v[1] \in NotedIds(r) /\ runs[r].item[v[1]].outcome = "failed"
      BY <1>1, <2>6, <3>1 DEF ReportOf, OwnedIsKnown
    <3> QED
      BY <1>2, <2>2, <2>4, <2>6, <3>2 DEF OwnedIsKnown
  <2> QED
    BY <2>2, <2>5, <2>7, <2>8 DEF ReportOf
<1> QED
  BY <1>4, <1>5, <1>6

LEMMA ReportInvInit == Init => ReportInv
<1> SUFFICES ASSUME Init PROVE ReportInv
  OBVIOUS
<1>1. \A r \in Run : worker[r] = Idle /\ runs[r].status = "none"
  BY DEF Init, StoreInit
<1>2. \A k \in Version \X Profile : alignment[k].owner = None
  BY DEF Init, StoreInit, NoAlignment
<1>3. ASSUME NEW r \in Run PROVE ReportOf(r)
  <2>1. worker[r].at = "idle" /\ worker[r].known = {} /\ worker[r].entries = <<>>
    BY <1>1 DEF Idle
  <2>2. RowFollows(r)
    BY <1>1, <2>1 DEF RowFollows, HasRow, Running, in
  <2>3. OwnsNothingYet(r)
    BY <1>2, NoneAssumption DEF OwnsNothingYet
  <2>4. Existed(r) /\ OwnedIsKnown(r)
    BY <2>1 DEF Existed, in, OwnedIsKnown, Running
  <2>5. ItemsTold(r)
    BY <2>1 DEF ItemsTold, NotedIds, Noted, in, Loop, Back
  <2> QED
    BY <2>2, <2>3, <2>4, <2>5 DEF ReportOf
<1> QED
  BY <1>3, RowInvInit DEF ReportInv

\* A run whose row is pruned has ended, and nothing is said of it any more.
LEMMA PruneReports ==
  ASSUME ReportInv, PruneRuns
  PROVE  \A r \in Run : ReportOf(r)'
<1>1. Typed /\ \A r \in Run : ReportOf(r)
  BY DEF ReportInv, RowInv
<1>2. worker' = worker /\ alignment' = alignment /\ current' = current /\ versions' = versions
  BY DEF PruneRuns
<1>3. Grown /\ \A r \in Run : NothingNew(r)
  BY <1>2 DEF Grown, NothingNew
<1>4. PICK gone : PruneTx(gone) /\ \A r \in gone : runs[r].status \in {"complete", "partial", "failed"}
  BY DEF PruneRuns, Prunable, EndedRuns
<1> SUFFICES ASSUME NEW r \in Run PROVE ReportOf(r)'
  OBVIOUS
<1>5. CASE r \notin gone
  <2>1. runs'[r] = runs[r]
    BY <1>4, <1>5 DEF PruneTx
  <2> QED
    BY <1>1, <1>2, <1>3, <2>1, ReportCarry
<1>6. CASE r \in gone
  <2>1. runs'[r].status = "pruned" /\ runs[r].status \in {"complete", "partial", "failed"}
    BY <1>4, <1>6 DEF PruneTx
  <2>2. worker[r].at = "done"
    <3>1. worker[r].at \in Places /\ RowFollows(r)
      BY <1>1 DEF ReportOf, Typed, TypeOK, WorkerState
    <3> QED
      BY <2>1, <3>1 DEF RowFollows, HasRow, Running, in, Places
  <2>3. RowFollows(r)' /\ OwnsNothingYet(r)' /\ OwnedIsKnown(r)'
    BY <1>2, <2>1, <2>2 DEF RowFollows, OwnsNothingYet, OwnedIsKnown, HasRow, Running, in, Before
  <2>4. Existed(r)'
    BY <1>1, <1>2 DEF ReportOf, Existed, Ids, in
  <2>5. ItemsTold(r)'
    BY <1>2, <2>1, <2>2 DEF ItemsTold, NotedIds, Noted, in, Loop, Back
  <2> QED
    BY <2>3, <2>4, <2>5 DEF ReportOf
<1> QED
  BY <1>5, <1>6

LEMMA ReportInvStep == ReportInv /\ [Next]_vars => ReportInv'
<1> SUFFICES ASSUME ReportInv, [Next]_vars PROVE ReportInv'
  OBVIOUS
<1>1. RowInv /\ Typed /\ TypeOK /\ \A s \in Run : ReportOf(s)
  BY DEF ReportInv, RowInv, Typed
<1>2. RowInv' /\ Typed'
  BY <1>1, RowInvStep DEF RowInv
<1>3. ASSUME NEW r \in Run, Work(r) \/ Crash(r) PROVE \A s \in Run : ReportOf(s)'
  <2>1. Grown /\ \A s \in Run : s # r => NothingNew(s)
    BY <1>1, <1>3, RunsGrow
  <2>2. \A s \in Run : s # r => worker'[s] = worker[s] /\ runs'[s] = runs[s]
    BY <1>1, <1>3, OthersStay, RunsOfOthers
  <2>3. \A s \in Run : s # r => ReportOf(s)'
    BY <1>1, <2>1, <2>2, ReportCarry
  <2>4. ReportOf(r)'
    BY <1>2, <1>3, <2>1, BeforeReports, NotingReports, IngestReports, ClaimReports, AlignReports,
       ImportReports, EndReports DEF Work
  <2> QED
    BY <2>3, <2>4
<1>4. ASSUME NEW r \in Run, NEW d \in Documents, NEW overwrite \in BOOLEAN, NEW p \in Profile,
             NEW continues \in ContinueOnError, Request(r, d, overwrite, p, continues)
      PROVE  \A s \in Run : ReportOf(s)'
  <2>1. UNCHANGED storeVars
    BY <1>1, <1>4, RequestEffect
  <2>2. Grown /\ \A s \in Run : NothingNew(s) /\ runs'[s] = runs[s]
    BY <2>1 DEF Grown, NothingNew, storeVars
  <2>3. \A s \in Run : s # r => worker'[s] = worker[s]
    BY <1>1, <1>4, OthersStay
  <2>4. ReportOf(r)'
    BY <1>2, <1>4, RequestReports
  <2> QED
    BY <1>1, <2>2, <2>3, <2>4, ReportCarry
<1>5. ASSUME LeaseExpires \/ UNCHANGED vars PROVE \A s \in Run : ReportOf(s)'
  <2>1. /\ worker' = worker /\ runs' = runs /\ versions' = versions /\ current' = current
    BY <1>5 DEF LeaseExpires, vars, storeVars
  <2>2. \A k \in Version \X Profile : Kept(k)
    BY <1>1, <1>5, OutsideKeepsRows
  <2>3. Grown /\ \A s \in Run : NothingNew(s)
    BY <2>1, <2>2 DEF Grown, NothingNew, Kept
  <2> QED
    BY <1>1, <2>1, <2>3, ReportCarry
<1>6. \A s \in Run : ReportOf(s)'
  BY <1>3, <1>4, <1>5, PruneReports DEF Next
<1> QED
  BY <1>2, <1>6 DEF ReportInv

-----------------------------------------------------------------------------
\* The answer: what a run completed is noted as processed, unless the run was not
\* told; and none of it is the row of a job still ahead.
Late == {"import", "fail", "finish", "done", "crashed"}
Owns(r, k, status) == alignment[k].owner = r /\ alignment[k].status = status
Answered(r) == \A k \in Version \X Profile : Owns(r, k, "complete") =>
  /\ worker[r].at \in Late
  /\ \A j \in Pending(r) : worker[r].jobs[j].id # k[1][1]
  /\ Running(r) \/ (in(r, "done") /\ runs[r].status # "pruned") =>
       runs[r].item[k[1][1]].outcome = "processed" \/ k[1][1] \in worker[r].unheard
AnswerInv == ReportInv /\ \A r \in Run : Answered(r)

\* Who stands still is as well answered as before.
LEMMA AnsweredCarry ==
  ASSUME NEW s \in Run, Answered(s), worker'[s] = worker[s],
         runs'[s] = runs[s] \/ (in(s, "done") /\ runs'[s].status = "pruned"),
         \A k \in Version \X Profile : Owns(s, k, "complete")' => Owns(s, k, "complete")
  PROVE  Answered(s)'
<1>1. /\ Pending(s)' = Pending(s) /\ Running(s)' = Running(s) /\ in(s, "done")' = in(s, "done")
      /\ in(s, "done") => ~Running(s)
  BY DEF Pending, Running, in
<1> SUFFICES ASSUME NEW k \in Version \X Profile, Owns(s, k, "complete")'
             PROVE  /\ worker'[s].at \in Late
                    /\ \A j \in Pending(s)' : worker'[s].jobs[j].id # k[1][1]
                    /\ Running(s)' \/ (in(s, "done")' /\ runs'[s].status # "pruned") =>
                         runs'[s].item[k[1][1]].outcome = "processed" \/ k[1][1] \in worker'[s].unheard
  BY DEF Answered
<1>2. Owns(s, k, "complete")
  OBVIOUS
<1> QED
  BY <1>1, <1>2 DEF Answered

\* Before its imports a run completes nothing.
LEMMA AnsweredEarly ==
  ASSUME RowInv, NEW r \in Run, Work(r) \/ Crash(r), Answered(r), worker[r].at \notin Late
  PROVE  Answered(r)'
<1>1. RowsChange(r)
  BY RunsChangeRows
<1>2. ASSUME NEW k \in Version \X Profile PROVE ~Owns(r, k, "complete")'
  <2>1. ~Owns(r, k, "complete") /\ ~in(r, "import")
    BY DEF Answered, Late, in
  <2>2. Kept(k) \/ Taken(r, k)
    BY <1>1, <2>1 DEF RowsChange, Settled
  <2> QED
    BY <2>1, <2>2 DEF Owns, Kept, Taken
<1> QED
  BY <1>2 DEF Answered

LEMMA AnsweredImport ==
  ASSUME ReportInv, NEW r \in Run, ImportJob(r) \/ FailJob(r), Answered(r)
  PROVE  Answered(r)'
<1>1. /\ Typed /\ TypeOK /\ Shape(r) /\ RowInv /\ JobsHold(r) /\ Unanswered(r)
      /\ runs \in [Run -> [status : {"none", "running", "complete", "partial", "failed", "pruned"},
                           item : [Recording -> Item]]]
  BY DEF ReportInv, RowInv, Typed, TypeOK, StoreTypeOK
<1>2. /\ worker'[r].at \in {"import", "fail", "finish"} /\ worker'[r].jobs = worker[r].jobs
      /\ worker[r].at \in {"import", "fail"}
      /\ worker[r].unheard \subseteq worker'[r].unheard
  BY <1>1, JobEffect DEF Same, in
<1>3. Pending(r)' = Pending(r) \ {worker[r].next}
  BY <1>1, PendingShrinks
<1>4. PICK x \in Recording : x = job(r).id
  BY <1>1, <1>2, JobIsTyped DEF in
<1>5. \A j \in Pending(r)' : worker[r].jobs[j].id # x
  <2>1. CASE in(r, "import")
    <3>1. worker[r].next \in Pending(r) /\ job(r) = worker[r].jobs[worker[r].next]
      BY <1>1, <2>1 DEF Pending, Shape, job, Loop, Back, in, TypeOK, WorkerState
    <3> QED
      BY <1>1, <1>3, <1>4, <3>1 DEF JobsHold
  <2>2. CASE in(r, "fail")
    BY <1>1, <1>3, <1>4, <2>2 DEF Unanswered
  <2> QED
    BY <1>2, <2>1, <2>2 DEF in
<1>6. ASSUME NEW k \in Version \X Profile, Owns(r, k, "complete")
      PROVE  /\ \A j \in Pending(r) : worker[r].jobs[j].id # k[1][1]
             /\ runs[r].item[k[1][1]].outcome = "processed" \/ k[1][1] \in worker[r].unheard
  <2>1. Running(r)
    BY <1>2 DEF Running
  <2> QED
    BY <1>6, <2>1 DEF Answered
<1>7. RowsChange(r)
  BY <1>1, RunsChangeRows DEF Work
<1>8. \A k \in Version \X Profile : k[1][1] \in Recording
  BY DEF Version
\* What was complete before is not of the entry at hand, or the run was not told of it.
<1>9. ASSUME NEW k \in Version \X Profile, Owns(r, k, "complete"),
             \A y \in Recording : y # x => runs'[r].item[y] = runs[r].item[y]
      PROVE  runs'[r].item[k[1][1]].outcome = "processed" \/ k[1][1] \in worker'[r].unheard
  <2>1. CASE in(r, "import")
    <3>1. worker[r].next \in Pending(r) /\ job(r) = worker[r].jobs[worker[r].next]
      BY <1>1, <2>1 DEF Pending, Shape, job, Loop, Back, in, TypeOK, WorkerState
    <3>2. k[1][1] # x
      BY <1>4, <1>6, <1>9, <3>1
    <3> QED
      BY <1>2, <1>6, <1>8, <1>9, <3>2
  <2>2. CASE in(r, "fail")
    <3>1. x \in worker[r].unheard
      BY <1>1, <1>4, <2>2 DEF Unanswered
    <3> QED
      BY <1>2, <1>6, <1>8, <1>9, <3>1
  <2> QED
    BY <1>2, <2>1, <2>2 DEF in
<1>10. \A outcome, content :
         SaveItemTx(r, x, outcome, content) =>
           /\ \A y \in Recording : y # x => runs'[r].item[y] = runs[r].item[y]
           /\ runs'[r].item[x].outcome = outcome
  BY <1>1 DEF SaveItemTx
<1>11. CASE ImportJob(r)
  <2>1. /\ in(r, "import") /\ CompleteTx(Key(r, job(r)))
        /\ SaveItemTx(r, x, "processed", runs[r].item[x].content)
    BY <1>4, <1>11 DEF ImportJob
  <2>2. Settled(r, Key(r, job(r)), "complete")
    BY <1>1, <2>1, ImportChanges
  <2>3. Key(r, job(r))[1][1] = x
    BY <1>4 DEF Key
  <2>4. ASSUME NEW k \in Version \X Profile, Owns(r, k, "complete")'
        PROVE  /\ \A j \in Pending(r)' : worker[r].jobs[j].id # k[1][1]
               /\ runs'[r].item[k[1][1]].outcome = "processed" \/ k[1][1] \in worker'[r].unheard
    <3>1. CASE k = Key(r, job(r))
      BY <1>5, <1>10, <2>1, <2>3, <3>1
    <3>2. CASE k # Key(r, job(r))
      <4>1. Kept(k)
        <5>1. ~Taken(r, Key(r, entry(r)))
          BY <2>1 DEF Taken, in
        <5> QED
          BY <1>7, <3>2, <5>1 DEF RowsChange
      <4>2. Owns(r, k, "complete")
        BY <2>4, <4>1 DEF Owns, Kept
      <4> QED
        BY <1>3, <1>6, <1>9, <1>10, <2>1, <4>2
    <3> QED
      BY <3>1, <3>2
  <2> QED
    BY <1>2, <2>4 DEF Answered, Late
<1>12. CASE FailJob(r)
  <2>1. /\ FailTx(Key(r, job(r))) /\ published' = published
        /\ SaveItemTx(r, x, "failed", runs[r].item[x].content)
    BY <1>4, <1>12 DEF FailJob
  <2>2. ASSUME NEW k \in Version \X Profile, Owns(r, k, "complete")' PROVE Owns(r, k, "complete")
    <3>1. CASE in(r, "import")
      <4>1. Settled(r, Key(r, job(r)), "failed")
        <5>1. PICK status \in {"complete", "failed"} : Settled(r, Key(r, job(r)), status)
          BY <1>1, <2>1, <3>1, ImportChanges
        <5>2. PICK key \in Version \X Profile : key = Key(r, job(r))
          BY <1>1, <3>1, JobIsTyped
        <5>3. alignment'[key].status = "failed"
          <6>1. alignment[key].status = "running" /\ alignment[key] \in Row
            BY <1>1, <5>1, <5>2 DEF Settled, TypeOK, StoreTypeOK, Row
          <6>2. alignment' = [alignment EXCEPT
                   ![key].status = IF @ = "running" THEN "failed" ELSE @,
                   ![key].leased = IF alignment[key].status = "running" THEN FALSE ELSE @]
            BY <2>1, <5>2 DEF FailTx
          <6> QED
            BY <1>1, <6>1, <6>2 DEF TypeOK, StoreTypeOK, Row
        <5> QED
          BY <5>1, <5>2, <5>3 DEF Settled
      <4>2. k # Key(r, job(r)) /\ ~Taken(r, Key(r, entry(r)))
        BY <2>2, <3>1, <4>1 DEF Settled, Owns, Taken, in
      <4>3. Kept(k)
        BY <1>7, <4>2 DEF RowsChange
      <4> QED
        BY <2>2, <4>3 DEF Owns, Kept
    <3>2. CASE in(r, "fail")
      <4>1. Kept(k)
        BY <1>1, <2>1, <3>2, FailingKeepsRows
      <4> QED
        BY <2>2, <4>1 DEF Owns, Kept
    <3> QED
      BY <1>2, <3>1, <3>2 DEF in
  <2>3. ASSUME NEW k \in Version \X Profile, Owns(r, k, "complete")'
        PROVE  /\ \A j \in Pending(r)' : worker[r].jobs[j].id # k[1][1]
               /\ runs'[r].item[k[1][1]].outcome = "processed" \/ k[1][1] \in worker'[r].unheard
    <3>1. Owns(r, k, "complete")
      BY <2>2, <2>3
    <3> QED
      BY <1>3, <1>6, <1>9, <1>10, <2>1, <3>1
  <2> QED
    BY <1>2, <2>3 DEF Answered, Late
<1> QED
  BY <1>11, <1>12

LEMMA AnsweredEnd ==
  ASSUME ReportInv, NEW r \in Run, FinishRun(r) \/ Crash(r), Answered(r), worker[r].at \in Late
  PROVE  Answered(r)'
<1>1. /\ Typed /\ TypeOK
      /\ runs \in [Run -> [status : {"none", "running", "complete", "partial", "failed", "pruned"},
                           item : [Recording -> Item]]]
  BY DEF ReportInv, RowInv, Typed, TypeOK, StoreTypeOK
<1>2. alignment' = alignment /\ runs'[r].item = runs[r].item /\ Running(r)
  <2>1. CASE Crash(r)
    BY <2>1 DEF Crash, storeVars
  <2>2. CASE FinishRun(r)
    BY <1>1, <2>2 DEF FinishRun, FinishRunTx, Running, in
  <2> QED
    BY <2>1, <2>2
<1>3. worker'[r].at \in {"done", "crashed"} /\ worker'[r].unheard = worker[r].unheard
  <2>1. \E place \in {"done", "crashed"} : leave(r, place)
    BY Zenon DEF FinishRun, Crash
  <2> QED
    BY <1>1, <2>1, LeaveEffect
<1>4. Pending(r)' = {}
  BY <1>3 DEF Pending, in, Loop
<1> QED
  BY <1>2, <1>3, <1>4 DEF Answered, Owns, Late

LEMMA AnswerInvInit == Init => AnswerInv
<1> SUFFICES ASSUME Init PROVE AnswerInv
  OBVIOUS
<1>1. \A k \in Version \X Profile : alignment[k].owner = None
  BY DEF Init, StoreInit, NoAlignment
<1>2. \A r \in Run : Answered(r)
  BY <1>1, NoneAssumption DEF Answered, Owns
<1> QED
  BY <1>2, ReportInvInit DEF AnswerInv

LEMMA AnswerInvStep == AnswerInv /\ [Next]_vars => AnswerInv'
<1> SUFFICES ASSUME AnswerInv, [Next]_vars PROVE AnswerInv'
  OBVIOUS
<1>1. /\ ReportInv /\ RowInv /\ Typed /\ TypeOK
      /\ \A s \in Run : Answered(s) /\ ReportOf(s)
  BY DEF AnswerInv, ReportInv, RowInv, Typed
<1>2. ReportInv'
  BY <1>1, ReportInvStep
<1>3. ASSUME NEW r \in Run, Work(r) \/ Crash(r) PROVE \A s \in Run : Answered(s)'
  <2>1. RowsChange(r)
    BY <1>1, <1>3, RunsChangeRows
  <2>2. ASSUME NEW s \in Run, s # r PROVE Answered(s)'
    <3>1. worker'[s] = worker[s] /\ runs'[s] = runs[s]
      BY <1>1, <1>3, <2>2, OthersStay, RunsOfOthers
    <3>2. \A k \in Version \X Profile : Owns(s, k, "complete")' => Owns(s, k, "complete")
      BY <2>1, <2>2 DEF RowsChange, Owns, Kept, Taken, Settled
    <3> QED
      BY <1>1, <3>1, <3>2, AnsweredCarry
  <2>3. CASE worker[r].at \notin Late
    BY <1>1, <1>3, <2>2, <2>3, AnsweredEarly
  <2>4. CASE worker[r].at \in Late
    <3>1. ImportJob(r) \/ FailJob(r) \/ FinishRun(r) \/ Crash(r)
      BY <1>3, <2>4 DEF Late, Work, CheckExisting, CompleteAllSkipped, Doctor, StartRun, Prepare,
         UploadStep, AwaitUploads, SkipEntry, Ingest, Claim, Note, FailEntry, Attempted, Align, in
    <3> QED
      BY <1>1, <2>2, <2>4, <3>1, AnsweredImport, AnsweredEnd
  <2> QED
    BY <2>3, <2>4
<1>4. ASSUME NEW r \in Run, NEW d \in Documents, NEW overwrite \in BOOLEAN, NEW p \in Profile,
             NEW continues \in ContinueOnError, Request(r, d, overwrite, p, continues)
      PROVE  \A s \in Run : Answered(s)'
  <2>1. UNCHANGED storeVars /\ in(r, "idle")
    BY <1>4, Zenon DEF Request
  <2>2. /\ \A s \in Run : runs'[s] = runs[s]
        /\ \A s \in Run, k \in Version \X Profile : Owns(s, k, "complete")' => Owns(s, k, "complete")
    BY <2>1 DEF storeVars, Owns
  <2>3. \A s \in Run : s # r => worker'[s] = worker[s]
    BY <1>1, <1>4, OthersStay
  <2>4. Answered(r)'
    <3>1. \A k \in Version \X Profile : alignment[k].owner # r
      BY <1>1, <2>1 DEF ReportOf, OwnsNothingYet, in, Before
    <3> QED
      BY <2>2, <3>1 DEF Answered, Owns
  <2> QED
    BY <1>1, <2>2, <2>3, <2>4, AnsweredCarry
<1>5. ASSUME LeaseExpires \/ PruneRuns \/ UNCHANGED vars PROVE \A s \in Run : Answered(s)'
  <2>1. worker' = worker /\ \A k \in Version \X Profile : Kept(k)
    BY <1>1, <1>5, OutsideKeepsRows DEF LeaseExpires, PruneRuns, vars
  <2>2. \A s \in Run, k \in Version \X Profile : Owns(s, k, "complete")' => Owns(s, k, "complete")
    BY <2>1 DEF Owns, Kept
  <2>3. ASSUME NEW s \in Run
        PROVE  runs'[s] = runs[s] \/ (in(s, "done") /\ runs'[s].status = "pruned")
    <3>1. CASE runs' = runs
      BY <3>1
    <3>2. CASE PruneRuns
      <4>1. PICK gone : /\ PruneTx(gone)
                        /\ \A t \in gone : runs[t].status \in {"complete", "partial", "failed"}
        BY <3>2 DEF PruneRuns, Prunable, EndedRuns
      <4>2. s \in gone => in(s, "done")
        <5>1. worker[s].at \in Places /\ RowFollows(s)
          BY <1>1 DEF ReportOf, TypeOK, WorkerState
        <5> QED
          BY <4>1, <5>1 DEF RowFollows, HasRow, Running, in, Places
      <4> QED
        BY <4>1, <4>2 DEF PruneTx
    <3> QED
      BY <1>5, <3>1, <3>2 DEF LeaseExpires, vars, storeVars
  <2> QED
    BY <1>1, <2>1, <2>2, <2>3, AnsweredCarry
<1>6. \A s \in Run : Answered(s)'
  BY <1>3, <1>4, <1>5 DEF Next
<1> QED
  BY <1>2, <1>6 DEF AnswerInv

\* A run that ended accounts for every entry, whatever failed: an alignment it
\* lost was reported, and one it completed is reported as processed unless the
\* answer of its import was lost (AlignmentService.process_entries, run_items).
THEOREM ReportsAreTrue == Spec => []ReportIsTrue
<1>1. Spec => []AnswerInv
  BY AnswerInvInit, AnswerInvStep, PTL DEF Spec
<1>2. AnswerInv => ReportIsTrue
  <2> SUFFICES ASSUME AnswerInv, NEW r \in Run, in(r, "done"), runs[r].status # "pruned"
               PROVE  /\ runs[r].status \in {"complete", "partial", "failed"}
                      /\ \A x \in Ids(r) : EntryReported(r, x)
    BY DEF ReportIsTrue
  <2>1. ReportOf(r) /\ Answered(r) /\ Typed
    BY DEF AnswerInv, ReportInv, RowInv
  <2>2. runs[r].status \in {"complete", "partial", "failed"}
    BY <2>1 DEF ReportOf, RowFollows
  <2>3. NotedIds(r) = Ids(r) /\ Pending(r) = {}
    BY DEF NotedIds, Noted, Ids, Pending, in, Loop, Back
  <2>4. ASSUME NEW x \in Ids(r) PROVE EntryReported(r, x)
    <3>1. Told(r, x, runs[r].item[x])
      BY <2>1, <2>3 DEF ReportOf, ItemsTold
    <3>2. runs[r].item[x].outcome # "version-created"
      BY <2>3, <3>1 DEF Told
    <3>3. ASSUME NEW c \in Content, NEW p \in Profile, alignment[<<<<x, c>>, p>>].owner = r
          PROVE  /\ alignment[<<<<x, c>>, p>>].status = "running" => runs[r].item[x].outcome = "failed"
                 /\ alignment[<<<<x, c>>, p>>].status = "complete" =>
                      runs[r].item[x].outcome = "processed" \/ x \in worker[r].unheard
      <4>1. <<x, c>> \in Version /\ <<x, c>>[1] = x
        BY <2>1, NotedIsTyped DEF Version
      <4>2. PICK v \in Version, k \in Version \X Profile : v = <<x, c>> /\ k = <<v, p>> /\ k[1][1] = x
        <5>1. <<<<x, c>>, p>> \in Version \X Profile
          BY <4>1
        <5>2. <<<<x, c>>, p>>[1][1] = x
          OBVIOUS
        <5> QED
          BY <4>1, <5>1, <5>2
      <4>3. alignment[<<<<x, c>>, p>>].status = "running" => runs[r].item[x].outcome = "failed"
        BY <2>1, <2>3, <3>3, <4>1 DEF ReportOf, OwnedIsKnown
      <4>4. alignment[k].status = "complete" =>
              runs[r].item[x].outcome = "processed" \/ x \in worker[r].unheard
        BY <2>1, <3>3, <4>2 DEF Answered, Owns
      <4> QED
        BY <4>2, <4>3, <4>4
    <3> QED
      BY <3>1, <3>2, <3>3 DEF EntryReported, Told
  <2> QED
    BY <2>2, <2>4
<1> QED
  BY <1>1, <1>2, PTL

=============================================================================
