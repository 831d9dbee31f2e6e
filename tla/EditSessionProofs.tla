-------------------------- MODULE EditSessionProofs --------------------------
(***************************************************************************)
(* The invariants of EditSession for any set of annotations, libraries,    *)
(* revisions and any bounds, and the refinement of EditTimeline and of     *)
(* SaveContract.                                                           *)
(*                                                                         *)
(* Good says everything of a single state; an edit of a good state is a    *)
(* good state, and so is what a revision holds.  The rest of the proof     *)
(* moves good states between the session, its stacks and its revisions.    *)
(***************************************************************************)
EXTENDS EditSession, SequenceTheorems, TLAPS

IndexType == UNION {[ids -> Annotation] : ids \in SUBSET Id}

Ids(list) == {list[i].id : i \in DOMAIN list}

Distinct(list) == \A i, j \in DOMAIN list : list[i].id = list[j].id => i = j

Indexes(index, list) ==
  /\ DOMAIN index = Ids(list)
  /\ \A i \in DOMAIN list : index[list[i].id] = list[i]

Fresh(s) == s.validation = ToSet(s.libraries) /\ Indexes(s.index, s.annotations)

Good(s) == s \in State /\ Acceptable(s) /\ Fresh(s)

GoodStates == {s \in State : Good(s)}

AllGood ==
  /\ state \in GoodStates /\ checkpoint \in GoodStates
  /\ undo \in Seq(GoodStates) /\ redo \in Seq(GoodStates)

(* The revisions that the store has or could get. *)
Requested == {r \in Revision : contents[r] \in Snapshot /\ Acceptable(contents[r])}

AllRequested ==
  /\ base \in Requested
  /\ chain \in Seq(Requested) /\ chain # <<>>
  /\ pending \subseteq Requested /\ conflicts \subseteq Requested

(* The state is still the one that the worker has sent. *)
SentIsCurrent ==
  sending # NoRevision =>
    ~closed /\ sending \in Requested /\ contents[sending] = Content(state)

Typed ==
  /\ sync \in {"synced", "pending", "conflict"}
  /\ closed \in BOOLEAN
  /\ sending \in Revision \cup {NoRevision}
  /\ contents \in [Revision -> Snapshot \cup {NoContent}]
  /\ parent \in [Revision -> Revision \cup {NoRevision}]

IInv == Typed /\ AllGood /\ AllRequested /\ SentIsCurrent /\ CheckpointIsBase

-----------------------------------------------------------------------------
(* Good states *)

LEMMA SnapshotIsRecord ==
  ASSUME NEW s \in Snapshot
  PROVE  /\ s = [name |-> s.name, libraries |-> s.libraries, annotations |-> s.annotations]
         /\ s.name \in Name /\ s.libraries \in Seq(Library)
         /\ s.annotations \in Seq(Annotation)
         /\ s # NoContent
BY DEF Snapshot, NoContent

LEMMA ContentOfState ==
  ASSUME NEW s \in State
  PROVE  /\ Content(s) \in Snapshot
         /\ Content(s) # NoContent
         /\ Acceptable(Content(s)) <=> Acceptable(s)
BY DEF State, Snapshot, Content, NoContent, Acceptable

LEMMA IdsOfList ==
  ASSUME NEW list \in Seq(Annotation)
  PROVE  /\ \A i \in DOMAIN list : list[i] \in Annotation
         /\ Ids(list) \in SUBSET Id
<1>1. \A i \in DOMAIN list : list[i] \in Annotation
  BY ElementOfSeq
<1>2. \A a \in Annotation : a.id \in Id
  BY DEF Annotation
<1> QED BY <1>1, <1>2 DEF Ids

(* The index of a list of annotations with different ids finds each of them. *)
LEMMA IndexFinds ==
  ASSUME NEW list \in Seq(Annotation), Distinct(list)
  PROVE  IndexOf(list) \in IndexType /\ Indexes(IndexOf(list), list)
<1>1. Ids(list) \in SUBSET Id /\ \A i \in DOMAIN list : list[i] \in Annotation
  BY IdsOfList
<1>2. DOMAIN IndexOf(list) = Ids(list)
  BY DEF IndexOf, Ids
<1>3. ASSUME NEW i \in DOMAIN list
      PROVE  IndexOf(list)[list[i].id] = list[i]
  <2>1. list[i] \in ToSet(list)
    BY DEF ToSet
  <2>2. \A a \in ToSet(list) : a.id = list[i].id => a = list[i]
    BY DEF ToSet, Distinct
  <2>3. (CHOOSE a \in ToSet(list) : a.id = list[i].id) = list[i]
    BY <2>1, <2>2
  <2> QED BY <2>3 DEF IndexOf
<1>4. IndexOf(list) \in [Ids(list) -> Annotation]
  <2>1. \A d \in Ids(list) : IndexOf(list)[d] \in Annotation
    BY <1>1, <1>3 DEF Ids
  <2>2. IndexOf(list) = [d \in Ids(list) |-> IndexOf(list)[d]]
    BY DEF IndexOf, Ids
  <2> QED BY <2>1, <2>2
<1> QED BY <1>1, <1>2, <1>3, <1>4 DEF Indexes, IndexType

LEMMA StateFromIsGood ==
  ASSUME NEW s \in Snapshot, Acceptable(s)
  PROVE  /\ Good(StateFrom(s, ToSet(s.libraries)))
         /\ Content(StateFrom(s, ToSet(s.libraries))) = s
<1> DEFINE t == StateFrom(s, ToSet(s.libraries))
<1>1. /\ s.name \in Name /\ s.libraries \in Seq(Library) /\ s.annotations \in Seq(Annotation)
      /\ s = [name |-> s.name, libraries |-> s.libraries, annotations |-> s.annotations]
  BY SnapshotIsRecord
<1>2. /\ t.name = s.name /\ t.libraries = s.libraries /\ t.annotations = s.annotations
      /\ t.validation = ToSet(s.libraries) /\ t.index = IndexOf(s.annotations)
  BY DEF StateFrom
<1>3. Distinct(s.annotations)
  BY DEF Acceptable, Distinct
<1>4. IndexOf(s.annotations) \in IndexType /\ Indexes(IndexOf(s.annotations), s.annotations)
  BY <1>1, <1>3, IndexFinds
<1>5. ToSet(s.libraries) \in SUBSET Library
  BY <1>1, ElementOfSeq DEF ToSet
<1>6. t \in State
  BY <1>1, <1>4, <1>5 DEF State, StateFrom, IndexType
<1>7. Acceptable(t) /\ Fresh(t)
  BY <1>2, <1>4 DEF Acceptable, Fresh
<1>8. Content(t) = s
  BY <1>1, <1>2 DEF Content
<1> QED BY <1>6, <1>7, <1>8 DEF Good

LEMMA ValidationIsFresh ==
  ASSUME Good(state), NEW libraries
  PROVE  ValidationFor(libraries) = ToSet(libraries)
BY DEF Good, Fresh, ValidationFor

-----------------------------------------------------------------------------
(* Lists *)

LEMMA Joined ==
  ASSUME NEW S, NEW a \in Seq(S), NEW b \in Seq(S)
  PROVE  /\ a \o b \in Seq(S)
         /\ \A i \in DOMAIN a : i \in DOMAIN (a \o b) /\ (a \o b)[i] = a[i]
         /\ \A i \in DOMAIN b : i + Len(a) \in DOMAIN (a \o b) /\ (a \o b)[i + Len(a)] = b[i]
         /\ \A i \in DOMAIN (a \o b) :
              \/ i \in DOMAIN a /\ (a \o b)[i] = a[i]
              \/ i - Len(a) \in DOMAIN b /\ (a \o b)[i] = b[i - Len(a)]
<1>1. /\ Len(a) \in Nat /\ DOMAIN a = 1..Len(a)
      /\ Len(b) \in Nat /\ DOMAIN b = 1..Len(b)
  OBVIOUS
<1>2. /\ a \o b \in Seq(S) /\ Len(a \o b) = Len(a) + Len(b)
      /\ DOMAIN (a \o b) = 1..(Len(a) + Len(b))
  OBVIOUS
<1>3. \A i \in 1..(Len(a) + Len(b)) :
        (a \o b)[i] = IF i <= Len(a) THEN a[i] ELSE b[i - Len(a)]
  OBVIOUS
<1> QED BY <1>1, <1>2, <1>3

LEMMA Appended ==
  ASSUME NEW S, NEW a \in Seq(S), NEW e \in S
  PROVE  /\ Append(a, e) \in Seq(S)
         /\ DOMAIN Append(a, e) = DOMAIN a \cup {Len(a) + 1}
         /\ Len(a) + 1 \notin DOMAIN a
         /\ \A i \in DOMAIN a : Append(a, e)[i] = a[i]
         /\ Append(a, e)[Len(a) + 1] = e
         /\ ToSet(Append(a, e)) = ToSet(a) \cup {e}
<1>1. Len(a) \in Nat /\ DOMAIN a = 1..Len(a)
  OBVIOUS
<1>2. /\ Append(a, e) \in Seq(S) /\ DOMAIN Append(a, e) = 1..(Len(a) + 1)
      /\ \A i \in 1..Len(a) : Append(a, e)[i] = a[i]
      /\ Append(a, e)[Len(a) + 1] = e
  OBVIOUS
<1>3. ToSet(Append(a, e)) = ToSet(a) \cup {e}
  BY <1>1, <1>2 DEF ToSet
<1> QED BY <1>1, <1>2, <1>3

Extended(r, a, e) ==
  /\ \A i \in DOMAIN r : \/ i \in DOMAIN a /\ r[i] = a[i]
                         \/ i = Len(a) + 1 /\ r[i] = e
  /\ ToSet(r) = ToSet(a) \cup {e}

LEMMA AppendExtends ==
  ASSUME NEW S, NEW a \in Seq(S), NEW e \in S
  PROVE  Append(a, e) \in Seq(S) /\ Extended(Append(a, e), a, e)
<1>1. PICK r : r = Append(a, e)
  OBVIOUS
<1>2. /\ r \in Seq(S) /\ DOMAIN r = DOMAIN a \cup {Len(a) + 1}
      /\ \A i \in DOMAIN a : r[i] = a[i]
      /\ r[Len(a) + 1] = e /\ ToSet(r) = ToSet(a) \cup {e}
  BY <1>1, Appended
<1>3. Extended(r, a, e)
  BY <1>2 DEF Extended
<1> QED BY <1>1, <1>2, <1>3, Zenon

(* What is before and after place k of a, and a without it. *)
Before(b, a, k) == Len(b) = k - 1 /\ \A i \in 1..(k - 1) : b[i] = a[i]
After(c, a, k)  == Len(c) = Len(a) - k /\ \A i \in 1..(Len(a) - k) : c[i] = a[i + k]
Without(r, a, k) ==
  /\ DOMAIN r = 1..(Len(a) - 1)
  /\ \A i \in 1..(Len(a) - 1) : r[i] = IF i < k THEN a[i] ELSE a[i + 1]

LEMMA Shift ==
  ASSUME NEW n \in Nat, NEW k \in 1..n, NEW i \in 1..(n - 1), NEW m, m = k - 1
  PROVE  /\ i < k => i <= m /\ i \in 1..m
         /\ ~(i < k) => ~(i <= m) /\ i - m \in 1..(n - k) /\ (i - m) + k = i + 1
BY SMTT(30)

LEMMA Spliced ==
  ASSUME NEW S, NEW a \in Seq(S), NEW k \in 1..Len(a),
         NEW b \in Seq(S), Before(b, a, k), NEW c \in Seq(S), After(c, a, k)
  PROVE  b \o c \in Seq(S) /\ Without(b \o c, a, k)
<1>1. Len(b) = k - 1 /\ Len(b) + Len(c) = Len(a) - 1 /\ Len(a) \in Nat
  BY DEF Before, After
<1>2. /\ b \o c \in Seq(S) /\ DOMAIN (b \o c) = 1..(Len(b) + Len(c))
      /\ \A i \in 1..(Len(b) + Len(c)) :
           (b \o c)[i] = IF i <= Len(b) THEN b[i] ELSE c[i - Len(b)]
  OBVIOUS
<1>3. ASSUME NEW i \in 1..(Len(a) - 1)
      PROVE  (b \o c)[i] = IF i < k THEN a[i] ELSE a[i + 1]
  <2>1. /\ i < k => i <= Len(b) /\ i \in 1..Len(b)
        /\ ~(i < k) => ~(i <= Len(b)) /\ i - Len(b) \in 1..(Len(a) - k)
                       /\ (i - Len(b)) + k = i + 1
    BY <1>1, Shift
  <2>2. CASE i < k
    BY <1>1, <1>2, <2>1, <2>2 DEF Before
  <2>3. CASE ~(i < k)
    <3>1. c[i - Len(b)] = a[(i - Len(b)) + k]
      BY <2>1, <2>3 DEF After
    <3>2. (b \o c)[i] = c[i - Len(b)]
      BY <1>1, <1>2, <2>1, <2>3
    <3> QED BY <2>1, <2>3, <3>1, <3>2, Zenon
  <2> QED BY <2>2, <2>3
<1> QED BY <1>1, <1>2, <1>3 DEF Without

LEMMA Removed ==
  ASSUME NEW S, NEW a \in Seq(S), NEW k \in DOMAIN a
  PROVE  /\ RemoveAt(a, k) \in Seq(S)
         /\ \A i \in DOMAIN RemoveAt(a, k) :
              /\ i \in DOMAIN a /\ i + 1 \in DOMAIN a
              /\ i < k => RemoveAt(a, k)[i] = a[i]
              /\ i >= k => RemoveAt(a, k)[i] = a[i + 1]
         /\ \A i \in DOMAIN a : i < k => i \in DOMAIN RemoveAt(a, k)
         /\ \A i \in DOMAIN a : i > k => i - 1 \in DOMAIN RemoveAt(a, k)
<1>1. /\ Len(a) \in Nat /\ DOMAIN a = 1..Len(a) /\ k \in 1..Len(a)
  OBVIOUS
<1>2. SubSeq(a, 1, k - 1) \in Seq(S) /\ Before(SubSeq(a, 1, k - 1), a, k)
  BY <1>1, SubSeqProperties DEF Before
<1>3. SubSeq(a, k + 1, Len(a)) \in Seq(S) /\ After(SubSeq(a, k + 1, Len(a)), a, k)
  BY <1>1, SubSeqProperties DEF After
<1>4. RemoveAt(a, k) = SubSeq(a, 1, k - 1) \o SubSeq(a, k + 1, Len(a))
  BY DEF RemoveAt
<1>5. RemoveAt(a, k) \in Seq(S) /\ Without(RemoveAt(a, k), a, k)
  <2>1. PICK b \in Seq(S) : b = SubSeq(a, 1, k - 1) /\ Before(b, a, k)
    BY <1>2, Zenon
  <2>2. PICK c \in Seq(S) : c = SubSeq(a, k + 1, Len(a)) /\ After(c, a, k)
    BY <1>3, Zenon
  <2>3. RemoveAt(a, k) = b \o c
    BY <1>4, <2>1, <2>2, Zenon
  <2>4. Before(b, a, k) /\ After(c, a, k)
    BY <2>1, <2>2, Zenon
  <2>5. b \o c \in Seq(S) /\ Without(b \o c, a, k)
    BY <1>1, <2>4, Spliced
  <2> QED BY <2>3, <2>5, Zenon
<1>6. ASSUME NEW r, Without(r, a, k)
      PROVE  /\ \A i \in DOMAIN r :
                  /\ i \in DOMAIN a /\ i + 1 \in DOMAIN a
                  /\ i < k => r[i] = a[i]
                  /\ i >= k => r[i] = a[i + 1]
             /\ \A i \in DOMAIN a : i < k => i \in DOMAIN r
             /\ \A i \in DOMAIN a : i > k => i - 1 \in DOMAIN r
  BY <1>1, <1>6 DEF Without
<1> QED BY <1>5, <1>6, Zenon
(* What RemoveAt leaves is the list without place k, once each. *)
Kept(r, a, k) ==
  /\ \A i \in DOMAIN r : \E p \in DOMAIN a : p # k /\ r[i] = a[p]
  /\ \A i, j \in DOMAIN r : i # j =>
       \E p, q \in DOMAIN a : p # q /\ r[i] = a[p] /\ r[j] = a[q]
  /\ \A p \in DOMAIN a : p # k => \E i \in DOMAIN r : r[i] = a[p]

LEMMA RemovalKeeps ==
  ASSUME NEW S, NEW a \in Seq(S), NEW k \in DOMAIN a
  PROVE  RemoveAt(a, k) \in Seq(S) /\ Kept(RemoveAt(a, k), a, k)
<1>1. PICK r \in Seq(S) :
        /\ r = RemoveAt(a, k)
        /\ \A i \in DOMAIN r :
             /\ i \in DOMAIN a /\ i + 1 \in DOMAIN a
             /\ i < k => r[i] = a[i]
             /\ i >= k => r[i] = a[i + 1]
        /\ \A i \in DOMAIN a : i < k => i \in DOMAIN r
        /\ \A i \in DOMAIN a : i > k => i - 1 \in DOMAIN r
  BY Removed
<1>2. k \in Int /\ (\A i \in DOMAIN a : i \in Int) /\ \A i \in DOMAIN r : i \in Int
  OBVIOUS
<1> DEFINE From(i) == IF i < k THEN i ELSE i + 1
<1>3. ASSUME NEW i \in DOMAIN r
      PROVE  From(i) \in DOMAIN a /\ From(i) # k /\ r[i] = a[From(i)]
  <2>1. CASE i < k
    BY <1>1, <1>2, <2>1
  <2>2. CASE i >= k
    <3>1. i + 1 \in DOMAIN a /\ i + 1 # k /\ r[i] = a[i + 1] /\ ~(i < k)
      BY <1>1, <1>2, <2>2
    <3> QED BY <3>1, Zenon
  <2> QED BY <1>2, <2>1, <2>2
<1>4. ASSUME NEW i \in DOMAIN r, NEW j \in DOMAIN r, i # j
      PROVE  From(i) # From(j)
  BY <1>2, <1>4
<1>5. ASSUME NEW j \in DOMAIN a, j # k
      PROVE  \E i \in DOMAIN r : r[i] = a[j]
  <2>1. CASE j < k
    BY <1>1, <2>1
  <2>2. CASE j > k
    <3>1. j - 1 \in DOMAIN r /\ j - 1 >= k /\ (j - 1) + 1 = j
      BY <1>1, <1>2, <2>2
    <3>2. r[j - 1] = a[(j - 1) + 1]
      BY <1>1, <3>1
    <3> QED BY <3>1, <3>2
  <2> QED BY <1>2, <1>5, <2>1, <2>2
<1> HIDE DEF From
<1>6. Kept(r, a, k)
  BY <1>3, <1>4, <1>5, Zenon DEF Kept
<1> QED BY <1>1, <1>6, Zenon

-----------------------------------------------------------------------------
(* Edits *)

LEMMA PartsOfGood ==
  ASSUME NEW s, Good(s)
  PROVE  /\ s = [name |-> s.name, libraries |-> s.libraries, annotations |-> s.annotations,
                 validation |-> s.validation, index |-> s.index]
         /\ s.name \in Name /\ s.libraries \in Seq(Library)
         /\ s.annotations \in Seq(Annotation) /\ s.index \in IndexType
         /\ s.validation = ToSet(s.libraries)
         /\ IsInjective(s.libraries)
         /\ Distinct(s.annotations)
         /\ Indexes(s.index, s.annotations)
         /\ \A i \in DOMAIN s.annotations : s.annotations[i].library \in ToSet(s.libraries)
<1>1. /\ s = [name |-> s.name, libraries |-> s.libraries, annotations |-> s.annotations,
              validation |-> s.validation, index |-> s.index]
      /\ s.name \in Name /\ s.libraries \in Seq(Library)
      /\ s.annotations \in Seq(Annotation) /\ s.index \in IndexType
  BY DEF Good, State, IndexType
<1> QED BY <1>1 DEF Good, Acceptable, Fresh, Distinct

LEMMA MadeGood ==
  ASSUME NEW n \in Name, NEW l \in Seq(Library), NEW a \in Seq(Annotation),
         NEW x \in IndexType,
         IsInjective(l), Distinct(a), Indexes(x, a),
         \A i \in DOMAIN a : a[i].library \in ToSet(l),
         NEW s, s = [name |-> n, libraries |-> l, annotations |-> a,
                     validation |-> ToSet(l), index |-> x]
  PROVE  Good(s)
<1>1. ToSet(l) \in SUBSET Library
  BY ElementOfSeq DEF ToSet
<1>2. s \in State
  BY <1>1 DEF State, IndexType
<1>3. /\ s.libraries = l /\ s.annotations = a /\ s.validation = ToSet(l) /\ s.index = x
  OBVIOUS
<1>4. Acceptable(s) /\ Fresh(s)
  BY <1>3 DEF Acceptable, Distinct, Fresh
<1> QED BY <1>2, <1>4 DEF Good

(* A change of two fields of a state, field by field. *)
LEMMA PinsReplaced ==
  ASSUME NEW s, NEW l, NEW v, NEW t,
         s = [name |-> s.name, libraries |-> s.libraries, annotations |-> s.annotations,
              validation |-> s.validation, index |-> s.index],
         t = [s EXCEPT !.libraries = l, !.validation = v]
  PROVE  t = [name |-> s.name, libraries |-> l, annotations |-> s.annotations,
              validation |-> v, index |-> s.index]
<1>1. DOMAIN t = {"name", "libraries", "annotations", "validation", "index"}
  OBVIOUS
<1>2. t = [f \in DOMAIN t |-> t[f]]
  OBVIOUS
<1>3. /\ t.name = s.name /\ t.libraries = l /\ t.annotations = s.annotations
      /\ t.validation = v /\ t.index = s.index
  OBVIOUS
<1> QED BY <1>1, <1>2, <1>3

LEMMA AnnotationsReplaced ==
  ASSUME NEW s, NEW a, NEW x, NEW t,
         s = [name |-> s.name, libraries |-> s.libraries, annotations |-> s.annotations,
              validation |-> s.validation, index |-> s.index],
         t = [s EXCEPT !.annotations = a, !.index = x]
  PROVE  t = [name |-> s.name, libraries |-> s.libraries, annotations |-> a,
              validation |-> s.validation, index |-> x]
<1>1. DOMAIN t = {"name", "libraries", "annotations", "validation", "index"}
  OBVIOUS
<1>2. t = [f \in DOMAIN t |-> t[f]]
  OBVIOUS
<1>3. /\ t.name = s.name /\ t.libraries = s.libraries /\ t.annotations = a
      /\ t.validation = s.validation /\ t.index = x
  OBVIOUS
<1> QED BY <1>1, <1>2, <1>3

LEMMA NamedIsGood ==
  ASSUME Good(state), NEW n \in Name
  PROVE  Good([state EXCEPT !.name = n])
<1>1. [state EXCEPT !.name = n] =
        [name |-> n, libraries |-> state.libraries, annotations |-> state.annotations,
         validation |-> ToSet(state.libraries), index |-> state.index]
  BY PartsOfGood
<1> QED BY <1>1, PartsOfGood, MadeGood

Repinned(l) == [state EXCEPT !.libraries = l, !.validation = ToSet(l)]

LEMMA RepinnedIsGood ==
  ASSUME Good(state), NEW l \in Seq(Library), IsInjective(l),
         \A i \in DOMAIN state.annotations : state.annotations[i].library \in ToSet(l)
  PROVE  Good(Repinned(l))
<1>1. PICK t : t = Repinned(l)
  OBVIOUS
<1>2. t = [name |-> state.name, libraries |-> l, annotations |-> state.annotations,
           validation |-> ToSet(l), index |-> state.index]
  <2>1. state = [name |-> state.name, libraries |-> state.libraries,
                 annotations |-> state.annotations, validation |-> state.validation,
                 index |-> state.index]
    BY PartsOfGood
  <2> QED BY <1>1, <2>1, PinsReplaced, Zenon DEF Repinned
<1>3. /\ state.name \in Name /\ state.annotations \in Seq(Annotation)
      /\ state.index \in IndexType
      /\ Distinct(state.annotations) /\ Indexes(state.index, state.annotations)
  BY PartsOfGood
<1>4. Good(t)
  BY <1>2, <1>3, MadeGood
<1> QED BY <1>1, <1>4, Zenon

(* The same for an edit of the annotations. *)
Reannotated(a, x) == [state EXCEPT !.annotations = a, !.index = x]

LEMMA ReannotatedIsGood ==
  ASSUME Good(state), NEW a \in Seq(Annotation), NEW x \in IndexType,
         Distinct(a), Indexes(x, a),
         \A i \in DOMAIN a : a[i].library \in ToSet(state.libraries)
  PROVE  Good(Reannotated(a, x))
<1>0. PICK t : t = Reannotated(a, x)
  OBVIOUS
<1>1. /\ state.name \in Name /\ state.libraries \in Seq(Library)
      /\ IsInjective(state.libraries) /\ state.validation = ToSet(state.libraries)
  BY PartsOfGood
<1>2. t = [name |-> state.name, libraries |-> state.libraries, annotations |-> a,
           validation |-> ToSet(state.libraries), index |-> x]
  <2>1. state = [name |-> state.name, libraries |-> state.libraries,
                 annotations |-> state.annotations, validation |-> state.validation,
                 index |-> state.index]
    BY PartsOfGood
  <2>2. t = [name |-> state.name, libraries |-> state.libraries, annotations |-> a,
             validation |-> state.validation, index |-> x]
    BY <1>0, <2>1, AnnotationsReplaced, Zenon DEF Reannotated
  <2> QED BY <1>1, <2>2, Zenon
<1>3. Good(t)
  BY <1>1, <1>2, MadeGood
<1> QED BY <1>0, <1>3, Zenon

LEMMA ExtendedIsGood ==
  ASSUME Good(state), NEW batch \in Seq(Annotation),
         \A i \in DOMAIN batch :
           /\ batch[i].id \notin DOMAIN state.index
           /\ \A j \in DOMAIN batch : batch[i].id = batch[j].id => i = j
           /\ batch[i].library \in state.validation
  PROVE  Good([state EXCEPT !.annotations = @ \o batch, !.index = Updated(@, IndexOf(batch))])
<1> DEFINE list == state.annotations
           index == state.index
           joined == Updated(index, IndexOf(batch))
<1>1. list \in Seq(Annotation) /\ index \in IndexType /\ Distinct(list) /\ Indexes(index, list)
  BY PartsOfGood
<1>2. Distinct(batch)
  BY DEF Distinct
<1>3. IndexOf(batch) \in IndexType /\ Indexes(IndexOf(batch), batch)
  BY <1>2, IndexFinds
<1>4. PICK whole \in Seq(Annotation) :
        /\ whole = list \o batch
        /\ \A i \in DOMAIN list : i \in DOMAIN whole /\ whole[i] = list[i]
        /\ \A i \in DOMAIN batch : i + Len(list) \in DOMAIN whole
                                   /\ whole[i + Len(list)] = batch[i]
        /\ \A i \in DOMAIN whole :
             \/ i \in DOMAIN list /\ whole[i] = list[i]
             \/ i - Len(list) \in DOMAIN batch /\ whole[i] = batch[i - Len(list)]
  BY <1>1, Joined
<1>5. \A i \in DOMAIN list, j \in DOMAIN batch : list[i].id # batch[j].id
  BY <1>1 DEF Indexes, Ids
<1>6. Distinct(whole)
  <2>1. ASSUME NEW i \in DOMAIN whole, NEW j \in DOMAIN whole, whole[i].id = whole[j].id
        PROVE  i = j
    <3>1. CASE i \in DOMAIN list /\ whole[i] = list[i] /\ j \in DOMAIN list /\ whole[j] = list[j]
      BY <1>1, <2>1, <3>1 DEF Distinct
    <3>2. CASE /\ i - Len(list) \in DOMAIN batch /\ whole[i] = batch[i - Len(list)]
               /\ j - Len(list) \in DOMAIN batch /\ whole[j] = batch[j - Len(list)]
      <4>1. i - Len(list) = j - Len(list)
        BY <1>2, <2>1, <3>2 DEF Distinct
      <4>2. i \in Int /\ j \in Int /\ Len(list) \in Int
        BY <1>1, <1>4
      <4> QED BY <4>1, <4>2
    <3> QED BY <1>4, <1>5, <2>1, <3>1, <3>2
  <2> QED BY <2>1 DEF Distinct
<1>7. DOMAIN joined = DOMAIN IndexOf(batch) \cup DOMAIN index
      /\ \A d \in DOMAIN joined :
           joined[d] = IF d \in DOMAIN IndexOf(batch) THEN IndexOf(batch)[d] ELSE index[d]
  BY DEF Updated
<1>8. Ids(whole) = Ids(batch) \cup Ids(list)
  <2>1. \A i \in DOMAIN whole : whole[i].id \in Ids(batch) \cup Ids(list)
    BY <1>4 DEF Ids
  <2>2. Ids(batch) \subseteq Ids(whole)
    BY <1>4 DEF Ids
  <2>3. Ids(list) \subseteq Ids(whole)
    BY <1>4 DEF Ids
  <2>4. Ids(whole) \subseteq Ids(batch) \cup Ids(list)
    BY <2>1 DEF Ids
  <2> QED BY <2>2, <2>3, <2>4
<1>9. Indexes(joined, whole)
  <2>1. DOMAIN joined = Ids(whole)
    BY <1>1, <1>3, <1>7, <1>8 DEF Indexes
  <2>2. ASSUME NEW i \in DOMAIN list
        PROVE  joined[list[i].id] = list[i]
    <3>1. list[i].id \in DOMAIN index /\ index[list[i].id] = list[i]
      BY <1>1 DEF Indexes, Ids
    <3>2. list[i].id \notin DOMAIN IndexOf(batch)
      BY <1>3, <1>5 DEF Indexes, Ids
    <3> QED BY <1>7, <3>1, <3>2
  <2>3. ASSUME NEW i \in DOMAIN batch
        PROVE  joined[batch[i].id] = batch[i]
    <3>1. batch[i].id \in DOMAIN IndexOf(batch) /\ IndexOf(batch)[batch[i].id] = batch[i]
      BY <1>3 DEF Indexes, Ids
    <3> QED BY <1>7, <3>1
  <2>4. \A i \in DOMAIN whole : joined[whole[i].id] = whole[i]
    BY <1>4, <2>2, <2>3
  <2> QED BY <2>1, <2>4 DEF Indexes
<1>10. joined \in IndexType
  <2>1. \A d \in DOMAIN joined : joined[d] \in Annotation
    BY <1>1, <1>3, <1>7 DEF IndexType
  <2>2. DOMAIN joined \in SUBSET Id
    BY <1>1, <1>3, <1>7 DEF IndexType
  <2>3. joined = [d \in DOMAIN joined |-> joined[d]]
    BY DEF Updated
  <2> QED BY <2>1, <2>2, <2>3 DEF IndexType
<1>11. \A i \in DOMAIN whole : whole[i].library \in ToSet(state.libraries)
  BY <1>4, PartsOfGood
<1>12. Good(Reannotated(whole, joined))
  <2> HIDE DEF joined
  <2> QED BY <1>6, <1>9, <1>10, <1>11, ReannotatedIsGood
<1>13. [state EXCEPT !.annotations = @ \o batch, !.index = Updated(@, IndexOf(batch))] =
         Reannotated(whole, joined)
  BY <1>4, Zenon DEF Reannotated
<1> QED BY <1>12, <1>13, Zenon

LEMMA ReplacedIsGood ==
  ASSUME Good(state), NEW a \in Annotation, NEW k \in DOMAIN state.annotations,
         state.annotations[k].id = a.id, a.library \in state.validation
  PROVE  Good([state EXCEPT !.annotations[k] = a, !.index[a.id] = a])
<1> DEFINE list == state.annotations
           index == state.index
<1>1. /\ list \in Seq(Annotation) /\ index \in IndexType
      /\ Distinct(list) /\ Indexes(index, list)
      /\ a.library \in ToSet(state.libraries)
      /\ \A i \in DOMAIN list : list[i].library \in ToSet(state.libraries)
  BY PartsOfGood
<1>2. PICK other : other = [list EXCEPT ![k] = a]
  OBVIOUS
<1>3. PICK index2 : index2 = [index EXCEPT ![a.id] = a]
  OBVIOUS
<1>4. /\ other \in Seq(Annotation) /\ DOMAIN other = DOMAIN list
      /\ other[k] = a /\ \A i \in DOMAIN list : i # k => other[i] = list[i]
  BY <1>1, <1>2
<1>5. \A i \in DOMAIN list : other[i].id = list[i].id
  BY <1>4
<1>6. Distinct(other) /\ Ids(other) = Ids(list)
  BY <1>1, <1>4, <1>5 DEF Distinct, Ids
<1>7. a.id \in DOMAIN index
  BY <1>1 DEF Indexes, Ids
<1>8. /\ DOMAIN index2 = DOMAIN index /\ index2[a.id] = a
      /\ \A d \in DOMAIN index : d # a.id => index2[d] = index[d]
  BY <1>3, <1>7
<1>9. index2 \in IndexType
  <2>1. PICK ids \in SUBSET Id : index \in [ids -> Annotation]
    BY <1>1 DEF IndexType
  <2>2. index2 \in [ids -> Annotation]
    BY <1>3, <2>1
  <2> QED BY <2>2 DEF IndexType
<1>10. Indexes(index2, other)
  <2>1. ASSUME NEW i \in DOMAIN list
        PROVE  index2[other[i].id] = other[i]
    <3>1. CASE i = k
      BY <1>4, <1>8, <3>1
    <3>2. CASE i # k
      <4>1. list[i].id # a.id
        BY <1>1, <3>2 DEF Distinct
      <4>2. list[i].id \in DOMAIN index /\ index[list[i].id] = list[i]
        BY <1>1 DEF Indexes, Ids
      <4> QED BY <1>4, <1>8, <3>2, <4>1, <4>2
    <3> QED BY <3>1, <3>2
  <2> QED BY <1>1, <1>4, <1>6, <1>8, <2>1 DEF Indexes
<1>11. \A i \in DOMAIN other : other[i].library \in ToSet(state.libraries)
  BY <1>1, <1>4
<1>12. Good(Reannotated(other, index2))
  BY <1>4, <1>6, <1>9, <1>10, <1>11, ReannotatedIsGood
<1>13. [state EXCEPT !.annotations[k] = a, !.index[a.id] = a] =
         Reannotated(other, index2)
  BY <1>2, <1>3, Zenon DEF Reannotated
<1> QED BY <1>12, <1>13, Zenon

LEMMA ReducedIsGood ==
  ASSUME Good(state), NEW k \in DOMAIN state.annotations,
         NEW d, state.annotations[k].id = d
  PROVE  Good([state EXCEPT !.annotations = RemoveAt(@, k),
                            !.index = Restrict(@, DOMAIN @ \ {d})])
<1> DEFINE list == state.annotations
           index == state.index
<1>1. /\ list \in Seq(Annotation) /\ index \in IndexType
      /\ Distinct(list) /\ Indexes(index, list)
      /\ \A i \in DOMAIN list : list[i].library \in ToSet(state.libraries)
  BY PartsOfGood
<1>2. RemoveAt(list, k) \in Seq(Annotation) /\ Kept(RemoveAt(list, k), list, k)
  BY <1>1, RemovalKeeps
<1>3. PICK rest \in Seq(Annotation) : rest = RemoveAt(list, k) /\ Kept(rest, list, k)
  BY <1>2, Zenon
<1>4. \A i \in DOMAIN rest : \E j \in DOMAIN list : j # k /\ rest[i] = list[j]
  BY <1>3 DEF Kept
<1>5. \A j \in DOMAIN list : j # k => \E i \in DOMAIN rest : rest[i] = list[j]
  BY <1>3 DEF Kept
<1>6. Distinct(rest)
  <2>1. ASSUME NEW i \in DOMAIN rest, NEW j \in DOMAIN rest, i # j
        PROVE  rest[i].id # rest[j].id
    <3>1. PICK ii \in DOMAIN list, jj \in DOMAIN list :
            ii # jj /\ rest[i] = list[ii] /\ rest[j] = list[jj]
      BY <1>3, <2>1 DEF Kept
    <3> QED BY <1>1, <3>1 DEF Distinct
  <2> QED BY <2>1 DEF Distinct
<1>7. d \notin Ids(rest)
  <2>1. ASSUME NEW i \in DOMAIN rest, rest[i].id = d
        PROVE  FALSE
    <3>1. PICK j \in DOMAIN list : j # k /\ rest[i] = list[j]
      BY <1>4
    <3> QED BY <1>1, <2>1, <3>1 DEF Distinct
  <2> QED BY <2>1 DEF Ids
<1>8. Ids(rest) = Ids(list) \ {d}
  <2>1. \A i \in DOMAIN rest : rest[i].id \in Ids(list)
    <3>1. ASSUME NEW i \in DOMAIN rest
          PROVE  rest[i].id \in Ids(list)
      <4>1. PICK j \in DOMAIN list : rest[i] = list[j]
        BY <1>4
      <4> QED BY <4>1 DEF Ids
    <3> QED BY <3>1
  <2>2. ASSUME NEW j \in DOMAIN list, list[j].id # d
        PROVE  list[j].id \in Ids(rest)
    <3>1. PICK i \in DOMAIN rest : rest[i] = list[j]
      BY <1>5, <2>2
    <3> QED BY <3>1 DEF Ids
  <2> QED BY <1>7, <2>1, <2>2 DEF Ids
<1>9. PICK index2 : index2 = Restrict(index, DOMAIN index \ {d})
  OBVIOUS
<1>10. /\ DOMAIN index2 = DOMAIN index \ {d}
       /\ \A e \in DOMAIN index \ {d} : index2[e] = index[e]
  BY <1>9 DEF Restrict
<1>11. index2 \in IndexType
  <2>1. PICK ids \in SUBSET Id : index \in [ids -> Annotation]
    BY <1>1 DEF IndexType
  <2>2. index2 \in [ids \ {d} -> Annotation]
    BY <1>9, <2>1 DEF Restrict
  <2> QED BY <2>2 DEF IndexType
<1>12. Indexes(index2, rest)
  <2>1. DOMAIN index2 = Ids(rest)
    BY <1>1, <1>8, <1>10 DEF Indexes
  <2>2. ASSUME NEW i \in DOMAIN rest
        PROVE  index2[rest[i].id] = rest[i]
    <3>1. PICK j \in DOMAIN list : rest[i] = list[j]
      BY <1>4
    <3>2. index[rest[i].id] = rest[i]
      BY <1>1, <3>1 DEF Indexes
    <3>3. rest[i].id \in DOMAIN index2
      BY <2>1 DEF Ids
    <3> QED BY <1>10, <3>2, <3>3
  <2> QED BY <2>1, <2>2 DEF Indexes
<1>13. \A i \in DOMAIN rest : rest[i].library \in ToSet(state.libraries)
  BY <1>1, <1>4
<1>14. Good(Reannotated(rest, index2))
  BY <1>6, <1>11, <1>12, <1>13, ReannotatedIsGood
<1>15. [state EXCEPT !.annotations = RemoveAt(@, k), !.index = Restrict(@, DOMAIN @ \ {d})] =
         Reannotated(rest, index2)
  BY <1>3, <1>9, Zenon DEF Reannotated
<1> QED BY <1>14, <1>15, Zenon

LEMMA PinnedIsGood ==
  ASSUME Good(state), NEW l \in Library, l \notin ToSet(state.libraries)
  PROVE  Good(Repinned(Append(state.libraries, l)))
<1> DEFINE pins == state.libraries
<1>1. /\ pins \in Seq(Library) /\ IsInjective(pins)
      /\ \A i \in DOMAIN state.annotations : state.annotations[i].library \in ToSet(pins)
  BY PartsOfGood
<1>2. Append(pins, l) \in Seq(Library) /\ Extended(Append(pins, l), pins, l)
  BY <1>1, AppendExtends
<1>3. PICK more \in Seq(Library) : more = Append(pins, l) /\ Extended(more, pins, l)
  BY <1>2, Zenon
<1>4. IsInjective(more) /\ ToSet(more) = ToSet(pins) \cup {l}
  <2>1. \A i \in DOMAIN pins : pins[i] # l
    BY DEF ToSet
  <2> QED BY <1>1, <1>3, <2>1 DEF IsInjective, Extended
<1>5. Good(Repinned(more))
  BY <1>1, <1>4, RepinnedIsGood
<1> QED BY <1>3, <1>5, Zenon

LEMMA UnpinnedIsGood ==
  ASSUME Good(state), NEW l, NEW k \in DOMAIN state.libraries, state.libraries[k] = l,
         \A i \in DOMAIN state.annotations : state.annotations[i].library # l
  PROVE  Good(Repinned(RemoveAt(state.libraries, k)))
<1> DEFINE pins == state.libraries
<1>1. /\ pins \in Seq(Library) /\ IsInjective(pins)
      /\ \A i \in DOMAIN state.annotations : state.annotations[i].library \in ToSet(pins)
  BY PartsOfGood
<1>2. RemoveAt(pins, k) \in Seq(Library) /\ Kept(RemoveAt(pins, k), pins, k)
  BY <1>1, RemovalKeeps
<1>3. PICK rest \in Seq(Library) : rest = RemoveAt(pins, k) /\ Kept(rest, pins, k)
  BY <1>2, Zenon
<1>4. \A j \in DOMAIN pins : j # k => \E i \in DOMAIN rest : rest[i] = pins[j]
  BY <1>3 DEF Kept
<1>5. IsInjective(rest)
  <2>1. ASSUME NEW i \in DOMAIN rest, NEW j \in DOMAIN rest, i # j
        PROVE  rest[i] # rest[j]
    <3>1. PICK ii \in DOMAIN pins, jj \in DOMAIN pins :
            ii # jj /\ rest[i] = pins[ii] /\ rest[j] = pins[jj]
      BY <1>3, <2>1 DEF Kept
    <3> QED BY <1>1, <3>1 DEF IsInjective
  <2> QED BY <2>1 DEF IsInjective
<1>6. ASSUME NEW i \in DOMAIN state.annotations
      PROVE  state.annotations[i].library \in ToSet(rest)
  <2>1. PICK j \in DOMAIN pins : state.annotations[i].library = pins[j]
    BY <1>1 DEF ToSet
  <2>2. j # k
    BY <2>1
  <2>3. PICK m \in DOMAIN rest : rest[m] = pins[j]
    BY <1>4, <2>2
  <2> QED BY <2>1, <2>3 DEF ToSet
<1>7. Good(Repinned(rest))
  BY <1>5, <1>6, RepinnedIsGood
<1> QED BY <1>3, <1>7, Zenon

-----------------------------------------------------------------------------
(* Stacks, chain and requests *)

LEMMA Popped ==
  ASSUME NEW S, NEW a \in Seq(S), a # <<>>
  PROVE  /\ Len(a) \in DOMAIN a /\ Last(a) = a[Len(a)] /\ Last(a) \in S
         /\ Front(a) \in Seq(S) /\ Len(Front(a)) = Len(a) - 1
         /\ \A i \in 1..(Len(a) - 1) : Front(a)[i] = a[i]
<1>1. Len(a) \in Nat \ {0} /\ DOMAIN a = 1..Len(a) /\ Len(a) \in DOMAIN a
  OBVIOUS
<1>2. Last(a) = a[Len(a)] /\ Last(a) \in S
  BY <1>1 DEF Last
<1>3. /\ SubSeq(a, 1, Len(a) - 1) \in Seq(S)
      /\ Len(SubSeq(a, 1, Len(a) - 1)) = Len(a) - 1
      /\ \A i \in 1..(Len(a) - 1) : SubSeq(a, 1, Len(a) - 1)[i] = a[i]
  BY <1>1, SubSeqProperties
<1>4. Front(a) = SubSeq(a, 1, Len(a) - 1)
  BY DEF Front
<1> QED BY <1>1, <1>2, <1>3, <1>4, Zenon

LEMMA Widened ==
  ASSUME NEW S, NEW T, S \subseteq T, NEW a \in Seq(S)
  PROVE  a \in Seq(T)
<1>1. Len(a) \in Nat /\ \A i \in 1..Len(a) : a[i] \in S
  OBVIOUS
<1>2. a = [i \in 1..Len(a) |-> a[i]]
  OBVIOUS
<1> QED BY <1>1, <1>2

LEMMA Requests ==
  ASSUME IInv, NEW r \in Revision, NEW p, NEW s \in Snapshot, Acceptable(s), Request(r, p, s)
  PROVE  /\ contents' \in [Revision -> Snapshot \cup {NoContent}]
         /\ contents'[r] = s /\ r \notin Requested
         /\ \A q \in Requested : contents'[q] = contents[q]
         /\ Requested' = Requested \cup {r}
         /\ chain \in Seq(Requested') /\ base # r
<1>1. contents \in [Revision -> Snapshot \cup {NoContent}]
  BY DEF IInv, Typed
<1>2. contents[r] = NoContent /\ contents' = [contents EXCEPT ![r] = s]
  BY DEF Request
<1>3. contents' \in [Revision -> Snapshot \cup {NoContent}]
  BY <1>1, <1>2
<1>4. contents'[r] = s /\ \A q \in Revision : q # r => contents'[q] = contents[q]
  BY <1>1, <1>2
<1>5. r \notin Requested
  BY <1>2, SnapshotIsRecord DEF Requested
<1>6. Requested' = Requested \cup {r}
  BY <1>4, <1>5 DEF Requested
<1>7. Requested \subseteq Requested' /\ chain \in Seq(Requested) /\ base # r
  BY <1>5, <1>6 DEF IInv, AllRequested
<1>8. chain \in Seq(Requested')
  BY <1>7, Widened, Zenon
<1>9. \A q \in Requested : q \in Revision /\ q # r
  BY <1>5 DEF Requested
<1> QED BY <1>3, <1>4, <1>5, <1>6, <1>7, <1>8, <1>9

LEMMA StackFacts ==
  ASSUME NEW a \in Seq(GoodStates), NEW s \in GoodStates
  PROVE  /\ Append(a, s) \in Seq(GoodStates) /\ <<>> \in Seq(GoodStates)
         /\ a # <<>> => Last(a) \in GoodStates /\ Front(a) \in Seq(GoodStates)
<1>1. a # <<>> => Last(a) \in GoodStates /\ Front(a) \in Seq(GoodStates)
  BY Popped
<1>2. Append(a, s) \in Seq(GoodStates) /\ <<>> \in Seq(GoodStates)
  OBVIOUS
<1> QED BY <1>1, <1>2

(* The steps of the GUI thread: the store, the outbox and the worker rest. *)
LEMMA SessionStep ==
  ASSUME IInv, sending = NoRevision, UNCHANGED <<sending, store, outbox>>,
         base' \in Requested, Content(checkpoint') = contents[base'],
         sync' \in {"synced", "pending", "conflict"}, closed' \in BOOLEAN,
         state' \in GoodStates, checkpoint' \in GoodStates,
         undo' \in Seq(GoodStates), redo' \in Seq(GoodStates)
  PROVE  IInv'
<1>1. /\ contents' = contents /\ chain' = chain /\ parent' = parent
      /\ pending' = pending /\ conflicts' = conflicts /\ sending' = sending
  BY DEF store, outbox
<1>2. Requested' = Requested
  BY <1>1 DEF Requested
<1>3. Typed'
  BY <1>1 DEF IInv, Typed
<1>4. AllGood'
  BY DEF AllGood
<1>5. AllRequested'
  BY <1>1, <1>2 DEF IInv, AllRequested
<1>6. SentIsCurrent' /\ CheckpointIsBase'
  BY <1>1 DEF SentIsCurrent, CheckpointIsBase
<1> QED BY <1>3, <1>4, <1>5, <1>6 DEF IInv

LEMMA Parts ==
  ASSUME IInv
  PROVE  /\ state \in GoodStates /\ checkpoint \in GoodStates
         /\ undo \in Seq(GoodStates) /\ redo \in Seq(GoodStates)
         /\ base \in Requested /\ Content(checkpoint) = contents[base]
         /\ sync \in {"synced", "pending", "conflict"} /\ closed \in BOOLEAN
         /\ Good(state)
         /\ <<>> \in Seq(GoodStates)
BY DEF IInv, Typed, AllGood, AllRequested, CheckpointIsBase, GoodStates

(* A revision of the store, made into a state by the present validator. *)
LEMMA FromStore ==
  ASSUME IInv, NEW r \in Requested, NEW v, v = ToSet(contents[r].libraries)
  PROVE  /\ StateFrom(contents[r], v) \in GoodStates
         /\ Content(StateFrom(contents[r], v)) = contents[r]
<1>1. contents[r] \in Snapshot /\ Acceptable(contents[r])
  BY DEF Requested
<1>2. PICK s \in Snapshot : s = contents[r] /\ Acceptable(s)
  BY <1>1
<1>3. /\ Good(StateFrom(s, ToSet(s.libraries)))
      /\ Content(StateFrom(s, ToSet(s.libraries))) = s
  BY <1>2, StateFromIsGood
<1>4. StateFrom(s, ToSet(s.libraries)) \in GoodStates
  BY <1>3 DEF Good, GoodStates
<1> QED BY <1>2, <1>3, <1>4, Zenon

LEMMA OfChain ==
  ASSUME IInv
  PROVE  Last(chain) \in Requested /\ \A r \in ToSet(chain) : r \in Requested
<1>1. chain \in Seq(Requested) /\ chain # <<>>
  BY DEF IInv, AllRequested
<1>2. Last(chain) \in Requested
  BY <1>1, Popped
<1>3. \A r \in ToSet(chain) : r \in Requested
  BY <1>1, ElementOfSeq DEF ToSet
<1> QED BY <1>2, <1>3

LEMMA MutateStep ==
  ASSUME IInv, NEW s, Good(s), Mutate(s)
  PROVE  IInv'
<1>1. s \in GoodStates
  BY DEF Good, GoodStates
<1>2. /\ sending = NoRevision
      /\ UNCHANGED <<sending, store, outbox>>
      /\ undo' = Append(undo, state) /\ state' = s /\ redo' = <<>>
      /\ checkpoint' = checkpoint /\ base' = base /\ sync' = sync /\ closed' = closed
  BY DEF Mutate, Free
<1>3. undo' \in Seq(GoodStates) /\ redo' \in Seq(GoodStates)
  BY <1>2, Parts, StackFacts
<1> QED BY <1>1, <1>2, <1>3, Parts, SessionStep

LEMMA BatchIsList ==
  ASSUME NEW batch \in Batch
  PROVE  batch \in Seq(Annotation)
<1>1. PICK n \in 1..MaxBatch : batch \in [1..n -> Annotation]
  BY DEF Batch
<1>2. n \in Nat
  BY BoundAssumption
<1> QED BY <1>1, <1>2

Mutates == \E s \in GoodStates : Mutate(s)

LEMMA MutatesWith ==
  ASSUME NEW s, Good(s), Mutate(s)
  PROVE  Mutates
BY DEF Mutates, Good, GoodStates

(* Every edit makes a good state the present one, by _mutate. *)
LEMMA EditMutates ==
  ASSUME IInv, Edit
  PROVE  Mutates
<1>1. Good(state)
  BY Parts
<1>2. ASSUME NEW n \in Name, SetName(n)
      PROVE  Mutates
  BY <1>1, <1>2, NamedIsGood, MutatesWith, Zenon DEF SetName
<1>3. ASSUME NEW batch \in Batch, AddAnnotations(batch)
      PROVE  Mutates
  <2>1. batch \in Seq(Annotation)
    BY BatchIsList
  <2>2. /\ \A i \in DOMAIN batch :
             /\ batch[i].id \notin DOMAIN state.index
             /\ \A j \in DOMAIN batch : batch[i].id = batch[j].id => i = j
             /\ batch[i].library \in state.validation
        /\ Mutate([state EXCEPT !.annotations = @ \o batch,
                                !.index = Updated(@, IndexOf(batch))])
    BY <1>3, Zenon DEF AddAnnotations
  <2>3. Good([state EXCEPT !.annotations = @ \o batch, !.index = Updated(@, IndexOf(batch))])
    BY <1>1, <2>1, <2>2, ExtendedIsGood, Zenon
  <2> QED BY <2>2, <2>3, MutatesWith, Zenon
<1>4. ASSUME NEW a \in Annotation, ReplaceAnnotation(a)
      PROVE  Mutates
  <2>1. PICK i \in DOMAIN state.annotations :
          /\ state.annotations[i].id = a.id
          /\ Mutate([state EXCEPT !.annotations[i] = a, !.index[a.id] = a])
    BY <1>4, Zenon DEF ReplaceAnnotation
  <2>2. a.library \in state.validation
    BY <1>4, Zenon DEF ReplaceAnnotation
  <2>3. Good([state EXCEPT !.annotations[i] = a, !.index[a.id] = a])
    BY <1>1, <2>1, <2>2, ReplacedIsGood, Zenon
  <2> QED BY <2>1, <2>3, MutatesWith, Zenon
<1>5. ASSUME NEW d \in Id, RemoveAnnotation(d)
      PROVE  Mutates
  <2>1. PICK i \in DOMAIN state.annotations :
          /\ state.annotations[i].id = d
          /\ Mutate([state EXCEPT !.annotations = RemoveAt(@, i),
                                  !.index = Restrict(@, DOMAIN @ \ {d})])
    BY <1>5, Zenon DEF RemoveAnnotation
  <2>2. Good([state EXCEPT !.annotations = RemoveAt(@, i), !.index = Restrict(@, DOMAIN @ \ {d})])
    BY <1>1, <2>1, ReducedIsGood, Zenon
  <2> QED BY <2>1, <2>2, MutatesWith, Zenon
<1>6. ASSUME NEW l \in Library, PinLibraryVersion(l)
      PROVE  Mutates
  <2>1. l \notin ToSet(state.libraries) /\ Mutate(Repinned(Append(state.libraries, l)))
    BY <1>6, Zenon DEF PinLibraryVersion, Repin, Repinned
  <2>2. Good(Repinned(Append(state.libraries, l)))
    BY <1>1, <2>1, PinnedIsGood, Zenon
  <2> QED BY <2>1, <2>2, MutatesWith, Zenon
<1>7. ASSUME NEW l \in Library, UnpinLibraryVersion(l)
      PROVE  Mutates
  <2>1. PICK i \in DOMAIN state.libraries :
          state.libraries[i] = l /\ Mutate(Repinned(RemoveAt(state.libraries, i)))
    BY <1>7, Zenon DEF UnpinLibraryVersion, Repin, Repinned
  <2>2. \A j \in DOMAIN state.annotations : state.annotations[j].library # l
    BY <1>7, Zenon DEF UnpinLibraryVersion
  <2>3. Good(Repinned(RemoveAt(state.libraries, i)))
    BY <1>1, <2>1, <2>2, UnpinnedIsGood, Zenon
  <2> QED BY <2>1, <2>3, MutatesWith, Zenon
<1>8. ASSUME NEW r \in Revision, RestoreRevision(r)
      PROVE  Mutates
  <2>1. /\ r \in Requested
        /\ Mutate(StateFrom(contents[r], ValidationFor(contents[r].libraries)))
    BY <1>8, OfChain DEF RestoreRevision
  <2>2. ValidationFor(contents[r].libraries) = ToSet(contents[r].libraries)
    BY <1>1, ValidationIsFresh
  <2>3. StateFrom(contents[r], ValidationFor(contents[r].libraries)) \in GoodStates
    BY <2>1, <2>2, FromStore
  <2> QED BY <2>1, <2>3, MutatesWith DEF GoodStates
<1> QED BY <1>2, <1>3, <1>4, <1>5, <1>6, <1>7, <1>8 DEF Edit

LEMMA EditStep ==
  ASSUME IInv, Edit
  PROVE  IInv'
BY EditMutates, MutateStep DEF Mutates, GoodStates

LEMMA UndoStep ==
  ASSUME IInv, Undo \/ Redo
  PROVE  IInv'
<1>1. CASE Undo
  <2>1. /\ sending = NoRevision /\ UNCHANGED <<sending, store, outbox>>
        /\ undo # <<>>
        /\ redo' = Append(redo, state) /\ state' = Last(undo) /\ undo' = Front(undo)
        /\ checkpoint' = checkpoint /\ base' = base /\ sync' = sync /\ closed' = closed
    BY <1>1 DEF Undo, Free
  <2>2. /\ state' \in GoodStates /\ undo' \in Seq(GoodStates) /\ redo' \in Seq(GoodStates)
    BY <2>1, Parts, StackFacts
  <2> QED BY <2>1, <2>2, Parts, SessionStep
<1>2. CASE Redo
  <2>1. /\ sending = NoRevision /\ UNCHANGED <<sending, store, outbox>>
        /\ redo # <<>>
        /\ undo' = Append(undo, state) /\ state' = Last(redo) /\ redo' = Front(redo)
        /\ checkpoint' = checkpoint /\ base' = base /\ sync' = sync /\ closed' = closed
    BY <1>2 DEF Redo, Free
  <2>2. /\ state' \in GoodStates /\ undo' \in Seq(GoodStates) /\ redo' \in Seq(GoodStates)
    BY <2>1, Parts, StackFacts
  <2> QED BY <2>1, <2>2, Parts, SessionStep
<1> QED BY <1>1, <1>2

(* A fresh start from the head of the store. *)
LEMMA StartStep ==
  ASSUME IInv, sending = NoRevision, closed' \in BOOLEAN,
         NEW v, v = ToSet(contents[Last(chain)].libraries),
         StartFrom(StateFrom(contents[Last(chain)], v))
  PROVE  IInv'
<1>1. PICK r \in Requested : r = Last(chain)
  BY OfChain
<1>2. PICK s \in GoodStates : s = StateFrom(contents[r], v) /\ Content(s) = contents[r]
  BY <1>1, FromStore, Zenon
<1>3. /\ state' = s /\ checkpoint' = s /\ base' = r /\ sync' = "synced"
      /\ undo' = <<>> /\ redo' = <<>>
      /\ UNCHANGED <<sending, store, outbox>>
  BY <1>1, <1>2 DEF StartFrom, Forget
<1> QED BY <1>2, <1>3, Parts, SessionStep

LEMMA LifeStep ==
  ASSUME IInv,
         ClearEditHistory \/ Reload \/ DiscardUnsavedChanges \/ Open \/ SaveRefused
           \/ \E discard \in BOOLEAN : Close(discard)
  PROVE  IInv'
<1>1. CASE ClearEditHistory
  <2>1. /\ sending = NoRevision /\ UNCHANGED <<sending, store, outbox>>
        /\ undo' = <<>> /\ redo' = <<>>
        /\ state' = state /\ checkpoint' = checkpoint
        /\ base' = base /\ sync' = sync /\ closed' = closed
    BY <1>1 DEF ClearEditHistory, Forget, Free
  <2> QED BY <2>1, Parts, SessionStep
<1>2. CASE Reload
  <2>1. /\ sending = NoRevision /\ closed' = closed
        /\ StartFrom(StateFrom(contents[Last(chain)],
                               ValidationFor(contents[Last(chain)].libraries)))
    BY <1>2, Zenon DEF Reload, Free
  <2>2. ValidationFor(contents[Last(chain)].libraries) = ToSet(contents[Last(chain)].libraries)
    BY Parts, ValidationIsFresh
  <2>3. closed' \in BOOLEAN
    BY <2>1, Parts
  <2> QED BY <2>1, <2>2, <2>3, StartStep, Zenon
<1>3. CASE DiscardUnsavedChanges
  <2>1. /\ sending = NoRevision /\ UNCHANGED <<sending, store, outbox>>
        /\ undo' = <<>> /\ redo' = <<>>
        /\ state' = checkpoint /\ checkpoint' = checkpoint
        /\ base' = base /\ sync' = sync /\ closed' = closed
    BY <1>3 DEF DiscardUnsavedChanges, Forget, Free
  <2> QED BY <2>1, Parts, SessionStep
<1>4. CASE Open
  <2>1. /\ sending = NoRevision /\ closed' = FALSE
        /\ StartFrom(StateFrom(contents[Last(chain)], ToSet(contents[Last(chain)].libraries)))
    BY <1>4 DEF Open, IInv, SentIsCurrent
  <2> QED BY <2>1, StartStep
<1>5. CASE SaveRefused
  <2>1. /\ sending = NoRevision /\ UNCHANGED <<sending, store, outbox>>
        /\ undo' = undo /\ redo' = redo
        /\ state' = state /\ checkpoint' = checkpoint
        /\ base' = base /\ sync' = "conflict" /\ closed' = closed
    BY <1>5 DEF SaveRefused, Free, stacks
  <2> QED BY <2>1, Parts, SessionStep
<1>6. ASSUME NEW discard \in BOOLEAN, Close(discard)
      PROVE  IInv'
  <2>1. /\ sending = NoRevision /\ UNCHANGED <<sending, store, outbox>>
        /\ undo' = <<>> /\ redo' = <<>>
        /\ state' = checkpoint \/ state' = state
        /\ checkpoint' = checkpoint
        /\ base' = base /\ sync' = sync /\ closed' = TRUE
    BY <1>6 DEF Close, Forget, Free
  <2> QED BY <2>1, Parts, SessionStep
<1> QED BY <1>1, <1>2, <1>3, <1>4, <1>5, <1>6

LEMMA SaveStep ==
  ASSUME IInv, NEW r \in Revision, Save(r)
  PROVE  IInv'
<1>1. PICK s : s = Content(state)
  OBVIOUS
<1>2. s \in Snapshot /\ Acceptable(s)
  BY <1>1, Parts, ContentOfState DEF Good
<1>3. Request(r, base, s)
  BY <1>1 DEF Save
<1>4. /\ contents' \in [Revision -> Snapshot \cup {NoContent}]
      /\ contents'[r] = s /\ r \notin Requested
      /\ \A q \in Requested : contents'[q] = contents[q]
      /\ Requested' = Requested \cup {r}
      /\ chain \in Seq(Requested') /\ base # r
  BY <1>2, <1>3, Requests
<1>5. parent' \in [Revision -> Revision \cup {NoRevision}]
  BY <1>3 DEF IInv, Typed, Request, AllRequested, Requested
<1>6. /\ sending = NoRevision /\ ~closed
      /\ pending' = pending \cup {r} /\ chain' = chain /\ conflicts' = conflicts
  BY DEF Save, Free
<1>7. AllRequested' <=> base' \in Requested'
  BY <1>4, <1>6 DEF IInv, AllRequested
<1>8. CASE Capture(r, "pending") /\ UNCHANGED sending
  <2>1. /\ base' = r /\ checkpoint' = state /\ sync' = "pending"
        /\ state' = state /\ undo' = undo /\ redo' = redo /\ closed' = closed
        /\ sending' = NoRevision
    BY <1>6, <1>8 DEF Capture, stacks
  <2>2. Typed'
    BY <1>4, <1>5, <1>6, <2>1 DEF IInv, Typed
  <2>3. AllGood'
    BY <2>1, Parts DEF AllGood
  <2>4. AllRequested' /\ SentIsCurrent'
    BY <1>4, <1>7, <2>1 DEF SentIsCurrent
  <2>5. CheckpointIsBase'
    BY <1>1, <1>4, <2>1 DEF CheckpointIsBase, Content
  <2> QED BY <2>2, <2>3, <2>4, <2>5 DEF IInv
<1>9. CASE sending' = r /\ UNCHANGED session
  <2>1. /\ base' = base /\ checkpoint' = checkpoint /\ sync' = sync
        /\ state' = state /\ undo' = undo /\ redo' = redo /\ closed' = closed
        /\ sending' = r
    BY <1>9 DEF session, stacks
  <2>2. Typed'
    BY <1>4, <1>5, <1>6, <2>1 DEF IInv, Typed
  <2>3. AllGood'
    BY <2>1, Parts DEF AllGood
  <2>4. AllRequested' /\ CheckpointIsBase'
    BY <1>4, <1>7, <2>1, Parts DEF CheckpointIsBase, Content
  <2>5. SentIsCurrent'
    BY <1>1, <1>4, <1>6, <2>1 DEF SentIsCurrent, Content
  <2> QED BY <2>2, <2>3, <2>4, <2>5 DEF IInv
<1> QED BY <1>8, <1>9 DEF Save

LEMMA ChainGrows ==
  ASSUME IInv, NEW r \in Requested
  PROVE  Committed(r) \in Seq(Requested) /\ Committed(r) # <<>>
<1>1. chain \in Seq(Requested) /\ chain # <<>>
  BY DEF IInv, AllRequested
<1>2. Append(chain, r) \in Seq(Requested) /\ Append(chain, r) # <<>>
  BY <1>1
<1> QED BY <1>1, <1>2 DEF Committed

LEMMA AnswerStep ==
  ASSUME IInv, Answer
  PROVE  IInv'
<1>1. /\ sending \in Requested /\ ~closed /\ contents[sending] = Content(state)
      /\ sending' = NoRevision /\ contents' = contents /\ parent' = parent
  BY DEF Answer, IInv, SentIsCurrent
<1>2. Requested' = Requested
  BY <1>1 DEF Requested
<1>3. chain' \in Seq(Requested) /\ chain' # <<>>
  <2>1. chain \in Seq(Requested) /\ chain # <<>>
    BY DEF IInv, AllRequested
  <2>2. chain' = chain \/ chain' = Committed(sending)
    BY DEF Answer, Saved, Queued, SaveConflict, SaveFailed
  <2> QED BY <1>1, <2>1, <2>2, ChainGrows
<1>4. pending' \subseteq Requested /\ conflicts' \subseteq Requested
  <2>1. pending \subseteq Requested /\ conflicts \subseteq Requested
    BY DEF IInv, AllRequested
  <2>2. \/ pending' = pending /\ conflicts' = conflicts
        \/ Drop(sending)
        \/ Conflict(sending)
        \/ ConflictFails(sending)
    BY DEF Answer, Saved, Queued, SaveConflict, SaveFailed, outbox
  <2> QED BY <1>1, <2>1, <2>2 DEF Drop, Conflict, ConflictFails
<1>5. /\ state' = state /\ undo' = undo /\ redo' = redo /\ closed' = closed
      /\ sync' \in {"synced", "pending", "conflict"}
      /\ \/ base' = base /\ checkpoint' = checkpoint
         \/ base' = sending /\ checkpoint' = state
  <2>1. sync \in {"synced", "pending", "conflict"}
    BY DEF IInv, Typed
  <2> QED
    BY <2>1 DEF Answer, Saved, Queued, SaveConflict, SaveFailed, Capture, session, stacks
<1>6. base' \in Requested /\ checkpoint' \in GoodStates
  BY <1>1, <1>5, Parts
<1>7. CheckpointIsBase'
  BY <1>1, <1>5, Parts DEF CheckpointIsBase, Content
<1>8. Typed'
  BY <1>1, <1>5 DEF IInv, Typed
<1>9. AllGood' /\ SentIsCurrent'
  BY <1>1, <1>5, <1>6, Parts DEF AllGood, SentIsCurrent
<1>10. AllRequested'
  BY <1>2, <1>3, <1>4, <1>6 DEF AllRequested
<1> QED BY <1>7, <1>8, <1>9, <1>10 DEF IInv

(* What happens around the session leaves the session alone. *)
LEMMA OtherStep ==
  ASSUME IInv, NEW r \in Revision, Retry(r) \/ Archive(r)
  PROVE  IInv'
<1>1. /\ state' = state /\ checkpoint' = checkpoint /\ undo' = undo /\ redo' = redo
      /\ base' = base /\ sync' = sync /\ closed' = closed
      /\ sending' = sending /\ contents' = contents /\ parent' = parent
  BY DEF Retry, Archive, session, stacks, store
<1>2. /\ r \in pending \cup conflicts
      /\ chain' = chain \/ chain' = Committed(r)
      /\ Drop(r) \/ Conflict(r) \/ ConflictFails(r) \/ UNCHANGED outbox
  BY DEF Retry, Archive, store
<1>3. /\ chain \in Seq(Requested) /\ chain # <<>>
      /\ pending \subseteq Requested /\ conflicts \subseteq Requested
  BY DEF IInv, AllRequested
<1>4. Requested' = Requested
  BY <1>1 DEF Requested
<1>5. r \in Requested
  BY <1>2, <1>3
<1>6. chain' \in Seq(Requested) /\ chain' # <<>>
  BY <1>2, <1>3, <1>5, ChainGrows
<1>7. AllRequested'
  BY <1>1, <1>2, <1>3, <1>4, <1>5, <1>6, Parts
     DEF AllRequested, Drop, Conflict, ConflictFails, outbox
<1>8. Typed' /\ AllGood' /\ CheckpointIsBase'
  BY <1>1, Parts DEF IInv, Typed, AllGood, CheckpointIsBase, Content
<1>9. SentIsCurrent'
  BY <1>1, <1>4 DEF IInv, SentIsCurrent, Content
<1> QED BY <1>7, <1>8, <1>9 DEF IInv

LEMMA ElsewhereStep ==
  ASSUME IInv, NEW r \in Revision, NEW s \in Elsewhere, SaveElsewhere(r, s)
  PROVE  IInv'
<1>1. s \in Snapshot /\ Acceptable(s) /\ Request(r, Last(chain), s)
  BY ElsewhereAssumption DEF SaveElsewhere
<1>2. /\ contents' \in [Revision -> Snapshot \cup {NoContent}]
      /\ contents'[r] = s /\ r \notin Requested
      /\ \A q \in Requested : contents'[q] = contents[q]
      /\ Requested' = Requested \cup {r}
      /\ chain \in Seq(Requested') /\ base # r
  BY <1>1, Requests
<1>3. /\ state' = state /\ checkpoint' = checkpoint /\ undo' = undo /\ redo' = redo
      /\ base' = base /\ sync' = sync /\ closed' = closed /\ sending' = sending
      /\ pending' = pending /\ conflicts' = conflicts /\ chain' = Append(chain, r)
  BY DEF SaveElsewhere, session, stacks, outbox
<1>4. parent' \in [Revision -> Revision \cup {NoRevision}]
  <2>1. Last(chain) \in Revision
    BY OfChain DEF Requested
  <2> QED BY <1>1, <2>1 DEF IInv, Typed, Request
<1>5. chain' \in Seq(Requested') /\ chain' # <<>>
  BY <1>2, <1>3
<1>6. Typed' /\ AllGood'
  BY <1>2, <1>3, <1>4, Parts DEF IInv, Typed, AllGood
<1>7. AllRequested'
  BY <1>2, <1>3, <1>5 DEF IInv, AllRequested
<1>8. CheckpointIsBase'
  BY <1>2, <1>3, Parts DEF CheckpointIsBase, Content
<1>9. SentIsCurrent'
  BY <1>2, <1>3 DEF IInv, SentIsCurrent, Content
<1> QED BY <1>6, <1>7, <1>8, <1>9 DEF IInv

LEMMA InitIInv == Init => IInv
<1> SUFFICES ASSUME Init PROVE IInv
  OBVIOUS
<1>1. PICK r \in Revision, s \in Elsewhere :
        /\ chain = <<r>>
        /\ contents = [q \in Revision |-> IF q = r THEN s ELSE NoContent]
        /\ parent = [q \in Revision |-> NoRevision]
        /\ state = StateFrom(s, ToSet(s.libraries)) /\ checkpoint = state
        /\ undo = <<>> /\ redo = <<>>
        /\ base = r /\ sync = "synced" /\ closed = FALSE
        /\ sending = NoRevision
        /\ pending = {} /\ conflicts = {}
  BY Zenon DEF Init
<1>2. s \in Snapshot /\ Acceptable(s)
  BY ElsewhereAssumption
<1>3. state \in GoodStates /\ Content(state) = s
  BY <1>1, <1>2, StateFromIsGood DEF GoodStates, Good
<1>4. contents[r] = s /\ r \in Requested
  BY <1>1, <1>2 DEF Requested
<1>5. Typed
  BY <1>1, <1>2 DEF Typed
<1>6. AllGood /\ SentIsCurrent /\ CheckpointIsBase
  BY <1>1, <1>3, <1>4 DEF AllGood, SentIsCurrent, CheckpointIsBase
<1>7. AllRequested
  BY <1>1, <1>4 DEF AllRequested
<1> QED BY <1>5, <1>6, <1>7 DEF IInv

LEMMA NextIInv == IInv /\ [Next]_vars => IInv'
<1> SUFFICES ASSUME IInv, [Next]_vars PROVE IInv'
  OBVIOUS
<1>1. CASE Edit
  BY <1>1, EditStep
<1>2. CASE Undo \/ Redo
  BY <1>2, UndoStep
<1>3. CASE \/ ClearEditHistory \/ Reload \/ DiscardUnsavedChanges \/ Open \/ SaveRefused
           \/ \E discard \in BOOLEAN : Close(discard)
  BY <1>3, LifeStep
<1>4. CASE Answer
  BY <1>4, AnswerStep
<1>5. ASSUME NEW r \in Revision, Save(r)
      PROVE  IInv'
  BY <1>5, SaveStep
<1>6. ASSUME NEW r \in Revision, Retry(r) \/ Archive(r)
      PROVE  IInv'
  BY <1>6, OtherStep
<1>7. ASSUME NEW r \in Revision, NEW s \in Elsewhere, SaveElsewhere(r, s)
      PROVE  IInv'
  BY <1>7, ElsewhereStep
<1>8. CASE UNCHANGED vars
  <2>1. /\ state' = state /\ checkpoint' = checkpoint /\ undo' = undo /\ redo' = redo
        /\ base' = base /\ sync' = sync /\ closed' = closed /\ sending' = sending
        /\ contents' = contents /\ parent' = parent /\ chain' = chain
        /\ pending' = pending /\ conflicts' = conflicts
    BY <1>8 DEF vars, session, stacks, store, outbox
  <2> QED BY <2>1 DEF IInv, Typed, AllGood, AllRequested, Requested, SentIsCurrent,
                     CheckpointIsBase, Content
<1> QED BY <1>1, <1>2, <1>3, <1>4, <1>5, <1>6, <1>7, <1>8, Zenon DEF Next

-----------------------------------------------------------------------------
(* Theorems *)

(* The inductive invariant: the states of the session are good, its base   *)
(* and what the store and the outbox have were requested and can be        *)
(* stored, the worker's request is the present state, and the checkpoint   *)
(* is what the base holds.                                                 *)
THEOREM SessionInvariant == Spec => []IInv
<1>1. Init => IInv
  BY InitIInv
<1>2. IInv /\ [Next]_vars => IInv'
  BY NextIInv
<1> QED BY <1>1, <1>2, PTL DEF Spec

(* Every variable has its type, for any annotations, libraries and bounds. *)
THEOREM SessionTypes == Spec => []TypeOK
<1>1. IInv => TypeOK
  <2> SUFFICES ASSUME IInv PROVE TypeOK
    OBVIOUS
  <2>1. GoodStates \subseteq State /\ Requested \subseteq Revision
    BY DEF GoodStates, Requested
  <2>2. undo \in Seq(State) /\ redo \in Seq(State)
    BY <2>1, Parts, Widened
  <2>3. chain \in Seq(Revision)
    BY <2>1, Widened DEF IInv, AllRequested
  <2>4. state \in State /\ checkpoint \in State /\ base \in Revision
    BY <2>1, Parts, Zenon
  <2>5. pending \in SUBSET Revision /\ conflicts \in SUBSET Revision
    BY <2>1 DEF IInv, AllRequested
  <2> QED BY <2>2, <2>3, <2>4, <2>5 DEF IInv, Typed, TypeOK
<1> QED BY <1>1, SessionInvariant, PTL

LEMMA HistoryIsGood == IInv => \A s \in history : Good(s)
<1> SUFFICES ASSUME IInv PROVE \A s \in history : Good(s)
  OBVIOUS
<1>1. ToSet(undo) \subseteq GoodStates /\ ToSet(redo) \subseteq GoodStates
  BY Parts, ElementOfSeq DEF ToSet
<1> QED BY <1>1, Parts DEF history, GoodStates

(* Whatever undo, redo, restore_revision and discard bring back can be     *)
(* saved: unique annotation ids, distinct pins, and every concept's        *)
(* library pinned in that same state.                                      *)
THEOREM StatesAreAcceptable == Spec => []HistoryIsAcceptable
<1>1. IInv => HistoryIsAcceptable
  BY HistoryIsGood DEF HistoryIsAcceptable, Good
<1> QED BY <1>1, SessionInvariant, PTL

(* The index and the validator of a state are those of its own annotations *)
(* and pins, through every edit, undo, redo and restored revision.         *)
THEOREM CachesStayFresh == Spec => []CachesAreFresh
<1>1. IInv => CachesAreFresh
  BY HistoryIsGood DEF CachesAreFresh, Good, Fresh, Indexes, Ids
<1> QED BY <1>1, SessionInvariant, PTL

(* What the session takes for unchanged is what its base revision holds,   *)
(* whatever the answer of the save was and whoever saved meanwhile.        *)
THEOREM CheckpointMatchesBase == Spec => []CheckpointIsBase
<1>1. IInv => CheckpointIsBase
  BY DEF IInv
<1> QED BY <1>1, SessionInvariant, PTL

-----------------------------------------------------------------------------
(* Nothing unsaved is dropped in silence *)

ClosedIsClean == closed => ~dirty

LEMMA StutterRests ==
  UNCHANGED vars => closed' = closed /\ state' = state /\ checkpoint' = checkpoint
BY DEF vars, session

LEMMA ClosedStaysClean == IInv /\ ClosedIsClean /\ [Next]_vars => ClosedIsClean'
<1> SUFFICES ASSUME IInv, ClosedIsClean, [Next]_vars, closed' PROVE (~dirty)'
  BY DEF ClosedIsClean
<1>1. CASE closed /\ state' = state /\ checkpoint' = checkpoint
  BY <1>1 DEF ClosedIsClean, dirty, Same, Content
<1>2. ASSUME NEW s, Mutate(s) PROVE FALSE
  BY <1>2 DEF Mutate, Free
<1>3. CASE Edit
  BY <1>2, <1>3, EditMutates, Zenon DEF Mutates
<1>4. CASE Undo \/ Redo \/ ClearEditHistory \/ Reload \/ DiscardUnsavedChanges \/ SaveRefused
  BY <1>4 DEF Undo, Redo, ClearEditHistory, Reload, DiscardUnsavedChanges, SaveRefused, Free
<1>5. CASE Open
  BY <1>5 DEF Open
<1>6. ASSUME NEW discard \in BOOLEAN, Close(discard)
      PROVE  (~dirty)'
  <2>1. checkpoint' = checkpoint /\ (state' = checkpoint \/ (~dirty /\ state' = state))
    BY <1>6 DEF Close
  <2> QED BY <2>1 DEF dirty, Same, Content
<1>7. CASE Answer
  BY <1>7, AnswerStep DEF Answer, IInv, SentIsCurrent, Saved, Queued, SaveConflict,
     SaveFailed, Capture, session
<1>8. ASSUME NEW r \in Revision, Save(r)
      PROVE  FALSE
  BY <1>8 DEF Save, Free, Capture, session
<1>9. ASSUME NEW r \in Revision, Retry(r) \/ Archive(r)
      PROVE  (~dirty)'
  <2>1. closed' = closed /\ state' = state /\ checkpoint' = checkpoint
    BY <1>9 DEF Retry, Archive, session
  <2> QED BY <1>1, <2>1
<1>10. ASSUME NEW r \in Revision, NEW s \in Elsewhere, SaveElsewhere(r, s)
       PROVE  (~dirty)'
  <2>1. closed' = closed /\ state' = state /\ checkpoint' = checkpoint
    BY <1>10 DEF SaveElsewhere, session
  <2> QED BY <1>1, <2>1
<1>11. CASE UNCHANGED vars
  <2>1. closed' = closed /\ state' = state /\ checkpoint' = checkpoint
    BY <1>11, StutterRests, Zenon
  <2> QED BY <2>1 DEF ClosedIsClean, dirty, Same, Content
<1> QED BY <1>3, <1>4, <1>5, <1>6, <1>7, <1>8, <1>9, <1>10, <1>11, Zenon DEF Next

LEMMA StepStaysInReach ==
  ASSUME IInv, ClosedIsClean, Next, dirty, state' # state
  PROVE  \/ state \in ToSet(undo') \cup ToSet(redo')
         \/ Reload \/ DiscardUnsavedChanges \/ Close(TRUE)
<1>1. state \in ToSet(Append(undo, state)) /\ state \in ToSet(Append(redo, state))
  BY Parts, AppendExtends DEF Extended
<1>2. ASSUME NEW s, Mutate(s) PROVE state \in ToSet(undo')
  BY <1>1, <1>2 DEF Mutate
<1>3. CASE Edit
  BY <1>2, <1>3, EditMutates, Zenon DEF Mutates
<1>4. CASE Undo \/ Redo
  BY <1>1, <1>4 DEF Undo, Redo
<1>5. CASE ClearEditHistory \/ SaveRefused
  BY <1>5 DEF ClearEditHistory, SaveRefused
<1>6. CASE Open
  BY <1>6 DEF Open, ClosedIsClean
<1>7. CASE Close(FALSE)
  BY <1>7 DEF Close
<1>8. CASE Answer
  BY <1>8 DEF Answer, Saved, Queued, SaveConflict, SaveFailed, Capture, session
<1>9. ASSUME NEW r \in Revision, Save(r) \/ Retry(r) \/ Archive(r)
      PROVE  FALSE
  BY <1>9 DEF Save, Retry, Archive, Capture, session
<1>10. ASSUME NEW r \in Revision, NEW s \in Elsewhere, SaveElsewhere(r, s)
       PROVE  FALSE
  BY <1>10 DEF SaveElsewhere, session
<1> QED BY <1>3, <1>4, <1>5, <1>6, <1>7, <1>8, <1>9, <1>10 DEF Next

(* Only a call that says so gives up an unsaved state; any other step that *)
(* leaves it keeps it on one of the stacks.                                *)
THEOREM UnsavedStateIsKept == Spec => UnsavedStateStaysInReach
<1>1. Init => ClosedIsClean
  BY DEF Init, ClosedIsClean
<1>2. Spec => []ClosedIsClean
  BY <1>1, ClosedStaysClean, SessionInvariant, PTL DEF Spec
<1>3. IInv /\ ClosedIsClean /\ [Next]_vars =>
        [dirty /\ state' # state =>
           \/ state \in ToSet(undo') \cup ToSet(redo')
           \/ Reload \/ DiscardUnsavedChanges \/ Close(TRUE)]_vars
  BY StepStaysInReach
<1> QED BY <1>2, <1>3, SessionInvariant, PTL DEF Spec, UnsavedStateStaysInReach

-----------------------------------------------------------------------------
(* Two stacks make a line *)

Line(u, s, r) == u \o <<s>> \o Reverse(r)

LEMMA Reversed ==
  ASSUME NEW S, NEW r \in Seq(S)
  PROVE  /\ Reverse(r) \in Seq(S) /\ Len(Reverse(r)) = Len(r)
         /\ \A i \in 1..Len(r) : Reverse(r)[i] = r[Len(r) - i + 1]
<1>1. Len(r) \in Nat /\ \A i \in 1..Len(r) : r[i] \in S
  OBVIOUS
<1>2. Reverse(r) = [i \in 1..Len(r) |-> r[(Len(r) - i) + 1]]
  BY DEF Reverse
<1>3. \A i \in 1..Len(r) : (Len(r) - i) + 1 \in 1..Len(r)
  BY <1>1
<1> QED BY <1>1, <1>2, <1>3

Concat(c, a, b) ==
  /\ Len(c) = Len(a) + Len(b)
  /\ \A i \in 1..Len(a) : c[i] = a[i]
  /\ \A i \in 1..Len(b) : c[Len(a) + i] = b[i]

LEMMA Concatenated ==
  ASSUME NEW S, NEW a \in Seq(S), NEW b \in Seq(S)
  PROVE  a \o b \in Seq(S) /\ Concat(a \o b, a, b)
<1>1. PICK c : c = a \o b
  OBVIOUS
<1>2. /\ c \in Seq(S) /\ Len(c) = Len(a) + Len(b)
      /\ \A i \in 1..(Len(a) + Len(b)) : c[i] = IF i <= Len(a) THEN a[i] ELSE b[i - Len(a)]
  BY <1>1, ConcatProperties
<1>3. PICK m \in Nat, n \in Nat : m = Len(a) /\ n = Len(b)
  OBVIOUS
<1>4. \A i \in 1..m : c[i] = a[i]
  BY <1>2, <1>3
<1>5. ASSUME NEW i \in 1..n
      PROVE  c[m + i] = b[i]
  <2>1. m + i \in 1..(m + n) /\ ~(m + i <= m) /\ (m + i) - m = i
    BY <1>3
  <2> QED BY <1>2, <1>3, <2>1
<1>6. Concat(c, a, b)
  BY <1>2, <1>3, <1>4, <1>5, Zenon DEF Concat
<1> QED BY <1>1, <1>2, <1>6, Zenon

(* Place by place: what was undone into lies behind, in order, and what    *)
(* was undone lies ahead, the last of it first.                            *)
IsLine(l, u, s, r) ==
  /\ Len(l) = Len(u) + 1 + Len(r)
  /\ \A i \in 1..Len(u) : l[i] = u[i]
  /\ l[Len(u) + 1] = s
  /\ \A i \in 1..Len(r) : l[Len(u) + 1 + i] = r[Len(r) - i + 1]

LEMMA LineFacts ==
  ASSUME NEW S, NEW u \in Seq(S), NEW s \in S, NEW r \in Seq(S)
  PROVE  Line(u, s, r) \in Seq(S) /\ IsLine(Line(u, s, r), u, s, r)
<1>1. PICK b \in Seq(S) :
        /\ b = Reverse(r) /\ Len(b) = Len(r)
        /\ \A i \in 1..Len(r) : b[i] = r[Len(r) - i + 1]
  <2>1. PICK b : b = Reverse(r)
    OBVIOUS
  <2> QED BY <2>1, Reversed
<1>2. PICK one \in Seq(S) : one = <<s>> /\ Len(one) = 1 /\ one[1] = s
  <2>1. <<s>> \in Seq(S) /\ Len(<<s>>) = 1 /\ <<s>>[1] = s
    OBVIOUS
  <2> QED BY <2>1, Zenon
<1>3. PICK a \in Seq(S) : a = u \o one /\ Concat(a, u, one)
  BY Concatenated, Zenon
<1>4. PICK l \in Seq(S) : l = a \o b /\ Concat(l, a, b)
  BY Concatenated, Zenon
<1>5. l = Line(u, s, r)
  BY <1>1, <1>2, <1>3, <1>4, Zenon DEF Line
<1>6. PICK m \in Nat, n \in Nat : m = Len(u) /\ n = Len(r)
  OBVIOUS
<1>7. Len(a) = m + 1 /\ (\A i \in 1..m : a[i] = u[i]) /\ a[m + 1] = s
  BY <1>2, <1>3, <1>6 DEF Concat
<1>8. /\ Len(l) = m + 1 + n
      /\ \A i \in 1..(m + 1) : l[i] = a[i]
      /\ \A i \in 1..n : l[m + 1 + i] = b[i]
  BY <1>1, <1>4, <1>6, <1>7 DEF Concat
<1>9. (\A i \in 1..m : l[i] = u[i]) /\ l[m + 1] = s
  BY <1>6, <1>7, <1>8
<1>10. IsLine(l, u, s, r)
  BY <1>1, <1>6, <1>8, <1>9, Zenon DEF IsLine
<1> QED BY <1>5, <1>10, Zenon

(* Stack v is u with s on top. *)
Tops(v, u, s) == Len(v) = Len(u) + 1 /\ v[Len(u) + 1] = s /\ \A i \in 1..Len(u) : v[i] = u[i]

LEMMA AppendTops ==
  ASSUME NEW S, NEW u \in Seq(S), NEW s \in S
  PROVE  Append(u, s) \in Seq(S) /\ Tops(Append(u, s), u, s)
<1>1. PICK v : v = Append(u, s)
  OBVIOUS
<1>2. /\ v \in Seq(S) /\ Len(v) = Len(u) + 1
      /\ \A i \in 1..Len(u) : v[i] = u[i]
      /\ v[Len(u) + 1] = s
  BY <1>1
<1> QED BY <1>1, <1>2, Zenon DEF Tops

LEMMA LastTops ==
  ASSUME NEW S, NEW u \in Seq(S), u # <<>>
  PROVE  Front(u) \in Seq(S) /\ Last(u) \in S /\ Tops(u, Front(u), Last(u))
<1>1. /\ Len(u) \in DOMAIN u /\ Last(u) = u[Len(u)] /\ Last(u) \in S
      /\ Front(u) \in Seq(S) /\ Len(Front(u)) = Len(u) - 1
      /\ \A i \in 1..(Len(u) - 1) : Front(u)[i] = u[i]
  BY Popped
<1>2. Len(u) = Len(Front(u)) + 1
  BY <1>1
<1>3. Len(u) - 1 = Len(Front(u))
  BY <1>1, Zenon
<1> QED BY <1>1, <1>2, <1>3, Zenon DEF Tops

SameLine(u, s, r, u2, s2, r2) == Line(u2, s2, r2) = Line(u, s, r)

(* Moving the state between the stacks leaves the line as it is. *)
LEMMA LineMoves ==
  ASSUME NEW S, NEW u \in Seq(S), NEW s \in S, NEW r \in Seq(S),
         NEW u2 \in Seq(S), NEW s2 \in S, NEW r2 \in Seq(S),
         Tops(u, u2, s2), Tops(r2, r, s)
  PROVE  SameLine(u, s, r, u2, s2, r2)
<1>1. PICK a \in Seq(S) : a = Line(u, s, r) /\ IsLine(a, u, s, r)
  BY LineFacts, Zenon
<1>2. PICK b \in Seq(S) : b = Line(u2, s2, r2) /\ IsLine(b, u2, s2, r2)
  BY LineFacts, Zenon
<1>3. PICK m \in Nat, n \in Nat : m = Len(u2) /\ n = Len(r)
  OBVIOUS
<1>4. Len(u) = m + 1 /\ u[m + 1] = s2 /\ \A i \in 1..m : u[i] = u2[i]
  BY <1>3, Zenon DEF Tops
<1>5. Len(r2) = n + 1 /\ r2[n + 1] = s /\ \A i \in 1..n : r2[i] = r[i]
  BY <1>3, Zenon DEF Tops
<1>6. /\ Len(a) = (m + 1) + 1 + n /\ a[(m + 1) + 1] = s
      /\ \A i \in 1..(m + 1) : a[i] = u[i]
      /\ \A i \in 1..n : a[(m + 1) + 1 + i] = r[n - i + 1]
  BY <1>1, <1>3, <1>4, Zenon DEF IsLine
<1>7. /\ Len(b) = m + 1 + (n + 1) /\ b[m + 1] = s2
      /\ \A i \in 1..m : b[i] = u2[i]
      /\ \A i \in 1..(n + 1) : b[m + 1 + i] = r2[(n + 1) - i + 1]
  BY <1>2, <1>3, <1>5, Zenon DEF IsLine
<1>8. ASSUME NEW i \in 1..(m + n + 2)
      PROVE  a[i] = b[i]
  <2>1. CASE i \in 1..m
    <3>1. i \in 1..(m + 1)
      BY <2>1
    <3> QED BY <1>3, <1>4, <1>6, <1>7, <2>1, <3>1, Zenon
  <2>2. CASE i = m + 1
    <3>1. i \in 1..(m + 1)
      BY <2>2
    <3> QED BY <1>3, <1>4, <1>6, <1>7, <2>2, <3>1, Zenon
  <2>3. CASE i = (m + 1) + 1
    <3>1. 1 \in 1..(n + 1) /\ (n + 1) - 1 + 1 = n + 1 /\ m + 1 + 1 = i
      BY <2>3
    <3>2. b[m + 1 + 1] = r2[(n + 1) - 1 + 1]
      BY <1>7, <3>1, Zenon
    <3> QED BY <1>5, <1>6, <2>3, <3>1, <3>2, Zenon
  <2>4. CASE i > m + 2
    <3>1. PICK j \in 1..n : i = (m + 1) + 1 + j
      <4>1. i - (m + 2) \in 1..n /\ i = (m + 1) + 1 + (i - (m + 2))
        BY <2>4
      <4> QED BY <4>1, Zenon
    <3>2. /\ n - j + 1 \in 1..n /\ j + 1 \in 1..(n + 1)
          /\ i = m + 1 + (j + 1) /\ (n + 1) - (j + 1) + 1 = n - j + 1
      BY <3>1
    <3>3. a[i] = r[n - j + 1]
      BY <1>6, <3>1, Zenon
    <3>4. b[m + 1 + (j + 1)] = r2[(n + 1) - (j + 1) + 1]
      BY <1>7, <3>2, Zenon
    <3>5. r2[n - j + 1] = r[n - j + 1]
      BY <1>5, <3>2, Zenon
    <3> QED BY <3>2, <3>3, <3>4, <3>5, Zenon
  <2> QED BY <2>1, <2>2, <2>3, <2>4
<1>9. Len(a) = m + n + 2 /\ Len(b) = m + n + 2
  BY <1>6, <1>7
<1>10. a = b
  BY <1>8, <1>9, SeqEqual, Zenon
<1> QED BY <1>1, <1>2, <1>10, Zenon DEF SameLine

(* An edit lengthens the line by the new state and cuts off the rest. *)
Cuts(u, s, r, s2) ==
  /\ Len(Append(u, s)) = Len(u) + 1
  /\ Len(Line(Append(u, s), s2, <<>>)) = Len(u) + 2
  /\ \A i \in 1..(Len(u) + 1) : Line(Append(u, s), s2, <<>>)[i] = Line(u, s, r)[i]
  /\ Line(Append(u, s), s2, <<>>)[Len(u) + 2] = s2
  /\ Line(u, s, r)[Len(u) + 1] = s

LEMMA LineCut ==
  ASSUME NEW S, NEW u \in Seq(S), NEW s \in S, NEW r \in Seq(S), NEW s2 \in S
  PROVE  Cuts(u, s, r, s2)
<1>1. PICK a \in Seq(S) : a = Line(u, s, r) /\ IsLine(a, u, s, r)
  BY LineFacts, Zenon
<1>2. PICK v \in Seq(S) :
        /\ v = Append(u, s) /\ Len(v) = Len(u) + 1
        /\ \A i \in 1..Len(u) : v[i] = u[i]
        /\ v[Len(u) + 1] = s
  <2>1. PICK v : v = Append(u, s)
    OBVIOUS
  <2>2. /\ v \in Seq(S) /\ Len(v) = Len(u) + 1
        /\ \A i \in 1..Len(u) : v[i] = u[i]
        /\ v[Len(u) + 1] = s
    BY <2>1
  <2> QED BY <2>1, <2>2, Zenon
<1>3. PICK none \in Seq(S) : none = <<>> /\ Len(none) = 0
  <2>1. <<>> \in Seq(S) /\ Len(<<>>) = 0
    OBVIOUS
  <2> QED BY <2>1, Zenon
<1>4. PICK b \in Seq(S) : b = Line(v, s2, none) /\ IsLine(b, v, s2, none)
  BY LineFacts, Zenon
<1>5. PICK m \in Nat : m = Len(u)
  OBVIOUS
<1>6. (\A i \in 1..m : a[i] = u[i]) /\ a[m + 1] = s
  BY <1>1, <1>5, Zenon DEF IsLine
<1>7. /\ Len(b) = (m + 1) + 1 + 0 /\ b[(m + 1) + 1] = s2
      /\ \A i \in 1..(m + 1) : b[i] = v[i]
  BY <1>2, <1>3, <1>4, <1>5, Zenon DEF IsLine
<1>8. Len(b) = m + 2 /\ b[m + 2] = s2
  BY <1>7
<1>9. \A i \in 1..(m + 1) : b[i] = a[i]
  BY <1>2, <1>5, <1>6, <1>7
<1> QED BY <1>1, <1>2, <1>3, <1>4, <1>5, <1>6, <1>8, <1>9, Zenon DEF Cuts

LEMMA LineStarts ==
  ASSUME NEW S, NEW s \in S
  PROVE  Len(Line(<<>>, s, <<>>)) = 1 /\ Line(<<>>, s, <<>>)[1] = s /\ Len(<<>>) + 1 = 1
<1>1. PICK none \in Seq(S) : none = <<>> /\ Len(none) = 0
  <2>1. <<>> \in Seq(S) /\ Len(<<>>) = 0
    OBVIOUS
  <2> QED BY <2>1, Zenon
<1>2. PICK l : l = Line(none, s, none) /\ IsLine(l, none, s, none)
  BY LineFacts, Zenon
<1>3. Len(l) = 0 + 1 + 0 /\ l[0 + 1] = s
  BY <1>1, <1>2, Zenon DEF IsLine
<1>4. Len(l) = 1 /\ l[1] = s /\ Len(none) + 1 = 1
  BY <1>1, <1>3
<1> QED BY <1>1, <1>2, <1>4, Zenon

LEMMA TimelineIsLine == timeline = Line(undo, state, redo)
BY Zenon DEF timeline, Line

LEMMA InState ==
  ASSUME IInv
  PROVE  state \in State /\ undo \in Seq(State) /\ redo \in Seq(State)
<1>1. GoodStates \subseteq State
  BY DEF GoodStates
<1> QED BY <1>1, Parts, Widened

(* An edit of the session is an edit of the timeline. *)
LEMMA MutateRefines ==
  ASSUME IInv, NEW s \in State, Mutate(s)
  PROVE  Timeline!Edit
<1>1. PICK u \in Seq(State), t \in State, r \in Seq(State) : u = undo /\ t = state /\ r = redo
  BY InState
<1>2. undo' = Append(u, t) /\ state' = s /\ redo' = <<>> /\ s # t
  BY <1>1 DEF Mutate, Same
<1>3. timeline = Line(u, t, r) /\ timeline' = Line(Append(u, t), s, <<>>)
  BY <1>1, <1>2, TimelineIsLine, Zenon DEF timeline, Line
<1>4. Cuts(u, t, r, s)
  BY LineCut, Zenon
<1>5. PICK m \in Nat : m = Len(u)
  OBVIOUS
<1>6. Len(undo') + 1 = m + 2 /\ Len(undo) + 1 = m + 1
  <2>1. Len(Append(u, t)) = m + 1
    BY <1>4, <1>5, Zenon DEF Cuts
  <2> QED BY <1>1, <1>2, <1>5, <2>1
<1>7. /\ Len(timeline') = m + 2 /\ timeline'[m + 2] = s /\ timeline[m + 1] = t
      /\ \A i \in 1..(m + 1) : timeline'[i] = timeline[i]
  BY <1>3, <1>4, <1>5, Zenon DEF Cuts
<1>8. m + 2 = (m + 1) + 1
  OBVIOUS
<1>9. s \in State \ {timeline[m + 1]}
  BY <1>2, <1>7
<1> QED BY <1>6, <1>7, <1>8, <1>9, Zenon DEF Timeline!Edit, Timeline!current

LEMMA UndoRefines ==
  ASSUME IInv, Undo
  PROVE  Timeline!Undo
<1>1. PICK u \in Seq(State), t \in State, r \in Seq(State) : u = undo /\ t = state /\ r = redo
  BY InState
<1>2. PICK u2 \in Seq(State), t2 \in State : u2 = Front(u) /\ t2 = Last(u) /\ Tops(u, u2, t2)
  <2>1. u # <<>>
    BY <1>1 DEF Undo
  <2> QED BY <2>1, LastTops, Zenon
<1>3. PICK r2 \in Seq(State) : r2 = Append(r, t) /\ Tops(r2, r, t)
  BY AppendTops, Zenon
<1>4. undo' = u2 /\ state' = t2 /\ redo' = r2
  BY <1>1, <1>2, <1>3, Zenon DEF Undo
<1>5. timeline = Line(u, t, r) /\ timeline' = Line(u2, t2, r2)
  BY <1>1, <1>4, Zenon DEF timeline, Line
<1>6. SameLine(u, t, r, u2, t2, r2)
  BY <1>2, <1>3, LineMoves, Zenon
<1>7. Len(undo) + 1 > 1 /\ Len(undo') + 1 = (Len(undo) + 1) - 1
  <2>1. PICK m \in Nat : m = Len(u2)
    OBVIOUS
  <2>2. Len(undo) = m + 1 /\ Len(undo') = m
    BY <1>1, <1>2, <1>4, <2>1, Zenon DEF Tops
  <2> QED BY <2>2
<1> QED BY <1>5, <1>6, <1>7, Zenon DEF Timeline!Undo, SameLine

LEMMA RedoRefines ==
  ASSUME IInv, Redo
  PROVE  Timeline!Redo
<1>1. PICK u \in Seq(State), t \in State, r \in Seq(State) : u = undo /\ t = state /\ r = redo
  BY InState
<1>2. PICK r2 \in Seq(State), t2 \in State : r2 = Front(r) /\ t2 = Last(r) /\ Tops(r, r2, t2)
  <2>1. r # <<>>
    BY <1>1 DEF Redo
  <2> QED BY <2>1, LastTops, Zenon
<1>3. PICK u2 \in Seq(State) : u2 = Append(u, t) /\ Tops(u2, u, t)
  BY AppendTops, Zenon
<1>4. undo' = u2 /\ state' = t2 /\ redo' = r2
  BY <1>1, <1>2, <1>3, Zenon DEF Redo
<1>5. timeline = Line(u, t, r) /\ timeline' = Line(u2, t2, r2)
  BY <1>1, <1>4, Zenon DEF timeline, Line
<1>6. SameLine(u2, t2, r2, u, t, r)
  BY <1>2, <1>3, LineMoves, Zenon
<1>7. /\ Len(undo) + 1 < Len(timeline)
      /\ Len(undo') + 1 = (Len(undo) + 1) + 1
  <2>1. PICK m \in Nat, n \in Nat : m = Len(u) /\ n = Len(r2)
    OBVIOUS
  <2>2. Len(undo) = m /\ Len(undo') = m + 1 /\ Len(r) = n + 1
    BY <1>1, <1>2, <1>3, <1>4, <2>1, Zenon DEF Tops
  <2>3. IsLine(timeline, u, t, r)
    BY <1>5, LineFacts, Zenon
  <2>4. Len(timeline) = m + 1 + (n + 1)
    BY <2>1, <2>2, <2>3, Zenon DEF IsLine
  <2> QED BY <2>2, <2>4
<1> QED BY <1>5, <1>6, <1>7, Zenon DEF Timeline!Redo, SameLine

LEMMA RestartRefines ==
  ASSUME state' \in State, undo' = <<>>, redo' = <<>>
  PROVE  Timeline!Restart
<1>1. PICK t \in State : t = state'
  OBVIOUS
<1>2. timeline' = Line(<<>>, t, <<>>)
  BY <1>1, Zenon DEF timeline, Line
<1>3. Len(Line(<<>>, t, <<>>)) = 1 /\ Line(<<>>, t, <<>>)[1] = t /\ Len(<<>>) + 1 = 1
  BY LineStarts, Zenon
<1> QED BY <1>1, <1>2, <1>3, Zenon DEF Timeline!Restart

LEMMA RestsRefines ==
  ASSUME state' = state, undo' = undo, redo' = redo
  PROVE  UNCHANGED <<timeline, Len(undo) + 1>>
BY Zenon DEF timeline

Refines == [Timeline!Next]_<<timeline, Len(undo) + 1>>

LEMMA StepRefines ==
  ASSUME IInv, [Next]_vars
  PROVE  Refines
<1>1. ASSUME Timeline!Edit \/ Timeline!Undo \/ Timeline!Redo \/ Timeline!Restart
      PROVE  Refines
  BY <1>1, Zenon DEF Timeline!Next, Refines
<1>2. ASSUME state' = state, undo' = undo, redo' = redo
      PROVE  Refines
  BY <1>2, RestsRefines, Zenon DEF Refines
<1>3. ASSUME NEW s \in State, Mutate(s) PROVE Refines
  BY <1>1, <1>3, MutateRefines
<1>4. CASE Edit
  <2>1. PICK s \in GoodStates : Mutate(s)
    BY <1>4, EditMutates DEF Mutates
  <2> QED BY <1>3, <2>1 DEF GoodStates
<1>5. CASE Undo \/ Redo
  BY <1>1, <1>5, UndoRefines, RedoRefines
<1>6. ASSUME state' \in State, Forget PROVE Refines
  BY <1>1, <1>6, RestartRefines DEF Forget
<1>7. state' \in State
  <2>1. IInv'
    BY NextIInv
  <2> QED BY <2>1 DEF IInv, AllGood, GoodStates
<1>8. CASE ClearEditHistory \/ Reload \/ DiscardUnsavedChanges \/ Open
  BY <1>6, <1>7, <1>8 DEF ClearEditHistory, Reload, DiscardUnsavedChanges, Open, StartFrom
<1>9. ASSUME NEW discard \in BOOLEAN, Close(discard) PROVE Refines
  BY <1>6, <1>7, <1>9 DEF Close
<1>10. CASE SaveRefused
  BY <1>2, <1>10 DEF SaveRefused, stacks
<1>11. CASE Answer
  <2>1. state' = state /\ undo' = undo /\ redo' = redo
    BY <1>11 DEF Answer, Saved, Queued, SaveConflict, SaveFailed, Capture, session, stacks
  <2> QED BY <1>2, <2>1
<1>12. ASSUME NEW r \in Revision, Save(r) \/ Retry(r) \/ Archive(r) PROVE Refines
  <2>1. state' = state /\ undo' = undo /\ redo' = redo
    BY <1>12 DEF Save, Retry, Archive, Capture, session, stacks
  <2> QED BY <1>2, <2>1
<1>13. ASSUME NEW r \in Revision, NEW s \in Elsewhere, SaveElsewhere(r, s) PROVE Refines
  <2>1. state' = state /\ undo' = undo /\ redo' = redo
    BY <1>13 DEF SaveElsewhere, session, stacks
  <2> QED BY <1>2, <2>1
<1>14. CASE UNCHANGED vars
  <2>1. state' = state /\ undo' = undo /\ redo' = redo
    BY <1>14 DEF vars, session, stacks
  <2> QED BY <1>2, <2>1
<1> QED
  BY <1>4, <1>5, <1>8, <1>9, <1>10, <1>11, <1>12, <1>13, <1>14, Zenon DEF Next

LEMMA InitRefines ==
  ASSUME Init
  PROVE  Timeline!Init
<1>1. undo = <<>> /\ redo = <<>>
  BY DEF Init
<1>2. PICK t \in State : t = state
  BY InitIInv, InState
<1>3. timeline = Line(<<>>, t, <<>>)
  BY <1>1, <1>2, Zenon DEF timeline, Line
<1>4. Len(Line(<<>>, t, <<>>)) = 1 /\ Line(<<>>, t, <<>>)[1] = t /\ Len(<<>>) + 1 = 1
  BY LineStarts, Zenon
<1> QED BY <1>1, <1>3, <1>4, Zenon DEF Timeline!Init

(* The two stacks and the state between them implement the timeline: undo  *)
(* and redo walk along one line of states and an edit cuts it off.         *)
THEOREM SessionIsTimeline == Spec => ImplementsTimeline
<1>1. Init => Timeline!Init
  BY InitRefines
<1>2. IInv /\ [Next]_vars => [Timeline!Next]_<<timeline, Len(undo) + 1>>
  BY StepRefines DEF Refines
<1> QED BY <1>1, <1>2, SessionInvariant, PTL DEF Spec, ImplementsTimeline, Timeline!Spec

-----------------------------------------------------------------------------
(* The contract of sessions, outbox and store.                             *)

(* What is built on was requested; the request that the worker saves       *)
(* builds on the base, and nothing is built on it before it is stored.     *)
LinkInv ==
  /\ \A o \in Revision : parent[o] \in requested \cup {NoRevision}
  /\ sending # NoRevision =>
       /\ sync = "synced" /\ parent[sending] = base /\ sending # base
       /\ (\E o \in Revision : parent[o] = sending) => sending \in ToSet(chain)

withdrawn == {o \in requested \cap needed : o \notin onFile \cup ToSet(chain)}

LEMMA AllMade ==
  ASSUME IInv
  PROVE  /\ requested \subseteq Revision /\ NoRevision \notin requested
         /\ base \in requested /\ onFile \subseteq requested
         /\ ToSet(chain) \subseteq requested /\ Last(chain) \in ToSet(chain)
         /\ sending # NoRevision => sending \in requested /\ ~closed
         /\ sync # "none"
<1>1. Requested \subseteq requested
  BY SnapshotIsRecord DEF Requested, requested
<1>2. ToSet(chain) \subseteq Requested /\ Last(chain) \in ToSet(chain)
  <2>1. chain \in Seq(Requested) /\ chain # <<>>
    BY DEF IInv, AllRequested
  <2>2. Len(chain) \in DOMAIN chain
    BY <2>1
  <2> QED BY <2>2, OfChain DEF Last, ToSet
<1>3. requested \subseteq Revision /\ NoRevision \notin requested
  BY RevisionAssumption DEF requested
<1> QED BY <1>1, <1>2, <1>3 DEF IInv, Typed, AllRequested, SentIsCurrent, onFile

LEMMA FilesAreMade == IInv => onFile \subseteq requested
BY AllMade

LEMMA ChainAppended ==
  ASSUME IInv, NEW r \in Revision, chain' = Append(chain, r)
  PROVE  ToSet(chain') = ToSet(chain) \cup {r} /\ Last(chain') = r
<1>1. chain \in Seq(Revision)
  <2>1. chain \in Seq(Requested) /\ Requested \subseteq Revision
    BY DEF IInv, AllRequested, Requested
  <2> QED BY <2>1, Widened, Zenon
<1>2. ToSet(chain') = ToSet(chain) \cup {r}
  BY <1>1, Appended
<1>3. Len(chain') = Len(chain) + 1 /\ chain'[Len(chain) + 1] = r
  BY <1>1
<1> QED BY <1>2, <1>3 DEF Last

(* A new request is nowhere yet. *)
LEMMA RequestLinks ==
  ASSUME IInv, LinkInv, NEW r \in Revision, NEW p, NEW s, s # NoContent, Request(r, p, s)
  PROVE  /\ requested' = requested \cup {r} /\ r \notin requested
         /\ parent'[r] = p /\ \A o \in Revision : o # r => parent'[o] = parent[o]
         /\ \A o \in Revision : parent[o] # r
<1>1. contents' = [contents EXCEPT ![r] = s] /\ contents[r] = NoContent
      /\ parent' = [parent EXCEPT ![r] = p]
      /\ contents \in [Revision -> Snapshot \cup {NoContent}]
      /\ parent \in [Revision -> Revision \cup {NoRevision}]
  BY DEF Request, IInv, Typed
<1>2. requested' = requested \cup {r} /\ r \notin requested
  BY <1>1 DEF requested
<1>3. \A o \in Revision : parent[o] # r
  BY <1>2, RevisionAssumption DEF LinkInv
<1> QED BY <1>1, <1>2, <1>3

-----------------------------------------------------------------------------
(* The parts of the contract, one by one.                                  *)
LEMMA StoreRests == ASSUME chain' = chain PROVE Contract!StoreStep
BY DEF Contract!StoreStep

LEMMA StoreAppends ==
  ASSUME IInv, NEW r \in requested', r \notin ToSet(chain), chain' = Append(chain, r),
         parent'[r] = Last(chain)
  PROVE  Contract!StoreStep
<1>1. r \in Revision
  BY DEF requested
<1>2. ToSet(chain') = ToSet(chain) \cup {r} /\ Last(chain') = r
  BY <1>1, ChainAppended
<1> DEFINE target == [o \in Revision |-> IF o \in requested THEN "recording" ELSE "none"]
           newest == [q \in {"recording"} |-> Last(chain)]
<1>3. target'[r] = "recording"
  BY <1>1
<1>4. newest' = [newest EXCEPT !["recording"] = r] /\ newest["recording"] = Last(chain)
  BY <1>2
<1> QED BY <1>1, <1>2, <1>3, <1>4 DEF Contract!StoreStep

LEMMA RequestsRest ==
  ASSUME contents' = contents, parent' = parent
  PROVE  Contract!RequestStep
BY DEF Contract!RequestStep, requested

LEMMA RequestAdds ==
  ASSUME IInv, LinkInv, NEW r \in Revision, NEW p, NEW s, s # NoContent, Request(r, p, s),
         p = Last(chain) \/ (~closed /\ p = base)
  PROVE  Contract!RequestStep
<1> DEFINE target == [o \in Revision |-> IF o \in requested THEN "recording" ELSE "none"]
           newest == [q \in {"recording"} |-> Last(chain)]
           on     == [c \in {"session"} |-> IF closed THEN "none" ELSE "recording"]
           line   == [c \in {"session"} |-> IF closed THEN NoRevision ELSE base]
<1>1. /\ requested' = requested \cup {r} /\ r \notin requested
      /\ parent'[r] = p /\ \A o \in Revision : o # r => parent'[o] = parent[o]
  BY RequestLinks
<1>2. \A o \in Revision : o # r => target'[o] = target[o]
  BY <1>1
<1>3. target[r] = "none" /\ target'[r] = "recording"
  BY <1>1
<1>4. parent'[r] = newest["recording"] \/ (on["session"] = "recording" /\ parent'[r] = line["session"])
  BY <1>1
<1> QED BY <1>1, <1>2, <1>3, <1>4 DEF Contract!RequestStep, Contract!Requested


LEMMA NeededInContract ==
  ASSUME NEW o \in Revision
  PROVE  /\ Contract!Needed(o) => o \in needed
         /\ Contract!Needed(o)' => o \in needed'
<1> DEFINE line == [c \in {"session"} |-> IF closed THEN NoRevision ELSE base]
<1>1. ASSUME Contract!Needed(o) PROVE o \in needed
  <2>1. line["session"] = o \/ \E q \in Revision : parent[q] = o
    BY <1>1 DEF Contract!Needed
  <2> QED BY <2>1 DEF needed
<1>2. ASSUME Contract!Needed(o)' PROVE o \in needed'
  <2>1. line'["session"] = o \/ \E q \in Revision : parent'[q] = o
    BY <1>2 DEF Contract!Needed
  <2> QED BY <2>1 DEF needed
<1> QED BY <1>1, <1>2

(* What is put on file is new, or a conflict of a request that is on file or   *)
(* that nothing needs; and what leaves the files without being stored counts  *)
(* as withdrawn for as long as it is needed.                                  *)
Filed ==
  /\ requested \subseteq requested'
  /\ \A o \in pending' \ pending : o \in requested' /\ o \notin requested
  /\ \A o \in conflicts' \ conflicts : o \in requested /\ (o \in onFile \/ o \notin needed')

LEMMA FilesMove ==
  ASSUME IInv, IInv', Filed
  PROVE  Contract!FileStep
<1> DEFINE target == [o \in Revision |-> IF o \in requested THEN "recording" ELSE "none"]
<1>1. onFile \subseteq requested /\ ToSet(chain) \subseteq requested /\ requested \subseteq Revision
  BY AllMade
<1>2. ASSUME NEW o \in pending' \ pending
      PROVE  /\ Contract!Requested(o)'
             /\ o \notin ToSet(chain) \cup withdrawn
  <2>1. o \in requested' /\ o \in Revision /\ o \notin requested
    BY <1>2 DEF Filed, requested
  <2>2. target'[o] = "recording"
    BY <2>1
  <2> QED BY <1>1, <2>1, <2>2 DEF Contract!Requested, withdrawn
<1>3. ASSUME NEW o \in conflicts' \ conflicts
      PROVE  Contract!Requested(o)'
  <2>1. o \in requested' /\ o \in Revision
    BY <1>1, <1>3 DEF Filed
  <2>2. target'[o] = "recording"
    BY <2>1
  <2> QED BY <2>2 DEF Contract!Requested
<1>4. ASSUME NEW o \in onFile \ onFile'
      PROVE  o \in ToSet(chain)' \cup withdrawn' \/ ~Contract!Needed(o)'
  BY <1>1, <1>4, NeededInContract DEF Filed, withdrawn
<1>5. Contract!waiting = onFile /\ Contract!waiting' = onFile'
  BY DEF Contract!waiting, onFile
<1> QED BY <1>2, <1>3, <1>4, <1>5 DEF Contract!FileStep, withdrawn

LEMMA NothingWithdrawn ==
  ASSUME IInv, IInv', Filed, withdrawn' \subseteq withdrawn
  PROVE  Contract!WithdrawStep
<1>1. ASSUME NEW o \in withdrawn \ withdrawn'
      PROVE  o \in ToSet(chain)' \/ ~Contract!Needed(o)'
  <2>1. o \in requested' /\ o \in Revision /\ o \notin onFile /\ o \in requested
    BY <1>1 DEF Filed, withdrawn, requested
  <2>2. o \in onFile' => o \notin needed'
    BY <2>1 DEF Filed, onFile
  <2> QED BY <1>1, <2>1, <2>2, NeededInContract DEF withdrawn
<1> QED BY <1>1 DEF Contract!WithdrawStep, withdrawn

(* What a step may do to the session. *)
Rests == closed' = closed /\ (~closed => base' = base /\ sync' = sync)

GoesOn(o) ==
  /\ o \in requested' /\ ~closed /\ ~closed' /\ sync # "conflict"
  /\ parent'[o] = base /\ base' = o
  /\ (sync # "pending" /\ sync' = "synced" /\ o \in ToSet(chain')) \/ sync' = "pending"

Stops  == ~closed /\ ~closed' /\ base' = base /\ sync' = "conflict" /\ conflicts' # {}
Starts == ~closed' /\ onFile = {} /\ base' = Last(chain) /\ sync' = "synced"
Leaves == closed'

LEMMA SessionMoves ==
  ASSUME IInv, IInv', Rests \/ (\E o \in Revision : GoesOn(o)) \/ Stops \/ Starts \/ Leaves
  PROVE  Contract!SessionStep
<1> DEFINE on     == [c \in {"session"} |-> IF closed THEN "none" ELSE "recording"]
           line   == [c \in {"session"} |-> IF closed THEN NoRevision ELSE base]
           told   == [c \in {"session"} |-> IF closed THEN "none" ELSE sync]
           target == [o \in Revision |-> IF o \in requested THEN "recording" ELSE "none"]
           newest == [q \in {"recording"} |-> Last(chain)]
<1>1. /\ on["session"] = IF closed THEN "none" ELSE "recording"
      /\ line["session"] = IF closed THEN NoRevision ELSE base
      /\ told["session"] = IF closed THEN "none" ELSE sync
  OBVIOUS
<1>2. /\ on'["session"] = IF closed' THEN "none" ELSE "recording"
      /\ line'["session"] = IF closed' THEN NoRevision ELSE base'
      /\ told'["session"] = IF closed' THEN "none" ELSE sync'
  OBVIOUS
<1>3. \A o \in requested' : target'[o] = "recording" /\ o \in Revision
  BY DEF requested
<1>4. CASE Rests
  <2>1. Contract!Stays("session")
    BY <1>1, <1>2, <1>4 DEF Rests, Contract!Stays
  <2> QED BY <2>1 DEF Contract!SessionStep
<1>5. ASSUME NEW o \in Revision, GoesOn(o)
      PROVE  Contract!SessionStep
  <2>1. /\ on["session"] = "recording" /\ on'["session"] = "recording"
        /\ line["session"] = base /\ line'["session"] = o
        /\ told["session"] = sync /\ told'["session"] = sync'
        /\ target'[o] = "recording" /\ parent'[o] = base /\ sync # "conflict"
    BY <1>1, <1>2, <1>3, <1>5 DEF GoesOn
  <2>2. o \in ToSet(chain)' \cup onFile' \cup withdrawn'
    BY <1>5 DEF GoesOn, withdrawn, needed
  <2>3. Contract!Safe(o)'
    BY <2>2 DEF Contract!Safe, Contract!waiting, onFile, withdrawn
  <2>4. Contract!Advances("session")
    BY <1>5, <2>1, <2>3 DEF GoesOn, Contract!Advances
  <2> QED BY <2>4 DEF Contract!SessionStep
<1>6. CASE Stops
  <2>1. PICK o \in conflicts' : o \in requested'
    <3>1. (onFile \subseteq requested)'
      BY FilesAreMade, PTL
    <3> QED BY <1>6, <3>1 DEF Stops, onFile
  <2>2. sync # "none"
    BY AllMade
  <2>3. Contract!Stops("session")
    BY <1>1, <1>2, <1>3, <1>6, <2>1, <2>2 DEF Stops, Contract!Stops
  <2> QED BY <2>3 DEF Contract!SessionStep
<1>7. CASE Starts
  <2>1. Last(chain) \in ToSet(chain)
    BY AllMade
  <2>2. newest["recording"] = Last(chain)
    OBVIOUS
  <2>3. line["session"] \in ToSet(chain) \cup withdrawn \cup {NoRevision}
    BY <1>7, AllMade DEF Starts, withdrawn, needed
  <2>4. Contract!Loads("session")
    BY <1>1, <1>2, <1>7, <2>1, <2>2, <2>3 DEF Starts, Contract!Loads, withdrawn
  <2> QED BY <2>4 DEF Contract!SessionStep
<1>8. CASE Leaves
  <2>1. Contract!Leaves("session")
    BY <1>2, <1>8 DEF Leaves, Contract!Leaves
  <2> QED BY <2>1 DEF Contract!SessionStep
<1> QED BY <1>4, <1>5, <1>6, <1>7, <1>8


-----------------------------------------------------------------------------
(* Steps of the GUI thread: the store, the files and the worker rest.      *)
LEMMA StoreAndFilesRest ==
  ASSUME IInv, IInv', LinkInv, UNCHANGED <<sending, store, outbox>>,
         sending = NoRevision \/ (base' = base /\ sync' = sync),
         Rests \/ Stops \/ Starts \/ Leaves
  PROVE  LinkInv' /\ Contract!Next
<1>1. /\ sending' = sending /\ chain' = chain /\ contents' = contents /\ parent' = parent
      /\ pending' = pending /\ conflicts' = conflicts
  BY DEF store, outbox
<1>2. requested' = requested /\ onFile' = onFile
  BY <1>1 DEF requested, onFile
<1>3. LinkInv'
  BY <1>1, <1>2 DEF LinkInv
<1>4. Filed
  BY <1>1, <1>2 DEF Filed
<1>5. withdrawn' \subseteq withdrawn
  <2>1. Last(chain) \in ToSet(chain) /\ NoRevision \notin requested
    BY AllMade
  <2>2. \A o \in needed' : o \in needed \/ o = Last(chain) \/ o = NoRevision
    BY <1>1 DEF needed, Rests, Stops, Starts, Leaves
  <2> QED BY <1>1, <1>2, <2>1, <2>2 DEF withdrawn
<1> QED
  BY <1>1, <1>3, <1>4, <1>5, StoreRests, RequestsRest, FilesMove, NothingWithdrawn,
     SessionMoves DEF Contract!Next

LEMMA SameSessionLine ==
  ASSUME IInv, IInv', LinkInv, UNCHANGED <<base, sync, closed, sending, store, outbox>>
  PROVE  LinkInv' /\ Contract!Next
<1>1. Rests
  BY DEF Rests
<1> QED BY <1>1, StoreAndFilesRest

LEMMA LifeLine ==
  ASSUME IInv, IInv', LinkInv,
         \/ Edit \/ Undo \/ Redo \/ ClearEditHistory \/ Reload \/ DiscardUnsavedChanges \/ Open
         \/ SaveRefused \/ (\E discard \in BOOLEAN : Close(discard))
  PROVE  LinkInv' /\ Contract!Next
<1>1. CASE Edit
  <2>1. PICK s \in GoodStates : Mutate(s)
    BY <1>1, EditMutates DEF Mutates
  <2> QED BY <2>1, SameSessionLine DEF Mutate
<1>2. CASE Undo \/ Redo \/ ClearEditHistory \/ DiscardUnsavedChanges
  BY <1>2, SameSessionLine DEF Undo, Redo, ClearEditHistory, DiscardUnsavedChanges
<1>3. CASE Reload \/ Open
  <2>1. /\ UNCHANGED <<sending, store, outbox>> /\ sending = NoRevision
        /\ pending = {} /\ conflicts = {}
        /\ base' = Last(chain) /\ sync' = "synced"
    BY <1>3, AllMade DEF Reload, Open, StartFrom, RecoveryDecided, Free
  <2>2. ~closed'
    BY <1>3 DEF Reload, Open, Free
  <2>3. Starts
    BY <2>1, <2>2 DEF Starts, onFile
  <2> QED BY <2>1, <2>3, StoreAndFilesRest
<1>4. CASE SaveRefused
  <2>1. /\ UNCHANGED <<sending, store, outbox>> /\ sending = NoRevision
        /\ ~closed /\ closed' = closed /\ base' = base /\ sync' = "conflict"
        /\ conflicts' = conflicts /\ conflicts # {}
    BY <1>4 DEF SaveRefused, Free, outbox
  <2>2. Stops
    BY <2>1 DEF Stops
  <2> QED BY <2>1, <2>2, StoreAndFilesRest
<1>5. ASSUME NEW discard \in BOOLEAN, Close(discard)
      PROVE  LinkInv' /\ Contract!Next
  <2>1. UNCHANGED <<sending, store, outbox>> /\ sending = NoRevision /\ closed'
    BY <1>5 DEF Close, Free
  <2> QED BY <2>1, StoreAndFilesRest DEF Leaves
<1> QED BY <1>1, <1>2, <1>3, <1>4, <1>5

LEMMA SaveLine ==
  ASSUME IInv, IInv', LinkInv, NEW r \in Revision, Save(r)
  PROVE  LinkInv' /\ Contract!Next
<1>1. /\ sending = NoRevision /\ ~closed /\ sync # "conflict"
      /\ chain' = chain /\ pending' = pending \cup {r} /\ conflicts' = conflicts
      /\ Request(r, base, Content(state))
  BY DEF Save, Free
<1>2. Content(state) # NoContent
  BY Parts, ContentOfState DEF Good
<1>3. PICK s : s = Content(state)
  OBVIOUS
<1>4. /\ requested' = requested \cup {r} /\ r \notin requested
      /\ parent'[r] = base /\ \A o \in Revision : o # r => parent'[o] = parent[o]
      /\ \A o \in Revision : parent[o] # r
  BY <1>1, <1>2, <1>3, RequestLinks
<1>5. Contract!StoreStep /\ Contract!RequestStep
  BY <1>1, <1>2, <1>3, StoreRests, RequestAdds
<1>6. onFile' = onFile \cup {r} /\ base \in requested /\ base # r
  BY <1>1, <1>4, AllMade DEF onFile
<1>7. Filed
  BY <1>1, <1>4 DEF Filed
<1>8. withdrawn' \subseteq withdrawn
  <2>1. \A o \in needed' : o \in needed \/ o = r \/ o = NoRevision
    BY <1>1, <1>4 DEF Save, Capture, session, needed
  <2> QED BY <1>1, <1>4, <1>6, <2>1, AllMade DEF withdrawn
<1>9. \A o \in Revision : parent'[o] \in requested' \cup {NoRevision} /\ parent'[o] # r
  BY <1>4, <1>6 DEF LinkInv
<1>10. CASE sync = "pending" /\ Capture(r, "pending") /\ UNCHANGED sending
  <2>1. GoesOn(r)
    BY <1>1, <1>4, <1>10 DEF GoesOn, Capture
  <2>2. LinkInv'
    BY <1>1, <1>9, <1>10 DEF LinkInv
  <2> QED
    BY <1>5, <1>7, <1>8, <2>1, <2>2, FilesMove, NothingWithdrawn, SessionMoves DEF Contract!Next
<1>11. CASE sync # "pending" /\ sending' = r /\ UNCHANGED session
  <2>1. base' = base /\ sync' = sync /\ closed' = closed /\ sync = "synced"
    BY <1>1, <1>11 DEF session, IInv, Typed
  <2>2. LinkInv'
    BY <1>1, <1>4, <1>6, <1>9, <1>11, <2>1 DEF LinkInv
  <2>3. Rests
    BY <2>1 DEF Rests
  <2> QED
    BY <1>5, <1>7, <1>8, <2>2, <2>3, FilesMove, NothingWithdrawn, SessionMoves DEF Contract!Next
<1> QED BY <1>10, <1>11 DEF Save


-----------------------------------------------------------------------------
(* Steps of the worker, of retries and of others.                          *)
LEMMA StoreCommits ==
  ASSUME IInv, NEW r \in requested, Commits(r), chain' = Committed(r),
         contents' = contents, parent' = parent
  PROVE  Contract!StoreStep /\ ToSet(chain') = ToSet(chain) \cup {r}
<1>1. r \in requested' /\ r \in Revision
  BY DEF requested
<1>2. CASE r \in ToSet(chain)
  BY <1>2, StoreRests DEF Committed
<1>3. CASE r \notin ToSet(chain)
  <2>1. chain' = Append(chain, r) /\ parent'[r] = Last(chain)
    BY <1>3 DEF Committed, Commits
  <2> QED BY <1>1, <1>3, <2>1, StoreAppends, ChainAppended
<1> QED BY <1>2, <1>3

LEMMA AnswerLine ==
  ASSUME IInv, IInv', LinkInv, Answer
  PROVE  LinkInv' /\ Contract!Next
<1>1. /\ sending # NoRevision /\ sending' = NoRevision
      /\ contents' = contents /\ parent' = parent
  BY DEF Answer
<1>2. /\ sending \in requested /\ ~closed /\ sending \in Revision
      /\ sync = "synced" /\ parent[sending] = base /\ sending # base
      /\ (\E o \in Revision : parent[o] = sending) => sending \in ToSet(chain)
  BY <1>1, AllMade DEF LinkInv
<1>3. requested' = requested
  BY <1>1 DEF requested
<1>4. LinkInv'
  BY <1>1, <1>3 DEF LinkInv
<1>5. Contract!RequestStep
  BY <1>1, RequestsRest
<1>6. NoRevision \notin requested
  BY AllMade
<1>7. CASE Saved
  <2>1. Contract!StoreStep /\ ToSet(chain') = ToSet(chain) \cup {sending}
    BY <1>1, <1>2, <1>7, StoreCommits DEF Saved
  <2>2. /\ base' = sending /\ sync' = "synced" /\ ~closed'
        /\ onFile' \subseteq onFile /\ onFile \subseteq onFile' \cup {sending}
        /\ pending' \subseteq pending /\ conflicts' \subseteq conflicts
    BY <1>2, <1>7 DEF Saved, Capture, Drop, outbox, onFile
  <2>3. Filed
    BY <1>3, <2>2 DEF Filed
  <2>4. withdrawn' \subseteq withdrawn
    <3>1. \A o \in needed' : o \in needed \/ o = NoRevision
      BY <1>1, <1>2, <2>2 DEF needed
    <3> QED BY <1>3, <1>6, <2>1, <2>2, <3>1 DEF withdrawn
  <2>5. GoesOn(sending)
    BY <1>1, <1>2, <1>3, <2>1, <2>2 DEF GoesOn
  <2> QED BY <1>2, <1>4, <1>5, <2>1, <2>3, <2>4, <2>5, FilesMove, NothingWithdrawn,
             SessionMoves DEF Contract!Next
<1>8. CASE Queued
  <2>1. Contract!StoreStep /\ ToSet(chain) \subseteq ToSet(chain')
    BY <1>1, <1>2, <1>8, StoreRests, StoreCommits DEF Queued
  <2>2. /\ base' = sending /\ sync' = "pending" /\ ~closed' /\ onFile' = onFile
        /\ pending' = pending /\ conflicts' = conflicts
    BY <1>2, <1>8 DEF Queued, Capture, outbox, onFile
  <2>3. Filed
    BY <1>3, <2>2 DEF Filed
  <2>4. withdrawn' \subseteq withdrawn
    <3>1. \A o \in needed' : o \in needed \/ o = NoRevision
      BY <1>1, <1>2, <2>2 DEF needed
    <3> QED BY <1>3, <1>6, <2>1, <2>2, <3>1 DEF withdrawn
  <2>5. GoesOn(sending)
    BY <1>1, <1>2, <1>3, <2>2 DEF GoesOn
  <2> QED BY <1>2, <1>4, <1>5, <2>1, <2>3, <2>4, <2>5, FilesMove, NothingWithdrawn,
             SessionMoves DEF Contract!Next
<1>9. CASE SaveConflict
  <2>1. /\ chain' = chain /\ base' = base /\ closed' = closed /\ onFile \subseteq onFile'
        /\ pending' \subseteq pending /\ conflicts' \subseteq conflicts \cup {sending}
        /\ sync' = sync \/ (sync' = "conflict" /\ conflicts' # {})
        /\ sending \notin ToSet(chain)
    BY <1>2, <1>9 DEF SaveConflict, Conflict, ConflictFails, Commits, onFile
  <2>2. Filed
    <3>1. sending \notin needed'
      BY <1>1, <1>2, <2>1 DEF needed
    <3> QED BY <1>2, <1>3, <2>1, <3>1 DEF Filed
  <2>3. withdrawn' \subseteq withdrawn
    <3>1. \A o \in needed' : o \in needed \/ o = NoRevision
      BY <1>1, <1>2, <2>1 DEF needed
    <3> QED BY <1>3, <1>6, <2>1, <3>1 DEF withdrawn
  <2>4. Rests \/ Stops
    BY <1>2, <2>1 DEF Rests, Stops
  <2> QED BY <1>4, <1>5, <2>1, <2>2, <2>3, <2>4, StoreRests, FilesMove, NothingWithdrawn,
             SessionMoves DEF Contract!Next
<1>10. CASE SaveFailed
  <2>1. /\ chain' = chain /\ base' = base /\ sync' = sync /\ closed' = closed
        /\ onFile' \subseteq onFile /\ onFile \subseteq onFile' \cup {sending}
        /\ pending' \subseteq pending /\ conflicts' \subseteq conflicts
    BY <1>10 DEF SaveFailed, Drop, session, outbox, onFile
  <2>2. Filed
    BY <1>3, <2>1 DEF Filed
  <2>3. withdrawn' \subseteq withdrawn
    <3>1. \A o \in needed' : o \in needed \/ o = NoRevision
      BY <1>1, <1>2, <2>1 DEF needed
    <3>2. sending \in needed' => sending \in ToSet(chain)
      BY <1>1, <1>2, <2>1, RevisionAssumption DEF needed
    <3> QED BY <1>3, <1>6, <2>1, <3>1, <3>2 DEF withdrawn
  <2>4. Rests
    BY <2>1 DEF Rests
  <2> QED BY <1>4, <1>5, <2>1, <2>2, <2>3, <2>4, StoreRests, FilesMove, NothingWithdrawn,
             SessionMoves DEF Contract!Next
<1> QED BY <1>7, <1>8, <1>9, <1>10 DEF Answer

LEMMA RetryLine ==
  ASSUME IInv, IInv', LinkInv, NEW r \in Revision, Retry(r)
  PROVE  LinkInv' /\ Contract!Next
<1>1. /\ r \in onFile /\ sending' = sending /\ contents' = contents /\ parent' = parent
      /\ base' = base /\ sync' = sync /\ closed' = closed
  BY DEF Retry, onFile, session
<1>2. r \in requested /\ requested' = requested
  BY <1>1, AllMade DEF requested
<1>3. /\ Contract!StoreStep /\ ToSet(chain) \subseteq ToSet(chain')
      /\ onFile' \subseteq onFile /\ onFile \subseteq onFile' \cup ToSet(chain')
      /\ pending' \subseteq pending /\ conflicts' \subseteq conflicts \cup {r}
  <2>1. CASE Commits(r) /\ chain' = Committed(r) /\ (Drop(r) \/ UNCHANGED outbox)
    <3>1. Contract!StoreStep /\ ToSet(chain') = ToSet(chain) \cup {r}
      BY <1>1, <1>2, <2>1, StoreCommits
    <3> QED BY <2>1, <3>1 DEF Drop, outbox, onFile
  <2>2. CASE (Conflict(r) \/ ConflictFails(r)) /\ chain' = chain
    BY <1>1, <2>2, StoreRests DEF Conflict, ConflictFails, onFile
  <2> QED BY <2>1, <2>2 DEF Retry
<1>4. LinkInv'
  BY <1>1, <1>2, <1>3 DEF LinkInv
<1>5. Filed
  BY <1>1, <1>2, <1>3 DEF Filed
<1>6. withdrawn' \subseteq withdrawn
  <2>1. needed' = needed
    BY <1>1 DEF needed
  <2> QED BY <1>2, <1>3, <2>1 DEF withdrawn
<1>7. Rests
  BY <1>1 DEF Rests
<1> QED BY <1>1, <1>3, <1>4, <1>5, <1>6, <1>7, RequestsRest, FilesMove, NothingWithdrawn,
           SessionMoves DEF Contract!Next


LEMMA ArchiveLine ==
  ASSUME IInv, IInv', LinkInv, NEW r \in Revision, Archive(r)
  PROVE  LinkInv' /\ Contract!Next
<1>1. /\ r \in onFile /\ sending' = sending
      /\ onFile' \subseteq onFile /\ onFile \subseteq onFile' \cup {r}
      /\ pending' \subseteq pending /\ conflicts' \subseteq conflicts
      /\ chain' = chain /\ contents' = contents /\ parent' = parent
      /\ base' = base /\ sync' = sync /\ closed' = closed
  BY DEF Archive, Drop, onFile, session, store
<1>2. r \in requested /\ requested' = requested /\ needed' = needed
  BY <1>1, AllMade DEF requested, needed
<1>3. LinkInv'
  BY <1>1, <1>2 DEF LinkInv
<1>4. Filed /\ Rests
  BY <1>1, <1>2 DEF Filed, Rests
<1>5. Contract!FileStep /\ Contract!StoreStep /\ Contract!RequestStep /\ Contract!SessionStep
  BY <1>1, <1>4, FilesMove, StoreRests, RequestsRest, SessionMoves
<1>6. Contract!WithdrawStep
  <2>1. CASE r \in needed /\ r \notin ToSet(chain) /\ r \notin onFile'
    <3> DEFINE target == [o \in Revision |-> IF o \in requested THEN "recording" ELSE "none"]
               newest == [q \in {"recording"} |-> Last(chain)]
               on     == [c \in {"session"} |-> IF closed THEN "none" ELSE "recording"]
               line   == [c \in {"session"} |-> IF closed THEN NoRevision ELSE base]
               told   == [c \in {"session"} |-> IF closed THEN "none" ELSE sync]
    <3>1. withdrawn' = withdrawn \cup {r}
      BY <1>1, <1>2, <2>1 DEF withdrawn
    <3>2. target' = target /\ newest' = newest /\ on' = on /\ line' = line /\ told' = told
      BY <1>1, <1>2
    <3>3. ToSet(chain)' = ToSet(chain)
      BY <1>1
    <3> QED BY <1>1, <3>1, <3>2, <3>3
               DEF Contract!WithdrawStep, Contract!shared, Contract!session, Contract!waiting,
                   onFile, withdrawn
  <2>2. CASE ~(r \in needed /\ r \notin ToSet(chain) /\ r \notin onFile')
    <3>1. withdrawn' \subseteq withdrawn
      BY <1>1, <1>2, <2>2 DEF withdrawn
    <3> QED BY <1>4, <3>1, NothingWithdrawn
  <2> QED BY <2>1, <2>2
<1> QED BY <1>3, <1>5, <1>6 DEF Contract!Next

LEMMA ElsewhereLine ==
  ASSUME IInv, IInv', LinkInv, NEW r \in Revision, NEW s \in Elsewhere, SaveElsewhere(r, s)
  PROVE  LinkInv' /\ Contract!Next
<1>1. /\ Request(r, Last(chain), s) /\ chain' = Append(chain, r)
      /\ base' = base /\ sync' = sync /\ closed' = closed /\ sending' = sending
      /\ pending' = pending /\ conflicts' = conflicts /\ onFile' = onFile
  BY DEF SaveElsewhere, session, outbox, onFile
<1>2. s # NoContent
  BY ElsewhereAssumption, SnapshotIsRecord
<1>3. PICK h : h = Last(chain)
  OBVIOUS
<1>4. /\ requested' = requested \cup {r} /\ r \notin requested
      /\ parent'[r] = h /\ \A o \in Revision : o # r => parent'[o] = parent[o]
      /\ \A o \in Revision : parent[o] # r
  BY <1>1, <1>2, <1>3, RequestLinks
<1>5. /\ h \in ToSet(chain) /\ ToSet(chain) \subseteq requested /\ NoRevision \notin requested
      /\ sending # NoRevision => sending \in requested
  BY <1>3, AllMade
<1>6. ToSet(chain') = ToSet(chain) \cup {r}
  BY <1>1, ChainAppended
<1>7. Contract!StoreStep
  BY <1>1, <1>3, <1>4, <1>5, StoreAppends
<1>8. Contract!RequestStep
  BY <1>1, <1>2, <1>3, RequestAdds
<1>9. Filed /\ Rests
  BY <1>1, <1>4 DEF Filed, Rests
<1>10. withdrawn' \subseteq withdrawn
  <2>1. \A o \in needed' : o \in needed \/ o = h
    BY <1>1, <1>4 DEF needed
  <2> QED BY <1>1, <1>4, <1>5, <1>6, <2>1 DEF withdrawn
<1>11. LinkInv'
  <2>1. \A o \in Revision : parent'[o] \in requested' \cup {NoRevision}
    BY <1>4, <1>5 DEF LinkInv
  <2>2. ASSUME sending # NoRevision
        PROVE  /\ parent'[sending] = base
               /\ (\E o \in Revision : parent'[o] = sending) => sending \in ToSet(chain')
    <3>1. sending \in Revision /\ sending # r
      BY <1>4, <1>5, <2>2, AllMade
    <3> QED BY <1>4, <1>5, <1>6, <2>2, <3>1 DEF LinkInv
  <2> QED BY <1>1, <2>1, <2>2 DEF LinkInv
<1> QED BY <1>7, <1>8, <1>9, <1>10, <1>11, FilesMove, NothingWithdrawn, SessionMoves
        DEF Contract!Next

LEMMA NextLine ==
  ASSUME IInv, IInv', LinkInv, [Next]_vars
  PROVE  LinkInv' /\ [Contract!Next]_(Contract!vars)
<1>1. CASE UNCHANGED vars
  <2>1. UNCHANGED <<base, sync, closed, sending, store, outbox>>
    BY <1>1 DEF vars, session
  <2> QED BY <2>1, SameSessionLine
<1> QED
  BY <1>1, LifeLine, AnswerLine, SaveLine, RetryLine, ArchiveLine, ElsewhereLine DEF Next


LEMMA InitLine == Init => LinkInv /\ Contract!Init
<1> SUFFICES ASSUME Init PROVE LinkInv /\ Contract!Init
  OBVIOUS
<1>1. PICK r \in Revision, s \in Elsewhere :
        /\ chain = <<r>>
        /\ contents = [q \in Revision |-> IF q = r THEN s ELSE NoContent]
        /\ parent = [q \in Revision |-> NoRevision]
        /\ base = r /\ sync = "synced" /\ closed = FALSE
        /\ sending = NoRevision
        /\ pending = {} /\ conflicts = {}
  BY Zenon DEF Init
<1>2. s # NoContent
  BY ElsewhereAssumption, SnapshotIsRecord
<1>3. requested = {r} /\ r # NoRevision
  BY <1>1, <1>2, RevisionAssumption DEF requested
<1>4. ToSet(chain) = {r} /\ Last(chain) = r /\ onFile = {}
  BY <1>1 DEF ToSet, Last, onFile
<1>5. needed \subseteq {NoRevision, r} /\ withdrawn = {}
  <2>1. needed \subseteq {NoRevision, r}
    BY <1>1 DEF needed
  <2> QED BY <1>3, <1>4, <2>1 DEF withdrawn
<1>6. LinkInv
  BY <1>1, <1>4 DEF LinkInv
<1> DEFINE target == [o \in Revision |-> IF o \in requested THEN "recording" ELSE "none"]
           newest == [q \in {"recording"} |-> Last(chain)]
           on     == [c \in {"session"} |-> IF closed THEN "none" ELSE "recording"]
           line   == [c \in {"session"} |-> IF closed THEN NoRevision ELSE base]
           told   == [c \in {"session"} |-> IF closed THEN "none" ELSE sync]
<1>7. /\ target \in [Revision -> {"recording", "none"}]
      /\ target[r] = "recording" /\ \A o \in Revision : o # r => target[o] = "none"
      /\ newest \in [{"recording"} -> Revision] /\ newest["recording"] = r
      /\ on \in [{"session"} -> {"recording", "none"}] /\ on["session"] = "recording"
      /\ line \in [{"session"} -> Revision] /\ line["session"] = r
      /\ told \in [{"session"} -> {"synced"}] /\ told["session"] = "synced"
  BY <1>1, <1>3, <1>4
<1>8. Contract!TypeOK
  BY <1>1, <1>4, <1>5, <1>7 DEF Contract!TypeOK, withdrawn
<1>9. Contract!Sound
  <2>1. \A o \in Revision : parent[o] = NoRevision /\ (Contract!Needed(o) => o = r)
    BY <1>1, <1>7, RevisionAssumption DEF Contract!Needed
  <2>2. \A o \in Revision : o # r => o \notin ToSet(chain) \cup Contract!waiting \cup withdrawn
    BY <1>1, <1>4, <1>5 DEF Contract!waiting
  <2>3. r \in ToSet(chain)
    BY <1>4
  <2> HIDE DEF target, newest, on, line, told
  <2>4. /\ \A o \in Revision : (Contract!Requested(o) <=> o = r)
        /\ \A o \in Revision : (Contract!Needed(o) => Contract!Safe(o))
    <3>1. \A o \in Revision : Contract!Requested(o) <=> target[o] # "none"
      BY DEF target, Contract!Requested
    <3>2. Contract!Safe(r)
      BY <2>3 DEF Contract!Safe
    <3> QED BY <1>7, <2>1, <3>1, <3>2
  <2> USE DEF target, newest, on, line, told
  <2> QED BY <1>3, <1>7, <2>1, <2>2, <2>3, <2>4, RevisionAssumption DEF Contract!Sound, withdrawn
<1>10. Contract!Init
  BY <1>1, <1>5, <1>8, <1>9 DEF Contract!Init, withdrawn
<1> QED BY <1>6, <1>10

(* The session keeps the contract that the detailed model of saving keeps: it *)
(* moves along its own requests or to the head, stops only at a conflict on   *)
(* file, and is loaded anew only when what it builds on is settled.           *)
(* (RecordingEditSession.save, open, reload and close)                        *)
THEOREM SessionIsInContract == Spec => KeepsContract
<1>1. Init => Contract!Init /\ LinkInv
  BY InitLine
<1>2. IInv /\ IInv' /\ LinkInv /\ [Next]_vars => LinkInv' /\ [Contract!Next]_(Contract!vars)
  BY NextLine
<1> QED BY <1>1, <1>2, SessionInvariant, PTL DEF Spec, KeepsContract, Contract!Spec

=============================================================================
