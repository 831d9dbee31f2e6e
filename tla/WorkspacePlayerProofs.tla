------------------------- MODULE WorkspacePlayerProofs -------------------------
(* The types of WorkspacePlayer, and its invariants for any number of tracks of  *)
(* any length, any block and any buffer.                                         *)
EXTENDS WorkspacePlayer, SequenceTheorems, FiniteSetTheorems, TLAPS

-----------------------------------------------------------------------------
(* A finite set of numbers has a greatest one, and CHOOSE finds it.            *)
LEMMA LeastNumber ==
  ASSUME NEW T \in SUBSET Nat, T # {}
  PROVE  \E m \in T : \A k \in T : m <= k
<1> DEFINE R == {pair \in Nat \X Nat : pair[1] < pair[2]}
<1>1. IsWellFoundedOn(R, Nat)
  BY NatLessThanWellFounded DEF OpToRel
<1>2. PICK m \in T : \A k \in T : ~(<<k, m>> \in R)
  BY <1>1, WFMin
<1>3. \A k \in T : ~(k < m)
  BY <1>2
<1> QED BY <1>3

LEMMA FiniteHasGreatest ==
  ASSUME NEW S \in SUBSET Nat, IsFiniteSet(S), S # {}
  PROVE  \E x \in S : \A y \in S : x >= y
<1> DEFINE Topless(T) == T # {} /\ IsFiniteSet(T) /\ \A x \in T : \E y \in T : ~(x >= y)
           Sizes == {Cardinality(T) : T \in {U \in SUBSET Nat : Topless(U)}}
<1> SUFFICES ASSUME Topless(S) PROVE FALSE
  OBVIOUS
<1>1. Sizes \in SUBSET Nat /\ Sizes # {}
  BY FS_CardinalityType
<1>2. PICK n \in Sizes : \A k \in Sizes : n <= k
  BY <1>1, LeastNumber
<1>3. PICK T \in SUBSET Nat : Topless(T) /\ Cardinality(T) = n
  BY <1>2
<1>4. PICK x \in T : TRUE
  BY <1>3
<1>5. IsFiniteSet(T \ {x}) /\ Cardinality(T \ {x}) = n - 1 /\ n \in Nat
  BY <1>1, <1>2, <1>3, <1>4, FS_RemoveElement
<1>6. Topless(T \ {x})
  <2>1. PICK y \in T : ~(x >= y)
    BY <1>3, <1>4
  <2>2. y \in T \ {x} /\ x < y
    BY <1>4, <2>1
  <2>3. ASSUME NEW z \in T \ {x} PROVE \E w \in T \ {x} : ~(z >= w)
    <3>1. PICK w \in T : ~(z >= w)
      BY <1>3, <2>3
    <3>2. CASE w = x
      BY <2>2, <3>1, <3>2
    <3> QED BY <3>1, <3>2
  <2> QED BY <1>5, <2>2, <2>3
<1>7. n - 1 \in Sizes
  BY <1>3, <1>5, <1>6
<1> QED BY <1>2, <1>5, <1>7

LEMMA MaxOfNumbers ==
  ASSUME NEW S \in SUBSET Nat, IsFiniteSet(S), S # {}
  PROVE  Max(S) \in S /\ \A y \in S : Max(S) >= y
BY FiniteHasGreatest DEF Max

LEMMA MaxOfTwo ==
  ASSUME NEW x \in Int, NEW y \in Int
  PROVE  Max({x, y}) = IF x >= y THEN x ELSE y
<1>1. \E z \in {x, y} : \A w \in {x, y} : z >= w
  OBVIOUS
<1> QED BY <1>1 DEF Max

LEMMA MinOfTwo ==
  ASSUME NEW x \in Int, NEW y \in Int
  PROVE  Min({x, y}) = IF x <= y THEN x ELSE y
<1>1. \E z \in {x, y} : \A w \in {x, y} : z <= w
  OBVIOUS
<1> QED BY <1>1 DEF Min

(* The end of the arrangement is a number, and no clip ends after it.          *)
Arrangement == [order: Seq(Track), offset: [Track -> Offset],
                muted: SUBSET Track, soloed: SUBSET Track]
Ends(a) == {a.offset[t] + Length[t] : t \in On(a)}

LEMMA OnTracks ==
  ASSUME NEW a \in Arrangement
  PROVE  On(a) \in SUBSET Track /\ IsFiniteSet(On(a))
<1>1. On(a) \in SUBSET Track
  BY DEF On, ToSet, Arrangement
<1> QED BY <1>1, TrackAssumption, FS_Subset

LEMMA DurationIsLastEnd ==
  ASSUME NEW a \in Arrangement
  PROVE  /\ Duration(a) \in Nat
         /\ Duration(a) \in {0} \cup Ends(a)
         /\ \A t \in On(a) : Duration(a) >= a.offset[t] + Length[t]
<1>1. \A t \in Track : a.offset[t] + Length[t] \in Nat
  BY TrackAssumption, OffsetAssumption DEF Arrangement, Offset
<1>2. IsFiniteSet(Ends(a))
  <2> DEFINE f == [t \in On(a) |-> a.offset[t] + Length[t]]
  <2>1. f \in Surjection(On(a), Ends(a))
    BY DEF Surjection, Ends
  <2> QED BY <2>1, OnTracks, FS_Surjection
<1>3. IsFiniteSet({0} \cup Ends(a)) /\ {0} \cup Ends(a) \in SUBSET Nat
  <2>1. IsFiniteSet(Ends(a) \cup {0})
    BY <1>2, FS_AddElement
  <2>2. Ends(a) \cup {0} = {0} \cup Ends(a)
    OBVIOUS
  <2> QED BY <1>1, <2>1, <2>2, OnTracks DEF Ends
<1>4. Max({0} \cup Ends(a)) \in {0} \cup Ends(a) /\ \A y \in {0} \cup Ends(a) : Max({0} \cup Ends(a)) >= y
  BY <1>3, MaxOfNumbers
<1> QED BY <1>3, <1>4 DEF Duration, Ends
-----------------------------------------------------------------------------
(* The order of the tracks: each is in it once, whatever is added, moved or    *)
(* removed.                                                                    *)
Distinct(s) == \A i, j \in DOMAIN s : s[i] = s[j] => i = j

LEMMA RemoveOne ==
  ASSUME NEW s \in Seq(Track), Distinct(s), NEW i \in DOMAIN s
  PROVE  /\ RemoveAt(s, i) \in Seq(Track) /\ Distinct(RemoveAt(s, i))
         /\ Len(RemoveAt(s, i)) = Len(s) - 1
         /\ ToSet(RemoveAt(s, i)) = ToSet(s) \ {s[i]}
<1> DEFINE before == SubSeq(s, 1, i - 1)
           after == SubSeq(s, i + 1, Len(s))
<1>1. Len(s) \in Nat /\ DOMAIN s = 1..Len(s) /\ \A j \in 1..Len(s) : s[j] \in Track
  BY LenProperties, ElementOfSeq
<1>2. /\ before \in Seq(Track) /\ Len(before) = i - 1
      /\ \A j \in 1..(i - 1) : before[j] = s[j]
  BY <1>1, SubSeqProperties
<1>3. /\ after \in Seq(Track) /\ Len(after) = Len(s) - i
      /\ \A j \in 1..(Len(s) - i) : after[j] = s[i + j]
  BY <1>1, SubSeqProperties
<1> HIDE DEF before, after
<1> DEFINE r == before \o after
<1>4. /\ r \in Seq(Track) /\ Len(r) = Len(s) - 1
      /\ \A j \in 1..Len(r) : r[j] = IF j < i THEN s[j] ELSE s[j + 1]
  <2>0. /\ r \in Seq(Track) /\ Len(r) = Len(before) + Len(after)
        /\ \A j \in 1..(Len(before) + Len(after)) :
             r[j] = IF j <= Len(before) THEN before[j] ELSE after[j - Len(before)]
    BY <1>2, <1>3, ConcatProperties
  <2>1. r \in Seq(Track) /\ Len(r) = Len(s) - 1
    BY <1>1, <1>2, <1>3, <2>0
  <2> HIDE DEF r
  <2>2. \A j \in 1..Len(r) : r[j] = IF j <= Len(before) THEN before[j] ELSE after[j - Len(before)]
    BY <1>1, <1>2, <1>3, <2>0, <2>1
  <2>3. ASSUME NEW j \in 1..Len(r) PROVE r[j] = IF j < i THEN s[j] ELSE s[j + 1]
    <3>1. CASE j < i
      BY <1>1, <1>2, <2>1, <2>2, <3>1
    <3>2. CASE ~(j < i)
      <4>1. r[j] = after[j - (i - 1)] /\ j - (i - 1) \in 1..(Len(s) - i)
        BY <1>1, <1>2, <2>1, <2>2, <3>2
      <4>2. after[j - (i - 1)] = s[i + (j - (i - 1))]
        BY <1>3, <4>1
      <4>3. i + (j - (i - 1)) = j + 1
        BY <1>1
      <4> QED BY <3>2, <4>1, <4>2, <4>3
    <3> QED BY <3>1, <3>2
  <2> QED BY <2>1, <2>3
<1>5. DOMAIN r = 1..Len(r)
  BY <1>4, LenProperties
<1> HIDE DEF r
<1>a. \A j \in 1..Len(s) : \A m \in 1..Len(s) : s[j] = s[m] => j = m
  BY <1>1 DEF Distinct
<1>b. ASSUME NEW j \in 1..Len(r)
      PROVE  \E p \in 1..Len(s) : r[j] = s[p] /\ p = IF j < i THEN j ELSE j + 1
  <2>1. CASE j < i
    <3>1. j \in 1..Len(s) /\ r[j] = s[j]
      BY <1>1, <1>4, <2>1
    <3> QED BY <2>1, <3>1
  <2>2. CASE ~(j < i)
    <3>1. j + 1 \in 1..Len(s) /\ r[j] = s[j + 1]
      BY <1>1, <1>4, <2>2
    <3> QED BY <2>2, <3>1
  <2> QED BY <2>1, <2>2
<1>6. Distinct(r)
  <2> SUFFICES ASSUME NEW j \in 1..Len(r), NEW m \in 1..Len(r), r[j] = r[m] PROVE j = m
    BY <1>5 DEF Distinct
  <2>1. PICK p \in 1..Len(s) : r[j] = s[p] /\ p = IF j < i THEN j ELSE j + 1
    BY <1>b
  <2>2. PICK q \in 1..Len(s) : r[m] = s[q] /\ q = IF m < i THEN m ELSE m + 1
    BY <1>b
  <2>3. p = q
    BY <1>a, <2>1, <2>2
  <2>4. Len(r) \in Nat /\ i \in Nat
    BY <1>1, <1>4
  <2> QED BY <2>1, <2>2, <2>3, <2>4
<1>7. ToSet(r) = ToSet(s) \ {s[i]}
  <2>1. ASSUME NEW j \in 1..Len(r) PROVE r[j] \in ToSet(s) \ {s[i]}
    <3>1. PICK p \in 1..Len(s) : r[j] = s[p] /\ p = IF j < i THEN j ELSE j + 1
      BY <1>b
    <3>2. p # i
      BY <1>1, <1>4, <3>1
    <3>3. s[p] # s[i]
      BY <1>1, <1>a, <3>2
    <3>4. s[p] \in ToSet(s)
      BY <1>1 DEF ToSet
    <3> QED BY <3>1, <3>3, <3>4
  <2>2. ASSUME NEW j \in 1..Len(s), s[j] # s[i] PROVE s[j] \in ToSet(r)
    <3>1. CASE j < i
      <4>1. j \in 1..Len(r) /\ r[j] = s[j]
        BY <1>1, <1>4, <3>1
      <4> QED BY <1>5, <4>1 DEF ToSet
    <3>2. CASE j > i
      <4>1. j - 1 \in 1..Len(r) /\ r[j - 1] = s[j - 1 + 1] /\ j - 1 + 1 = j
        BY <1>1, <1>4, <3>2
      <4> QED BY <1>5, <4>1 DEF ToSet
    <3> QED BY <1>1, <2>2, <3>1, <3>2
  <2> QED BY <1>1, <1>5, <2>1, <2>2 DEF ToSet
<1>8. RemoveAt(s, i) = r
  BY DEF RemoveAt, r, before, after
<1> QED BY <1>4, <1>6, <1>7, <1>8

LEMMA InsertOne ==
  ASSUME NEW s \in Seq(Track), Distinct(s), NEW t \in Track, t \notin ToSet(s),
         NEW k \in 1..(Len(s) + 1)
  PROVE  /\ InsertAt(s, k, t) \in Seq(Track) /\ Distinct(InsertAt(s, k, t))
         /\ ToSet(InsertAt(s, k, t)) = ToSet(s) \cup {t}
<1> DEFINE before == SubSeq(s, 1, k - 1)
           after == SubSeq(s, k, Len(s))
           front == before \o <<t>>
<1>1. Len(s) \in Nat /\ DOMAIN s = 1..Len(s) /\ \A j \in 1..Len(s) : s[j] \in Track
  BY LenProperties, ElementOfSeq
<1>2. /\ before \in Seq(Track) /\ Len(before) = k - 1
      /\ \A j \in 1..(k - 1) : before[j] = s[j]
  BY <1>1, SubSeqProperties
<1>3. /\ after \in Seq(Track) /\ Len(after) = Len(s) - k + 1
      /\ \A j \in 1..(Len(s) - k + 1) : after[j] = s[k + j - 1]
  BY <1>1, SubSeqProperties
<1> HIDE DEF before, after
<1>4. /\ front \in Seq(Track) /\ Len(front) = k
      /\ front[k] = t /\ \A j \in 1..(k - 1) : front[j] = s[j]
  <2>1. <<t>> \in Seq(Track) /\ Len(<<t>>) = 1 /\ <<t>>[1] = t
    OBVIOUS
  <2>2. /\ front \in Seq(Track) /\ Len(front) = Len(before) + Len(<<t>>)
        /\ \A j \in 1..(Len(before) + Len(<<t>>)) :
             front[j] = IF j <= Len(before) THEN before[j] ELSE <<t>>[j - Len(before)]
    BY <1>2, <2>1, ConcatProperties
  <2> HIDE DEF front
  <2>3. front \in Seq(Track) /\ Len(front) = k
    BY <1>1, <1>2, <2>1, <2>2
  <2>4. \A j \in 1..k : front[j] = IF j <= k - 1 THEN before[j] ELSE <<t>>[j - (k - 1)]
    BY <1>1, <1>2, <2>1, <2>2
  <2>5. front[k] = t
    <3>1. k \in 1..k /\ ~(k <= k - 1) /\ k - (k - 1) = 1
      BY <1>1
    <3>2. front[k] = <<t>>[k - (k - 1)]
      BY <2>4, <3>1
    <3> QED BY <2>1, <3>1, <3>2
  <2> QED BY <1>1, <1>2, <2>3, <2>4, <2>5
<1> HIDE DEF front
<1> DEFINE r == front \o after
<1>5. /\ r \in Seq(Track) /\ Len(r) = Len(s) + 1
      /\ \A j \in 1..Len(r) : r[j] = IF j < k THEN s[j] ELSE IF j = k THEN t ELSE s[j - 1]
  <2>0. /\ r \in Seq(Track) /\ Len(r) = Len(front) + Len(after)
        /\ \A j \in 1..(Len(front) + Len(after)) :
             r[j] = IF j <= Len(front) THEN front[j] ELSE after[j - Len(front)]
    BY <1>3, <1>4, ConcatProperties
  <2>1. r \in Seq(Track) /\ Len(r) = Len(s) + 1
    BY <1>1, <1>3, <1>4, <2>0
  <2> HIDE DEF r
  <2>2. \A j \in 1..Len(r) : r[j] = IF j <= k THEN front[j] ELSE after[j - k]
    BY <1>1, <1>3, <1>4, <2>0, <2>1
  <2>3. ASSUME NEW j \in 1..Len(r), j > k PROVE r[j] = s[j - 1]
    <3>1. r[j] = after[j - k] /\ j - k \in 1..(Len(s) - k + 1)
      BY <1>1, <2>1, <2>2, <2>3
    <3>2. PICK m \in 1..(Len(s) - k + 1) : m = j - k
      BY <3>1
    <3>3. after[m] = s[k + m - 1]
      BY <1>3
    <3>4. k + m - 1 = j - 1
      BY <1>1, <3>2
    <3> QED BY <3>1, <3>2, <3>3, <3>4
  <2> QED BY <1>1, <1>4, <2>1, <2>2, <2>3
<1>6. DOMAIN r = 1..Len(r)
  BY <1>5, LenProperties
<1> HIDE DEF r
<1>7. \A j \in 1..Len(s) : s[j] # t
  BY <1>1 DEF ToSet
<1>8. Distinct(r)
  <2>1. \A j \in 1..Len(s) : \A m \in 1..Len(s) : s[j] = s[m] => j = m
    BY <1>1 DEF Distinct
  <2> SUFFICES ASSUME NEW j \in 1..Len(r), NEW m \in 1..Len(r), r[j] = r[m] PROVE j = m
    BY <1>6 DEF Distinct
  <2>2. CASE j = k
    BY <1>1, <1>5, <1>7, <2>2
  <2>3. CASE m = k
    BY <1>1, <1>5, <1>7, <2>3
  <2>4. CASE j # k /\ m # k
    BY <1>1, <1>5, <2>1, <2>4
  <2> QED BY <2>2, <2>3, <2>4
<1>9. ToSet(r) = ToSet(s) \cup {t}
  <2>1. ASSUME NEW j \in 1..Len(r) PROVE r[j] \in ToSet(s) \cup {t}
    BY <1>1, <1>5, <2>1 DEF ToSet
  <2>2. t \in ToSet(r)
    <3>1. k \in 1..Len(r) /\ r[k] = t
      BY <1>1, <1>5
    <3> QED BY <1>6, <3>1 DEF ToSet
  <2>3. ASSUME NEW j \in 1..Len(s) PROVE s[j] \in ToSet(r)
    <3>1. CASE j < k
      <4>1. j \in 1..Len(r) /\ r[j] = s[j]
        BY <1>1, <1>5, <3>1
      <4> QED BY <1>6, <4>1 DEF ToSet
    <3>2. CASE j >= k
      <4>1. j + 1 \in 1..Len(r) /\ r[j + 1] = s[j + 1 - 1] /\ j + 1 - 1 = j
        BY <1>1, <1>5, <3>2
      <4> QED BY <1>6, <4>1 DEF ToSet
    <3> QED BY <1>1, <3>1, <3>2
  <2> QED BY <1>1, <1>6, <2>1, <2>2, <2>3 DEF ToSet
<1>10. InsertAt(s, k, t) = r
  BY DEF InsertAt, r, front, before, after
<1> QED BY <1>5, <1>8, <1>9, <1>10

LEMMA AppendOne ==
  ASSUME NEW s \in Seq(Track), Distinct(s), NEW t \in Track, t \notin ToSet(s)
  PROVE  /\ Append(s, t) \in Seq(Track) /\ Distinct(Append(s, t))
         /\ ToSet(Append(s, t)) = ToSet(s) \cup {t}
<1>1. /\ Append(s, t) \in Seq(Track) /\ Len(Append(s, t)) = Len(s) + 1
      /\ Append(s, t)[Len(s) + 1] = t
      /\ \A i \in 1..Len(s) : Append(s, t)[i] = s[i]
  BY AppendProperties
<1>2. /\ Len(s) \in Nat /\ DOMAIN s = 1..Len(s)
      /\ DOMAIN Append(s, t) = 1..(Len(s) + 1)
  BY <1>1, LenProperties
<1> QED BY <1>1, <1>2 DEF Distinct, ToSet

-----------------------------------------------------------------------------
(* The tracks: what the arrangement, the selection and the mouse are.          *)
Chosen == [track: Track, interval: Interval] \cup {None}

ArrangementInv == arr \in Arrangement /\ Distinct(arr.order)

SelectionInv ==
  /\ activeId \in Track \cup {None}
  /\ selection \in Chosen
  /\ views \in [Track -> Interval \cup {None}]
  /\ apart \in SUBSET Track
  /\ OneSelection

GestureInv ==
  gesture \in [track: Track, original: Interval \cup {None}, dragged: BOOLEAN] \cup {None}

TracksInv == ArrangementInv /\ SelectionInv /\ GestureInv

LEMMA IntervalShifts ==
  ASSUME NEW i \in Interval, NEW d \in Int
  PROVE  <<i[1] + d, i[2] + d>> \in Interval
<1>1. i[1] \in Int /\ i[2] \in Int /\ i[1] < i[2]
  BY DEF Interval
<1>2. i[1] + d \in Int /\ i[2] + d \in Int /\ i[1] + d < i[2] + d
  BY <1>1
<1> QED BY <1>2 DEF Interval

LEMMA ShownType ==
  ASSUME NEW a \in Arrangement, NEW sel \in Chosen, NEW t \in Track
  PROVE  Shown(a, sel, t) \in Interval \cup {None}
<1>1. CASE sel = None
  BY <1>1 DEF Shown
<1>2. CASE sel # None
  <2>1. sel \in [track: Track, interval: Interval]
    BY <1>2 DEF Chosen
  <2>2. sel.track \in Track /\ sel.interval \in Interval
    BY <2>1
  <2>3. a.offset[sel.track] - a.offset[t] \in Int
    BY <2>2, OffsetAssumption DEF Arrangement, Offset
  <2> QED BY <1>2, <2>2, <2>3, IntervalShifts DEF Shown
<1> QED BY <1>1, <1>2

LEMMA ShowKeeps ==
  ASSUME NEW a \in Arrangement, NEW sel \in Chosen, Show(a, sel)
  PROVE  /\ views' \in [Track -> Interval \cup {None}] /\ apart' = {}
         /\ \A t \in On(a) : views'[t] = Shown(a, sel, t)
<1>1. /\ views' = [t \in Track |-> IF t \in On(a) THEN Shown(a, sel, t) ELSE None]
      /\ apart' = {}
  BY DEF Show
<1>2. \A t \in Track : Shown(a, sel, t) \in Interval \cup {None}
  BY ShownType
<1> QED BY <1>1, <1>2, OnTracks

LEMMA SelectKeeps ==
  ASSUME NEW a \in Arrangement, NEW u \in Track \cup {None},
         NEW interval \in Interval \cup {None}, Select(a, u, interval)
  PROVE  /\ selection' \in Chosen /\ (selection' # None => selection'.track = u)
         /\ views' \in [Track -> Interval \cup {None}] /\ apart' = {}
         /\ \A t \in On(a) : views'[t] = Shown(a, selection', t)
<1>1. /\ selection' = IF u = None \/ interval = None THEN None
                      ELSE [track |-> u, interval |-> interval]
      /\ Show(a, selection')
  BY DEF Select
<1>2. selection' \in Chosen /\ (selection' # None => selection'.track = u)
  BY <1>1 DEF Chosen
<1>3. PICK sel \in Chosen : sel = selection'
  BY <1>2
<1>4. Show(a, sel)
  BY <1>1, <1>3
<1>5. /\ views' \in [Track -> Interval \cup {None}] /\ apart' = {}
      /\ \A t \in On(a) : views'[t] = Shown(a, sel, t)
  BY <1>4, ShowKeeps
<1> QED BY <1>2, <1>3, <1>5

(* The active track after a step: one of the timeline, if there is any.        *)
Activatable(u) == IF On(arr') = {} THEN u = None ELSE u \in On(arr')

LEMMA SelectInv ==
  ASSUME arr' \in Arrangement, NEW u, Activatable(u), activeId' = u,
         NEW interval \in Interval \cup {None}, Select(arr', u, interval)
  PROVE  SelectionInv'
<1>1. u \in Track \cup {None}
  BY OnTracks DEF Activatable
<1>2. PICK a \in Arrangement : a = arr'
  OBVIOUS
<1>3. Select(a, u, interval)
  BY <1>2
<1>4. /\ selection' \in Chosen /\ (selection' # None => selection'.track = u)
      /\ views' \in [Track -> Interval \cup {None}] /\ apart' = {}
      /\ \A t \in On(a) : views'[t] = Shown(a, selection', t)
  BY <1>1, <1>3, SelectKeeps
<1> QED BY <1>1, <1>2, <1>4 DEF SelectionInv, OneSelection, Activatable

LEMMA ActivateInv ==
  ASSUME SelectionInv, arr' \in Arrangement, NEW u, Activatable(u), Activate(arr', u),
         activeId = u => arr' = arr
  PROVE  SelectionInv'
<1>1. CASE activeId = u
  BY <1>1 DEF Activate, SelectionInv, OneSelection
<1>2. CASE activeId # u
  <2>1. activeId' = u /\ Select(arr', u, None)
    BY <1>2 DEF Activate
  <2> QED BY <2>1, SelectInv
<1> QED BY <1>1, <1>2

LEMMA DrawnInv ==
  ASSUME ArrangementInv, SelectionInv, UNCHANGED <<arr, activeId>>, NEW t \in Track,
         NEW interval \in Interval \cup {None}, Drawn(t, interval)
  PROVE  SelectionInv'
<1>1. CASE activeId = t
  <2>1. Select(arr', t, interval) /\ activeId' = t
    BY <1>1 DEF Drawn
  <2>2. Activatable(t) /\ arr' \in Arrangement
    BY <1>1, TrackAssumption DEF Activatable, SelectionInv, OneSelection, ArrangementInv
  <2> QED BY <2>1, <2>2, SelectInv
<1>2. CASE activeId # t
  <2>1. /\ views' = [views EXCEPT ![t] = interval] /\ apart' = apart \cup {t}
        /\ UNCHANGED selection
    BY <1>2 DEF Drawn
  <2>2. views' \in [Track -> Interval \cup {None}] /\ apart' \in SUBSET Track
    BY <2>1 DEF SelectionInv
  <2>3. \A s \in On(arr) \ apart' : views'[s] = Shown(arr, selection, s)
    BY <2>1, OnTracks DEF SelectionInv, OneSelection, ArrangementInv
  <2>4. IF On(arr) = {} THEN activeId = None ELSE activeId \in On(arr) \ apart'
    BY <1>2, <2>1 DEF SelectionInv, OneSelection
  <2>5. OneSelection'
    BY <2>1, <2>3, <2>4 DEF SelectionInv, OneSelection, Shown
  <2> QED BY <2>1, <2>2, <2>5 DEF SelectionInv
<1> QED BY <1>1, <1>2

LEMMA TracksStart == TracksInit => TracksInv
<1> SUFFICES ASSUME TracksInit PROVE TracksInv
  OBVIOUS
<1>1. arr.order = <<>> /\ arr.order \in Seq(Track) /\ On(arr) = {}
  BY DEF TracksInit, On, ToSet
<1>2. ArrangementInv
  BY <1>1, OffsetAssumption DEF TracksInit, ArrangementInv, Arrangement, Offset, Distinct
<1>3. SelectionInv /\ GestureInv
  BY <1>1 DEF TracksInit, SelectionInv, GestureInv, OneSelection, Chosen
<1> QED BY <1>2, <1>3 DEF TracksInv

LEMMA IndexFinds ==
  ASSUME ArrangementInv, NEW t \in On(arr)
  PROVE  Index(t) \in DOMAIN arr.order /\ arr.order[Index(t)] = t
BY DEF Index, On, ToSet

LEMMA AddTrackInv ==
  ASSUME TracksInv, NEW t \in Track, AddTrack(t)
  PROVE  TracksInv'
<1>1. /\ t \notin On(arr) /\ arr' = [arr EXCEPT !.order = Append(@, t)]
      /\ Activate(arr', t) /\ UNCHANGED gesture
  BY DEF AddTrack
<1>2. arr \in Arrangement /\ arr.order \in Seq(Track) /\ Distinct(arr.order)
  BY DEF TracksInv, ArrangementInv, Arrangement
<1>3. arr'.order = Append(arr.order, t) /\ arr' \in Arrangement
  <2>1. Append(arr.order, t) \in Seq(Track)
    BY <1>2
  <2> QED BY <1>1, <1>2, <2>1 DEF Arrangement
<1>4. Distinct(arr'.order) /\ On(arr') = On(arr) \cup {t}
  BY <1>1, <1>2, <1>3, AppendOne DEF On
<1>5. Activatable(t) /\ activeId # t
  BY <1>1, <1>4, TrackAssumption DEF Activatable, TracksInv, SelectionInv, OneSelection
<1>6. SelectionInv'
  BY <1>1, <1>3, <1>5, ActivateInv DEF TracksInv
<1> QED BY <1>1, <1>3, <1>4, <1>6 DEF TracksInv, ArrangementInv, GestureInv

LEMMA RemoveTrackInv ==
  ASSUME TracksInv, NEW t \in Track, RemoveTrack(t)
  PROVE  /\ TracksInv' /\ On(arr') = On(arr) \ {t}
         /\ \A u \in On(arr') : arr'.offset[u] = arr.offset[u]
<1> DEFINE order == RemoveAt(arr.order, Index(t))
           offset == [arr.offset EXCEPT ![t] = 0]
<1>1. /\ t \in On(arr)
      /\ arr' = [order |-> order, offset |-> offset,
                 muted |-> arr.muted \ {t}, soloed |-> arr.soloed \ {t}]
      /\ gesture' = IF gesture # None /\ gesture.track = t THEN None ELSE gesture
  BY DEF RemoveTrack
<1>2. /\ arr \in Arrangement /\ arr.order \in Seq(Track) /\ Distinct(arr.order)
      /\ arr.offset \in [Track -> Offset] /\ arr.muted \in SUBSET Track
      /\ arr.soloed \in SUBSET Track
  BY DEF TracksInv, ArrangementInv, Arrangement
<1>3. /\ order \in Seq(Track) /\ Distinct(order) /\ ToSet(order) = On(arr) \ {t}
  BY <1>1, <1>2, IndexFinds, RemoveOne DEF On, TracksInv
<1>4. 0 \in Offset
  BY OffsetAssumption DEF Offset
<1>5. /\ arr' \in Arrangement /\ Distinct(arr'.order) /\ On(arr') = On(arr) \ {t}
      /\ arr'.offset \in [Track -> Offset]
      /\ \A u \in Track : u # t => arr'.offset[u] = arr.offset[u]
  BY <1>1, <1>2, <1>3, <1>4 DEF Arrangement, On
<1>6. GestureInv'
  BY <1>1 DEF TracksInv, GestureInv
<1>7. \A u \in On(arr') : u \in Track /\ u # t /\ arr'.offset[u] = arr.offset[u]
  BY <1>5, OnTracks
<1>8. CASE activeId = t
  <2> DEFINE u == IF On(arr') = {} THEN None ELSE Head(arr'.order)
  <2>1. Activate(arr', u)
    BY <1>8 DEF RemoveTrack
  <2>2. Activatable(u) /\ u # t
    <3>1. CASE On(arr') = {}
      BY <1>1, <3>1, TrackAssumption DEF Activatable
    <3>2. CASE On(arr') # {}
      <4>1. arr'.order \in Seq(Track) /\ arr'.order # <<>>
        BY <1>5, <3>2 DEF Arrangement, On, ToSet
      <4>2. 1 \in DOMAIN arr'.order /\ Head(arr'.order) = arr'.order[1]
        BY <4>1
      <4> QED BY <1>7, <3>2, <4>2 DEF Activatable, On, ToSet
    <3> QED BY <3>1, <3>2
  <2>3. SelectionInv'
    <3> HIDE DEF u
    <3> QED BY <1>5, <1>8, <2>1, <2>2, ActivateInv DEF TracksInv
  <2> QED BY <1>5, <1>6, <1>7, <2>3 DEF TracksInv, ArrangementInv
<1>9. CASE activeId # t
  <2>1. UNCHANGED <<activeId, selection, apart>> /\ views' = [views EXCEPT ![t] = None]
    BY <1>9 DEF RemoveTrack
  <2>2. activeId \in On(arr') \ apart' /\ (selection # None => selection.track = activeId)
    BY <1>1, <1>5, <1>9, <2>1 DEF TracksInv, SelectionInv, OneSelection
  <2>3. \A u \in On(arr') : Shown(arr', selection, u) = Shown(arr, selection, u)
    BY <1>7, <2>2 DEF Shown
  <2>4. views' \in [Track -> Interval \cup {None}]
    BY <2>1 DEF TracksInv, SelectionInv
  <2>5. \A u \in On(arr') \ apart' : views'[u] = Shown(arr', selection', u)
    BY <1>5, <1>7, <2>1, <2>3 DEF TracksInv, SelectionInv, OneSelection
  <2>6. SelectionInv'
    <3>1. OneSelection'
      BY <2>1, <2>2, <2>5 DEF OneSelection
    <3>2. /\ activeId' \in Track \cup {None} /\ selection' \in Chosen
          /\ apart' \in SUBSET Track
      BY <2>1 DEF TracksInv, SelectionInv
    <3> QED BY <2>4, <3>1, <3>2 DEF SelectionInv
  <2> QED BY <1>5, <1>6, <1>7, <2>6 DEF TracksInv, ArrangementInv
<1> QED BY <1>8, <1>9

LEMMA PlaceInv ==
  ASSUME TracksInv, NEW t \in Track, NEW x \in Offset, Place(t, x)
  PROVE  TracksInv'
<1>1. /\ arr' = [arr EXCEPT !.offset[t] = Max({0, x})] /\ Show(arr', selection)
      /\ UNCHANGED <<activeId, selection, gesture>>
  BY DEF Place
<1>2. Max({0, x}) = x
  BY MaxOfTwo, OffsetAssumption DEF Offset
<1>3. arr' \in Arrangement /\ arr'.order = arr.order
  BY <1>1, <1>2 DEF TracksInv, ArrangementInv, Arrangement
<1>4. PICK a \in Arrangement : a = arr'
  BY <1>3
<1>5. /\ views' \in [Track -> Interval \cup {None}] /\ apart' = {}
      /\ \A u \in On(a) : views'[u] = Shown(a, selection, u)
  <2>1. Show(a, selection) /\ selection \in Chosen
    BY <1>1, <1>4 DEF TracksInv, SelectionInv
  <2> QED BY <2>1, ShowKeeps
<1>6. SelectionInv'
  BY <1>1, <1>3, <1>4, <1>5 DEF TracksInv, SelectionInv, OneSelection, On
<1> QED BY <1>1, <1>3, <1>6 DEF TracksInv, ArrangementInv, GestureInv

(* Steps that keep the tracks where they are and touch no selection.           *)
LEMMA MixInv ==
  ASSUME TracksInv, arr' \in Arrangement, Distinct(arr'.order), On(arr') = On(arr),
         arr'.offset = arr.offset, UNCHANGED <<activeId, selection, views, gesture, apart>>
  PROVE  TracksInv'
BY DEF TracksInv, ArrangementInv, SelectionInv, OneSelection, GestureInv, Shown

LEMMA SetMixInv ==
  ASSUME TracksInv, NEW t \in Track, NEW muted \in BOOLEAN, NEW solo \in BOOLEAN,
         SetMix(t, muted, solo)
  PROVE  TracksInv'
<1> DEFINE quiet == IF muted THEN arr.muted \cup {t} ELSE arr.muted \ {t}
           alone == IF solo THEN arr.soloed \cup {t} ELSE arr.soloed \ {t}
<1>1. /\ arr' = [arr EXCEPT !.muted = quiet, !.soloed = alone]
      /\ UNCHANGED <<activeId, selection, views, gesture, apart>>
  BY DEF SetMix
<1>2. arr \in Arrangement /\ quiet \in SUBSET Track /\ alone \in SUBSET Track
  BY DEF TracksInv, ArrangementInv, Arrangement
<1> HIDE DEF quiet, alone
<1>3. arr' \in Arrangement /\ arr'.order = arr.order /\ arr'.offset = arr.offset
  BY <1>1, <1>2 DEF Arrangement
<1> QED BY <1>1, <1>3, MixInv DEF TracksInv, ArrangementInv, On

LEMMA MoveOrderInv ==
  ASSUME TracksInv, NEW t \in Track, NEW delta \in {-1, 1}, MoveOrder(t, delta)
  PROVE  TracksInv'
<1> DEFINE k == Max({1, Min({Len(arr.order), Index(t) + delta})})
           rest == RemoveAt(arr.order, Index(t))
<1>1. /\ t \in On(arr) /\ arr' = [arr EXCEPT !.order = InsertAt(rest, k, t)]
      /\ UNCHANGED <<activeId, selection, views, gesture, apart>>
  BY DEF MoveOrder
<1>2. arr \in Arrangement /\ arr.order \in Seq(Track) /\ Distinct(arr.order)
  BY DEF TracksInv, ArrangementInv, Arrangement
<1>3. Index(t) \in 1..Len(arr.order) /\ arr.order[Index(t)] = t /\ Len(arr.order) \in Nat
  BY <1>1, <1>2, IndexFinds, LenProperties DEF TracksInv
<1>4. /\ rest \in Seq(Track) /\ Distinct(rest) /\ ToSet(rest) = On(arr) \ {t}
      /\ Len(rest) = Len(arr.order) - 1
  BY <1>2, <1>3, RemoveOne, LenProperties DEF On
<1>5. k \in 1..(Len(rest) + 1)
  <2>1. Index(t) + delta \in Int
    BY <1>3
  <2>2. PICK m \in Int : m = Min({Len(arr.order), Index(t) + delta}) /\ m <= Len(arr.order)
    BY <1>3, <2>1, MinOfTwo
  <2>3. k = IF 1 >= m THEN 1 ELSE m
    <3>1. Max({1, m}) = IF 1 >= m THEN 1 ELSE m
      BY MaxOfTwo
    <3> QED BY <2>2, <3>1
  <2> QED BY <1>3, <1>4, <2>2, <2>3
<1>6. /\ InsertAt(rest, k, t) \in Seq(Track) /\ Distinct(InsertAt(rest, k, t))
      /\ ToSet(InsertAt(rest, k, t)) = ToSet(rest) \cup {t}
  <2> HIDE DEF rest, k
  <2> QED BY <1>4, <1>5, InsertOne
<1> HIDE DEF rest, k
<1>7. arr' \in Arrangement /\ arr'.order = InsertAt(rest, k, t) /\ arr'.offset = arr.offset
  BY <1>1, <1>2, <1>6 DEF Arrangement
<1>8. On(arr') = On(arr) /\ Distinct(arr'.order)
  BY <1>1, <1>4, <1>6, <1>7 DEF On
<1> QED BY <1>1, <1>7, <1>8, MixInv

(* The mouse and the lists of tracks: the arrangement stays as it is.          *)
Pointed ==
  \/ \E t \in Track : Press(t) \/ ActivateTrack(t) \/ ClickAnnotation(t) \/ ReopenTrack(t)
  \/ Drag \/ Release \/ CancelGesture \/ ClearSelection \/ Click

LEMMA PointedInv ==
  ASSUME TracksInv, Pointed
  PROVE  TracksInv' /\ UNCHANGED arr
<1>1. ArrangementInv /\ SelectionInv /\ GestureInv /\ arr \in Arrangement
  BY DEF TracksInv, ArrangementInv
<1>2. \A u \in On(arr) : u \in Track /\ u # None
  BY <1>1, OnTracks, TrackAssumption
<1>3. IF On(arr) = {} THEN activeId = None ELSE activeId \in On(arr)
  BY <1>1 DEF SelectionInv, OneSelection
<1>4. ASSUME NEW t \in Track, Press(t) PROVE TracksInv' /\ UNCHANGED arr
  <2>1. /\ t \in On(arr) /\ Activate(arr, t) /\ UNCHANGED arr
        /\ gesture' = [track |-> t, original |-> views'[t], dragged |-> FALSE]
    BY <1>4 DEF Press
  <2>2. Activatable(t) /\ Activate(arr', t) /\ arr' \in Arrangement
    BY <1>1, <2>1 DEF Activatable
  <2>3. SelectionInv'
    BY <1>1, <2>1, <2>2, ActivateInv
  <2>4. GestureInv'
    BY <2>1, <2>3 DEF GestureInv, SelectionInv
  <2> QED BY <1>1, <2>1, <2>3, <2>4 DEF TracksInv, ArrangementInv
<1>5. ASSUME NEW t \in Track, ActivateTrack(t) PROVE TracksInv' /\ UNCHANGED arr
  <2>1. t \in On(arr) /\ Activate(arr, t) /\ UNCHANGED <<arr, gesture>>
    BY <1>5 DEF ActivateTrack
  <2>2. Activatable(t) /\ Activate(arr', t) /\ arr' \in Arrangement
    BY <1>1, <2>1 DEF Activatable
  <2>3. SelectionInv'
    BY <1>1, <2>1, <2>2, ActivateInv
  <2> QED BY <1>1, <2>1, <2>3 DEF TracksInv, ArrangementInv, GestureInv
<1>6. ASSUME NEW t \in Track, ClickAnnotation(t) PROVE TracksInv' /\ UNCHANGED arr
  <2>1. t \in On(arr) /\ activeId' = t /\ Select(arr, t, None) /\ UNCHANGED <<arr, gesture>>
    BY <1>6 DEF ClickAnnotation
  <2>2. Activatable(t) /\ Select(arr', t, None) /\ arr' \in Arrangement
    BY <1>1, <2>1 DEF Activatable
  <2>3. SelectionInv'
    BY <2>1, <2>2, SelectInv
  <2> QED BY <1>1, <2>1, <2>3 DEF TracksInv, ArrangementInv, GestureInv
<1>7. CASE Drag
  <2> DEFINE last == Length[gesture.track]
  <2>1. PICK interval \in {i \in (0..last) \X (0..last) : i[1] < i[2]} \cup {None} :
          Drawn(gesture.track, interval)
    BY <1>7 DEF Drag
  <2>2. /\ gesture # None /\ gesture' = [gesture EXCEPT !.dragged = TRUE]
        /\ UNCHANGED <<arr, activeId>>
    BY <1>7 DEF Drag
  <2>3. gesture \in [track: Track, original: Interval \cup {None}, dragged: BOOLEAN]
    BY <1>1, <2>2 DEF GestureInv
  <2>4. gesture.track \in Track /\ last \in Nat
    BY <2>3, TrackAssumption
  <2>5. interval \in Interval \cup {None}
    BY <2>1, <2>4 DEF Interval
  <2>6. SelectionInv'
    BY <1>1, <2>1, <2>2, <2>4, <2>5, DrawnInv
  <2>7. GestureInv'
    BY <2>2, <2>3 DEF GestureInv
  <2> QED BY <1>1, <2>2, <2>6, <2>7 DEF TracksInv, ArrangementInv
<1>8. CASE CancelGesture
  <2>1. /\ gesture # None /\ Drawn(gesture.track, gesture.original) /\ gesture' = None
        /\ UNCHANGED <<arr, activeId>>
    BY <1>8 DEF CancelGesture
  <2>2. gesture \in [track: Track, original: Interval \cup {None}, dragged: BOOLEAN]
    BY <1>1, <2>1 DEF GestureInv
  <2>3. gesture.track \in Track /\ gesture.original \in Interval \cup {None}
    BY <2>2
  <2>4. SelectionInv'
    BY <1>1, <2>1, <2>3, DrawnInv
  <2> QED BY <1>1, <2>1, <2>4 DEF TracksInv, ArrangementInv, GestureInv
<1>9. CASE Release
  BY <1>1, <1>9 DEF Release, TracksInv, ArrangementInv, SelectionInv, OneSelection, GestureInv
<1>10. CASE ClearSelection \/ Click
  <2>1. Select(arr, activeId, None) /\ UNCHANGED <<arr, activeId>> /\ gesture' \in {None, gesture}
    BY <1>10 DEF ClearSelection, Click
  <2>2. PICK u : u = activeId
    OBVIOUS
  <2>3. Activatable(u) /\ Select(arr', u, None) /\ arr' \in Arrangement /\ activeId' = u
    BY <1>1, <1>3, <2>1, <2>2 DEF Activatable
  <2>4. SelectionInv'
    BY <2>3, SelectInv
  <2> QED BY <1>1, <2>1, <2>4 DEF TracksInv, ArrangementInv, GestureInv
<1>11. ASSUME NEW t \in Track, ReopenTrack(t) PROVE TracksInv' /\ UNCHANGED arr
  <2>1. /\ Drawn(t, None) /\ UNCHANGED <<arr, activeId>> /\ gesture' \in {None, gesture}
    BY <1>11 DEF ReopenTrack
  <2>2. SelectionInv'
    BY <1>1, <2>1, DrawnInv
  <2>3. GestureInv'
    BY <1>1, <2>1 DEF GestureInv
  <2> QED BY <1>1, <2>1, <2>2, <2>3 DEF TracksInv, ArrangementInv
<1> QED BY <1>4, <1>5, <1>6, <1>7, <1>8, <1>9, <1>10, <1>11 DEF Pointed

LEMMA RearrangedInv ==
  ASSUME TracksInv, Rearrange
  PROVE  TracksInv'
BY AddTrackInv, PlaceInv, SetMixInv, MoveOrderInv DEF Rearrange

LEMMA TracksStep ==
  ASSUME TracksInv, [Next]_vars
  PROVE  TracksInv'
<1>1. CASE UNCHANGED trackVars
  BY <1>1 DEF trackVars, TracksInv, ArrangementInv, SelectionInv, OneSelection, GestureInv
<1>2. CASE Rearrange
  BY <1>2, RearrangedInv
<1>3. CASE RemoveTrackPaused
  BY <1>3, RemoveTrackInv DEF RemoveTrackPaused
<1>4. CASE SelectSomething \/ ClickSeeks
  <2>1. Pointed
    BY <1>4 DEF SelectSomething, ClickSeeks, Pointed
  <2> QED BY <2>1, PointedInv
<1> QED
  BY <1>1, <1>2, <1>3, <1>4
     DEF Next, vars, UserStep, PlayOrPause, Stop, Pump, PumpFails, DevicePlays

(* There is one selection, the active track's: its waveform shows it, and so    *)
(* does every other that has not been dragged in or reopened since.             *)
(* (WorkspaceController, TrackWidget)                                           *)
THEOREM SelectionIsShared == Spec => []OneSelection
<1>1. Init => TracksInv
  BY TracksStart DEF Init
<1>2. TracksInv /\ [Next]_vars => TracksInv'
  BY TracksStep
<1>3. TracksInv => OneSelection
  BY DEF TracksInv, SelectionInv
<1> QED BY <1>1, <1>2, <1>3, PTL DEF Spec

-----------------------------------------------------------------------------
(* The player.  Frame by frame: what the sink holds, and then the block that   *)
(* waits for it, are the frames of the arrangement from the one that is heard. *)
Cell(a, at) == [at |-> at, sound |-> Sound(a, at)]

Follows(a, p) ==
  /\ \A i \in 1..Len(p.queue) : p.queue[i] = Cell(a, Heard(p) + i - 1)
  /\ \A i \in 1..Len(p.pending) : p.pending[i] = Cell(a, Heard(p) + Len(p.queue) + i - 1)
  /\ p.next = Heard(p) + Len(p.queue) + Len(p.pending)

Current(a, p) ==
  /\ p \in Player
  /\ Len(p.queue) <= BufferSize
  /\ ~p.playing => p.pending = <<>> /\ p.queue = <<>>
  /\ p.playing => Follows(a, p)

LEMMA PlayerFields ==
  ASSUME NEW p \in Player
  PROVE  /\ p.playing \in BOOLEAN /\ p.playhead \in Nat /\ p.origin \in Nat /\ p.next \in Nat
         /\ p.processed \in Nat /\ p.pending \in Seq(Frame) /\ p.queue \in Seq(Frame)
         /\ Len(p.pending) \in Nat /\ Len(p.queue) \in Nat /\ Heard(p) \in Nat
BY DEF Player, Heard

LEMMA CellType ==
  ASSUME NEW a \in Arrangement, NEW at \in Nat
  PROVE  Cell(a, at) \in Frame
<1>1. ASSUME NEW t \in Track, a.offset[t] <= at PROVE at - a.offset[t] \in Nat
  BY <1>1, OffsetAssumption DEF Arrangement, Offset
<1>2. Audible(a) \in SUBSET Track
  BY OnTracks DEF Audible
<1>3. Sound(a, at) \in SUBSET (Track \X Nat)
  BY <1>1, <1>2 DEF Sound
<1> QED BY <1>3 DEF Cell, Frame

LEMMA MixBlockFrames ==
  ASSUME NEW a \in Arrangement, NEW start \in Nat, NEW count \in Nat
  PROVE  /\ MixBlock(a, start, count) \in Seq(Frame)
         /\ Len(MixBlock(a, start, count)) = count
         /\ \A i \in 1..count : MixBlock(a, start, count)[i] = Cell(a, start + i - 1)
<1>1. MixBlock(a, start, count) = [i \in 1..count |-> Cell(a, start + i - 1)]
  BY DEF MixBlock, Cell
<1>2. \A i \in 1..count : Cell(a, start + i - 1) \in Frame
  BY CellType
<1> HIDE DEF Cell
<1>3. [i \in 1..count |-> Cell(a, start + i - 1)] \in Seq(Frame)
  BY <1>2, IsASeq
<1>4. Len([i \in 1..count |-> Cell(a, start + i - 1)]) = count
  BY <1>3, LenProperties
<1> QED BY <1>1, <1>3, <1>4

LEMMA SoughtAt ==
  ASSUME NEW a \in Arrangement, NEW p \in Player, NEW at \in Int
  PROVE  /\ Seek(a, p, at) \in Player
         /\ Seek(a, p, at) = [p EXCEPT !.playhead = Seek(a, p, at).playhead]
         /\ Seek(a, p, at).playhead <= Duration(a)
         /\ 0 <= at /\ at <= Duration(a) => Seek(a, p, at).playhead = at
<1> DEFINE m == Min({Duration(a), at})
           k == Max({0, m})
<1>1. Duration(a) \in Nat
  BY DurationIsLastEnd
<1>2. m = IF Duration(a) <= at THEN Duration(a) ELSE at
  BY <1>1, MinOfTwo
<1>3. m \in Int
  BY <1>1, <1>2
<1> HIDE DEF m
<1>4. k = IF 0 >= m THEN 0 ELSE m
  BY <1>3, MaxOfTwo
<1>5. k \in Nat /\ k <= Duration(a) /\ (0 <= at /\ at <= Duration(a) => k = at)
  BY <1>1, <1>2, <1>3, <1>4
<1>6. Seek(a, p, at) = [p EXCEPT !.playhead = k]
  BY DEF Seek, m
<1> HIDE DEF k
<1>7. [p EXCEPT !.playhead = k] \in Player /\ [p EXCEPT !.playhead = k].playhead = k
  BY <1>5 DEF Player
<1> QED BY <1>5, <1>6, <1>7

LEMMA SeekCurrent ==
  ASSUME NEW a \in Arrangement, NEW p, Current(a, p), NEW at \in Int
  PROVE  Current(a, Seek(a, p, at))
<1>1. p \in Player
  BY DEF Current
<1>2. PICK k : Seek(a, p, at) = [p EXCEPT !.playhead = k]
  BY <1>1, SoughtAt
<1>3. Seek(a, p, at) \in Player
  BY <1>1, SoughtAt
<1>4. \A q : q = [p EXCEPT !.playhead = k] =>
        /\ q.playing = p.playing /\ q.origin = p.origin /\ q.next = p.next
        /\ q.processed = p.processed /\ q.pending = p.pending /\ q.queue = p.queue
  BY <1>1 DEF Player
<1>5. PICK q : q = Seek(a, p, at)
  OBVIOUS
<1> QED BY <1>2, <1>3, <1>4, <1>5 DEF Current, Follows, Heard

LEMMA ReleasedCurrent ==
  ASSUME NEW a \in Arrangement, NEW p \in Player
  PROVE  /\ Current(a, Released(p)) /\ ~Released(p).playing
         /\ Released(p).playhead = p.playhead
<1>1. PICK q : q = Released(p)
  OBVIOUS
<1>2. <<>> \in Seq(Frame) /\ Len(<<>>) = 0
  OBVIOUS
<1>3. /\ q \in Player /\ ~q.playing /\ q.pending = <<>> /\ q.queue = <<>>
      /\ q.playhead = p.playhead
  BY <1>1, <1>2 DEF Released, Player
<1> QED BY <1>1, <1>2, <1>3, SizeAssumption DEF Current

(* Pausing goes back to the frame that is heard, in the arrangement a.         *)
LEMMA PausedCurrent ==
  ASSUME NEW a \in Arrangement, NEW b \in Arrangement, NEW p \in Player
  PROVE  /\ Current(b, Paused(a, p)) /\ ~Paused(a, p).playing
         /\ p.playing /\ Heard(p) <= Duration(a) => Paused(a, p).playhead = Heard(p)
<1>1. Heard(p) \in Nat
  BY PlayerFields
<1>2. PICK q : q = IF p.playing THEN Seek(a, p, Heard(p)) ELSE p
  OBVIOUS
<1>3. q \in Player /\ (p.playing /\ Heard(p) <= Duration(a) => q.playhead = Heard(p))
  BY <1>1, <1>2, SoughtAt
<1>4. Paused(a, p) = Released(q)
  BY <1>2 DEF Paused
<1> QED BY <1>3, <1>4, ReleasedCurrent

SamePlace(p, q) ==
  /\ q.playing = p.playing /\ q.playhead = p.playhead
  /\ q.origin = p.origin /\ q.processed = p.processed

LEMMA FilledCurrent ==
  ASSUME NEW a \in Arrangement, NEW p, Current(a, p), p.playing
  PROVE  Current(a, Filled(a, p)) /\ SamePlace(p, Filled(a, p))
<1> DEFINE count == Min({Block, BufferSize - Len(p.queue)})
           block == MixBlock(a, p.next, count)
<1>1. p \in Player /\ Follows(a, p) /\ Len(p.queue) <= BufferSize
  BY DEF Current
<1>2. CASE p.pending # <<>>
  BY <1>2 DEF Filled, SamePlace
<1>3. CASE p.pending = <<>>
  <2>1. Len(p.queue) \in Nat /\ p.next \in Nat /\ Heard(p) \in Nat
    BY <1>1, PlayerFields
  <2>2. count \in Nat
    BY <1>1, <2>1, SizeAssumption, MinOfTwo
  <2>3. p.next = Heard(p) + Len(p.queue)
    BY <1>1, <1>3, <2>1 DEF Follows
  <2>4. /\ block \in Seq(Frame) /\ Len(block) = count
        /\ \A i \in 1..count : block[i] = Cell(a, p.next + i - 1)
    BY <2>1, <2>2, MixBlockFrames
  <2>5. Filled(a, p) = [p EXCEPT !.pending = block, !.next = p.next + count]
    BY <1>1, <1>3 DEF Filled, Player
  <2> HIDE DEF count, block
  <2>a. PICK mixed \in Seq(Frame) : mixed = block
    BY <2>4
  <2>b. PICK after \in Nat : after = p.next + count
    BY <2>1, <2>2
  <2>6. PICK q : q = [p EXCEPT !.pending = mixed, !.next = after]
    OBVIOUS
  <2>c. /\ q \in Player /\ SamePlace(p, q)
        /\ q.queue = p.queue /\ q.pending = mixed /\ q.next = after
    BY <1>1, <2>6 DEF Player, SamePlace
  <2>7. /\ q \in Player /\ SamePlace(p, q)
        /\ q.queue = p.queue /\ q.pending = block /\ q.next = p.next + count
    BY <2>a, <2>b, <2>c
  <2>8. Heard(q) = Heard(p)
    BY <2>7 DEF Heard, SamePlace
  <2>9. Follows(a, q)
    BY <1>1, <2>1, <2>2, <2>3, <2>4, <2>7, <2>8 DEF Follows
  <2>10. Filled(a, p) = q
    BY <2>5, <2>6, <2>a, <2>b, Zenon
  <2> QED BY <1>1, <2>7, <2>9, <2>10 DEF Current, SamePlace
<1> QED BY <1>2, <1>3

LEMMA WrittenCurrent ==
  ASSUME NEW a \in Arrangement, NEW p, Current(a, p), p.playing, NEW q \in Written(p)
  PROVE  Current(a, q) /\ SamePlace(p, q)
<1>1. p \in Player /\ Follows(a, p) /\ Len(p.queue) <= BufferSize
  BY DEF Current
<1>2. /\ Len(p.queue) \in Nat /\ Len(p.pending) \in Nat /\ Heard(p) \in Nat
      /\ p.queue \in Seq(Frame) /\ p.pending \in Seq(Frame)
  BY <1>1, PlayerFields
<1>3. PICK held \in Nat, waiting \in Nat, at \in Nat :
        held = Len(p.queue) /\ waiting = Len(p.pending) /\ at = Heard(p)
  BY <1>2
<1>4. PICK room \in Nat : room = Min({waiting, BufferSize - held}) /\ room <= waiting
                          /\ room <= BufferSize - held
  BY <1>1, <1>3, SizeAssumption, MinOfTwo
<1>5. PICK least \in Nat : least = Min({1, room})
  BY MinOfTwo
<1>6. PICK n \in least..room :
        q = [p EXCEPT !.queue = p.queue \o SubSeq(p.pending, 1, n),
                      !.pending = SubSeq(p.pending, n + 1, Len(p.pending))]
  BY <1>3, <1>4, <1>5, Zenon DEF Written
<1>7. n \in Nat /\ n <= waiting /\ n <= BufferSize - held
  <2>1. n \in least..room
    BY <1>6, Zenon
  <2> QED BY <1>3, <1>4, <1>5, <2>1, SizeAssumption
<1>8. PICK first, rest : first = SubSeq(p.pending, 1, n) /\ rest = SubSeq(p.pending, n + 1, Len(p.pending))
  OBVIOUS
<1>9. \A i \in 1..waiting : p.pending[i] \in Frame
  BY <1>2, <1>3, ElementOfSeq
<1>10. /\ first \in Seq(Frame) /\ Len(first) = n
       /\ \A i \in 1..n : first[i] = p.pending[i]
  <2>1. \A i \in 1..n : p.pending[i] \in Frame
    BY <1>7, <1>9
  <2> QED BY <1>7, <1>8, <2>1, SubSeqProperties
<1>11. /\ rest \in Seq(Frame) /\ Len(rest) = waiting - n
       /\ \A i \in 1..(waiting - n) : rest[i] = p.pending[n + i]
  <2>1. \A i \in (n + 1)..waiting : p.pending[i] \in Frame
    BY <1>7, <1>9
  <2> QED BY <1>3, <1>7, <1>8, <2>1, SubSeqProperties
<1>12. /\ p.queue \o first \in Seq(Frame) /\ Len(p.queue \o first) = held + n
       /\ \A i \in 1..(held + n) :
            (p.queue \o first)[i] = IF i <= held THEN p.queue[i] ELSE first[i - held]
  <2>1. p.queue \in Seq(Frame) /\ first \in Seq(Frame)
    BY <1>2, <1>10
  <2>2. /\ p.queue \o first \in Seq(Frame) /\ Len(p.queue \o first) = Len(p.queue) + Len(first)
        /\ \A i \in 1..(Len(p.queue) + Len(first)) :
             (p.queue \o first)[i]
               = IF i <= Len(p.queue) THEN p.queue[i] ELSE first[i - Len(p.queue)]
    BY <2>1, ConcatProperties
  <2>3. Len(p.queue) = held /\ Len(first) = n
    BY <1>3, <1>10
  <2> QED BY <2>2, <2>3
<1>13. PICK longer : longer = p.queue \o first
  OBVIOUS
<1>14. /\ longer \in Seq(Frame) /\ Len(longer) = held + n
       /\ \A i \in 1..(held + n) : longer[i] = IF i <= held THEN p.queue[i] ELSE first[i - held]
  BY <1>12, <1>13, Zenon
<1>15. /\ q \in Player /\ SamePlace(p, q)
       /\ q.queue = longer /\ q.pending = rest /\ q.next = p.next
  <2>1. q = [p EXCEPT !.queue = longer, !.pending = rest]
    BY <1>6, <1>8, <1>13, Zenon
  <2>2. longer \in Seq(Frame) /\ rest \in Seq(Frame)
    BY <1>11, <1>14
  <2> QED BY <1>1, <2>1, <2>2 DEF Player, SamePlace
<1>16. Heard(q) = at
  BY <1>3, <1>15 DEF Heard, SamePlace
<1>17. ASSUME NEW i \in 1..(held + n)
       PROVE  longer[i] = Cell(a, at + i - 1)
  <2>1. CASE i <= held
    <3>1. longer[i] = p.queue[i] /\ i \in 1..held
      BY <1>14, <2>1
    <3> QED BY <1>1, <1>3, <3>1 DEF Follows
  <2>2. CASE i > held
    <3>1. PICK k \in 1..n : k = i - held
      BY <1>7, <2>2
    <3>2. longer[i] = p.pending[k]
      BY <1>10, <1>14, <2>2, <3>1
    <3>3. k \in 1..waiting
      BY <1>7
    <3>4. p.pending[k] = Cell(a, at + held + k - 1)
      BY <1>1, <1>3, <3>3 DEF Follows
    <3>5. at + held + k - 1 = at + i - 1
      BY <3>1
    <3> QED BY <3>2, <3>4, <3>5
  <2> QED BY <1>7, <2>1, <2>2
<1>18. ASSUME NEW i \in 1..(waiting - n)
       PROVE  rest[i] = Cell(a, at + (held + n) + i - 1)
  <2>1. PICK k \in 1..waiting : k = n + i
    BY <1>7
  <2>2. rest[i] = p.pending[k]
    BY <1>11, <2>1
  <2>3. p.pending[k] = Cell(a, at + held + k - 1)
    BY <1>1, <1>3 DEF Follows
  <2>4. at + held + k - 1 = at + (held + n) + i - 1
    BY <1>7, <2>1
  <2> QED BY <2>2, <2>3, <2>4
<1>19. p.next = at + held + waiting
  BY <1>1, <1>3 DEF Follows
<1>20. q.next = at + (held + n) + (waiting - n)
  BY <1>7, <1>15, <1>19
<1>21. Follows(a, q)
  BY <1>11, <1>14, <1>15, <1>16, <1>17, <1>18, <1>20 DEF Follows
<1>22. Len(q.queue) <= BufferSize
  BY <1>7, <1>14, <1>15, SizeAssumption
<1> QED BY <1>15, <1>21, <1>22 DEF Current, SamePlace

(* A pump that goes on stays where it is; one at the end releases the sink.    *)
LEMMA PumpedCurrent ==
  ASSUME NEW a \in Arrangement, NEW p, Current(a, p), NEW q \in Pumped(a, p)
  PROVE  /\ Current(a, q)
         /\ p.playing /\ Heard(p) <= Duration(a) => q.playhead = Heard(p)
         /\ p.playing /\ q.playing => Heard(q) = Heard(p)
<1>1. p \in Player /\ Heard(p) \in Nat
  BY PlayerFields DEF Current
<1>2. CASE ~p.playing
  BY <1>2 DEF Pumped
<1>3. CASE p.playing
  <2>1. PICK r : r = Seek(a, p, Heard(p))
    OBVIOUS
  <2>2. r \in Player /\ Current(a, r) /\ (Heard(p) <= Duration(a) => r.playhead = Heard(p))
    BY <1>1, <2>1, SoughtAt, SeekCurrent
  <2>3. r.playing = p.playing /\ Heard(r) = Heard(p)
    <3>1. PICK k : r = [p EXCEPT !.playhead = k]
      BY <1>1, <2>1, SoughtAt
    <3> QED BY <1>1, <3>1 DEF Heard, Player
  <2>4. CASE AtEnd(a, r)
    <3>1. q = Released(r)
      BY <1>3, <2>1, <2>4 DEF Pumped
    <3> QED BY <2>2, <3>1, ReleasedCurrent
  <2>5. CASE ~AtEnd(a, r)
    <3>1. q \in Written(Filled(a, r))
      BY <1>3, <2>1, <2>5 DEF Pumped
    <3>2. Current(a, Filled(a, r)) /\ SamePlace(r, Filled(a, r))
      BY <1>3, <2>2, <2>3, FilledCurrent
    <3>3. Current(a, q) /\ SamePlace(Filled(a, r), q)
      BY <1>3, <2>3, <3>1, <3>2, WrittenCurrent DEF SamePlace
    <3> QED BY <2>2, <2>3, <3>2, <3>3 DEF SamePlace, Heard
  <2> QED BY <2>4, <2>5
<1> QED BY <1>2, <1>3

(* Without a sink nothing is queued, whatever the arrangement becomes.         *)
LEMMA IdleCurrent ==
  ASSUME NEW a, NEW b, NEW p, Current(a, p), ~p.playing
  PROVE  Current(b, p)
BY DEF Current

(* play() begins at the playhead, or at the start when that is at the end.      *)
LEMMA StartedCurrent ==
  ASSUME NEW a \in Arrangement, NEW p, Current(a, p), ~p.playing
  PROVE  /\ Current(a, Started(a, p)) /\ Started(a, p).playing
         /\ Heard(Started(a, p)) = Started(a, p).playhead
         /\ p.playhead < Duration(a) => Started(a, p).playhead = p.playhead
<1>1. p \in Player /\ p.pending = <<>> /\ p.queue = <<>>
  BY DEF Current
<1>2. PICK at \in Nat : at = IF AtEnd(a, p) THEN 0 ELSE p.playhead
  BY <1>1, PlayerFields
<1>3. PICK q : q = Started(a, p)
  OBVIOUS
<1>4. q = [p EXCEPT !.playing = TRUE, !.playhead = at, !.origin = at, !.next = at,
                    !.processed = 0]
  BY <1>2, <1>3, Zenon DEF Started
<1>5. /\ q \in Player /\ q.playing /\ q.playhead = at /\ q.origin = at /\ q.next = at
      /\ q.processed = 0 /\ q.pending = <<>> /\ q.queue = <<>>
  BY <1>1, <1>4 DEF Player
<1>6. Heard(q) = at
  BY <1>5 DEF Heard
<1>7. Len(q.queue) = 0 /\ Len(q.pending) = 0
  BY <1>5
<1>8. Follows(a, q)
  BY <1>5, <1>6, <1>7 DEF Follows
<1>9. Current(a, q)
  BY <1>5, <1>7, <1>8, SizeAssumption DEF Current
<1>10. p.playhead < Duration(a) => at = p.playhead
  <2>1. p.playhead \in Nat /\ Duration(a) \in Nat
    BY <1>1, PlayerFields, DurationIsLastEnd
  <2> QED BY <1>2, <2>1 DEF AtEnd
<1> QED BY <1>3, <1>5, <1>6, <1>9, <1>10

LEMMA PlayedCurrent ==
  ASSUME NEW a \in Arrangement, NEW p, Current(a, p), ~p.playing, NEW q \in Played(a, p)
  PROVE  /\ Current(a, q)
         /\ p.playhead < Duration(a) =>
              q.playhead = p.playhead /\ (q.playing => Heard(q) = p.playhead)
<1>1. PICK s : s = Started(a, p)
  OBVIOUS
<1>2. /\ Current(a, s) /\ s.playing /\ Heard(s) = s.playhead
      /\ p.playhead < Duration(a) => s.playhead = p.playhead
  BY <1>1, StartedCurrent
<1>3. s \in Player /\ p \in Player
  BY <1>2 DEF Current
<1>4. q = p \/ q = Released(s) \/ q \in Pumped(a, s)
  BY <1>1 DEF Played
<1>5. CASE q = p
  BY <1>5
<1>6. CASE q = Released(s)
  BY <1>2, <1>3, <1>6, ReleasedCurrent
<1>7. CASE q \in Pumped(a, s)
  <2>1. /\ Current(a, q)
        /\ s.playing /\ Heard(s) <= Duration(a) => q.playhead = Heard(s)
        /\ s.playing /\ q.playing => Heard(q) = Heard(s)
    BY <1>2, <1>7, PumpedCurrent
  <2>2. p.playhead \in Nat /\ Duration(a) \in Nat
    BY <1>3, PlayerFields, DurationIsLastEnd
  <2> QED BY <1>2, <2>1, <2>2
<1> QED BY <1>4, <1>5, <1>6, <1>7

(* A change of the mix: what the sink held goes, and playback goes on where it was. *)
LEMMA MixChangedCurrent ==
  ASSUME NEW a \in Arrangement, NEW b \in Arrangement, NEW p, Current(a, p),
         NEW q \in MixChanged(b, p)
  PROVE  /\ Current(b, q)
         /\ p.playing /\ Heard(p) < Duration(b) =>
              q.playhead = Heard(p) /\ (q.playing => Heard(q) = Heard(p))
<1>1. p \in Player
  BY DEF Current
<1>2. CASE ~p.playing
  BY <1>2, IdleCurrent DEF MixChanged
<1>3. CASE p.playing
  <2>1. PICK r : r = Paused(b, p)
    OBVIOUS
  <2>2. /\ Current(b, r) /\ ~r.playing
        /\ p.playing /\ Heard(p) <= Duration(b) => r.playhead = Heard(p)
    BY <1>1, <2>1, PausedCurrent
  <2>3. q \in Played(b, r)
    BY <1>3, <2>1 DEF MixChanged
  <2>4. /\ Current(b, q)
        /\ r.playhead < Duration(b) =>
             q.playhead = r.playhead /\ (q.playing => Heard(q) = r.playhead)
    BY <2>2, <2>3, PlayedCurrent
  <2>5. Heard(p) \in Nat /\ Duration(b) \in Nat
    BY <1>1, PlayerFields, DurationIsLastEnd
  <2> QED BY <1>3, <2>2, <2>4, <2>5
<1> QED BY <1>2, <1>3

LEMMA SoughtCurrent ==
  ASSUME NEW a \in Arrangement, NEW p, Current(a, p), NEW at \in Nat,
         NEW q \in Sought(a, p, at)
  PROVE  Current(a, q)
<1>1. p \in Player /\ at \in Int
  BY DEF Current
<1>2. PICK r : r = Seek(a, Released(p), at)
  OBVIOUS
<1>3. Current(a, r)
  BY <1>1, <1>2, ReleasedCurrent, SeekCurrent
<1>4. ~r.playing
  <2>1. PICK s \in Player : s = Released(p) /\ ~s.playing
    BY <1>1, ReleasedCurrent DEF Current
  <2>2. PICK k : r = [s EXCEPT !.playhead = k]
    BY <1>1, <1>2, <2>1, SoughtAt
  <2> QED BY <2>1, <2>2 DEF Player
<1>5. q \in Played(a, r) \/ q = r
  BY <1>2 DEF Sought
<1> QED BY <1>3, <1>4, <1>5, PlayedCurrent

-----------------------------------------------------------------------------
(* The player with the tracks that it plays.                                   *)
PlayerInv == TracksInv /\ Current(arr, player)

LEMMA PlayerStart == Init => PlayerInv
<1> SUFFICES ASSUME Init PROVE PlayerInv
  OBVIOUS
<1>1. TracksInv
  BY TracksStart DEF Init
<1>2. <<>> \in Seq(Frame) /\ Len(<<>>) = 0
  OBVIOUS
<1>3. /\ player \in Player /\ ~player.playing /\ player.pending = <<>> /\ player.queue = <<>>
  BY <1>2 DEF Init, Player
<1> QED BY <1>1, <1>2, <1>3, SizeAssumption DEF PlayerInv, Current

(* The device takes the first frame of the sink: the one after it is heard.    *)
LEMMA DeviceCurrent ==
  ASSUME PlayerInv, DevicePlays
  PROVE  Current(arr, player')
<1>1. PICK p : p = player
  OBVIOUS
<1>2. /\ p \in Player /\ Len(p.queue) <= BufferSize /\ Follows(arr, p) /\ p.playing
      /\ p.queue # <<>> /\ player' = [p EXCEPT !.queue = Tail(@), !.processed = @ + 1]
  BY <1>1 DEF PlayerInv, Current, DevicePlays
<1>3. /\ p.queue \in Seq(Frame) /\ p.pending \in Seq(Frame) /\ p.processed \in Nat
      /\ p.origin \in Nat /\ Len(p.pending) \in Nat
  BY <1>2, PlayerFields
<1>4. PICK rest : rest = Tail(p.queue)
  OBVIOUS
<1>5. PICK held \in Nat : held = Len(p.queue)
  BY <1>3
<1>6. /\ rest \in Seq(Frame) /\ Len(rest) = held - 1 /\ held > 0
      /\ \A i \in 1..(held - 1) : rest[i] = p.queue[i + 1]
  BY <1>2, <1>3, <1>4, <1>5, HeadTailProperties, EmptySeq
<1>7. PICK done \in Nat : done = p.processed + 1
  BY <1>3
<1>8. PICK q : q = player'
  OBVIOUS
<1>9. q = [p EXCEPT !.queue = rest, !.processed = done]
  BY <1>2, <1>4, <1>7, <1>8
<1>10. /\ q \in Player /\ q.playing /\ q.queue = rest /\ q.pending = p.pending
       /\ q.processed = done /\ q.origin = p.origin /\ q.next = p.next
  BY <1>2, <1>6, <1>9 DEF Player
<1>11. PICK at \in Nat : at = Heard(p)
  BY <1>2, PlayerFields
<1>12. Heard(q) = at + 1
  <2>1. at = p.origin + p.processed /\ Heard(q) = p.origin + (p.processed + 1)
    BY <1>7, <1>10, <1>11 DEF Heard
  <2> QED BY <1>3, <2>1
<1>13. ASSUME NEW i \in 1..(held - 1)
       PROVE  rest[i] = Cell(arr, at + 1 + i - 1)
  <2>1. PICK k \in 1..held : k = i + 1
    BY <1>5
  <2>2. rest[i] = p.queue[k]
    BY <1>6, <2>1
  <2>3. p.queue[k] = Cell(arr, at + k - 1)
    BY <1>2, <1>5, <1>11 DEF Follows
  <2>4. at + k - 1 = at + 1 + i - 1
    BY <2>1
  <2> QED BY <2>2, <2>3, <2>4
<1>14. \A i \in 1..Len(p.pending) : p.pending[i] = Cell(arr, at + 1 + (held - 1) + i - 1)
  <2>1. \A i \in 1..Len(p.pending) : p.pending[i] = Cell(arr, at + held + i - 1)
    BY <1>2, <1>5, <1>11 DEF Follows
  <2>2. \A i \in 1..Len(p.pending) : at + held + i - 1 = at + 1 + (held - 1) + i - 1
    BY <1>3
  <2> QED BY <2>1, <2>2
<1>15. p.next = at + 1 + (held - 1) + Len(p.pending)
  BY <1>2, <1>3, <1>5, <1>11 DEF Follows
<1>16. Follows(arr, q)
  BY <1>6, <1>10, <1>12, <1>13, <1>14, <1>15 DEF Follows
<1>17. Len(q.queue) <= BufferSize
  BY <1>2, <1>5, <1>6, <1>10, SizeAssumption
<1>18. Current(arr, q)
  BY <1>10, <1>16, <1>17 DEF Current
<1> QED BY <1>8, <1>18

LEMMA PlayerStep ==
  ASSUME PlayerInv, [Next]_vars
  PROVE  PlayerInv'
<1>1. TracksInv /\ Current(arr, player) /\ arr \in Arrangement /\ player \in Player
  BY DEF PlayerInv, TracksInv, ArrangementInv, Current
<1>2. TracksInv' /\ arr' \in Arrangement
  BY <1>1, TracksStep DEF TracksInv, ArrangementInv
<1> SUFFICES Current(arr', player')
  BY <1>2 DEF PlayerInv
<1>3. CASE UNCHANGED <<arr, player>>
  BY <1>1, <1>3
<1>4. CASE Rearrange
  <2>1. player' \in MixChanged(arr', player)
    BY <1>4 DEF Rearrange
  <2> QED BY <1>1, <1>2, <2>1, MixChangedCurrent
<1>5. CASE RemoveTrackPaused
  <2>1. PICK p : p = Paused(arr, player)
    OBVIOUS
  <2>2. Current(arr', p) /\ ~p.playing
    BY <1>1, <1>2, <2>1, PausedCurrent
  <2>3. player' = p
    BY <1>5, <2>1, <2>2 DEF RemoveTrackPaused, MixChanged
  <2> QED BY <2>2, <2>3
<1>6. CASE ClickSeeks
  <2>1. UNCHANGED arr
    BY <1>6 DEF ClickSeeks, Click
  <2>2. PICK at \in 0..Duration(arr) + 1 : player' \in Sought(arr, player, at)
    BY <1>6 DEF ClickSeeks
  <2>3. at \in Nat
    BY <2>2
  <2>4. Current(arr, player')
    BY <1>1, <2>2, <2>3, SoughtCurrent
  <2> QED BY <2>1, <2>4
<1>7. CASE PlayOrPause
  <2>1. UNCHANGED arr
    BY <1>7 DEF PlayOrPause, trackVars
  <2>2. CASE player.playing
    <3>1. player' = Paused(arr, player)
      BY <1>7, <2>2 DEF PlayOrPause
    <3> QED BY <1>1, <2>1, <3>1, PausedCurrent
  <2>3. CASE ~player.playing
    <3>1. player' \in Played(arr, player)
      BY <1>7, <2>3 DEF PlayOrPause
    <3>2. Current(arr, player')
      BY <1>1, <2>3, <3>1, PlayedCurrent
    <3> QED BY <2>1, <3>2
  <2> QED BY <2>2, <2>3
<1>8. CASE Stop
  <2>1. UNCHANGED arr /\ player' = Seek(arr, Released(player), 0)
    BY <1>8 DEF Stop, trackVars
  <2>2. Current(arr, Released(player)) /\ 0 \in Int
    BY <1>1, ReleasedCurrent
  <2>3. Current(arr, Seek(arr, Released(player), 0))
    BY <1>1, <2>2, SeekCurrent
  <2> QED BY <2>1, <2>3
<1>9. CASE Pump
  <2>1. UNCHANGED arr /\ player' \in Pumped(arr, player)
    BY <1>9 DEF Pump, trackVars
  <2>2. Current(arr, player')
    BY <1>1, <2>1, PumpedCurrent
  <2> QED BY <2>1, <2>2
<1>10. CASE PumpFails
  <2>1. UNCHANGED arr /\ player' = Paused(arr, player)
    BY <1>10 DEF PumpFails, trackVars
  <2> QED BY <1>1, <2>1, PausedCurrent
<1>11. CASE DevicePlays
  <2>1. UNCHANGED arr
    BY <1>11 DEF DevicePlays, trackVars
  <2> QED BY <1>11, <2>1, DeviceCurrent
<1>12. CASE SelectSomething
  <2>1. Pointed /\ UNCHANGED player
    BY <1>12 DEF SelectSomething, Pointed
  <2>2. UNCHANGED arr
    BY <1>1, <2>1, PointedInv
  <2> QED BY <1>3, <2>1, <2>2
<1> QED
  BY <1>3, <1>4, <1>5, <1>6, <1>7, <1>8, <1>9, <1>10, <1>11, <1>12
     DEF Next, UserStep, vars, trackVars

LEMMA CurrentQueue ==
  ASSUME PlayerInv
  PROVE  QueueIsCurrent
<1> SUFFICES ASSUME player.playing PROVE QueueIsCurrent
  BY DEF QueueIsCurrent
<1>1. PICK p \in Player : p = player /\ Follows(arr, p)
  BY DEF PlayerInv, Current
<1>2. /\ p.queue \in Seq(Frame) /\ p.pending \in Seq(Frame) /\ Heard(p) \in Nat
      /\ arr \in Arrangement
  BY <1>1, PlayerFields DEF PlayerInv, TracksInv, ArrangementInv
<1>3. PICK held \in Nat, waiting \in Nat, at \in Nat :
        held = Len(p.queue) /\ waiting = Len(p.pending) /\ at = Heard(p)
  BY <1>2
<1>4. PICK queued : queued = p.queue \o p.pending
  OBVIOUS
<1>5. /\ queued \in Seq(Frame) /\ Len(queued) = Len(p.queue) + Len(p.pending)
      /\ \A i \in 1..(Len(p.queue) + Len(p.pending)) :
           queued[i] = IF i <= Len(p.queue) THEN p.queue[i] ELSE p.pending[i - Len(p.queue)]
  BY <1>2, <1>4, ConcatProperties
<1>6. PICK count \in Nat : count = held + waiting
  OBVIOUS
<1>7. /\ Len(queued) = count
      /\ \A i \in 1..count : queued[i] = IF i <= held THEN p.queue[i] ELSE p.pending[i - held]
  BY <1>3, <1>5, <1>6, Zenon
<1>8. PICK block : block = MixBlock(arr, at, count)
  OBVIOUS
<1>9. /\ block \in Seq(Frame) /\ Len(block) = count
      /\ \A i \in 1..count : block[i] = Cell(arr, at + i - 1)
  BY <1>2, <1>8, MixBlockFrames
<1>10. ASSUME NEW i \in 1..count
       PROVE  queued[i] = Cell(arr, at + i - 1)
  <2>1. CASE i <= held
    <3>1. queued[i] = p.queue[i] /\ i \in 1..held
      BY <1>6, <1>7, <2>1
    <3> QED BY <1>1, <1>3, <3>1 DEF Follows
  <2>2. CASE i > held
    <3>1. PICK k \in 1..waiting : k = i - held
      BY <1>6, <2>2
    <3>2. queued[i] = p.pending[k]
      BY <1>7, <2>2, <3>1
    <3>3. p.pending[k] = Cell(arr, at + held + k - 1)
      BY <1>1, <1>3 DEF Follows
    <3>4. at + held + k - 1 = at + i - 1
      BY <3>1
    <3> QED BY <3>2, <3>3, <3>4
  <2> QED BY <2>1, <2>2
<1>11. \A i \in 1..Len(queued) : queued[i] = block[i]
  BY <1>7, <1>9, <1>10
<1>12. queued = block
  BY <1>5, <1>7, <1>9, <1>11, SeqEqual
<1>13. p.next = at + count
  <2>1. p.next = at + held + waiting
    BY <1>1, <1>3 DEF Follows
  <2> QED BY <1>6, <2>1
<1> QED BY <1>1, <1>3, <1>4, <1>7, <1>8, <1>12, <1>13, Zenon DEF QueueIsCurrent

(* What the sink holds, and the block that waits for it, is what the tracks sound *)
(* like now, from the frame that is heard.  (WorkspacePlayer._pump, _mix_changed) *)
THEOREM QueueStaysCurrent == Spec => []QueueIsCurrent
<1>1. Init => PlayerInv
  BY PlayerStart
<1>2. PlayerInv /\ [Next]_vars => PlayerInv'
  BY PlayerStep
<1>3. PlayerInv => QueueIsCurrent
  BY CurrentQueue
<1> QED BY <1>1, <1>2, <1>3, PTL DEF Spec

(* A track that goes leaves the end of the timeline where it was, or earlier.  *)
LEMMA RemovedIsShorter ==
  ASSUME TracksInv, NEW t \in Track, RemoveTrack(t)
  PROVE  Duration(arr') <= Duration(arr)
<1>1. /\ TracksInv' /\ On(arr') = On(arr) \ {t}
      /\ \A u \in On(arr') : arr'.offset[u] = arr.offset[u]
  BY RemoveTrackInv
<1>2. PICK a \in Arrangement, b \in Arrangement : a = arr /\ b = arr'
  BY <1>1 DEF TracksInv, ArrangementInv
<1>3. Duration(b) \in Nat /\ Duration(b) \in {0} \cup Ends(b) /\ Duration(a) \in Nat
  BY DurationIsLastEnd
<1>4. ASSUME NEW u \in On(b) PROVE b.offset[u] + Length[u] <= Duration(a)
  <2>1. u \in On(a) /\ b.offset[u] = a.offset[u]
    BY <1>1, <1>2
  <2>2. u \in Track
    BY <2>1, OnTracks
  <2>3. a.offset[u] + Length[u] \in Nat
    BY <2>2, TrackAssumption, OffsetAssumption DEF Arrangement, Offset
  <2> QED BY <1>3, <2>1, <2>3, DurationIsLastEnd
<1>5. Duration(b) <= Duration(a)
  BY <1>3, <1>4 DEF Ends
<1> QED BY <1>2, <1>5

LEMMA ResumedInPlace ==
  ASSUME PlayerInv, [Next]_vars, arr' # arr, player.playing, Heard(player) < Duration(arr')
  PROVE  player'.playhead = Heard(player) /\ (player'.playing => Heard(player') = Heard(player))
<1>1. TracksInv /\ Current(arr, player) /\ arr \in Arrangement /\ player \in Player
  BY DEF PlayerInv, TracksInv, ArrangementInv, Current
<1>2. arr' \in Arrangement
  BY <1>1, TracksStep DEF TracksInv, ArrangementInv
<1>3. CASE Rearrange
  <2>1. player' \in MixChanged(arr', player)
    BY <1>3 DEF Rearrange
  <2> QED BY <1>1, <1>2, <2>1, MixChangedCurrent
<1>4. CASE RemoveTrackPaused
  <2>1. PICK p : p = Paused(arr, player)
    OBVIOUS
  <2>2. Duration(arr') <= Duration(arr)
    BY <1>1, <1>4, RemovedIsShorter DEF RemoveTrackPaused
  <2>3. Heard(player) <= Duration(arr)
    BY <1>1, <1>2, <2>2, PlayerFields, DurationIsLastEnd
  <2>4. ~p.playing /\ p.playhead = Heard(player)
    BY <1>1, <2>1, <2>3, PausedCurrent
  <2>5. player' = p
    BY <1>4, <2>1, <2>4 DEF RemoveTrackPaused, MixChanged
  <2> QED BY <2>4, <2>5
<1>5. CASE SelectSomething \/ ClickSeeks
  <2>1. Pointed
    BY <1>5 DEF SelectSomething, ClickSeeks, Pointed
  <2> QED BY <1>1, <2>1, PointedInv
<1> QED
  BY <1>3, <1>4, <1>5
     DEF Next, UserStep, vars, trackVars, PlayOrPause, Stop, Pump, PumpFails, DevicePlays

(* Playback goes on at the frame that is heard when the tracks change under it. *)
(* (WorkspacePlayer._mix_changed)                                               *)
THEOREM PlaybackResumesInPlace == Spec => ResumesInPlace
<1>1. Init => PlayerInv
  BY PlayerStart
<1>2. PlayerInv /\ [Next]_vars => PlayerInv'
  BY PlayerStep
<1>3. PlayerInv /\ [Next]_vars =>
        [arr' # arr /\ player.playing /\ Heard(player) < Duration(arr')
           => player'.playhead = Heard(player)
              /\ (player'.playing => Heard(player') = Heard(player))]_vars
  BY ResumedInPlace
<1> QED BY <1>1, <1>2, <1>3, PTL DEF Spec, ResumesInPlace


LEMMA GesturesCounted ==
  ASSUME gestures \in 0..MaxGestures, [Next]_vars
  PROVE  gestures' \in 0..MaxGestures
BY GesturesAssumption DEF Next, UserStep, Pump, PumpFails, DevicePlays, vars

(* Every variable keeps its type.                                               *)
THEOREM TypeCorrect == Spec => []TypeOK
<1> DEFINE Counted == gestures \in 0..MaxGestures
<1>1. Init => PlayerInv /\ Counted
  BY PlayerStart, GesturesAssumption DEF Init
<1>2. PlayerInv /\ Counted /\ [Next]_vars => PlayerInv' /\ Counted'
  BY PlayerStep, GesturesCounted
<1>3. PlayerInv /\ Counted => TypeOK
  BY DEF PlayerInv, Current, TracksInv, ArrangementInv, Arrangement, SelectionInv, Chosen,
         GestureInv, TypeOK, TracksTypeOK
<1> HIDE DEF Counted
<1> QED BY <1>1, <1>2, <1>3, PTL DEF Spec

=============================================================================
