--------------------------- MODULE PlaygroundProofs ---------------------------
(***************************************************************************)
(* For any tracks of any length, any block and any lag of the device: what *)
(* the audio thread of the playground reads fits together, and what the    *)
(* views show is the audio that is there.                                  *)
(***************************************************************************)
EXTENDS Playground, SequenceTheorems, FiniteSetTheorems, TLAPS

-----------------------------------------------------------------------------
(* A finite set of numbers has a greatest one, and CHOOSE finds it.            *)
LEMMA LeastNumber ==
  ASSUME NEW T \in SUBSET Nat, T # {}
  PROVE  \E m \in T : \A k \in T : m <= k
<1> DEFINE R == {pair \in Nat \X Nat : pair[1] < pair[2]}
<1>1. IsWellFoundedOn(R, Nat)
  BY NatLessThanWellFounded DEF OpToRel
<1>2. PICK m \in T : \A k \in T : ~(<<k, m>> \in R)
  BY <1>1, WFMin
<1>3. \A k \in T : ~(k < m)
  BY <1>2
<1> QED BY <1>3

LEMMA FiniteHasGreatest ==
  ASSUME NEW S \in SUBSET Nat, IsFiniteSet(S), S # {}
  PROVE  \E x \in S : \A y \in S : x >= y
<1> DEFINE Topless(T) == T # {} /\ IsFiniteSet(T) /\ \A x \in T : \E y \in T : ~(x >= y)
           Sizes == {Cardinality(T) : T \in {U \in SUBSET Nat : Topless(U)}}
<1> SUFFICES ASSUME Topless(S) PROVE FALSE
  OBVIOUS
<1>1. Sizes \in SUBSET Nat /\ Sizes # {}
  BY FS_CardinalityType
<1>2. PICK n \in Sizes : \A k \in Sizes : n <= k
  BY <1>1, LeastNumber
<1>3. PICK T \in SUBSET Nat : Topless(T) /\ Cardinality(T) = n
  BY <1>2
<1>4. PICK x \in T : TRUE
  BY <1>3
<1>5. IsFiniteSet(T \ {x}) /\ Cardinality(T \ {x}) = n - 1 /\ n \in Nat
  BY <1>1, <1>2, <1>3, <1>4, FS_RemoveElement
<1>6. Topless(T \ {x})
  <2>1. PICK y \in T : ~(x >= y)
    BY <1>3, <1>4
  <2>2. y \in T \ {x} /\ x < y
    BY <1>4, <2>1
  <2>3. ASSUME NEW z \in T \ {x} PROVE \E w \in T \ {x} : ~(z >= w)
    <3>1. PICK w \in T : ~(z >= w)
      BY <1>3, <2>3
    <3>2. CASE w = x
      BY <2>2, <3>1, <3>2
    <3> QED BY <3>1, <3>2
  <2> QED BY <1>5, <2>2, <2>3
<1>7. n - 1 \in Sizes
  BY <1>3, <1>5, <1>6
<1> QED BY <1>2, <1>5, <1>7

LEMMA MaxOfNumbers ==
  ASSUME NEW S \in SUBSET Nat, IsFiniteSet(S), S # {}
  PROVE  Max(S) \in S /\ \A y \in S : Max(S) >= y
BY FiniteHasGreatest DEF Max

-----------------------------------------------------------------------------
(* Lengths.                                                                     *)
LEMMA WithinBounds ==
  ASSUME NEW time \in Int, NEW duration \in Nat
  PROVE  /\ Within(time, duration) \in 0 .. duration
         /\ time \in 0 .. duration => Within(time, duration) = time
BY DEF Within, Least, Greatest

\* A track as every edit leaves it: with audio in its trim.
SoundTrack ==
  {track \in [samples : Seq(Nat), first : Nat, last : Nat] :
     track.first < track.last /\ track.last <= Len(track.samples)}

LEMMA TrackDuration ==
  ASSUME NEW track \in SoundTrack
  PROVE  Duration(track) \in Nat \ {0}
BY DEF SoundTrack, Duration

LEMMA UntrimmedSound ==
  ASSUME NEW samples \in Seq(Nat), Len(samples) > 0
  PROVE  Untrimmed(samples) \in SoundTrack /\ Duration(Untrimmed(samples)) = Len(samples)
<1>1. Len(samples) \in Nat
  BY LenProperties
<1> QED BY <1>1 DEF Untrimmed, SoundTrack, Duration

LEMMA SamplesType ==
  ASSUME NEW frames \in Nat \ {0}
  PROVE  Samples(frames) \in Seq(Nat) /\ Len(Samples(frames)) = frames
BY DEF Samples

LEMMA ViewType ==
  ASSUME NEW track \in SoundTrack
  PROVE  PlaybackView(track) \in Seq(Nat) /\ Len(PlaybackView(track)) = Duration(track)
<1>1. /\ track.samples \in Seq(Nat) /\ track.first \in Nat /\ track.last \in Nat
      /\ track.first < track.last /\ track.last <= Len(track.samples)
  BY DEF SoundTrack
<1>2. Len(track.samples) \in Nat
  BY <1>1, LenProperties
<1> QED BY <1>1, <1>2, SubSeqProperties DEF PlaybackView, Duration

(* The total is a number that no track exceeds and that some track reaches.     *)
LEMMA TotalType ==
  ASSUME NEW ids, IsFiniteSet(ids), NEW tracks, \A id \in ids : tracks[id] \in SoundTrack
  PROVE  /\ TotalFramesOf(ids, tracks) \in Nat
         /\ TotalFramesOf(ids, tracks) \in {0} \cup {Duration(tracks[t]) : t \in ids}
         /\ \A id \in ids : Duration(tracks[id]) <= TotalFramesOf(ids, tracks)
<1> DEFINE durations == {Duration(tracks[t]) : t \in ids}
<1>1. \A id \in ids : Duration(tracks[id]) \in Nat
  BY TrackDuration
<1>2. IsFiniteSet(durations)
  <2> DEFINE f == [t \in ids |-> Duration(tracks[t])]
  <2>1. f \in Surjection(ids, durations)
    BY DEF Surjection
  <2> QED BY <2>1, FS_Surjection
<1>3. IsFiniteSet({0} \cup durations) /\ {0} \cup durations \in SUBSET Nat
  <2>1. IsFiniteSet(durations \cup {0})
    BY <1>2, FS_AddElement
  <2>2. durations \cup {0} = {0} \cup durations
    OBVIOUS
  <2> QED BY <1>1, <2>1, <2>2
<1>4. Max({0} \cup durations) \in {0} \cup durations
      /\ \A y \in {0} \cup durations : Max({0} \cup durations) >= y
  BY <1>3, MaxOfNumbers
<1> QED BY <1>1, <1>3, <1>4 DEF TotalFramesOf

-----------------------------------------------------------------------------
(* The order of the tracks: each is in it once, whatever is added, moved or    *)
(* removed.                                                                    *)
Distinct(s) == \A i, j \in DOMAIN s : s[i] = s[j] => i = j

LEMMA RemoveOne ==
  ASSUME NEW s \in Seq(TrackId), Distinct(s), NEW i \in DOMAIN s
  PROVE  /\ RemoveAt(s, i) \in Seq(TrackId) /\ Distinct(RemoveAt(s, i))
         /\ Len(RemoveAt(s, i)) = Len(s) - 1
         /\ ToSet(RemoveAt(s, i)) = ToSet(s) \ {s[i]}
<1> DEFINE before == SubSeq(s, 1, i - 1)
           after == SubSeq(s, i + 1, Len(s))
<1>1. Len(s) \in Nat /\ DOMAIN s = 1..Len(s) /\ \A j \in 1..Len(s) : s[j] \in TrackId
  BY LenProperties, ElementOfSeq
<1>2. /\ before \in Seq(TrackId) /\ Len(before) = i - 1
      /\ \A j \in 1..(i - 1) : before[j] = s[j]
  BY <1>1, SubSeqProperties
<1>3. /\ after \in Seq(TrackId) /\ Len(after) = Len(s) - i
      /\ \A j \in 1..(Len(s) - i) : after[j] = s[i + j]
  BY <1>1, SubSeqProperties
<1> HIDE DEF before, after
<1> DEFINE r == before \o after
<1>4. /\ r \in Seq(TrackId) /\ Len(r) = Len(s) - 1
      /\ \A j \in 1..Len(r) : r[j] = IF j < i THEN s[j] ELSE s[j + 1]
  <2>0. /\ r \in Seq(TrackId) /\ Len(r) = Len(before) + Len(after)
        /\ \A j \in 1..(Len(before) + Len(after)) :
             r[j] = IF j <= Len(before) THEN before[j] ELSE after[j - Len(before)]
    BY <1>2, <1>3, ConcatProperties
  <2>1. r \in Seq(TrackId) /\ Len(r) = Len(s) - 1
    BY <1>1, <1>2, <1>3, <2>0
  <2> HIDE DEF r
  <2>2. \A j \in 1..Len(r) : r[j] = IF j <= Len(before) THEN before[j] ELSE after[j - Len(before)]
    BY <1>1, <1>2, <1>3, <2>0, <2>1
  <2>3. ASSUME NEW j \in 1..Len(r) PROVE r[j] = IF j < i THEN s[j] ELSE s[j + 1]
    <3>1. CASE j < i
      BY <1>1, <1>2, <2>1, <2>2, <3>1
    <3>2. CASE ~(j < i)
      <4>1. r[j] = after[j - (i - 1)] /\ j - (i - 1) \in 1..(Len(s) - i)
        BY <1>1, <1>2, <2>1, <2>2, <3>2
      <4>2. after[j - (i - 1)] = s[i + (j - (i - 1))]
        BY <1>3, <4>1
      <4>3. i + (j - (i - 1)) = j + 1
        BY <1>1
      <4> QED BY <3>2, <4>1, <4>2, <4>3
    <3> QED BY <3>1, <3>2
  <2> QED BY <2>1, <2>3
<1>5. DOMAIN r = 1..Len(r)
  BY <1>4, LenProperties
<1> HIDE DEF r
<1>a. \A j \in 1..Len(s) : \A m \in 1..Len(s) : s[j] = s[m] => j = m
  BY <1>1 DEF Distinct
<1>b. ASSUME NEW j \in 1..Len(r)
      PROVE  \E p \in 1..Len(s) : r[j] = s[p] /\ p = IF j < i THEN j ELSE j + 1
  <2>1. CASE j < i
    <3>1. j \in 1..Len(s) /\ r[j] = s[j]
      BY <1>1, <1>4, <2>1
    <3> QED BY <2>1, <3>1
  <2>2. CASE ~(j < i)
    <3>1. j + 1 \in 1..Len(s) /\ r[j] = s[j + 1]
      BY <1>1, <1>4, <2>2
    <3> QED BY <2>2, <3>1
  <2> QED BY <2>1, <2>2
<1>6. Distinct(r)
  <2> SUFFICES ASSUME NEW j \in 1..Len(r), NEW m \in 1..Len(r), r[j] = r[m] PROVE j = m
    BY <1>5 DEF Distinct
  <2>1. PICK p \in 1..Len(s) : r[j] = s[p] /\ p = IF j < i THEN j ELSE j + 1
    BY <1>b
  <2>2. PICK q \in 1..Len(s) : r[m] = s[q] /\ q = IF m < i THEN m ELSE m + 1
    BY <1>b
  <2>3. p = q
    BY <1>a, <2>1, <2>2
  <2>4. Len(r) \in Nat /\ i \in Nat
    BY <1>1, <1>4
  <2> QED BY <2>1, <2>2, <2>3, <2>4
<1>7. ToSet(r) = ToSet(s) \ {s[i]}
  <2>1. ASSUME NEW j \in 1..Len(r) PROVE r[j] \in ToSet(s) \ {s[i]}
    <3>1. PICK p \in 1..Len(s) : r[j] = s[p] /\ p = IF j < i THEN j ELSE j + 1
      BY <1>b
    <3>2. p # i
      BY <1>1, <1>4, <3>1
    <3>3. s[p] # s[i]
      BY <1>1, <1>a, <3>2
    <3>4. s[p] \in ToSet(s)
      BY <1>1 DEF ToSet
    <3> QED BY <3>1, <3>3, <3>4
  <2>2. ASSUME NEW j \in 1..Len(s), s[j] # s[i] PROVE s[j] \in ToSet(r)
    <3>1. CASE j < i
      <4>1. j \in 1..Len(r) /\ r[j] = s[j]
        BY <1>1, <1>4, <3>1
      <4> QED BY <1>5, <4>1 DEF ToSet
    <3>2. CASE j > i
      <4>1. j - 1 \in 1..Len(r) /\ r[j - 1] = s[j - 1 + 1] /\ j - 1 + 1 = j
        BY <1>1, <1>4, <3>2
      <4> QED BY <1>5, <4>1 DEF ToSet
    <3> QED BY <1>1, <2>2, <3>1, <3>2
  <2> QED BY <1>1, <1>5, <2>1, <2>2 DEF ToSet
<1>8. RemoveAt(s, i) = r
  BY DEF RemoveAt, r, before, after
<1> QED BY <1>4, <1>6, <1>7, <1>8

LEMMA InsertOne ==
  ASSUME NEW s \in Seq(TrackId), Distinct(s), NEW t \in TrackId, t \notin ToSet(s),
         NEW k \in 1..(Len(s) + 1)
  PROVE  /\ InsertAt(s, k, t) \in Seq(TrackId) /\ Distinct(InsertAt(s, k, t))
         /\ ToSet(InsertAt(s, k, t)) = ToSet(s) \cup {t}
<1> DEFINE before == SubSeq(s, 1, k - 1)
           after == SubSeq(s, k, Len(s))
           front == before \o <<t>>
<1>1. Len(s) \in Nat /\ DOMAIN s = 1..Len(s) /\ \A j \in 1..Len(s) : s[j] \in TrackId
  BY LenProperties, ElementOfSeq
<1>2. /\ before \in Seq(TrackId) /\ Len(before) = k - 1
      /\ \A j \in 1..(k - 1) : before[j] = s[j]
  BY <1>1, SubSeqProperties
<1>3. /\ after \in Seq(TrackId) /\ Len(after) = Len(s) - k + 1
      /\ \A j \in 1..(Len(s) - k + 1) : after[j] = s[k + j - 1]
  BY <1>1, SubSeqProperties
<1> HIDE DEF before, after
<1>4. /\ front \in Seq(TrackId) /\ Len(front) = k
      /\ front[k] = t /\ \A j \in 1..(k - 1) : front[j] = s[j]
  <2>1. <<t>> \in Seq(TrackId) /\ Len(<<t>>) = 1 /\ <<t>>[1] = t
    OBVIOUS
  <2>2. /\ front \in Seq(TrackId) /\ Len(front) = Len(before) + Len(<<t>>)
        /\ \A j \in 1..(Len(before) + Len(<<t>>)) :
             front[j] = IF j <= Len(before) THEN before[j] ELSE <<t>>[j - Len(before)]
    BY <1>2, <2>1, ConcatProperties
  <2> HIDE DEF front
  <2>3. front \in Seq(TrackId) /\ Len(front) = k
    BY <1>1, <1>2, <2>1, <2>2
  <2>4. \A j \in 1..k : front[j] = IF j <= k - 1 THEN before[j] ELSE <<t>>[j - (k - 1)]
    BY <1>1, <1>2, <2>1, <2>2
  <2>5. front[k] = t
    <3>1. k \in 1..k /\ ~(k <= k - 1) /\ k - (k - 1) = 1
      BY <1>1
    <3>2. front[k] = <<t>>[k - (k - 1)]
      BY <2>4, <3>1
    <3> QED BY <2>1, <3>1, <3>2
  <2> QED BY <1>1, <1>2, <2>3, <2>4, <2>5
<1> HIDE DEF front
<1> DEFINE r == front \o after
<1>5. /\ r \in Seq(TrackId) /\ Len(r) = Len(s) + 1
      /\ \A j \in 1..Len(r) : r[j] = IF j < k THEN s[j] ELSE IF j = k THEN t ELSE s[j - 1]
  <2>0. /\ r \in Seq(TrackId) /\ Len(r) = Len(front) + Len(after)
        /\ \A j \in 1..(Len(front) + Len(after)) :
             r[j] = IF j <= Len(front) THEN front[j] ELSE after[j - Len(front)]
    BY <1>3, <1>4, ConcatProperties
  <2>1. r \in Seq(TrackId) /\ Len(r) = Len(s) + 1
    BY <1>1, <1>3, <1>4, <2>0
  <2> HIDE DEF r
  <2>2. \A j \in 1..Len(r) : r[j] = IF j <= k THEN front[j] ELSE after[j - k]
    BY <1>1, <1>3, <1>4, <2>0, <2>1
  <2>3. ASSUME NEW j \in 1..Len(r), j > k PROVE r[j] = s[j - 1]
    <3>1. r[j] = after[j - k] /\ j - k \in 1..(Len(s) - k + 1)
      BY <1>1, <2>1, <2>2, <2>3
    <3>2. PICK m \in 1..(Len(s) - k + 1) : m = j - k
      BY <3>1
    <3>3. after[m] = s[k + m - 1]
      BY <1>3
    <3>4. k + m - 1 = j - 1
      BY <1>1, <3>2
    <3> QED BY <3>1, <3>2, <3>3, <3>4
  <2> QED BY <1>1, <1>4, <2>1, <2>2, <2>3
<1>6. DOMAIN r = 1..Len(r)
  BY <1>5, LenProperties
<1> HIDE DEF r
<1>7. \A j \in 1..Len(s) : s[j] # t
  BY <1>1 DEF ToSet
<1>8. Distinct(r)
  <2>1. \A j \in 1..Len(s) : \A m \in 1..Len(s) : s[j] = s[m] => j = m
    BY <1>1 DEF Distinct
  <2> SUFFICES ASSUME NEW j \in 1..Len(r), NEW m \in 1..Len(r), r[j] = r[m] PROVE j = m
    BY <1>6 DEF Distinct
  <2>2. CASE j = k
    BY <1>1, <1>5, <1>7, <2>2
  <2>3. CASE m = k
    BY <1>1, <1>5, <1>7, <2>3
  <2>4. CASE j # k /\ m # k
    BY <1>1, <1>5, <2>1, <2>4
  <2> QED BY <2>2, <2>3, <2>4
<1>9. ToSet(r) = ToSet(s) \cup {t}
  <2>1. ASSUME NEW j \in 1..Len(r) PROVE r[j] \in ToSet(s) \cup {t}
    BY <1>1, <1>5, <2>1 DEF ToSet
  <2>2. t \in ToSet(r)
    <3>1. k \in 1..Len(r) /\ r[k] = t
      BY <1>1, <1>5
    <3> QED BY <1>6, <3>1 DEF ToSet
  <2>3. ASSUME NEW j \in 1..Len(s) PROVE s[j] \in ToSet(r)
    <3>1. CASE j < k
      <4>1. j \in 1..Len(r) /\ r[j] = s[j]
        BY <1>1, <1>5, <3>1
      <4> QED BY <1>6, <4>1 DEF ToSet
    <3>2. CASE j >= k
      <4>1. j + 1 \in 1..Len(r) /\ r[j + 1] = s[j + 1 - 1] /\ j + 1 - 1 = j
        BY <1>1, <1>5, <3>2
      <4> QED BY <1>6, <4>1 DEF ToSet
    <3> QED BY <1>1, <3>1, <3>2
  <2> QED BY <1>1, <1>6, <2>1, <2>2, <2>3 DEF ToSet
<1>10. InsertAt(s, k, t) = r
  BY DEF InsertAt, r, front, before, after
<1> QED BY <1>5, <1>8, <1>9, <1>10

LEMMA AppendOne ==
  ASSUME NEW s \in Seq(TrackId), Distinct(s), NEW t \in TrackId, t \notin ToSet(s)
  PROVE  /\ Append(s, t) \in Seq(TrackId) /\ Distinct(Append(s, t))
         /\ ToSet(Append(s, t)) = ToSet(s) \cup {t}
<1>1. /\ Append(s, t) \in Seq(TrackId) /\ Len(Append(s, t)) = Len(s) + 1
      /\ Append(s, t)[Len(s) + 1] = t
      /\ \A i \in 1..Len(s) : Append(s, t)[i] = s[i]
  BY AppendProperties
<1>2. /\ Len(s) \in Nat /\ DOMAIN s = 1..Len(s)
      /\ DOMAIN Append(s, t) = 1..(Len(s) + 1)
  BY <1>1, LenProperties
<1> QED BY <1>1, <1>2 DEF Distinct, ToSet
(* Regions of a track.                                                          *)
Region(duration) == {pair \in (0 .. duration) \X (0 .. duration) : pair[1] < pair[2]}

LEMMA BoundsType ==
  ASSUME NEW start \in Int, NEW end \in Int, NEW length \in Nat
  PROVE  /\ Bounds(start, end, length) =
              <<Bounds(start, end, length)[1], Bounds(start, end, length)[2]>>
         /\ Bounds(start, end, length)[1] \in 0 .. length
         /\ Bounds(start, end, length)[2] \in 0 .. length
         /\ Bounds(start, end, length)[1] <= Bounds(start, end, length)[2]
BY DEF Bounds, Within, Least, Greatest

LEMMA BoundsInside ==
  ASSUME NEW length \in Nat, NEW start \in 0 .. length, NEW end \in 0 .. length, start < end
  PROVE  Bounds(start, end, length) = <<start, end>>
BY DEF Bounds, Within, Least, Greatest

LEMMA SelectedType ==
  ASSUME NEW first \in Int, NEW second \in Int, NEW duration \in Nat
  PROVE  Selected(first, second, duration) \in Region(duration) \cup {None}
<1>1. /\ Within(Least(first, second), duration) \in 0 .. duration
      /\ Within(Greatest(first, second), duration) \in 0 .. duration
  BY WithinBounds DEF Least, Greatest
<1> QED BY <1>1 DEF Selected, Region

LEMMA SelectedInside ==
  ASSUME NEW duration \in Nat, NEW first \in 0 .. duration, NEW second \in first .. duration
  PROVE  Selected(first, second, duration) =
           IF first < second THEN <<first, second>> ELSE None
<1>1. /\ Least(first, second) = first /\ Greatest(first, second) = second
  BY DEF Least, Greatest
<1>2. Within(first, duration) = first /\ Within(second, duration) = second
  BY WithinBounds
<1> QED BY <1>1, <1>2 DEF Selected

(* What is before a place in a view, and what is after it.                      *)
LEMMA PartLength ==
  ASSUME NEW view \in Seq(Nat), NEW place \in 0 .. Len(view)
  PROVE  /\ SubSeq(view, 1, place) \in Seq(Nat) /\ Len(SubSeq(view, 1, place)) = place
         /\ SubSeq(view, place + 1, Len(view)) \in Seq(Nat)
         /\ Len(SubSeq(view, place + 1, Len(view))) = Len(view) - place
<1>1. Len(view) \in Nat /\ \A i \in 1 .. Len(view) : view[i] \in Nat
  BY LenProperties, ElementOfSeq
<1> QED BY <1>1, SubSeqProperties

(* What the edits make of a track.                                              *)
LEMMA CopyType ==
  ASSUME NEW track \in SoundTrack, NEW start \in Int, NEW end \in Int
  PROVE  /\ CopyRegion(track, start, end) \in Seq(Nat)
         /\ Len(CopyRegion(track, start, end)) =
              Bounds(start, end, Duration(track))[2] - Bounds(start, end, Duration(track))[1]
<1>1. PICK b : b = Bounds(start, end, Duration(track))
  OBVIOUS
<1>2. b[1] \in 0 .. Duration(track) /\ b[2] \in 0 .. Duration(track) /\ b[1] <= b[2]
      /\ Duration(track) \in Nat
  BY <1>1, BoundsType, TrackDuration
<1>3. PICK view \in Seq(Nat) : view = PlaybackView(track) /\ Len(view) = Duration(track)
  BY ViewType
<1>4. SubSeq(view, b[1] + 1, b[2]) \in Seq(Nat) /\ Len(SubSeq(view, b[1] + 1, b[2])) = b[2] - b[1]
  <2>1. b[1] + 1 \in 1 .. Len(view) + 1 /\ b[2] \in b[1] .. Len(view)
    BY <1>2, <1>3
  <2> QED BY <1>2, <1>3, <2>1, SubSeqProperties
<1> QED BY <1>1, <1>3, <1>4 DEF CopyRegion

LEMMA DeleteLength ==
  ASSUME NEW track \in SoundTrack, NEW start \in Int, NEW end \in Int
  PROVE  /\ DeleteRegion(track, start, end).samples \in Seq(Nat)
         /\ DeleteRegion(track, start, end) = Untrimmed(DeleteRegion(track, start, end).samples)
         /\ Len(DeleteRegion(track, start, end).samples) =
              Duration(track) - (Bounds(start, end, Duration(track))[2]
                                 - Bounds(start, end, Duration(track))[1])
<1>1. PICK b : b = Bounds(start, end, Duration(track))
  OBVIOUS
<1>2. b[1] \in 0 .. Duration(track) /\ b[2] \in 0 .. Duration(track) /\ b[1] <= b[2]
      /\ Duration(track) \in Nat
  BY <1>1, BoundsType, TrackDuration
<1>3. PICK view \in Seq(Nat) : view = PlaybackView(track) /\ Len(view) = Duration(track)
  BY ViewType
<1>4. PICK before \in Seq(Nat) : before = SubSeq(view, 1, b[1]) /\ Len(before) = b[1]
  BY <1>2, <1>3, PartLength
<1>5. PICK after \in Seq(Nat) :
         after = SubSeq(view, b[2] + 1, Len(view)) /\ Len(after) = Len(view) - b[2]
  BY <1>2, <1>3, PartLength
<1>6. before \o after \in Seq(Nat) /\ Len(before \o after) = Len(before) + Len(after)
  BY ConcatProperties
<1>7. DeleteRegion(track, start, end) = Untrimmed(before \o after)
  BY <1>1, <1>3, <1>4, <1>5 DEF DeleteRegion
<1>8. DeleteRegion(track, start, end).samples = before \o after
  BY <1>7 DEF Untrimmed
<1>9. Len(before) + Len(after) = Duration(track) - (b[2] - b[1])
  <2>1. PICK x \in Nat, y \in Nat, d \in Nat : x = b[1] /\ y = b[2] /\ d = Duration(track)
    BY <1>2
  <2>2. Len(before) = x /\ Len(after) = d - y
    BY <1>3, <1>4, <1>5, <2>1
  <2>3. x + (d - y) = d - (y - x)
    BY <2>1
  <2> QED BY <2>1, <2>2, <2>3
<1> QED BY <1>1, <1>6, <1>7, <1>8, <1>9

LEMMA PasteLength ==
  ASSUME NEW track \in SoundTrack, NEW position \in Int, NEW clip \in Seq(Nat)
  PROVE  /\ PasteClip(track, position, clip) \in SoundTrack
         /\ Duration(PasteClip(track, position, clip)) = Duration(track) + Len(clip)
<1>1. PICK first \in 0 .. Duration(track) : first = Within(position, Duration(track))
  BY TrackDuration, WithinBounds
<1>2. PICK view \in Seq(Nat) : view = PlaybackView(track) /\ Len(view) = Duration(track)
  BY ViewType
<1>3. Duration(track) \in Nat \ {0} /\ Len(clip) \in Nat
  BY TrackDuration, LenProperties
<1>4. PICK before \in Seq(Nat) : before = SubSeq(view, 1, first) /\ Len(before) = first
  BY <1>1, <1>2, <1>3, PartLength
<1>5. PICK after \in Seq(Nat) :
         after = SubSeq(view, first + 1, Len(view)) /\ Len(after) = Len(view) - first
  BY <1>1, <1>2, <1>3, PartLength
<1>6. before \o clip \in Seq(Nat) /\ Len(before \o clip) = first + Len(clip)
  BY <1>4, ConcatProperties
<1>7. PICK all \in Seq(Nat) :
         all = (before \o clip) \o after /\ Len(all) = first + Len(clip) + Len(after)
  <2>1. PICK front \in Seq(Nat) : front = before \o clip /\ Len(front) = first + Len(clip)
    BY <1>6
  <2>2. front \o after \in Seq(Nat) /\ Len(front \o after) = Len(front) + Len(after)
    BY ConcatProperties
  <2> QED BY <2>1, <2>2
<1>8. Len(all) = Duration(track) + Len(clip)
  BY <1>1, <1>2, <1>3, <1>5, <1>7
<1>9. PasteClip(track, position, clip) = Untrimmed(all)
  BY <1>1, <1>2, <1>4, <1>5, <1>7 DEF PasteClip
<1> QED BY <1>3, <1>8, <1>9, UntrimmedSound

-----------------------------------------------------------------------------
(* What a callback renders: a turn of the loop of render_into ends it, or leaves *)
(* fewer frames for the next.                                                    *)
Turn(r, loop, total, n, at) ==
  LET boundary == IF loop = None THEN total ELSE loop[2]
      from  == IF loop # None /\ boundary <= at THEN loop[1] ELSE at
      count == Least(n, boundary - from)
      next  == from + count
  IN  IF n = 0 THEN [state |-> "playing", position |-> at]
      ELSE IF boundary <= from THEN [state |-> "stopped", position |-> from]
      ELSE IF loop # None /\ next >= boundary THEN r[n - count][loop[1]]
      ELSE IF next >= total THEN [state |-> "stopped", position |-> next]
      ELSE r[n - count][next]

Turns(r, loop, total, frames) ==
  r = [n \in 0 .. frames |-> [at \in 0 .. total |-> Turn(r, loop, total, n, at)]]

Repeats(loop, total) == loop # None => loop \in Region(total)

Boundary(loop, total) == IF loop = None THEN total ELSE loop[2]

Rendering(total) == [state : {"playing", "stopped"}, position : 0 .. total]

LEMMA BoundaryType ==
  ASSUME NEW total \in Nat, NEW loop, Repeats(loop, total)
  PROVE  /\ Boundary(loop, total) \in 0 .. total
         /\ loop # None => /\ loop[1] \in 0 .. total /\ loop[2] \in 0 .. total
                           /\ loop[1] < loop[2] /\ Boundary(loop, total) = loop[2]
BY DEF Repeats, Boundary, Region

LEMMA TurnCases ==
  ASSUME NEW total \in Nat, NEW loop, Repeats(loop, total),
         NEW n \in Nat, NEW at \in 0 .. total
  PROVE  \/ \E end \in Rendering(total) : \A r : Turn(r, loop, total, n, at) = end
         \/ \E m \in Nat, x \in 0 .. total :
              m < n /\ \A r : Turn(r, loop, total, n, at) = r[m][x]
<1>1. PICK b \in 0 .. total : b = Boundary(loop, total)
  BY BoundaryType
<1>2. loop # None => loop[1] \in 0 .. total /\ loop[2] = b /\ loop[1] < b
  BY <1>1, BoundaryType
<1>3. b = IF loop = None THEN total ELSE loop[2]
  BY <1>1 DEF Boundary
<1>4. PICK from \in 0 .. total : from = IF loop # None /\ b <= at THEN loop[1] ELSE at
  BY <1>2
<1>5. CASE n = 0
  <2>1. PICK end : end = [state |-> "playing", position |-> at]
    OBVIOUS
  <2>2. \A r : Turn(r, loop, total, n, at) = end
    BY <1>5, <2>1, Zenon DEF Turn
  <2>3. end \in Rendering(total)
    BY <2>1 DEF Rendering
  <2> QED BY <2>2, <2>3
<1>6. CASE n # 0 /\ b <= from
  <2>1. PICK end : end = [state |-> "stopped", position |-> from]
    OBVIOUS
  <2>2. \A r : Turn(r, loop, total, n, at) = end
    BY <1>3, <1>4, <1>6, <2>1, Zenon DEF Turn
  <2>3. end \in Rendering(total)
    BY <2>1 DEF Rendering
  <2> QED BY <2>2, <2>3
<1>7. CASE n # 0 /\ ~(b <= from)
  <2>1. PICK count \in 1 .. n : count = Least(n, b - from) /\ from + count <= b
    BY <1>7 DEF Least
  <2>2. PICK next \in 0 .. total : next = from + count
    BY <2>1
  <2>3. PICK left \in Nat : left = n - count /\ left < n
    BY <2>1
  <2>a. \A r : Turn(r, loop, total, n, at) =
          IF loop # None /\ next >= b THEN r[left][loop[1]]
          ELSE IF next >= total THEN [state |-> "stopped", position |-> next]
          ELSE r[left][next]
    BY <1>3, <1>4, <1>7, <2>1, <2>2, <2>3, Zenon DEF Turn
  <2>4. CASE loop # None /\ next >= b
    <3>1. \A r : Turn(r, loop, total, n, at) = r[left][loop[1]]
      BY <2>4, <2>a, Zenon
    <3> QED BY <1>2, <2>3, <2>4, <3>1
  <2>5. CASE ~(loop # None /\ next >= b) /\ next >= total
    <3>1. PICK end : end = [state |-> "stopped", position |-> next]
      OBVIOUS
    <3>2. \A r : Turn(r, loop, total, n, at) = end
      BY <2>5, <2>a, <3>1, Zenon
    <3>3. end \in Rendering(total)
      BY <2>2, <3>1 DEF Rendering
    <3> QED BY <3>2, <3>3
  <2>6. CASE ~(loop # None /\ next >= b) /\ ~(next >= total)
    <3>1. \A r : Turn(r, loop, total, n, at) = r[left][next]
      BY <2>6, <2>a, Zenon
    <3> QED BY <2>2, <2>3, <3>1
  <2> QED BY <2>4, <2>5, <2>6
<1> QED BY <1>5, <1>6, <1>7

(* Two recursions that agree on fewer frames agree on the next turn.            *)
Agree(r, s, n, total) ==
  \A m \in Nat : m < n => \A x \in 0 .. total : r[m][x] = s[m][x]

LEMMA TurnReads ==
  ASSUME NEW total \in Nat, NEW loop, Repeats(loop, total),
         NEW n \in Nat, NEW at \in 0 .. total, NEW r, NEW s,
         Agree(r, s, n, total)
  PROVE  Turn(r, loop, total, n, at) = Turn(s, loop, total, n, at)
<1>1. CASE \E end \in Rendering(total) : \A q : Turn(q, loop, total, n, at) = end
  BY <1>1
<1>2. CASE \E m \in Nat, x \in 0 .. total :
              m < n /\ \A q : Turn(q, loop, total, n, at) = q[m][x]
  <2>1. PICK m \in Nat, x \in 0 .. total :
          m < n /\ \A q : Turn(q, loop, total, n, at) = q[m][x]
    BY <1>2
  <2>2. Turn(r, loop, total, n, at) = r[m][x] /\ Turn(s, loop, total, n, at) = s[m][x]
    BY <2>1, Zenon
  <2> QED BY <2>1, <2>2 DEF Agree
<1> QED BY <1>1, <1>2, TurnCases

(* So the recursion is well defined.                                            *)
LEMMA TurnsExist ==
  ASSUME NEW total \in Nat, NEW loop, Repeats(loop, total), NEW frames \in Nat
  PROVE  \E r : Turns(r, loop, total, frames)
<1> DEFINE Missing == {k \in Nat : ~\E r : Turns(r, loop, total, k)}
<1>a. /\ Missing \in SUBSET Nat
      /\ \A k \in Nat : k \in Missing \/ \E r : Turns(r, loop, total, k)
      /\ \A k \in Missing : \A r : ~Turns(r, loop, total, k)
  OBVIOUS
<1> HIDE DEF Missing
<1>1. Missing = {}
  <2> SUFFICES ASSUME Missing # {} PROVE FALSE
    OBVIOUS
  <2>1. PICK k \in Missing : \A j \in Missing : k <= j
    BY <1>a, LeastNumber
  <2>2. k \in Nat
    BY <1>a
  <2>3. PICK before : \A n \in 0 .. k - 1 : \A at \in 0 .. total :
                        before[n][at] = Turn(before, loop, total, n, at)
    <3>1. CASE k = 0
      BY <3>1
    <3>2. CASE k # 0
      <4>1. k - 1 \in Nat /\ k - 1 \notin Missing
        BY <2>1, <2>2, <3>2
      <4>2. PICK r : Turns(r, loop, total, k - 1)
        BY <1>a, <4>1
      <4>3. ASSUME NEW n \in 0 .. k - 1, NEW at \in 0 .. total
            PROVE  r[n][at] = Turn(r, loop, total, n, at)
        <5>1. r[n] = [x \in 0 .. total |-> Turn(r, loop, total, n, x)]
          BY <4>2, Zenon DEF Turns
        <5> QED BY <5>1
      <4> QED BY <4>3
    <3> QED BY <3>1, <3>2
  <2>4. PICK r : r = [n \in 0 .. k |-> [at \in 0 .. total |->
                        Turn(before, loop, total, n, at)]]
    OBVIOUS
  <2>5. ASSUME NEW m \in Nat, m < k, NEW x \in 0 .. total PROVE r[m][x] = before[m][x]
    <3>1. m \in 0 .. k /\ m \in 0 .. k - 1
      BY <2>2, <2>5
    <3>2. r[m] = [at \in 0 .. total |-> Turn(before, loop, total, m, at)]
      BY <2>4, <3>1
    <3>3. r[m][x] = Turn(before, loop, total, m, x)
      BY <3>2
    <3> QED BY <2>3, <3>1, <3>3
  <2>6. ASSUME NEW n \in 0 .. k, NEW at \in 0 .. total
        PROVE  Turn(before, loop, total, n, at) = Turn(r, loop, total, n, at)
    <3>1. Agree(before, r, n, total)
      BY <2>2, <2>5 DEF Agree
    <3>2. n \in Nat
      BY <2>2
    <3> QED BY <3>1, <3>2, TurnReads
  <2>7. \A n \in 0 .. k : [at \in 0 .. total |-> Turn(before, loop, total, n, at)] =
                           [at \in 0 .. total |-> Turn(r, loop, total, n, at)]
    BY <2>6
  <2>8. Turns(r, loop, total, k)
    BY <2>4, <2>7, Zenon DEF Turns
  <2> QED BY <1>a, <2>1, <2>8
<1> QED BY <1>a, <1>1

(* Wherever a callback begins, it ends within the project.                      *)
LEMMA TurnsType ==
  ASSUME NEW total \in Nat, NEW loop, Repeats(loop, total), NEW frames \in Nat,
         NEW r, Turns(r, loop, total, frames)
  PROVE  \A n \in 0 .. frames, at \in 0 .. total : r[n][at] \in Rendering(total)
<1> DEFINE Bad == {n \in 0 .. frames : \E at \in 0 .. total : r[n][at] \notin Rendering(total)}
<1>a. /\ Bad \in SUBSET Nat
      /\ \A n \in Bad : \E at \in 0 .. total : n \in 0 .. frames /\ r[n][at] \notin Rendering(total)
      /\ \A n \in 0 .. frames : n \notin Bad =>
            \A at \in 0 .. total : r[n][at] \in Rendering(total)
  OBVIOUS
<1> HIDE DEF Bad
<1>1. Bad = {}
  <2> SUFFICES ASSUME Bad # {} PROVE FALSE
    OBVIOUS
  <2>1. PICK n \in Bad : \A m \in Bad : n <= m
    BY <1>a, LeastNumber
  <2>2. PICK at \in 0 .. total : n \in 0 .. frames /\ r[n][at] \notin Rendering(total)
    BY <1>a, <2>1
  <2>3. r[n][at] = Turn(r, loop, total, n, at)
    <3>1. r[n] = [x \in 0 .. total |-> Turn(r, loop, total, n, x)]
      BY <2>2, Zenon DEF Turns
    <3> QED BY <3>1
  <2>4. CASE \E end \in Rendering(total) : \A q : Turn(q, loop, total, n, at) = end
    BY <2>2, <2>3, <2>4
  <2>5. CASE \E m \in Nat, x \in 0 .. total :
              m < n /\ \A q : Turn(q, loop, total, n, at) = q[m][x]
    <3>1. PICK m \in Nat, x \in 0 .. total :
            m < n /\ \A q : Turn(q, loop, total, n, at) = q[m][x]
      BY <2>5
    <3>2. m \in 0 .. frames /\ m \notin Bad
      BY <2>1, <2>2, <3>1
    <3>3. r[m][x] \in Rendering(total)
      BY <1>a, <3>1, <3>2
    <3>4. r[n][at] = r[m][x]
      BY <2>3, <3>1, Zenon
    <3> QED BY <2>2, <3>3, <3>4
  <2>6. n \in Nat
    BY <2>2
  <2> QED BY <2>4, <2>5, <2>6, TurnCases
<1> QED BY <1>a, <1>1

LEMMA RenderedType ==
  ASSUME TotalFrames \in Nat, Repeats(LoopRegion, TotalFrames),
         NEW frame \in 0 .. TotalFrames, NEW frames \in Nat
  PROVE  Rendered(frame, frames) \in Rendering(TotalFrames)
<1>1. PICK loop, total : loop = LoopRegion /\ total = TotalFrames
  OBVIOUS
<1>2. PICK r : r = (CHOOSE q : Turns(q, loop, total, frames)) /\ Turns(r, loop, total, frames)
  BY <1>1, TurnsExist
<1>3. Rendered(frame, frames) = r[frames][frame]
  BY <1>1, <1>2 DEF Rendered, Turns, Turn
<1> QED BY <1>1, <1>2, <1>3, TurnsType

-----------------------------------------------------------------------------
(* The project, its playback, and what waits to be pasted.                      *)
ProjectInv ==
  /\ order \in Seq(TrackId) /\ Distinct(order)
  /\ Tracks \subseteq DOMAIN audio
  /\ \A id \in Tracks : audio[id] \in SoundTrack
  /\ DOMAIN selections = Tracks
  /\ \A id \in Tracks : selections[id] \in Region(Duration(audio[id])) \cup {None}
  /\ active \in Tracks \cup {None}
  /\ active = None <=> order = <<>>

Transports(total) ==
  [state : {"stopped", "playing", "paused"}, position : 0 .. total, loop : BOOLEAN]

EngineInv ==
  /\ transport \in Transports(TotalFrames)
  /\ stream \in {"none", "active", "inactive"}
  /\ anchor \in (0 .. TotalFrames) \cup {None}
  /\ stream = "none" => transport.state # "playing"

InputInv == clipboard \in Seq(Nat) \cup {None} /\ take \in Nat \cup {None}

PlayInv == ProjectInv /\ EngineInv /\ InputInv

LEMMA SetOfTracks ==
  ASSUME NEW s \in Seq(TrackId)
  PROVE  /\ ToSet(s) \subseteq TrackId /\ None \notin ToSet(s) /\ IsFiniteSet(ToSet(s))
         /\ \A i \in 1 .. Len(s) : s[i] \in ToSet(s)
         /\ s = <<>> <=> ToSet(s) = {}
<1>1. Len(s) \in Nat /\ DOMAIN s = 1 .. Len(s) /\ \A i \in 1 .. Len(s) : s[i] \in TrackId
  BY LenProperties, ElementOfSeq
<1>2. ToSet(s) \subseteq TrackId /\ \A i \in 1 .. Len(s) : s[i] \in ToSet(s)
  BY <1>1 DEF ToSet
<1>3. None \notin ToSet(s) /\ IsFiniteSet(ToSet(s))
  BY <1>2, TrackIdAssumption, FS_Subset
<1>4. s = <<>> <=> ToSet(s) = {}
  <2>1. CASE s = <<>>
    <3>1. Len(s) = 0
      BY <2>1
    <3> QED BY <1>1, <2>1, <3>1 DEF ToSet
  <2>2. CASE s # <<>>
    <3>1. 1 \in 1 .. Len(s)
      BY <1>1, <2>2
    <3> QED BY <1>2, <2>2, <3>1
  <2> QED BY <2>1, <2>2
<1> QED BY <1>2, <1>3, <1>4

LEMMA TracksType ==
  ASSUME order \in Seq(TrackId)
  PROVE  /\ Tracks \subseteq TrackId /\ None \notin Tracks /\ IsFiniteSet(Tracks)
         /\ order = <<>> <=> Tracks = {}
BY SetOfTracks DEF Tracks

LEMMA TotalIsSound ==
  ASSUME ProjectInv
  PROVE  /\ TotalFrames \in Nat
         /\ TotalFrames \in {0} \cup {Duration(audio[t]) : t \in Tracks}
         /\ \A id \in Tracks : /\ Duration(audio[id]) \in Nat \ {0}
                               /\ Duration(audio[id]) <= TotalFrames
BY TracksType, TotalType, TrackDuration DEF ProjectInv, TotalFrames

(* What is repeated, and the selection of the active track, lie in the project.  *)
LEMMA SelectionInside ==
  ASSUME ProjectInv
  PROVE  /\ Repeats(Selection, TotalFrames) /\ Repeats(LoopRegion, TotalFrames)
         /\ active # None /\ Selection # None =>
              Selection \in Region(Duration(audio[active]))
<1>1. CASE active = None
  BY <1>1 DEF Selection, SelectionOf, LoopRegion, Repeats
<1>2. CASE active # None
  <2>1. active \in Tracks /\ selections[active] \in Region(Duration(audio[active])) \cup {None}
    BY <1>2 DEF ProjectInv
  <2>2. PICK d \in Nat, total \in Nat :
          d = Duration(audio[active]) /\ total = TotalFrames /\ d <= total
    BY <2>1, TotalIsSound
  <2>3. Selection = selections[active]
    BY <1>2 DEF Selection, SelectionOf
  <2>4. Selection # None => Selection \in Region(d) /\ Selection \in Region(total)
    BY <2>1, <2>2, <2>3 DEF Region
  <2> QED BY <2>2, <2>4 DEF LoopRegion, Repeats
<1> QED BY <1>1, <1>2

LEMMA AudibleType ==
  ASSUME ProjectInv, EngineInv, NEW frame \in AudibleFrames
  PROVE  frame \in Int
<1>1. PICK total \in Nat : total = TotalFrames
  BY TotalIsSound
<1>2. PICK loop : loop = LoopRegion /\ Repeats(loop, total)
  BY <1>1, SelectionInside
<1>3. CASE anchor = None \/ stream = "none"
  BY <1>1, <1>3 DEF AudibleFrames, EngineInv, Transports
<1>4. CASE ~(anchor = None \/ stream = "none")
  <2>1. anchor \in 0 .. total
    BY <1>1, <1>4 DEF EngineInv
  <2>2. PICK lag \in -MaxLag .. MaxLag : frame = Advanced(anchor, lag)
    BY <1>4 DEF AudibleFrames
  <2>3. lag \in Int
    BY <2>2, BlockAssumption
  <2>4. Within(anchor + lag, total) \in Int
    BY <2>1, <2>3, WithinBounds
  <2>5. CASE loop = None
    BY <1>1, <1>2, <2>2, <2>4, <2>5 DEF Advanced
  <2>6. CASE loop # None
    <3>1. PICK width \in Nat \ {0} : width = loop[2] - loop[1] /\ loop[1] \in Nat /\ loop[2] \in Nat
      BY <1>2, <2>6, BoundaryType
    <3>2. \A x \in Int : loop[1] + (x % width) \in Int
      BY <3>1
    <3>3. /\ loop[1] + ((anchor - loop[1] + lag) % width) \in Int
          /\ loop[1] + ((anchor + lag - loop[2]) % width) \in Int
      BY <2>1, <2>3, <3>1, <3>2
    <3>4. frame = IF anchor \in loop[1] .. loop[2] - 1
                  THEN loop[1] + ((anchor - loop[1] + lag) % width)
                  ELSE IF lag >= 0 /\ anchor + lag >= loop[2]
                  THEN loop[1] + ((anchor + lag - loop[2]) % width)
                  ELSE Within(anchor + lag, total)
      BY <1>1, <1>2, <2>2, <2>6, <3>1, Zenon DEF Advanced
    <3> QED BY <2>4, <3>3, <3>4
  <2> QED BY <2>5, <2>6
<1> QED BY <1>3, <1>4

-----------------------------------------------------------------------------
(* Playback.                                                                    *)
LEMMA TransportMoves ==
  ASSUME NEW total \in Nat,
         NEW t \in Transports(total),
         NEW state \in {"stopped", "playing", "paused"}, NEW at \in 0 .. total
  PROVE  /\ [t EXCEPT !.state = state]
              \in Transports(total)
         /\ [t EXCEPT !.state = state, !.position = at]
              \in Transports(total)
         /\ [t EXCEPT !.position = at] \in Transports(total)
BY DEF Transports

LEMMA StopAtInv ==
  ASSUME EngineInv, NEW frame, frame \in 0 .. TotalFrames', StopAt(frame)
  PROVE  EngineInv'
<1>1. /\ transport' = [transport EXCEPT !.state = "stopped", !.position = frame]
      /\ stream' = Aborted(stream) /\ anchor' = None
  BY DEF StopAt
<1>2. /\ transport'.state = "stopped"
      /\ transport' \in Transports(TotalFrames')
  BY <1>1 DEF EngineInv, Transports
<1>3. stream' \in {"none", "active", "inactive"}
  BY <1>1 DEF EngineInv, Aborted
<1> QED BY <1>1, <1>2, <1>3 DEF EngineInv

LEMMA StopPositionType ==
  ASSUME ProjectInv
  PROVE  StopPosition \in 0 .. TotalFrames
<1>1. TotalFrames \in Nat
  BY TotalIsSound
<1>2. CASE Selection = None
  BY <1>1, <1>2 DEF StopPosition
<1>3. CASE Selection # None
  <2>1. Selection[1] \in Int
    BY <1>1, <1>3, SelectionInside, BoundaryType
  <2> QED BY <1>1, <1>3, <2>1, WithinBounds DEF StopPosition
<1> QED BY <1>2, <1>3

(* A project that grows, or keeps its length, keeps the playhead in it.         *)
LEMMA GrowInv ==
  ASSUME EngineInv, TotalFrames \in Nat, TotalFrames' \in Nat, TotalFrames <= TotalFrames',
         UNCHANGED engineVars
  PROVE  EngineInv'
<1>1. transport' = transport /\ stream' = stream /\ anchor' = anchor
  BY DEF engineVars
<1>2. \A frame \in 0 .. TotalFrames : frame \in 0 .. TotalFrames'
  OBVIOUS
<1>3. transport' \in Transports(TotalFrames')
  BY <1>1, <1>2 DEF EngineInv, Transports
<1>4. anchor' \in (0 .. TotalFrames') \cup {None}
  BY <1>1, <1>2 DEF EngineInv
<1> QED BY <1>1, <1>3, <1>4 DEF EngineInv

LEMMA SelectionChangesInv ==
  ASSUME EngineInv, TotalFrames' = TotalFrames, NEW id, NEW selected,
         SelectionChanges(id, selected)
  PROVE  EngineInv'
<1>1. transport' = transport /\ anchor' = anchor
      /\ (stream' = stream \/ (stream = "active" /\ stream' = "inactive"))
  BY DEF SelectionChanges
<1> QED BY <1>1 DEF EngineInv

LEMMA PauseInv ==
  ASSUME ProjectInv, EngineInv, UNCHANGED projectVars, Pause
  PROVE  EngineInv'
<1>1. PICK total \in Nat : total = TotalFrames /\ TotalFrames' = total
  BY TotalIsSound DEF projectVars, TotalFrames, Tracks
<1>2. /\ transport \in Transports(total)
      /\ stream \in {"none", "active", "inactive"}
  BY <1>1 DEF EngineInv
<1>3. PICK frame \in AudibleFrames :
        transport' = [transport EXCEPT !.state = "paused", !.position = Within(frame, TotalFrames)]
  BY Zenon DEF Pause
<1>4. PICK at \in 0 .. total : at = Within(frame, TotalFrames)
  BY <1>1, <1>3, AudibleType, WithinBounds
<1>5. stream' \in {"none", "active", "inactive"} /\ anchor' = None
  BY <1>2 DEF Pause, Aborted
<1>6. transport' = [transport EXCEPT !.state = "paused", !.position = at]
  BY <1>3, <1>4
<1>7. transport' \in Transports(total) /\ transport'.state = "paused"
  BY <1>2, <1>4, <1>6 DEF Transports
<1> QED BY <1>1, <1>5, <1>7 DEF EngineInv

LEMMA PlaybackInv ==
  ASSUME ProjectInv, EngineInv, UNCHANGED projectVars, Playback
  PROVE  EngineInv'
<1>1. PICK total \in Nat : total = TotalFrames /\ TotalFrames' = total
  BY TotalIsSound DEF projectVars, TotalFrames, Tracks
<1>2. /\ transport \in Transports(total)
      /\ stream \in {"none", "active", "inactive"}
      /\ anchor \in (0 .. total) \cup {None}
      /\ stream = "none" => transport.state # "playing"
  BY <1>1 DEF EngineInv
<1>3. Start \in Transports(total)
  <2>1. /\ transport \in Transports(total)
        /\ 0 \in 0 .. total /\ "playing" \in {"stopped", "playing", "paused"}
    BY <1>2
  <2>2. /\ [transport EXCEPT !.state = "playing", !.position = 0]
             \in Transports(total)
        /\ [transport EXCEPT !.state = "playing"]
             \in Transports(total)
    BY <2>1, TransportMoves, Zenon
  <2> QED BY <2>2, Zenon DEF Start
<1>a. SUFFICES /\ transport' \in Transports(total)
               /\ stream' \in {"none", "active", "inactive"}
               /\ anchor' \in (0 .. total) \cup {None}
               /\ stream' = "none" => transport'.state # "playing"
  BY <1>1 DEF EngineInv
<1>4. CASE Play
  BY <1>3, <1>4 DEF Play
<1>5. CASE PlayFails
  <2>1. /\ transport' = [Start EXCEPT !.state = "paused"]
        /\ anchor' = None /\ stream' = stream
    BY <1>5 DEF PlayFails
  <2>2. transport' \in Transports(total) /\ transport'.state = "paused"
    BY <1>3, <2>1 DEF Transports
  <2> QED BY <1>2, <2>1, <2>2
<1>6. CASE Pause
  BY <1>1, <1>6, PauseInv DEF EngineInv
<1>7. CASE StopPlayback
  <2>1. StopAt(StopPosition) /\ StopPosition \in 0 .. TotalFrames'
    BY <1>1, <1>7, StopPositionType DEF StopPlayback
  <2>2. EngineInv'
    BY <2>1, StopAtInv
  <2> QED BY <1>1, <2>2 DEF EngineInv
<1>8. CASE \E frame \in 0 .. TotalFrames : Seek(frame)
  <2>1. PICK frame \in 0 .. total : Seek(frame)
    BY <1>1, <1>8
  <2>2. PICK at \in 0 .. total : at = Within(frame, TotalFrames)
    BY <1>1, <2>1, WithinBounds
  <2>3. /\ transport' = [transport EXCEPT !.position = at] /\ anchor' = None
        /\ stream' \in IF transport.state = "playing" THEN {"active", "inactive"} ELSE {stream}
    BY <2>1, <2>2 DEF Seek
  <2>4. transport'.state = transport.state /\ transport' \in Transports(total)
    BY <1>2, <2>2, <2>3 DEF Transports
  <2> QED BY <1>2, <2>3, <2>4
<1>9. CASE ToggleLoop
  BY <1>2, <1>9 DEF ToggleLoop, Transports
<1> QED BY <1>4, <1>5, <1>6, <1>7, <1>8, <1>9 DEF Playback

(* The audio thread.                                                            *)
LEMMA CallbackInv ==
  ASSUME ProjectInv, EngineInv, UNCHANGED projectVars, AudioCallback
  PROVE  EngineInv'
<1>1. PICK total \in Nat : total = TotalFrames /\ TotalFrames' = total
  BY TotalIsSound DEF projectVars, TotalFrames, Tracks
<1>2. /\ transport \in Transports(total)
      /\ transport.position \in 0 .. total
  BY <1>1 DEF EngineInv, Transports
<1>3. PICK rendered \in Rendering(total) : rendered = Rendered(transport.position, Block)
  BY <1>1, <1>2, RenderedType, SelectionInside, BlockAssumption
<1>4. /\ transport' = [transport EXCEPT !.state = rendered.state, !.position = rendered.position]
      /\ stream = "active" /\ stream' = stream
  BY <1>3 DEF AudioCallback
<1>5. rendered.state \in {"playing", "stopped"} /\ rendered.position \in 0 .. total
  BY <1>3 DEF Rendering
<1>6. transport' \in Transports(total)
  BY <1>2, <1>4, <1>5 DEF Transports
<1>7. anchor' \in 0 .. total
  <2>1. LoopRegion # None => LoopRegion[1] \in 0 .. total
    BY <1>1, SelectionInside, BoundaryType
  <2>2. (anchor' = LoopRegion[1] /\ LoopRegion # None) \/ anchor' = transport.position
    BY DEF AudioCallback
  <2> QED BY <1>2, <2>1, <2>2
<1> QED BY <1>1, <1>4, <1>6, <1>7 DEF EngineInv

-----------------------------------------------------------------------------
(* Tracks and selections.                                                       *)
LEMMA TotalGrows ==
  ASSUME NEW ids, NEW more, IsFiniteSet(ids), IsFiniteSet(more), ids \subseteq more,
         NEW tracks, NEW after, \A id \in more : after[id] \in SoundTrack,
         \A id \in ids : tracks[id] = after[id]
  PROVE  /\ TotalFramesOf(ids, tracks) \in Nat /\ TotalFramesOf(more, after) \in Nat
         /\ TotalFramesOf(ids, tracks) <= TotalFramesOf(more, after)
<1>1. \A id \in ids : tracks[id] \in SoundTrack
  OBVIOUS
<1>2. PICK x : /\ x = TotalFramesOf(ids, tracks) /\ x \in Nat
               /\ x \in {0} \cup {Duration(tracks[t]) : t \in ids}
  BY <1>1, TotalType
<1>3. PICK y : /\ y = TotalFramesOf(more, after) /\ y \in Nat
               /\ \A id \in more : Duration(after[id]) <= y
  BY TotalType
<1>4. CASE x = 0
  BY <1>2, <1>3, <1>4
<1>5. CASE x \in {Duration(tracks[t]) : t \in ids}
  BY <1>2, <1>3, <1>5
<1> QED BY <1>2, <1>4, <1>5

(* Nothing but the active track changes, or nothing at all.                     *)
LEMMA SameAudioInv ==
  ASSUME ProjectInv, UNCHANGED <<order, audio, selections>>, active' \in Tracks \/ active' = active
  PROVE  ProjectInv' /\ TotalFrames' = TotalFrames
<1>1. Tracks' = Tracks /\ TotalFrames' = TotalFrames
  BY DEF Tracks, TotalFrames
<1>2. active' \in Tracks => active' # None /\ order # <<>>
  BY TracksType DEF ProjectInv
<1> QED BY <1>1, <1>2 DEF ProjectInv

LEMMA AddInv ==
  ASSUME ProjectInv, EngineInv, NEW id \in TrackId, NEW samples \in Seq(Nat), Len(samples) > 0,
         AddToProject(id, samples), UNCHANGED engineVars
  PROVE  ProjectInv' /\ EngineInv'
<1>1. /\ order' = Append(order, id) /\ active' = id /\ id \notin DOMAIN audio
      /\ audio' = [t \in DOMAIN audio \cup {id} |->
                     IF t = id THEN Untrimmed(samples) ELSE audio[t]]
      /\ selections' = [t \in DOMAIN selections \cup {id} |->
                          IF t = id THEN None ELSE selections[t]]
  BY DEF AddToProject
<1>2. /\ order \in Seq(TrackId) /\ Distinct(order) /\ Tracks \subseteq DOMAIN audio
      /\ DOMAIN selections = Tracks /\ id \notin Tracks
  BY <1>1 DEF ProjectInv
<1>3. /\ order' \in Seq(TrackId) /\ Distinct(order)' /\ Tracks' = Tracks \cup {id}
  BY <1>1, <1>2, AppendOne DEF Tracks, Distinct
<1>4. /\ DOMAIN audio' = DOMAIN audio \cup {id} /\ audio'[id] = Untrimmed(samples)
      /\ \A t \in DOMAIN audio : audio'[t] = audio[t]
  BY <1>1
<1>5. /\ DOMAIN selections' = Tracks' /\ selections'[id] = None
      /\ \A t \in Tracks : selections'[t] = selections[t]
  BY <1>1, <1>2, <1>3
<1>6. \A t \in Tracks' : audio'[t] \in SoundTrack
  BY <1>2, <1>3, <1>4, UntrimmedSound DEF ProjectInv
<1>7. \A t \in Tracks' : selections'[t] \in Region(Duration(audio'[t])) \cup {None}
  BY <1>2, <1>3, <1>4, <1>5 DEF ProjectInv
<1>8. active' \in Tracks' /\ active' # None /\ order' # <<>>
  <2>1. order' # <<>>
    BY <1>3, SetOfTracks DEF Tracks
  <2> QED BY <1>1, <1>3, <2>1, TrackIdAssumption
<1>9. ProjectInv'
  BY <1>2, <1>3, <1>4, <1>5, <1>6, <1>7, <1>8 DEF ProjectInv
<1>10. TotalFrames \in Nat /\ TotalFrames' \in Nat /\ TotalFrames <= TotalFrames'
  <2>1. IsFiniteSet(Tracks) /\ IsFiniteSet(Tracks')
    BY <1>2, <1>3, SetOfTracks DEF Tracks
  <2>2. \A t \in Tracks : audio[t] = audio'[t]
    BY <1>2, <1>4
  <2>3. /\ TotalFramesOf(Tracks, audio) \in Nat /\ TotalFramesOf(Tracks', audio') \in Nat
        /\ TotalFramesOf(Tracks, audio) <= TotalFramesOf(Tracks', audio')
    BY <1>3, <1>6, <2>1, <2>2, TotalGrows
  <2> QED BY <2>3 DEF TotalFrames
<1> QED BY <1>9, <1>10, GrowInv

LEMMA IndexFinds ==
  ASSUME ProjectInv, NEW id \in Tracks
  PROVE  Index(id) \in 1 .. Len(order) /\ order[Index(id)] = id
<1>1. order \in Seq(TrackId) /\ DOMAIN order = 1 .. Len(order)
  BY LenProperties DEF ProjectInv
<1>2. \E i \in DOMAIN order : order[i] = id
  BY DEF Tracks, ToSet
<1> QED BY <1>1, <1>2 DEF Index

LEMMA RemoveInv ==
  ASSUME ProjectInv, EngineInv, NEW id \in Tracks,
         StopAt(Within(StopPosition, TotalFramesOf(Tracks \ {id}, audio))),
         RemoveFromProject(id)
  PROVE  ProjectInv' /\ EngineInv'
<1>1. PICK left : left = RemoveAt(order, Index(id))
  OBVIOUS
<1>2. /\ order' = left /\ audio' = audio
      /\ selections' = [t \in DOMAIN selections \ {id} |-> selections[t]]
      /\ active' = IF active # id THEN active
                   ELSE IF left = <<>> THEN None
                   ELSE left[Least(Index(id), Len(left))]
  BY <1>1, Zenon DEF RemoveFromProject
<1>3. /\ order \in Seq(TrackId) /\ Distinct(order) /\ Tracks \subseteq DOMAIN audio
      /\ DOMAIN selections = Tracks
  BY DEF ProjectInv
<1>4. Index(id) \in 1 .. Len(order) /\ order[Index(id)] = id /\ Len(order) \in Nat
  BY <1>3, IndexFinds, LenProperties
<1>5. /\ left \in Seq(TrackId) /\ Distinct(left) /\ ToSet(left) = Tracks \ {id}
      /\ Len(left) \in Nat
  BY <1>1, <1>3, <1>4, RemoveOne, LenProperties DEF Tracks
<1>6. Tracks' = Tracks \ {id}
  BY <1>2, <1>5 DEF Tracks
<1>7. active # None /\ active \in Tracks
  BY <1>3, TracksType DEF ProjectInv
<1>8. active' \in Tracks' \cup {None} /\ (active' = None <=> left = <<>>)
  <2>1. CASE active # id
    <3>1. active' = active
      BY <1>2, <2>1
    <3>2. left # <<>>
      BY <1>5, <1>7, <2>1, SetOfTracks
    <3> QED BY <1>6, <1>7, <2>1, <3>1, <3>2
  <2>2. CASE active = id /\ left = <<>>
    BY <1>2, <2>2
  <2>3. CASE active = id /\ left # <<>>
    <3>1. active' = left[Least(Index(id), Len(left))]
      BY <1>2, <2>3
    <3>2. Len(left) > 0
      BY <1>5, <2>3, EmptySeq
    <3>3. Least(Index(id), Len(left)) \in 1 .. Len(left)
      BY <1>4, <1>5, <3>2 DEF Least
    <3>4. active' \in ToSet(left) /\ None \notin ToSet(left)
      BY <1>5, <3>1, <3>3, SetOfTracks
    <3> QED BY <1>5, <1>6, <2>3, <3>4
  <2> QED BY <2>1, <2>2, <2>3
<1>9. ProjectInv'
  BY <1>2, <1>3, <1>5, <1>6, <1>8 DEF ProjectInv
<1>10. PICK total \in Nat : total = TotalFramesOf(Tracks \ {id}, audio) /\ TotalFrames' = total
  <2>1. IsFiniteSet(Tracks \ {id})
    BY <1>5, SetOfTracks
  <2>2. TotalFramesOf(Tracks \ {id}, audio) \in Nat
    BY <2>1, TotalType DEF ProjectInv
  <2> QED BY <1>2, <1>6, <2>2 DEF TotalFrames
<1>11. Within(StopPosition, total) \in 0 .. total
  BY <1>10, StopPositionType, WithinBounds
<1> QED BY <1>9, <1>10, <1>11, StopAtInv

LEMMA MoveInv ==
  ASSUME ProjectInv, EngineInv, NEW id \in Tracks, NEW delta \in {-1, 1},
         MoveInProject(id, delta), UNCHANGED engineVars
  PROVE  ProjectInv' /\ EngineInv'
<1>1. PICK left, new : /\ left = RemoveAt(order, Index(id))
                       /\ new = Greatest(1, Least(Index(id) + delta, Len(order)))
  OBVIOUS
<1>2. order' = InsertAt(left, new, id) /\ UNCHANGED <<audio, selections, active>>
  BY <1>1 DEF MoveInProject
<1>3. order \in Seq(TrackId) /\ Distinct(order) /\ id \in TrackId
  BY TracksType DEF ProjectInv
<1>4. Index(id) \in 1 .. Len(order) /\ order[Index(id)] = id /\ Len(order) \in Nat
  BY <1>3, IndexFinds, LenProperties
<1>5. /\ left \in Seq(TrackId) /\ Distinct(left) /\ ToSet(left) = Tracks \ {id}
      /\ Len(left) = Len(order) - 1
  BY <1>1, <1>3, <1>4, RemoveOne, LenProperties DEF Tracks
<1>6. new \in 1 .. Len(left) + 1
  BY <1>1, <1>4, <1>5 DEF Greatest, Least
<1>7. /\ order' \in Seq(TrackId) /\ Distinct(order)' /\ Tracks' = Tracks
  <2>1. id \notin ToSet(left)
    BY <1>5
  <2>2. /\ InsertAt(left, new, id) \in Seq(TrackId) /\ Distinct(InsertAt(left, new, id))
        /\ ToSet(InsertAt(left, new, id)) = ToSet(left) \cup {id}
    BY <1>3, <1>5, <1>6, <2>1, InsertOne
  <2> QED BY <1>2, <1>5, <2>2 DEF Tracks, Distinct
<1>8. order' = <<>> <=> order = <<>>
  BY <1>3, <1>7, SetOfTracks DEF Tracks
<1>9. ProjectInv' /\ TotalFrames' = TotalFrames
  BY <1>2, <1>7, <1>8 DEF ProjectInv, TotalFrames
<1> QED BY <1>9, TotalIsSound, GrowInv

LEMMA ActivateInv ==
  ASSUME ProjectInv, EngineInv, NEW id \in Tracks, ActivateTrack(id)
  PROVE  ProjectInv' /\ EngineInv'
<1>1. ProjectInv' /\ TotalFrames' = TotalFrames
  BY SameAudioInv DEF ActivateTrack
<1> QED BY <1>1, SelectionChangesInv DEF ActivateTrack

(* A track's selection is another region of it, or none.                        *)
LEMMA ReselectInv ==
  ASSUME ProjectInv, EngineInv, NEW id \in Tracks,
         NEW region_ \in Region(Duration(audio[id])) \cup {None},
         selections' = [selections EXCEPT ![id] = region_], UNCHANGED <<order, audio>>,
         active' \in Tracks, NEW selected, SelectionChanges(id, selected)
  PROVE  ProjectInv' /\ EngineInv'
<1>1. Tracks' = Tracks /\ TotalFrames' = TotalFrames
  BY DEF Tracks, TotalFrames
<1>2. active' # None /\ order # <<>>
  BY TracksType DEF ProjectInv
<1>3. /\ DOMAIN selections' = Tracks /\ selections'[id] = region_
      /\ \A t \in Tracks : t # id => selections'[t] = selections[t]
  BY DEF ProjectInv
<1>4. \A t \in Tracks : selections'[t] \in Region(Duration(audio[t])) \cup {None}
  BY <1>3 DEF ProjectInv
<1>5. ProjectInv'
  BY <1>1, <1>2, <1>3, <1>4 DEF ProjectInv
<1> QED BY <1>1, <1>5, SelectionChangesInv

LEMMA SelectInv ==
  ASSUME ProjectInv, EngineInv, NEW id \in Tracks, NEW first \in Int, NEW second \in Int,
         SelectIn(id, first, second)
  PROVE  ProjectInv' /\ EngineInv'
<1>1. PICK new : new = Selected(first, second, Duration(audio[id]))
  OBVIOUS
<1>2. new \in Region(Duration(audio[id])) \cup {None}
  BY <1>1, TotalIsSound, SelectedType
<1>3. /\ selections' = [selections EXCEPT ![id] = new] /\ UNCHANGED <<order, audio>>
      /\ active' = id /\ SelectionChanges(id, [selections EXCEPT ![id] = new])
  BY <1>1 DEF SelectIn
<1> QED BY <1>2, <1>3, ReselectInv

LEMMA ClearInv ==
  ASSUME ProjectInv, EngineInv, ClearSelection
  PROVE  ProjectInv' /\ EngineInv'
<1>1. /\ selections' = [selections EXCEPT ![active] = None] /\ UNCHANGED <<order, audio>>
      /\ active' = active /\ SelectionChanges(active, [selections EXCEPT ![active] = None])
  BY DEF ClearSelection
<1>2. active \in Tracks
  BY DEF ClearSelection, ProjectInv
<1> QED BY <1>1, <1>2, ReselectInv


-----------------------------------------------------------------------------
(* Edits.  The project may become shorter: the playhead goes into what is left,  *)
(* and the new selection lies in the edited track.                               *)
Inside(selection, duration) ==
  selection = None \/ (/\ selection[1] \in 0 .. duration
                       /\ selection[2] \in selection[1] .. duration)

LEMMA FinishEditInv ==
  ASSUME ProjectInv, EngineInv, active # None, NEW track \in SoundTrack, NEW playhead \in Int,
         NEW selection, Inside(selection, Duration(track)),
         FinishEdit(track, playhead, selection)
  PROVE  ProjectInv' /\ EngineInv'
<1>1. active \in Tracks
  BY DEF ProjectInv
<1>2. PICK edited : edited = [audio EXCEPT ![active] = track]
  OBVIOUS
<1>3. PICK total : total = TotalFramesOf(Tracks, edited)
  OBVIOUS
<1>4. /\ audio' = edited
      /\ selections' = [selections EXCEPT ![active] =
                          IF selection = None THEN None
                          ELSE Selected(selection[1], selection[2], total)]
      /\ order' = order /\ active' = active
      /\ StopAt(Within(playhead, total))
  BY <1>2, <1>3, Zenon DEF FinishEdit
<1>5. /\ Tracks' = Tracks /\ Tracks \subseteq DOMAIN audio
      /\ DOMAIN selections = Tracks
  BY <1>4 DEF Tracks, ProjectInv
<1>6. /\ DOMAIN edited = DOMAIN audio /\ edited[active] = track
      /\ \A t \in DOMAIN audio : t # active => edited[t] = audio[t]
  BY <1>1, <1>2, <1>5
<1>7. \A t \in Tracks : edited[t] \in SoundTrack
  BY <1>5, <1>6 DEF ProjectInv
<1>8. total \in Nat /\ Duration(track) <= total /\ Duration(track) \in Nat
  <2>1. IsFiniteSet(Tracks)
    BY TracksType DEF ProjectInv
  <2>2. total \in Nat /\ \A t \in Tracks : Duration(edited[t]) <= total
    BY <1>3, <1>7, <2>1, TotalType
  <2> QED BY <1>1, <1>6, <2>2, TrackDuration
<1>9. TotalFrames' = total
  BY <1>3, <1>4, <1>5 DEF TotalFrames
<1>10. PICK new : new = IF selection = None THEN None
                        ELSE Selected(selection[1], selection[2], total)
  OBVIOUS
<1>11. new \in Region(Duration(track)) \cup {None}
  <2>1. CASE selection = None
    BY <1>10, <2>1
  <2>2. CASE selection # None
    <3>1. PICK d \in Nat : d = Duration(track) /\ d <= total
      BY <1>8
    <3>2. PICK a \in 0 .. d : a = selection[1]
      BY <2>2, <3>1 DEF Inside
    <3>3. PICK b \in a .. d : b = selection[2]
      BY <2>2, <3>1, <3>2 DEF Inside
    <3>4. a \in 0 .. total /\ b \in a .. total
      BY <1>8, <3>1, <3>2, <3>3
    <3>5. new = IF a < b THEN <<a, b>> ELSE None
      BY <1>8, <1>10, <2>2, <3>2, <3>3, <3>4, SelectedInside
    <3>6. a < b => <<a, b>> \in Region(d)
      BY <3>1, <3>2, <3>3 DEF Region
    <3> QED BY <3>1, <3>5, <3>6
  <2> QED BY <2>1, <2>2
<1>12. /\ DOMAIN selections' = Tracks /\ selections'[active] = new
       /\ \A t \in Tracks : t # active => selections'[t] = selections[t]
  BY <1>1, <1>4, <1>5, <1>10
<1>13. \A t \in Tracks : selections'[t] \in Region(Duration(edited[t])) \cup {None}
  <2>1. \A t \in Tracks : selections[t] \in Region(Duration(audio[t])) \cup {None}
    BY DEF ProjectInv
  <2>2. \A t \in Tracks : t # active => edited[t] = audio[t]
    BY <1>5, <1>6
  <2> QED BY <1>6, <1>11, <1>12, <2>1, <2>2
<1>14. ProjectInv'
  BY <1>4, <1>5, <1>6, <1>7, <1>12, <1>13 DEF ProjectInv, Distinct
<1>15. Within(playhead, total) \in 0 .. TotalFrames'
  BY <1>8, <1>9, WithinBounds
<1> QED BY <1>4, <1>14, <1>15, StopAtInv

(* What every edit of the active track starts from.                             *)
LEMMA ActiveType ==
  ASSUME ProjectInv, active # None
  PROVE  /\ active \in Tracks /\ ActiveTrack \in SoundTrack
         /\ Duration(ActiveTrack) \in Nat \ {0}
         /\ Selection # None =>
              /\ Selection \in Region(Duration(ActiveTrack))
              /\ Selection[1] \in Nat /\ Selection[2] \in Nat /\ Selection[1] < Selection[2]
              /\ Selection[2] <= Duration(ActiveTrack)
<1>1. active \in Tracks /\ ActiveTrack \in SoundTrack
  BY DEF ProjectInv, ActiveTrack
<1>2. PICK d \in Nat : d = Duration(ActiveTrack) /\ d # 0
  BY <1>1, TrackDuration
<1>3. Selection # None => Selection \in Region(d)
  BY <1>2, SelectionInside DEF ActiveTrack
<1>4. Selection # None => /\ Selection[1] \in Nat /\ Selection[2] \in Nat
                          /\ Selection[1] < Selection[2] /\ Selection[2] <= d
  BY <1>3 DEF Region
<1> QED BY <1>1, <1>2, <1>3, <1>4

LEMMA StopInv ==
  ASSUME ProjectInv, EngineInv, StopPlayback, UNCHANGED projectVars
  PROVE  ProjectInv' /\ EngineInv'
<1>1. ProjectInv' /\ TotalFrames' = TotalFrames
  BY SameAudioInv DEF projectVars
<1>2. StopAt(StopPosition) /\ StopPosition \in 0 .. TotalFrames'
  BY <1>1, StopPositionType DEF StopPlayback
<1> QED BY <1>1, <1>2, StopAtInv

LEMMA DeleteInv ==
  ASSUME ProjectInv, EngineInv, active # None, Selection # None,
         CanDelete(ActiveTrack, Selection[1], Selection[2]), DeleteThenFinish
  PROVE  ProjectInv' /\ EngineInv'
<1>1. PICK track, start, end :
        track = ActiveTrack /\ start = Selection[1] /\ end = Selection[2]
  OBVIOUS
<1>2. track \in SoundTrack /\ start \in Int /\ end \in Int
  BY <1>1, ActiveType
<1>3. PICK bounds : bounds = Bounds(start, end, Duration(track))
  OBVIOUS
<1>4. bounds[1] \in Int
  BY <1>2, <1>3, TrackDuration, BoundsType
<1>5. PICK rest : rest = DeleteRegion(track, start, end)
  OBVIOUS
<1>6. rest \in SoundTrack
  <2>1. rest.samples \in Seq(Nat) /\ rest.samples # <<>> /\ rest = Untrimmed(rest.samples)
    BY <1>1, <1>2, <1>5, DeleteLength DEF CanDelete
  <2>2. Len(rest.samples) > 0
    BY <2>1, LenProperties, EmptySeq
  <2> QED BY <2>1, <2>2, UntrimmedSound
<1>7. FinishEdit(rest, bounds[1], None)
  BY <1>1, <1>3, <1>5 DEF DeleteThenFinish
<1> QED BY <1>4, <1>6, <1>7, FinishEditInv DEF Inside

LEMMA PasteInv ==
  ASSUME ProjectInv, EngineInv, InputInv, PasteSelection
  PROVE  ProjectInv' /\ EngineInv'
<1>1. PICK target \in AudibleFrames :
        LET first == Within(target, Duration(ActiveTrack))
            last  == first + Len(clipboard)
        IN  FinishEdit(PasteClip(ActiveTrack, target, clipboard), last, <<first, last>>)
  BY Zenon DEF PasteSelection
<1>2. active # None /\ clipboard \in Seq(Nat) /\ Len(clipboard) \in Nat /\ target \in Int
  BY AudibleType, LenProperties DEF PasteSelection, InputInv
<1>3. PICK track \in SoundTrack : track = ActiveTrack /\ Duration(track) \in Nat
  BY <1>2, ActiveType
<1>4. PICK first \in 0 .. Duration(track) : first = Within(target, Duration(track))
  BY <1>2, <1>3, WithinBounds
<1>5. PICK last \in Nat : last = first + Len(clipboard)
  BY <1>2, <1>3
<1>6. PICK pasted \in SoundTrack :
        /\ pasted = PasteClip(track, target, clipboard)
        /\ Duration(pasted) = Duration(track) + Len(clipboard)
  BY <1>2, PasteLength
<1>7. FinishEdit(pasted, last, <<first, last>>)
  BY <1>1, <1>3, <1>4, <1>5, <1>6, Zenon
<1>8. Inside(<<first, last>>, Duration(pasted))
  <2>1. first \in 0 .. Duration(pasted) /\ last \in first .. Duration(pasted)
    BY <1>2, <1>3, <1>4, <1>5, <1>6
  <2> QED BY <2>1 DEF Inside
<1> QED BY <1>2, <1>5, <1>7, <1>8, FinishEditInv

LEMMA MoveRegionType ==
  ASSUME NEW track \in SoundTrack, NEW start \in Nat, NEW end \in Nat,
         start < end, end <= Duration(track), NEW target \in Int
  PROVE  /\ MoveRegion(track, start, end, target).track \in SoundTrack
         /\ Inside(MoveRegion(track, start, end, target).region,
                   Duration(MoveRegion(track, start, end, target).track))
         /\ MoveRegion(track, start, end, target).region[2] \in Int
<1>1. PICK d \in Nat : d = Duration(track)
  BY TrackDuration
<1>2. PICK bounds : bounds = Bounds(start, end, d)
  OBVIOUS
<1>3. /\ bounds = <<start, end>> /\ bounds[1] = start /\ bounds[2] = end
      /\ Bounds(start, end, Duration(track))[1] = start
      /\ Bounds(start, end, Duration(track))[2] = end
      /\ start \in Int /\ end \in Int
  BY <1>1, <1>2, BoundsInside
<1>4. PICK at \in 0 .. d : at = Within(target, d)
  BY <1>1, WithinBounds
<1>5. PICK width \in Nat : width = end - start
  BY <1>1
<1>6. PICK moved : moved = MoveRegion(track, start, end, target)
  OBVIOUS
<1>a. SUFFICES moved.track \in SoundTrack /\ Inside(moved.region, Duration(moved.track))
               /\ moved.region[2] \in Int
  BY <1>6
<1>7. CASE at \in start .. end
  <2>1. moved = [track |-> track, region |-> bounds]
    <3>1. at \in bounds[1] .. bounds[2]
      BY <1>3, <1>7
    <3> QED BY <1>1, <1>2, <1>4, <1>6, <3>1, Zenon DEF MoveRegion
  <2>2. Inside(<<start, end>>, d)
    BY <1>1 DEF Inside
  <2> QED BY <1>1, <1>3, <2>1, <2>2
<1>8. CASE at \notin start .. end
  <2>1. PICK place \in Nat : /\ place = IF at > end THEN at - width ELSE at
                             /\ place + width <= d
    BY <1>1, <1>4, <1>5, <1>8
  <2>2. PICK rest : rest = DeleteRegion(track, start, end)
    OBVIOUS
  <2>3. PICK clip \in Seq(Nat) : clip = CopyRegion(track, start, end) /\ Len(clip) = width
    BY <1>3, <1>5, CopyType
  <2>4. /\ rest.samples \in Seq(Nat) /\ rest = Untrimmed(rest.samples)
        /\ Len(rest.samples) = d - width
    BY <1>1, <1>3, <1>5, <2>2, DeleteLength
  <2>5. d - width \in Nat \ {0}
    BY <1>1, <1>4, <1>5, <1>8
  <2>6. rest \in SoundTrack /\ Duration(rest) = d - width
    <3>1. PICK samples \in Seq(Nat) : samples = rest.samples /\ Len(samples) = d - width
      BY <2>4
    <3>2. Len(samples) > 0
      BY <2>5, <3>1
    <3> QED BY <2>4, <3>1, <3>2, UntrimmedSound
  <2>7. PICK pasted \in SoundTrack : pasted = PasteClip(rest, place, clip) /\ Duration(pasted) = d
    BY <1>1, <1>5, <2>3, <2>5, <2>6, PasteLength
  <2>8. moved = [track |-> pasted, region |-> <<place, place + width>>]
    <3>1. at \notin bounds[1] .. bounds[2] /\ bounds[2] - bounds[1] = width
      BY <1>3, <1>5, <1>8
    <3>2. place = IF at > bounds[2] THEN at - width ELSE at
      BY <1>3, <2>1
    <3> QED BY <1>1, <1>2, <1>4, <1>6, <2>2, <2>3, <2>7, <3>1, <3>2, Zenon DEF MoveRegion
  <2>9. Inside(<<place, place + width>>, d)
    BY <1>1, <1>5, <2>1 DEF Inside
  <2> QED BY <1>5, <2>1, <2>7, <2>8, <2>9
<1> QED BY <1>7, <1>8

LEMMA MoveSelectionInv ==
  ASSUME ProjectInv, EngineInv, MoveSelection
  PROVE  ProjectInv' /\ EngineInv'
<1>1. PICK target \in AudibleFrames :
        LET moved == MoveRegion(ActiveTrack, Selection[1], Selection[2], target)
        IN  FinishEdit(moved.track, moved.region[2], moved.region)
  BY Zenon DEF MoveSelection
<1>2. active # None /\ Selection # None /\ target \in Int
  BY AudibleType DEF MoveSelection
<1>3. PICK moved : moved = MoveRegion(ActiveTrack, Selection[1], Selection[2], target)
  OBVIOUS
<1>4. FinishEdit(moved.track, moved.region[2], moved.region)
  BY <1>1, <1>3
<1>5. /\ moved.track \in SoundTrack /\ Inside(moved.region, Duration(moved.track))
      /\ moved.region[2] \in Int
  BY <1>2, <1>3, ActiveType, MoveRegionType
<1> QED BY <1>2, <1>4, <1>5, FinishEditInv

LEMMA TrimInv ==
  ASSUME ProjectInv, EngineInv, active # None, NEW start \in Int, NEW end \in Int,
         ApplyTrim(start, end)
  PROVE  ProjectInv' /\ EngineInv'
<1>1. PICK track \in SoundTrack : track = ActiveTrack
  BY ActiveType
<1>2. PICK d \in Nat : d = Duration(track)
  BY TrackDuration
<1>3. CASE CanTrim(track, start, end)
  <2>1. PICK low \in 0 .. d : low = Within(start, d)
    BY WithinBounds
  <2>2. PICK high \in 0 .. d : high = Within(end, d)
    BY WithinBounds
  <2>3. low < high
    BY <1>2, <1>3, <2>1, <2>2 DEF CanTrim
  <2>a. low \in Nat /\ high \in Nat /\ high <= d
    BY <1>2, <2>1, <2>2
  <2>4. PICK trimmed : trimmed = [track EXCEPT !.first = track.first + low,
                                              !.last = track.first + high]
    OBVIOUS
  <2>5. trimmed = Trimmed(track, start, end)
    BY <1>2, <2>1, <2>2, <2>4 DEF Trimmed
  <2>6. trimmed \in SoundTrack
    <3>1. /\ track \in [samples : Seq(Nat), first : Nat, last : Nat]
          /\ track.last <= Len(track.samples)
          /\ d = track.last - track.first
      BY <1>2 DEF SoundTrack, Duration
    <3>a. track.first + low \in Nat /\ track.first + high \in Nat
      BY <2>a, <3>1
    <3>2. /\ trimmed \in [samples : Seq(Nat), first : Nat, last : Nat]
          /\ trimmed.samples = track.samples
          /\ trimmed.first = track.first + low /\ trimmed.last = track.first + high
      BY <2>4, <3>1, <3>a
    <3>3. Len(track.samples) \in Nat
      BY <3>1, LenProperties
    <3>4. trimmed.first < trimmed.last /\ trimmed.last <= Len(trimmed.samples)
      <4>1. PICK a \in Nat, b \in Nat, n \in Nat :
              a = track.first /\ b = track.last /\ n = Len(track.samples)
        BY <3>1, <3>3
      <4>2. d = b - a /\ b <= n
        BY <3>1, <4>1
      <4>3. a + low < a + high /\ a + high <= n
        BY <2>3, <2>a, <4>1, <4>2
      <4> QED BY <3>2, <4>1, <4>3
    <3> QED BY <3>2, <3>4 DEF SoundTrack
  <2>7. FinishEdit(trimmed, 0, None)
    BY <1>1, <1>3, <2>5 DEF ApplyTrim, FinishTrim
  <2> QED BY <2>6, <2>7, FinishEditInv DEF Inside
<1>4. CASE ~CanTrim(track, start, end)
  <2>1. StopPlayback /\ UNCHANGED projectVars
    BY <1>1, <1>4 DEF ApplyTrim
  <2> QED BY <2>1, StopInv
<1> QED BY <1>3, <1>4

LEMMA TrimsInv ==
  ASSUME ProjectInv, EngineInv,
         TrimStartToPlayhead \/ TrimEndToPlayhead \/ TrimToSelection \/ ResetTrim
  PROVE  ProjectInv' /\ EngineInv'
<1>1. CASE TrimStartToPlayhead
  <2>1. PICK frame \in AudibleFrames : ApplyTrim(frame, Duration(ActiveTrack))
    BY <1>1 DEF TrimStartToPlayhead
  <2>2. active # None /\ frame \in Int /\ Duration(ActiveTrack) \in Int
    BY <1>1, AudibleType, ActiveType DEF TrimStartToPlayhead
  <2> QED BY <2>1, <2>2, TrimInv
<1>2. CASE TrimEndToPlayhead
  <2>1. PICK frame \in AudibleFrames : ApplyTrim(0, frame)
    BY <1>2 DEF TrimEndToPlayhead
  <2>2. active # None /\ frame \in Int
    BY <1>2, AudibleType DEF TrimEndToPlayhead
  <2> QED BY <2>1, <2>2, TrimInv
<1>3. CASE TrimToSelection
  <2>1. active # None /\ Selection[1] \in Int /\ Selection[2] \in Int
        /\ ApplyTrim(Selection[1], Selection[2])
    BY <1>3, ActiveType DEF TrimToSelection
  <2> QED BY <2>1, TrimInv
<1>4. CASE ResetTrim
  <2>1. active # None /\ FinishEdit(Untrimmed(ActiveTrack.samples), 0, None)
    BY <1>4 DEF ResetTrim, FinishTrim
  <2>2. ActiveTrack.samples \in Seq(Nat) /\ Len(ActiveTrack.samples) > 0
    <3>1. PICK track \in SoundTrack : track = ActiveTrack
      BY <2>1, ActiveType
    <3>2. /\ track.samples \in Seq(Nat) /\ track.first \in Nat /\ track.last \in Nat
          /\ track.first < track.last /\ track.last <= Len(track.samples)
      BY DEF SoundTrack
    <3>3. Len(track.samples) \in Nat
      BY <3>2, LenProperties
    <3> QED BY <3>1, <3>2, <3>3
  <2>3. PICK track \in SoundTrack : track = Untrimmed(ActiveTrack.samples)
    BY <2>2, UntrimmedSound
  <2> QED BY <2>1, <2>3, FinishEditInv DEF Inside
<1> QED BY <1>1, <1>2, <1>3, <1>4

-----------------------------------------------------------------------------
(* Every step.                                                                  *)
LEMMA PlayInvInit ==
  ASSUME Init
  PROVE  PlayInv
<1>1. /\ order = <<>> /\ audio = <<>> /\ selections = <<>> /\ active = None
      /\ transport = [state |-> "stopped", position |-> 0, loop |-> FALSE]
      /\ stream = "none" /\ anchor = None /\ clipboard = None /\ take = None
  BY DEF Init, ProjectInit, EngineInit
<1>2. /\ order \in Seq(TrackId) /\ DOMAIN order = {} /\ DOMAIN selections = {} /\ Tracks = {}
  <2>1. order \in Seq(TrackId) /\ Len(order) = 0
    BY <1>1
  <2>2. order = <<>> <=> Tracks = {}
    BY <2>1, TracksType
  <2>3. DOMAIN order = 1 .. 0
    BY <2>1, LenProperties
  <2> QED BY <1>1, <2>1, <2>2, <2>3
<1>3. ProjectInv
  BY <1>1, <1>2 DEF ProjectInv, Distinct
<1>4. transport \in Transports(TotalFrames)
  <2>1. 0 \in 0 .. TotalFrames
    BY <1>3, TotalIsSound
  <2> QED BY <1>1, <2>1 DEF Transports
<1>5. EngineInv
  BY <1>1, <1>4 DEF EngineInv
<1> QED BY <1>1, <1>3, <1>5 DEF PlayInv, InputInv

LEMMA SameInv ==
  ASSUME ProjectInv, EngineInv, UNCHANGED projectVars, UNCHANGED engineVars
  PROVE  ProjectInv' /\ EngineInv'
<1>1. ProjectInv' /\ TotalFrames' = TotalFrames
  BY SameAudioInv DEF projectVars
<1> QED BY <1>1, TotalIsSound, GrowInv

LEMMA UserInv ==
  ASSUME PlayInv, UserStep
  PROVE  PlayInv'
<1>a. ProjectInv /\ EngineInv /\ InputInv
  BY DEF PlayInv
<1>s. ASSUME UNCHANGED <<clipboard, take>> PROVE InputInv'
  BY <1>a, <1>s DEF InputInv
<1>1. ASSUME NEW id \in TrackId, OpenFile(id) PROVE PlayInv'
  <2>1. PICK samples \in Seq(Nat) : samples = Loaded /\ Len(samples) > 0
    BY FileAssumption, SamplesType DEF Loaded
  <2>2. AddToProject(id, samples) /\ UNCHANGED engineVars /\ UNCHANGED <<clipboard, take>>
    BY <1>1, <2>1 DEF OpenFile, AddTrack
  <2> QED BY <1>a, <1>s, <2>1, <2>2, AddInv DEF PlayInv
<1>2. ASSUME NEW id \in TrackId, StopRecording(id) PROVE PlayInv'
  <2>1. /\ take # None /\ take' = None /\ clipboard' = clipboard /\ UNCHANGED engineVars
        /\ AddTrack(id, Samples(Captured))
    BY <1>2 DEF StopRecording
  <2>2. Captured \in Nat \ {0}
    BY <1>a, <2>1 DEF Captured, InputInv, Greatest
  <2>3. PICK samples \in Seq(Nat) : samples = Samples(Captured) /\ Len(samples) > 0
    BY <2>2, SamplesType
  <2>4. AddToProject(id, samples)
    BY <2>1, <2>3 DEF AddTrack
  <2>5. ProjectInv' /\ EngineInv'
    BY <1>a, <2>1, <2>3, <2>4, AddInv
  <2>6. InputInv'
    BY <1>a, <2>1 DEF InputInv
  <2> QED BY <2>5, <2>6 DEF PlayInv
<1>3. ASSUME NEW id \in Tracks, RemoveTrack(id) PROVE PlayInv'
  <2>1. /\ StopAt(Within(StopPosition, TotalFramesOf(Tracks \ {id}, audio)))
        /\ RemoveFromProject(id) /\ UNCHANGED <<clipboard, take>>
    BY <1>3 DEF RemoveTrack
  <2> QED BY <1>a, <1>s, <2>1, RemoveInv DEF PlayInv
<1>4. ASSUME NEW id \in Tracks, ActivateTrack(id) PROVE PlayInv'
  <2>1. UNCHANGED <<clipboard, take>>
    BY <1>4 DEF ActivateTrack
  <2> QED BY <1>4, <1>a, <1>s, <2>1, ActivateInv DEF PlayInv
<1>5. ASSUME NEW id \in Tracks, NEW delta \in {-1, 1}, MoveTrack(id, delta) PROVE PlayInv'
  <2>1. MoveInProject(id, delta) /\ UNCHANGED engineVars /\ UNCHANGED <<clipboard, take>>
    BY <1>5 DEF MoveTrack
  <2> QED BY <1>a, <1>s, <2>1, MoveInv DEF PlayInv
<1>6. ASSUME NEW id \in Tracks, NEW first \in Int, NEW second \in Int,
             SelectIn(id, first, second)
      PROVE  PlayInv'
  <2>1. UNCHANGED <<clipboard, take>>
    BY <1>6 DEF SelectIn
  <2> QED BY <1>6, <1>a, <1>s, <2>1, SelectInv DEF PlayInv
<1>7. CASE ClearSelection
  <2>1. UNCHANGED <<clipboard, take>>
    BY <1>7 DEF ClearSelection
  <2> QED BY <1>7, <1>a, <1>s, <2>1, ClearInv DEF PlayInv
<1>8. ASSUME active # None, Selection # None,
             clipboard' = CopyRegion(ActiveTrack, Selection[1], Selection[2]), take' = take
      PROVE  InputInv'
  <2>1. clipboard' \in Seq(Nat)
    BY <1>8, <1>a, ActiveType, CopyType
  <2> QED BY <1>8, <1>a, <2>1 DEF InputInv
<1>9. CASE CopySelection
  <2>1. ProjectInv' /\ EngineInv'
    BY <1>9, <1>a, SameInv DEF CopySelection
  <2> QED BY <1>8, <1>9, <2>1 DEF CopySelection, PlayInv
<1>d. ASSUME DeleteSelected PROVE active # None /\ Selection # None /\ ProjectInv' /\ EngineInv'
  <2>1. active # None /\ Selection # None
    BY <1>d DEF DeleteSelected
  <2>2. CASE CanDelete(ActiveTrack, Selection[1], Selection[2])
    <3>1. DeleteThenFinish
      BY <1>d, <2>2 DEF DeleteSelected
    <3> QED BY <1>a, <2>1, <2>2, <3>1, DeleteInv
  <2>3. CASE ~CanDelete(ActiveTrack, Selection[1], Selection[2])
    <3>1. StopPlayback /\ UNCHANGED projectVars
      BY <1>d, <2>3 DEF DeleteSelected
    <3> QED BY <1>a, <2>1, <3>1, StopInv
  <2> QED BY <2>2, <2>3
<1>10. CASE CutSelection
  <2>1. DeleteSelected /\ take' = take
        /\ clipboard' = CopyRegion(ActiveTrack, Selection[1], Selection[2])
    BY <1>10 DEF CutSelection
  <2> QED BY <1>8, <1>d, <2>1 DEF PlayInv
<1>11. CASE DeleteSelection
  <2>1. DeleteSelected /\ UNCHANGED <<clipboard, take>>
    BY <1>11 DEF DeleteSelection
  <2> QED BY <1>d, <1>s, <2>1 DEF PlayInv
<1>12. CASE PasteSelection
  <2>1. UNCHANGED <<clipboard, take>>
    BY <1>12 DEF PasteSelection
  <2> QED BY <1>12, <1>a, <1>s, <2>1, PasteInv DEF PlayInv
<1>13. CASE MoveSelection
  <2>1. UNCHANGED <<clipboard, take>>
    BY <1>13 DEF MoveSelection
  <2> QED BY <1>13, <1>a, <1>s, <2>1, MoveSelectionInv DEF PlayInv
<1>14. CASE TrimStartToPlayhead \/ TrimEndToPlayhead \/ TrimToSelection \/ ResetTrim
  <2>1. UNCHANGED <<clipboard, take>>
    BY <1>14 DEF TrimStartToPlayhead, TrimEndToPlayhead, TrimToSelection, ResetTrim, ApplyTrim
  <2> QED BY <1>14, <1>a, <1>s, <2>1, TrimsInv DEF PlayInv
<1>15. CASE StartRecording
  <2>1. Pause /\ take' \in Nat \cup {None} /\ clipboard' = clipboard /\ UNCHANGED projectVars
    BY <1>15 DEF StartRecording, OpenMicrophone
  <2>3. ProjectInv'
    BY <1>a, <2>1, SameAudioInv DEF projectVars
  <2>4. EngineInv'
    BY <1>a, <2>1, PauseInv
  <2>5. InputInv'
    BY <1>a, <2>1 DEF InputInv
  <2> QED BY <2>3, <2>4, <2>5 DEF PlayInv
<1>16. CASE StopRecordingFails
  <2>1. ProjectInv' /\ EngineInv' /\ InputInv'
    BY <1>16, <1>a, SameInv DEF StopRecordingFails, InputInv
  <2> QED BY <2>1 DEF PlayInv
<1>17. CASE Playback /\ UNCHANGED <<projectVars, allViewVars, clipboard, take>>
  <2>1. UNCHANGED projectVars /\ UNCHANGED <<clipboard, take>>
    BY <1>17
  <2>2. ProjectInv'
    BY <1>a, <2>1, SameAudioInv DEF projectVars
  <2> QED BY <1>17, <1>a, <1>s, <2>1, <2>2, PlaybackInv DEF PlayInv
<1>18. CASE UNCHANGED <<projectVars, engineVars, viewVars, clipboard, take>>
  <2>1. UNCHANGED projectVars /\ UNCHANGED engineVars /\ UNCHANGED <<clipboard, take>>
    BY <1>18
  <2> QED BY <1>a, <1>s, <2>1, SameInv DEF PlayInv
<1>19. ASSUME NEW id \in Tracks, NEW first \in 0 .. MaxFrames,
              NEW second \in first + 1 .. MaxFrames, SelectIn(id, first, second)
       PROVE  PlayInv'
  <2>1. first \in Int /\ second \in Int
    BY <1>19, BoundsAssumption
  <2> QED BY <1>6, <1>19, <2>1
<1> QED BY <1>1, <1>2, <1>3, <1>4, <1>5, <1>7, <1>9, <1>10, <1>11, <1>12, <1>13, <1>14,
           <1>15, <1>16, <1>17, <1>18, <1>19 DEF UserStep

LEMMA PlayInvStep ==
  ASSUME PlayInv, [Next]_vars
  PROVE  PlayInv'
<1>a. ProjectInv /\ EngineInv /\ InputInv
  BY DEF PlayInv
<1>1. CASE UserStep
  BY <1>1, UserInv
<1>2. CASE AudioCallback /\ UNCHANGED <<projectVars, allViewVars, clipboard, take, gestures>>
  <2>1. UNCHANGED projectVars /\ UNCHANGED <<clipboard, take>>
    BY <1>2
  <2>2. ProjectInv' /\ InputInv'
    BY <1>a, <2>1, SameAudioInv DEF projectVars, InputInv
  <2> QED BY <1>2, <1>a, <2>1, <2>2, CallbackInv DEF PlayInv
<1>3. CASE Capture
  <2>1. ProjectInv' /\ EngineInv'
    BY <1>3, <1>a, SameInv DEF Capture
  <2>2. InputInv'
    BY <1>3, <1>a DEF Capture, InputInv
  <2> QED BY <2>1, <2>2 DEF PlayInv
<1>4. CASE UNCHANGED <<projectVars, engineVars, clipboard, take>>
  <2>1. ProjectInv' /\ EngineInv' /\ InputInv'
    BY <1>4, <1>a, SameInv DEF InputInv
  <2> QED BY <2>1 DEF PlayInv
<1>5. CASE AnalysisStep
  BY <1>4, <1>5 DEF AnalysisStep
<1>6. CASE UNCHANGED vars
  BY <1>4, <1>6 DEF vars
<1> QED BY <1>1, <1>2, <1>3, <1>5, <1>6 DEF Next, AudioStep

LEMMA PlayInvInBounds ==
  ASSUME PlayInv
  PROVE  InBounds
<1>1. ProjectInv /\ EngineInv
  BY DEF PlayInv
<1>2. ASSUME NEW id \in Tracks
      PROVE  /\ 0 <= audio[id].first /\ audio[id].first < audio[id].last
             /\ audio[id].last <= Len(audio[id].samples)
             /\ selections[id] # None =>
                  /\ 0 <= selections[id][1] /\ selections[id][1] < selections[id][2]
                  /\ selections[id][2] <= Duration(audio[id])
  <2>1. audio[id] \in SoundTrack
    BY <1>1 DEF ProjectInv
  <2>2. selections[id] # None => selections[id] \in Region(Duration(audio[id]))
    BY <1>1 DEF ProjectInv
  <2>3. Duration(audio[id]) \in Nat
    BY <2>1, TrackDuration
  <2>4. selections[id] # None => /\ 0 <= selections[id][1] /\ selections[id][1] < selections[id][2]
                                 /\ selections[id][2] <= Duration(audio[id])
    BY <2>2, <2>3 DEF Region
  <2> QED BY <2>1, <2>4 DEF SoundTrack
<1>3. transport.state \in {"stopped", "playing", "paused"} /\ transport.position \in 0 .. TotalFrames
  BY <1>1 DEF EngineInv, Transports
<1> QED BY <1>1, <1>2, <1>3 DEF InBounds, ProjectInv, EngineInv

(* Whatever the user edits, trims, removes and plays, at whatever frame the      *)
(* device is: between two events every track has audio in its trim, every        *)
(* selection lies in its track, and the playhead and the anchor of the mixer lie *)
(* in the project, which is what a callback of audio/mixer.py indexes with.      *)
THEOREM StaysInBounds == Spec => []InBounds
<1>1. Init => PlayInv
  BY PlayInvInit
<1>2. PlayInv /\ [Next]_vars => PlayInv'
  BY PlayInvStep
<1>3. PlayInv => InBounds
  BY PlayInvInBounds
<1> QED BY <1>1, <1>2, <1>3, PTL DEF Spec

-----------------------------------------------------------------------------
(* What the views hold: their lanes, caches, tasks and answers, and the spectra. *)
\* What the cache, a lane, a task and an answer of a view hold.
Keys == TrackId \X Nat \X Nat
Shown == [shows : {"audio", "preparing", "error"}, of : Seq(Nat)]
Task == [track : TrackId, latest : BOOLEAN, step : {"queued", "compute", "store"},
         key : Keys \cup {None}, result : Seq(Nat) \cup {None}]
Answer == [track : TrackId, shown : Shown]

\* The picture of the audio a track has now.
Present(tracks, id) == Picture(PlaybackView(tracks[id]))

\* Unless a worker was overtaken, what is cached for a track as it is now is its audio.
CacheSound(cached, tracks, over) ==
  /\ \A key \in DOMAIN cached : key[1] \in DOMAIN tracks
  /\ \A id \in DOMAIN tracks \ over :
       Key(id, tracks[id]) \in DOMAIN cached =>
         cached[Key(id, tracks[id])] = PlaybackView(tracks[id])

\* A task of a track that was not overtaken has read the audio the track has now.
TaskSound(task, tracks, over) ==
  /\ task.track \in DOMAIN tracks
  /\ task.step = "store" => task.result \in Seq(Nat)
  /\ task.step # "queued" => task.key \in Keys /\ task.key[1] = task.track
  /\ task.track \notin over =>
       /\ task.step # "queued" => task.key = Key(task.track, tracks[task.track])
       /\ task.step = "store" => task.result = PlaybackView(tracks[task.track])

\* Only the first task of a queue has begun.
QueueSound(queue, tracks, over) ==
  \A i \in DOMAIN queue :
    TaskSound(queue[i], tracks, over) /\ (i # 1 => queue[i].step = "queued")

\* An answer for the track will come, or has come and is not yet shown.
Awaited(queue, signals, id) ==
  \/ \E i \in DOMAIN queue : queue[i].track = id /\ queue[i].latest
  \/ \E i \in DOMAIN signals : signals[i].track = id

\* What the lane of a track may show when nothing is awaited.
Showing(tracks, id) == {Present(tracks, id), Failed}

\* Every track object is sound, also one that has left the project.
TracksTyped(tracks) ==
  DOMAIN tracks \subseteq TrackId /\ \A id \in DOMAIN tracks : tracks[id] \in SoundTrack

ViewTyped(queue, signals, cached) ==
  /\ queue \in Seq(Task) /\ signals \in Seq(Answer)
  /\ DOMAIN cached \subseteq Keys /\ \A key \in DOMAIN cached : cached[key] \in Seq(Nat)

\* A view: what it holds is sound, and every lane shows its track or awaits an answer.
ViewSound(shown, queue, signals, cached, tracks, ids, over) ==
  /\ DOMAIN shown = ids /\ ids \subseteq DOMAIN tracks
  /\ ViewTyped(queue, signals, cached)
  /\ QueueSound(queue, tracks, over)
  /\ \A i \in DOMAIN signals :
       signals[i].track \in over \/ signals[i].shown \in Showing(tracks, signals[i].track)
  /\ CacheSound(cached, tracks, over)
  /\ \A id \in ids \ over :
       Awaited(queue, signals, id) \/ shown[id] \in Showing(tracks, id)

\* The tracks edited while the worker of a view had read them.
Over(v) == {id \in TrackId : <<v, id>> \in overtaken}

\* The lanes of both views.
LanesInv ==
  /\ DOMAIN lanes = View /\ DOMAIN tasks = View /\ DOMAIN answers = View /\ DOMAIN cache = View
  /\ \A v \in View :
       ViewSound(lanes[v], tasks[v], answers[v], cache[v], audio, Tracks, Over(v))

\* The samples a key of a spectrum stands for.
Part(tracks, key) == SubSeq(PlaybackView(tracks[key[1]]), key[2] + 1, key[3])

\* The keys, jobs, results and tasks of the spectra.
SpectrumKeys == TrackId \X Nat \X Nat \X Nat \X Nat
Jobs == [key : SpectrumKeys, samples : Seq(Nat)]
Results == UNION {[ids -> Seq(Nat)] : ids \in SUBSET TrackId}
SpectrumTask == [jobs : Seq(Jobs), latest : BOOLEAN, computing : BOOLEAN, results : Results]

\* A job holds the samples the track has now, unless it was edited meanwhile.
JobSound(job, tracks, over) ==
  /\ job.key[1] \in DOMAIN tracks
  /\ job.key[1] \notin over => job.samples = Part(tracks, job.key)

JobsSound(queue, tracks, over) ==
  \A i \in DOMAIN queue :
    /\ queue[i].jobs # <<>>
    /\ \A k \in DOMAIN queue[i].jobs : JobSound(queue[i].jobs[k], tracks, over)

\* Cached spectra are of the audio their tracks have now.
SpectraCacheSound(cached, tracks, over) ==
  \A key \in DOMAIN cached :
    /\ key[1] \in DOMAIN tracks /\ cached[key] \in Seq(Nat)
    /\ key[1] \notin over => cached[key] = Part(tracks, key)

\* The job that the track asks for in an interval.
Wanted(id, tracks, interval) == Job(id, tracks[id], interval)

\* The latest task covers every track, with the interval that is shown.
LatestSound(task, tracks, ids, interval, over) ==
  /\ \A k \in DOMAIN task.jobs :
       task.jobs[k] = Wanted(task.jobs[k].key[1], tracks, interval)
  /\ \A id \in ids : \/ id \in DOMAIN task.results
                     \/ \E k \in DOMAIN task.jobs : task.jobs[k].key[1] = id
  /\ \A id \in DOMAIN task.results \ over :
       task.results[id] = Wanted(id, tracks, interval).samples

\* The spectra of all tracks in the interval, or a failure.
SpectraSound(shown, tracks, ids, interval, over) ==
  \/ shown = Failed
  \/ /\ shown.shows = "spectra" /\ ids \subseteq DOMAIN shown.of
     /\ \A id \in DOMAIN shown.of \ over :
          shown.of[id] = Wanted(id, tracks, interval).samples

\* While the tab is visible, the latest task is about the tracks and the region shown.
TabSound(queue, signal, shown, tracks, ids, interval, over) ==
  /\ \A i \in DOMAIN queue :
       queue[i].latest => LatestSound(queue[i], tracks, ids, interval, over)
  /\ \/ \E i \in DOMAIN queue : queue[i].latest
     \/ signal # <<>>
     \/ shown = Nothing /\ ids = {}
     \/ SpectraSound(shown, tracks, ids, interval, over)
  /\ signal # <<>> => SpectraSound(Head(signal), tracks, ids, interval, over)

\* The pool and the cache of the spectra.
PoolSound(queue, cached, tracks, over) ==
  /\ queue \in Seq(SpectrumTask)
  /\ JobsSound(queue, tracks, over) /\ SpectraCacheSound(cached, tracks, over)

\* The spectra: always their pool, and what the tab shows while it is visible.
SpectraInv ==
  /\ PoolSound(spectrumTasks, spectrumCache, audio, overtakenSpectra)
  /\ tab = "fourier" =>
       TabSound(spectrumTasks, spectrumAnswer, spectra, audio, Tracks, region,
                overtakenSpectra)

-----------------------------------------------------------------------------
(* The tasks of a rebuild: one for each track that is not shown at once.        *)
UnshownTurn(ids, atOnce, r, n) ==
  IF n = 0 THEN <<>>
  ELSE IF ids[n] \in atOnce THEN r[n - 1]
  ELSE Append(r[n - 1], ids[n])

\* All turns up to the m-th.
UnshownTurns(ids, atOnce, r, m) == r = [n \in 0 .. m |-> UnshownTurn(ids, atOnce, r, n)]

\* The recursion has a value for every length.
LEMMA UnshownExists ==
  ASSUME NEW ids, NEW atOnce, NEW m \in Nat
  PROVE  \E r : UnshownTurns(ids, atOnce, r, m)
<1> DEFINE Missing == {k \in Nat : ~\E r : UnshownTurns(ids, atOnce, r, k)}
<1>a. /\ Missing \in SUBSET Nat
      /\ \A k \in Nat : k \in Missing \/ \E r : UnshownTurns(ids, atOnce, r, k)
      /\ \A k \in Missing : \A r : ~UnshownTurns(ids, atOnce, r, k)
  OBVIOUS
<1> HIDE DEF Missing
<1>1. Missing = {}
  <2> SUFFICES ASSUME Missing # {} PROVE FALSE
    OBVIOUS
  <2>1. PICK k \in Missing : \A j \in Missing : k <= j
    BY <1>a, LeastNumber
  <2>2. k \in Nat
    BY <1>a
  <2>3. PICK before : \A n \in 0 .. k - 1 : before[n] = UnshownTurn(ids, atOnce, before, n)
    <3>1. CASE k = 0
      BY <3>1
    <3>2. CASE k # 0
      <4>1. k - 1 \in Nat /\ k - 1 \notin Missing
        BY <2>1, <2>2, <3>2
      <4>2. PICK r : UnshownTurns(ids, atOnce, r, k - 1)
        BY <1>a, <4>1
      <4>3. \A n \in 0 .. k - 1 : r[n] = UnshownTurn(ids, atOnce, r, n)
        BY <4>2 DEF UnshownTurns
      <4> QED BY <4>3
    <3> QED BY <3>1, <3>2
  <2>4. PICK r : r = [n \in 0 .. k |-> UnshownTurn(ids, atOnce, before, n)]
    OBVIOUS
  <2>5. \A n \in 0 .. k : UnshownTurn(ids, atOnce, before, n) = UnshownTurn(ids, atOnce, r, n)
    <3> SUFFICES ASSUME NEW n \in 0 .. k
                 PROVE  UnshownTurn(ids, atOnce, before, n) = UnshownTurn(ids, atOnce, r, n)
      OBVIOUS
    <3>1. CASE n = 0
      BY <3>1 DEF UnshownTurn
    <3>2. CASE n # 0
      <4>1. n - 1 \in 0 .. k /\ n - 1 \in 0 .. k - 1
        BY <2>2, <3>2
      <4>2. r[n - 1] = before[n - 1]
        BY <2>3, <2>4, <4>1
      <4> QED BY <3>2, <4>2 DEF UnshownTurn
    <3> QED BY <3>1, <3>2
  <2>6. UnshownTurns(ids, atOnce, r, k)
    BY <2>4, <2>5, Zenon DEF UnshownTurns
  <2> QED BY <1>a, <2>1, <2>6
<1> QED BY <1>a, <1>1

\* The first n tracks without those shown at once.
UnshownOf(ids, atOnce, n, left) ==
  /\ left \in Seq(TrackId)
  /\ \A k \in DOMAIN left : left[k] \in ToSet(ids)
  /\ \A i \in 1 .. n : ids[i] \notin atOnce => \E k \in DOMAIN left : left[k] = ids[i]

\* Every track has its place in the value, or is shown at once.
LEMMA UnshownType ==
  ASSUME NEW ids \in Seq(TrackId), NEW atOnce
  PROVE  UnshownOf(ids, atOnce, Len(ids), Unshown(ids, atOnce))
<1>1. PICK m \in Nat : m = Len(ids)
  BY LenProperties
<1>2. PICK r : r = (CHOOSE q : UnshownTurns(ids, atOnce, q, m)) /\ UnshownTurns(ids, atOnce, r, m)
  BY <1>1, UnshownExists
<1>3. Unshown(ids, atOnce) = r[m]
  BY <1>1, <1>2 DEF Unshown, UnshownTurns, UnshownTurn
<1>4. \A n \in 0 .. m : r[n] = UnshownTurn(ids, atOnce, r, n)
  BY <1>2 DEF UnshownTurns
<1> DEFINE Bad == {n \in 0 .. m : ~UnshownOf(ids, atOnce, n, r[n])}
<1>a. /\ Bad \in SUBSET Nat
      /\ \A n \in Bad : n \in 0 .. m /\ ~UnshownOf(ids, atOnce, n, r[n])
      /\ \A n \in 0 .. m : n \notin Bad => UnshownOf(ids, atOnce, n, r[n])
  OBVIOUS
<1> HIDE DEF Bad
<1>5. Bad = {}
  <2> SUFFICES ASSUME Bad # {} PROVE FALSE
    OBVIOUS
  <2>1. PICK n \in Bad : \A j \in Bad : n <= j
    BY <1>a, LeastNumber
  <2>2. n \in 0 .. m /\ n \in Nat
    BY <1>a, <2>1
  <2>3. CASE n = 0
    <3>1. r[n] = <<>>
      BY <1>4, <2>2, <2>3 DEF UnshownTurn
    <3>2. UnshownOf(ids, atOnce, n, r[n])
      BY <2>3, <3>1 DEF UnshownOf
    <3> QED BY <1>a, <2>1, <3>2
  <2>4. CASE n # 0
    <3>1. n - 1 \in 0 .. m /\ n - 1 \notin Bad
      BY <2>1, <2>2, <2>4
    <3>2. PICK left : left = r[n - 1] /\ UnshownOf(ids, atOnce, n - 1, left)
      BY <1>a, <3>1
    <3>3. /\ n \in DOMAIN ids /\ ids[n] \in TrackId /\ ids[n] \in ToSet(ids)
          /\ \A i \in 1 .. n : i \in 1 .. n - 1 \/ i = n
      BY <1>1, <2>2, <2>4, LenProperties, ElementOfSeq DEF ToSet
    <3>4. r[n] = IF ids[n] \in atOnce THEN left ELSE Append(left, ids[n])
      BY <1>4, <2>2, <2>4, <3>2 DEF UnshownTurn
    <3>5. CASE ids[n] \in atOnce
      <4>1. UnshownOf(ids, atOnce, n, left)
        BY <3>2, <3>3, <3>5 DEF UnshownOf
      <4> QED BY <1>a, <2>1, <3>4, <3>5, <4>1
    <3>6. CASE ids[n] \notin atOnce
      <4>1. left \in Seq(TrackId) /\ Len(left) \in Nat /\ DOMAIN left = 1 .. Len(left)
        BY <3>2, LenProperties DEF UnshownOf
      <4>2. PICK all : all = Append(left, ids[n])
        OBVIOUS
      <4>3. /\ all \in Seq(TrackId) /\ Len(all) = Len(left) + 1 /\ DOMAIN all = 1 .. Len(left) + 1
            /\ all[Len(left) + 1] = ids[n]
            /\ \A k \in 1 .. Len(left) : all[k] = left[k]
        BY <3>3, <4>1, <4>2, AppendProperties
      <4>4. UnshownOf(ids, atOnce, n, all)
        <5>1. \A k \in DOMAIN all : all[k] \in ToSet(ids)
          BY <3>2, <3>3, <4>1, <4>3 DEF UnshownOf
        <5>2. ASSUME NEW i \in 1 .. n, ids[i] \notin atOnce
              PROVE  \E k \in DOMAIN all : all[k] = ids[i]
          <6>1. CASE i = n
            BY <4>1, <4>3, <6>1
          <6>2. CASE i \in 1 .. n - 1
            BY <3>2, <4>1, <4>3, <5>2, <6>2 DEF UnshownOf
          <6> QED BY <3>3, <6>1, <6>2
        <5> QED BY <4>3, <5>1, <5>2 DEF UnshownOf
      <4> QED BY <1>a, <2>1, <3>4, <3>6, <4>2, <4>4
    <3> QED BY <3>5, <3>6
  <2> QED BY <2>3, <2>4
<1> QED BY <1>1, <1>3, <1>5, <1>a

-----------------------------------------------------------------------------
(* The lanes: keys, pictures and queues.                                        *)
LEMMA KeyType ==
  ASSUME NEW id \in TrackId, NEW track \in SoundTrack
  PROVE  Key(id, track) \in Keys /\ Key(id, track)[1] = id
BY DEF Key, Keys, SoundTrack

LEMMA PictureType ==
  /\ \A samples \in Seq(Nat) : Picture(samples) \in Shown
  /\ Preparing \in Shown /\ Failed \in Shown
BY EmptySeq DEF Picture, Preparing, Failed, Shown

LEMMA PresentType ==
  ASSUME NEW tracks, TracksTyped(tracks), NEW id \in DOMAIN tracks
  PROVE  /\ id \in TrackId /\ tracks[id] \in SoundTrack
         /\ PlaybackView(tracks[id]) \in Seq(Nat) /\ Present(tracks, id) \in Shown
         /\ Key(id, tracks[id]) \in Keys /\ Key(id, tracks[id])[1] = id
<1>1. id \in TrackId /\ tracks[id] \in SoundTrack
  BY DEF TracksTyped
<1>2. PlaybackView(tracks[id]) \in Seq(Nat)
  BY <1>1, ViewType
<1> QED BY <1>1, <1>2, KeyType, PictureType DEF Present

\* New and outdated tasks keep their types; an outdated task keeps all else.
LEMMA NewTaskType ==
  ASSUME NEW id \in TrackId
  PROVE  /\ NewTask(id) \in Task /\ NewTask(id).track = id
         /\ NewTask(id).latest /\ NewTask(id).step = "queued"
BY DEF NewTask, Task

LEMMA OutdatedType ==
  ASSUME NEW queue \in Seq(Task)
  PROVE  /\ Outdated(queue) \in Seq(Task) /\ Len(Outdated(queue)) = Len(queue)
         /\ \A i \in 1 .. Len(queue) :
              /\ Outdated(queue)[i].track = queue[i].track
              /\ Outdated(queue)[i].step = queue[i].step
              /\ Outdated(queue)[i].key = queue[i].key
              /\ Outdated(queue)[i].result = queue[i].result
              /\ ~Outdated(queue)[i].latest
<1>1. PICK n \in Nat : n = Len(queue) /\ DOMAIN queue = 1 .. n
  BY LenProperties
<1>2. PICK old : /\ old = [i \in 1 .. n |-> [queue[i] EXCEPT !.latest = FALSE]]
                 /\ old = Outdated(queue)
  BY <1>1 DEF Outdated
<1>3. ASSUME NEW i \in 1 .. n
      PROVE  /\ old[i] \in Task /\ old[i].track = queue[i].track /\ old[i].step = queue[i].step
             /\ old[i].key = queue[i].key /\ old[i].result = queue[i].result /\ ~old[i].latest
  <2>1. queue[i] \in Task /\ old[i] = [queue[i] EXCEPT !.latest = FALSE]
    BY <1>1, <1>2, ElementOfSeq
  <2> QED BY <2>1 DEF Task
<1>4. old \in [1 .. n -> Task]
  BY <1>2, <1>3
<1>5. old \in Seq(Task) /\ Len(old) = n
  BY <1>4, SeqDef, LenProperties
<1> QED BY <1>1, <1>2, <1>3, <1>5

LEMMA NewTasksType ==
  ASSUME NEW ids \in Seq(TrackId)
  PROVE  /\ NewTasks(ids) \in Seq(Task) /\ Len(NewTasks(ids)) = Len(ids)
         /\ \A i \in 1 .. Len(ids) :
              /\ NewTasks(ids)[i].track = ids[i] /\ NewTasks(ids)[i].latest
              /\ NewTasks(ids)[i].step = "queued"
<1>1. PICK n \in Nat : n = Len(ids) /\ DOMAIN ids = 1 .. n /\ \A i \in 1 .. n : ids[i] \in TrackId
  BY LenProperties, ElementOfSeq
<1>2. PICK new : new = [i \in 1 .. n |-> NewTask(ids[i])] /\ new = NewTasks(ids)
  BY <1>1 DEF NewTasks
<1>3. /\ new \in [1 .. n -> Task]
      /\ \A i \in 1 .. n : new[i].track = ids[i] /\ new[i].latest /\ new[i].step = "queued"
  BY <1>1, <1>2, NewTaskType
<1>4. new \in Seq(Task) /\ Len(new) = n
  BY <1>3, SeqDef, LenProperties
<1> QED BY <1>1, <1>2, <1>3, <1>4

(* A rebuild: what is shown at once is the audio of the track, and all else has  *)
(* a task of the latest generation.                                             *)
LEMMA RebuiltSound ==
  ASSUME NEW v, NEW ids \in Seq(TrackId), NEW tracks, NEW cached, NEW queue, NEW over,
         TracksTyped(tracks), ToSet(ids) \subseteq DOMAIN tracks,
         ViewTyped(queue, <<>>, cached[v]),
         QueueSound(queue, tracks, over), CacheSound(cached[v], tracks, over)
  PROVE  ViewSound([id \in ToSet(ids) |->
                      IF ShownAtOnce(v, id, tracks, cached)
                      THEN Picture(cached[v][Key(id, tracks[id])])
                      ELSE Preparing],
                   Outdated(queue) \o
                     NewTasks(Unshown(ids, {id \in ToSet(ids) : ShownAtOnce(v, id, tracks, cached)})),
                   <<>>, cached[v], tracks, ToSet(ids), over)
<1>1. PICK atOnce : atOnce = {id \in ToSet(ids) : ShownAtOnce(v, id, tracks, cached)}
  OBVIOUS
<1>2. PICK new : new = Unshown(ids, atOnce) /\ UnshownOf(ids, atOnce, Len(ids), new)
  BY UnshownType
<1>3. PICK all : all = Outdated(queue) \o NewTasks(new)
  OBVIOUS
<1>4. new \in Seq(TrackId) /\ queue \in Seq(Task)
  BY <1>2 DEF UnshownOf, ViewTyped
<1>5. PICK m, n \in Nat : m = Len(queue) /\ n = Len(new)
                          /\ DOMAIN new = 1 .. n /\ DOMAIN queue = 1 .. m
  BY <1>4, LenProperties
<1>6. /\ all \in Seq(Task) /\ Len(all) = m + n /\ DOMAIN all = 1 .. m + n
      /\ \A i \in 1 .. m : /\ all[i].track = queue[i].track /\ all[i].step = queue[i].step
                           /\ all[i].key = queue[i].key /\ all[i].result = queue[i].result
      /\ \A i \in 1 .. n : /\ all[m + i].track = new[i] /\ all[m + i].latest
                           /\ all[m + i].step = "queued"
  <2>1. PICK a \in Seq(Task), b \in Seq(Task) :
          /\ a = Outdated(queue) /\ b = NewTasks(new) /\ Len(a) = m /\ Len(b) = n
    BY <1>4, <1>5, OutdatedType, NewTasksType
  <2>2. /\ all \in Seq(Task) /\ Len(all) = m + n
        /\ \A i \in 1 .. m + n : all[i] = IF i <= m THEN a[i] ELSE b[i - m]
    BY <1>3, <2>1, ConcatProperties
  <2>3. \A i \in 1 .. m : all[i] = a[i]
    BY <1>5, <2>2
  <2>4. \A i \in 1 .. n : all[m + i] = b[i]
    BY <1>5, <2>2
  <2>5. \A i \in 1 .. m : /\ a[i].track = queue[i].track /\ a[i].step = queue[i].step
                          /\ a[i].key = queue[i].key /\ a[i].result = queue[i].result
    BY <1>4, <1>5, <2>1, OutdatedType
  <2>6. \A i \in 1 .. n : b[i].track = new[i] /\ b[i].latest /\ b[i].step = "queued"
    BY <1>4, <1>5, <2>1, NewTasksType
  <2>7. DOMAIN all = 1 .. m + n
    BY <2>2, LenProperties
  <2>8. \A i \in 1 .. m :
          /\ all[i].track = queue[i].track /\ all[i].step = queue[i].step
          /\ all[i].key = queue[i].key /\ all[i].result = queue[i].result
    BY <2>3, <2>5
  <2>9. \A i \in 1 .. n :
          all[m + i].track = new[i] /\ all[m + i].latest /\ all[m + i].step = "queued"
    BY <2>4, <2>6
  <2> QED BY <2>2, <2>7, <2>8, <2>9
<1>7. QueueSound(all, tracks, over)
  <2> SUFFICES ASSUME NEW i \in 1 .. m + n
               PROVE  TaskSound(all[i], tracks, over) /\ (i # 1 => all[i].step = "queued")
    BY <1>6 DEF QueueSound
  <2>1. CASE i \in 1 .. m
    BY <1>5, <1>6, <2>1 DEF QueueSound, TaskSound
  <2>2. CASE i \notin 1 .. m
    <3>a. i - m \in 1 .. n /\ i = m + (i - m)
      BY <1>5, <2>2
    <3>1. PICK k \in 1 .. n : i = m + k
      BY <3>a
    <3>2. new[k] \in DOMAIN tracks
      BY <1>2, <1>5 DEF UnshownOf
    <3> QED BY <1>6, <3>1, <3>2 DEF TaskSound
  <2> QED BY <2>1, <2>2
<1>8. PICK shown : shown = [id \in ToSet(ids) |->
                              IF ShownAtOnce(v, id, tracks, cached)
                              THEN Picture(cached[v][Key(id, tracks[id])])
                              ELSE Preparing]
  OBVIOUS
<1>9. ASSUME NEW id \in ToSet(ids) \ over
      PROVE  Awaited(all, <<>>, id) \/ shown[id] \in Showing(tracks, id)
  <2>1. CASE id \in atOnce
    <3>1. ShownAtOnce(v, id, tracks, cached)
      BY <1>1, <2>1
    <3>2. Key(id, tracks[id]) \in DOMAIN cached[v] /\ id \in DOMAIN tracks
      BY <3>1 DEF ShownAtOnce
    <3>3. cached[v][Key(id, tracks[id])] = PlaybackView(tracks[id])
      BY <3>2 DEF CacheSound
    <3>4. shown[id] = Picture(PlaybackView(tracks[id]))
      BY <1>8, <3>1, <3>3
    <3> QED BY <3>4 DEF Showing, Present
  <2>2. CASE id \notin atOnce
    <3>1. PICK i \in 1 .. Len(ids) : ids[i] = id
      BY LenProperties DEF ToSet
    <3>2. PICK k \in 1 .. n : new[k] = id
      BY <1>2, <1>5, <2>2, <3>1 DEF UnshownOf
    <3>3. m + k \in DOMAIN all /\ all[m + k].track = id /\ all[m + k].latest
      BY <1>5, <1>6, <3>2
    <3> QED BY <3>3 DEF Awaited
  <2> QED BY <2>1, <2>2
<1>10. ViewTyped(all, <<>>, cached[v])
  BY <1>6 DEF ViewTyped
<1>11. ViewSound(shown, all, <<>>, cached[v], tracks, ToSet(ids), over)
  BY <1>7, <1>8, <1>9, <1>10, EmptySeq DEF ViewSound
<1> QED BY <1>1, <1>2, <1>3, <1>8, <1>11

(* What a change of the audio leaves of caches and tasks: of the track that is   *)
(* edited nothing but what the worker has read before.                          *)
Extends(tracks, more) ==
  /\ TracksTyped(more) /\ DOMAIN tracks \subseteq DOMAIN more
  /\ \A id \in DOMAIN tracks : more[id] = tracks[id]

\* The audio of one track has changed.
EditedAt(id, tracks, more) ==
  /\ TracksTyped(more) /\ DOMAIN tracks \subseteq DOMAIN more
  /\ \A t \in DOMAIN tracks \ {id} : more[t] = tracks[t]
  /\ DOMAIN more \subseteq DOMAIN tracks \cup {id}

\* New tracks disturb neither tasks nor cached results.
LEMMA ExtendedQueue ==
  ASSUME NEW tracks, NEW more, Extends(tracks, more), NEW queue, NEW over,
         QueueSound(queue, tracks, over)
  PROVE  QueueSound(queue, more, over)
BY DEF Extends, QueueSound, TaskSound

LEMMA ExtendedCache ==
  ASSUME NEW tracks, NEW more, Extends(tracks, more), NEW cached, NEW over,
         CacheSound(cached, tracks, over)
  PROVE  CacheSound(cached, more, over)
<1>1. \A key \in DOMAIN cached : key[1] \in DOMAIN more
  BY DEF Extends, CacheSound
<1>2. ASSUME NEW id \in DOMAIN more \ over, Key(id, more[id]) \in DOMAIN cached
      PROVE  cached[Key(id, more[id])] = PlaybackView(more[id])
  <2>1. Key(id, more[id])[1] = id
    BY PresentType DEF Extends
  <2>2. id \in DOMAIN tracks /\ more[id] = tracks[id]
    BY <1>2, <2>1 DEF Extends, CacheSound
  <2> QED BY <1>2, <2>2 DEF CacheSound
<1> QED BY <1>1, <1>2 DEF CacheSound

\* The first task has read the track.
HasRead(queue, id) == queue # <<>> /\ Head(queue).track = id /\ Head(queue).step # "queued"

OverAfter(over, queue, id) == (over \ {id}) \cup (IF HasRead(queue, id) THEN {id} ELSE {})

\* After an edit, a task that had read the track counts as overtaken.
LEMMA EditedQueue ==
  ASSUME NEW tracks, NEW more, NEW id, EditedAt(id, tracks, more), NEW queue \in Seq(Task),
         NEW over, QueueSound(queue, tracks, over)
  PROVE  QueueSound(queue, more, OverAfter(over, queue, id))
<1>1. PICK after : after = OverAfter(over, queue, id)
  OBVIOUS
<1>2. \A t : t # id => (t \in after <=> t \in over)
  BY <1>1 DEF OverAfter
<1>3. DOMAIN queue = 1 .. Len(queue)
  BY LenProperties
<1>4. ASSUME NEW i \in DOMAIN queue
      PROVE  TaskSound(queue[i], more, after) /\ (i # 1 => queue[i].step = "queued")
  <2>1. TaskSound(queue[i], tracks, over) /\ (i # 1 => queue[i].step = "queued")
    BY DEF QueueSound
  <2>2. CASE queue[i].track # id
    <3>1. more[queue[i].track] = tracks[queue[i].track] /\ queue[i].track \in DOMAIN more
      BY <2>1, <2>2 DEF TaskSound, EditedAt
    <3> QED BY <1>2, <2>1, <2>2, <3>1 DEF TaskSound
  <2>3. CASE queue[i].track = id
    <3>1. queue[i].step # "queued" => id \in after
      <4> SUFFICES ASSUME queue[i].step # "queued" PROVE id \in after
        OBVIOUS
      <4>1. i = 1 /\ queue # <<>> /\ Head(queue) = queue[i]
        BY <1>3, <2>1
      <4>2. HasRead(queue, id)
        BY <2>3, <4>1 DEF HasRead
      <4> QED BY <1>1, <4>2 DEF OverAfter
    <3>2. queue[i].track \in DOMAIN more
      BY <2>1 DEF TaskSound, EditedAt
    <3> QED BY <2>1, <2>3, <3>1, <3>2 DEF TaskSound
  <2> QED BY <2>2, <2>3
<1>5. QueueSound(queue, more, after)
  BY <1>4 DEF QueueSound
<1> QED BY <1>1, <1>5

\* The edit drops what was cached for its track.
LEMMA EditedCache ==
  ASSUME NEW tracks, NEW more, NEW id, EditedAt(id, tracks, more), NEW queue,
         NEW cached, NEW over, CacheSound(cached, tracks, over)
  PROVE  CacheSound(Invalidated(cached, id), more, OverAfter(over, queue, id))
<1>1. PICK after : after = OverAfter(over, queue, id)
  OBVIOUS
<1>2. \A t : t # id => (t \in after <=> t \in over)
  BY <1>1 DEF OverAfter
<1>3. PICK left : left = Invalidated(cached, id)
  OBVIOUS
<1>4. /\ DOMAIN left = {key \in DOMAIN cached : key[1] # id}
      /\ \A key \in DOMAIN left : left[key] = cached[key]
  BY <1>3 DEF Invalidated
<1>5. \A key \in DOMAIN left : key[1] \in DOMAIN more
  BY <1>4 DEF CacheSound, EditedAt
<1>6. ASSUME NEW t \in DOMAIN more \ after, Key(t, more[t]) \in DOMAIN left
      PROVE  left[Key(t, more[t])] = PlaybackView(more[t])
  <2>1. Key(t, more[t])[1] = t
    BY PresentType DEF EditedAt
  <2>2. t # id /\ t \in DOMAIN tracks /\ more[t] = tracks[t] /\ t \notin over
    BY <1>2, <1>4, <1>6, <2>1 DEF EditedAt
  <2>3. Key(t, more[t]) \in DOMAIN cached
    BY <1>4, <1>6
  <2> QED BY <1>4, <1>6, <2>2, <2>3 DEF CacheSound
<1>7. CacheSound(left, more, after)
  BY <1>5, <1>6 DEF CacheSound
<1> QED BY <1>1, <1>3, <1>7

-----------------------------------------------------------------------------
(* The worker.                                                                  *)
LEMMA FirstTask ==
  ASSUME NEW queue \in Seq(Task), queue # <<>>, NEW tracks, NEW over,
         QueueSound(queue, tracks, over)
  PROVE  /\ Head(queue) = queue[1] /\ Head(queue) \in Task /\ TaskSound(Head(queue), tracks, over)
         /\ DOMAIN queue = 1 .. Len(queue) /\ Len(queue) \in Nat \ {0}
<1>1. DOMAIN queue = 1 .. Len(queue) /\ Len(queue) \in Nat \ {0}
  BY LenProperties, EmptySeq
<1>2. Head(queue) \in Task /\ Head(queue) = queue[1]
  BY HeadTailProperties
<1> QED BY <1>1, <1>2 DEF QueueSound

LEMMA TaskFields ==
  ASSUME NEW task \in Task
  PROVE  /\ task.track \in TrackId /\ task.latest \in BOOLEAN
         /\ task.step \in {"queued", "compute", "store"}
         /\ task.key \in Keys \cup {None} /\ task.result \in Seq(Nat) \cup {None}
BY DEF Task

(* The first task goes on.                                                      *)
LEMMA GoesOnSound ==
  ASSUME NEW shown, NEW queue, NEW signals, NEW cached, NEW tracks, NEW ids, NEW over,
         ViewSound(shown, queue, signals, cached, tracks, ids, over), queue # <<>>,
         NEW task \in Task, task.track = Head(queue).track, task.latest = Head(queue).latest,
         TaskSound(task, tracks, over)
  PROVE  ViewSound(shown, [queue EXCEPT ![1] = task], signals, cached, tracks, ids, over)
<1>1. queue \in Seq(Task) /\ QueueSound(queue, tracks, over)
  BY DEF ViewSound, ViewTyped
<1>2. /\ Head(queue) = queue[1]
      /\ DOMAIN queue = 1 .. Len(queue) /\ Len(queue) \in Nat \ {0}
  BY <1>1, FirstTask
<1>3. PICK next : next = [queue EXCEPT ![1] = task]
  OBVIOUS
<1>4. /\ next \in Seq(Task) /\ DOMAIN next = DOMAIN queue /\ next[1] = task
      /\ \A i \in DOMAIN queue : i # 1 => next[i] = queue[i]
  BY <1>1, <1>2, <1>3
<1>5. QueueSound(next, tracks, over)
  BY <1>1, <1>4 DEF QueueSound
<1>6. \A id : Awaited(queue, signals, id) => Awaited(next, signals, id)
  BY <1>2, <1>4 DEF Awaited
<1>7. ViewTyped(next, signals, cached)
  BY <1>4 DEF ViewSound, ViewTyped
<1>8. ViewSound(shown, next, signals, cached, tracks, ids, over)
  BY <1>5, <1>6, <1>7 DEF ViewSound
<1> QED BY <1>3, <1>8

(* The first task ends: its answer is sent if its generation is the latest.     *)
LEMMA EndsSound ==
  ASSUME NEW shown, NEW queue, NEW signals, NEW cached, NEW tracks, NEW ids, NEW over,
         ViewSound(shown, queue, signals, cached, tracks, ids, over), queue # <<>>,
         NEW picture \in Shown,
         Head(queue).track \in over \/ picture \in Showing(tracks, Head(queue).track)
  PROVE  ViewSound(shown, Tail(queue),
                   IF Head(queue).latest
                   THEN Append(signals, [track |-> Head(queue).track, shown |-> picture])
                   ELSE signals, cached, tracks, ids, over)
<1>1. queue \in Seq(Task) /\ QueueSound(queue, tracks, over) /\ signals \in Seq(Answer)
  BY DEF ViewSound, ViewTyped
<1>2. PICK task \in Task : task = Head(queue) /\ task = queue[1] /\ TaskSound(task, tracks, over)
  BY <1>1, FirstTask
<1>3. PICK m \in Nat : Len(queue) = m + 1 /\ DOMAIN queue = 1 .. m + 1
  <2>1. DOMAIN queue = 1 .. Len(queue) /\ Len(queue) \in Nat \ {0}
    BY <1>1, FirstTask
  <2>2. PICK m : m = Len(queue) - 1
    OBVIOUS
  <2>3. m \in Nat /\ Len(queue) = m + 1
    BY <2>1, <2>2
  <2> QED BY <2>1, <2>3
<1>4. PICK rest : rest = Tail(queue)
  OBVIOUS
<1>5. /\ rest \in Seq(Task) /\ Len(rest) = m /\ DOMAIN rest = 1 .. m
      /\ \A i \in 1 .. m : rest[i] = queue[i + 1]
  BY <1>1, <1>3, <1>4, HeadTailProperties, LenProperties
<1>6. QueueSound(rest, tracks, over)
  <2> SUFFICES ASSUME NEW i \in 1 .. m
               PROVE  TaskSound(rest[i], tracks, over) /\ rest[i].step = "queued"
    BY <1>5 DEF QueueSound
  <2>1. i + 1 \in DOMAIN queue /\ i + 1 # 1 /\ rest[i] = queue[i + 1]
    BY <1>3, <1>5
  <2> QED BY <1>1, <2>1 DEF QueueSound
<1>7. PICK answer \in Answer : answer = [track |-> task.track, shown |-> picture]
  BY TaskFields DEF Answer
<1>8. PICK sent : sent = IF task.latest THEN Append(signals, answer) ELSE signals
  OBVIOUS
<1>9. /\ sent \in Seq(Answer) /\ DOMAIN signals \subseteq DOMAIN sent
      /\ \A i \in DOMAIN signals : sent[i] = signals[i]
      /\ \A i \in DOMAIN sent : i \in DOMAIN signals \/ sent[i] = answer
      /\ task.latest => \E i \in DOMAIN sent : sent[i] = answer
  <2>1. CASE ~task.latest
    BY <1>1, <1>8, <2>1
  <2>2. CASE task.latest
    <3>1. sent = Append(signals, answer)
      BY <1>8, <2>2
    <3>2. Len(signals) \in Nat /\ DOMAIN signals = 1 .. Len(signals)
      BY <1>1, LenProperties
    <3>3. /\ sent \in Seq(Answer) /\ Len(sent) = Len(signals) + 1
          /\ \A i \in 1 .. Len(signals) : sent[i] = signals[i]
          /\ sent[Len(signals) + 1] = answer
      BY <1>1, <3>1, AppendProperties
    <3>4. DOMAIN sent = 1 .. Len(signals) + 1
      BY <3>3, LenProperties
    <3> QED BY <3>2, <3>3, <3>4
  <2> QED BY <2>1, <2>2
<1>10. \A i \in DOMAIN sent :
         sent[i].track \in over \/ sent[i].shown \in Showing(tracks, sent[i].track)
  BY <1>2, <1>7, <1>9 DEF ViewSound
<1>11. ASSUME NEW id, Awaited(queue, signals, id) PROVE Awaited(rest, sent, id)
  <2>1. CASE \E i \in DOMAIN signals : signals[i].track = id
    BY <1>9, <2>1 DEF Awaited
  <2>2. CASE \E i \in DOMAIN queue : queue[i].track = id /\ queue[i].latest
    <3>1. PICK i \in DOMAIN queue : queue[i].track = id /\ queue[i].latest
      BY <2>2
    <3>2. CASE i = 1
      <4>1. task.latest /\ answer.track = id
        BY <1>2, <1>7, <3>1, <3>2
      <4> QED BY <1>9, <4>1 DEF Awaited
    <3>3. CASE i # 1
      <4>1. i - 1 \in 1 .. m /\ (i - 1) + 1 = i
        BY <1>3, <3>3
      <4>2. rest[i - 1] = queue[i]
        BY <1>5, <4>1
      <4> QED BY <1>5, <3>1, <4>1, <4>2 DEF Awaited
    <3> QED BY <3>2, <3>3
  <2> QED BY <1>11, <2>1, <2>2 DEF Awaited
<1>12. ViewTyped(rest, sent, cached)
  BY <1>5, <1>9 DEF ViewSound, ViewTyped
<1>13. ViewSound(shown, rest, sent, cached, tracks, ids, over)
  BY <1>6, <1>10, <1>11, <1>12 DEF ViewSound
<1> QED BY <1>2, <1>4, <1>7, <1>8, <1>13

\* What a look into the cache finds may be shown.
LEMMA FoundSound ==
  ASSUME NEW tracks, TracksTyped(tracks), NEW cached, NEW over, NEW id \in DOMAIN tracks,
         CacheSound(cached, tracks, over), NEW key \in DOMAIN cached,
         id \notin over => key = Key(id, tracks[id]),
         \A k \in DOMAIN cached : cached[k] \in Seq(Nat)
  PROVE  /\ Picture(cached[key]) \in Shown
         /\ id \in over \/ Picture(cached[key]) \in Showing(tracks, id)
<1>1. Picture(cached[key]) \in Shown
  BY PictureType
<1>2. CASE id \in over
  BY <1>1, <1>2
<1>3. CASE id \notin over
  <2>1. cached[key] = PlaybackView(tracks[id])
    BY <1>3 DEF CacheSound
  <2> QED BY <1>1, <2>1 DEF Showing, Present
<1> QED BY <1>2, <1>3

\* What is stored, or was there before it, is the audio of the track.
LEMMA StoredSound ==
  ASSUME NEW tracks, TracksTyped(tracks), NEW cached, NEW over, NEW task \in Task,
         TaskSound(task, tracks, over), task.step = "store", CacheSound(cached, tracks, over),
         DOMAIN cached \subseteq Keys, \A k \in DOMAIN cached : cached[k] \in Seq(Nat),
         NEW kept, kept = Kept(cached, task.key, task.result)
  PROVE  /\ CacheSound(kept, tracks, over) /\ task.key \in DOMAIN kept
         /\ DOMAIN kept \subseteq Keys /\ \A k \in DOMAIN kept : kept[k] \in Seq(Nat)
<1>1. /\ task.key \in Keys /\ task.key[1] = task.track /\ task.track \in DOMAIN tracks
      /\ task.result \in Seq(Nat)
      /\ task.track \notin over => /\ task.key = Key(task.track, tracks[task.track])
                                   /\ task.result = PlaybackView(tracks[task.track])
  BY DEF TaskSound
<1>2. PICK key, result : key = task.key /\ result = task.result
  OBVIOUS
<1>3. /\ DOMAIN kept = DOMAIN cached \cup {key}
      /\ \A k \in DOMAIN cached : kept[k] = cached[k]
      /\ key \notin DOMAIN cached => kept[key] = result
  BY <1>2 DEF Kept
<1>4. \A k \in DOMAIN kept : k \in DOMAIN cached \/ (k = key /\ kept[k] = result)
  BY <1>3
<1>5. ASSUME NEW id \in DOMAIN tracks \ over, Key(id, tracks[id]) \in DOMAIN kept
      PROVE  kept[Key(id, tracks[id])] = PlaybackView(tracks[id])
  <2>1. CASE Key(id, tracks[id]) \in DOMAIN cached
    BY <1>3, <2>1 DEF CacheSound
  <2>2. CASE Key(id, tracks[id]) \notin DOMAIN cached
    <3>1. Key(id, tracks[id]) = key /\ kept[Key(id, tracks[id])] = result
      BY <1>4, <1>5, <2>2
    <3>2. Key(id, tracks[id])[1] = id
      BY PresentType
    <3>3. id = task.track
      BY <1>1, <1>2, <3>1, <3>2
    <3> QED BY <1>1, <1>2, <3>1, <3>3
  <2> QED BY <2>1, <2>2
<1>6. \A k \in DOMAIN kept : k[1] \in DOMAIN tracks
  BY <1>1, <1>2, <1>4 DEF CacheSound
<1> QED BY <1>1, <1>2, <1>3, <1>4, <1>5, <1>6 DEF CacheSound

(* The answer is shown in the lane of the track.                                *)
LEMMA ArrivesSound ==
  ASSUME NEW shown, NEW queue, NEW signals, NEW cached, NEW tracks, NEW ids, NEW over,
         ViewSound(shown, queue, signals, cached, tracks, ids, over), signals # <<>>
  PROVE  ViewSound([shown EXCEPT ![Head(signals).track] = Head(signals).shown], queue,
                   Tail(signals), cached, tracks, ids, over)
<1>1. signals \in Seq(Answer)
  BY DEF ViewSound, ViewTyped
<1>2. PICK m \in Nat : Len(signals) = m + 1 /\ DOMAIN signals = 1 .. m + 1
  <2>1. DOMAIN signals = 1 .. Len(signals) /\ Len(signals) \in Nat \ {0}
    BY <1>1, LenProperties, EmptySeq
  <2>2. PICK m : m = Len(signals) - 1
    OBVIOUS
  <2>3. m \in Nat /\ Len(signals) = m + 1
    BY <2>1, <2>2
  <2> QED BY <2>1, <2>3
<1>3. PICK rest : rest = Tail(signals)
  OBVIOUS
<1>4. /\ rest \in Seq(Answer) /\ Len(rest) = m /\ DOMAIN rest = 1 .. m
      /\ \A i \in 1 .. m : rest[i] = signals[i + 1]
  BY <1>1, <1>2, <1>3, HeadTailProperties, LenProperties
<1>5. PICK answer \in Answer : answer = Head(signals) /\ answer = signals[1]
  BY <1>1, HeadTailProperties
<1>6. \A i \in DOMAIN signals :
        signals[i].track \in over \/ signals[i].shown \in Showing(tracks, signals[i].track)
  BY DEF ViewSound
<1>7. \A i \in DOMAIN rest :
        rest[i].track \in over \/ rest[i].shown \in Showing(tracks, rest[i].track)
  <2> SUFFICES ASSUME NEW i \in 1 .. m
               PROVE  rest[i].track \in over \/ rest[i].shown \in Showing(tracks, rest[i].track)
    BY <1>4
  <2>1. i + 1 \in DOMAIN signals /\ rest[i] = signals[i + 1]
    BY <1>2, <1>4
  <2> QED BY <1>6, <2>1
<1>8. answer.track \in over \/ answer.shown \in Showing(tracks, answer.track)
  <2>1. 1 \in DOMAIN signals
    BY <1>2
  <2> QED BY <1>5, <1>6, <2>1
<1>9. PICK after : after = [shown EXCEPT ![answer.track] = answer.shown]
  OBVIOUS
<1>10. DOMAIN after = ids /\ DOMAIN shown = ids
  BY <1>9 DEF ViewSound
<1>11. ASSUME NEW id \in ids \ over
       PROVE  Awaited(queue, rest, id) \/ after[id] \in Showing(tracks, id)
  <2>1. CASE id = answer.track
    <3>1. after[id] = answer.shown
      BY <1>9, <1>10, <2>1
    <3> QED BY <1>8, <2>1, <3>1
  <2>2. CASE id # answer.track
    <3>1. after[id] = shown[id]
      BY <1>9, <1>10, <2>2
    <3>2. Awaited(queue, signals, id) \/ shown[id] \in Showing(tracks, id)
      BY DEF ViewSound
    <3>3. ASSUME NEW i \in DOMAIN signals, signals[i].track = id
          PROVE  \E k \in DOMAIN rest : rest[k].track = id
      <4>1. i \in 1 .. m + 1 /\ i # 1
        BY <1>2, <1>5, <2>2, <3>3
      <4>2. i - 1 \in 1 .. m /\ (i - 1) + 1 = i
        BY <4>1
      <4>3. rest[i - 1] = signals[i]
        BY <1>4, <4>2
      <4> QED BY <1>4, <3>3, <4>2, <4>3
    <3> QED BY <3>1, <3>2, <3>3 DEF Awaited
  <2> QED BY <2>1, <2>2
<1>12. ViewTyped(queue, rest, cached)
  BY <1>4 DEF ViewSound, ViewTyped
<1>13. ViewSound(after, queue, rest, cached, tracks, ids, over)
  BY <1>7, <1>10, <1>11, <1>12 DEF ViewSound
<1> QED BY <1>3, <1>5, <1>9, <1>13
-----------------------------------------------------------------------------
(* One view moves at a time.                                                    *)
Moves(f, g, v, x) == DOMAIN g = View /\ g[v] = x /\ \A w \in View \ {v} : g[w] = f[w]

LEMMA OneViewMoves ==
  ASSUME LanesInv, NEW v \in View, NEW shown, NEW queue, NEW signals, NEW cached,
         Moves(lanes, lanes', v, shown), Moves(tasks, tasks', v, queue),
         Moves(answers, answers', v, signals), Moves(cache, cache', v, cached),
         UNCHANGED <<order, audio, overtaken>>,
         ViewSound(shown, queue, signals, cached, audio, Tracks, Over(v))
  PROVE  LanesInv'
<1>1. /\ DOMAIN lanes' = View /\ DOMAIN tasks' = View /\ DOMAIN answers' = View
      /\ DOMAIN cache' = View
  BY DEF Moves
<1>2. Tracks' = Tracks /\ audio' = audio /\ \A w : Over(w)' = Over(w)
  BY DEF Tracks, Over
<1>3. ASSUME NEW w \in View
      PROVE  ViewSound(lanes'[w], tasks'[w], answers'[w], cache'[w], audio, Tracks, Over(w))
  <2>1. CASE w = v
    BY <2>1 DEF Moves
  <2>2. CASE w # v
    BY <2>2 DEF Moves, LanesInv
  <2> QED BY <2>1, <2>2
<1> QED BY <1>1, <1>2, <1>3 DEF LanesInv

\* A function whose value at one view is changed, or left alone.
LEMMA Stands ==
  ASSUME NEW f, DOMAIN f = View, NEW v \in View
  PROVE  Moves(f, f, v, f[v]) /\ \A x : Moves(f, [f EXCEPT ![v] = x], v, x)
BY DEF Moves

\* What the invariant says of one view and of its first task.
LEMMA ViewOf ==
  ASSUME LanesInv, NEW v \in View
  PROVE  /\ ViewSound(lanes[v], tasks[v], answers[v], cache[v], audio, Tracks, Over(v))
         /\ tasks[v] \in Seq(Task) /\ QueueSound(tasks[v], audio, Over(v))
         /\ CacheSound(cache[v], audio, Over(v)) /\ DOMAIN cache[v] \subseteq Keys
         /\ \A key \in DOMAIN cache[v] : cache[v][key] \in Seq(Nat)
BY DEF LanesInv, ViewSound, ViewTyped

LEMMA HeadOf ==
  ASSUME LanesInv, TracksTyped(audio), NEW v \in View, tasks[v] # <<>>
  PROVE  /\ Running(v) \in Task /\ Running(v) = Head(tasks[v]) /\ Running(v) = tasks[v][1]
         /\ TaskSound(Running(v), audio, Over(v)) /\ Running(v).track \in DOMAIN audio
<1>1. tasks[v] \in Seq(Task) /\ QueueSound(tasks[v], audio, Over(v))
  BY ViewOf
<1>2. /\ Running(v) \in Task /\ Running(v) = Head(tasks[v]) /\ Running(v) = tasks[v][1]
      /\ TaskSound(Running(v), audio, Over(v))
  BY <1>1, FirstTask DEF Running
<1> QED BY <1>2 DEF TaskSound

\* The two ways a worker moves: its task ends, or goes on.
LEMMA EndsInv ==
  ASSUME LanesInv, TracksTyped(audio), NEW v \in View, tasks[v] # <<>>,
         NEW picture \in Shown, Ends(v, picture),
         Running(v).track \in Over(v) \/ picture \in Showing(audio, Running(v).track),
         NEW cached, Moves(cache, cache', v, cached), UNCHANGED <<lanes, order, audio, overtaken>>,
         ViewSound(lanes[v], tasks[v], answers[v], cached, audio, Tracks, Over(v))
  PROVE  LanesInv'
<1>1. Running(v) = Head(tasks[v])
  BY DEF Running
<1>2. PICK rest : rest = Tail(tasks[v])
  OBVIOUS
<1>3. PICK sent : sent = IF Head(tasks[v]).latest
                         THEN Append(answers[v], [track |-> Head(tasks[v]).track, shown |-> picture])
                         ELSE answers[v]
  OBVIOUS
<1>4. ViewSound(lanes[v], rest, sent, cached, audio, Tracks, Over(v))
  BY <1>1, <1>2, <1>3, EndsSound
<1>5. DOMAIN lanes = View /\ DOMAIN tasks = View /\ DOMAIN answers = View
  BY DEF LanesInv
<1>6. Moves(tasks, tasks', v, rest)
  BY <1>2, <1>5, Stands DEF Ends
<1>7. Moves(answers, answers', v, sent)
  <2>1. CASE Head(tasks[v]).latest
    <3>1. answers' = [answers EXCEPT ![v] = sent]
      BY <1>1, <1>3, <2>1 DEF Ends
    <3> QED BY <1>5, <3>1, Stands
  <2>2. CASE ~Head(tasks[v]).latest
    <3>1. answers' = answers /\ sent = answers[v]
      BY <1>1, <1>3, <2>2 DEF Ends
    <3> QED BY <1>5, <3>1, Stands
  <2> QED BY <2>1, <2>2
<1>8. Moves(lanes, lanes', v, lanes[v])
  BY <1>5, Stands
<1> QED BY <1>4, <1>6, <1>7, <1>8, OneViewMoves

LEMMA GoesOnInv ==
  ASSUME LanesInv, TracksTyped(audio), NEW v \in View, tasks[v] # <<>>,
         NEW task \in Task, task.track = Running(v).track, task.latest = Running(v).latest,
         TaskSound(task, audio, Over(v)),
         tasks' = [tasks EXCEPT ![v] = [tasks[v] EXCEPT ![1] = task]],
         UNCHANGED <<lanes, answers, cache, order, audio, overtaken>>
  PROVE  LanesInv'
<1>1. Running(v) = Head(tasks[v])
  BY DEF Running
<1>2. PICK next : next = [tasks[v] EXCEPT ![1] = task]
  OBVIOUS
<1>3. ViewSound(lanes[v], next, answers[v], cache[v], audio, Tracks, Over(v))
  BY <1>1, <1>2, ViewOf, GoesOnSound
<1>4. DOMAIN lanes = View /\ DOMAIN tasks = View /\ DOMAIN answers = View /\ DOMAIN cache = View
  BY DEF LanesInv
<1>5. tasks' = [tasks EXCEPT ![v] = next]
  BY <1>2
<1>a. \A x : Moves(tasks, [tasks EXCEPT ![v] = x], v, x)
  BY <1>4, Stands
<1>6. Moves(tasks, tasks', v, next)
  BY <1>5, <1>a, Zenon
<1>7. Moves(lanes, lanes', v, lanes[v]) /\ Moves(answers, answers', v, answers[v])
      /\ Moves(cache, cache', v, cache[v])
  BY <1>4, Stands
<1> QED BY <1>3, <1>6, <1>7, OneViewMoves

\* Each step of a worker, and the answer in the GUI, keep the lanes.
LEMMA WorkerInv ==
  ASSUME LanesInv, TracksTyped(audio), NEW v \in View, WorkerStep(v),
         UNCHANGED <<order, audio>>
  PROVE  LanesInv'
<1>1. tasks[v] # <<>>
  BY DEF WorkerStep, LookUp, Compute, Store, AnalysisFails
<1>2. PICK task \in Task : task = Running(v) /\ TaskSound(task, audio, Over(v))
  BY <1>1, HeadOf
<1>3. PICK id \in DOMAIN audio : id = task.track
  BY <1>2 DEF TaskSound
<1>4. id \in TrackId /\ Key(id, audio[id]) \in Keys /\ Key(id, audio[id])[1] = id
      /\ PlaybackView(audio[id]) \in Seq(Nat)
  BY PresentType
<1>5. DOMAIN cache = View /\ Moves(cache, cache, v, cache[v])
  BY Stands DEF LanesInv
<1>6. CASE LookUp(v)
  <2>1. PICK key \in Keys : key = Key(id, audio[id]) /\ key[1] = id
    BY <1>4
  <2>2. CASE key \in DOMAIN cache[v]
    <3>1. Ends(v, Picture(cache[v][key])) /\ UNCHANGED <<lanes, cache, overtaken>>
      BY <1>2, <1>3, <1>6, <2>1, <2>2 DEF LookUp
    <3>2. PICK picture \in Shown : /\ picture = Picture(cache[v][key])
                                   /\ id \in Over(v) \/ picture \in Showing(audio, id)
      BY <2>1, <2>2, ViewOf, FoundSound
    <3>3. ViewSound(lanes[v], tasks[v], answers[v], cache[v], audio, Tracks, Over(v))
      BY ViewOf
    <3>4. Ends(v, picture) /\ Moves(cache, cache', v, cache[v])
      BY <1>5, <3>1, <3>2
    <3>5. Running(v).track \in Over(v) \/ picture \in Showing(audio, Running(v).track)
      BY <1>2, <1>3, <3>2
    <3> QED BY <1>1, <3>1, <3>3, <3>4, <3>5, EndsInv
  <2>3. CASE key \notin DOMAIN cache[v]
    <3>1. /\ tasks' = [tasks EXCEPT ![v][1] = [@ EXCEPT !.step = "compute", !.key = key]]
          /\ UNCHANGED <<lanes, answers, cache, overtaken>>
      BY <1>2, <1>3, <1>6, <2>1, <2>3 DEF LookUp
    <3>2. PICK next : next = [task EXCEPT !.step = "compute", !.key = key]
      OBVIOUS
    <3>3. /\ next \in Task /\ next.track = id /\ next.latest = task.latest
          /\ next.step = "compute" /\ next.key = key
      BY <1>2, <1>3, <2>1, <3>2 DEF Task
    <3>4. TaskSound(next, audio, Over(v))
      BY <1>3, <2>1, <3>3 DEF TaskSound
    <3>5. tasks[v][1] = task
      BY <1>1, <1>2, HeadOf
    <3>6. tasks' = [tasks EXCEPT ![v] = [tasks[v] EXCEPT ![1] = next]]
      BY <3>1, <3>2, <3>5
    <3> QED BY <1>1, <1>2, <1>3, <3>1, <3>3, <3>4, <3>6, GoesOnInv
  <2> QED BY <2>2, <2>3
<1>7. CASE Compute(v)
  <2>1. /\ tasks' = [tasks EXCEPT ![v][1] = [@ EXCEPT !.step = "store",
                                                 !.result = PlaybackView(audio[id])]]
        /\ UNCHANGED <<lanes, answers, cache, overtaken>> /\ task.step = "compute"
    BY <1>2, <1>3, <1>7 DEF Compute
  <2>2. PICK next : next = [task EXCEPT !.step = "store", !.result = PlaybackView(audio[id])]
    OBVIOUS
  <2>3. /\ next \in Task /\ next.track = id /\ next.latest = task.latest
        /\ next.step = "store" /\ next.key = task.key /\ next.result = PlaybackView(audio[id])
    BY <1>2, <1>3, <1>4, <2>2 DEF Task
  <2>4. TaskSound(next, audio, Over(v))
    BY <1>2, <1>3, <1>4, <2>1, <2>3 DEF TaskSound
  <2>5. tasks[v][1] = task
    BY <1>1, <1>2, HeadOf
  <2>6. tasks' = [tasks EXCEPT ![v] = [tasks[v] EXCEPT ![1] = next]]
    BY <2>1, <2>2, <2>5
  <2> QED BY <1>1, <1>2, <1>3, <2>1, <2>3, <2>4, <2>6, GoesOnInv
<1>8. CASE Store(v)
  <2>1. PICK kept : kept = Kept(cache[v], task.key, task.result)
    OBVIOUS
  <2>2. /\ cache' = [cache EXCEPT ![v] = kept] /\ Ends(v, Picture(kept[task.key]))
        /\ UNCHANGED <<lanes, overtaken>> /\ task.step = "store"
    BY <1>2, <1>8, <2>1 DEF Store
  <2>3. /\ CacheSound(kept, audio, Over(v)) /\ task.key \in DOMAIN kept
        /\ DOMAIN kept \subseteq Keys /\ \A k \in DOMAIN kept : kept[k] \in Seq(Nat)
    BY <1>2, <2>1, <2>2, ViewOf, StoredSound
  <2>4. id \notin Over(v) => task.key = Key(id, audio[id])
    BY <1>2, <1>3, <2>2 DEF TaskSound
  <2>5. PICK picture \in Shown : /\ picture = Picture(kept[task.key])
                                 /\ id \in Over(v) \/ picture \in Showing(audio, id)
    BY <2>3, <2>4, FoundSound
  <2>6. ViewSound(lanes[v], tasks[v], answers[v], kept, audio, Tracks, Over(v))
    <3>1. ViewSound(lanes[v], tasks[v], answers[v], cache[v], audio, Tracks, Over(v))
      BY ViewOf
    <3> QED BY <2>3, <3>1 DEF ViewSound, ViewTyped
  <2>7. Moves(cache, cache', v, kept)
    BY <1>5, <2>2, Stands
  <2>8. Running(v).track \in Over(v) \/ picture \in Showing(audio, Running(v).track)
    BY <1>2, <1>3, <2>5
  <2>9. Ends(v, picture)
    BY <2>2, <2>5
  <2> QED BY <1>1, <2>2, <2>6, <2>7, <2>8, <2>9, EndsInv
<1>9. CASE AnalysisFails(v)
  <2>1. Ends(v, Failed) /\ UNCHANGED <<lanes, cache, overtaken>>
    BY <1>9 DEF AnalysisFails
  <2>2. Failed \in Shown /\ Failed \in Showing(audio, Running(v).track)
    BY PictureType DEF Showing
  <2>3. ViewSound(lanes[v], tasks[v], answers[v], cache[v], audio, Tracks, Over(v))
    BY ViewOf
  <2>4. Moves(cache, cache', v, cache[v])
    BY <1>5, <2>1
  <2> QED BY <1>1, <2>1, <2>2, <2>3, <2>4, EndsInv
<1> QED BY <1>6, <1>7, <1>8, <1>9 DEF WorkerStep

LEMMA AnswerInv ==
  ASSUME LanesInv, NEW v \in View, AnswerArrives(v), UNCHANGED <<order, audio>>
  PROVE  LanesInv'
<1>1. /\ answers[v] # <<>> /\ answers' = [answers EXCEPT ![v] = Tail(answers[v])]
      /\ UNCHANGED <<tasks, cache, overtaken>>
  BY DEF AnswerArrives
<1>2. PICK after : after = [lanes[v] EXCEPT ![Head(answers[v]).track] = Head(answers[v]).shown]
  OBVIOUS
<1>3. lanes' = [lanes EXCEPT ![v] = after]
  BY <1>2 DEF AnswerArrives, Show
<1>4. ViewSound(after, tasks[v], Tail(answers[v]), cache[v], audio, Tracks, Over(v))
  BY <1>1, <1>2, ViewOf, ArrivesSound
<1>5. DOMAIN lanes = View /\ DOMAIN tasks = View /\ DOMAIN answers = View /\ DOMAIN cache = View
  BY DEF LanesInv
<1>6. Moves(lanes, lanes', v, after) /\ Moves(answers, answers', v, Tail(answers[v]))
  BY <1>1, <1>3, <1>5, Stands
<1>7. Moves(tasks, tasks', v, tasks[v]) /\ Moves(cache, cache', v, cache[v])
  BY <1>1, <1>5, Stands
<1> QED BY <1>1, <1>4, <1>6, <1>7, OneViewMoves

(* What the window does to the project, as the lanes see it.                    *)
LEMMA LanesStay ==
  ASSUME LanesInv, UNCHANGED <<viewVars, order, audio>>
  PROVE  LanesInv'
<1>1. /\ lanes' = lanes /\ tasks' = tasks /\ answers' = answers /\ cache' = cache
      /\ overtaken' = overtaken /\ order' = order /\ audio' = audio
  BY DEF viewVars
<1>2. Tracks' = Tracks /\ \A v : Over(v)' = Over(v)
  BY <1>1 DEF Tracks, Over
<1> QED BY <1>1, <1>2 DEF LanesInv

\* A rebuild makes the lanes sound, whatever the audio is by then.
LEMMA RebuiltInv ==
  ASSUME LanesInv, order' \in Seq(TrackId), Tracks' \subseteq DOMAIN audio', TracksTyped(audio'),
         NEW cached, DOMAIN cached = View, Rebuilt(order', audio', cached),
         \A v \in View : /\ ViewTyped(tasks[v], <<>>, cached[v])
                         /\ QueueSound(tasks[v], audio', Over(v)')
                         /\ CacheSound(cached[v], audio', Over(v)')
  PROVE  LanesInv'
<1>1. /\ DOMAIN lanes' = View /\ DOMAIN tasks' = View /\ DOMAIN answers' = View
      /\ DOMAIN cache' = View
  BY DEF Rebuilt
<1>2. Tracks' = ToSet(order')
  BY DEF Tracks
<1>3. ASSUME NEW v \in View
      PROVE  ViewSound(lanes'[v], tasks'[v], answers'[v], cache'[v], audio', Tracks', Over(v)')
  <2>1. lanes'[v] = [id \in ToSet(order') |->
                       IF ShownAtOnce(v, id, audio', cached)
                       THEN Picture(cached[v][Key(id, audio'[id])])
                       ELSE Preparing]
    BY DEF Rebuilt
  <2>2. tasks'[v] = Outdated(tasks[v]) \o
          NewTasks(Unshown(order', {id \in ToSet(order') : ShownAtOnce(v, id, audio', cached)}))
    BY DEF Rebuilt
  <2>3. answers'[v] = <<>> /\ cache'[v] = cached[v]
    BY DEF Rebuilt
  <2>4. PICK ids, tracks, over, queue :
          ids = order' /\ tracks = audio' /\ over = Over(v)' /\ queue = tasks[v]
    OBVIOUS
  <2>5. /\ ids \in Seq(TrackId) /\ TracksTyped(tracks) /\ ToSet(ids) \subseteq DOMAIN tracks
        /\ ViewTyped(queue, <<>>, cached[v])
        /\ QueueSound(queue, tracks, over) /\ CacheSound(cached[v], tracks, over)
    BY <1>2, <2>4
  <2>6. ViewSound([id \in ToSet(ids) |->
                      IF ShownAtOnce(v, id, tracks, cached)
                      THEN Picture(cached[v][Key(id, tracks[id])])
                      ELSE Preparing],
                   Outdated(queue) \o
                     NewTasks(Unshown(ids, {id \in ToSet(ids) : ShownAtOnce(v, id, tracks, cached)})),
                   <<>>, cached[v], tracks, ToSet(ids), over)
    BY <2>5, RebuiltSound
  <2> QED BY <1>2, <2>1, <2>2, <2>3, <2>4, <2>6
<1> QED BY <1>1, <1>3 DEF LanesInv

LEMMA LanesExtended ==
  ASSUME LanesInv, order' \in Seq(TrackId), Tracks' \subseteq DOMAIN audio',
         Extends(audio, audio'), RebuildViews
  PROVE  LanesInv'
<1>1. Rebuilt(order', audio', cache) /\ overtaken' = overtaken /\ DOMAIN cache = View
  BY DEF RebuildViews, LanesInv
<1>2. TracksTyped(audio') /\ \A v : Over(v)' = Over(v)
  BY <1>1 DEF Extends, Over
<1>3. ASSUME NEW v \in View
      PROVE  /\ ViewTyped(tasks[v], <<>>, cache[v])
             /\ QueueSound(tasks[v], audio', Over(v)')
             /\ CacheSound(cache[v], audio', Over(v)')
  <2>1. ViewTyped(tasks[v], <<>>, cache[v])
    BY ViewOf, EmptySeq DEF ViewTyped
  <2>2. QueueSound(tasks[v], audio', Over(v)) /\ CacheSound(cache[v], audio', Over(v))
    BY ViewOf, ExtendedQueue, ExtendedCache
  <2> QED BY <1>2, <2>1, <2>2
<1> QED BY <1>1, <1>2, <1>3, RebuiltInv

LEMMA LanesEdited ==
  ASSUME LanesInv, order' \in Seq(TrackId), Tracks' \subseteq DOMAIN audio',
         NEW id \in TrackId, EditedAt(id, audio, audio'), RebuildEdited(id)
  PROVE  LanesInv'
<1>1. PICK cached : cached = [v \in View |-> Invalidated(cache[v], id)]
  OBVIOUS
<1>2. Rebuilt(order', audio', cached) /\ DOMAIN cached = View /\ TracksTyped(audio')
  BY <1>1 DEF RebuildEdited, EditedAt
<1>3. ASSUME NEW v \in View PROVE Over(v)' = OverAfter(Over(v), tasks[v], id)
  <2>1. overtaken' = {pair \in overtaken : pair[2] # id} \cup
                     {<<w, id>> : w \in {w \in View : Reads(w, id)}}
    BY DEF RebuildEdited
  <2>2. Reads(v, id) <=> HasRead(tasks[v], id)
    BY DEF Reads, Running, HasRead
  <2>3. ASSUME NEW t \in TrackId
        PROVE  <<v, t>> \in overtaken' <=>
                 ((t # id /\ <<v, t>> \in overtaken) \/ (t = id /\ Reads(v, id)))
    BY <2>1
  <2>4. Over(v)' = {t \in TrackId : <<v, t>> \in overtaken'}
    BY DEF Over
  <2> QED BY <2>2, <2>3, <2>4 DEF Over, OverAfter
<1>4. ASSUME NEW v \in View
      PROVE  /\ ViewTyped(tasks[v], <<>>, cached[v])
             /\ QueueSound(tasks[v], audio', Over(v)')
             /\ CacheSound(cached[v], audio', Over(v)')
  <2>1. cached[v] = Invalidated(cache[v], id)
    BY <1>1
  <2>2. ViewTyped(tasks[v], <<>>, cached[v])
    <3>1. /\ tasks[v] \in Seq(Task) /\ DOMAIN cache[v] \subseteq Keys
          /\ \A key \in DOMAIN cache[v] : cache[v][key] \in Seq(Nat)
      BY ViewOf
    <3>2. /\ DOMAIN cached[v] \subseteq DOMAIN cache[v]
          /\ \A key \in DOMAIN cached[v] : cached[v][key] = cache[v][key]
      BY <2>1 DEF Invalidated
    <3> QED BY <3>1, <3>2, EmptySeq DEF ViewTyped
  <2>3. tasks[v] \in Seq(Task) /\ QueueSound(tasks[v], audio, Over(v))
        /\ CacheSound(cache[v], audio, Over(v))
    BY ViewOf
  <2>4. QueueSound(tasks[v], audio', OverAfter(Over(v), tasks[v], id))
    BY <2>3, EditedQueue
  <2>5. CacheSound(Invalidated(cache[v], id), audio', OverAfter(Over(v), tasks[v], id))
    BY <2>3, EditedCache
  <2> QED BY <1>3, <2>1, <2>2, <2>4, <2>5
<1> QED BY <1>2, <1>4, RebuiltInv

\* The lanes show the audio.
LEMMA LanesShow ==
  ASSUME LanesInv, \A id \in Tracks : id \in TrackId
  PROVE  LanesShowAudio
<1>1. ASSUME NEW v \in View, NEW id \in Tracks
      PROVE  \/ \E i \in DOMAIN tasks[v] : tasks[v][i].track = id /\ tasks[v][i].latest
             \/ \E i \in DOMAIN answers[v] : answers[v][i].track = id
             \/ <<v, id>> \in overtaken
             \/ lanes[v][id] \in {Picture(PlaybackView(audio[id])), Failed}
  <2>1. CASE id \in Over(v)
    BY <2>1 DEF Over
  <2>2. CASE id \notin Over(v)
    <3>1. Awaited(tasks[v], answers[v], id) \/ lanes[v][id] \in Showing(audio, id)
      BY <2>2, ViewOf DEF ViewSound
    <3> QED BY <3>1 DEF Awaited, Showing, Present
  <2> QED BY <2>1, <2>2
<1> QED BY <1>1, Zenon DEF LanesShowAudio
-----------------------------------------------------------------------------
(* The spectra: jobs, results and tasks.                                        *)
LEMMA JobPart ==
  ASSUME NEW tracks, NEW id, NEW interval
  PROVE  /\ Wanted(id, tracks, interval).key[1] = id
         /\ Wanted(id, tracks, interval).samples =
              Part(tracks, Wanted(id, tracks, interval).key)
BY DEF Wanted, Job, Part

LEMMA JobType ==
  ASSUME NEW tracks, TracksTyped(tracks), NEW id \in DOMAIN tracks,
         NEW interval \in Nat \X Nat, NEW over
  PROVE  /\ Wanted(id, tracks, interval) \in Jobs
         /\ JobSound(Wanted(id, tracks, interval), tracks, over)
<1>1. PICK samples \in Seq(Nat) : samples = PlaybackView(tracks[id])
  BY PresentType
<1>2. id \in TrackId /\ tracks[id].first \in Nat /\ tracks[id].last \in Nat
  BY PresentType DEF SoundTrack
<1>3. Len(samples) \in Nat /\ interval[1] \in Nat /\ interval[2] \in Nat
  BY LenProperties
<1>4. PICK first, last : first = Least(Len(samples), interval[1])
                         /\ last = Least(Len(samples), Greatest(first + 1, interval[2]))
  OBVIOUS
<1>5. first \in Nat /\ last \in Nat /\ first <= Len(samples) /\ last <= Len(samples)
  BY <1>3, <1>4 DEF Least, Greatest
<1>6. SubSeq(samples, first + 1, last) \in Seq(Nat)
  BY <1>3, <1>5, SubSeqProperties
<1>7. Wanted(id, tracks, interval) =
        [key |-> <<id, first, last, tracks[id].first, tracks[id].last>>,
         samples |-> SubSeq(samples, first + 1, last)]
  BY <1>1, <1>4 DEF Wanted, Job
<1>8. Wanted(id, tracks, interval) \in Jobs
  <2>1. PICK key \in SpectrumKeys :
          key = <<id, first, last, tracks[id].first, tracks[id].last>>
    BY <1>2, <1>5 DEF SpectrumKeys
  <2>2. PICK part \in Seq(Nat) : part = SubSeq(samples, first + 1, last)
    BY <1>6
  <2>3. Wanted(id, tracks, interval) = [key |-> key, samples |-> part]
    BY <1>7, <2>1, <2>2
  <2> QED BY <2>3 DEF Jobs
<1> QED BY <1>8, JobPart DEF JobSound

\* The results of a task by track.
LEMMA NoResults == <<>> \in Results /\ DOMAIN <<>> = {}
<1>1. <<>> \in [1 .. 0 -> Seq(Nat)] /\ 1 .. 0 = {}
  BY EmptySeq, LenProperties
<1> QED BY <1>1 DEF Results

LEMMA KeptResults ==
  ASSUME NEW results \in Results, NEW id \in TrackId, NEW spectrum \in Seq(Nat)
  PROVE  Kept(results, id, spectrum) \in Results
<1>1. PICK ids \in SUBSET TrackId : results \in [ids -> Seq(Nat)]
  BY DEF Results
<1>2. Kept(results, id, spectrum) \in [ids \cup {id} -> Seq(Nat)]
  BY <1>1 DEF Kept
<1>3. ids \cup {id} \in SUBSET TrackId
  BY <1>1
<1> QED BY <1>2, <1>3 DEF Results

\* Outdated tasks keep their jobs.
LEMMA OutdatedSpectra ==
  ASSUME NEW queue \in Seq(SpectrumTask)
  PROVE  /\ Outdated(queue) \in Seq(SpectrumTask) /\ Len(Outdated(queue)) = Len(queue)
         /\ \A i \in 1 .. Len(queue) :
              Outdated(queue)[i].jobs = queue[i].jobs /\ ~Outdated(queue)[i].latest
<1>1. PICK n \in Nat : n = Len(queue) /\ DOMAIN queue = 1 .. n
  BY LenProperties
<1>2. PICK old : /\ old = [i \in 1 .. n |-> [queue[i] EXCEPT !.latest = FALSE]]
                 /\ old = Outdated(queue)
  BY <1>1 DEF Outdated
<1>3. ASSUME NEW i \in 1 .. n
      PROVE  old[i] \in SpectrumTask /\ old[i].jobs = queue[i].jobs /\ ~old[i].latest
  <2>1. queue[i] \in SpectrumTask /\ old[i] = [queue[i] EXCEPT !.latest = FALSE]
    BY <1>1, <1>2, ElementOfSeq
  <2> QED BY <2>1 DEF SpectrumTask
<1>4. old \in [1 .. n -> SpectrumTask]
  BY <1>2, <1>3
<1>5. old \in Seq(SpectrumTask) /\ Len(old) = n
  BY <1>4, SeqDef, LenProperties
<1> QED BY <1>1, <1>2, <1>3, <1>5

(* Which frames are analysed: some, when there are tracks.                      *)
LEMMA IntervalType ==
  ASSUME NEW total \in Nat, NEW selection, Repeats(selection, total), NEW at \in 0 .. total
  PROVE  /\ AnalyzedInterval(selection, at, total) \in Nat \X Nat
         /\ total # 0 => AnalyzedInterval(selection, at, total)[1] <
                         AnalyzedInterval(selection, at, total)[2]
<1>1. HalfWindow \in Nat \ {0}
  BY HalfWindowAssumption
<1>2. PICK interval : interval = AnalyzedInterval(selection, at, total)
  OBVIOUS
<1>3. PICK start, end : /\ start = Greatest(0, at - HalfWindow)
                        /\ end = Least(total, at + HalfWindow)
  OBVIOUS
<1>4. start \in Nat /\ end \in Nat /\ (total # 0 => start < end)
  BY <1>1, <1>3 DEF Least, Greatest
<1>5. interval = IF selection # None THEN selection
                 ELSE IF start < end THEN <<start, end>>
                 ELSE <<start, Least(total, start + 2 * HalfWindow)>>
  BY <1>2, <1>3 DEF AnalyzedInterval
<1>6. CASE selection # None
  BY <1>2, <1>5, <1>6 DEF Repeats, Region
<1>7. CASE selection = None /\ start < end
  BY <1>2, <1>4, <1>5, <1>7
<1>8. CASE selection = None /\ ~(start < end)
  <2>1. PICK last \in Nat : last = Least(total, start + 2 * HalfWindow)
    BY <1>1, <1>4 DEF Least
  <2>2. interval = <<start, last>> /\ total = 0
    BY <1>4, <1>5, <1>8, <2>1
  <2> QED BY <1>2, <1>4, <2>2
<1> QED BY <1>6, <1>7, <1>8

(* What a change of the audio leaves of jobs and cached spectra.                *)
LEMMA ExtendedPool ==
  ASSUME NEW tracks, NEW more, Extends(tracks, more), NEW queue, NEW cached, NEW over,
         PoolSound(queue, cached, tracks, over)
  PROVE  PoolSound(queue, cached, more, over)
<1>1. JobsSound(queue, more, over)
  <2> SUFFICES ASSUME NEW i \in DOMAIN queue
               PROVE  /\ queue[i].jobs # <<>>
                      /\ \A k \in DOMAIN queue[i].jobs : JobSound(queue[i].jobs[k], more, over)
    BY DEF JobsSound
  <2>1. \A k \in DOMAIN queue[i].jobs : JobSound(queue[i].jobs[k], tracks, over)
    BY DEF PoolSound, JobsSound
  <2>2. ASSUME NEW job, JobSound(job, tracks, over) PROVE JobSound(job, more, over)
    <3>1. job.key[1] \in DOMAIN more /\ more[job.key[1]] = tracks[job.key[1]]
      BY <2>2 DEF JobSound, Extends
    <3> QED BY <2>2, <3>1 DEF JobSound, Part
  <2> QED BY <2>1, <2>2 DEF PoolSound, JobsSound
<1>2. ASSUME NEW key \in DOMAIN cached
      PROVE  /\ key[1] \in DOMAIN more /\ cached[key] \in Seq(Nat)
             /\ key[1] \notin over => cached[key] = Part(more, key)
  <2>1. /\ key[1] \in DOMAIN tracks /\ cached[key] \in Seq(Nat)
        /\ key[1] \notin over => cached[key] = Part(tracks, key)
    BY DEF PoolSound, SpectraCacheSound
  <2>2. key[1] \in DOMAIN more /\ more[key[1]] = tracks[key[1]]
    BY <2>1 DEF Extends
  <2> QED BY <2>1, <2>2 DEF Part
<1> QED BY <1>1, <1>2 DEF PoolSound, SpectraCacheSound

\* A task has a job of the track.
Held(queue, id) ==
  \E i \in DOMAIN queue : \E k \in DOMAIN queue[i].jobs : queue[i].jobs[k].key[1] = id

HeldAfter(over, queue, id) == (over \ {id}) \cup (IF Held(queue, id) THEN {id} ELSE {})

\* After an edit, tasks with jobs of the track count as overtaken.
LEMMA EditedPool ==
  ASSUME NEW tracks, NEW more, NEW id, EditedAt(id, tracks, more),
         NEW queue, NEW cached, NEW over, PoolSound(queue, cached, tracks, over)
  PROVE  PoolSound(queue, Invalidated(cached, id), more, HeldAfter(over, queue, id))
<1>1. PICK after : after = HeldAfter(over, queue, id)
  OBVIOUS
<1>2. (\A t : t # id => (t \in after <=> t \in over)) /\ (Held(queue, id) => id \in after)
  BY <1>1 DEF HeldAfter
<1>3. PICK left : left = Invalidated(cached, id)
  OBVIOUS
<1>4. /\ DOMAIN left = {key \in DOMAIN cached : key[1] # id}
      /\ \A key \in DOMAIN left : left[key] = cached[key]
  BY <1>3 DEF Invalidated
<1>5. \A t \in DOMAIN tracks : t \in DOMAIN more /\ (t # id => more[t] = tracks[t])
  BY DEF EditedAt
<1>6. ASSUME NEW i \in DOMAIN queue, NEW k \in DOMAIN queue[i].jobs
      PROVE  JobSound(queue[i].jobs[k], more, after)
  <2>1. PICK job : job = queue[i].jobs[k] /\ JobSound(job, tracks, over)
    BY DEF PoolSound, JobsSound
  <2>2. CASE job.key[1] = id
    <3>1. Held(queue, id)
      BY <2>1, <2>2 DEF Held
    <3> QED BY <1>2, <1>5, <2>1, <2>2, <3>1 DEF JobSound
  <2>3. CASE job.key[1] # id
    <3>1. more[job.key[1]] = tracks[job.key[1]] /\ job.key[1] \in DOMAIN more
      BY <1>5, <2>1, <2>3 DEF JobSound
    <3>2. job.key[1] \notin after => job.samples = Part(tracks, job.key)
      BY <1>2, <2>1, <2>3 DEF JobSound
    <3>3. Part(more, job.key) = Part(tracks, job.key)
      BY <3>1 DEF Part
    <3> QED BY <2>1, <3>1, <3>2, <3>3 DEF JobSound
  <2> QED BY <2>2, <2>3
<1>7. JobsSound(queue, more, after)
  BY <1>6 DEF PoolSound, JobsSound
<1>8. ASSUME NEW key \in DOMAIN left
      PROVE  /\ key[1] \in DOMAIN more /\ left[key] \in Seq(Nat)
             /\ key[1] \notin after => left[key] = Part(more, key)
  <2>1. /\ key[1] \in DOMAIN tracks /\ cached[key] \in Seq(Nat)
        /\ key[1] \notin over => cached[key] = Part(tracks, key)
    BY <1>4 DEF PoolSound, SpectraCacheSound
  <2>2. key[1] # id /\ left[key] = cached[key]
    BY <1>4
  <2>3. key[1] \in DOMAIN more /\ more[key[1]] = tracks[key[1]]
    BY <1>5, <2>1, <2>2
  <2>4. Part(more, key) = Part(tracks, key)
    BY <2>3 DEF Part
  <2> QED BY <1>2, <2>1, <2>2, <2>3, <2>4
<1>9. PoolSound(queue, left, more, after)
  BY <1>7, <1>8 DEF PoolSound, SpectraCacheSound
<1> QED BY <1>1, <1>3, <1>9

-----------------------------------------------------------------------------
(* A refresh: older tasks are outdated, and a new one has a job for every track. *)
Refreshed(ids, tracks, interval) ==
  [jobs |-> [i \in DOMAIN ids |-> Wanted(ids[i], tracks, interval)],
   latest |-> TRUE, computing |-> FALSE, results |-> <<>>]

LEMMA RefreshedType ==
  ASSUME NEW ids \in Seq(TrackId), ids # <<>>, NEW tracks, TracksTyped(tracks),
         ToSet(ids) \subseteq DOMAIN tracks, NEW interval \in Nat \X Nat, NEW over
  PROVE  /\ Refreshed(ids, tracks, interval) \in SpectrumTask
         /\ Refreshed(ids, tracks, interval).jobs # <<>>
         /\ \A k \in DOMAIN Refreshed(ids, tracks, interval).jobs :
              JobSound(Refreshed(ids, tracks, interval).jobs[k], tracks, over)
         /\ Refreshed(ids, tracks, interval).latest
         /\ LatestSound(Refreshed(ids, tracks, interval), tracks, ToSet(ids), interval, over)
<1>1. PICK n \in Nat : n = Len(ids) /\ DOMAIN ids = 1 .. n /\ n # 0
  BY LenProperties, EmptySeq
<1>2. \A i \in 1 .. n : ids[i] \in DOMAIN tracks
  BY <1>1 DEF ToSet
<1>3. PICK jobs : jobs = [i \in 1 .. n |-> Wanted(ids[i], tracks, interval)]
  OBVIOUS
<1>4. \A i \in 1 .. n : /\ jobs[i] \in Jobs /\ JobSound(jobs[i], tracks, over)
                        /\ jobs[i] = Wanted(ids[i], tracks, interval) /\ jobs[i].key[1] = ids[i]
  BY <1>2, <1>3, JobType, JobPart
<1>5. jobs \in [1 .. n -> Jobs]
  BY <1>3, <1>4
<1>6. jobs \in Seq(Jobs) /\ Len(jobs) = n /\ DOMAIN jobs = 1 .. n
  BY <1>5, SeqDef, LenProperties
<1>7. jobs # <<>>
  BY <1>1, <1>6, EmptySeq
<1>8. PICK task : /\ task = [jobs |-> jobs, latest |-> TRUE, computing |-> FALSE, results |-> <<>>]
                  /\ task = Refreshed(ids, tracks, interval)
  BY <1>1, <1>3 DEF Refreshed
<1>9. task \in SpectrumTask
  BY <1>6, <1>8, NoResults DEF SpectrumTask
<1>10. task.jobs = jobs /\ task.latest /\ task.results = <<>>
  BY <1>8
<1>11. LatestSound(task, tracks, ToSet(ids), interval, over)
  <2>1. \A k \in DOMAIN jobs : jobs[k] = Wanted(jobs[k].key[1], tracks, interval)
    BY <1>4, <1>6
  <2>2. \A id \in ToSet(ids) : \E k \in DOMAIN jobs : jobs[k].key[1] = id
    BY <1>1, <1>4, <1>6 DEF ToSet
  <2>3. DOMAIN task.results = {}
    BY <1>10, NoResults
  <2> QED BY <1>10, <2>1, <2>2, <2>3 DEF LatestSound
<1> QED BY <1>4, <1>6, <1>7, <1>8, <1>9, <1>10, <1>11

LEMMA RefreshSound ==
  ASSUME NEW ids \in Seq(TrackId), NEW tracks, TracksTyped(tracks),
         ToSet(ids) \subseteq DOMAIN tracks, NEW interval \in Nat \X Nat,
         NEW queue, NEW cached, NEW over, PoolSound(queue, cached, tracks, over),
         NEW next, next = Outdated(queue) \o
           IF ids = <<>> THEN <<>> ELSE <<Refreshed(ids, tracks, interval)>>,
         NEW shown, ids = <<>> => shown = Nothing
  PROVE  /\ PoolSound(next, cached, tracks, over)
         /\ TabSound(next, <<>>, shown, tracks, ToSet(ids), interval, over)
<1>1. queue \in Seq(SpectrumTask) /\ JobsSound(queue, tracks, over)
  BY DEF PoolSound
<1>2. PICK m \in Nat : m = Len(queue) /\ DOMAIN queue = 1 .. m
  BY <1>1, LenProperties
<1>3. PICK old \in Seq(SpectrumTask) :
        /\ old = Outdated(queue) /\ Len(old) = m /\ DOMAIN old = 1 .. m
        /\ \A i \in 1 .. m : old[i].jobs = queue[i].jobs /\ ~old[i].latest
  BY <1>1, <1>2, OutdatedSpectra, LenProperties
<1>5. JobsSound(old, tracks, over)
  BY <1>1, <1>2, <1>3 DEF JobsSound
<1>6. CASE ids = <<>>
  <2>1. next = old /\ shown = Nothing
    BY <1>3, <1>6, ConcatEmptySeq
  <2>2. ToSet(ids) = {}
    BY <1>6, SetOfTracks
  <2>3. TabSound(old, <<>>, Nothing, tracks, ToSet(ids), interval, over)
    BY <1>3, <2>2 DEF TabSound
  <2> QED BY <1>5, <2>1, <2>3 DEF PoolSound
<1>7. CASE ids # <<>>
  <2>1. PICK task \in SpectrumTask :
          /\ task = Refreshed(ids, tracks, interval) /\ task.jobs # <<>> /\ task.latest
          /\ \A k \in DOMAIN task.jobs : JobSound(task.jobs[k], tracks, over)
          /\ LatestSound(task, tracks, ToSet(ids), interval, over)
    BY <1>7, RefreshedType
  <2>2. next = Append(old, task)
    <3>1. next = old \o <<task>>
      BY <1>3, <1>7, <2>1
    <3> QED BY <3>1, AppendIsConcat
  <2>3. /\ next \in Seq(SpectrumTask) /\ Len(next) = m + 1
        /\ \A i \in 1 .. m : next[i] = old[i]
        /\ next[m + 1] = task
    BY <1>3, <2>2, AppendProperties
  <2>4. DOMAIN next = 1 .. m + 1
    BY <2>3, LenProperties
  <2>5. JobsSound(next, tracks, over)
    <3> SUFFICES ASSUME NEW i \in 1 .. m + 1
                 PROVE  /\ next[i].jobs # <<>>
                        /\ \A k \in DOMAIN next[i].jobs : JobSound(next[i].jobs[k], tracks, over)
      BY <2>4 DEF JobsSound
    <3>1. CASE i = m + 1
      BY <2>1, <2>3, <3>1
    <3>2. CASE i \in 1 .. m
      BY <1>3, <1>5, <2>3, <3>2 DEF JobsSound
    <3>3. i = m + 1 \/ i \in 1 .. m
      BY <1>2
    <3> QED BY <3>1, <3>2, <3>3
  <2>6. \A i \in 1 .. m + 1 : next[i].latest =>
          LatestSound(next[i], tracks, ToSet(ids), interval, over)
    <3> SUFFICES ASSUME NEW i \in 1 .. m + 1, next[i].latest
                 PROVE  LatestSound(next[i], tracks, ToSet(ids), interval, over)
      OBVIOUS
    <3>1. i = m + 1
      BY <1>2, <1>3, <2>3
    <3> QED BY <2>1, <2>3, <3>1
  <2>7. \E i \in DOMAIN next : next[i].latest
    <3>1. m + 1 \in DOMAIN next
      BY <1>2, <2>4
    <3> QED BY <2>1, <2>3, <3>1
  <2>8. TabSound(next, <<>>, shown, tracks, ToSet(ids), interval, over)
    BY <2>4, <2>6, <2>7 DEF TabSound
  <2> QED BY <2>3, <2>5, <2>8 DEF PoolSound
<1> QED BY <1>6, <1>7

-----------------------------------------------------------------------------
(* The task of the spectra.                                                     *)
LEMMA FirstSpectrum ==
  ASSUME NEW queue \in Seq(SpectrumTask), queue # <<>>, NEW tracks, NEW over,
         JobsSound(queue, tracks, over)
  PROVE  /\ Head(queue) = queue[1] /\ Head(queue) \in SpectrumTask
         /\ DOMAIN queue = 1 .. Len(queue) /\ Len(queue) \in Nat \ {0}
         /\ Head(queue).jobs # <<>> /\ Head(queue).jobs \in Seq(Jobs)
         /\ Head(queue).results \in Results
         /\ \A k \in DOMAIN Head(queue).jobs : JobSound(Head(queue).jobs[k], tracks, over)
<1>1. DOMAIN queue = 1 .. Len(queue) /\ Len(queue) \in Nat \ {0}
  BY LenProperties, EmptySeq
<1>2. Head(queue) \in SpectrumTask /\ Head(queue) = queue[1]
  BY HeadTailProperties
<1>3. Head(queue).jobs \in Seq(Jobs) /\ Head(queue).results \in Results
  BY <1>2 DEF SpectrumTask
<1> QED BY <1>1, <1>2, <1>3 DEF JobsSound

(* The first task ends: what it shows is right if it is the latest.             *)
LEMMA SpectraEnd ==
  ASSUME NEW queue, queue # <<>>, NEW cached, NEW tracks, NEW over,
         PoolSound(queue, cached, tracks, over)
  PROVE  /\ PoolSound(Tail(queue), cached, tracks, over)
         /\ \A signal, shown, ids, interval, x :
              /\ TabSound(queue, signal, shown, tracks, ids, interval, over)
              /\ Head(queue).latest => SpectraSound(x, tracks, ids, interval, over)
              => TabSound(Tail(queue), IF Head(queue).latest THEN <<x>> ELSE signal,
                          shown, tracks, ids, interval, over)
<1>1. queue \in Seq(SpectrumTask) /\ JobsSound(queue, tracks, over)
  BY DEF PoolSound
<1>2. PICK m \in Nat : Len(queue) = m + 1 /\ DOMAIN queue = 1 .. m + 1
  <2>1. DOMAIN queue = 1 .. Len(queue) /\ Len(queue) \in Nat \ {0}
    BY <1>1, FirstSpectrum
  <2>2. PICK m : m = Len(queue) - 1
    OBVIOUS
  <2>3. m \in Nat /\ Len(queue) = m + 1
    BY <2>1, <2>2
  <2> QED BY <2>1, <2>3
<1>3. PICK rest : rest = Tail(queue)
  OBVIOUS
<1>4. /\ rest \in Seq(SpectrumTask) /\ Len(rest) = m /\ DOMAIN rest = 1 .. m
      /\ \A i \in 1 .. m : rest[i] = queue[i + 1]
  BY <1>1, <1>2, <1>3, HeadTailProperties, LenProperties
<1>5. PICK task : task = Head(queue) /\ task = queue[1]
  BY <1>1, FirstSpectrum
<1>6. \A i \in 1 .. m : i + 1 \in DOMAIN queue /\ rest[i] = queue[i + 1]
  BY <1>2, <1>4
<1>7. \A i \in DOMAIN queue : i = 1 \/ \E k \in DOMAIN rest : rest[k] = queue[i]
  <2> SUFFICES ASSUME NEW i \in 1 .. m + 1, i # 1
               PROVE  \E k \in 1 .. m : rest[k] = queue[i]
    BY <1>2, <1>4
  <2>1. i - 1 \in 1 .. m /\ (i - 1) + 1 = i
    OBVIOUS
  <2>2. rest[i - 1] = queue[i]
    BY <1>4, <2>1
  <2> QED BY <2>1, <2>2
<1>8. JobsSound(rest, tracks, over)
  BY <1>1, <1>4, <1>6 DEF JobsSound
<1>9. ASSUME NEW signal, NEW shown, NEW ids, NEW interval, NEW x,
             TabSound(queue, signal, shown, tracks, ids, interval, over),
             task.latest => SpectraSound(x, tracks, ids, interval, over)
      PROVE  TabSound(rest, IF task.latest THEN <<x>> ELSE signal,
                      shown, tracks, ids, interval, over)
  <2>1. \A i \in DOMAIN rest :
          rest[i].latest => LatestSound(rest[i], tracks, ids, interval, over)
    BY <1>4, <1>6, <1>9 DEF TabSound
  <2>2. CASE task.latest
    <3>1. <<x>> # <<>> /\ Head(<<x>>) = x
      OBVIOUS
    <3>2. TabSound(rest, <<x>>, shown, tracks, ids, interval, over)
      BY <1>9, <2>1, <2>2, <3>1 DEF TabSound
    <3> QED BY <2>2, <3>2
  <2>3. CASE ~task.latest
    <3>1. (\E i \in DOMAIN queue : queue[i].latest) => \E k \in DOMAIN rest : rest[k].latest
      BY <1>5, <1>7, <2>3
    <3>2. TabSound(rest, signal, shown, tracks, ids, interval, over)
      BY <1>9, <2>1, <3>1 DEF TabSound
    <3> QED BY <2>3, <3>2
  <2> QED BY <2>2, <2>3
<1>10. PoolSound(rest, cached, tracks, over)
  BY <1>4, <1>8 DEF PoolSound
<1> QED BY <1>3, <1>5, <1>9, <1>10

\* A result keeps the task sound, and moves its track from the jobs to the results.
LEMMA WithResultSound ==
  ASSUME NEW task \in SpectrumTask, task.jobs # <<>>, NEW tracks, NEW over,
         \A k \in DOMAIN task.jobs : JobSound(task.jobs[k], tracks, over),
         NEW spectrum \in Seq(Nat),
         Head(task.jobs).key[1] \notin over => spectrum = Part(tracks, Head(task.jobs).key)
  PROVE  /\ WithResult(task, spectrum) \in SpectrumTask
         /\ WithResult(task, spectrum).jobs = Tail(task.jobs)
         /\ WithResult(task, spectrum).latest = task.latest
         /\ WithResult(task, spectrum).results =
              Kept(task.results, Head(task.jobs).key[1], spectrum)
         /\ \A k \in DOMAIN Tail(task.jobs) : JobSound(Tail(task.jobs)[k], tracks, over)
         /\ \A ids, interval :
              LatestSound(task, tracks, ids, interval, over) =>
                LatestSound(WithResult(task, spectrum), tracks, ids, interval, over)
<1>1. PICK jobs \in Seq(Jobs) : jobs = task.jobs
  BY DEF SpectrumTask
<1>2. PICK m \in Nat : Len(jobs) = m + 1 /\ DOMAIN jobs = 1 .. m + 1
  <2>1. DOMAIN jobs = 1 .. Len(jobs) /\ Len(jobs) \in Nat \ {0}
    BY <1>1, LenProperties, EmptySeq
  <2>2. PICK m : m = Len(jobs) - 1
    OBVIOUS
  <2>3. m \in Nat /\ Len(jobs) = m + 1
    BY <2>1, <2>2
  <2> QED BY <2>1, <2>3
<1>3. PICK rest : rest = Tail(jobs)
  OBVIOUS
<1>4. /\ rest \in Seq(Jobs) /\ Len(rest) = m /\ DOMAIN rest = 1 .. m
      /\ \A i \in 1 .. m : rest[i] = jobs[i + 1]
  BY <1>1, <1>2, <1>3, HeadTailProperties, LenProperties
<1>5. PICK job \in Jobs : job = Head(jobs) /\ job = jobs[1]
  BY <1>1, HeadTailProperties
<1>6. PICK id \in TrackId : id = job.key[1]
  BY DEF Jobs, SpectrumKeys
<1>7. PICK before \in Results : before = task.results
  BY DEF SpectrumTask
<1>8. PICK results \in Results : results = Kept(before, id, spectrum)
  BY KeptResults
<1>9. PICK after : after = WithResult(task, spectrum)
  OBVIOUS
<1>10. after = [task EXCEPT !.jobs = rest, !.results = results, !.computing = FALSE]
  BY <1>1, <1>3, <1>5, <1>6, <1>7, <1>8, <1>9, Zenon DEF WithResult
<1>11. /\ after \in SpectrumTask /\ after.jobs = rest /\ after.latest = task.latest
       /\ after.results = results
  BY <1>4, <1>10 DEF SpectrumTask
<1>12. \A k \in DOMAIN rest : k + 1 \in DOMAIN jobs /\ rest[k] = jobs[k + 1]
  BY <1>2, <1>4
<1>13. \A k \in DOMAIN jobs : k = 1 \/ \E j \in DOMAIN rest : rest[j] = jobs[k]
  <2> SUFFICES ASSUME NEW k \in 1 .. m + 1, k # 1
               PROVE  \E j \in 1 .. m : rest[j] = jobs[k]
    BY <1>2, <1>4
  <2>1. k - 1 \in 1 .. m /\ (k - 1) + 1 = k
    OBVIOUS
  <2>2. rest[k - 1] = jobs[k]
    BY <1>4, <2>1
  <2> QED BY <2>1, <2>2
<1>14. \A k \in DOMAIN rest : JobSound(rest[k], tracks, over)
  BY <1>1, <1>12
<1>15. /\ DOMAIN results = DOMAIN before \cup {id}
       /\ \A t \in DOMAIN before : results[t] = before[t]
       /\ id \notin DOMAIN before => results[id] = spectrum
  BY <1>8 DEF Kept
<1>16. ASSUME NEW ids, NEW interval, LatestSound(task, tracks, ids, interval, over)
       PROVE  LatestSound(after, tracks, ids, interval, over)
  <2>1. \A k \in DOMAIN jobs : jobs[k] = Wanted(jobs[k].key[1], tracks, interval)
    BY <1>1, <1>16 DEF LatestSound
  <2>2. 1 \in DOMAIN jobs
    BY <1>2
  <2>3. job = Wanted(id, tracks, interval)
    BY <1>5, <1>6, <2>1, <2>2
  <2>4. \A k \in DOMAIN rest : rest[k] = Wanted(rest[k].key[1], tracks, interval)
    BY <1>12, <2>1
  <2>5. ASSUME NEW t \in ids
        PROVE  t \in DOMAIN results \/ \E k \in DOMAIN rest : rest[k].key[1] = t
    <3>1. CASE t \in DOMAIN before
      BY <1>15, <3>1
    <3>2. CASE \E k \in DOMAIN jobs : jobs[k].key[1] = t
      <4>1. PICK k \in DOMAIN jobs : jobs[k].key[1] = t
        BY <3>2
      <4>2. CASE k = 1
        BY <1>5, <1>6, <1>15, <4>1, <4>2
      <4>3. CASE k # 1
        BY <1>13, <4>1, <4>3
      <4> QED BY <4>2, <4>3
    <3> QED BY <1>1, <1>7, <1>16, <3>1, <3>2 DEF LatestSound
  <2>6. ASSUME NEW t \in DOMAIN results \ over
        PROVE  results[t] = Wanted(t, tracks, interval).samples
    <3>1. CASE t \in DOMAIN before
      BY <1>7, <1>15, <1>16, <3>1 DEF LatestSound
    <3>2. CASE t \notin DOMAIN before
      <4>1. t = id /\ results[t] = spectrum
        BY <1>15, <3>2
      <4>2. spectrum = Part(tracks, job.key)
        BY <1>1, <1>5, <1>6, <4>1
      <4>3. Wanted(id, tracks, interval).samples = Part(tracks, Wanted(id, tracks, interval).key)
        BY JobPart
      <4> QED BY <2>3, <4>1, <4>2, <4>3
    <3> QED BY <3>1, <3>2
  <2> QED BY <1>11, <2>4, <2>5, <2>6 DEF LatestSound
<1> QED BY <1>1, <1>3, <1>5, <1>6, <1>7, <1>8, <1>9, <1>11, <1>14, <1>16

\* The first task of the pool goes on.
LEMMA SpectraGoOn ==
  ASSUME NEW queue, queue # <<>>, NEW cached, NEW tracks, NEW over,
         PoolSound(queue, cached, tracks, over),
         NEW task \in SpectrumTask, task.jobs # <<>>, task.latest = Head(queue).latest,
         \A k \in DOMAIN task.jobs : JobSound(task.jobs[k], tracks, over),
         \A ids, interval :
           LatestSound(Head(queue), tracks, ids, interval, over) =>
             LatestSound(task, tracks, ids, interval, over)
  PROVE  /\ PoolSound([queue EXCEPT ![1] = task], cached, tracks, over)
         /\ \A signal, shown, ids, interval :
              TabSound(queue, signal, shown, tracks, ids, interval, over) =>
                TabSound([queue EXCEPT ![1] = task], signal, shown, tracks, ids, interval, over)
<1>1. queue \in Seq(SpectrumTask) /\ JobsSound(queue, tracks, over)
  BY DEF PoolSound
<1>2. DOMAIN queue = 1 .. Len(queue) /\ Len(queue) \in Nat \ {0} /\ Head(queue) = queue[1]
  BY <1>1, FirstSpectrum
<1>3. PICK next : next = [queue EXCEPT ![1] = task]
  OBVIOUS
<1>4. /\ next \in Seq(SpectrumTask) /\ DOMAIN next = DOMAIN queue /\ next[1] = task
      /\ \A i \in DOMAIN queue : i # 1 => next[i] = queue[i]
  BY <1>1, <1>2, <1>3
<1>5. JobsSound(next, tracks, over)
  BY <1>1, <1>4 DEF JobsSound
<1>6. ASSUME NEW signal, NEW shown, NEW ids, NEW interval,
             TabSound(queue, signal, shown, tracks, ids, interval, over)
      PROVE  TabSound(next, signal, shown, tracks, ids, interval, over)
  <2>1. ASSUME NEW i \in DOMAIN next, next[i].latest
        PROVE  LatestSound(next[i], tracks, ids, interval, over)
    <3>1. queue[i].latest => LatestSound(queue[i], tracks, ids, interval, over)
      BY <1>4, <1>6, <2>1 DEF TabSound
    <3>2. CASE i = 1
      BY <1>2, <1>4, <2>1, <3>1, <3>2
    <3>3. CASE i # 1
      BY <1>4, <2>1, <3>1, <3>3
    <3> QED BY <3>2, <3>3
  <2>2. (\E i \in DOMAIN queue : queue[i].latest) => \E i \in DOMAIN next : next[i].latest
    BY <1>2, <1>4
  <2> QED BY <1>6, <2>1, <2>2 DEF TabSound
<1>7. PoolSound(next, cached, tracks, over)
  BY <1>4, <1>5 DEF PoolSound
<1> QED BY <1>3, <1>6, <1>7

-----------------------------------------------------------------------------
(* The steps of the task and its answer keep what the tab shows.                *)
LEMMA SpectraFollow ==
  ASSUME SpectraInv, UNCHANGED <<tab, region, order, audio, overtakenSpectra>>,
         PoolSound(spectrumTasks', spectrumCache', audio, overtakenSpectra),
         \A ids, interval :
           TabSound(spectrumTasks, spectrumAnswer, spectra, audio, ids, interval,
                    overtakenSpectra) =>
             TabSound(spectrumTasks', spectrumAnswer', spectra', audio, ids, interval,
                      overtakenSpectra)
  PROVE  SpectraInv'
<1>1. /\ tab' = tab /\ region' = region /\ audio' = audio /\ Tracks' = Tracks
      /\ overtakenSpectra' = overtakenSpectra
  BY DEF Tracks
<1>2. tab = "fourier" =>
        TabSound(spectrumTasks', spectrumAnswer', spectra', audio, Tracks, region,
                 overtakenSpectra)
  BY DEF SpectraInv
<1> QED BY <1>1, <1>2 DEF SpectraInv

\* The task ends, or goes on to its next job.
LEMMA EndSpectraInv ==
  ASSUME SpectraInv, spectrumTasks # <<>>, NEW x, EndSpectra(x),
         UNCHANGED <<tab, region, order, audio, overtakenSpectra, spectra>>,
         PoolSound(spectrumTasks, spectrumCache', audio, overtakenSpectra),
         \A ids, interval :
           Worked.latest /\ LatestSound(Worked, audio, ids, interval, overtakenSpectra) =>
             SpectraSound(x, audio, ids, interval, overtakenSpectra)
  PROVE  SpectraInv'
<1>1. PoolSound(spectrumTasks', spectrumCache', audio, overtakenSpectra)
  BY SpectraEnd DEF EndSpectra
<1>2. Worked = Head(spectrumTasks) /\ Worked = spectrumTasks[1] /\ 1 \in DOMAIN spectrumTasks
  <2>1. spectrumTasks \in Seq(SpectrumTask) /\ JobsSound(spectrumTasks, audio, overtakenSpectra)
    BY DEF SpectraInv, PoolSound
  <2> QED BY <2>1, FirstSpectrum DEF Worked
<1>3. ASSUME NEW ids, NEW interval,
             TabSound(spectrumTasks, spectrumAnswer, spectra, audio, ids, interval,
                      overtakenSpectra)
      PROVE  TabSound(spectrumTasks', spectrumAnswer', spectra', audio, ids, interval,
                      overtakenSpectra)
  <2>1. Worked.latest => SpectraSound(x, audio, ids, interval, overtakenSpectra)
    BY <1>2, <1>3 DEF TabSound
  <2>2. TabSound(Tail(spectrumTasks), IF Head(spectrumTasks).latest THEN <<x>> ELSE spectrumAnswer,
                 spectra, audio, ids, interval, overtakenSpectra)
    BY <1>2, <1>3, <2>1, SpectraEnd DEF SpectraInv
  <2> QED BY <1>2, <2>2 DEF EndSpectra
<1> QED BY <1>1, <1>3, SpectraFollow

LEMMA SpectraStepOn ==
  ASSUME SpectraInv, spectrumTasks # <<>>,
         NEW task \in SpectrumTask, task.jobs # <<>>, task.latest = Worked.latest,
         \A k \in DOMAIN task.jobs : JobSound(task.jobs[k], audio, overtakenSpectra),
         \A ids, interval :
           LatestSound(Worked, audio, ids, interval, overtakenSpectra) =>
             LatestSound(task, audio, ids, interval, overtakenSpectra),
         spectrumTasks' = [spectrumTasks EXCEPT ![1] = task],
         PoolSound(spectrumTasks, spectrumCache', audio, overtakenSpectra),
         UNCHANGED <<tab, region, order, audio, overtakenSpectra, spectra, spectrumAnswer>>
  PROVE  SpectraInv'
<1>1. Worked = Head(spectrumTasks)
  BY DEF Worked
<1>2. PoolSound(spectrumTasks', spectrumCache', audio, overtakenSpectra)
  BY <1>1, SpectraGoOn
<1>3. ASSUME NEW ids, NEW interval,
             TabSound(spectrumTasks, spectrumAnswer, spectra, audio, ids, interval,
                      overtakenSpectra)
      PROVE  TabSound(spectrumTasks', spectrumAnswer', spectra', audio, ids, interval,
                      overtakenSpectra)
  BY <1>1, <1>3, SpectraGoOn
<1> QED BY <1>2, <1>3, SpectraFollow

\* A result that is right keeps the spectra right.
LEMMA JobDoneInv ==
  ASSUME SpectraInv, spectrumTasks # <<>>, NEW spectrum \in Seq(Nat), JobDone(spectrum),
         WorkedJob.key[1] \notin overtakenSpectra => spectrum = Part(audio, WorkedJob.key),
         UNCHANGED <<tab, region, order, audio, overtakenSpectra, spectra>>,
         PoolSound(spectrumTasks, spectrumCache', audio, overtakenSpectra)
  PROVE  SpectraInv'
<1>1. spectrumTasks \in Seq(SpectrumTask) /\ JobsSound(spectrumTasks, audio, overtakenSpectra)
  BY DEF SpectraInv, PoolSound
<1>2. PICK task \in SpectrumTask :
        /\ task = Worked /\ task = Head(spectrumTasks) /\ task = spectrumTasks[1]
        /\ task.jobs # <<>> /\ task.jobs \in Seq(Jobs)
        /\ \A k \in DOMAIN task.jobs : JobSound(task.jobs[k], audio, overtakenSpectra)
  BY <1>1, FirstSpectrum DEF Worked
<1>3. Head(task.jobs) = WorkedJob
  BY <1>2 DEF WorkedJob
<1>4. PICK after : after = WithResult(task, spectrum)
  OBVIOUS
<1>5. /\ after \in SpectrumTask /\ after.jobs = Tail(task.jobs) /\ after.latest = task.latest
      /\ after.results = Kept(task.results, WorkedJob.key[1], spectrum)
      /\ \A k \in DOMAIN Tail(task.jobs) :
           JobSound(Tail(task.jobs)[k], audio, overtakenSpectra)
      /\ \A ids, interval :
           LatestSound(task, audio, ids, interval, overtakenSpectra) =>
             LatestSound(after, audio, ids, interval, overtakenSpectra)
  BY <1>2, <1>3, <1>4, WithResultSound
<1>6. CASE Tail(task.jobs) = <<>>
  <2>1. PICK x : x = [shows |-> "spectra", of |-> after.results]
    OBVIOUS
  <2>2. EndSpectra(x)
    <3>1. WithResult(Worked, spectrum).jobs = <<>>
      BY <1>2, <1>4, <1>5, <1>6
    <3>2. EndSpectra([shows |-> "spectra", of |-> WithResult(Worked, spectrum).results])
      BY <3>1, Zenon DEF JobDone
    <3>3. x = [shows |-> "spectra", of |-> WithResult(Worked, spectrum).results]
      BY <1>2, <1>4, <2>1
    <3> QED BY <3>2, <3>3, Zenon
  <2>3. ASSUME NEW ids, NEW interval,
               LatestSound(task, audio, ids, interval, overtakenSpectra)
        PROVE  SpectraSound(x, audio, ids, interval, overtakenSpectra)
    <3>1. LatestSound(after, audio, ids, interval, overtakenSpectra)
      BY <1>5, <2>3
    <3>2. x.shows = "spectra" /\ x.of = after.results
      BY <2>1
    <3>3. DOMAIN after.jobs = {}
      BY <1>5, <1>6, NoResults
    <3> QED BY <3>1, <3>2, <3>3 DEF LatestSound, SpectraSound
  <2> QED BY <1>2, <2>2, <2>3, EndSpectraInv
<1>7. CASE Tail(task.jobs) # <<>>
  <2>1. spectrumTasks' = [spectrumTasks EXCEPT ![1] = after] /\ UNCHANGED spectrumAnswer
    BY <1>2, <1>4, <1>5, <1>7 DEF JobDone
  <2> QED BY <1>2, <1>5, <1>7, <2>1, SpectraStepOn
<1> QED BY <1>6, <1>7

\* Each step of the task keeps the spectra.
LEMMA FourierStepInv ==
  ASSUME SpectraInv, TracksTyped(audio), FourierStep, UNCHANGED <<order, audio>>
  PROVE  SpectraInv'
<1>1. PoolSound(spectrumTasks, spectrumCache, audio, overtakenSpectra)
  BY DEF SpectraInv
<1>2. spectrumTasks \in Seq(SpectrumTask) /\ JobsSound(spectrumTasks, audio, overtakenSpectra)
      /\ SpectraCacheSound(spectrumCache, audio, overtakenSpectra)
  BY <1>1 DEF PoolSound
<1>3. ASSUME spectrumTasks # <<>>
      PROVE  \E task \in SpectrumTask, job \in Jobs :
               /\ task = Worked /\ task = spectrumTasks[1] /\ task.jobs # <<>>
               /\ \A k \in DOMAIN task.jobs : JobSound(task.jobs[k], audio, overtakenSpectra)
               /\ job = WorkedJob /\ JobSound(job, audio, overtakenSpectra)
  <2>1. PICK task \in SpectrumTask :
          /\ task = Worked /\ task = spectrumTasks[1]
          /\ task.jobs # <<>> /\ task.jobs \in Seq(Jobs)
          /\ \A k \in DOMAIN task.jobs : JobSound(task.jobs[k], audio, overtakenSpectra)
    BY <1>2, <1>3, FirstSpectrum DEF Worked
  <2>2. Head(task.jobs) \in Jobs /\ Head(task.jobs) = task.jobs[1] /\ 1 \in DOMAIN task.jobs
    BY <2>1, HeadTailProperties, LenProperties, EmptySeq
  <2> QED BY <2>1, <2>2 DEF WorkedJob
<1>4. CASE SpectrumLookUp
  <2>1. PICK task \in SpectrumTask, job \in Jobs :
          /\ task = Worked /\ task = spectrumTasks[1] /\ task.jobs # <<>>
          /\ \A k \in DOMAIN task.jobs : JobSound(task.jobs[k], audio, overtakenSpectra)
          /\ job = WorkedJob /\ JobSound(job, audio, overtakenSpectra)
    BY <1>3, <1>4 DEF SpectrumLookUp
  <2>2. UNCHANGED <<tab, region, spectra, spectrumCache, overtakenSpectra>>
        /\ spectrumTasks # <<>>
    BY <1>4 DEF SpectrumLookUp
  <2>3. CASE job.key \in DOMAIN spectrumCache
    <3>1. JobDone(spectrumCache[job.key])
      BY <1>4, <2>1, <2>3 DEF SpectrumLookUp
    <3>2. PICK spectrum \in Seq(Nat) :
            /\ spectrum = spectrumCache[job.key]
            /\ job.key[1] \notin overtakenSpectra => spectrum = Part(audio, job.key)
      BY <1>2, <2>3 DEF SpectraCacheSound
    <3> QED BY <1>1, <2>1, <2>2, <3>1, <3>2, JobDoneInv
  <2>4. CASE job.key \notin DOMAIN spectrumCache
    <3>1. spectrumTasks' = [spectrumTasks EXCEPT ![1].computing = TRUE]
          /\ UNCHANGED spectrumAnswer
      BY <1>4, <2>1, <2>4 DEF SpectrumLookUp
    <3>2. PICK next : next = [task EXCEPT !.computing = TRUE]
      OBVIOUS
    <3>3. /\ next \in SpectrumTask /\ next.jobs = task.jobs /\ next.latest = task.latest
          /\ next.results = task.results
      BY <2>1, <3>2 DEF SpectrumTask
    <3>4. spectrumTasks' = [spectrumTasks EXCEPT ![1] = next]
      BY <2>1, <3>1, <3>2, Zenon
    <3>5. ASSUME NEW ids, NEW interval,
                 LatestSound(task, audio, ids, interval, overtakenSpectra)
          PROVE  LatestSound(next, audio, ids, interval, overtakenSpectra)
      BY <3>3, <3>5 DEF LatestSound
    <3> QED BY <1>1, <2>1, <2>2, <3>1, <3>3, <3>4, <3>5, SpectraStepOn
  <2> QED BY <2>3, <2>4
<1>5. CASE SpectrumStore
  <2>1. PICK task \in SpectrumTask, job \in Jobs :
          /\ task = Worked /\ task = spectrumTasks[1] /\ task.jobs # <<>>
          /\ \A k \in DOMAIN task.jobs : JobSound(task.jobs[k], audio, overtakenSpectra)
          /\ job = WorkedJob /\ JobSound(job, audio, overtakenSpectra)
    BY <1>3, <1>5 DEF SpectrumStore
  <2>2. PICK kept : kept = Kept(spectrumCache, job.key, job.samples)
    OBVIOUS
  <2>3. /\ spectrumCache' = kept /\ JobDone(kept[job.key]) /\ spectrumTasks # <<>>
        /\ UNCHANGED <<tab, region, spectra, overtakenSpectra>>
    BY <1>5, <2>1, <2>2 DEF SpectrumStore
  <2>4. /\ DOMAIN kept = DOMAIN spectrumCache \cup {job.key}
        /\ \A key \in DOMAIN spectrumCache : kept[key] = spectrumCache[key]
        /\ job.key \notin DOMAIN spectrumCache => kept[job.key] = job.samples
    BY <2>2 DEF Kept
  <2>5. job.samples \in Seq(Nat)
    BY DEF Jobs
  <2>6. SpectraCacheSound(kept, audio, overtakenSpectra)
    <3> SUFFICES ASSUME NEW key \in DOMAIN kept
                 PROVE  /\ key[1] \in DOMAIN audio /\ kept[key] \in Seq(Nat)
                        /\ key[1] \notin overtakenSpectra => kept[key] = Part(audio, key)
      BY DEF SpectraCacheSound
    <3>1. CASE key \in DOMAIN spectrumCache
      BY <1>2, <2>4, <3>1 DEF SpectraCacheSound
    <3>2. CASE key \notin DOMAIN spectrumCache
      <4>1. key = job.key /\ kept[key] = job.samples
        BY <2>4, <3>2
      <4> QED BY <2>1, <2>5, <4>1 DEF JobSound
    <3> QED BY <3>1, <3>2
  <2>7. PICK spectrum \in Seq(Nat) :
          /\ spectrum = kept[job.key]
          /\ job.key[1] \notin overtakenSpectra => spectrum = Part(audio, job.key)
    BY <2>4, <2>6 DEF SpectraCacheSound
  <2>8. PoolSound(spectrumTasks, spectrumCache', audio, overtakenSpectra)
    BY <1>2, <2>3, <2>6 DEF PoolSound
  <2> QED BY <2>1, <2>3, <2>7, <2>8, JobDoneInv
<1>6. CASE SpectrumFails
  <2>1. /\ EndSpectra(Failed) /\ spectrumTasks # <<>>
        /\ UNCHANGED <<tab, region, spectra, spectrumCache, overtakenSpectra>>
    BY <1>6 DEF SpectrumFails
  <2>2. PICK x : x = Failed /\ \A ids, interval :
                                 SpectraSound(x, audio, ids, interval, overtakenSpectra)
    BY DEF SpectraSound
  <2> QED BY <1>1, <2>1, <2>2, EndSpectraInv
<1>7. CASE SpectrumArrives
  <2>1. /\ spectrumAnswer # <<>> /\ spectra' = Head(spectrumAnswer) /\ spectrumAnswer' = <<>>
        /\ UNCHANGED <<tab, region, spectrumTasks, spectrumCache, overtakenSpectra>>
    BY <1>7 DEF SpectrumArrives
  <2>2. ASSUME NEW ids, NEW interval,
               TabSound(spectrumTasks, spectrumAnswer, spectra, audio, ids, interval,
                        overtakenSpectra)
        PROVE  TabSound(spectrumTasks', spectrumAnswer', spectra', audio, ids, interval,
                        overtakenSpectra)
    BY <2>1, <2>2 DEF TabSound
  <2> QED BY <1>1, <2>1, <2>2, SpectraFollow
<1> QED BY <1>4, <1>5, <1>6, <1>7 DEF FourierStep

-----------------------------------------------------------------------------
(* The window and the tab of the spectra.                                       *)
IntervalInv ==
  /\ AnalyzedInterval(Selection, transport.position, TotalFrames) \in Nat \X Nat
  /\ order # <<>> =>
       AnalyzedInterval(Selection, transport.position, TotalFrames)[1] <
       AnalyzedInterval(Selection, transport.position, TotalFrames)[2]

LEMMA IntervalSound == PlayInv => IntervalInv
<1> SUFFICES ASSUME PlayInv PROVE IntervalInv
  OBVIOUS
<1>1. ProjectInv /\ EngineInv
  BY DEF PlayInv
<1>2. PICK total \in Nat : total = TotalFrames
  BY <1>1, TotalIsSound
<1>3. PICK at \in 0 .. total : at = transport.position
  BY <1>1, <1>2 DEF EngineInv, Transports
<1>4. Repeats(Selection, total)
  BY <1>1, <1>2, SelectionInside
<1>5. order # <<>> => total # 0
  <2> SUFFICES ASSUME order # <<>> PROVE total # 0
    OBVIOUS
  <2>1. PICK id : id \in Tracks
    BY <1>1, TracksType DEF ProjectInv
  <2>2. Duration(audio[id]) \in Nat \ {0} /\ Duration(audio[id]) <= total
    BY <1>1, <1>2, <2>1, TotalIsSound
  <2> QED BY <2>2
<1> QED BY <1>2, <1>3, <1>4, <1>5, IntervalType DEF IntervalInv

LEMMA IntervalNext ==
  PlayInv' =>
    /\ AnalyzedInterval(Selection', transport'.position, TotalFrames') \in Nat \X Nat
    /\ order' # <<>> =>
         AnalyzedInterval(Selection', transport'.position, TotalFrames')[1] <
         AnalyzedInterval(Selection', transport'.position, TotalFrames')[2]
<1>1. PlayInv' => IntervalInv'
  BY IntervalSound, PTL
<1> QED BY <1>1 DEF IntervalInv

\* A refresh makes the tab sound; while the tab is hidden, only the pool matters.
LEMMA RefreshInv ==
  ASSUME PlayInv', TracksTyped(audio'), Refresh,
         PoolSound(spectrumTasks, spectrumCache', audio', overtakenSpectra')
  PROVE  SpectraInv'
<1>1. PICK ids, tracks, over, cached :
        ids = order' /\ tracks = audio' /\ over = overtakenSpectra' /\ cached = spectrumCache'
  OBVIOUS
<1>2. /\ ids \in Seq(TrackId) /\ TracksTyped(tracks) /\ Tracks' = ToSet(ids)
      /\ ToSet(ids) \subseteq DOMAIN tracks
  BY <1>1 DEF PlayInv, ProjectInv, Tracks
<1>3. PICK interval \in Nat \X Nat :
        /\ interval = AnalyzedInterval(Selection', transport'.position, TotalFrames')
        /\ ids # <<>> => interval[1] < interval[2]
  BY <1>1, IntervalNext
<1>4. PICK jobs : jobs = [i \in DOMAIN ids |-> Wanted(ids[i], tracks, interval)]
  OBVIOUS
<1>5. jobs = [i \in DOMAIN order' |-> Job(order'[i], audio'[order'[i]], interval)]
  BY <1>1, <1>4 DEF Wanted
<1>6. (jobs = <<>> \/ interval[2] <= interval[1]) <=> ids = <<>>
  <2>1. interval[1] \in Nat /\ interval[2] \in Nat
    OBVIOUS
  <2>2. CASE ids = <<>>
    <3>1. DOMAIN ids = {} /\ DOMAIN <<>> = {}
      BY <2>2, NoResults
    <3>2. jobs = <<>>
      BY <1>4, <2>2, <3>1
    <3> QED BY <2>2, <3>2
  <2>3. CASE ids # <<>>
    <3>1. 1 \in DOMAIN ids
      BY <1>2, <2>3, LenProperties, EmptySeq
    <3>2. DOMAIN jobs = DOMAIN ids /\ DOMAIN <<>> = {}
      BY <1>4, NoResults
    <3> QED BY <1>3, <2>1, <2>3, <3>1, <3>2
  <2> QED BY <2>2, <2>3
<1>7. /\ region' = interval
      /\ spectra' = IF ids = <<>> THEN Nothing ELSE Preparing
      /\ spectrumTasks' = Outdated(spectrumTasks) \o
           IF ids = <<>> THEN <<>>
           ELSE <<[jobs |-> jobs, latest |-> TRUE, computing |-> FALSE, results |-> <<>>]>>
      /\ spectrumAnswer' = <<>>
  BY <1>3, <1>5, <1>6, Zenon DEF Refresh
<1>8. Refreshed(ids, tracks, interval) =
        [jobs |-> jobs, latest |-> TRUE, computing |-> FALSE, results |-> <<>>]
  BY <1>4 DEF Refreshed
<1>9. PICK next, shown :
        /\ next = Outdated(spectrumTasks) \o
             IF ids = <<>> THEN <<>> ELSE <<Refreshed(ids, tracks, interval)>>
        /\ shown = IF ids = <<>> THEN Nothing ELSE Preparing
  OBVIOUS
<1>10. /\ PoolSound(next, cached, tracks, over)
       /\ TabSound(next, <<>>, shown, tracks, ToSet(ids), interval, over)
  BY <1>1, <1>2, <1>9, RefreshSound
<1>11. spectrumTasks' = next /\ spectra' = shown
  BY <1>7, <1>8, <1>9
<1> QED BY <1>1, <1>2, <1>7, <1>10, <1>11 DEF SpectraInv

LEMMA HiddenInv ==
  ASSUME tab' # "fourier", UNCHANGED spectrumTasks,
         PoolSound(spectrumTasks, spectrumCache', audio', overtakenSpectra')
  PROVE  SpectraInv'
BY DEF SpectraInv

LEMMA ShownInv ==
  ASSUME PlayInv', TracksTyped(audio'), RefreshIfShown, UNCHANGED tab,
         PoolSound(spectrumTasks, spectrumCache', audio', overtakenSpectra')
  PROVE  SpectraInv'
<1>1. CASE tab = "fourier"
  BY <1>1, RefreshInv DEF RefreshIfShown
<1>2. CASE tab # "fourier"
  BY <1>2, HiddenInv DEF RefreshIfShown
<1> QED BY <1>1, <1>2

\* The spectra after tracks are added, after an edit, and after a change of the tab.
LEMMA SpectraExtended ==
  ASSUME SpectraInv, PlayInv', Extends(audio, audio'), SpectraRebuild
  PROVE  SpectraInv'
<1>1. RefreshIfShown /\ tab' = tab /\ spectrumCache' = spectrumCache
      /\ overtakenSpectra' = overtakenSpectra
  BY DEF SpectraRebuild
<1>2. PoolSound(spectrumTasks, spectrumCache, audio', overtakenSpectra)
  BY ExtendedPool DEF SpectraInv
<1> QED BY <1>1, <1>2, ShownInv DEF Extends

LEMMA SpectraEdited ==
  ASSUME SpectraInv, PlayInv', NEW id, EditedAt(id, audio, audio'), SpectraRebuildEdited(id)
  PROVE  SpectraInv'
<1>1. /\ RefreshIfShown /\ tab' = tab /\ spectrumCache' = Invalidated(spectrumCache, id)
      /\ overtakenSpectra' = (overtakenSpectra \ {id}) \cup (IF HeldByTask(id) THEN {id} ELSE {})
  BY DEF SpectraRebuildEdited
<1>2. overtakenSpectra' = HeldAfter(overtakenSpectra, spectrumTasks, id)
  BY <1>1 DEF HeldAfter, Held, HeldByTask
<1>3. PoolSound(spectrumTasks, spectrumCache', audio', overtakenSpectra')
  BY <1>1, <1>2, EditedPool DEF SpectraInv
<1> QED BY <1>1, <1>3, ShownInv DEF EditedAt

LEMMA TabInv ==
  ASSUME SpectraInv, PlayInv', TracksTyped(audio), UNCHANGED <<order, audio>>,
         ChangeLook \/ \E t \in {"lanes", "fourier"} : ShowTab(t)
  PROVE  SpectraInv'
<1>1. PoolSound(spectrumTasks, spectrumCache, audio, overtakenSpectra)
  BY DEF SpectraInv
<1>2. CASE ChangeLook
  BY <1>1, <1>2, RefreshInv DEF ChangeLook
<1>3. ASSUME NEW t \in {"lanes", "fourier"}, ShowTab(t) PROVE SpectraInv'
  <2>1. UNCHANGED <<spectrumCache, overtakenSpectra>> /\ tab' = t
    BY <1>3 DEF ShowTab
  <2>2. CASE t = "fourier"
    <3>1. Refresh
      BY <1>3, <2>2 DEF ShowTab
    <3> QED BY <1>1, <2>1, <3>1, RefreshInv
  <2>3. CASE t # "fourier"
    <3>1. UNCHANGED spectrumTasks
      BY <1>3, <2>3 DEF ShowTab
    <3> QED BY <1>1, <2>1, <2>3, <3>1, HiddenInv
  <2> QED BY <2>2, <2>3
<1> QED BY <1>2, <1>3

\* The spectra while other parts move.
LEMMA SpectraStay ==
  ASSUME SpectraInv, UNCHANGED <<order, audio, fourierVars>>
  PROVE  SpectraInv'
<1>1. /\ tab' = tab /\ region' = region /\ spectrumTasks' = spectrumTasks
      /\ spectrumAnswer' = spectrumAnswer /\ spectra' = spectra
      /\ spectrumCache' = spectrumCache /\ overtakenSpectra' = overtakenSpectra
      /\ audio' = audio /\ Tracks' = Tracks
  BY DEF fourierVars, Tracks
<1> QED BY <1>1 DEF SpectraInv

\* The spectra show the audio.
LEMMA SpectraShow ==
  ASSUME SpectraInv, order \in Seq(TrackId)
  PROVE  SpectraShowAudio
<1> SUFFICES ASSUME tab = "fourier", spectrumAnswer = <<>>,
                    ~\E i \in DOMAIN spectrumTasks : spectrumTasks[i].latest
             PROVE  SpectraShowAudio
  BY DEF SpectraShowAudio
<1>1. (spectra = Nothing /\ Tracks = {}) \/
      SpectraSound(spectra, audio, Tracks, region, overtakenSpectra)
  BY DEF SpectraInv, TabSound
<1>2. CASE spectra = Nothing /\ Tracks = {}
  BY <1>2, TracksType DEF SpectraShowAudio
<1>3. CASE SpectraSound(spectra, audio, Tracks, region, overtakenSpectra)
  <2>1. CASE spectra = Failed
    BY <2>1 DEF SpectraShowAudio
  <2>2. CASE spectra # Failed
    <3>1. /\ spectra.shows = "spectra" /\ Tracks \subseteq DOMAIN spectra.of
          /\ \A id \in DOMAIN spectra.of \ overtakenSpectra :
               spectra.of[id] = Wanted(id, audio, region).samples
      BY <1>3, <2>2 DEF SpectraSound
    <3>2. \A id \in Tracks \ overtakenSpectra :
            spectra.of[id] = Job(id, audio[id], region).samples
      BY <3>1 DEF Wanted
    <3> QED BY <3>1, <3>2 DEF SpectraShowAudio
  <2> QED BY <2>1, <2>2
<1> QED BY <1>1, <1>2, <1>3

-----------------------------------------------------------------------------
(* What a gesture of the user does to the audio, and how the views follow it.   *)
ViewsFollow ==
  \/ UNCHANGED <<order, audio, allViewVars>>
  \/ /\ UNCHANGED <<order, audio, viewVars>>
     /\ SpectraRebuild \/ ChangeLook \/ \E t \in {"lanes", "fourier"} : ShowTab(t)
  \/ Extends(audio, audio') /\ RebuildAll
  \/ \E id \in TrackId : EditedAt(id, audio, audio') /\ RebuildAllEdited(id)

\* The inductive invariant: the project and its playback, and the views.
ViewsInv == PlayInv /\ TracksTyped(audio) /\ LanesInv /\ SpectraInv

(* A track object that has left the project keeps its audio; the others are sound. *)
LEMMA SoundAfter ==
  ASSUME TracksTyped(audio), PlayInv',
         \A t \in DOMAIN audio' : t \in Tracks' \/ (t \in DOMAIN audio /\ audio'[t] = audio[t])
  PROVE  TracksTyped(audio')
<1>1. PICK ids : ids = order'
  OBVIOUS
<1>2. ids \in Seq(TrackId) /\ Tracks' = ToSet(ids) /\ \A t \in Tracks' : audio'[t] \in SoundTrack
  BY <1>1 DEF PlayInv, ProjectInv, Tracks
<1>3. Tracks' \subseteq TrackId
  BY <1>2, SetOfTracks
<1> QED BY <1>2, <1>3 DEF TracksTyped

\* Without a change of the audio, it is both extended and edited.
LEMMA SameSound ==
  ASSUME TracksTyped(audio), UNCHANGED audio
  PROVE  Extends(audio, audio') /\ \A id : EditedAt(id, audio, audio')
BY DEF Extends, EditedAt, TracksTyped

\* Views that follow stay sound.
LEMMA FollowInv ==
  ASSUME ViewsInv, PlayInv', ViewsFollow
  PROVE  ViewsInv'
<1>1. TracksTyped(audio) /\ LanesInv /\ SpectraInv
  BY DEF ViewsInv
<1>2. order' \in Seq(TrackId) /\ Tracks' \subseteq DOMAIN audio'
  BY DEF PlayInv, ProjectInv
<1>3. CASE UNCHANGED <<order, audio, allViewVars>>
  <2>1. UNCHANGED <<viewVars, order, audio>> /\ UNCHANGED <<order, audio, fourierVars>>
    BY <1>3 DEF allViewVars
  <2>2. LanesInv' /\ SpectraInv'
    BY <1>1, <2>1, LanesStay, SpectraStay
  <2> QED BY <1>1, <2>1, <2>2 DEF ViewsInv
<1>4. CASE /\ UNCHANGED <<order, audio, viewVars>>
           /\ SpectraRebuild \/ ChangeLook \/ \E t \in {"lanes", "fourier"} : ShowTab(t)
  <2>1. LanesInv'
    BY <1>1, <1>4, LanesStay
  <2>2. CASE SpectraRebuild
    BY <1>1, <1>4, <2>1, <2>2, SameSound, SpectraExtended DEF ViewsInv
  <2>3. CASE ChangeLook \/ \E t \in {"lanes", "fourier"} : ShowTab(t)
    BY <1>1, <1>4, <2>1, <2>3, TabInv DEF ViewsInv
  <2> QED BY <1>4, <2>2, <2>3
<1>5. CASE Extends(audio, audio') /\ RebuildAll
  <2>1. RebuildViews /\ SpectraRebuild
    BY <1>5 DEF RebuildAll
  <2>2. LanesInv' /\ SpectraInv'
    BY <1>1, <1>2, <1>5, <2>1, LanesExtended, SpectraExtended
  <2> QED BY <1>5, <2>2 DEF ViewsInv, Extends
<1>6. ASSUME NEW id \in TrackId, EditedAt(id, audio, audio') /\ RebuildAllEdited(id)
      PROVE  ViewsInv'
  <2>1. RebuildEdited(id) /\ SpectraRebuildEdited(id)
    BY <1>6 DEF RebuildAllEdited
  <2>2. LanesInv' /\ SpectraInv'
    BY <1>1, <1>2, <1>6, <2>1, LanesEdited, SpectraEdited
  <2> QED BY <1>6, <2>2 DEF ViewsInv, EditedAt
<1> QED BY <1>3, <1>4, <1>5, <1>6 DEF ViewsFollow

\* Every gesture is followed: tracks added, edited, removed, moved, and selected in.
LEMMA AddFollows ==
  ASSUME ViewsInv, PlayInv', NEW id \in TrackId, NEW samples, AddTrack(id, samples)
  PROVE  ViewsFollow
<1>1. /\ id \notin DOMAIN audio /\ order' = Append(order, id) /\ RebuildAll
      /\ audio' = [t \in DOMAIN audio \cup {id} |->
                     IF t = id THEN Untrimmed(samples) ELSE audio[t]]
  BY DEF AddTrack, AddToProject
<1>2. order \in Seq(TrackId) /\ Distinct(order) /\ ToSet(order) \subseteq DOMAIN audio
  BY DEF ViewsInv, PlayInv, ProjectInv, Tracks
<1>3. id \notin ToSet(order)
  BY <1>1, <1>2
<1>4. ToSet(Append(order, id)) = ToSet(order) \cup {id}
  BY <1>2, <1>3, AppendOne
<1>5. id \in Tracks'
  BY <1>1, <1>4 DEF Tracks
<1>6. \A t \in DOMAIN audio : t \in DOMAIN audio' /\ audio'[t] = audio[t]
  BY <1>1
<1>7. \A t \in DOMAIN audio' : t \in Tracks' \/ (t \in DOMAIN audio /\ audio'[t] = audio[t])
  BY <1>1, <1>5, <1>6
<1>8. TracksTyped(audio')
  BY <1>7, SoundAfter DEF ViewsInv
<1> QED BY <1>1, <1>6, <1>8 DEF ViewsFollow, Extends

LEMMA EditFollows ==
  ASSUME ViewsInv, PlayInv', active # None, NEW track, NEW playhead, NEW selection,
         FinishEdit(track, playhead, selection)
  PROVE  ViewsFollow
<1>1. /\ audio' = [audio EXCEPT ![active] = track] /\ UNCHANGED <<order, active>>
      /\ RebuildAllEdited(active)
  BY DEF FinishEdit
<1>2. active \in Tracks /\ active \in TrackId /\ Tracks' = Tracks
  BY <1>1, TracksType DEF ViewsInv, PlayInv, ProjectInv, Tracks
<1>3. DOMAIN audio' = DOMAIN audio /\ \A t \in DOMAIN audio \ {active} : audio'[t] = audio[t]
  BY <1>1
<1>4. \A t \in DOMAIN audio' : t \in Tracks' \/ (t \in DOMAIN audio /\ audio'[t] = audio[t])
  BY <1>2, <1>3
<1>5. TracksTyped(audio')
  BY <1>4, SoundAfter DEF ViewsInv
<1> QED BY <1>1, <1>2, <1>3, <1>5 DEF ViewsFollow, EditedAt

LEMMA TracksFollow ==
  ASSUME ViewsInv, PlayInv', NEW id \in Tracks,
         \/ RemoveTrack(id) \/ ActivateTrack(id) \/ \E delta \in {-1, 1} : MoveTrack(id, delta)
         \/ \E first, second : SelectIn(id, first, second)
  PROVE  ViewsFollow
<1>1. TracksTyped(audio) /\ id \in TrackId
  BY TracksType DEF ViewsInv, PlayInv, ProjectInv
<1>2. CASE RemoveTrack(id)
  <2>1. UNCHANGED audio /\ RebuildAllEdited(id)
    BY <1>2 DEF RemoveTrack, RemoveFromProject
  <2> QED BY <1>1, <2>1, SameSound DEF ViewsFollow
<1>3. CASE ActivateTrack(id) \/ \E delta \in {-1, 1} : MoveTrack(id, delta)
  <2>1. UNCHANGED audio /\ RebuildAll
    BY <1>3 DEF ActivateTrack, MoveTrack, MoveInProject
  <2> QED BY <1>1, <2>1, SameSound DEF ViewsFollow
<1>4. CASE \E first, second : SelectIn(id, first, second)
  <2>1. UNCHANGED <<order, audio, viewVars>> /\ SpectraRebuild
    BY <1>4 DEF SelectIn
  <2> QED BY <2>1 DEF ViewsFollow
<1> QED BY <1>2, <1>3, <1>4

\* Trims, cuts, pastes and moves, refused ones included.
LEMMA TrimsFollow ==
  ASSUME ViewsInv, PlayInv',
         TrimStartToPlayhead \/ TrimEndToPlayhead \/ TrimToSelection \/ ResetTrim
  PROVE  ViewsFollow
<1>1. ASSUME active # None, NEW start, NEW end, ApplyTrim(start, end)
      PROVE  ViewsFollow
  <2>1. CASE CanTrim(ActiveTrack, start, end)
    <3>1. FinishTrim(Trimmed(ActiveTrack, start, end))
      BY <1>1, <2>1 DEF ApplyTrim
    <3> QED BY <1>1, <3>1, EditFollows DEF FinishTrim
  <2>2. CASE ~CanTrim(ActiveTrack, start, end)
    <3>1. UNCHANGED <<order, audio, allViewVars>>
      BY <1>1, <2>2 DEF ApplyTrim, projectVars
    <3> QED BY <3>1 DEF ViewsFollow
  <2> QED BY <2>1, <2>2
<1>2. CASE TrimStartToPlayhead
  BY <1>1, <1>2 DEF TrimStartToPlayhead
<1>3. CASE TrimEndToPlayhead
  BY <1>1, <1>3 DEF TrimEndToPlayhead
<1>4. CASE TrimToSelection
  BY <1>1, <1>4 DEF TrimToSelection
<1>5. CASE ResetTrim
  BY <1>5, EditFollows DEF ResetTrim, FinishTrim
<1> QED BY <1>2, <1>3, <1>4, <1>5

LEMMA EditsFollow ==
  ASSUME ViewsInv, PlayInv',
         CutSelection \/ DeleteSelection \/ PasteSelection \/ MoveSelection
  PROVE  ViewsFollow
<1>1. ASSUME active # None, DeleteThenFinish PROVE ViewsFollow
  BY <1>1, EditFollows DEF DeleteThenFinish
<1>3. CASE CutSelection \/ DeleteSelection
  <2>1. active # None /\ DeleteSelected
    BY <1>3 DEF CutSelection, DeleteSelection, DeleteSelected
  <2>2. CASE CanDelete(ActiveTrack, Selection[1], Selection[2])
    <3>1. DeleteThenFinish
      BY <2>1, <2>2 DEF DeleteSelected
    <3> QED BY <1>1, <2>1, <3>1
  <2>3. CASE ~CanDelete(ActiveTrack, Selection[1], Selection[2])
    <3>1. UNCHANGED <<order, audio, allViewVars>>
      BY <2>1, <2>3 DEF DeleteSelected, projectVars
    <3> QED BY <3>1 DEF ViewsFollow
  <2> QED BY <2>2, <2>3
<1>4. CASE PasteSelection
  <2>1. PICK target :
          LET first == Within(target, Duration(ActiveTrack))
              last  == first + Len(clipboard)
          IN  FinishEdit(PasteClip(ActiveTrack, target, clipboard), last, <<first, last>>)
    BY <1>4 DEF PasteSelection
  <2>2. active # None
    BY <1>4 DEF PasteSelection
  <2> QED BY <2>1, <2>2, EditFollows
<1>5. CASE MoveSelection
  <2>1. PICK target :
          LET moved == MoveRegion(ActiveTrack, Selection[1], Selection[2], target)
          IN  FinishEdit(moved.track, moved.region[2], moved.region)
    BY <1>5 DEF MoveSelection
  <2>2. active # None
    BY <1>5 DEF MoveSelection
  <2> QED BY <2>1, <2>2, EditFollows
<1> QED BY <1>3, <1>4, <1>5

\* All that the user does.
LEMMA UserFollows ==
  ASSUME ViewsInv, PlayInv', UserStep
  PROVE  ViewsFollow
<1>1. ASSUME NEW id \in TrackId, OpenFile(id) \/ StopRecording(id) PROVE ViewsFollow
  BY <1>1, AddFollows DEF OpenFile, StopRecording
<1>2. ASSUME ClearSelection \/ CopySelection \/ StartRecording \/ StopRecordingFails
             \/ (Playback /\ UNCHANGED <<projectVars, allViewVars, clipboard, take>>)
      PROVE  ViewsFollow
  <2>1. UNCHANGED <<order, audio, allViewVars>>
    BY <1>2 DEF ClearSelection, CopySelection, StartRecording, StopRecordingFails, projectVars
  <2> QED BY <2>1 DEF ViewsFollow
<1>3. ASSUME UNCHANGED <<projectVars, engineVars, viewVars, clipboard, take>>,
             ChangeLook \/ \E t \in {"lanes", "fourier"} : ShowTab(t)
      PROVE  ViewsFollow
  BY <1>3 DEF ViewsFollow, projectVars
<1>4. ASSUME NEW id \in Tracks,
             \/ RemoveTrack(id) \/ ActivateTrack(id)
             \/ \E delta \in {-1, 1} : MoveTrack(id, delta)
             \/ \E first \in 0 .. MaxFrames :
                  \E second \in first + 1 .. MaxFrames : SelectIn(id, first, second)
      PROVE  ViewsFollow
  BY <1>4, TracksFollow
<1> QED BY <1>1, <1>2, <1>3, <1>4, EditsFollow, TrimsFollow DEF UserStep

\* The invariant holds at first, is kept, and implies the property.
LEMMA ViewsInvInit ==
  ASSUME Init
  PROVE  ViewsInv
<1>1. /\ order = <<>> /\ audio = <<>> /\ tab = "lanes"
      /\ spectrumTasks = <<>> /\ spectrumCache = <<>>
      /\ lanes = [v \in View |-> <<>>] /\ tasks = [v \in View |-> <<>>]
      /\ answers = [v \in View |-> <<>>] /\ cache = [v \in View |-> <<>>]
  BY DEF Init, ProjectInit, ViewsInit, FourierInit
<1>2. DOMAIN <<>> = {}
  BY NoResults
<1>3. PICK empty : empty = <<>> /\ DOMAIN empty = {}
  BY <1>2
<1>4. Tracks = {}
  BY <1>1, <1>2 DEF Tracks, ToSet
<1>5. TracksTyped(audio)
  BY <1>1, <1>2 DEF TracksTyped
<1>6. empty \in Seq(Task) /\ empty \in Seq(Answer) /\ empty \in Seq(SpectrumTask)
  BY <1>3, EmptySeq
<1>7. ASSUME NEW over PROVE ViewSound(empty, empty, empty, empty, empty, {}, over)
  BY <1>3, <1>6 DEF ViewSound, ViewTyped, QueueSound, CacheSound
<1>8. LanesInv
  BY <1>1, <1>3, <1>4, <1>7 DEF LanesInv
<1>9. PoolSound(empty, empty, empty, overtakenSpectra)
  BY <1>3, <1>6 DEF PoolSound, JobsSound, SpectraCacheSound
<1>10. SpectraInv
  BY <1>1, <1>3, <1>9 DEF SpectraInv
<1> QED BY <1>5, <1>8, <1>10, PlayInvInit DEF ViewsInv

LEMMA ViewsInvStep ==
  ASSUME ViewsInv, [Next]_vars
  PROVE  ViewsInv'
<1>1. PlayInv'
  BY PlayInvStep DEF ViewsInv
<1>2. TracksTyped(audio) /\ LanesInv /\ SpectraInv
  BY DEF ViewsInv
<1>3. CASE UserStep
  BY <1>1, <1>3, UserFollows, FollowInv
<1>4. CASE AudioStep \/ UNCHANGED vars
  <2>1. UNCHANGED <<order, audio, allViewVars>>
    BY <1>4 DEF AudioStep, Capture, vars, projectVars
  <2> QED BY <1>1, <2>1, FollowInv DEF ViewsFollow
<1>5. ASSUME UNCHANGED projectVars, NEW v \in View, WorkerStep(v) \/ AnswerArrives(v),
             UNCHANGED fourierVars
      PROVE  ViewsInv'
  <2>1. UNCHANGED <<order, audio>>
    BY <1>5 DEF projectVars
  <2>2. LanesInv'
    BY <1>2, <1>5, <2>1, WorkerInv, AnswerInv
  <2>3. SpectraInv'
    BY <1>2, <1>5, <2>1, SpectraStay
  <2> QED BY <1>1, <1>2, <2>1, <2>2, <2>3 DEF ViewsInv
<1>6. ASSUME UNCHANGED projectVars, FourierStep, UNCHANGED viewVars
      PROVE  ViewsInv'
  <2>1. UNCHANGED <<order, audio>>
    BY <1>6 DEF projectVars
  <2>2. LanesInv'
    BY <1>2, <1>6, <2>1, LanesStay
  <2>3. SpectraInv'
    BY <1>2, <1>6, <2>1, FourierStepInv
  <2> QED BY <1>1, <1>2, <2>1, <2>2, <2>3 DEF ViewsInv
<1>7. CASE AnalysisStep
  BY <1>5, <1>6, <1>7 DEF AnalysisStep
<1> QED BY <1>3, <1>4, <1>7 DEF Next

LEMMA ViewsInvShows ==
  ASSUME ViewsInv
  PROVE  ViewsShowAudio
<1>1. order \in Seq(TrackId) /\ LanesInv /\ SpectraInv
  BY DEF ViewsInv, PlayInv, ProjectInv
<1>2. \A id \in Tracks : id \in TrackId
  BY <1>1, TracksType
<1> QED BY <1>1, <1>2, LanesShow, SpectraShow DEF ViewsShowAudio

(***************************************************************************)
(* Unless an analysis of it is on its way, every lane shows the audio its  *)
(* track has (AnalysisCache.get_or_compute, populate_plot,                 *)
(* _analysis_ready), and the visible tab of the spectra those of the       *)
(* interval analysed last (FourierView.refresh, FourierTask.run), for any  *)
(* tracks, views, edits and bounds; but for tracks edited while a worker   *)
(* had read them.                                                          *)
(***************************************************************************)
THEOREM ViewsComeToShowAudio == Spec => []ViewsShowAudio
<1>1. Init => ViewsInv
  BY ViewsInvInit
<1>2. ViewsInv /\ [Next]_vars => ViewsInv'
  BY ViewsInvStep
<1>3. ViewsInv => ViewsShowAudio
  BY ViewsInvShows
<1> QED BY <1>1, <1>2, <1>3, PTL DEF Spec
=============================================================================
