-------------------------- MODULE SegmentReviewProofs --------------------------
(* What the editors of an alignment may rely on, for any alignment and any number *)
(* of editors and revisions: the replay of SegmentTopology is defined and sound   *)
(* for every history, and the invariants of SegmentReview follow from it.         *)
EXTENDS SegmentReview, FiniteSetTheorems, SequenceTheorems, TLAPS

-----------------------------------------------------------------------------
(* A set of numbers that is not empty has a least one.                         *)
LEMMA LeastNumber ==
  ASSUME NEW T \in SUBSET Nat, T # {}
  PROVE  \E m \in T : \A k \in T : m <= k
<1> DEFINE R == {pair \in Nat \X Nat : pair[1] < pair[2]}
<1>1. IsWellFoundedOn(R, Nat)
  BY NatLessThanWellFounded DEF OpToRel
<1>2. PICK m \in T : \A k \in T : ~(<<k, m>> \in R)
  BY <1>1, WFMin
<1>3. \A k \in T : ~(k < m)
  BY <1>2
<1> QED BY <1>3

-----------------------------------------------------------------------------
(* Topologies and revisions that the program can have.                         *)
Sound(segs) ==
  /\ segs \in SUBSET Segments /\ IsFiniteSet(segs)
  /\ \A s \in segs : s.from < s.to
  /\ \A s, t \in segs : s.id = t.id => s = t

Apart(segs) ==
  \A s, t \in segs : s.parent # None /\ Siblings(s, t) => ~Overlap(s, t)

Replacement == {n \in [id: Id, from: Int, to: Int, parent: ParentId] : n.from < n.to}
Revisions ==
  [number: Nat, operation: {"update", "split", "merge"}, anchor: Ids(UNION Alignment),
   targets: Seq(Id), from: Int \cup {None}, to: Int \cup {None},
   replacements: Seq(Replacement), state: State, base: Nat \cup {None}, seen: SUBSET Nat]

LEMMA SegFound ==
  ASSUME NEW segs, NEW id \in Ids(segs)
  PROVE  Seg(segs, id) \in segs /\ Seg(segs, id).id = id
BY DEF Ids, Seg

LEMMA ResolvedInside ==
  ASSUME NEW segs, NEW id
  PROVE  Resolved(segs, id) \in SUBSET Ids(segs)
BY DEF Resolved, Ids

(* Every target names exactly one segment, and no two of them the same one.    *)
LEMMA TargetsFound ==
  ASSUME NEW segs, Sound(segs), NEW rev \in Revisions, Resolvable(segs, rev)
  PROVE  /\ TargetIds(segs, rev) \in Seq(Id) /\ Len(TargetIds(segs, rev)) = Len(rev.targets)
         /\ \A i \in 1..Len(rev.targets) : TargetIds(segs, rev)[i] \in Ids(segs)
         /\ \A i, j \in 1..Len(rev.targets) :
              i # j => TargetIds(segs, rev)[i] # TargetIds(segs, rev)[j]
<1>1. /\ rev.targets \in Seq(Id) /\ Len(rev.targets) \in Nat
      /\ DOMAIN rev.targets = 1..Len(rev.targets)
  BY LenProperties DEF Revisions
<1>2. PICK n \in Nat : n = Len(rev.targets)
  BY <1>1
<1>3. PICK found : found = TargetIds(segs, rev)
  OBVIOUS
<1>4. found = [i \in 1..n |-> CHOOSE id \in Resolved(segs, rev.targets[i]) : TRUE]
  BY <1>1, <1>2, <1>3 DEF TargetIds
<1>5. Ids(segs) \in SUBSET Id
  BY DEF Ids, Sound, Segments
<1>6. IsFiniteSet(Ids(segs))
  <2>1. \A s \in segs : s.id \in Ids(segs)
    BY DEF Ids
  <2>2. [s \in segs |-> s.id] \in Surjection(segs, Ids(segs))
    BY <2>1 DEF Surjection, Ids
  <2> QED BY <2>2, FS_Surjection DEF Sound
<1>7. ASSUME NEW i \in 1..n
      PROVE  found[i] \in Ids(segs) /\ Resolved(segs, rev.targets[i]) = {found[i]}
  <2>1. PICK names : names = Resolved(segs, rev.targets[i])
    OBVIOUS
  <2>2. Cardinality(names) = 1
    BY <1>1, <1>2, <2>1 DEF Resolvable
  <2>3. names \in SUBSET Ids(segs)
    BY <2>1, ResolvedInside
  <2>4. IsFiniteSet(names)
    BY <1>6, <2>3, FS_Subset
  <2>5. PICK id : names = {id}
    BY <2>2, <2>4, FS_Singleton
  <2>6. found[i] \in names
    BY <1>4, <2>1, <2>5
  <2> QED BY <2>1, <2>3, <2>5, <2>6
<1>8. ASSUME NEW i \in 1..n, NEW j \in 1..n, i # j
      PROVE  found[i] # found[j]
  <2>1. Resolved(segs, rev.targets[i]) # Resolved(segs, rev.targets[j])
    BY <1>1, <1>2, <1>8 DEF Resolvable
  <2> QED BY <1>7, <2>1
<1>9. found \in Seq(Id) /\ Len(found) = n
  <2>1. \A i \in 1..n : (CHOOSE id \in Resolved(segs, rev.targets[i]) : TRUE) \in Id
    BY <1>4, <1>5, <1>7
  <2> QED BY <1>4, <2>1, IsASeq, LenProperties
<1> QED BY <1>2, <1>3, <1>7, <1>8, <1>9

LEMMA OneTarget ==
  ASSUME NEW segs, Sound(segs), NEW rev \in Revisions, Resolvable(segs, rev),
         NEW targets, targets = TargetIds(segs, rev), Len(targets) = 1
  PROVE  targets \in Seq(Id) /\ targets[1] \in Ids(segs)
<1>1. /\ targets \in Seq(Id) /\ Len(targets) = Len(rev.targets)
      /\ \A i \in 1..Len(rev.targets) : targets[i] \in Ids(segs)
  BY TargetsFound, Zenon
<1>2. Len(rev.targets) = 1 /\ 1 \in 1..1
  BY <1>1
<1> QED BY <1>1, <1>2

-----------------------------------------------------------------------------
(* What an operation does to a sound topology whose siblings are apart.        *)
Fitting(segs, new) ==
  /\ Sound(new)
  /\ \A n \in new, s \in segs : n.id # s.id

Beside(segs, new) ==
  \A n \in new, s \in segs : n.parent # None /\ Siblings(n, s) => ~Overlap(n, s)

LEMMA ReplacedSound ==
  ASSUME NEW segs, Sound(segs), NEW gone, NEW new, Fitting(segs \ gone, new)
  PROVE  Sound((segs \ gone) \cup new)
<1>1. IsFiniteSet((segs \ gone) \cup new)
  BY FS_Difference, FS_Union DEF Sound, Fitting
<1> QED BY <1>1 DEF Sound, Fitting

LEMMA ReplacedApart ==
  ASSUME NEW segs, Sound(segs), Apart(segs), NEW gone, NEW new, Sound(new), Apart(new),
         Beside(segs \ gone, new)
  PROVE  Apart((segs \ gone) \cup new)
<1> SUFFICES ASSUME NEW s \in (segs \ gone) \cup new, NEW t \in (segs \ gone) \cup new,
                    s.parent # None, Siblings(s, t)
             PROVE  ~Overlap(s, t)
  BY DEF Apart
<1>1. Siblings(t, s) /\ t.parent # None
  BY DEF Siblings
<1>2. \A u \in segs \cup new : u.from \in Int /\ u.to \in Int
  BY DEF Sound, Segments
<1>3. Overlap(s, t) <=> Overlap(t, s)
  BY <1>2 DEF Overlap
<1>4. CASE s \in segs /\ t \in segs
  BY <1>4 DEF Apart
<1>5. CASE s \in new /\ t \in new
  BY <1>5 DEF Apart
<1>6. CASE s \in new /\ t \in segs \ gone
  BY <1>6 DEF Beside
<1>7. CASE s \in segs \ gone /\ t \in new
  BY <1>1, <1>3, <1>7 DEF Beside
<1> QED BY <1>4, <1>5, <1>6, <1>7

Kept(segs, rev) == Sound(Applied(segs, rev)) /\ (Apart(segs) => Apart(Applied(segs, rev)))

LEMMA UpdateKeeps ==
  ASSUME NEW segs, Sound(segs), NEW rev \in Revisions, Fits(segs, rev), rev.operation = "update"
  PROVE  Kept(segs, rev)
<1>1. PICK targets : targets = TargetIds(segs, rev)
  OBVIOUS
<1>2. ValidUpdate(segs, targets, rev) /\ Resolvable(segs, rev)
  BY <1>1 DEF Fits, ValidOperation
<1>3. targets[1] \in Ids(segs)
  <2>1. Len(targets) = 1
    BY <1>2 DEF ValidUpdate
  <2> QED BY <1>1, <1>2, <2>1, OneTarget
<1>4. PICK old \in segs : old = Seg(segs, targets[1]) /\ old.id = targets[1]
  BY <1>3, SegFound
<1>5. PICK from \in Int, to \in Int : from = Override(old.from, rev.from) /\ to = Override(old.to, rev.to)
  BY <1>4 DEF Sound, Segments, Revisions, Override
<1>6. old \in Segments
  BY <1>4 DEF Sound
<1>7. PICK new : new = [old EXCEPT !.from = from, !.to = to]
  OBVIOUS
<1>8. /\ new \in Segments /\ new.from = from /\ new.to = to
      /\ new.id = old.id /\ new.kind = old.kind /\ new.parent = old.parent
  BY <1>5, <1>6, <1>7 DEF Segments
<1>9. new = [old EXCEPT !.from = Override(@, rev.from), !.to = Override(@, rev.to)]
  BY <1>5, <1>6, <1>7 DEF Segments
<1>10. from < to /\ (new.parent # None => FreeOf(segs, new))
  BY <1>2, <1>4, <1>8, <1>9 DEF ValidUpdate
<1>11. Applied(segs, rev) = (segs \ {old}) \cup {new}
  <2>1. Applied(segs, rev) =
          {IF s.id = targets[1]
           THEN [s EXCEPT !.from = Override(@, rev.from), !.to = Override(@, rev.to)]
           ELSE s : s \in segs}
    BY <1>1, Zenon DEF Applied
  <2>2. \A s \in segs : s.id = targets[1] <=> s = old
    BY <1>4 DEF Sound
  <2> DEFINE Changed(s) ==
        IF s.id = targets[1]
        THEN [s EXCEPT !.from = Override(@, rev.from), !.to = Override(@, rev.to)] ELSE s
  <2>3. Applied(segs, rev) = {Changed(s) : s \in segs}
    BY <2>1, Zenon
  <2>4. Changed(old) = new
    BY <1>4, <1>9
  <2>5. \A s \in segs : s # old => Changed(s) = s
    BY <2>2
  <2> HIDE DEF Changed
  <2> QED BY <2>3, <2>4, <2>5
<1>12. Fitting(segs \ {old}, {new}) /\ Sound({new})
  <2>1. IsFiniteSet({new})
    BY FS_Singleton
  <2>2. Sound({new})
    BY <1>8, <1>10, <2>1 DEF Sound
  <2> QED BY <1>4, <1>8, <2>2 DEF Fitting, Sound
<1>13. Apart({new})
  BY DEF Apart, Siblings
<1>14. Beside(segs \ {old}, {new})
  <2> SUFFICES ASSUME NEW s \in segs, new.parent # None, Siblings(new, s)
               PROVE  ~Overlap(new, s)
    BY DEF Beside
  <2>1. Siblings(s, new)
    BY DEF Siblings
  <2> QED BY <1>10, <2>1 DEF FreeOf
<1>15. PICK gone, put : gone = {old} /\ put = {new}
  OBVIOUS
<1>16. /\ Applied(segs, rev) = (segs \ gone) \cup put /\ Fitting(segs \ gone, put) /\ Sound(put)
      /\ Apart(put) /\ (Apart(segs) => Beside(segs \ gone, put))
  BY <1>11, <1>12, <1>13, <1>14, <1>15
<1>16a. Sound((segs \ gone) \cup put)
  BY <1>16, ReplacedSound
<1>16b. Apart(segs) => Apart((segs \ gone) \cup put)
  BY <1>16, ReplacedApart
<1> QED BY <1>16, <1>16a, <1>16b DEF Kept

(* The segment that a replacement becomes.                                     *)
Became(n, kind, model_) ==
  [id |-> n.id, kind |-> kind, from |-> n.from, to |-> n.to, parent |-> n.parent,
   model |-> model_]

LEMMA SplitKeeps ==
  ASSUME NEW segs, Sound(segs), NEW rev \in Revisions, Fits(segs, rev), rev.operation = "split"
  PROVE  Kept(segs, rev)
<1>1. PICK targets : targets = TargetIds(segs, rev)
  OBVIOUS
<1>2. ValidSplit(segs, targets, rev) /\ Resolvable(segs, rev)
  BY <1>1 DEF Fits, ValidOperation
<1>3. /\ targets \in Seq(Id) /\ Len(targets) = 1 /\ targets[1] \in Ids(segs)
  <2>1. Len(targets) = 1
    BY <1>2 DEF ValidSplit
  <2> QED BY <1>1, <1>2, <2>1, OneTarget
<1>4. PICK old \in segs : old = Seg(segs, targets[1]) /\ old.id = targets[1]
  BY <1>3, SegFound
<1>5. old \in Segments /\ old.from < old.to
  BY <1>4 DEF Sound
<1>6. /\ rev.replacements \in Seq(Replacement) /\ Len(rev.replacements) = 2
      /\ DOMAIN rev.replacements = 1..2
  BY <1>2, LenProperties DEF ValidSplit, Revisions
<1>7. PICK x \in Replacement, y \in Replacement :
        x = rev.replacements[1] /\ y = rev.replacements[2]
  BY <1>6, ElementOfSeq
<1>8. PICK first \in {x, y}, last \in {x, y} : first = Leftmost({x, y}) /\ last = Rightmost({x, y})
  <2>1. \E s \in {x, y} : \A t \in {x, y} : s.from <= t.from
    BY DEF Replacement
  <2>2. \E s \in {x, y} : \A t \in {x, y} : s.to >= t.to
    BY DEF Replacement
  <2> QED BY <2>1, <2>2 DEF Leftmost, Rightmost
<1>9. /\ first.from = old.from /\ first.to = last.from /\ last.to = old.to
      /\ x.parent = old.parent /\ y.parent = old.parent
  BY <1>2, <1>4, <1>7, <1>8 DEF ValidSplit
<1>10. /\ x.from \in Int /\ x.to \in Int /\ x.from < x.to /\ x.id \in Id
       /\ y.from \in Int /\ y.to \in Int /\ y.from < y.to /\ y.id \in Id
       /\ x.parent \in ParentId /\ y.parent \in ParentId
  BY DEF Replacement
<1>11. {x, y} = {first, last} /\ first # last
  BY <1>8, <1>9, <1>10
<1>12. /\ x.id # y.id
       /\ \A s \in segs \ {old} : s.id # x.id /\ s.id # y.id
  <2>1. NewIds(segs, targets, rev)
    BY <1>2 DEF ValidSplit
  <2>2. x.id # y.id
    BY <1>6, <1>7, <2>1 DEF NewIds
  <2>3. x.id \notin Ids(segs) \ {targets[k] : k \in DOMAIN targets} /\
        y.id \notin Ids(segs) \ {targets[k] : k \in DOMAIN targets}
    BY <1>6, <1>7, <2>1 DEF NewIds
  <2>4. {targets[k] : k \in DOMAIN targets} = {old.id}
    BY <1>3, <1>4
  <2>5. \A s \in segs \ {old} : s.id \in Ids(segs) \ {old.id}
    BY <1>4 DEF Sound, Ids
  <2> QED BY <2>2, <2>3, <2>4, <2>5
<1>13. PICK a, b : a = Became(first, old.kind, old.model) /\ b = Became(last, old.kind, old.model)
  OBVIOUS
<1>14. /\ first.id \in Id /\ first.from \in Int /\ first.to \in Int /\ first.parent = old.parent
       /\ last.id \in Id /\ last.from \in Int /\ last.to \in Int /\ last.parent = old.parent
       /\ first.from < first.to /\ last.from < last.to /\ first.id # last.id
       /\ \A s \in segs \ {old} : s.id # first.id /\ s.id # last.id
  BY <1>9, <1>10, <1>11, <1>12
<1>15. /\ a.id = first.id /\ a.kind = old.kind /\ a.from = first.from /\ a.to = first.to
       /\ a.parent = old.parent /\ a \in Segments
       /\ b.id = last.id /\ b.kind = old.kind /\ b.from = last.from /\ b.to = last.to
       /\ b.parent = old.parent /\ b \in Segments
  BY <1>5, <1>13, <1>14 DEF Became, Segments
<1>16. Applied(segs, rev) = (segs \ {old}) \cup {a, b}
  <2>1. Pair(segs, targets) = {old}
    BY <1>3, <1>4 DEF Pair
  <2>2. Leftmost({old}) = old
    BY <1>5 DEF Leftmost, Segments
  <2>3. {rev.replacements[i] : i \in DOMAIN rev.replacements} = {first, last}
    BY <1>6, <1>7, <1>11
  <2>4. Applied(segs, rev) =
          (segs \ Pair(segs, targets)) \cup
          {Became(n, Leftmost(Pair(segs, targets)).kind, Seg(segs, targets[1]).model) :
             n \in {rev.replacements[i] : i \in DOMAIN rev.replacements}}
    BY <1>1, Zenon DEF Applied, Became
  <2>5. Applied(segs, rev) =
          (segs \ {old}) \cup {Became(n, old.kind, old.model) : n \in {first, last}}
    BY <1>4, <2>1, <2>2, <2>3, <2>4
  <2> QED BY <1>13, <2>5
<1>17. Sound({a, b}) /\ Fitting(segs \ {old}, {a, b})
  <2>1. IsFiniteSet({a, b})
    <3>1. IsFiniteSet({a})
      BY FS_Singleton
    <3>2. IsFiniteSet({a} \cup {b})
      BY <3>1, FS_AddElement
    <3>3. {a} \cup {b} = {a, b}
      OBVIOUS
    <3> QED BY <3>2, <3>3
  <2>2. Sound({a, b})
    BY <1>14, <1>15, <2>1 DEF Sound
  <2> QED BY <1>14, <1>15, <2>2 DEF Fitting
<1>18. Apart({a, b})
  BY <1>9, <1>14, <1>15 DEF Apart, Siblings, Overlap
<1>19. Apart(segs) => Beside(segs \ {old}, {a, b})
  <2> SUFFICES ASSUME Apart(segs), NEW n \in {a, b}, NEW s \in segs \ {old},
                      n.parent # None, Siblings(n, s)
               PROVE  ~Overlap(n, s)
    BY DEF Beside
  <2>1. Siblings(old, s) /\ old.parent # None
    BY <1>4, <1>15 DEF Siblings, Sound
  <2>2. ~Overlap(old, s)
    BY <2>1 DEF Apart
  <2>3. s.from \in Int /\ s.to \in Int /\ old.from \in Int /\ old.to \in Int
    BY <1>5 DEF Sound, Segments
  <2> QED BY <1>9, <1>14, <1>15, <2>2, <2>3 DEF Overlap
<1>20. PICK gone, put : gone = {old} /\ put = {a, b}
  OBVIOUS
<1>21. /\ Applied(segs, rev) = (segs \ gone) \cup put /\ Fitting(segs \ gone, put) /\ Sound(put)
      /\ Apart(put) /\ (Apart(segs) => Beside(segs \ gone, put))
  BY <1>16, <1>17, <1>18, <1>19, <1>20
<1>21a. Sound((segs \ gone) \cup put)
  BY <1>21, ReplacedSound
<1>21b. Apart(segs) => Apart((segs \ gone) \cup put)
  BY <1>21, ReplacedApart
<1> QED BY <1>21, <1>21a, <1>21b DEF Kept


LEMMA TwoTargets ==
  ASSUME NEW segs, Sound(segs), NEW rev \in Revisions, Resolvable(segs, rev),
         NEW targets, targets = TargetIds(segs, rev), Len(targets) = 2
  PROVE  /\ targets \in Seq(Id) /\ targets[1] \in Ids(segs) /\ targets[2] \in Ids(segs)
         /\ targets[1] # targets[2]
<1>1. /\ targets \in Seq(Id) /\ Len(targets) = Len(rev.targets)
      /\ \A i \in 1..Len(rev.targets) : targets[i] \in Ids(segs)
      /\ \A i, j \in 1..Len(rev.targets) : i # j => targets[i] # targets[j]
  BY TargetsFound, Zenon
<1>2. Len(rev.targets) = 2 /\ 1 \in 1..2 /\ 2 \in 1..2 /\ 1 # 2
  BY <1>1
<1> QED BY <1>1, <1>2

LEMMA MergeKeeps ==
  ASSUME NEW segs, Sound(segs), NEW rev \in Revisions, Fits(segs, rev), rev.operation = "merge"
  PROVE  Kept(segs, rev)
<1>1. PICK targets : targets = TargetIds(segs, rev)
  OBVIOUS
<1>2. ValidMerge(segs, targets, rev) /\ Resolvable(segs, rev)
  BY <1>1 DEF Fits, ValidOperation
<1>3. /\ targets \in Seq(Id) /\ Len(targets) = 2 /\ targets[1] # targets[2]
      /\ targets[1] \in Ids(segs) /\ targets[2] \in Ids(segs)
  <2>1. Len(targets) = 2
    BY <1>2 DEF ValidMerge
  <2> QED BY <1>1, <1>2, <2>1, TwoTargets
<1>4. PICK one \in segs, two \in segs :
        /\ one = Seg(segs, targets[1]) /\ one.id = targets[1]
        /\ two = Seg(segs, targets[2]) /\ two.id = targets[2]
  BY <1>3, SegFound
<1>5. /\ one \in Segments /\ one.from < one.to /\ two \in Segments /\ two.from < two.to
      /\ one # two
  BY <1>3, <1>4 DEF Sound
<1>6. Pair(segs, targets) = {one, two} /\ {targets[k] : k \in DOMAIN targets} = {one.id, two.id}
  <2>1. DOMAIN targets = 1..2
    BY <1>3, LenProperties
  <2>2. 1..2 = {1, 2}
    OBVIOUS
  <2> QED BY <1>4, <2>1, <2>2 DEF Pair
<1>7. PICK left \in {one, two} : left = Leftmost({one, two})
  <2>1. \E s \in {one, two} : \A t \in {one, two} : s.from <= t.from
    BY <1>5 DEF Segments
  <2> QED BY <2>1 DEF Leftmost
<1>8. PICK right \in {one, two} : right = (CHOOSE s \in {one, two} : s # left) /\ right # left
  BY <1>5
<1>9. /\ rev.replacements \in Seq(Replacement) /\ Len(rev.replacements) = 1
      /\ DOMAIN rev.replacements = 1..1
  BY <1>2, LenProperties DEF ValidMerge, Revisions
<1>10. PICK x \in Replacement : x = rev.replacements[1]
  BY <1>9, ElementOfSeq
<1>11. /\ left.kind = right.kind /\ left.parent = right.parent /\ left.to = right.from
       /\ x.from = left.from /\ x.to = right.to /\ x.parent = left.parent
       /\ NewIds(segs, targets, rev)
  BY <1>2, <1>6, <1>7, <1>8, <1>10 DEF ValidMerge
<1>12. x.from \in Int /\ x.to \in Int /\ x.from < x.to /\ x.id \in Id
  BY DEF Replacement
<1>13. {one, two} = {left, right} /\ left \in segs /\ right \in segs
  BY <1>8
<1>14. /\ left.from \in Int /\ left.to \in Int /\ left.from < left.to /\ left.kind \in Kind
       /\ right.from \in Int /\ right.to \in Int /\ right.from < right.to
       /\ left.parent \in ParentId /\ one.model \in Ids(UNION Alignment)
  BY <1>5, <1>13 DEF Sound, Segments
<1>15. \A s \in segs \ {left, right} : s.id # x.id
  <2>1. x.id \notin Ids(segs) \ {one.id, two.id}
    <3>1. x.id \notin Ids(segs) \ {targets[k] : k \in DOMAIN targets}
      BY <1>9, <1>10, <1>11 DEF NewIds
    <3> QED BY <1>6, <3>1
  <2>2. \A s \in segs \ {one, two} : s.id \in Ids(segs) \ {one.id, two.id}
    BY <1>4 DEF Sound, Ids
  <2> QED BY <1>13, <2>1, <2>2
<1>16. PICK a : a = Became(x, left.kind, one.model)
  OBVIOUS
<1>17. /\ a.id = x.id /\ a.kind = left.kind /\ a.from = left.from /\ a.to = right.to
       /\ a.parent = left.parent /\ a \in Segments /\ a.from < a.to
  BY <1>11, <1>12, <1>14, <1>16 DEF Became, Segments
<1>18. Applied(segs, rev) = (segs \ {left, right}) \cup {a}
  <2>1. {rev.replacements[i] : i \in DOMAIN rev.replacements} = {x}
    BY <1>9, <1>10
  <2>2. Applied(segs, rev) =
          (segs \ Pair(segs, targets)) \cup
          {Became(n, Leftmost(Pair(segs, targets)).kind, Seg(segs, targets[1]).model) :
             n \in {rev.replacements[i] : i \in DOMAIN rev.replacements}}
    BY <1>1, Zenon DEF Applied, Became
  <2>3. Applied(segs, rev) =
          (segs \ {one, two}) \cup {Became(n, left.kind, one.model) : n \in {x}}
    BY <1>4, <1>6, <1>7, <2>1, <2>2
  <2> QED BY <1>13, <1>16, <2>3
<1>19. Sound({a}) /\ Fitting(segs \ {left, right}, {a})
  <2>1. IsFiniteSet({a})
    BY FS_Singleton
  <2>2. Sound({a})
    BY <1>17, <2>1 DEF Sound
  <2> QED BY <1>15, <1>17, <2>2 DEF Fitting
<1>20. Apart({a})
  BY DEF Apart, Siblings
<1>21. Apart(segs) => Beside(segs \ {left, right}, {a})
  <2> SUFFICES ASSUME Apart(segs), NEW s \in segs \ {left, right},
                      a.parent # None, Siblings(a, s)
               PROVE  ~Overlap(a, s)
    BY DEF Beside
  <2>1. Siblings(left, s) /\ Siblings(right, s) /\ left.parent # None /\ right.parent # None
    BY <1>11, <1>13, <1>17 DEF Siblings, Sound
  <2>2. ~Overlap(left, s) /\ ~Overlap(right, s)
    BY <1>13, <2>1 DEF Apart
  <2>3. s.from \in Int /\ s.to \in Int /\ s.from < s.to
    BY DEF Sound, Segments
  <2> QED BY <1>11, <1>14, <1>17, <2>2, <2>3 DEF Overlap
<1>22. PICK gone, put : gone = {left, right} /\ put = {a}
  OBVIOUS
<1>23. /\ Applied(segs, rev) = (segs \ gone) \cup put /\ Fitting(segs \ gone, put) /\ Sound(put)
       /\ Apart(put) /\ (Apart(segs) => Beside(segs \ gone, put))
  BY <1>18, <1>19, <1>20, <1>21, <1>22
<1>24. Sound((segs \ gone) \cup put)
  BY <1>23, ReplacedSound
<1>25. Apart(segs) => Apart((segs \ gone) \cup put)
  BY <1>23, ReplacedApart
<1> QED BY <1>23, <1>24, <1>25 DEF Kept

LEMMA AppliedKeeps ==
  ASSUME NEW segs, Sound(segs), NEW rev \in Revisions, Fits(segs, rev)
  PROVE  Kept(segs, rev)
<1>1. rev.operation \in {"update", "split", "merge"}
  BY DEF Revisions
<1> QED BY <1>1, UpdateKeeps, SplitKeeps, MergeKeeps

(* The targets that a save puts down name the same segments when it is replayed. *)
LEMMA ResolvedOnce ==
  ASSUME NEW segs, Sound(segs), NEW rev \in Revisions, Fits(segs, rev),
         NEW put, put = [rev EXCEPT !.targets = TargetIds(segs, rev)]
  PROVE  put \in Revisions /\ Fits(segs, put)
<1>1. Resolvable(segs, rev) /\ ValidOperation(segs, TargetIds(segs, rev), rev)
  BY DEF Fits
<1>2. PICK targets : targets = TargetIds(segs, rev)
  OBVIOUS
<1>3. PICK n \in Nat : n = Len(rev.targets)
  BY LenProperties DEF Revisions
<1>4. /\ targets \in Seq(Id) /\ Len(targets) = n
      /\ \A i \in 1..n : targets[i] \in Ids(segs)
      /\ \A i, j \in 1..n : i # j => targets[i] # targets[j]
  <2>1. /\ targets \in Seq(Id) /\ Len(targets) = Len(rev.targets)
        /\ \A i \in 1..Len(rev.targets) : targets[i] \in Ids(segs)
        /\ \A i, j \in 1..Len(rev.targets) : i # j => targets[i] # targets[j]
    BY <1>1, <1>2, TargetsFound, Zenon
  <2> QED BY <1>3, <2>1
<1>5. put = [rev EXCEPT !.targets = targets]
  BY <1>2
<1>6. /\ put \in Revisions /\ put.targets = targets /\ put.operation = rev.operation
      /\ put.replacements = rev.replacements /\ put.from = rev.from /\ put.to = rev.to
  BY <1>4, <1>5 DEF Revisions
<1>7. DOMAIN targets = 1..n
  BY <1>4, LenProperties
<1>8. \A i \in 1..n : Resolved(segs, targets[i]) = {targets[i]}
  BY <1>4 DEF Resolved
<1>9. Resolvable(segs, put)
  <2>1. ASSUME NEW i \in 1..n PROVE Cardinality(Resolved(segs, targets[i])) = 1
    BY <1>8, FS_Singleton
  <2>2. ASSUME NEW i \in 1..n, NEW j \in 1..n, i # j
        PROVE  Resolved(segs, targets[i]) # Resolved(segs, targets[j])
    BY <1>4, <1>8, <2>2
  <2> QED BY <1>6, <1>7, <2>1, <2>2 DEF Resolvable
<1>10. TargetIds(segs, put) = targets
  <2>1. TargetIds(segs, put) = [i \in 1..n |-> CHOOSE id \in Resolved(segs, targets[i]) : TRUE]
    <3>1. TargetIds(segs, put) =
            [i \in DOMAIN put.targets |-> CHOOSE id \in Resolved(segs, put.targets[i]) : TRUE]
      BY DEF TargetIds
    <3>2. put.targets = targets
      BY <1>6
    <3> QED BY <1>7, <3>1, <3>2
  <2>2. \A i \in 1..n : (CHOOSE id \in Resolved(segs, targets[i]) : TRUE) = targets[i]
    BY <1>8
  <2>3. targets = [i \in 1..n |-> targets[i]]
    BY <1>4, <1>7, SeqDef
  <2> QED BY <2>1, <2>2, <2>3
<1>11. ValidOperation(segs, targets, put)
  BY <1>1, <1>2, <1>6 DEF ValidOperation, ValidUpdate, ValidSplit, ValidMerge, NewIds
<1> QED BY <1>6, <1>9, <1>10, <1>11 DEF Fits


-----------------------------------------------------------------------------
(* The replay.                                                                  *)
Start(segs) == [ok |-> TRUE, segs |-> segs, version |-> 0]

Run(segs, revs, n, run) ==
  /\ run[0] = Start(segs)
  /\ \A k \in 1..n : run[k] = ReplayStep(run[k - 1], revs[k])

(* The replay of a history is the end of a run that goes through it step by step. *)
LEMMA ReplayRuns ==
  ASSUME NEW segs, NEW revs, NEW n \in Nat, Len(revs) = n
  PROVE  \E run : Run(segs, revs, n, run) /\ Replay(segs, revs) = run[n]
<1> DEFINE Def(k, run) ==
             run = [i \in 0..k |-> IF i = 0 THEN Start(segs)
                                   ELSE ReplayStep(run[i - 1], revs[i])]
           Missing == {k \in 0..n : ~\E run : Def(k, run)}
<1>a. /\ Missing \in SUBSET (0..n)
      /\ \A k \in 0..n : k \in Missing \/ \E run : Def(k, run)
      /\ \A k \in Missing : \A run : ~Def(k, run)
  <2> HIDE DEF Def
  <2> QED OBVIOUS
<1> HIDE DEF Missing
<1>1. Missing = {}
  <2> SUFFICES ASSUME Missing # {} PROVE FALSE
    OBVIOUS
  <2>1. Missing \in SUBSET Nat
    BY <1>a
  <2>2. PICK k \in Missing : \A j \in Missing : k <= j
    BY <2>1, LeastNumber
  <2>3. CASE k = 0
    <3>1. PICK run : run = [i \in 0..0 |-> Start(segs)]
      OBVIOUS
    <3>2. run = [i \in 0..0 |-> IF i = 0 THEN Start(segs) ELSE ReplayStep(run[i - 1], revs[i])]
      BY <3>1
    <3>3. Def(k, run)
      BY <2>3, <3>2
    <3> QED BY <1>a, <2>2, <3>3, Zenon
  <2>4. CASE k # 0
    <3>1. k - 1 \in 0..n /\ k - 1 \notin Missing /\ k \in 0..n
      BY <1>a, <2>2, <2>4
    <3>2. PICK before : Def(k - 1, before)
      <4> HIDE DEF Def
      <4> QED BY <1>a, <3>1
    <3>3. PICK run : run = [i \in 0..k |-> IF i = k THEN ReplayStep(before[k - 1], revs[k])
                                          ELSE before[i]]
      OBVIOUS
    <3>4. \A i \in 0..(k - 1) : run[i] = before[i]
      BY <3>1, <3>3
    <3>5. ASSUME NEW i \in 0..k
          PROVE  run[i] = IF i = 0 THEN Start(segs) ELSE ReplayStep(run[i - 1], revs[i])
      <4>1. CASE i = k
        <5>1. run[i] = ReplayStep(before[k - 1], revs[k]) /\ run[k - 1] = before[k - 1]
          BY <2>4, <3>1, <3>3, <3>4, <4>1
        <5> QED BY <2>4, <4>1, <5>1
      <4>2. CASE i # k /\ i # 0
        <5>1. i \in 0..(k - 1) /\ i - 1 \in 0..(k - 1)
          BY <3>1, <4>2
        <5>2. before[i] = ReplayStep(before[i - 1], revs[i])
          BY <3>2, <4>2, <5>1
        <5> QED BY <3>4, <4>2, <5>1, <5>2
      <4>3. CASE i # k /\ i = 0
        <5>1. i \in 0..(k - 1)
          BY <3>1, <4>3
        <5>2. before[i] = Start(segs)
          BY <3>2, <4>3, <5>1
        <5> QED BY <3>4, <4>3, <5>1, <5>2
      <4> QED BY <4>1, <4>2, <4>3
    <3>6. run = [i \in 0..k |-> run[i]]
      BY <3>3
    <3>7. Def(k, run)
      BY <3>5, <3>6
    <3> QED BY <1>a, <2>2, <3>7, Zenon
  <2> QED BY <2>3, <2>4
<1>2. \E run : Def(n, run)
  <2> HIDE DEF Def
  <2> QED BY <1>a, <1>1
<1>3. PICK run : run = (CHOOSE r : Def(n, r)) /\ Def(n, run)
  BY <1>2
<1>4. Replay(segs, revs) = run[n]
  BY <1>3 DEF Replay, Start
<1>5. run[0] = Start(segs)
  BY <1>3
<1>6. \A k \in 1..n : run[k] = ReplayStep(run[k - 1], revs[k])
  BY <1>3
<1> QED BY <1>4, <1>5, <1>6 DEF Run


Topology(top) ==
  /\ top \in [ok: BOOLEAN, segs: SUBSET Segments, version: Nat]
  /\ Sound(top.segs)

LEMMA StepKeeps ==
  ASSUME NEW top, Topology(top), NEW rev \in Revisions
  PROVE  /\ Topology(ReplayStep(top, rev))
         /\ Apart(top.segs) => Apart(ReplayStep(top, rev).segs)
<1>1. PICK after : after = ReplayStep(top, rev)
  OBVIOUS
<1>2. top \in [ok: BOOLEAN, segs: SUBSET Segments, version: Nat] /\ Sound(top.segs)
  BY DEF Topology
<1>3. CASE ~top.ok \/ (Fits(top.segs, rev) /\ rev.state # "accepted")
  <2>1. after = top
    BY <1>1, <1>3 DEF ReplayStep
  <2> QED BY <1>1, <2>1
<1>4. CASE top.ok /\ ~Fits(top.segs, rev)
  <2>1. after = [top EXCEPT !.ok = FALSE]
    BY <1>1, <1>4 DEF ReplayStep
  <2>2. after \in [ok: BOOLEAN, segs: SUBSET Segments, version: Nat] /\ after.segs = top.segs
    BY <1>2, <2>1
  <2> QED BY <1>1, <1>2, <2>2 DEF Topology
<1>5. CASE top.ok /\ Fits(top.segs, rev) /\ rev.state = "accepted"
  <2>1. PICK segs : segs = Applied(top.segs, rev)
    OBVIOUS
  <2>2. Sound(segs) /\ (Apart(top.segs) => Apart(segs))
    BY <1>2, <1>5, <2>1, AppliedKeeps DEF Kept
  <2>a. PICK version \in Nat : version = top.version + 1
    BY <1>2
  <2>3. after = [top EXCEPT !.segs = segs, !.version = version]
    BY <1>1, <1>2, <1>5, <2>1, <2>a DEF ReplayStep
  <2>4. after \in [ok: BOOLEAN, segs: SUBSET Segments, version: Nat] /\ after.segs = segs
    BY <1>2, <2>2, <2>3 DEF Sound
  <2> QED BY <1>1, <2>2, <2>4 DEF Topology
<1> QED BY <1>2, <1>3, <1>4, <1>5

(* Whatever was accepted, in whatever order: the topology is sound, and siblings *)
(* stay apart.                                                                   *)
LEMMA RunSound ==
  ASSUME NEW segs, Sound(segs), NEW revs \in Seq(Revisions), NEW n \in Nat, Len(revs) = n,
         NEW run, Run(segs, revs, n, run)
  PROVE  \A k \in 0..n : Topology(run[k]) /\ (Apart(segs) => Apart(run[k].segs))
<1> DEFINE Good(k) == Topology(run[k]) /\ (Apart(segs) => Apart(run[k].segs))
<1>1. Good(0)
  <2>1. PICK first : first = Start(segs)
    OBVIOUS
  <2>2. first \in [ok: BOOLEAN, segs: SUBSET Segments, version: Nat] /\ first.segs = segs
    BY <2>1 DEF Start, Sound
  <2>3. run[0] = first
    BY <2>1 DEF Run
  <2> QED BY <2>2, <2>3 DEF Topology
<1>2. ASSUME NEW k \in 1..n, Good(k - 1) PROVE Good(k)
  <2>1. run[k] = ReplayStep(run[k - 1], revs[k])
    BY DEF Run
  <2>2. revs[k] \in Revisions
    BY ElementOfSeq
  <2> QED BY <1>2, <2>1, <2>2, StepKeeps
<1> HIDE DEF Good
<1>3. {k \in 0..n : ~Good(k)} = {}
  <2> DEFINE Bad == {k \in 0..n : ~Good(k)}
  <2> SUFFICES ASSUME Bad # {} PROVE FALSE
    OBVIOUS
  <2>1. PICK k \in Bad : \A j \in Bad : k <= j
    <3>1. Bad \in SUBSET Nat
      OBVIOUS
    <3> HIDE DEF Bad
    <3> QED BY <3>1, LeastNumber
  <2>2. k # 0
    BY <1>1
  <2>3. k \in 1..n /\ k - 1 \in 0..n /\ k - 1 \notin Bad
    BY <2>1, <2>2
  <2> QED BY <1>2, <2>3
<1>4. \A k \in 0..n : Good(k)
  BY <1>3
<1> QED BY <1>4 DEF Good

AcceptedUpTo(revs, k) == {revs[i].number : i \in {j \in 1..k : revs[j].state = "accepted"}}

(* The version counts the accepted revisions.                                  *)
LEMMA RunCounts ==
  ASSUME NEW segs, Sound(segs), NEW revs \in Seq(Revisions), NEW n \in Nat, Len(revs) = n,
         \A i, j \in 1..n : revs[i].number = revs[j].number => i = j,
         NEW run, Run(segs, revs, n, run)
  PROVE  \A k \in 0..n : /\ IsFiniteSet(AcceptedUpTo(revs, k))
                         /\ run[k].ok => run[k].version = Cardinality(AcceptedUpTo(revs, k))
<1> DEFINE Good(k) == /\ IsFiniteSet(AcceptedUpTo(revs, k))
                      /\ run[k].ok => run[k].version = Cardinality(AcceptedUpTo(revs, k))
<1>1. Good(0)
  <2>1. run[0].version = 0
    BY DEF Run, Start
  <2>2. AcceptedUpTo(revs, 0) = {}
    BY DEF AcceptedUpTo
  <2> QED BY <2>1, <2>2, FS_EmptySet
<1>2. ASSUME NEW k \in 1..n, Good(k - 1) PROVE Good(k)
  <2>1. PICK before, after, rev : before = run[k - 1] /\ after = run[k] /\ rev = revs[k]
    OBVIOUS
  <2>2. after = ReplayStep(before, rev) /\ Topology(before) /\ rev \in Revisions
    BY <2>1, RunSound, ElementOfSeq DEF Run
  <2>3. before \in [ok: BOOLEAN, segs: SUBSET Segments, version: Nat]
    BY <2>2 DEF Topology
  <2>4. PICK old : old = AcceptedUpTo(revs, k - 1)
    OBVIOUS
  <2>5. IsFiniteSet(old) /\ (before.ok => before.version = Cardinality(old))
    BY <1>2, <2>1, <2>4
  <2>6. CASE rev.state # "accepted"
    <3>1. AcceptedUpTo(revs, k) = old
      BY <2>1, <2>4, <2>6 DEF AcceptedUpTo
    <3>2. after.ok => after = before
      BY <2>2, <2>3, <2>6 DEF ReplayStep
    <3> QED BY <2>1, <2>5, <3>1, <3>2
  <2>7. CASE rev.state = "accepted"
    <3>1. AcceptedUpTo(revs, k) = old \cup {rev.number}
      BY <2>1, <2>4, <2>7 DEF AcceptedUpTo
    <3>2. rev.number \notin old
      BY <2>1, <2>4 DEF AcceptedUpTo
    <3>3. /\ IsFiniteSet(old \cup {rev.number})
          /\ Cardinality(old \cup {rev.number}) = Cardinality(old) + 1
      BY <2>5, <3>2, FS_AddElement
    <3>4. after.ok => before.ok /\ after.version = before.version + 1
      <4>1. SUFFICES ASSUME after.ok PROVE before.ok /\ after.version = before.version + 1
        OBVIOUS
      <4>2. before.ok
        BY <2>2, <2>3, <4>1 DEF ReplayStep
      <4>3. Fits(before.segs, rev)
        <5> SUFFICES ASSUME ~Fits(before.segs, rev) PROVE FALSE
          OBVIOUS
        <5>1. after = [before EXCEPT !.ok = FALSE]
          BY <2>2, <4>2 DEF ReplayStep
        <5> QED BY <2>3, <4>1, <5>1
      <4>4. after = [before EXCEPT !.segs = Applied(@, rev), !.version = @ + 1]
        BY <2>2, <2>7, <4>2, <4>3, Zenon DEF ReplayStep
      <4>5. PICK segments : segments = Applied(before.segs, rev)
        OBVIOUS
      <4>6. after = [before EXCEPT !.segs = segments, !.version = before.version + 1]
        BY <2>3, <4>4, <4>5
      <4> QED BY <2>3, <4>2, <4>6
    <3> QED BY <2>1, <2>5, <3>1, <3>3, <3>4
  <2> QED BY <2>6, <2>7
<1> HIDE DEF Good
<1>3. {k \in 0..n : ~Good(k)} = {}
  <2> DEFINE Bad == {k \in 0..n : ~Good(k)}
  <2> SUFFICES ASSUME Bad # {} PROVE FALSE
    OBVIOUS
  <2>1. PICK k \in Bad : \A j \in Bad : k <= j
    <3>1. Bad \in SUBSET Nat
      OBVIOUS
    <3> HIDE DEF Bad
    <3> QED BY <3>1, LeastNumber
  <2>2. k # 0
    BY <1>1
  <2>3. k \in 1..n /\ k - 1 \in 0..n /\ k - 1 \notin Bad
    BY <2>1, <2>2
  <2> QED BY <1>2, <2>3
<1>4. \A k \in 0..n : Good(k)
  BY <1>3
<1> QED BY <1>4 DEF Good

(* A revision at the end of a history is the next step of its replay.          *)
LEMMA ReplayAppended ==
  ASSUME NEW segs, NEW revs \in Seq(Revisions), NEW rev \in Revisions
  PROVE  Replay(segs, Append(revs, rev)) = ReplayStep(Replay(segs, revs), rev)
<1>1. PICK n \in Nat : n = Len(revs)
  BY LenProperties
<1>2. PICK longer : longer = Append(revs, rev)
  OBVIOUS
<1>3. /\ longer \in Seq(Revisions) /\ Len(longer) = n + 1 /\ longer[n + 1] = rev
      /\ \A i \in 1..n : longer[i] = revs[i]
  BY <1>1, <1>2, AppendProperties
<1>4. PICK short : Run(segs, revs, n, short) /\ Replay(segs, revs) = short[n]
  BY <1>1, ReplayRuns
<1>5. n + 1 \in Nat
  OBVIOUS
<1>6. PICK run : Run(segs, longer, n + 1, run) /\ Replay(segs, longer) = run[n + 1]
  BY <1>3, <1>5, ReplayRuns
<1> DEFINE Bad == {k \in 0..n : run[k] # short[k]}
<1>7. Bad = {}
  <2> SUFFICES ASSUME Bad # {} PROVE FALSE
    OBVIOUS
  <2>1. PICK k \in Bad : \A j \in Bad : k <= j
    <3>1. Bad \in SUBSET Nat
      OBVIOUS
    <3> HIDE DEF Bad
    <3> QED BY <3>1, LeastNumber
  <2>2. k # 0
    BY <1>4, <1>6, <2>1 DEF Run
  <2>3. k \in 1..n /\ k - 1 \in 0..n /\ k - 1 \notin Bad /\ k \in 1..(n + 1)
    BY <2>1, <2>2
  <2>4. run[k - 1] = short[k - 1]
    BY <2>3
  <2>5. run[k] = ReplayStep(run[k - 1], revs[k]) /\ short[k] = ReplayStep(short[k - 1], revs[k])
    BY <1>3, <1>4, <1>6, <2>3 DEF Run
  <2> QED BY <2>1, <2>4, <2>5
<1>8. run[n] = short[n]
  BY <1>7
<1>9. run[n + 1] = ReplayStep(run[n], rev)
  <2>1. n + 1 \in 1..(n + 1) /\ (n + 1) - 1 = n
    OBVIOUS
  <2>2. run[n + 1] = ReplayStep(run[(n + 1) - 1], longer[n + 1])
    BY <1>6, <2>1 DEF Run
  <2> QED BY <1>3, <2>1, <2>2
<1> QED BY <1>2, <1>4, <1>6, <1>8, <1>9


-----------------------------------------------------------------------------
(* The stored history: any order of revisions with the numbers that saves gave. *)
AcceptedNumbers == {rev.number : rev \in Accepted}

HistoryInv ==
  /\ model \in Alignment
  /\ history \in Seq(Revisions)
  /\ \A i \in 1..Len(history) : history[i].number \in 1..Len(history)
  /\ \A i, j \in 1..Len(history) : history[i].number = history[j].number => i = j

LEMMA SavedOfHistory ==
  ASSUME HistoryInv
  PROVE  /\ Len(history) \in Nat /\ DOMAIN history = 1..Len(history)
         /\ \A rev \in Saved : rev \in Revisions /\ rev.number \in 1..Len(history)
         /\ \A number_ \in AcceptedNumbers : number_ \in 1..Len(history)
         /\ AcceptedNumbers = AcceptedUpTo(history, Len(history))
<1>1. Len(history) \in Nat /\ DOMAIN history = 1..Len(history)
  BY LenProperties DEF HistoryInv
<1>2. \A i \in 1..Len(history) : history[i] \in Revisions
  BY ElementOfSeq DEF HistoryInv
<1>3. \A rev \in Saved : rev \in Revisions /\ rev.number \in 1..Len(history)
  BY <1>1, <1>2 DEF Saved, HistoryInv
<1>4. AcceptedNumbers = AcceptedUpTo(history, Len(history))
  BY <1>1 DEF AcceptedNumbers, Accepted, Saved, AcceptedUpTo
<1> QED BY <1>1, <1>3, <1>4 DEF AcceptedNumbers, Accepted

LEMMA TopologyOfHistory ==
  ASSUME HistoryInv
  PROVE  /\ Topology(topology)
         /\ IsFiniteSet(AcceptedNumbers)
         /\ topology.ok => topology.version = Cardinality(AcceptedNumbers)
         /\ Apart(model) => Apart(topology.segs)
<1>1. Sound(model) /\ history \in Seq(Revisions)
  BY AlignmentAssumption DEF HistoryInv, Sound
<1>2. PICK n \in Nat : n = Len(history)
  BY <1>1, LenProperties
<1>3. PICK run : Run(model, history, n, run) /\ topology = run[n]
  BY <1>2, ReplayRuns DEF topology
<1>4. n \in 0..n
  OBVIOUS
<1>5. Topology(run[n]) /\ (Apart(model) => Apart(run[n].segs))
  BY <1>1, <1>2, <1>3, <1>4, RunSound
<1>6. \A i, j \in 1..n : history[i].number = history[j].number => i = j
  BY <1>2 DEF HistoryInv
<1>7. /\ IsFiniteSet(AcceptedUpTo(history, n))
      /\ run[n].ok => run[n].version = Cardinality(AcceptedUpTo(history, n))
  BY <1>1, <1>2, <1>3, <1>4, <1>6, RunCounts
<1>8. AcceptedNumbers = AcceptedUpTo(history, n)
  BY <1>2, SavedOfHistory
<1> QED BY <1>3, <1>5, <1>7, <1>8

IsInsertion(seq, n, place, x, whole) ==
  /\ whole \in Seq(Revisions) /\ Len(whole) = n + 1
  /\ \A i \in 1..(n + 1) :
       whole[i] = IF i < place THEN seq[i] ELSE IF i = place THEN x ELSE seq[i - 1]
  /\ place = n + 1 => whole = Append(seq, x)

LEMMA Inserted ==
  ASSUME NEW seq \in Seq(Revisions), NEW n \in Nat, Len(seq) = n,
         NEW place \in 1..(n + 1), NEW x \in Revisions
  PROVE  IsInsertion(seq, n, place, x, InsertAt(seq, place, x))
<1>1. \A i \in 1..n : seq[i] \in Revisions
  BY ElementOfSeq
<1>2. PICK before, after : before = SubSeq(seq, 1, place - 1) /\ after = SubSeq(seq, place, n)
  OBVIOUS
<1>3. /\ before \in Seq(Revisions) /\ Len(before) = place - 1
      /\ \A i \in 1..(place - 1) : before[i] = seq[i]
  <2>1. \A i \in 1..(place - 1) : seq[i] \in Revisions
    BY <1>1
  <2>2. place - 1 \in Nat /\ 1 \in Int /\ place - 1 \in Int
    OBVIOUS
  <2> QED BY <1>2, <2>1, <2>2, SubSeqProperties
<1>4. /\ after \in Seq(Revisions) /\ Len(after) = n + 1 - place
      /\ \A i \in 1..(n + 1 - place) : after[i] = seq[place + i - 1]
  <2>1. \A i \in place..n : seq[i] \in Revisions
    BY <1>1
  <2> QED BY <1>2, <2>1, SubSeqProperties
<1>5. <<x>> \in Seq(Revisions) /\ Len(<<x>>) = 1 /\ <<x>>[1] = x
  OBVIOUS
<1>6. PICK head : head = before \o <<x>>
  OBVIOUS
<1>7. /\ head \in Seq(Revisions) /\ Len(head) = place
      /\ \A i \in 1..place : head[i] = IF i < place THEN seq[i] ELSE x
  <2>1. /\ head \in Seq(Revisions) /\ Len(head) = Len(before) + Len(<<x>>)
        /\ \A i \in 1..(Len(before) + Len(<<x>>)) :
             head[i] = IF i <= Len(before) THEN before[i] ELSE <<x>>[i - Len(before)]
    BY <1>3, <1>5, <1>6, ConcatProperties
  <2>2. /\ Len(head) = place
        /\ \A i \in 1..place : head[i] = IF i <= place - 1 THEN before[i] ELSE <<x>>[i - (place - 1)]
    BY <1>3, <1>5, <2>1
  <2>3. ASSUME NEW i \in 1..place PROVE head[i] = IF i < place THEN seq[i] ELSE x
    <3>1. CASE i < place
      BY <1>3, <2>2, <3>1
    <3>2. CASE i = place
      <4>1. i - (place - 1) = 1
        BY <3>2
      <4> QED BY <1>5, <2>2, <3>2, <4>1
    <3> QED BY <3>1, <3>2
  <2> QED BY <2>1, <2>2, <2>3
<1>8. PICK whole : whole = head \o after
  OBVIOUS
<1>9. /\ whole \in Seq(Revisions) /\ Len(whole) = Len(head) + Len(after)
      /\ \A i \in 1..(Len(head) + Len(after)) :
           whole[i] = IF i <= Len(head) THEN head[i] ELSE after[i - Len(head)]
  BY <1>4, <1>7, <1>8, ConcatProperties
<1>10. Len(whole) = n + 1
  BY <1>4, <1>7, <1>9
<1>11. ASSUME NEW i \in 1..(n + 1)
       PROVE  whole[i] = IF i < place THEN seq[i] ELSE IF i = place THEN x ELSE seq[i - 1]
  <2>1. whole[i] = IF i <= place THEN head[i] ELSE after[i - place]
    BY <1>4, <1>7, <1>9
  <2>2. CASE i <= place
    BY <1>7, <2>1, <2>2
  <2>3. CASE i > place
    <3>1. PICK k \in 1..(n + 1 - place) : k = i - place
      BY <2>3
    <3>2. after[k] = seq[place + k - 1] /\ place + k - 1 = i - 1
      BY <1>4, <3>1
    <3> QED BY <2>1, <2>3, <3>1, <3>2
  <2> QED BY <2>2, <2>3
<1>12. whole = InsertAt(seq, place, x)
  BY <1>2, <1>6, <1>8 DEF InsertAt
<1>13. ASSUME place = n + 1 PROVE whole = Append(seq, x)
  <2>1. /\ Append(seq, x) \in Seq(Revisions) /\ Len(Append(seq, x)) = n + 1
        /\ Append(seq, x)[n + 1] = x /\ \A i \in 1..n : Append(seq, x)[i] = seq[i]
    BY AppendProperties
  <2>2. \A i \in 1..(n + 1) : whole[i] = Append(seq, x)[i]
    BY <1>11, <1>13, <2>1
  <2>3. whole \in Seq(Revisions)
    BY <1>9
  <2>4. \A i \in 1..Len(whole) : whole[i] = Append(seq, x)[i]
    BY <1>10, <2>2
  <2> QED BY <1>10, <2>1, <2>3, <2>4, SeqEqual
<1> QED BY <1>9, <1>10, <1>11, <1>12, <1>13 DEF IsInsertion

-----------------------------------------------------------------------------
(* The editors: what each has seen, and what it is about to insert.            *)
View ==
  {v \in [segs: SUBSET Segments, version: Nat, seen: SUBSET Nat] : Sound(v.segs)}
Save == {NoSave} \cup [at: {"insert"}, rev: Revisions]

EditorInv ==
  /\ editor \in [Editor -> [view: View, save: Save]]
  /\ \A e \in Editor :
       /\ editor[e].view.seen \in SUBSET AcceptedNumbers
       /\ Cardinality(editor[e].view.seen) = editor[e].view.version

Ready(rev) ==
  /\ rev \in Revisions /\ rev.number = Len(history) + 1
  /\ topology.ok /\ Fits(topology.segs, rev)
  /\ rev.base # None => rev.seen = AcceptedNumbers

LockInv ==
  \A e \in Editor : editor[e].save # NoSave => lock = e /\ Ready(editor[e].save.rev)

ReviewInv == HistoryInv /\ EditorInv /\ LockInv /\ HistoryReplays /\ NoBlindEdit

LEMMA ReviewStart == Init => ReviewInv
<1> SUFFICES ASSUME Init PROVE ReviewInv
  OBVIOUS
<1>1. /\ model \in Alignment /\ history = <<>>
      /\ editor = [e \in Editor |-> [view |-> NoView, save |-> NoSave]]
  BY DEF Init
<1>2. <<>> \in Seq(Revisions) /\ Len(<<>>) = 0 /\ DOMAIN <<>> = {}
  OBVIOUS
<1>3. HistoryInv
  BY <1>1, <1>2 DEF HistoryInv
<1>4. Accepted = {} /\ Saved = {}
  BY <1>1, <1>2 DEF Accepted, Saved
<1>5. NoView \in View
  <2>1. Sound({})
    BY FS_EmptySet DEF Sound
  <2> QED BY <2>1 DEF NoView, View
<1>6. EditorInv
  <2>1. editor \in [Editor -> [view: View, save: Save]]
    BY <1>1, <1>5 DEF Save
  <2>2. \A e \in Editor : editor[e].view.seen = {} /\ editor[e].view.version = 0
    BY <1>1 DEF NoView
  <2> QED BY <2>1, <2>2, FS_EmptySet DEF EditorInv
<1>7. LockInv
  BY <1>1 DEF LockInv
<1>8. topology.ok
  <2>1. 0 \in Nat /\ Len(history) = 0
    BY <1>1, <1>2
  <2>2. PICK run : Run(model, history, 0, run) /\ topology = run[0]
    BY <2>1, ReplayRuns DEF topology
  <2> QED BY <2>2 DEF Run, Start
<1>9. NoBlindEdit
  BY <1>4 DEF NoBlindEdit
<1> QED BY <1>3, <1>6, <1>7, <1>8, <1>9 DEF ReviewInv, HistoryReplays

(* What an editor asks for is a revision, made from what it saw.               *)
LEMMA CandidateIsRevision ==
  ASSUME HistoryInv, EditorInv, NEW e \in Editor, Len(history) < MaxRevisions,
         NEW rev \in Candidates(e)
  PROVE  /\ rev \in Revisions /\ rev.number = Len(history) + 1
         /\ rev.seen = editor[e].view.seen
         /\ rev.base \in {None, editor[e].view.version}
<1>1. PICK view \in View : view = editor[e].view
  BY DEF EditorInv
<1>2. /\ view.segs \in SUBSET Segments /\ view.version \in Nat /\ view.seen \in SUBSET Nat
      /\ \A s \in view.segs : s.from < s.to
  BY DEF View, Sound
<1>3. PICK num \in Nat : num = Len(history) + 1
  BY SavedOfHistory
<1>4. number = num /\ num \in 1..MaxRevisions
  BY <1>3, BoundsAssumption, SavedOfHistory DEF number
<1>5. <<num, 1>> \in Id /\ <<num, 2>> \in Id
  BY <1>4 DEF Id
<1>6. PICK state \in State, base \in Base(e) :
        rev \in Updates(e, state, base) \cup Splits(e, state, base) \cup Merges(e, state, base)
  BY DEF Candidates
<1>7. base \in {None, view.version} /\ base \in Nat \cup {None}
  BY <1>1, <1>2, <1>6 DEF Base
<1> DEFINE Made(operation, anchor, targets, from, to, replacements) ==
      [number |-> num, operation |-> operation, anchor |-> anchor, targets |-> targets,
       from |-> from, to |-> to, replacements |-> replacements, state |-> state,
       base |-> base, seen |-> view.seen]
<1>8. ASSUME NEW operation \in {"update", "split", "merge"}, NEW anchor \in Ids(UNION Alignment),
             NEW targets \in Seq(Id), NEW from \in Int \cup {None}, NEW to \in Int \cup {None},
             NEW replacements \in Seq(Replacement),
             rev = Made(operation, anchor, targets, from, to, replacements)
      PROVE  /\ rev \in Revisions /\ rev.number = num /\ rev.seen = view.seen
             /\ rev.base = base
  BY <1>2, <1>7, <1>8 DEF Revisions
<1>9. \A operation, anchor, targets, from, to, replacements :
        Revision(e, operation, anchor, targets, from, to, replacements, state, base)
          = Made(operation, anchor, targets, from, to, replacements)
  BY <1>1, <1>4 DEF Revision
<1> HIDE DEF Made
<1>10. \A s \in view.segs : /\ s.id \in Id /\ s.model \in Ids(UNION Alignment)
                            /\ s.from \in Int /\ s.to \in Int /\ s.parent \in ParentId
  BY <1>2 DEF Segments
<1>11. Sample \in SUBSET Int
  BY AlignmentAssumption DEF Sample, Segments
<1>12. <<>> \in Seq(Replacement)
  OBVIOUS
<1>13. ASSUME rev \in Updates(e, state, base)
       PROVE  rev \in Revisions /\ rev.number = num /\ rev.seen = view.seen /\ rev.base = base
  <2>1. PICK s \in view.segs,
             bounds \in {<<f, None>> : f \in Sample} \cup {<<None, t>> : t \in Sample} :
          rev = Revision(e, "update", s.model, <<s.id>>, bounds[1], bounds[2], <<>>, state, base)
    BY <1>1, <1>13 DEF Updates
  <2>2. bounds[1] \in Int \cup {None} /\ bounds[2] \in Int \cup {None}
    BY <1>11, <2>1
  <2>3. <<s.id>> \in Seq(Id)
    BY <1>10
  <2>4. rev = Made("update", s.model, <<s.id>>, bounds[1], bounds[2], <<>>)
    BY <1>9, <2>1
  <2> QED BY <1>8, <1>10, <1>12, <2>2, <2>3, <2>4
<1>14. ASSUME rev \in Splits(e, state, base)
       PROVE  rev \in Revisions /\ rev.number = num /\ rev.seen = view.seen /\ rev.base = base
  <2>a. PICK s \in view.segs :
          rev \in {Revision(e, "split", s.model, <<s.id>>, None, None,
                            <<Part(1, s, s.from, cut), Part(2, s, cut, s.to)>>, state, base) :
                     cut \in {c \in Sample : s.from < c /\ c < s.to}}
    BY <1>1, <1>14 DEF Splits
  <2>1. PICK cut \in {c \in Sample : s.from < c /\ c < s.to} :
          rev = Revision(e, "split", s.model, <<s.id>>, None, None,
                         <<Part(1, s, s.from, cut), Part(2, s, cut, s.to)>>, state, base)
    BY <2>a
  <2>2. cut \in Int /\ s.from < cut /\ cut < s.to
    BY <1>11, <2>1
  <2>3. PICK x, y : x = Part(1, s, s.from, cut) /\ y = Part(2, s, cut, s.to)
    OBVIOUS
  <2>4. x \in Replacement /\ y \in Replacement
    BY <1>4, <1>5, <1>10, <2>2, <2>3 DEF Part, Replacement
  <2>5. <<x, y>> \in Seq(Replacement) /\ <<s.id>> \in Seq(Id)
    BY <1>10, <2>4
  <2>6. rev = Made("split", s.model, <<s.id>>, None, None, <<x, y>>)
    BY <1>9, <2>1, <2>3
  <2> QED BY <1>8, <1>10, <2>5, <2>6
<1>15. ASSUME rev \in Merges(e, state, base)
       PROVE  rev \in Revisions /\ rev.number = num /\ rev.seen = view.seen /\ rev.base = base
  <2>1. PICK p \in {q \in view.segs \X view.segs : q[1].kind = q[2].kind /\ q[1].to = q[2].from} :
          rev = Revision(e, "merge", p[1].model, <<p[1].id, p[2].id>>, None, None,
                         <<Part(1, p[1], p[1].from, p[2].to)>>, state, base)
    BY <1>1, <1>15 DEF Merges
  <2>2. PICK s \in view.segs, t \in view.segs : s = p[1] /\ t = p[2] /\ s.to = t.from
    BY <2>1
  <2>3. s.from < t.to
    BY <1>2, <1>10, <2>2
  <2>4. PICK x : x = Part(1, s, s.from, t.to)
    OBVIOUS
  <2>5. x \in Replacement
    BY <1>4, <1>5, <1>10, <2>3, <2>4 DEF Part, Replacement
  <2>6. <<x>> \in Seq(Replacement) /\ <<s.id, t.id>> \in Seq(Id)
    BY <1>10, <2>5
  <2>7. rev = Made("merge", s.model, <<s.id, t.id>>, None, None, <<x>>)
    BY <1>9, <2>1, <2>2, <2>4
  <2> QED BY <1>8, <1>10, <2>6, <2>7
<1> QED BY <1>1, <1>3, <1>6, <1>7, <1>13, <1>14, <1>15


(* What follows from the history alone stays as it is while that does.          *)
LEMMA HistoryKept ==
  ASSUME ReviewInv, UNCHANGED <<model, history>>
  PROVE  /\ HistoryInv' /\ HistoryReplays' /\ NoBlindEdit'
         /\ AcceptedNumbers' = AcceptedNumbers /\ topology' = topology
         /\ \A rev : Ready(rev) => Ready(rev)'
<1>1. topology' = topology
  BY DEF topology
<1>2. Saved' = Saved /\ Accepted' = Accepted /\ AcceptedNumbers' = AcceptedNumbers
  BY DEF Saved, Accepted, AcceptedNumbers
<1>3. HistoryInv'
  BY DEF ReviewInv, HistoryInv
<1>4. HistoryReplays'
  BY <1>1 DEF ReviewInv, HistoryReplays, InOrder
<1>5. NoBlindEdit'
  BY <1>2 DEF ReviewInv, NoBlindEdit
<1>6. \A rev : Ready(rev) => Ready(rev)'
  BY <1>1, <1>2 DEF Ready
<1> QED BY <1>1, <1>2, <1>3, <1>4, <1>5, <1>6

LEMMA LoadInv ==
  ASSUME ReviewInv, NEW e \in Editor, Load(e)
  PROVE  ReviewInv'
<1>1. EditorInv /\ LockInv /\ HistoryInv
  BY DEF ReviewInv
<1>2. PICK view : view = [segs |-> topology.segs, version |-> topology.version,
                          seen |-> {rev.number : rev \in Accepted}]
  OBVIOUS
<1>3. /\ topology.ok /\ editor' = [editor EXCEPT ![e].view = view]
      /\ UNCHANGED <<model, history, lock>>
  BY <1>2 DEF Load
<1>4. /\ HistoryInv' /\ HistoryReplays' /\ NoBlindEdit' /\ AcceptedNumbers' = AcceptedNumbers
      /\ \A rev : Ready(rev) => Ready(rev)'
  BY <1>3, HistoryKept
<1>5. /\ view \in View /\ view.seen = AcceptedNumbers
      /\ Cardinality(AcceptedNumbers) = view.version
  <2>1. /\ Topology(topology) /\ topology.version = Cardinality(AcceptedNumbers)
    BY <1>1, <1>3, TopologyOfHistory
  <2>2. PICK top : top = topology
    OBVIOUS
  <2>3. /\ top.segs \in SUBSET Segments /\ top.version \in Nat /\ Sound(top.segs)
        /\ top.version = Cardinality(AcceptedNumbers)
    BY <2>1, <2>2 DEF Topology
  <2>4. AcceptedNumbers \in SUBSET Nat
    BY <1>1, SavedOfHistory
  <2>5. view = [segs |-> top.segs, version |-> top.version, seen |-> AcceptedNumbers]
    BY <1>2, <2>2 DEF AcceptedNumbers
  <2> QED BY <2>3, <2>4, <2>5 DEF View
<1>6. \A d \in Editor : editor'[d].save = editor[d].save
                        /\ editor'[d].view = IF d = e THEN view ELSE editor[d].view
  BY <1>1, <1>3 DEF EditorInv
<1>7. EditorInv'
  <2>1. editor' \in [Editor -> [view: View, save: Save]]
    BY <1>1, <1>3, <1>5 DEF EditorInv
  <2>2. ASSUME NEW d \in Editor
        PROVE  /\ editor'[d].view.seen \in SUBSET AcceptedNumbers
               /\ Cardinality(editor'[d].view.seen) = editor'[d].view.version
    BY <1>1, <1>5, <1>6 DEF EditorInv
  <2> QED BY <1>4, <2>1, <2>2 DEF EditorInv
<1>8. LockInv'
  BY <1>1, <1>3, <1>4, <1>6 DEF LockInv
<1> QED BY <1>4, <1>7, <1>8 DEF ReviewInv

LEMMA BeginSaveInv ==
  ASSUME ReviewInv, NEW e \in Editor, BeginSave(e)
  PROVE  ReviewInv'
<1>1. EditorInv /\ LockInv /\ HistoryInv
  BY DEF ReviewInv
<1>2. PICK rev \in Candidates(e) :
        /\ Acceptable(e, rev)
        /\ editor' = [editor EXCEPT ![e].save =
             [at |-> "insert", rev |-> [rev EXCEPT !.targets = TargetIds(topology.segs, rev)]]]
  BY DEF BeginSave
<1>3. /\ lock = None /\ Len(history) < MaxRevisions /\ lock' = e
      /\ UNCHANGED <<model, history>>
  BY DEF BeginSave
<1>4. /\ HistoryInv' /\ HistoryReplays' /\ NoBlindEdit' /\ AcceptedNumbers' = AcceptedNumbers
      /\ \A r : Ready(r) => Ready(r)'
  BY <1>3, HistoryKept
<1>5. /\ rev \in Revisions /\ rev.number = Len(history) + 1
      /\ rev.seen = editor[e].view.seen /\ rev.base \in {None, editor[e].view.version}
  BY <1>1, <1>3, CandidateIsRevision
<1>6. topology.ok /\ rev.base \in {None, topology.version} /\ Fits(topology.segs, rev)
  BY <1>2 DEF Acceptable
<1>7. PICK segs : segs = topology.segs /\ Sound(segs)
  BY <1>1, TopologyOfHistory DEF Topology
<1>8. PICK put : put = [rev EXCEPT !.targets = TargetIds(segs, rev)]
  OBVIOUS
<1>9. put \in Revisions /\ Fits(segs, put)
  BY <1>5, <1>6, <1>7, <1>8, ResolvedOnce
<1>10. put.number = rev.number /\ put.base = rev.base /\ put.seen = rev.seen
  BY <1>5, <1>8 DEF Revisions
<1>11. rev.base # None => rev.seen = AcceptedNumbers
  <2> SUFFICES ASSUME rev.base # None PROVE rev.seen = AcceptedNumbers
    OBVIOUS
  <2>1. rev.base = topology.version /\ rev.base = editor[e].view.version
    BY <1>5, <1>6
  <2>2. /\ rev.seen \in SUBSET AcceptedNumbers /\ IsFiniteSet(AcceptedNumbers)
        /\ Cardinality(rev.seen) = editor[e].view.version
        /\ topology.version = Cardinality(AcceptedNumbers)
    BY <1>1, <1>5, <1>6, TopologyOfHistory DEF EditorInv
  <2> QED BY <2>1, <2>2, FS_Subset
<1>12. Ready(put)
  BY <1>5, <1>6, <1>7, <1>9, <1>10, <1>11 DEF Ready
<1>13. PICK save : save = [at |-> "insert", rev |-> put]
  OBVIOUS
<1>14. save \in Save /\ save.rev = put
  BY <1>9, <1>13 DEF Save
<1>15. editor' = [editor EXCEPT ![e].save = save]
  BY <1>2, <1>7, <1>8, <1>13
<1>16. \A d \in Editor : editor'[d].view = editor[d].view
                         /\ editor'[d].save = IF d = e THEN save ELSE editor[d].save
  BY <1>1, <1>15 DEF EditorInv
<1>17. EditorInv'
  <2>1. editor' \in [Editor -> [view: View, save: Save]]
    BY <1>1, <1>14, <1>15 DEF EditorInv
  <2> QED BY <1>1, <1>4, <1>16, <2>1 DEF EditorInv
<1>18. LockInv'
  <2> SUFFICES ASSUME NEW d \in Editor, (editor[d].save # NoSave)'
               PROVE  (lock = d /\ Ready(editor[d].save.rev))'
    BY DEF LockInv
  <2>1. d = e
    BY <1>1, <1>3, <1>16, NoneAssumption DEF LockInv
  <2>2. editor'[d].save.rev = put
    BY <1>14, <1>16, <2>1
  <2>3. Ready(put)'
    BY <1>4, <1>12
  <2> QED BY <1>3, <2>1, <2>2, <2>3 DEF Ready
<1> QED BY <1>4, <1>17, <1>18 DEF ReviewInv

LEMMA AbandonInv ==
  ASSUME ReviewInv, NEW e \in Editor, Abandon(e)
  PROVE  ReviewInv'
<1>1. EditorInv /\ LockInv /\ HistoryInv
  BY DEF ReviewInv
<1>2. /\ editor[e].save # NoSave /\ editor' = [editor EXCEPT ![e].save = NoSave]
      /\ lock' = None /\ UNCHANGED <<model, history>>
  BY DEF Abandon
<1>3. /\ HistoryInv' /\ HistoryReplays' /\ NoBlindEdit' /\ AcceptedNumbers' = AcceptedNumbers
  BY <1>2, HistoryKept
<1>4. \A d \in Editor : editor'[d].view = editor[d].view /\ editor'[d].save = NoSave
  <2>1. \A d \in Editor : editor'[d].view = editor[d].view
                          /\ editor'[d].save = IF d = e THEN NoSave ELSE editor[d].save
    BY <1>1, <1>2 DEF EditorInv
  <2> QED BY <1>1, <1>2, <2>1 DEF LockInv
<1>5. EditorInv'
  <2>1. editor' \in [Editor -> [view: View, save: Save]]
    BY <1>1, <1>2 DEF EditorInv, Save
  <2> QED BY <1>1, <1>3, <1>4, <2>1 DEF EditorInv
<1>6. LockInv'
  BY <1>4 DEF LockInv
<1> QED BY <1>3, <1>5, <1>6 DEF ReviewInv

(* The row is inserted, at the end of the history or before it.                *)
LEMMA InsertInv ==
  ASSUME ReviewInv, NEW e \in Editor, Insert(e)
  PROVE  ReviewInv'
<1>1. EditorInv /\ LockInv /\ HistoryInv
  BY DEF ReviewInv
<1>2. /\ editor[e].save # NoSave /\ editor' = [editor EXCEPT ![e].save = NoSave]
      /\ UNCHANGED model
  BY DEF Insert
<1>3. PICK rev : rev = editor[e].save.rev
  OBVIOUS
<1>4. Ready(rev)
  BY <1>1, <1>2, <1>3 DEF LockInv
<1>5. PICK n \in Nat : n = Len(history)
  BY LenProperties, <1>1 DEF HistoryInv
<1>6. PICK back \in 0..Skew :
        back <= Len(history) /\ history' = InsertAt(history, Len(history) + 1 - back, rev)
  BY <1>3 DEF Insert
<1>7. PICK place \in 1..(n + 1) : place = Len(history) + 1 - back
  BY <1>5, <1>6, BoundsAssumption
<1>8. history' = InsertAt(history, place, rev)
  BY <1>6, <1>7
<1>9. rev \in Revisions /\ rev.number = n + 1
  BY <1>4, <1>5 DEF Ready
<1>10. history \in Seq(Revisions)
  BY <1>1 DEF HistoryInv
<1>11. /\ history' \in Seq(Revisions) /\ Len(history') = n + 1
       /\ \A i \in 1..(n + 1) : history'[i] =
            IF i < place THEN history[i] ELSE IF i = place THEN rev ELSE history[i - 1]
       /\ place = n + 1 => history' = Append(history, rev)
  <2>1. Len(history) = n
    BY <1>5
  <2>2. PICK longer : longer = InsertAt(history, place, rev)
    OBVIOUS
  <2>a. IsInsertion(history, n, place, rev, InsertAt(history, place, rev))
    BY <1>5, <1>7, <1>9, <1>10, <2>1, Inserted, Zenon
  <2>3. /\ longer \in Seq(Revisions) /\ Len(longer) = n + 1
        /\ \A i \in 1..(n + 1) : longer[i] =
             IF i < place THEN history[i] ELSE IF i = place THEN rev ELSE history[i - 1]
        /\ place = n + 1 => longer = Append(history, rev)
    BY <2>a, <2>2 DEF IsInsertion
  <2> QED BY <1>8, <2>2, <2>3
<1>12. /\ \A i \in 1..n : history[i].number \in 1..n
       /\ \A i, j \in 1..n : history[i].number = history[j].number => i = j
  BY <1>1, <1>5 DEF HistoryInv
<1>13. ASSUME NEW i \in 1..(n + 1)
       PROVE  \/ i = place /\ history'[i] = rev
              \/ i < place /\ i \in 1..n /\ history'[i] = history[i]
              \/ i > place /\ i - 1 \in 1..n /\ history'[i] = history[i - 1]
  BY <1>11
<1>14. HistoryInv'
  <2>1. ASSUME NEW i \in 1..(n + 1) PROVE history'[i].number \in 1..(n + 1)
    BY <1>9, <1>12, <1>13
  <2>2. ASSUME NEW i \in 1..(n + 1), NEW j \in 1..(n + 1), history'[i].number = history'[j].number
        PROVE  i = j
    <3>1. CASE i = place
      <4>1. history'[j].number = n + 1
        BY <1>9, <1>11, <2>2, <3>1
      <4> QED BY <1>12, <1>13, <3>1, <4>1
    <3>2. CASE j = place
      <4>1. history'[i].number = n + 1
        BY <1>9, <1>11, <2>2, <3>2
      <4> QED BY <1>12, <1>13, <3>2, <4>1
    <3>3. CASE i # place /\ j # place
      <4>1. PICK k \in 1..n : history'[i] = history[k] /\ k = (IF i < place THEN i ELSE i - 1)
        BY <1>13, <3>3
      <4>2. PICK m \in 1..n : history'[j] = history[m] /\ m = (IF j < place THEN j ELSE j - 1)
        BY <1>13, <3>3
      <4>3. k = m
        BY <1>12, <2>2, <4>1, <4>2
      <4> QED BY <3>3, <4>1, <4>2, <4>3
    <3> QED BY <3>1, <3>2, <3>3
  <2> QED BY <1>1, <1>2, <1>11, <2>1, <2>2 DEF HistoryInv
<1>15. DOMAIN history = 1..n /\ DOMAIN history' = 1..(n + 1)
  BY <1>5, <1>10, <1>11, LenProperties
<1>16. Saved' = Saved \cup {rev}
  <2>1. ASSUME NEW x \in Saved' PROVE x \in Saved \cup {rev}
    BY <1>13, <1>15 DEF Saved
  <2>2. rev \in Saved'
    BY <1>11, <1>15 DEF Saved
  <2>3. ASSUME NEW x \in Saved PROVE x \in Saved'
    <3>1. PICK k \in 1..n : x = history[k]
      BY <1>15 DEF Saved
    <3>2. PICK i \in 1..(n + 1) : i = (IF k < place THEN k ELSE k + 1)
      OBVIOUS
    <3>3. history'[i] = history[k]
      BY <1>13, <3>2
    <3> QED BY <1>15, <3>1, <3>3 DEF Saved
  <2> QED BY <2>1, <2>2, <2>3
<1>17. Accepted' = Accepted \cup {r \in {rev} : r.state = "accepted"}
  BY <1>16 DEF Accepted
<1>18. \A r \in Saved : r.number \in 1..n
  BY <1>1, <1>5, SavedOfHistory
<1>19. \A r \in Accepted : r \in Saved
  BY DEF Accepted
<1>20. NoBlindEdit'
  <2> SUFFICES ASSUME NEW r \in Saved', r.base # None
               PROVE  {other.number : other \in {o \in Accepted' : o.number < r.number}} = r.seen
    BY DEF NoBlindEdit
  <2>1. CASE r \in Saved
    <3>1. r.number \in 1..n
      BY <1>18, <2>1
    <3>2. {o \in Accepted' : o.number < r.number} = {o \in Accepted : o.number < r.number}
      BY <1>9, <1>17, <3>1
    <3> QED BY <2>1, <3>2 DEF ReviewInv, NoBlindEdit
  <2>2. CASE r = rev
    <3>1. {o \in Accepted' : o.number < r.number} = Accepted
      BY <1>9, <1>17, <1>18, <1>19, <2>2
    <3>2. r.seen = AcceptedNumbers
      BY <1>4, <2>2 DEF Ready
    <3> QED BY <3>1, <3>2 DEF AcceptedNumbers
  <2> QED BY <1>16, <2>1, <2>2
<1>21. HistoryReplays'
  <2> SUFFICES ASSUME InOrder' PROVE topology'.ok
    BY DEF HistoryReplays
  <2>1. \A i, j \in 1..(n + 1) : i < j => history'[i].number < history'[j].number
    BY <1>15 DEF InOrder
  <2>2. place = n + 1
    <3> SUFFICES ASSUME place # n + 1 PROVE FALSE
      OBVIOUS
    <3>1. PICK next \in 1..(n + 1) : next = place + 1
      OBVIOUS
    <3>2. history'[place].number < history'[next].number
      BY <2>1, <3>1
    <3>3. place \in 1..n /\ history'[next] = history[place] /\ history'[place] = rev
      BY <1>11, <1>13, <3>1
    <3>4. history[place].number \in 1..n
      BY <1>12, <3>3
    <3> QED BY <1>9, <3>2, <3>3, <3>4
  <2>3. history' = Append(history, rev)
    BY <1>11, <2>2
  <2>4. topology' = ReplayStep(topology, rev)
    BY <1>2, <1>9, <1>10, <2>3, ReplayAppended DEF topology
  <2>5. PICK top : top = topology /\ Topology(top) /\ top.ok /\ Fits(top.segs, rev)
    BY <1>1, <1>4, TopologyOfHistory DEF Ready
  <2>6. ReplayStep(top, rev).ok
    <3>1. top \in [ok: BOOLEAN, segs: SUBSET Segments, version: Nat]
      BY <2>5 DEF Topology
    <3>2. CASE rev.state # "accepted"
      BY <2>5, <3>2 DEF ReplayStep
    <3>3. CASE rev.state = "accepted"
      <4>1. ReplayStep(top, rev) = [top EXCEPT !.segs = Applied(@, rev), !.version = @ + 1]
        BY <2>5, <3>3, Zenon DEF ReplayStep
      <4>2. PICK segs, version : segs = Applied(top.segs, rev) /\ version = top.version + 1
        OBVIOUS
      <4>3. ReplayStep(top, rev) = [top EXCEPT !.segs = segs, !.version = version]
        BY <3>1, <4>1, <4>2
      <4> QED BY <2>5, <3>1, <4>3
    <3> QED BY <3>2, <3>3
  <2> QED BY <2>4, <2>5, <2>6
<1>22. \A d \in Editor : editor'[d].view = editor[d].view /\ editor'[d].save = NoSave
  <2>1. \A d \in Editor : editor'[d].view = editor[d].view
                          /\ editor'[d].save = IF d = e THEN NoSave ELSE editor[d].save
    BY <1>1, <1>2 DEF EditorInv
  <2> QED BY <1>1, <1>2, <2>1 DEF LockInv
<1>23. EditorInv'
  <2>1. editor' \in [Editor -> [view: View, save: Save]]
    BY <1>1, <1>2 DEF EditorInv, Save
  <2>2. AcceptedNumbers \in SUBSET AcceptedNumbers'
    BY <1>17 DEF AcceptedNumbers
  <2> QED BY <1>1, <1>22, <2>1, <2>2 DEF EditorInv
<1>24. LockInv'
  BY <1>22 DEF LockInv
<1> QED BY <1>14, <1>20, <1>21, <1>23, <1>24 DEF ReviewInv

LEMMA ReviewStep ==
  ASSUME ReviewInv, [Next]_vars
  PROVE  ReviewInv'
<1>1. CASE UNCHANGED vars
  <2>1. /\ HistoryInv' /\ HistoryReplays' /\ NoBlindEdit' /\ AcceptedNumbers' = AcceptedNumbers
        /\ \A rev : Ready(rev) => Ready(rev)'
    BY <1>1, HistoryKept DEF vars
  <2>2. EditorInv' /\ LockInv'
    BY <1>1, <2>1 DEF vars, ReviewInv, EditorInv, LockInv
  <2> QED BY <2>1, <2>2 DEF ReviewInv
<1>2. CASE Next
  BY <1>2, LoadInv, BeginSaveInv, InsertInv, AbandonInv DEF Next
<1> QED BY <1>1, <1>2

(* What is stored while the clocks agree can be read.  (save_revision, effective_segments) *)
THEOREM OrderedHistoriesReplay == Spec => []HistoryReplays
<1>1. ReviewInv => HistoryReplays
  BY DEF ReviewInv
<1> QED BY <1>1, ReviewStart, ReviewStep, PTL DEF Spec

(* A save that names its base has seen all that was accepted before it.          *)
(* (save_revision: base_topology_version)                                        *)
THEOREM NothingIsOverwrittenUnseen == Spec => []NoBlindEdit
<1>1. ReviewInv => NoBlindEdit
  BY DEF ReviewInv
<1> QED BY <1>1, ReviewStart, ReviewStep, PTL DEF Spec

(* Siblings that the aligner put beside each other stay so, in any order of the   *)
(* revisions.  (replay_effective_topology)                                       *)
THEOREM SiblingsStayApart ==
  ASSUME \A segs \in Alignment : Apart(segs)
  PROVE  Spec => []SiblingsAreDisjoint
<1>1. ReviewInv => SiblingsAreDisjoint
  <2> SUFFICES ASSUME ReviewInv PROVE SiblingsAreDisjoint
    OBVIOUS
  <2>1. HistoryInv /\ Apart(model)
    BY DEF ReviewInv, HistoryInv
  <2>2. Apart(topology.segs)
    BY <2>1, TopologyOfHistory
  <2> QED BY <2>2 DEF SiblingsAreDisjoint, Apart
<1> QED BY <1>1, ReviewStart, ReviewStep, PTL DEF Spec

=============================================================================
