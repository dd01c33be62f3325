---------------------- MODULE TrackSmoother3D_proofs ----------------------
(***************************************************************************)
(* Proofs about TrackSmoother3D, for any places and classes, any limits on *)
(* distances and missed frames, and any number of detections and tracks.   *)
(***************************************************************************)
EXTENDS TrackSmoother3D, FiniteSetTheorems, NaturalsInduction, TLAPS

USE NumbersAssumption

-----------------------------------------------------------------------------
(* Induction, as a fact about sets *)

\* The library's induction theorems take a predicate; this one takes the set of the
\* numbers that have it.
LEMMA NumbersFromZero ==
    ASSUME NEW S, 0 \in S, \A n \in Nat : n \in S => n + 1 \in S
    PROVE  \A n \in Nat : n \in S
<1> SUFFICES ASSUME Nat \ S # {} PROVE FALSE
    OBVIOUS
<1> DEFINE R == OpToRel(<, Nat)
<1>1. IsWellFoundedOn(R, Nat)
    BY NatLessThanWellFounded
<1>2. \A m, n \in Nat : m < n => <<m, n>> \in R
    BY Zenon DEF OpToRel
<1> HIDE DEF R
<1>3. PICK x \in Nat \ S : \A y \in Nat \ S : ~ (<<y, x>> \in R)
    BY <1>1, WFMin
<1>4. x - 1 \in Nat /\ x - 1 < x /\ x = (x - 1) + 1
    BY SMT
<1> QED BY <1>2, <1>3, <1>4

-----------------------------------------------------------------------------
(* The total cost of an assignment *)

Weight(dets, p) == Cost(dets[p[1]], p[2])

\* The pair of s that MapThenSumSet adds first.
First(s) == CHOOSE p \in s : TRUE

\* h is how MapThenSumSet adds up the subsets of a.
AddsUp(dets, a, h) ==
    h = [s \in SUBSET a |-> IF s = {} THEN 0
                            ELSE Weight(dets, First(s)) + h[s \ {First(s)}]]

\* Total is such a sum, taken of the whole set.
LEMMA TotalAddsUp ==
    ASSUME NEW dets, NEW a
    PROVE  Total(dets, a) = (CHOOSE h : AddsUp(dets, a, h))[a]
BY DEF Total, MapThenSumSet, MapThenFoldSet, AddsUp, Weight, First

\* The same for the subsets of at most n elements.
AddsUpTo(dets, a, n, h) ==
    h = [s \in {s \in SUBSET a : Cardinality(s) <= n} |->
            IF s = {} THEN 0 ELSE Weight(dets, First(s)) + h[s \ {First(s)}]]

\* Taking the first element out of a finite set leaves one less.
LEMMA FirstTaken ==
    ASSUME NEW a, IsFiniteSet(a), NEW s \in SUBSET a
    PROVE  /\ IsFiniteSet(s) /\ Cardinality(s) \in Nat
           /\ Cardinality(s) = 0 <=> s = {}
           /\ s # {} => /\ First(s) \in s
                        /\ s \ {First(s)} \in SUBSET a
                        /\ Cardinality(s \ {First(s)}) = Cardinality(s) - 1
<1>1. IsFiniteSet(s) /\ Cardinality(s) \in Nat
    BY FS_Subset, FS_CardinalityType
<1>2. Cardinality(s) = 0 <=> s = {}
    BY <1>1, FS_EmptySet
<1>3. s # {} => First(s) \in s
    BY DEF First
<1>4. ASSUME s # {} PROVE Cardinality(s \ {First(s)}) = Cardinality(s) - 1
    BY <1>1, <1>3, <1>4, FS_RemoveElement
<1> QED BY <1>1, <1>2, <1>3, <1>4

\* What MapThenSumSet chooses exists: by induction on the number of pairs.
LEMMA SumsExist ==
    ASSUME NEW dets, NEW a, IsFiniteSet(a)
    PROVE  \E h : AddsUp(dets, a, h)
<1> DEFINE S == {n \in Nat : \E h : AddsUpTo(dets, a, n, h)}
           W(s) == Weight(dets, First(s))
<1>1. 0 \in S
    <2> DEFINE h == [s \in {s \in SUBSET a : Cardinality(s) <= 0} |-> 0]
    <2>1. ASSUME NEW s \in SUBSET a, Cardinality(s) <= 0 PROVE s = {}
        <3>1. Cardinality(s) \in Nat /\ (Cardinality(s) = 0 <=> s = {})
            BY FirstTaken
        <3> QED BY <2>1, <3>1
    <2>2. AddsUpTo(dets, a, 0, h)
        BY <2>1 DEF AddsUpTo
    <2> QED BY <2>2
<1>2. ASSUME NEW n \in Nat, n \in S PROVE n + 1 \in S
    <2>1. PICK g : AddsUpTo(dets, a, n, g)
        BY <1>2
    <2> DEFINE D == {s \in SUBSET a : Cardinality(s) <= n + 1}
               val(s) == IF s = {} THEN 0 ELSE W(s) + g[s \ {First(s)}]
               h == [s \in D |-> val(s)]
    <2>2. \A s \in SUBSET a : Cardinality(s) <= n => g[s] = val(s)
        BY <2>1 DEF AddsUpTo
    <2>3. ASSUME NEW s \in D, s # {}
          PROVE  h[s \ {First(s)}] = g[s \ {First(s)}]
        <3>1. /\ s \ {First(s)} \in SUBSET a
              /\ Cardinality(s \ {First(s)}) = Cardinality(s) - 1
              /\ Cardinality(s) \in Nat
            BY <2>3, FirstTaken
        <3>2. Cardinality(s \ {First(s)}) <= n
            BY <3>1
        <3>3. s \ {First(s)} \in D
            BY <3>1, <3>2
        <3>4. h[s \ {First(s)}] = val(s \ {First(s)})
            BY <3>3
        <3> QED BY <3>1, <3>2, <3>4, <2>2
    <2>4. h = [s \in D |-> IF s = {} THEN 0 ELSE W(s) + h[s \ {First(s)}]]
        BY <2>3
    <2>5. AddsUpTo(dets, a, n + 1, h)
        BY <2>4 DEF AddsUpTo
    <2> QED BY <2>5
<1>3. Cardinality(a) \in Nat
    BY FS_CardinalityType
<1>4. Cardinality(a) \in S
    <2> HIDE DEF S
    <2> QED BY <1>1, <1>2, <1>3, NumbersFromZero
<1>5. \A s \in SUBSET a : Cardinality(s) <= Cardinality(a)
    BY FS_Subset
<1>6. {s \in SUBSET a : Cardinality(s) <= Cardinality(a)} = SUBSET a
    BY <1>5
<1>7. PICK h : AddsUpTo(dets, a, Cardinality(a), h)
    BY <1>4
<1>8. AddsUp(dets, a, h)
    BY <1>6, <1>7 DEF AddsUp, AddsUpTo
<1> QED BY <1>8

\* The sum of a set does not depend on the set it is a subset of.
LEMMA SumsAreOne ==
    ASSUME NEW dets, NEW a, IsFiniteSet(a), NEW b \in SUBSET a,
           NEW g, AddsUp(dets, b, g), NEW h, AddsUp(dets, a, h)
    PROVE  g[b] = h[b]
<1> DEFINE S == {n \in Nat : \A s \in SUBSET b : Cardinality(s) = n => g[s] = h[s]}
<1>1. \A s \in SUBSET b : /\ s \in SUBSET a
                          /\ g[s] = IF s = {} THEN 0
                                    ELSE Weight(dets, First(s)) + g[s \ {First(s)}]
                          /\ h[s] = IF s = {} THEN 0
                                    ELSE Weight(dets, First(s)) + h[s \ {First(s)}]
    BY DEF AddsUp
<1>2. IsFiniteSet(b)
    BY FS_Subset
<1>3. 0 \in S
    <2>1. \A s \in SUBSET b : Cardinality(s) = 0 => s = {}
        BY <1>2, FirstTaken
    <2> QED BY <1>1, <2>1
<1>4. ASSUME NEW n \in Nat, n \in S PROVE n + 1 \in S
    <2>1. SUFFICES ASSUME NEW s \in SUBSET b, Cardinality(s) = n + 1
                   PROVE  g[s] = h[s]
        OBVIOUS
    <2>2. /\ s # {} /\ s \ {First(s)} \in SUBSET b
          /\ Cardinality(s \ {First(s)}) = n
        BY <1>2, <2>1, FirstTaken
    <2>3. g[s \ {First(s)}] = h[s \ {First(s)}]
        BY <1>4, <2>2
    <2> QED BY <1>1, <2>2, <2>3
<1>5. Cardinality(b) \in Nat
    BY <1>2, FS_CardinalityType
<1>6. Cardinality(b) \in S
    <2> HIDE DEF S
    <2> QED BY <1>3, <1>4, <1>5, NumbersFromZero
<1> QED BY <1>6

\* One function tells the totals of all subsets.
LEMMA TotalOfSubsets ==
    ASSUME NEW dets, NEW a, IsFiniteSet(a)
    PROVE  \E h : AddsUp(dets, a, h) /\ \A b \in SUBSET a : Total(dets, b) = h[b]
<1>1. PICK h : AddsUp(dets, a, h)
    BY SumsExist
<1>2. ASSUME NEW b \in SUBSET a PROVE Total(dets, b) = h[b]
    <2>1. IsFiniteSet(b)
        BY FS_Subset
    <2> DEFINE g == CHOOSE g : AddsUp(dets, b, g)
    <2>2. AddsUp(dets, b, g)
        BY <2>1, SumsExist
    <2>3. Total(dets, b) = g[b]
        BY TotalAddsUp
    <2> HIDE DEF g
    <2> QED BY <1>1, <2>2, <2>3, SumsAreOne
<1> QED BY <1>1, <1>2

\* The step by which MapThenSumSet adds.
LEMMA TotalTakesFirst ==
    ASSUME NEW dets, NEW a, IsFiniteSet(a), NEW s \in SUBSET a
    PROVE  Total(dets, s) = IF s = {} THEN 0
                            ELSE Weight(dets, First(s)) + Total(dets, s \ {First(s)})
<1>1. PICK h : AddsUp(dets, a, h) /\ \A b \in SUBSET a : Total(dets, b) = h[b]
    BY TotalOfSubsets
<1>2. h[s] = IF s = {} THEN 0 ELSE Weight(dets, First(s)) + h[s \ {First(s)}]
    BY <1>1 DEF AddsUp
<1>3. s \ {First(s)} \in SUBSET a
    OBVIOUS
<1> QED BY <1>1, <1>2, <1>3

\* Any pair of an assignment may be taken first.
LEMMA TotalWithout ==
    ASSUME NEW dets, NEW a, IsFiniteSet(a), \A p \in a : Weight(dets, p) \in Nat
    PROVE  /\ Total(dets, a) \in Nat
           /\ \A p \in a : Total(dets, a) = Weight(dets, p) + Total(dets, a \ {p})
<1> DEFINE Good(s) == /\ Total(dets, s) \in Nat
                      /\ \A p \in s : Total(dets, s) = Weight(dets, p) + Total(dets, s \ {p})
           S == {n \in Nat : \A s \in SUBSET a : Cardinality(s) <= n => Good(s)}
<1>1. 0 \in S
    <2>1. ASSUME NEW s \in SUBSET a, Cardinality(s) <= 0 PROVE s = {}
        <3>1. Cardinality(s) \in Nat /\ (Cardinality(s) = 0 <=> s = {})
            BY FirstTaken
        <3> QED BY <2>1, <3>1
    <2>2. Total(dets, {}) = 0
        BY TotalTakesFirst
    <2>3. Good({})
        BY <2>2
    <2> HIDE DEF Good
    <2> QED BY <2>1, <2>3
<1>2. ASSUME NEW n \in Nat, n \in S PROVE n + 1 \in S
    <2> SUFFICES ASSUME NEW s \in SUBSET a, Cardinality(s) <= n + 1, ~ Cardinality(s) <= n
                 PROVE  Good(s)
        BY <1>2
    <2>0. Cardinality(s) = n + 1
        <3>1. Cardinality(s) \in Nat
            BY FirstTaken
        <3> QED BY <3>1
    <2> DEFINE f == First(s)
               r == s \ {f}
    <2>1. /\ s # {} /\ f \in s /\ r \in SUBSET a
          /\ Cardinality(r) = n /\ IsFiniteSet(s)
        <3>1. s # {} /\ IsFiniteSet(s)
            <4>1. IsFiniteSet(s) /\ (Cardinality(s) = 0 <=> s = {})
                BY FirstTaken
            <4> QED BY <2>0, <4>1
        <3>2. f \in s /\ r \in SUBSET a /\ Cardinality(r) = Cardinality(s) - 1
            BY <3>1, FirstTaken
        <3> QED BY <2>0, <3>1, <3>2
    <2>2. Total(dets, s) = Weight(dets, f) + Total(dets, r)
        BY <2>1, TotalTakesFirst
    <2>3. Good(r)
        <3> HIDE DEF Good, r
        <3> QED BY <1>2, <2>1
    <2>4. Weight(dets, f) \in Nat
        BY <2>1
    <2>5. ASSUME NEW p \in s, p # f
          PROVE  Total(dets, s) = Weight(dets, p) + Total(dets, s \ {p})
        <3> DEFINE q == r \ {p}
        <3>1. Total(dets, r) = Weight(dets, p) + Total(dets, q)
            BY <2>3, <2>5
        <3>2. Cardinality(s \ {p}) = n
            BY <2>0, <2>1, FS_RemoveElement
        <3>3. Good(s \ {p})
            BY <1>2, <3>2
        <3>4. (s \ {p}) \ {f} = q
            OBVIOUS
        <3>5. Total(dets, s \ {p}) = Weight(dets, f) + Total(dets, q)
            BY <2>1, <2>5, <3>3, <3>4
        <3>6. q \in SUBSET (s \ {p})
            OBVIOUS
        <3>7. Cardinality(q) <= n
            BY <2>1, <3>2, <3>6, FS_RemoveElement, FS_Subset
        <3>8. Total(dets, q) \in Nat
            BY <1>2, <3>7
        <3>9. Weight(dets, p) \in Nat
            BY <2>5
        <3> HIDE DEF q, r, f
        <3> QED BY <2>2, <2>4, <3>1, <3>5, <3>8, <3>9
    <2>6. Total(dets, s) \in Nat
        BY <2>2, <2>3, <2>4
    <2>7. \A p \in s : Total(dets, s) = Weight(dets, p) + Total(dets, s \ {p})
        BY <2>2, <2>5
    <2> QED BY <2>6, <2>7
<1>3. Cardinality(a) \in Nat
    BY FS_CardinalityType
<1>4. Cardinality(a) \in S
    <2> HIDE DEF S
    <2> QED BY <1>1, <1>2, <1>3, NumbersFromZero
<1> QED BY <1>3, <1>4

-----------------------------------------------------------------------------
(* The invariant *)

Ids == 1 .. next_track_id - 1

\* The ids given out so far are the numbers up to next_track_id, without gaps.
TypeInv ==
    /\ next_track_id \in Nat \ {0}
    /\ tracks \in [active_tids -> [place : Places, class : Classes, missed : 0 .. MaxMissed]]
    /\ active_tids \subseteq Ids
    /\ born \in [Ids -> {<<c>> : c \in Classes}]
    /\ unseen \in [Ids -> 0 .. MaxMissed + 1]
    /\ DOMAIN matches = DOMAIN seen

\* A live track has the class it was born with, and counts what unseen counts.
LifeInv == \A t \in active_tids : born[t] = <<tracks[t].class>> /\ tracks[t].missed = unseen[t]

IInv == TypeInv /\ LifeInv /\ ForgottenInTime /\ OneIdEach /\ IdKeepsClass

-----------------------------------------------------------------------------
(* Assignments and their cost *)

\* There are finitely many live tracks.
LEMMA ActiveFinite ==
    ASSUME TypeInv
    PROVE  IsFiniteSet(active_tids) /\ Cardinality(active_tids) \in Nat
<1>1. next_track_id - 1 \in Int
    BY DEF TypeInv
<1>2. IsFiniteSet(Ids)
    BY <1>1, FS_Interval DEF Ids
<1>3. active_tids \in SUBSET Ids
    BY DEF TypeInv
<1> QED BY <1>2, <1>3, FS_Subset, FS_CardinalityType

\* The cost of a pair is the distance, for one class, and the farthest distance otherwise.
LEMMA WeightBounds ==
    ASSUME TypeInv, NEW n \in Nat, NEW dets \in [1 .. n -> Detections], NEW p \in Pairs(dets)
    PROVE  /\ Weight(dets, p) \in Nat /\ Weight(dets, p) <= Far
           /\ IF dets[p[1]].class = tracks[p[2]].class
              THEN Weight(dets, p) = Distance(dets[p[1]].place, tracks[p[2]].place)
              ELSE Weight(dets, p) = Far
<1>1. p[1] \in 1 .. n /\ p[2] \in active_tids
    BY DEF Pairs
<1>2. dets[p[1]].place \in Places /\ tracks[p[2]].place \in Places
    BY <1>1 DEF TypeInv, Detections
<1>3. \A q, r \in Places : Distance(q, r) \in Nat /\ Distance(q, r) <= Far
    BY PlacesAssumption DEF Distance
<1>4. Far \in Nat
    BY DEF Far
<1>5. Weight(dets, p) = IF dets[p[1]].class = tracks[p[2]].class
                        THEN Distance(dets[p[1]].place, tracks[p[2]].place) ELSE Far
    BY DEF Weight, Cost
<1> QED BY <1>2, <1>3, <1>4, <1>5

\* The size of an assignment.
Most(dets) == IF Len(dets) < Cardinality(active_tids)
              THEN Len(dets) ELSE Cardinality(active_tids)

\* Assignments, without the enumeration.
LEMMA AssignmentsAre ==
    ASSUME NEW dets, NEW a
    PROVE  a \in Assignments(dets) <=>
              /\ a \in SUBSET Pairs(dets) /\ Cardinality(a) = Most(dets) /\ OneToOne(a)
BY DEF Assignments, Most, kSubset

\* An assignment is finite, and its costs are numbers.
LEMMA AssignmentFinite ==
    ASSUME TypeInv, NEW n \in Nat, NEW dets \in [1 .. n -> Detections],
           NEW a \in SUBSET Pairs(dets)
    PROVE  IsFiniteSet(a) /\ \A p \in a : Weight(dets, p) \in Nat
<1>1. IsFiniteSet(active_tids)
    BY ActiveFinite
<1>2. IsFiniteSet(1 .. n)
    BY FS_Interval
<1>3. IsFiniteSet(Pairs(dets))
    BY <1>1, <1>2, FS_Product DEF Pairs
<1>4. IsFiniteSet(a)
    BY <1>3, FS_Subset
<1> QED BY <1>4, WeightBounds

\* An assignment leaves no detection and no track aside that could make a pair.
LEMMA NoPairLeft ==
    ASSUME TypeInv, NEW n \in Nat, NEW dets \in [1 .. n -> Detections],
           NEW a \in Assignments(dets), NEW i \in 1 .. n, NEW t \in active_tids
    PROVE  \E p \in a : p[1] = i \/ p[2] = t
<1> SUFFICES ASSUME \A p \in a : p[1] # i /\ p[2] # t PROVE FALSE
    OBVIOUS
<1>1. a \in SUBSET Pairs(dets) /\ Cardinality(a) = Most(dets) /\ OneToOne(a)
    BY AssignmentsAre
<1>2. \A p \in a : p[1] \in (1 .. n) \ {i} /\ p[2] \in active_tids \ {t}
    BY <1>1 DEF Pairs
<1> DEFINE f == [p \in a |-> p[1]]
           g == [p \in a |-> p[2]]
<1>3. f \in Injection(a, (1 .. n) \ {i}) /\ g \in Injection(a, active_tids \ {t})
    BY <1>1, <1>2 DEF OneToOne, Injection, IsInjective
<1>4. /\ IsFiniteSet((1 .. n) \ {i})
      /\ Cardinality((1 .. n) \ {i}) = n - 1
    <2>1. IsFiniteSet(1 .. n) /\ Cardinality(1 .. n) = n
        BY FS_Interval
    <2>2. Cardinality((1 .. n) \ {i}) = Cardinality(1 .. n) - 1
        BY <2>1, FS_RemoveElement, Zenon
    <2> QED BY <2>1, <2>2, FS_RemoveElement
<1>5. /\ IsFiniteSet(active_tids \ {t})
      /\ Cardinality(active_tids \ {t}) = Cardinality(active_tids) - 1
    BY ActiveFinite, FS_RemoveElement
<1>6. Cardinality(a) <= n - 1
    BY <1>3, <1>4, FS_Injection
<1>7. Cardinality(a) <= Cardinality(active_tids) - 1
    BY <1>3, <1>5, FS_Injection
<1>8. Len(dets) = n
    OBVIOUS
<1>9. Cardinality(active_tids) \in Nat
    BY ActiveFinite
<1> HIDE DEF f, g
<1> QED BY <1>1, <1>6, <1>7, <1>8, <1>9 DEF Most

Swap(a, x, y) == (a \ {x}) \cup {y}

\* Replacing one pair of a set by another changes the total by the difference.
LEMMA PairReplaced ==
    ASSUME NEW dets, NEW a, NEW x \in a, NEW y,
           IsFiniteSet(a), \A p \in a : Weight(dets, p) \in Nat,
           y \notin a, Weight(dets, y) \in Nat
    PROVE  /\ IsFiniteSet(Swap(a, x, y)) /\ Cardinality(Swap(a, x, y)) = Cardinality(a)
           /\ \A p \in Swap(a, x, y) : Weight(dets, p) \in Nat
           /\ Total(dets, a) \in Nat /\ Total(dets, Swap(a, x, y)) \in Nat
           /\ Total(dets, Swap(a, x, y)) =
                  Total(dets, a) - Weight(dets, x) + Weight(dets, y)
<1> DEFINE c == a \ {x}
           b == Swap(a, x, y)
<1>1. IsFiniteSet(c) /\ Cardinality(c) = Cardinality(a) - 1 /\ Cardinality(a) \in Nat
    BY FS_RemoveElement, FS_CardinalityType
<1>2. IsFiniteSet(b) /\ Cardinality(b) = Cardinality(c) + 1
    BY <1>1, FS_AddElement DEF Swap
<1>3. b \ {y} = c /\ y \in b
    BY DEF Swap
<1>4. Total(dets, a) = Weight(dets, x) + Total(dets, c)
    BY TotalWithout
<1>5. \A p \in b : Weight(dets, p) \in Nat
    BY DEF Swap
<1>6. Total(dets, b) = Weight(dets, y) + Total(dets, c)
    BY <1>2, <1>3, <1>5, TotalWithout
<1>7. Total(dets, c) \in Nat
    BY <1>1, TotalWithout
<1>8. Weight(dets, x) \in Nat
    OBVIOUS
<1> HIDE DEF c
<1> QED BY <1>1, <1>2, <1>4, <1>5, <1>6, <1>7, <1>8

\* A cheaper pair in place of another lowers the total.
LEMMA CheaperPair ==
    ASSUME NEW dets, NEW a, NEW x \in a, NEW y,
           IsFiniteSet(a), \A p \in a : Weight(dets, p) \in Nat,
           y \notin a, Weight(dets, y) \in Nat, Weight(dets, y) < Weight(dets, x)
    PROVE  /\ Cardinality(Swap(a, x, y)) = Cardinality(a)
           /\ ~ Total(dets, a) <= Total(dets, Swap(a, x, y))
<1>1. /\ Cardinality(Swap(a, x, y)) = Cardinality(a)
      /\ Total(dets, a) \in Nat /\ Total(dets, Swap(a, x, y)) \in Nat
      /\ Total(dets, Swap(a, x, y)) = Total(dets, a) - Weight(dets, x) + Weight(dets, y)
    BY PairReplaced
<1>2. Weight(dets, x) \in Nat
    OBVIOUS
<1> QED BY <1>1, <1>2

\* So do two pairs in place of two others, one cheaper and the other no dearer.
LEMMA CheaperPairs ==
    ASSUME NEW dets, NEW a, NEW p \in a, NEW q \in a, NEW y, NEW w,
           IsFiniteSet(a), \A r \in a : Weight(dets, r) \in Nat,
           p # q, y \notin a, w \notin a, w # y,
           Weight(dets, y) \in Nat, Weight(dets, y) < Weight(dets, p),
           Weight(dets, w) \in Nat, Weight(dets, w) <= Weight(dets, q)
    PROVE  /\ Cardinality(Swap(Swap(a, p, y), q, w)) = Cardinality(a)
           /\ ~ Total(dets, a) <= Total(dets, Swap(Swap(a, p, y), q, w))
<1> DEFINE b == Swap(a, p, y)
<1>1. /\ IsFiniteSet(b) /\ Cardinality(b) = Cardinality(a)
      /\ \A r \in b : Weight(dets, r) \in Nat
      /\ Total(dets, a) \in Nat /\ Total(dets, b) \in Nat
      /\ Total(dets, b) = Total(dets, a) - Weight(dets, p) + Weight(dets, y)
    BY PairReplaced
<1>2. q \in b /\ w \notin b
    BY DEF Swap
<1> HIDE DEF b
<1>3. /\ Cardinality(Swap(b, q, w)) = Cardinality(b) /\ Total(dets, Swap(b, q, w)) \in Nat
      /\ Total(dets, Swap(b, q, w)) = Total(dets, b) - Weight(dets, q) + Weight(dets, w)
    BY <1>1, <1>2, PairReplaced
<1>4. Weight(dets, p) \in Nat /\ Weight(dets, q) \in Nat
    OBVIOUS
<1> QED BY <1>1, <1>3, <1>4 DEF b

\* Detection i and track t are alone in their class, and close enough.
Lone(dets, i, t) ==
    /\ \A j \in DOMAIN dets : dets[j].class = dets[i].class => j = i
    /\ \A u \in active_tids : tracks[u].class = dets[i].class <=> u = t
    /\ Distance(dets[i].place, tracks[t].place) <= MaxMatch

\* Detection and track are paired when both are alone in their class:
\* an assignment without that pair would not be one of least cost.
LEMMA LonePairAssigned ==
    ASSUME TypeInv, NEW n \in Nat, NEW dets \in [1 .. n -> Detections],
           NEW a \in Assignments(dets), LeastCost(dets, a),
           NEW i \in 1 .. n, NEW t \in active_tids, Lone(dets, i, t)
    PROVE  <<i, t>> \in a
<1>0. /\ \A j \in 1 .. n : dets[j].class = dets[i].class => j = i
      /\ \A u \in active_tids : tracks[u].class = dets[i].class <=> u = t
      /\ Distance(dets[i].place, tracks[t].place) <= MaxMatch
    BY DEF Lone
<1> SUFFICES ASSUME NEW y, y = <<i, t>>, y \notin a PROVE FALSE
    OBVIOUS
<1>1. a \in SUBSET Pairs(dets) /\ Cardinality(a) = Most(dets) /\ OneToOne(a)
    BY AssignmentsAre
<1>2. IsFiniteSet(a) /\ \A p \in a : Weight(dets, p) \in Nat
    BY <1>1, AssignmentFinite
<1>3. y \in Pairs(dets) /\ y[1] = i /\ y[2] = t
    BY DEF Pairs
<1>4. Weight(dets, y) \in Nat /\ Weight(dets, y) <= MaxMatch
    <2>1. dets[i].class = tracks[t].class
        BY <1>0
    <2> QED BY <1>0, <1>3, <2>1, WeightBounds
<1>5. ASSUME NEW p \in a
      PROVE  /\ p[1] \in 1 .. n /\ p[2] \in active_tids /\ p = <<p[1], p[2]>>
             /\ p[1] = i \/ p[2] = t => Weight(dets, p) = Far
    <2>1. p \in Pairs(dets) /\ p[1] \in 1 .. n /\ p[2] \in active_tids /\ p = <<p[1], p[2]>>
        BY <1>1 DEF Pairs
    <2>2. ASSUME p[1] = i \/ p[2] = t PROVE Weight(dets, p) = Far
        <3>1. ~(p[1] = i /\ p[2] = t)
            BY <2>1
        <3>2. dets[p[1]].class # tracks[p[2]].class
            BY <1>0, <2>1, <2>2, <3>1
        <3> QED BY <2>1, <3>2, WeightBounds
    <2> QED BY <2>1, <2>2
<1>6. Far \in Nat /\ MaxMatch < Far
    BY DEF Far
<1>7. \A b \in SUBSET Pairs(dets) :
          Cardinality(b) = Cardinality(a) /\ OneToOne(b) => Total(dets, a) <= Total(dets, b)
    BY <1>1, AssignmentsAre DEF LeastCost
<1>8. ASSUME NEW x \in a, x[1] = i \/ x[2] = t,
             \A p \in a : p[1] = i \/ p[2] = t => p = x
      PROVE  FALSE
    <2> DEFINE b == Swap(a, x, y)
    <2>1. Weight(dets, y) < Weight(dets, x)
        BY <1>4, <1>5, <1>6, <1>8
    <2>2. Cardinality(b) = Cardinality(a) /\ ~ Total(dets, a) <= Total(dets, b)
        BY <1>2, <1>4, <2>1, CheaperPair
    <2>3. b \in SUBSET Pairs(dets)
        BY <1>1, <1>3 DEF Swap
    <2>4. OneToOne(b)
        BY <1>1, <1>3, <1>8 DEF OneToOne, Swap
    <2> QED BY <1>7, <2>2, <2>3, <2>4
<1>9. ASSUME NEW p \in a, p[1] = i, NEW q \in a, q[2] = t
      PROVE  FALSE
    <2>1. PICK w : w = <<q[1], p[2]>>
        OBVIOUS
    <2> DEFINE c == Swap(Swap(a, p, y), q, w)
    <2>2. p # q
        BY <1>5, <1>9
    <2>3. w \in Pairs(dets) /\ w[1] = q[1] /\ w[2] = p[2]
        BY <1>5, <2>1 DEF Pairs
    <2>4. w \notin a
        BY <1>1, <1>9, <2>2, <2>3 DEF OneToOne
    <2>5. w # y
        BY <1>1, <1>3, <1>9, <2>2, <2>3 DEF OneToOne
    <2>6. Weight(dets, w) \in Nat /\ Weight(dets, w) <= Far
        BY <2>3, WeightBounds
    <2>7. Weight(dets, y) < Weight(dets, p) /\ Weight(dets, w) <= Weight(dets, q)
        BY <1>4, <1>5, <1>6, <1>9, <2>6
    <2>8. Cardinality(c) = Cardinality(a) /\ ~ Total(dets, a) <= Total(dets, c)
        BY <1>2, <1>4, <2>2, <2>4, <2>5, <2>6, <2>7, CheaperPairs
    <2>9. c \in SUBSET Pairs(dets)
        BY <1>1, <1>3, <2>3 DEF Swap
    <2>10. OneToOne(c)
        BY <1>1, <1>3, <1>9, <2>2, <2>3 DEF OneToOne, Swap
    <2> QED BY <1>7, <2>8, <2>9, <2>10
<1>10. PICK x \in a : x[1] = i \/ x[2] = t
    BY NoPairLeft
<1> QED BY <1>1, <1>8, <1>9, <1>10 DEF OneToOne

-----------------------------------------------------------------------------
(* The ids of an update *)

FreshIn(dets, a) == DOMAIN dets \ {p[1] : p \in Hits(dets, a)}

KeptBy(dets, a) == {p[2] : p \in Hits(dets, a)}

\* How many of F come no later than i.
Rank(F, i) == Cardinality({j \in F : j <= i})

IdOf(dets, a, i) ==
    IF i \in FreshIn(dets, a) THEN NewId(Rank(FreshIn(dets, a), i))
    ELSE (CHOOSE p \in Hits(dets, a) : p[1] = i)[2]

DetOf(dets, a, t) == dets[CHOOSE i \in DOMAIN dets : IdOf(dets, a, i) = t]

NewIds(dets, a) == {IdOf(dets, a, i) : i \in FreshIn(dets, a)}

Rest(dets, a) == Survivors(active_tids \ KeptBy(dets, a))

Effect(dets, a, places) ==
    /\ tracks' = [t \in KeptBy(dets, a) \cup Rest(dets, a) \cup NewIds(dets, a) |->
          IF t \in NewIds(dets, a)
          THEN [place |-> DetOf(dets, a, t).place, class |-> DetOf(dets, a, t).class,
                missed |-> 0]
          ELSE IF t \in KeptBy(dets, a) THEN Matched(t, places[t]) ELSE Missed(t)]
    /\ next_track_id' = next_track_id + Cardinality(FreshIn(dets, a))
    /\ matches' = [i \in DOMAIN dets |-> IdOf(dets, a, i)]
    /\ born' = [t \in DOMAIN born \cup NewIds(dets, a) |->
          IF t \in NewIds(dets, a) THEN Append(Births(t), DetOf(dets, a, t).class)
          ELSE born[t]]
    /\ unseen' = Aged(DOMAIN born \cup NewIds(dets, a), KeptBy(dets, a) \cup NewIds(dets, a))

\* Update, in these terms.
LEMMA UpdateMeans ==
    ASSUME NEW dets, NEW a, NEW places, Update(dets, a, places)
    PROVE  Effect(dets, a, places)
BY DEF Effect, Update, FreshIn, KeptBy, Rank, IdOf, DetOf, NewIds, Rest

\* The ranks of n numbers are 1 to n.
LEMMA RanksCount ==
    ASSUME NEW n \in Nat, NEW F \in SUBSET (1 .. n)
    PROVE  /\ IsFiniteSet(F) /\ Cardinality(F) \in Nat
           /\ \A i \in F : Rank(F, i) \in 1 .. Cardinality(F)
           /\ \A i, j \in F : Rank(F, i) = Rank(F, j) => i = j
           /\ \A k \in 1 .. Cardinality(F) : \E i \in F : Rank(F, i) = k
<1> DEFINE U(i) == {j \in F : j <= i}
<1>1. IsFiniteSet(F) /\ Cardinality(F) \in Nat
    <2>1. IsFiniteSet(1 .. n)
        BY FS_Interval
    <2> QED BY <2>1, FS_Subset, FS_CardinalityType
<1>2. ASSUME NEW i \in F
      PROVE  IsFiniteSet(U(i)) /\ Rank(F, i) \in 1 .. Cardinality(F)
    <2>1. U(i) \in SUBSET F /\ i \in U(i)
        OBVIOUS
    <2>2. IsFiniteSet(U(i)) /\ Cardinality(U(i)) <= Cardinality(F)
        BY <1>1, <2>1, FS_Subset
    <2>3. Cardinality(U(i)) \in Nat /\ Cardinality(U(i)) # 0
        BY <2>1, <2>2, FS_CardinalityType, FS_EmptySet
    <2> QED BY <1>1, <2>2, <2>3 DEF Rank
<1>3. ASSUME NEW i \in F, NEW j \in F, i < j PROVE Rank(F, i) # Rank(F, j)
    <2>1. U(i) \in SUBSET U(j) /\ j \in U(j) /\ j \notin U(i)
        <3>1. \A k \in F : k <= i => k <= j
            BY <1>3
        <3>2. j <= j /\ ~ j <= i
            BY <1>3
        <3> QED BY <3>1, <3>2, Zenon
    <2>2. Cardinality(U(i)) # Cardinality(U(j))
        <3> HIDE DEF U
        <3> QED BY <1>2, <2>1, FS_Subset
    <2> QED BY <2>2 DEF Rank
<1>4. \A i, j \in F : Rank(F, i) = Rank(F, j) => i = j
    <2>1. \A i, j \in F : i < j \/ j < i \/ i = j
        OBVIOUS
    <2> QED BY <1>3, <2>1
<1> DEFINE f == [i \in F |-> Rank(F, i)]
           T == 1 .. Cardinality(F)
<1>5. f \in Injection(F, T)
    BY <1>2, <1>4 DEF Injection, IsInjective
<1>6. IsFiniteSet(T) /\ Cardinality(T) = Cardinality(F)
    BY <1>1, FS_Interval
<1>7. f \in Surjection(F, T)
    <2> HIDE DEF f, T
    <2> QED BY <1>5, <1>6, FS_Injection
<1>8. \A k \in T : \E i \in F : f[i] = k
    BY <1>7 DEF Surjection
<1> QED BY <1>1, <1>2, <1>4, <1>8

\* A detection hits at most one track and a track at most one detection, of its class.
LEMMA HitsAre ==
    ASSUME TypeInv, NEW n \in Nat, NEW dets \in [1 .. n -> Detections],
           NEW a \in Assignments(dets)
    PROVE  /\ Hits(dets, a) \in SUBSET a /\ OneToOne(Hits(dets, a))
           /\ \A p \in Hits(dets, a) :
                 /\ p[1] \in 1 .. n /\ p[2] \in active_tids
                 /\ tracks[p[2]].class = dets[p[1]].class
<1>1. a \in SUBSET Pairs(dets) /\ OneToOne(a)
    BY AssignmentsAre
<1>2. Hits(dets, a) \in SUBSET a
    BY DEF Hits
<1>3. OneToOne(Hits(dets, a))
    BY <1>1, <1>2 DEF OneToOne
<1>4. ASSUME NEW p \in Hits(dets, a)
      PROVE  /\ p[1] \in 1 .. n /\ p[2] \in active_tids
             /\ tracks[p[2]].class = dets[p[1]].class
    <2>1. p \in Pairs(dets)
        BY <1>1, <1>2
    <2>2. Weight(dets, p) <= MaxMatch
        BY DEF Hits, Weight
    <2>3. ~ Far <= MaxMatch
        BY DEF Far
    <2>4. tracks[p[2]].class = dets[p[1]].class
        BY <2>1, <2>2, <2>3, WeightBounds
    <2> QED BY <2>1, <2>4 DEF Pairs
<1> QED BY <1>2, <1>3, <1>4

\* A detection that is not fresh gets the id of the track it hit.
LEMMA HitGivesId ==
    ASSUME TypeInv, NEW n \in Nat, NEW dets \in [1 .. n -> Detections],
           NEW a \in Assignments(dets), NEW p \in Hits(dets, a)
    PROVE  p[1] \notin FreshIn(dets, a) /\ IdOf(dets, a, p[1]) = p[2]
<1>1. p[1] \notin FreshIn(dets, a)
    BY DEF FreshIn
<1> DEFINE q == CHOOSE q \in Hits(dets, a) : q[1] = p[1]
<1>2. q \in Hits(dets, a) /\ q[1] = p[1]
    OBVIOUS
<1>3. OneToOne(Hits(dets, a))
    BY HitsAre
<1>4. q = p
    BY <1>2, <1>3 DEF OneToOne
<1>5. IdOf(dets, a, p[1]) = q[2]
    BY <1>1 DEF IdOf
<1> QED BY <1>1, <1>4, <1>5

\* The ids an update gives: those of the tracks hit, and the next ones for the others.
LEMMA IdsGiven ==
    ASSUME TypeInv, NEW n \in Nat, NEW dets \in [1 .. n -> Detections],
           NEW a \in Assignments(dets)
    PROVE  /\ Cardinality(FreshIn(dets, a)) \in Nat
           /\ KeptBy(dets, a) \subseteq active_tids
           /\ NewIds(dets, a) =
                 next_track_id .. next_track_id + Cardinality(FreshIn(dets, a)) - 1
           /\ \A i \in 1 .. n : IF i \in FreshIn(dets, a)
                                THEN IdOf(dets, a, i) \in NewIds(dets, a)
                                ELSE /\ IdOf(dets, a, i) \in KeptBy(dets, a)
                                     /\ tracks[IdOf(dets, a, i)].class = dets[i].class
           /\ \A i, j \in 1 .. n : IdOf(dets, a, i) = IdOf(dets, a, j) => i = j
<1> DEFINE F == FreshIn(dets, a)
           H == Hits(dets, a)
           next == next_track_id
<1>1. F \in SUBSET (1 .. n) /\ DOMAIN dets = 1 .. n
    BY DEF FreshIn
<1>2. /\ Cardinality(F) \in Nat
      /\ \A i \in F : Rank(F, i) \in 1 .. Cardinality(F)
      /\ \A i, j \in F : Rank(F, i) = Rank(F, j) => i = j
      /\ \A k \in 1 .. Cardinality(F) : \E i \in F : Rank(F, i) = k
    BY <1>1, RanksCount
<1>3. KeptBy(dets, a) \subseteq active_tids
    BY HitsAre DEF KeptBy
<1>4. next \in Nat \ {0} /\ \A t \in active_tids : t \in Nat /\ t < next
    BY DEF TypeInv, Ids
<1>5. \A i \in F : IdOf(dets, a, i) = next + Rank(F, i) - 1
    BY DEF IdOf, NewId
<1>6. NewIds(dets, a) = next .. next + Cardinality(F) - 1
    <2>1. ASSUME NEW k \in next .. next + Cardinality(F) - 1 PROVE k \in NewIds(dets, a)
        <3>1. k - next + 1 \in 1 .. Cardinality(F)
            BY <1>2, <1>4
        <3>2. PICK i \in F : Rank(F, i) = k - next + 1
            BY <1>2, <3>1
        <3>3. IdOf(dets, a, i) = k
            BY <1>4, <1>5, <3>2
        <3> QED BY <3>3 DEF NewIds
    <2>2. ASSUME NEW i \in F
          PROVE  IdOf(dets, a, i) \in next .. next + Cardinality(F) - 1
        BY <1>2, <1>4, <1>5
    <2> QED BY <2>1, <2>2 DEF NewIds
<1>7. ASSUME NEW i \in (1 .. n) \ F
      PROVE  \E p \in H : p[1] = i /\ IdOf(dets, a, i) = p[2]
    <2>1. PICK p \in H : p[1] = i
        BY <1>1 DEF FreshIn
    <2> QED BY <2>1, HitGivesId
<1>8. ASSUME NEW i \in (1 .. n) \ F
      PROVE  /\ IdOf(dets, a, i) \in KeptBy(dets, a)
             /\ tracks[IdOf(dets, a, i)].class = dets[i].class
    BY <1>7, HitsAre DEF KeptBy
<1>9. ASSUME NEW i \in 1 .. n, NEW j \in 1 .. n, IdOf(dets, a, i) = IdOf(dets, a, j)
      PROVE  i = j
    <2>1. CASE i \in F /\ j \in F
        BY <1>2, <1>4, <1>5, <1>9, <2>1
    <2>2. CASE i \notin F /\ j \notin F
        <3>1. OneToOne(H)
            BY HitsAre
        <3> QED BY <1>7, <1>9, <2>2, <3>1 DEF OneToOne
    <2>3. \A k \in F, m \in (1 .. n) \ F : IdOf(dets, a, k) # IdOf(dets, a, m)
        BY <1>2, <1>3, <1>4, <1>5, <1>8
    <2> QED BY <1>9, <2>1, <2>2, <2>3
<1>10. \A i \in F : IdOf(dets, a, i) \in NewIds(dets, a)
    BY DEF NewIds
<1> HIDE DEF F
<1> QED BY <1>2, <1>3, <1>6, <1>8, <1>9, <1>10 DEF F

\* The detection whose id is looked up is the one that got it.
LEMMA DetOfId ==
    ASSUME TypeInv, NEW n \in Nat, NEW dets \in [1 .. n -> Detections],
           NEW a \in Assignments(dets), NEW i \in 1 .. n
    PROVE  DetOf(dets, a, IdOf(dets, a, i)) = dets[i]
<1> DEFINE k == CHOOSE k \in DOMAIN dets : IdOf(dets, a, k) = IdOf(dets, a, i)
<1>1. k \in 1 .. n /\ IdOf(dets, a, k) = IdOf(dets, a, i)
    OBVIOUS
<1>2. k = i
    <2> HIDE DEF k
    <2> QED BY <1>1, IdsGiven
<1> QED BY <1>2 DEF DetOf

-----------------------------------------------------------------------------
(* Every step keeps the invariant *)

\* An id with one class has been given out once.
LEMMA BornOnce == TypeInv => \A t \in DOMAIN born : Len(born[t]) = 1
BY DEF TypeInv

\* The same after a step.
LEMMA BornOnceNext == TypeInv' => \A t \in DOMAIN born' : Len(born'[t]) = 1
BY DEF TypeInv

\* The tracker starts without tracks.
LEMMA InitInv == Init => IInv
<1> SUFFICES ASSUME Init PROVE IInv
    OBVIOUS
<1>1. DOMAIN tracks = {} /\ DOMAIN born = {} /\ DOMAIN matches = {} /\ Ids = {}
    BY DEF Init, Ids
<1>2. TypeInv
    BY <1>1 DEF Init, TypeInv, active_tids
<1> QED BY <1>1, <1>2 DEF IInv, LifeInv, ForgottenInTime, OneIdEach, IdKeepsClass, active_tids

\* An update without detections ages every track, and forgets those aged too much.
LEMMA EmptyInv == IInv /\ update_empty => IInv'
<1> SUFFICES ASSUME IInv, update_empty PROVE IInv'
    OBVIOUS
<1> USE DEF IInv
<1>1. DOMAIN tracks' = Survivors(active_tids) /\ DOMAIN matches' = {}
    BY DEF update_empty
<1>2. ASSUME NEW t \in Survivors(active_tids)
      PROVE  /\ t \in active_tids /\ tracks[t].missed + 1 <= MaxMissed
             /\ tracks'[t] = [place |-> tracks[t].place, class |-> tracks[t].class,
                              missed |-> tracks[t].missed + 1]
    <2>1. t \in active_tids /\ ~ tracks[t].missed + 1 > MaxMissed
        BY DEF Survivors, Dead
    <2>2. /\ tracks[t].missed \in Nat
          /\ tracks[t] = [place |-> tracks[t].place, class |-> tracks[t].class,
                          missed |-> tracks[t].missed]
        BY <2>1 DEF TypeInv
    <2>3. tracks'[t] = Missed(t)
        BY DEF update_empty
    <2> QED BY <2>1, <2>2, <2>3 DEF Missed
<1>3. /\ next_track_id' = next_track_id /\ born' = born /\ Ids' = Ids
      /\ DOMAIN born = Ids
    BY DEF update_empty, Ids, TypeInv
<1>4. unseen' = [t \in Ids |-> IF unseen[t] > MaxMissed THEN unseen[t] ELSE unseen[t] + 1]
    BY <1>3 DEF update_empty, Aged
<1>5. TypeInv'
    BY <1>1, <1>2, <1>3, <1>4 DEF TypeInv, active_tids, update_empty
<1>6. LifeInv'
    BY <1>1, <1>2, <1>3, <1>4 DEF LifeInv, TypeInv, active_tids
<1>7. ForgottenInTime'
    BY <1>1, <1>2, <1>3, <1>4
       DEF ForgottenInTime, LifeInv, TypeInv, active_tids, Survivors, Dead
<1>8. OneIdEach' /\ IdKeepsClass'
    BY <1>1, <1>5, BornOnceNext DEF OneIdEach, IdKeepsClass
<1> QED BY <1>5, <1>6, <1>7, <1>8

\* A frame that does not reach the tracker changes no track.
LEMMA NothingSeenInv == IInv /\ NothingSeen => IInv'
BY DEF IInv, NothingSeen, TypeInv, LifeInv, ForgottenInTime, OneIdEach, IdKeepsClass,
       active_tids, Ids

\* What an update makes of a track that is new, hit, or left out.
NewTracks(dets, a) ==
    \A t \in NewIds(dets, a) :
       /\ t \notin Ids /\ t \notin active_tids
       /\ DetOf(dets, a, t) \in Detections
       /\ tracks'[t] = [place |-> DetOf(dets, a, t).place, class |-> DetOf(dets, a, t).class,
                        missed |-> 0]
       /\ born'[t] = <<DetOf(dets, a, t).class>> /\ unseen'[t] = 0

KeptTracks(dets, a, places) ==
    \A t \in KeptBy(dets, a) :
       /\ t \in active_tids
       /\ tracks'[t] = [place |-> places[t], class |-> tracks[t].class, missed |-> 0]
       /\ unseen'[t] = 0

RestTracks(dets, a) ==
    /\ \A t \in active_tids \ KeptBy(dets, a) :
          t \in Rest(dets, a) <=> tracks[t].missed + 1 <= MaxMissed
    /\ \A t \in Rest(dets, a) :
          /\ t \in active_tids \ KeptBy(dets, a)
          /\ tracks'[t] = [place |-> tracks[t].place, class |-> tracks[t].class,
                           missed |-> tracks[t].missed + 1]

\* What it makes of the ids given out before.
OldIds(dets, a) ==
    \A t \in Ids :
       /\ born'[t] = born[t]
       /\ t \notin KeptBy(dets, a) =>
             unseen'[t] = IF unseen[t] > MaxMissed THEN unseen[t] ELSE unseen[t] + 1

\* An update treats each live track, and each id, in one of these ways.
LEMMA UpdateTracks ==
    ASSUME IInv, NEW n \in Nat, NEW dets \in [1 .. n -> Detections],
           NEW a \in Assignments(dets), NEW places \in [active_tids -> Places],
           Update(dets, a, places)
    PROVE  /\ active_tids' = KeptBy(dets, a) \cup Rest(dets, a) \cup NewIds(dets, a)
           /\ Ids' = Ids \cup NewIds(dets, a)
           /\ NewTracks(dets, a) /\ KeptTracks(dets, a, places) /\ RestTracks(dets, a)
           /\ OldIds(dets, a)
           /\ DOMAIN born' = Ids' /\ DOMAIN unseen' = Ids'
<1> DEFINE K == KeptBy(dets, a)
           N == NewIds(dets, a)
           R == Rest(dets, a)
           new == Cardinality(FreshIn(dets, a))
<1>1. /\ tracks' = [t \in K \cup R \cup N |->
                IF t \in N
                THEN [place |-> DetOf(dets, a, t).place, class |-> DetOf(dets, a, t).class,
                      missed |-> 0]
                ELSE IF t \in K THEN Matched(t, places[t]) ELSE Missed(t)]
      /\ next_track_id' = next_track_id + new
      /\ born' = [t \in DOMAIN born \cup N |->
                IF t \in N THEN Append(Births(t), DetOf(dets, a, t).class) ELSE born[t]]
      /\ unseen' = Aged(DOMAIN born \cup N, K \cup N)
    <2>1. Effect(dets, a, places)
        BY UpdateMeans
    <2> QED BY <2>1 DEF Effect
<1>2. TypeInv /\ DOMAIN born = Ids
    BY DEF IInv, TypeInv
<1>3. new \in Nat /\ K \subseteq active_tids /\ N = next_track_id .. next_track_id + new - 1
    BY <1>2, IdsGiven
<1>4. next_track_id \in Nat \ {0} /\ active_tids \subseteq Ids
    BY <1>2 DEF TypeInv
<1>5. \A t \in active_tids : tracks[t] = [place |-> tracks[t].place,
                 class |-> tracks[t].class, missed |-> tracks[t].missed]
                 /\ tracks[t].missed \in Nat
    BY <1>2 DEF TypeInv
<1>6. Ids' = Ids \cup N /\ \A t \in N : t \notin Ids /\ t \notin active_tids
    BY <1>1, <1>3, <1>4 DEF Ids
<1>7. ASSUME NEW t \in N PROVE DetOf(dets, a, t) \in Detections
    <2>1. PICK i \in FreshIn(dets, a) : t = IdOf(dets, a, i)
        BY DEF NewIds
    <2>2. i \in 1 .. n
        BY DEF FreshIn
    <2> QED BY <1>2, <2>1, <2>2, DetOfId
<1>8. R \subseteq active_tids \ K
    BY DEF Rest, Survivors
<1>9. \A t \in active_tids \ K : t \in R <=> tracks[t].missed + 1 <= MaxMissed
    <2>1. \A t \in active_tids \ K : t \in R <=> ~ Dead(t)
        BY DEF Rest, Survivors
    <2>2. ASSUME NEW t \in active_tids PROVE ~ Dead(t) <=> tracks[t].missed + 1 <= MaxMissed
        <3>1. tracks[t].missed \in Nat
            BY <1>5
        <3> QED BY <3>1 DEF Dead
    <2> QED BY <2>1, <2>2, Zenon
<1> HIDE DEF K, N, R, new
<1>10. active_tids' = K \cup R \cup N
    BY <1>1 DEF active_tids
<1>11. \A t \in N :
          /\ tracks'[t] = [place |-> DetOf(dets, a, t).place,
                           class |-> DetOf(dets, a, t).class, missed |-> 0]
          /\ born'[t] = <<DetOf(dets, a, t).class>> /\ unseen'[t] = 0
    <2>1. \A c : Append(<<>>, c) = <<c>>
        OBVIOUS
    <2>2. \A t \in N : Births(t) = <<>>
        BY <1>2, <1>6 DEF Births
    <2> QED BY <1>1, <2>1, <2>2 DEF Aged
<1>12. ASSUME NEW t \in K
       PROVE  /\ tracks'[t] = [place |-> places[t], class |-> tracks[t].class, missed |-> 0]
              /\ unseen'[t] = 0
    <2>1. t \notin N /\ t \in active_tids /\ t \in Ids
        BY <1>3, <1>4, <1>6
    <2>2. tracks'[t] = Matched(t, places[t])
        BY <1>1, <2>1
    <2>3. unseen'[t] = 0
        BY <1>1, <1>2, <2>1 DEF Aged
    <2> QED BY <1>5, <2>1, <2>2, <2>3 DEF Matched
<1>13. ASSUME NEW t \in R
       PROVE  tracks'[t] = [place |-> tracks[t].place, class |-> tracks[t].class,
                            missed |-> tracks[t].missed + 1]
    <2>1. t \notin N /\ t \notin K /\ t \in active_tids
        BY <1>6, <1>8
    <2>2. tracks'[t] = Missed(t)
        BY <1>1, <2>1
    <2> QED BY <1>5, <2>1, <2>2 DEF Missed
<1>14. ASSUME NEW t \in Ids
       PROVE  /\ born'[t] = born[t]
              /\ t \notin K => unseen'[t] = IF unseen[t] > MaxMissed THEN unseen[t]
                                            ELSE unseen[t] + 1
    BY <1>1, <1>2, <1>6 DEF Aged
<1>15. DOMAIN born' = Ids' /\ DOMAIN unseen' = Ids'
    BY <1>1, <1>2, <1>6 DEF Aged
<1> QED BY <1>3, <1>6, <1>7, <1>8, <1>9, <1>10, <1>11, <1>12, <1>13, <1>14, <1>15
        DEF K, N, R, NewTracks, KeptTracks, RestTracks, OldIds

\* What an update tells of each detection: the live track that has its class and its id.
LEMMA UpdateMatches ==
    ASSUME IInv, NEW n \in Nat, NEW dets \in [1 .. n -> Detections],
           NEW a \in Assignments(dets), NEW places \in [active_tids -> Places],
           Update(dets, a, places)
    PROVE  /\ matches' = [i \in 1 .. n |-> IdOf(dets, a, i)]
           /\ \A i \in 1 .. n : /\ matches'[i] \in active_tids'
                                /\ born'[matches'[i]] = <<dets[i].class>>
           /\ \A i, j \in 1 .. n : matches'[i] = matches'[j] => i = j
<1>1. matches' = [i \in 1 .. n |-> IdOf(dets, a, i)]
    <2>1. Effect(dets, a, places)
        BY UpdateMeans
    <2> QED BY <2>1 DEF Effect
<1>2. TypeInv /\ LifeInv
    BY DEF IInv
<1>3. \A i, j \in 1 .. n : IdOf(dets, a, i) = IdOf(dets, a, j) => i = j
    BY <1>2, IdsGiven
<1>4. active_tids' = KeptBy(dets, a) \cup Rest(dets, a) \cup NewIds(dets, a)
    BY UpdateTracks
<1>5. ASSUME NEW i \in 1 .. n
      PROVE  /\ IdOf(dets, a, i) \in active_tids'
             /\ born'[IdOf(dets, a, i)] = <<dets[i].class>>
    <2> DEFINE t == IdOf(dets, a, i)
    <2>1. CASE i \in FreshIn(dets, a)
        <3>1. t \in NewIds(dets, a)
            BY <1>2, <2>1, IdsGiven
        <3>2. born'[t] = <<DetOf(dets, a, t).class>>
            <4>1. NewTracks(dets, a)
                BY UpdateTracks
            <4> QED BY <3>1, <4>1 DEF NewTracks
        <3>3. DetOf(dets, a, t) = dets[i]
            BY <1>2, DetOfId
        <3> QED BY <1>4, <3>1, <3>2, <3>3
    <2>2. CASE i \notin FreshIn(dets, a)
        <3>1. t \in KeptBy(dets, a) /\ tracks[t].class = dets[i].class
            BY <1>2, <2>2, IdsGiven
        <3>2. t \in active_tids
            BY <3>1, UpdateTracks DEF KeptTracks
        <3>3. born[t] = <<tracks[t].class>> /\ t \in Ids
            BY <1>2, <3>2 DEF LifeInv, TypeInv
        <3>4. born'[t] = born[t]
            BY <3>3, UpdateTracks DEF OldIds
        <3> QED BY <1>4, <3>1, <3>3, <3>4
    <2> QED BY <2>1, <2>2
<1> QED BY <1>1, <1>3, <1>5

\* An update with detections keeps the invariant.
LEMMA UpdateInv == IInv /\ update => IInv'
<1> SUFFICES ASSUME IInv, update PROVE IInv'
    OBVIOUS
<1>0. PICK n \in 1 .. MaxSeen : \E dets \in [1 .. n -> Detections] :
         /\ seen' = dets
         /\ \E a \in Assignments(dets) : \E places \in [active_tids -> Places] :
               Update(dets, a, places)
    BY DEF update
<1>1. PICK dets \in [1 .. n -> Detections] :
         /\ seen' = dets
         /\ \E a \in Assignments(dets) : \E places \in [active_tids -> Places] :
               Update(dets, a, places)
    BY <1>0
<1>2. PICK a \in Assignments(dets), places \in [active_tids -> Places] :
         Update(dets, a, places)
    BY <1>1
<1>3. n \in Nat
    OBVIOUS
<1> DEFINE K == KeptBy(dets, a)
           N == NewIds(dets, a)
           R == Rest(dets, a)
<1>4. /\ active_tids' = K \cup R \cup N /\ Ids' = Ids \cup N
      /\ NewTracks(dets, a) /\ KeptTracks(dets, a, places) /\ RestTracks(dets, a)
      /\ OldIds(dets, a)
      /\ DOMAIN born' = Ids' /\ DOMAIN unseen' = Ids'
    BY <1>2, <1>3, UpdateTracks
<1>5. /\ matches' = [i \in 1 .. n |-> IdOf(dets, a, i)]
      /\ \A i \in 1 .. n : /\ matches'[i] \in active_tids'
                           /\ born'[matches'[i]] = <<dets[i].class>>
      /\ \A i, j \in 1 .. n : matches'[i] = matches'[j] => i = j
    BY <1>2, <1>3, UpdateMatches
<1>6. TypeInv /\ LifeInv /\ ForgottenInTime
    BY DEF IInv
<1>7. Effect(dets, a, places)
    BY <1>2, UpdateMeans
<1>8. next_track_id' \in Nat \ {0}
    <2>1. Cardinality(FreshIn(dets, a)) \in Nat
        BY <1>3, <1>6, IdsGiven
    <2>2. next_track_id' = next_track_id + Cardinality(FreshIn(dets, a))
        BY <1>7 DEF Effect
    <2> QED BY <1>6, <2>1, <2>2 DEF TypeInv
<1>9. ASSUME NEW t \in active_tids
      PROVE  /\ t \in Ids
             /\ tracks[t].place \in Places /\ tracks[t].class \in Classes
             /\ tracks[t].missed \in 0 .. MaxMissed
             /\ born[t] = <<tracks[t].class>> /\ tracks[t].missed = unseen[t]
    BY <1>6 DEF TypeInv, LifeInv
<1>10. ASSUME NEW t \in active_tids'
       PROVE  /\ tracks'[t] \in [place : Places, class : Classes, missed : 0 .. MaxMissed]
              /\ born'[t] = <<tracks'[t].class>> /\ tracks'[t].missed = unseen'[t] /\ t \in Ids'
    <2>1. CASE t \in N
        <3> DEFINE d == DetOf(dets, a, t)
        <3>1. /\ d \in Detections
              /\ tracks'[t] = [place |-> d.place, class |-> d.class, missed |-> 0]
              /\ born'[t] = <<d.class>> /\ unseen'[t] = 0
            BY <1>4, <2>1 DEF NewTracks
        <3>2. t \in Ids'
            BY <1>4, <2>1
        <3>3. d.place \in Places /\ d.class \in Classes
            BY <3>1 DEF Detections
        <3> HIDE DEF d
        <3> QED BY <3>1, <3>2, <3>3
    <2>2. CASE t \in K
        <3>1. /\ t \in active_tids /\ unseen'[t] = 0
              /\ tracks'[t] = [place |-> places[t], class |-> tracks[t].class, missed |-> 0]
            BY <1>4, <2>2 DEF KeptTracks
        <3>2. born'[t] = born[t] /\ t \in Ids'
            BY <1>4, <1>9, <3>1 DEF OldIds
        <3> QED BY <1>2, <1>9, <3>1, <3>2
    <2>3. CASE t \in R
        <3>1. /\ t \in active_tids \ K /\ tracks[t].missed + 1 <= MaxMissed
              /\ tracks'[t] = [place |-> tracks[t].place, class |-> tracks[t].class,
                               missed |-> tracks[t].missed + 1]
            BY <1>4, <2>3 DEF RestTracks
        <3>2. /\ born'[t] = born[t] /\ t \in Ids'
              /\ unseen'[t] = IF unseen[t] > MaxMissed THEN unseen[t] ELSE unseen[t] + 1
            BY <1>4, <1>9, <3>1 DEF OldIds
        <3> QED BY <1>9, <3>1, <3>2
    <2> QED BY <1>4, <2>1, <2>2, <2>3
<1>11. ASSUME NEW t \in Ids'
       PROVE  /\ born'[t] \in {<<c>> : c \in Classes} /\ unseen'[t] \in 0 .. MaxMissed + 1
              /\ t \in active_tids' <=> unseen'[t] <= MaxMissed
    <2>1. CASE t \in N \/ t \in K
        <3>1. t \in active_tids' /\ unseen'[t] = 0
            BY <1>4, <2>1 DEF NewTracks, KeptTracks
        <3>2. tracks'[t].class \in Classes
            BY <1>10, <3>1
        <3>3. born'[t] = <<tracks'[t].class>>
            BY <1>10, <3>1
        <3>4. born'[t] \in {<<c>> : c \in Classes}
            BY <3>2, <3>3
        <3> QED BY <3>1, <3>4
    <2>2. CASE t \notin N /\ t \notin K
        <3>1. t \in Ids
            BY <1>4, <2>2
        <3>2. born[t] \in {<<c>> : c \in Classes} /\ unseen[t] \in 0 .. MaxMissed + 1
            BY <1>6, <3>1 DEF TypeInv
        <3>3. /\ born'[t] = born[t]
              /\ unseen'[t] = IF unseen[t] > MaxMissed THEN unseen[t] ELSE unseen[t] + 1
            BY <1>4, <2>2, <3>1 DEF OldIds
        <3>4. t \in active_tids <=> unseen[t] <= MaxMissed
            BY <1>6, <3>1 DEF ForgottenInTime, TypeInv
        <3>5. t \in active_tids' <=> t \in R
            BY <1>4, <2>2
        <3>6. CASE t \in active_tids
            <4>1. t \in R <=> tracks[t].missed + 1 <= MaxMissed
                BY <1>4, <2>2, <3>6 DEF RestTracks
            <4>2. tracks[t].missed = unseen[t]
                BY <1>9, <3>6
            <4>3. unseen'[t] = unseen[t] + 1
                BY <3>2, <3>3, <3>4, <3>6
            <4>4. t \in active_tids' <=> unseen'[t] <= MaxMissed
                BY <3>5, <4>1, <4>2, <4>3, Zenon
            <4> QED BY <3>2, <3>3, <3>4, <3>6, <4>3, <4>4
        <3>7. CASE t \notin active_tids
            <4>1. t \notin R
                BY <1>4, <3>7 DEF RestTracks
            <4> QED BY <3>2, <3>3, <3>4, <3>5, <3>7, <4>1
        <3> QED BY <3>6, <3>7
    <2> QED BY <2>1, <2>2
<1>12. tracks' \in [active_tids' -> [place : Places, class : Classes, missed : 0 .. MaxMissed]]
    <2>1. tracks' = [t \in active_tids' |-> tracks'[t]]
        BY <1>7 DEF Effect, active_tids
    <2> QED BY <1>10, <2>1
<1>13. born' \in [Ids' -> {<<c>> : c \in Classes}]
    <2>1. born' = [t \in Ids' |-> born'[t]]
        BY <1>4, <1>7 DEF Effect
    <2> QED BY <1>11, <2>1
<1>14. unseen' \in [Ids' -> 0 .. MaxMissed + 1]
    <2>1. unseen' = [t \in Ids' |-> unseen'[t]]
        BY <1>4, <1>7 DEF Effect, Aged
    <2> QED BY <1>11, <2>1
<1>15. TypeInv'
    BY <1>1, <1>5, <1>8, <1>10, <1>12, <1>13, <1>14 DEF TypeInv
<1>16. LifeInv'
    BY <1>10 DEF LifeInv
<1>17. ForgottenInTime'
    BY <1>4, <1>11 DEF ForgottenInTime
<1>18. OneIdEach' /\ IdKeepsClass'
    BY <1>1, <1>5, <1>15, BornOnceNext DEF OneIdEach, IdKeepsClass
<1> QED BY <1>15, <1>16, <1>17, <1>18 DEF IInv

\* The invariant of the tracker.
THEOREM Invariance == Spec => []IInv
<1>1. IInv /\ [Next]_vars => IInv'
    <2> SUFFICES ASSUME IInv, [Next]_vars PROVE IInv'
        OBVIOUS
    <2>1. CASE UNCHANGED vars
        BY <2>1 DEF vars, IInv, TypeInv, LifeInv, ForgottenInTime, OneIdEach, IdKeepsClass,
                    active_tids, Ids
    <2> QED BY <2>1, UpdateInv, EmptyInv, NothingSeenInv DEF Next
<1> QED BY <1>1, InitInv, PTL DEF Spec

-----------------------------------------------------------------------------
(* The properties *)

\* Two objects of a frame never share an identity, and none has that of a dead track.
THEOREM OneIdForEach == Spec => []OneIdEach
BY Invariance, PTL DEF IInv

\* An id is given out once and stands for one class for ever, also across the death
\* of its track.
THEOREM IdsKeepTheirClass == Spec => []IdKeepsClass
BY Invariance, PTL DEF IInv

\* A track dies with the update that misses it once more than allowed, and not before.
THEOREM TracksForgottenInTime == Spec => []ForgottenInTime
BY Invariance, PTL DEF IInv

\* An update gives the lone object the id of the lone track.
LEMMA LoneStep ==
    ASSUME IInv, update, NEW i \in DOMAIN seen', NEW t \in DOMAIN tracks,
           \A j \in DOMAIN seen' : seen'[j].class = seen'[i].class => j = i,
           \A u \in DOMAIN tracks : tracks[u].class = seen'[i].class <=> u = t,
           Distance(seen'[i].place, tracks[t].place) <= MaxMatch
    PROVE  matches'[i] = t
<1>0. PICK n \in 1 .. MaxSeen : \E dets \in [1 .. n -> Detections] :
         /\ seen' = dets
         /\ \E a \in Assignments(dets) :
               /\ LeastCost(dets, a)
               /\ \E places \in [active_tids -> Places] : Update(dets, a, places)
    BY DEF update
<1>1. PICK dets \in [1 .. n -> Detections] :
         /\ seen' = dets
         /\ \E a \in Assignments(dets) :
               /\ LeastCost(dets, a)
               /\ \E places \in [active_tids -> Places] : Update(dets, a, places)
    BY <1>0
<1>2. PICK a \in Assignments(dets) :
         /\ LeastCost(dets, a)
         /\ \E places \in [active_tids -> Places] : Update(dets, a, places)
    BY <1>1
<1>3. PICK places \in [active_tids -> Places] : Update(dets, a, places)
    BY <1>2
<1>4. n \in Nat /\ i \in 1 .. n /\ TypeInv /\ t \in active_tids
    BY <1>1 DEF IInv, active_tids
<1>5. <<i, t>> \in a
    <2>1. Lone(dets, i, t)
        BY <1>1 DEF Lone, active_tids
    <2> QED BY <1>2, <1>4, <2>1, LonePairAssigned
<1>6. <<i, t>> \in Hits(dets, a)
    <2>1. dets[i].class = tracks[t].class
        BY <1>1
    <2>2. Cost(dets[i], t) <= MaxMatch
        BY <1>1, <2>1 DEF Cost
    <2> QED BY <1>5, <2>2 DEF Hits
<1>7. IdOf(dets, a, i) = t
    BY <1>4, <1>6, HitGivesId
<1>8. matches' = [j \in 1 .. n |-> IdOf(dets, a, j)]
    BY <1>3, <1>4, UpdateMatches
<1> QED BY <1>4, <1>7, <1>8

\* The only object of a class keeps the id of the only track of that class, for any
\* number of other objects that are matched at the same time.
THEOREM LoneObjectsKeepTheirId == Spec => LoneObjectKeepsId
<1> DEFINE A == \A i \in DOMAIN seen', t \in DOMAIN tracks :
                   /\ matches' # <<>>
                   /\ \A j \in DOMAIN seen' : seen'[j].class = seen'[i].class => j = i
                   /\ \A u \in DOMAIN tracks : tracks[u].class = seen'[i].class <=> u = t
                   /\ Distance(seen'[i].place, tracks[t].place) <= MaxMatch
                   => matches'[i] = t
<1>1. IInv /\ [Next]_vars => [A]_vars
    <2> SUFFICES ASSUME IInv, Next, ~ UNCHANGED vars PROVE A
        OBVIOUS
    <2>1. CASE update
        BY <2>1, LoneStep
    <2>2. CASE update_empty \/ NothingSeen
        BY <2>2 DEF update_empty, NothingSeen
    <2> QED BY <2>1, <2>2 DEF Next
<1> QED BY <1>1, Invariance, PTL DEF Spec, LoneObjectKeepsId
=============================================================================
