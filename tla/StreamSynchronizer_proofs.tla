--------------------- MODULE StreamSynchronizer_proofs ---------------------
(***************************************************************************)
(* Proofs about StreamSynchronizer, for any size of the buffers, any       *)
(* allowed differences and any length of the run.                          *)
(***************************************************************************)
EXTENDS StreamSynchronizer, FiniteSetTheorems, SequenceTheorems, TLAPS

USE MaxBufferAssumption, DeltasAssumption, MaxTimeAssumption

-----------------------------------------------------------------------------
(* The best pair *)

\* A nonempty set of natural numbers has a least one: without it, adding 1 would map
\* the numbers below all of the set one to one to themselves, and yet miss 0.
LEMMA LeastNumber ==
    ASSUME NEW S \in SUBSET Nat, S # {}
    PROVE  \E x \in S : \A y \in S : x <= y
<1> SUFFICES ASSUME \A x \in S : \E y \in S : y < x PROVE FALSE
    BY SMT
<1>1. PICK n \in S : TRUE
    OBVIOUS
<1> DEFINE U == {u \in 0 .. n : \A y \in S : u < y}
           g == [u \in U |-> u + 1]
<1>2. 0 \in U
    BY <1>1, SMT
<1>3. \A u \in U : u + 1 \in U
    BY <1>1, SMT
<1>4. IsFiniteSet(U)
    <2>1. IsFiniteSet(0 .. n)
        BY <1>1, FS_Interval, SMT
    <2> QED BY <2>1, FS_Subset, Zenon
<1> HIDE DEF U
<1>5. U \subseteq Nat
    BY <1>1, SMT DEF U
<1>6. g \in Injection(U, U)
    BY <1>3, <1>5, SMT DEF Injection, IsInjective
<1>7. g \in Surjection(U, U)
    BY <1>4, <1>6, FS_Injection, Zenon
<1>8. \A u \in U : g[u] # 0
    BY <1>5, SMT
<1> QED BY <1>2, <1>7, <1>8, Zenon DEF Surjection

LEMMA GapIsNatural ==
    ASSUME TypeOK, NEW p \in Candidates
    PROVE  Gap(p) \in Nat
<1>1. buf[1] \in Seq(Frames) /\ buf[2] \in Seq(Frames)
    BY DEF TypeOK, Streams
<1>2. p[1] \in DOMAIN buf[1] /\ p[2] \in DOMAIN buf[2]
    BY DEF Candidates
<1>3. buf[1][p[1]] \in Frames /\ buf[2][p[2]] \in Frames
    BY <1>1, <1>2, SMT
<1>4. buf[1][p[1]].stamp \in Int /\ buf[2][p[2]].stamp \in Int
    BY <1>3, SMT DEF Frames
<1> QED BY <1>4, SMT DEF Gap

\* The two loops of get_aligned_pair find a best pair whenever there are frames of both
\* streams, so what the specification chooses is one.
LEMMA BestIsCandidate ==
    ASSUME TypeOK, \A s \in Streams : buf[s] # <<>>
    PROVE  LET best == CHOOSE p \in Candidates : IsBest(p)
           IN  best \in Candidates /\ IsBest(best)
<1>1. buf[1] \in Seq(Frames) /\ buf[2] \in Seq(Frames) /\ buf[1] # <<>> /\ buf[2] # <<>>
    BY DEF TypeOK, Streams
<1>2. /\ 1 \in DOMAIN buf[1] /\ 1 \in DOMAIN buf[2]
      /\ DOMAIN buf[1] \subseteq Nat /\ DOMAIN buf[2] \subseteq Nat
    BY <1>1, SMT
<1>3. PICK g \in {Gap(p) : p \in Candidates} : \A h \in {Gap(p) : p \in Candidates} : g <= h
    <2>1. {Gap(p) : p \in Candidates} # {}
        <3>1. <<1, 1>> \in Candidates
            BY <1>2 DEF Candidates
        <3> QED BY <3>1, Zenon
    <2>2. {Gap(p) : p \in Candidates} \in SUBSET Nat
        BY GapIsNatural
    <2> QED BY <2>1, <2>2, LeastNumber, Zenon
<1> DEFINE Close == {p \in Candidates : Gap(p) = g}
<1>4. PICK i \in {p[1] : p \in Close} : \A j \in {p[1] : p \in Close} : i <= j
    <2>1. {p[1] : p \in Close} # {}
        BY <1>3, Zenon
    <2>2. {p[1] : p \in Close} \in SUBSET Nat
        BY <1>2 DEF Candidates
    <2> QED BY <2>1, <2>2, LeastNumber, Zenon
<1> DEFINE First == {p \in Close : p[1] = i}
<1>5. PICK k \in {p[2] : p \in First} : \A j \in {p[2] : p \in First} : k <= j
    <2>1. {p[2] : p \in First} # {}
        BY <1>4, Zenon
    <2>2. {p[2] : p \in First} \in SUBSET Nat
        BY <1>2 DEF Candidates
    <2> QED BY <2>1, <2>2, LeastNumber, Zenon
<1>6. PICK p \in First : p[2] = k
    BY <1>5, Zenon
<1>7. \A q \in Candidates : Gap(p) <= Gap(q)
    BY <1>3, <1>6, Zenon
<1>8. ASSUME NEW q \in Candidates, Gap(q) = Gap(p)
      PROVE  Before(p, q)
    <2>1. q \in Close /\ p \in Close /\ p[1] = i /\ p[2] = k
        BY <1>6, <1>8, Zenon
    <2>2. i <= q[1] /\ (q[1] = i => k <= q[2])
        BY <1>4, <1>5, <2>1, Zenon
    <2>3. i \in Nat /\ q[1] \in Nat
        BY <1>2, <2>1 DEF Candidates
    <2> QED BY <2>1, <2>2, <2>3, SMT DEF Before
<1>9. p \in Candidates /\ IsBest(p)
    BY <1>6, <1>7, <1>8, Zenon DEF IsBest
<1> QED BY <1>9, Zenon

-----------------------------------------------------------------------------
(* The buffers *)

\* What is left of a buffer from whose front n frames are gone.
LEMMA RestOfBuffer ==
    ASSUME NEW q \in Seq(Frames), NEW n \in 0 .. Len(q)
    PROVE  /\ Rest(q, n) \in Seq(Frames) /\ Len(Rest(q, n)) = Len(q) - n
           /\ \A i \in DOMAIN Rest(q, n) : i + n \in DOMAIN q /\ Rest(q, n)[i] = q[i + n]
<1>1. n + 1 \in Int /\ Len(q) \in Int /\ \A i \in n + 1 .. Len(q) : q[i] \in Frames
    BY SMT
<1>2. /\ Rest(q, n) \in Seq(Frames)
      /\ Len(Rest(q, n)) = IF n + 1 <= Len(q) THEN Len(q) - (n + 1) + 1 ELSE 0
      /\ \A i \in 1 .. Len(q) - (n + 1) + 1 : Rest(q, n)[i] = q[n + 1 + i - 1]
    <2> DEFINE m == n + 1
               e == Len(q)
    <2>1. m \in Int /\ e \in Int /\ \A i \in m .. e : q[i] \in Frames
        BY <1>1
    <2> HIDE DEF m, e
    <2>2. /\ SubSeq(q, m, e) \in Seq(Frames)
          /\ Len(SubSeq(q, m, e)) = IF m <= e THEN e - m + 1 ELSE 0
          /\ \A i \in 1 .. e - m + 1 : SubSeq(q, m, e)[i] = q[m + i - 1]
        BY <2>1, SubSeqProperties
    <2> QED BY <2>2, Zenon DEF Rest, m, e
<1> QED BY <1>2, SMT

LEMMA TailIsRest ==
    ASSUME NEW q \in Seq(Frames), q # <<>>
    PROVE  Tail(q) = Rest(q, 1) /\ 1 \in 0 .. Len(q) /\ Head(q) = q[1] /\ 1 \in DOMAIN q
<1>1. Tail(q) = SubSeq(q, 2, Len(q))
    BY TailIsSubSeq, Zenon
<1> QED BY <1>1, SMT DEF Rest

LEMMA NothingIsRest ==
    ASSUME NEW q \in Seq(Frames)
    PROVE  <<>> = Rest(q, Len(q)) /\ Len(q) \in 0 .. Len(q)
BY SMT DEF Rest

\* What a buffer holds after a frame has been pushed.
LEMMA PushedBuffer ==
    ASSUME NEW q \in Seq(Frames), Len(q) <= MaxBuffer, NEW f \in Frames
    PROVE  /\ Pushed(q, f) \in Seq(Frames)
           /\ Len(Pushed(q, f)) = IF Full(q) THEN Len(q) ELSE Len(q) + 1
           /\ Len(Pushed(q, f)) <= MaxBuffer
           /\ \E n \in {0, 1} : \A i \in DOMAIN Pushed(q, f) :
                 \/ i = Len(Pushed(q, f)) /\ Pushed(q, f)[i] = f
                 \/ i < Len(Pushed(q, f)) /\ i + n \in DOMAIN q /\ Pushed(q, f)[i] = q[i + n]
<1>1. CASE Full(q)
    <2>1. Pushed(q, f) = Append(Tail(q), f) /\ Len(q) = MaxBuffer /\ q # <<>>
        BY <1>1, SMT DEF Pushed, Full
    <2>2. Tail(q) \in Seq(Frames) /\ Len(Tail(q)) = Len(q) - 1
        BY <2>1, SMT
    <2>3. \A i \in 1 .. Len(q) - 1 : Tail(q)[i] = q[i + 1] /\ i + 1 \in DOMAIN q
        BY <2>1, SMT
    <2> QED BY <1>1, <2>1, <2>2, <2>3, SMT
<1>2. CASE ~Full(q)
    <2>1. Pushed(q, f) = Append(q, f) /\ Len(q) < MaxBuffer
        BY <1>2, SMT DEF Pushed, Full
    <2> QED BY <1>2, <2>1, SMT
<1> QED BY <1>1, <1>2

-----------------------------------------------------------------------------
(* The frames of one stream *)

\* The frames q of a stream are in order: newer than the last one paired, l; no newer
\* than the n-th, the last pushed; captured before the one that waits, stamped t, and
\* before c, the present.
Line(q, l, n, t, c) ==
    /\ l <= n /\ t <= c
    /\ \A i \in DOMAIN q : l < q[i].seq /\ q[i].seq <= n /\ q[i].stamp <= c
    /\ \A i, j \in DOMAIN q : i < j => q[i].seq < q[j].seq /\ q[i].stamp <= q[j].stamp
    /\ t # None => \A i \in DOMAIN q : q[i].stamp <= t

Lines == \A s \in Streams : Line(buf[s], last[s], seq[s], stamp[s], now)

Stamps == 0 .. MaxTime \cup {None}

LEMMA LinesAreInOrder == Lines => InOrder
BY Zenon DEF Lines, Line, InOrder

LEMMA FrameTypes ==
    ASSUME NEW q \in Seq(Frames), NEW i \in DOMAIN q
    PROVE  q[i] \in Frames /\ q[i].seq \in Nat \ {0} /\ q[i].stamp \in 0 .. MaxTime
<1>1. q[i] \in Frames
    BY SMT
<1> QED BY <1>1, SMT DEF Frames

LEMMA LineWaits ==
    ASSUME NEW q \in Seq(Frames), NEW l \in Nat, NEW n \in Nat, NEW c \in 0 .. MaxTime
    PROVE  /\ \A t \in Stamps : Line(q, l, n, t, c) => Line(q, l, n, t, c + 1)
           /\ Line(q, l, n, None, c) => Line(q, l, n, c, c)
<1>1. \A i \in DOMAIN q : q[i].stamp \in Int
    BY FrameTypes, SMT
<1>2. \A t \in Stamps : t \in Int
    BY SMT DEF Stamps, None
<1> QED BY <1>1, <1>2, SMT DEF Line

LEMMA LineShortened ==
    ASSUME NEW q \in Seq(Frames), NEW l \in Nat, NEW n \in Nat, NEW t \in Stamps,
           NEW c \in 0 .. MaxTime, Line(q, l, n, t, c),
           NEW k \in 0 .. Len(q), NEW m, m = l \/ (k > 0 /\ m = q[k].seq)
    PROVE  Line(Rest(q, k), m, n, t, c)
<1> DEFINE r == Rest(q, k)
<1>1. \A i \in DOMAIN r : i \in Nat /\ i + k \in DOMAIN q /\ r[i] = q[i + k] /\ k < i + k
    BY RestOfBuffer, SMT
<1>2. k > 0 => k \in DOMAIN q
    BY SMT
<1>3. m <= n
    BY <1>2, FrameTypes, SMT DEF Line
<1>4. \A i \in DOMAIN r : m < r[i].seq
    BY <1>1, <1>2, Zenon DEF Line
<1>5. \A i, j \in DOMAIN r : i < j => i + k < j + k
    BY <1>1, SMT
<1> HIDE DEF r
<1>6. \A i, j \in DOMAIN r : i < j => r[i].seq < r[j].seq /\ r[i].stamp <= r[j].stamp
    BY <1>1, <1>5, Zenon DEF Line
<1>7. Line(r, m, n, t, c)
    BY <1>1, <1>3, <1>4, <1>6, Zenon DEF Line
<1> QED BY <1>7 DEF r

LEMMA LinePushed ==
    ASSUME NEW q \in Seq(Frames), Len(q) <= MaxBuffer, NEW l \in Nat, NEW n \in Nat,
           NEW t \in 0 .. MaxTime, NEW c \in 0 .. MaxTime, Line(q, l, n, t, c)
    PROVE  Line(Pushed(q, [seq |-> n + 1, stamp |-> t]), l, n + 1, None, c)
<1> DEFINE f == [seq |-> n + 1, stamp |-> t]
           r == Pushed(q, f)
<1>1. f \in Frames /\ f.seq = n + 1 /\ f.stamp = t
    BY SMT DEF Frames
<1> HIDE DEF f
<1>2. PICK k \in {0, 1} : \A i \in DOMAIN r :
           \/ i = Len(r) /\ r[i] = f
           \/ i < Len(r) /\ i + k \in DOMAIN q /\ r[i] = q[i + k]
    BY <1>1, PushedBuffer
<1>3. r \in Seq(Frames)
    BY <1>1, PushedBuffer
<1> HIDE DEF r
<1>4. t # None /\ None <= c
    BY SMT DEF None
<1>5. \A i \in DOMAIN q : /\ q[i].seq \in Nat /\ q[i].stamp \in Int
                          /\ l < q[i].seq /\ q[i].seq <= n /\ q[i].stamp <= t
    BY <1>4, FrameTypes, SMT DEF Line
<1>6. l <= n + 1 /\ l < n + 1 /\ t <= c
    BY SMT DEF Line
<1>7. \A i \in DOMAIN r : l < r[i].seq /\ r[i].seq <= n + 1 /\ r[i].stamp <= c
    BY <1>1, <1>2, <1>5, <1>6, SMT
<1>8. ASSUME NEW i \in DOMAIN r, NEW j \in DOMAIN r, i < j
      PROVE  r[i].seq < r[j].seq /\ r[i].stamp <= r[j].stamp
    <2>1. i \in Nat /\ j \in Nat /\ j <= Len(r)
        BY <1>3, SMT
    <2>2. i + k \in DOMAIN q /\ r[i] = q[i + k]
        BY <1>2, <1>3, <1>8, <2>1, SMT
    <2>3. CASE r[j] = f
        BY <1>1, <1>5, <2>2, <2>3, SMT
    <2>4. CASE j + k \in DOMAIN q /\ r[j] = q[j + k]
        <3>1. i + k < j + k
            BY <1>8, <2>1, SMT
        <3> QED BY <2>2, <2>4, <3>1, Zenon DEF Line
    <2> QED BY <1>2, <2>3, <2>4
<1>9. Line(r, l, n + 1, None, c)
    BY <1>4, <1>6, <1>7, <1>8, Zenon DEF Line
<1> QED BY <1>9 DEF r, f

-----------------------------------------------------------------------------
(* What the synchroniser takes out *)

\* Every method but push_frame leaves each buffer alone or takes frames from its front;
\* a pair taken out has the latest of them.
Shortened(s, n) ==
    /\ buf'[s] = Rest(buf[s], n)
    /\ last'[s] = last[s] \/ (n > 0 /\ last'[s] = buf[s][n].seq)

OnlyShortened ==
    /\ buf' = [s \in Streams |-> buf'[s]]
    /\ last' = [s \in Streams |-> last'[s]]
    /\ \A s \in Streams : \/ buf'[s] = buf[s] /\ last'[s] = last[s]
                          \/ \E n \in 0 .. Len(buf[s]) : Shortened(s, n)
    /\ UNCHANGED <<now, stamp, seq>>

LEMMA StreamTypes ==
    ASSUME TypeOK, NEW s \in Streams
    PROVE  /\ buf[s] \in Seq(Frames) /\ Len(buf[s]) <= MaxBuffer
           /\ seq[s] \in Nat /\ last[s] \in Nat /\ stamp[s] \in Stamps
           /\ dropped[s] \in Nat /\ gone[s] \in Nat
           /\ stale[s] \in Nat \cup {None} /\ Other(s) \in Streams /\ now \in 0 .. MaxTime
<1>1. Other(s) \in Streams
    BY SMT DEF Streams, Other
<1> QED BY <1>1, SMT DEF TypeOK, Stamps

LEMMA ShorterBuffers ==
    ASSUME TypeOK, Lines, OnlyShortened, NEW s \in Streams
    PROVE  /\ buf'[s] \in Seq(Frames) /\ Len(buf'[s]) <= MaxBuffer /\ last'[s] \in Nat
           /\ Line(buf'[s], last'[s], seq'[s], stamp'[s], now')
           /\ \A i \in DOMAIN buf'[s] : \E j \in DOMAIN buf[s] : buf'[s][i] = buf[s][j]
<1>1. UNCHANGED <<now, stamp, seq>> /\ Line(buf[s], last[s], seq[s], stamp[s], now)
    BY Zenon DEF OnlyShortened, Lines
<1>2. /\ buf[s] \in Seq(Frames) /\ Len(buf[s]) <= MaxBuffer
      /\ seq[s] \in Nat /\ last[s] \in Nat /\ stamp[s] \in Stamps /\ now \in 0 .. MaxTime
    BY StreamTypes
<1>3. CASE buf'[s] = buf[s] /\ last'[s] = last[s]
    BY <1>1, <1>2, <1>3, Zenon
<1>4. ASSUME NEW n \in 0 .. Len(buf[s]), Shortened(s, n)
      PROVE  /\ buf'[s] \in Seq(Frames) /\ Len(buf'[s]) <= MaxBuffer /\ last'[s] \in Nat
             /\ Line(buf'[s], last'[s], seq'[s], stamp'[s], now')
             /\ \A i \in DOMAIN buf'[s] : \E j \in DOMAIN buf[s] : buf'[s][i] = buf[s][j]
    <2>1. /\ buf'[s] = Rest(buf[s], n)
          /\ last'[s] = last[s] \/ (n > 0 /\ last'[s] = buf[s][n].seq)
        BY <1>4, Zenon DEF Shortened
    <2>2. /\ Rest(buf[s], n) \in Seq(Frames) /\ Len(Rest(buf[s], n)) = Len(buf[s]) - n
          /\ \A i \in DOMAIN Rest(buf[s], n) :
                i + n \in DOMAIN buf[s] /\ Rest(buf[s], n)[i] = buf[s][i + n]
        BY <1>2, RestOfBuffer
    <2>3. Line(Rest(buf[s], n), last'[s], seq[s], stamp[s], now)
        BY <1>1, <1>2, <2>1, LineShortened
    <2>4. last'[s] \in Nat
        <3>1. n > 0 => n \in DOMAIN buf[s]
            BY <1>2, SMT
        <3>2. \A i \in DOMAIN buf[s] : buf[s][i].seq \in Nat
            BY <1>2, FrameTypes, SMT
        <3> QED BY <1>2, <2>1, <3>1, <3>2, Zenon
    <2>5. Len(Rest(buf[s], n)) <= MaxBuffer
        BY <1>2, <2>2, SMT
    <2> QED BY <1>1, <2>1, <2>2, <2>3, <2>4, <2>5, Zenon
<1> QED BY <1>3, <1>4, Zenon DEF OnlyShortened

\* A frame is given up only if all the other stream holds, or may still push, is more
\* than delta younger.
LEMMA GivenUpIsHopeless ==
    ASSUME TypeOK, Lines, NEW s \in Streams, NEW delta \in Nat,
           buf[1] # <<>>, buf[2] # <<>>, GivesUp(s, delta)
    PROVE  LET o == Other(s)
               t == Head(buf[s]).stamp + delta
           IN  /\ t \in Nat /\ now > t /\ (stamp[o] # None => stamp[o] > t)
               /\ \A i \in DOMAIN buf[o] : buf[o][i].stamp > t
<1> DEFINE o == Other(s)
           t == Head(buf[s]).stamp + delta
<1>1. /\ o \in Streams /\ buf[s] # <<>> /\ buf[o] # <<>>
      /\ buf[s] \in Seq(Frames) /\ buf[o] \in Seq(Frames)
      /\ stamp[o] \in Stamps /\ now \in 0 .. MaxTime
    <2>1. o \in Streams /\ stamp[o] \in Stamps /\ now \in 0 .. MaxTime
        BY StreamTypes
    <2> QED BY <2>1, StreamTypes, SMT DEF Streams
<1>2. /\ Head(buf[s]) = buf[s][1] /\ 1 \in DOMAIN buf[s]
      /\ Head(buf[o]) = buf[o][1] /\ 1 \in DOMAIN buf[o]
    BY <1>1, TailIsRest
<1>3. Line(buf[o], last[o], seq[o], stamp[o], now) /\ GivesUp(s, delta)
    BY <1>1, Zenon DEF Lines
<1>4. buf[s][1].stamp \in Nat /\ \A i \in DOMAIN buf[o] : buf[o][i].stamp \in Nat
    BY <1>1, <1>2, FrameTypes, SMT
<1>5. t < buf[o][1].stamp /\ t \in Nat
    BY <1>2, <1>3, <1>4, SMT DEF GivesUp
<1>6. \A i \in DOMAIN buf[o] : i = 1 \/ 1 < i
    BY <1>1, SMT
<1> HIDE DEF o, t
<1>7. \A i \in DOMAIN buf[o] : buf[o][1].stamp <= buf[o][i].stamp
    BY <1>2, <1>3, <1>4, <1>6, SMT DEF Line
<1>8. buf[o][1].stamp <= now /\ (stamp[o] # None => buf[o][1].stamp <= stamp[o])
    BY <1>2, <1>3, Zenon DEF Line
<1>9. now \in Int /\ stamp[o] \in Int
    BY <1>1, SMT DEF Stamps, None
<1>10. now > t /\ (stamp[o] # None => stamp[o] > t) /\ \A i \in DOMAIN buf[o] : buf[o][i].stamp > t
    BY <1>2, <1>4, <1>5, <1>7, <1>8, <1>9, SMT
<1> QED BY <1>5, <1>10 DEF o, t

Best == CHOOSE p \in Candidates : IsBest(p)

BothWait == \A s \in Streams : buf[s] # <<>>

\* The three ways a call of get_aligned_pair takes something out.
LEMMA CallOutcomes ==
    ASSUME NEW delta \in Deltas, get_aligned_pair(delta)
    PROVE  /\ BothWait /\ UNCHANGED <<now, stamp, seq>>
           /\ \/ TakePair(Best)
              \/ \E s \in Streams : GivesUp(s, delta) /\ DropOldest(s, delta)
BY Zenon DEF get_aligned_pair, Best, BothWait, Streams

LEMMA PairPlaces ==
    ASSUME TypeOK, BothWait, NEW s \in Streams
    PROVE  Best[s] \in DOMAIN buf[s] /\ Best[s] \in 1 .. Len(buf[s])
<1>1. Best \in Candidates
    BY BestIsCandidate, Zenon DEF BothWait, Best
<1>2. Best[s] \in DOMAIN buf[s]
    BY <1>1 DEF Candidates, Streams
<1> QED BY <1>2, StreamTypes, SMT

LEMMA CallsShorten ==
    ASSUME TypeOK, \/ \E delta \in Deltas : get_aligned_pair(delta)
                   \/ clear
    PROVE  OnlyShortened
<1>1. CASE clear
    <2>1. \A s \in Streams : <<>> = Rest(buf[s], Len(buf[s])) /\ Len(buf[s]) \in 0 .. Len(buf[s])
        BY StreamTypes, NothingIsRest, Zenon
    <2>2. last = [s \in Streams |-> last[s]]
        BY DEF TypeOK
    <2> QED BY <1>1, <2>1, <2>2, Zenon DEF clear, OnlyShortened, Shortened
<1>2. ASSUME NEW delta \in Deltas, get_aligned_pair(delta)
      PROVE  OnlyShortened
    <2>1. BothWait /\ UNCHANGED <<now, stamp, seq>>
        BY <1>2, CallOutcomes
    <2>2. CASE TakePair(Best)
        <3>1. \A s \in Streams : Best[s] \in 0 .. Len(buf[s]) /\ Best[s] > 0
            BY <2>1, PairPlaces, SMT
        <3>2. /\ buf' = [s \in Streams |-> Rest(buf[s], Best[s])]
              /\ last' = [s \in Streams |-> buf[s][Best[s]].seq]
            BY <2>2, Zenon DEF TakePair, Kept
        <3> QED BY <2>1, <3>1, <3>2, Zenon DEF OnlyShortened, Shortened
    <2>3. ASSUME NEW s \in Streams, DropOldest(s, delta)
          PROVE  OnlyShortened
        <3>1. /\ buf' = [buf EXCEPT ![s] = Tail(@)] /\ UNCHANGED last
              /\ buf = [u \in Streams |-> buf[u]] /\ last = [u \in Streams |-> last[u]]
            BY <2>3, Zenon DEF DropOldest, TypeOK
        <3>2. Tail(buf[s]) = Rest(buf[s], 1) /\ 1 \in 0 .. Len(buf[s])
            BY <2>1, StreamTypes, TailIsRest, Zenon DEF BothWait
        <3> QED BY <2>1, <3>1, <3>2, Zenon DEF OnlyShortened, Shortened
    <2> QED BY <1>2, <2>2, <2>3, CallOutcomes
<1> QED BY <1>1, <1>2

-----------------------------------------------------------------------------
(* Types and order *)

LEMMA TypesInit == Init => TypeOK /\ Lines /\ Accounted /\ StaleIsHopeless
<1> SUFFICES ASSUME Init PROVE TypeOK /\ Lines /\ Accounted /\ StaleIsHopeless
    OBVIOUS
<1>1. TypeOK
    BY SMT DEF Init, TypeOK, None
<1>2. Lines
    BY SMT DEF Init, Lines, Line, None
<1>3. Accounted
    BY SMT DEF Init, Accounted
<1>4. StaleIsHopeless
    BY SMT DEF Init, StaleIsHopeless, None, Other, Streams
<1> QED BY <1>1, <1>2, <1>3, <1>4

LEMMA TickKeeps ==
    ASSUME TypeOK, Lines, Tick
    PROVE  TypeOK' /\ Lines'
<1>1. /\ now' = now + 1 /\ now' \in 0 .. MaxTime
      /\ UNCHANGED <<stamp, buf, seq, dropped, synced, gone, last, stale>>
    BY SMT DEF Tick, TypeOK
<1>2. TypeOK'
    BY <1>1 DEF TypeOK
<1>3. ASSUME NEW s \in Streams PROVE Line(buf[s], last[s], seq[s], stamp[s], now + 1)
    BY StreamTypes, LineWaits, Zenon DEF Lines
<1> QED BY <1>1, <1>2, <1>3, Zenon DEF Lines

LEMMA CaptureKeeps ==
    ASSUME TypeOK, Lines, NEW s \in Streams, Capture(s)
    PROVE  TypeOK' /\ Lines'
<1>1. /\ stamp[s] = None /\ stamp' = [stamp EXCEPT ![s] = now]
      /\ UNCHANGED <<now, buf, seq, dropped, synced, gone, last, stale>>
      /\ stamp = [u \in Streams |-> stamp[u]]
    BY Zenon DEF Capture, TypeOK
<1>2. TypeOK'
    BY <1>1, SMT DEF TypeOK
<1>3. ASSUME NEW u \in Streams PROVE Line(buf[u], last[u], seq[u], stamp'[u], now)
    <2>1. CASE u = s
        <3>1. Line(buf[s], last[s], seq[s], None, now) /\ stamp'[s] = now
            BY <1>1, Zenon DEF Lines
        <3> QED BY <2>1, <3>1, StreamTypes, LineWaits, Zenon
    <2>2. CASE u # s
        BY <1>1, <2>2, Zenon DEF Lines
    <2> QED BY <2>1, <2>2
<1> QED BY <1>1, <1>2, <1>3, Zenon DEF Lines

LEMMA PushKeeps ==
    ASSUME TypeOK, Lines, NEW s \in Streams, push_frame(s)
    PROVE  TypeOK' /\ Lines'
<1> DEFINE f == [seq |-> seq[s] + 1, stamp |-> stamp[s]]
<1>1. /\ stamp[s] # None /\ seq' = [seq EXCEPT ![s] = @ + 1]
      /\ buf' = [buf EXCEPT ![s] = Pushed(@, f)] /\ stamp' = [stamp EXCEPT ![s] = None]
      /\ dropped' \in {dropped, [dropped EXCEPT ![s] = @ + 1]}
      /\ UNCHANGED <<now, synced, gone, last, stale>>
    BY Zenon DEF push_frame
<1>2. f \in Frames /\ stamp[s] \in 0 .. MaxTime
    BY <1>1, StreamTypes, SMT DEF Frames, Stamps
<1>3. Pushed(buf[s], f) \in Seq(Frames) /\ Len(Pushed(buf[s], f)) <= MaxBuffer
    BY <1>2, StreamTypes, PushedBuffer
<1>4. Line(Pushed(buf[s], f), last[s], seq[s] + 1, None, now)
    <2>1. Line(buf[s], last[s], seq[s], stamp[s], now)
        BY Zenon DEF Lines
    <2> QED BY <1>2, <2>1, StreamTypes, LinePushed
<1> HIDE DEF f
<1>5. TypeOK'
    <2>1. seq' \in [Streams -> Nat] /\ dropped' \in [Streams -> Nat]
        <3>1. seq \in [Streams -> Nat] /\ dropped \in [Streams -> Nat]
            BY DEF TypeOK
        <3>2. \A g \in [Streams -> Nat] : [g EXCEPT ![s] = @ + 1] \in [Streams -> Nat]
            BY SMT
        <3> QED BY <1>1, <3>1, <3>2, Zenon
    <2>2. stamp' \in [Streams -> 0 .. MaxTime \cup {None}]
        BY <1>1, SMT DEF TypeOK
    <2>3. buf' \in [Streams -> Seq(Frames)] /\ \A u \in Streams : Len(buf'[u]) <= MaxBuffer
        BY <1>1, <1>3, Zenon DEF TypeOK
    <2> QED BY <1>1, <2>1, <2>2, <2>3 DEF TypeOK
<1>6. ASSUME NEW u \in Streams PROVE Line(buf'[u], last[u], seq'[u], stamp'[u], now)
    <2>1. /\ buf = [v \in Streams |-> buf[v]] /\ seq = [v \in Streams |-> seq[v]]
          /\ stamp = [v \in Streams |-> stamp[v]]
        BY Zenon DEF TypeOK
    <2>2. CASE u = s
        BY <1>1, <1>4, <2>1, <2>2, Zenon
    <2>3. CASE u # s
        BY <1>1, <2>1, <2>3, Zenon DEF Lines
    <2> QED BY <2>2, <2>3
<1> QED BY <1>1, <1>5, <1>6, Zenon DEF Lines

LEMMA CallsKeep ==
    ASSUME TypeOK, Lines, \/ \E delta \in Deltas : get_aligned_pair(delta)
                          \/ clear
    PROVE  TypeOK' /\ Lines'
<1>1. OnlyShortened
    BY CallsShorten
<1>2. /\ buf' = [s \in Streams |-> buf'[s]] /\ last' = [s \in Streams |-> last'[s]]
      /\ UNCHANGED <<now, stamp, seq>>
    BY <1>1, Zenon DEF OnlyShortened
<1>3. \A s \in Streams : /\ buf'[s] \in Seq(Frames) /\ Len(buf'[s]) <= MaxBuffer
                         /\ last'[s] \in Nat
                         /\ Line(buf'[s], last'[s], seq'[s], stamp'[s], now')
    BY <1>1, ShorterBuffers
<1>4. dropped' \in [Streams -> Nat] /\ gone' \in [Streams -> Nat] /\ synced' \in Nat
      /\ stale' \in [Streams -> Nat \cup {None}]
    <2>1. /\ dropped \in [Streams -> Nat] /\ gone \in [Streams -> Nat] /\ synced \in Nat
          /\ stale \in [Streams -> Nat \cup {None}] /\ buf \in [Streams -> Seq(Frames)]
        BY DEF TypeOK
    <2>2. CASE clear
        <3>1. gone' = [s \in Streams |-> gone[s] + Len(buf[s])] /\ UNCHANGED <<dropped, synced, stale>>
            BY <2>2, Zenon DEF clear
        <3> QED BY <2>1, <3>1, SMT
    <2>3. ASSUME NEW delta \in Deltas, get_aligned_pair(delta), TakePair(Best)
          PROVE  gone' \in [Streams -> Nat] /\ synced' \in Nat /\ UNCHANGED <<dropped, stale>>
        <3>1. /\ gone' = [s \in Streams |-> gone[s] + Best[s] - 1]
              /\ synced' = synced + 1 /\ UNCHANGED <<dropped, stale>>
            BY <2>3, Zenon DEF TakePair
        <3>2. \A s \in Streams : Best[s] \in 1 .. Len(buf[s])
            BY <2>3, CallOutcomes, PairPlaces
        <3> QED BY <2>1, <3>1, <3>2, SMT
    <2>4. ASSUME NEW delta \in Deltas, get_aligned_pair(delta),
                 NEW s \in Streams, GivesUp(s, delta), DropOldest(s, delta)
          PROVE  /\ dropped' \in [Streams -> Nat] /\ stale' \in [Streams -> Nat \cup {None}]
                 /\ UNCHANGED <<gone, synced>>
        <3> DEFINE t == Head(buf[s]).stamp + delta
        <3>1. /\ dropped' = [dropped EXCEPT ![s] = @ + 1] /\ UNCHANGED <<gone, synced>>
              /\ stale' \in {stale, [stale EXCEPT ![s] = t]}
            <4>1. /\ dropped' = [dropped EXCEPT ![s] = @ + 1] /\ UNCHANGED <<gone, synced>>
                  /\ stale' = [stale EXCEPT ![s] = IF t > stale[s] THEN t ELSE stale[s]]
                BY <2>4, Zenon DEF DropOldest
            <4>2. [stale EXCEPT ![s] = stale[s]] = stale
                BY <2>1, Zenon
            <4> HIDE DEF t
            <4>3. \A e : e = (IF t > stale[s] THEN t ELSE stale[s]) => e = t \/ e = stale[s]
                BY Zenon
            <4> QED BY <4>1, <4>2, <4>3, Zenon
        <3>2. t \in Nat
            <4>1. buf[1] # <<>> /\ buf[2] # <<>>
                BY <2>4, CallOutcomes DEF BothWait, Streams
            <4> QED BY <2>4, <4>1, GivenUpIsHopeless
        <3> HIDE DEF t
        <3>3. dropped' \in [Streams -> Nat]
            BY <2>1, <3>1, SMT
        <3>4. stale' \in [Streams -> Nat \cup {None}]
            BY <2>1, <3>1, <3>2, Zenon
        <3> QED BY <3>1, <3>3, <3>4
    <2> QED BY <2>1, <2>2, <2>3, <2>4, CallOutcomes
<1> QED BY <1>2, <1>3, <1>4, Zenon DEF TypeOK, Lines

LEMMA FramesKept ==
    ASSUME TypeOK, Lines, [Next]_vars
    PROVE  TypeOK' /\ Lines'
<1>1. CASE UNCHANGED vars
    BY <1>1, Zenon DEF vars, TypeOK, Lines
<1> QED BY <1>1, TickKeeps, CaptureKeeps, PushKeeps, CallsKeep, Zenon DEF Next

LEMMA FramesInvariant == Spec => [](TypeOK /\ Lines)
<1>1. Init => TypeOK /\ Lines
    BY TypesInit
<1>2. TypeOK /\ Lines /\ [Next]_vars => TypeOK' /\ Lines'
    BY FramesKept
<1> QED BY <1>1, <1>2, PTL DEF Spec

\* Type correctness, for buffers of any size and a run of any length.
THEOREM SynchronizerTypes == Spec => []TypeOK
BY FramesInvariant, PTL

\* Pairs go forward in both streams (get_aligned_pair's popleft loops, the readers'
\* stamps and push_frame's numbers).
THEOREM PairsGoForward == Spec => []InOrder
BY FramesInvariant, LinesAreInOrder, PTL

\* A call that finds frames of both streams takes some out, whatever the difference it
\* allows (get_aligned_pair with drop_stale).
THEOREM NeverStuck == Spec => []AlwaysProgress
<1>1. ASSUME TypeOK PROVE AlwaysProgress
    <2> SUFFICES ASSUME BothWait, NEW delta \in Deltas
                 PROVE  \/ \E p \in Candidates : Gap(p) <= delta
                        \/ \E s \in Streams : GivesUp(s, delta)
        BY Zenon DEF AlwaysProgress, BothWait
    <2>1. /\ buf[1] \in Seq(Frames) /\ buf[2] \in Seq(Frames)
          /\ buf[1] # <<>> /\ buf[2] # <<>> /\ 1 \in Streams /\ 2 \in Streams
        BY <1>1 DEF TypeOK, Streams, BothWait
    <2>2. /\ Head(buf[1]) = buf[1][1] /\ 1 \in DOMAIN buf[1]
          /\ Head(buf[2]) = buf[2][1] /\ 1 \in DOMAIN buf[2]
        BY <2>1, TailIsRest
    <2>3. buf[1][1].stamp \in Nat /\ buf[2][1].stamp \in Nat
        BY <2>1, <2>2, FrameTypes, SMT
    <2>4. <<1, 1>> \in Candidates
        BY <2>2 DEF Candidates
    <2>5. Gap(<<1, 1>>) <= delta \/ GivesUp(1, delta) \/ GivesUp(2, delta)
        BY <2>2, <2>3, SMT DEF Gap, GivesUp, Other
    <2> QED BY <2>1, <2>4, <2>5, Zenon
<1> QED BY <1>1, SynchronizerTypes, PTL

-----------------------------------------------------------------------------
(* Every frame is accounted for *)

LEMMA PushCounts ==
    ASSUME TypeOK, Accounted, NEW s \in Streams, push_frame(s), NEW u \in Streams
    PROVE  seq'[u] = Len(buf'[u]) + synced' + dropped'[u] + gone'[u]
<1> DEFINE f == [seq |-> seq[s] + 1, stamp |-> stamp[s]]
<1>1. /\ stamp[s] # None /\ seq' = [seq EXCEPT ![s] = @ + 1]
      /\ buf' = [buf EXCEPT ![s] = Pushed(@, f)]
      /\ dropped' = IF Full(buf[s]) THEN [dropped EXCEPT ![s] = @ + 1] ELSE dropped
      /\ UNCHANGED <<synced, gone>>
    BY Zenon DEF push_frame
<1>2. f \in Frames
    BY <1>1, StreamTypes, SMT DEF Frames, Stamps
<1> HIDE DEF f
<1>3. Len(Pushed(buf[s], f)) = IF Full(buf[s]) THEN Len(buf[s]) ELSE Len(buf[s]) + 1
    BY <1>2, StreamTypes, PushedBuffer
<1>4. /\ buf = [v \in Streams |-> buf[v]] /\ seq = [v \in Streams |-> seq[v]]
      /\ dropped = [v \in Streams |-> dropped[v]]
    BY Zenon DEF TypeOK
<1>5. /\ seq[u] = Len(buf[u]) + synced + dropped[u] + gone[u]
      /\ Len(buf[u]) \in Nat /\ synced \in Nat /\ dropped[u] \in Nat /\ gone[u] \in Nat
    BY StreamTypes, SMT DEF Accounted, TypeOK
<1>6. CASE u = s
    <2>1. /\ seq'[u] = seq[u] + 1 /\ buf'[u] = Pushed(buf[u], f)
          /\ dropped'[u] = IF Full(buf[u]) THEN dropped[u] + 1 ELSE dropped[u]
        BY <1>1, <1>4, <1>6, Zenon
    <2>2. /\ Len(buf'[u]) = IF Full(buf[u]) THEN Len(buf[u]) ELSE Len(buf[u]) + 1
          /\ synced' = synced /\ gone'[u] = gone[u]
        BY <1>1, <1>3, <1>6, <2>1, Zenon
    <2> QED BY <1>5, <2>1, <2>2, SMT
<1>7. CASE u # s
    <2>1. seq'[u] = seq[u] /\ buf'[u] = buf[u] /\ dropped'[u] = dropped[u]
        BY <1>1, <1>4, <1>7, Zenon
    <2> QED BY <1>1, <1>5, <2>1, SMT
<1> QED BY <1>6, <1>7

LEMMA CallCounts ==
    ASSUME TypeOK, Accounted, \/ \E delta \in Deltas : get_aligned_pair(delta)
                              \/ clear,
           NEW u \in Streams
    PROVE  seq'[u] = Len(buf'[u]) + synced' + dropped'[u] + gone'[u]
<1>1. /\ seq[u] = Len(buf[u]) + synced + dropped[u] + gone[u] /\ buf[u] \in Seq(Frames)
      /\ Len(buf[u]) \in Nat /\ synced \in Nat /\ dropped[u] \in Nat /\ gone[u] \in Nat
    BY StreamTypes, SMT DEF Accounted, TypeOK
<1>2. CASE clear
    <2>1. UNCHANGED <<seq, dropped, synced>>
          /\ gone'[u] = gone[u] + Len(buf[u]) /\ buf'[u] = <<>>
        BY <1>2, Zenon DEF clear
    <2> QED BY <1>1, <2>1, SMT
<1>3. ASSUME NEW delta \in Deltas, get_aligned_pair(delta), TakePair(Best)
      PROVE  seq'[u] = Len(buf'[u]) + synced' + dropped'[u] + gone'[u]
    <2> DEFINE n == Best[u]
    <2>1. /\ synced' = synced + 1 /\ gone'[u] = gone[u] + n - 1
          /\ buf'[u] = Rest(buf[u], n) /\ seq'[u] = seq[u] /\ dropped'[u] = dropped[u]
        BY <1>3, CallOutcomes, Zenon DEF TakePair, Kept
    <2>2. n \in 1 .. Len(buf[u])
        BY <1>3, CallOutcomes, PairPlaces
    <2> HIDE DEF n
    <2>3. n \in Nat /\ Len(Rest(buf[u], n)) = Len(buf[u]) - n
        <3>1. n \in 0 .. Len(buf[u]) /\ n \in Nat
            BY <1>1, <2>2, SMT
        <3> QED BY <1>1, <3>1, RestOfBuffer
    <2>4. Len(buf'[u]) = Len(buf[u]) - n
        BY <2>1, <2>3, Zenon
    <2> DEFINE m == Len(buf[u])
    <2>5. /\ seq'[u] = m + synced + dropped[u] + gone[u] /\ Len(buf'[u]) = m - n
          /\ m \in Nat /\ synced \in Nat /\ dropped[u] \in Nat /\ gone[u] \in Nat
        BY <1>1, <2>1, <2>4
    <2> HIDE DEF m
    <2>6. synced' = synced + 1 /\ gone'[u] = gone[u] + n - 1 /\ dropped'[u] = dropped[u]
        BY <2>1
    <2> QED BY <2>3, <2>5, <2>6, SMT
<1>4. ASSUME NEW delta \in Deltas, get_aligned_pair(delta),
             NEW s \in Streams, DropOldest(s, delta)
      PROVE  seq'[u] = Len(buf'[u]) + synced' + dropped'[u] + gone'[u]
    <2>1. /\ UNCHANGED <<seq, synced, gone>>
          /\ buf' = [buf EXCEPT ![s] = Tail(@)] /\ dropped' = [dropped EXCEPT ![s] = @ + 1]
          /\ buf = [v \in Streams |-> buf[v]] /\ dropped = [v \in Streams |-> dropped[v]]
        BY <1>4, CallOutcomes, Zenon DEF DropOldest, TypeOK
    <2>2. CASE u = s
        <3>1. buf'[u] = Tail(buf[u]) /\ dropped'[u] = dropped[u] + 1
            BY <2>1, <2>2, Zenon
        <3>2. buf[u] # <<>>
            BY <1>4, CallOutcomes, Zenon DEF BothWait
        <3>3. Len(Tail(buf[u])) = Len(buf[u]) - 1
            BY <1>1, <3>2, SMT
        <3>4. seq[u] = Len(Tail(buf[u])) + synced + (dropped[u] + 1) + gone[u]
            BY <1>1, <3>3, SMT
        <3> QED BY <2>1, <3>1, <3>4, Zenon
    <2>3. CASE u # s
        <3>1. buf'[u] = buf[u] /\ dropped'[u] = dropped[u]
            BY <2>1, <2>3, Zenon
        <3> QED BY <1>1, <2>1, <3>1, SMT
    <2> QED BY <2>2, <2>3
<1> QED BY <1>2, <1>3, <1>4, CallOutcomes

\* Every frame pushed is buffered, paired or counted (dropped_frames_1 and _2 count the
\* frames given up and the ones pushed out of a full buffer).
THEOREM FramesAccountedFor == Spec => []Accounted
<1>1. Init => Accounted
    BY TypesInit
<1>2. ASSUME TypeOK, Accounted, [Next]_vars PROVE Accounted'
    <2>1. CASE UNCHANGED <<buf, seq, dropped, synced, gone>>
        BY <1>2, <2>1, Zenon DEF Accounted
    <2>2. ASSUME NEW u \in Streams,
                 \/ \E s \in Streams : push_frame(s)
                 \/ \E delta \in Deltas : get_aligned_pair(delta)
                 \/ clear
          PROVE  seq'[u] = Len(buf'[u]) + synced' + dropped'[u] + gone'[u]
        BY <1>2, <2>2, PushCounts, CallCounts
    <2> QED BY <1>2, <2>1, <2>2, Zenon DEF Accounted, Next, vars, Tick, Capture
<1> QED BY <1>1, <1>2, SynchronizerTypes, PTL DEF Spec

-----------------------------------------------------------------------------
(* Nothing that could be paired is given up *)

\* Of stream s: all the other stream holds or may still push is later than stale[s].
Hopeless(s) ==
    /\ \A i \in DOMAIN buf[Other(s)] : buf[Other(s)][i].stamp > stale[s]
    /\ stamp[Other(s)] # None => stamp[Other(s)] > stale[s]
    /\ now > stale[s]

LEMMA PushHopeless ==
    ASSUME TypeOK, NEW s \in Streams, push_frame(s), NEW u \in Streams, Hopeless(u)
    PROVE  Hopeless(u)'
<1> DEFINE f == [seq |-> seq[s] + 1, stamp |-> stamp[s]]
           o == Other(u)
<1>1. /\ stamp[s] # None /\ stamp' = [stamp EXCEPT ![s] = None]
      /\ buf' = [buf EXCEPT ![s] = Pushed(@, f)] /\ UNCHANGED <<now, stale>>
      /\ buf = [v \in Streams |-> buf[v]] /\ stamp = [v \in Streams |-> stamp[v]]
    BY Zenon DEF push_frame, TypeOK
<1>2. f \in Frames /\ f.stamp = stamp[s] /\ o \in Streams
    BY <1>1, StreamTypes, SMT DEF Frames, Stamps
<1> HIDE DEF f, o
<1>3. /\ \A i \in DOMAIN buf[o] : buf[o][i].stamp > stale[u]
      /\ stamp[o] # None => stamp[o] > stale[u]
      /\ now > stale[u]
    BY Zenon DEF Hopeless, o
<1>4. CASE o = s
    <2>1. buf'[o] = Pushed(buf[o], f) /\ stamp'[o] = None
        BY <1>1, <1>2, <1>4, Zenon
    <2>2. \A i \in DOMAIN Pushed(buf[o], f) :
              Pushed(buf[o], f)[i] = f \/ \E j \in DOMAIN buf[o] : Pushed(buf[o], f)[i] = buf[o][j]
        BY <1>2, StreamTypes, PushedBuffer
    <2>3. f.stamp > stale[u]
        BY <1>1, <1>2, <1>3, <1>4, Zenon
    <2>4. \A i \in DOMAIN buf'[o] : buf'[o][i].stamp > stale[u]
        BY <1>3, <2>1, <2>2, <2>3, Zenon
    <2> QED BY <1>1, <1>3, <2>1, <2>4, Zenon DEF Hopeless, o
<1>5. CASE o # s
    <2>1. buf'[o] = buf[o] /\ stamp'[o] = stamp[o]
        BY <1>1, <1>2, <1>5, Zenon
    <2> QED BY <1>1, <1>3, <2>1, Zenon DEF Hopeless, o
<1> QED BY <1>4, <1>5

LEMMA CallHopeless ==
    ASSUME TypeOK, Lines, \/ \E delta \in Deltas : get_aligned_pair(delta)
                          \/ clear,
           NEW u \in Streams, Hopeless(u)
    PROVE  Hopeless(u)'
<1> DEFINE o == Other(u)
<1>1. /\ o \in Streams /\ UNCHANGED <<now, stamp>>
      /\ \A i \in DOMAIN buf'[o] : \E j \in DOMAIN buf[o] : buf'[o][i] = buf[o][j]
    <2>1. o \in Streams
        BY StreamTypes
    <2>2. OnlyShortened
        BY CallsShorten
    <2> HIDE DEF o
    <2> QED BY <2>1, <2>2, ShorterBuffers, Zenon DEF OnlyShortened
<1>2. CASE stale'[u] = stale[u]
    BY <1>1, <1>2, Zenon DEF Hopeless
<1>3. ASSUME NEW delta \in Deltas, get_aligned_pair(delta), GivesUp(u, delta),
             stale'[u] = Head(buf[u]).stamp + delta
      PROVE  Hopeless(u)'
    <2>1. buf[1] # <<>> /\ buf[2] # <<>>
        BY <1>3, CallOutcomes DEF BothWait, Streams
    <2>2. /\ now > stale'[u] /\ (stamp[o] # None => stamp[o] > stale'[u])
          /\ \A i \in DOMAIN buf[o] : buf[o][i].stamp > stale'[u]
        BY <1>3, <2>1, GivenUpIsHopeless
    <2> QED BY <1>1, <2>2, Zenon DEF Hopeless
<1>4. \/ stale'[u] = stale[u]
      \/ \E delta \in Deltas : /\ get_aligned_pair(delta) /\ GivesUp(u, delta)
                               /\ stale'[u] = Head(buf[u]).stamp + delta
    <2>1. CASE UNCHANGED stale
        BY <2>1
    <2>2. ASSUME NEW delta \in Deltas, get_aligned_pair(delta),
                 NEW s \in Streams, GivesUp(s, delta), DropOldest(s, delta)
          PROVE  \/ stale'[u] = stale[u]
                 \/ GivesUp(u, delta) /\ stale'[u] = Head(buf[u]).stamp + delta
        <3> DEFINE t == Head(buf[s]).stamp + delta
        <3>1. /\ stale' = [stale EXCEPT ![s] = IF t > stale[s] THEN t ELSE stale[s]]
              /\ stale = [v \in Streams |-> stale[v]]
            BY <2>2, Zenon DEF DropOldest, TypeOK
        <3> HIDE DEF t
        <3>2. CASE u = s
            <4>1. stale'[u] = t \/ stale'[u] = stale[u]
                BY <3>1, <3>2, Zenon
            <4> QED BY <2>2, <3>2, <4>1, Zenon DEF t
        <3>3. CASE u # s
            BY <3>1, <3>3, Zenon
        <3> QED BY <3>2, <3>3
    <2> QED BY <2>1, <2>2, CallOutcomes, Zenon DEF clear, TakePair
<1> QED BY <1>2, <1>3, <1>4

\* No frame is given up that could still be paired (get_aligned_pair's comparison of the
\* two oldest frames, the readers' stamps in the order of their frames).
THEOREM OnlyHopelessGivenUp == Spec => []StaleIsHopeless
<1>1. Init => StaleIsHopeless
    BY TypesInit
<1>2. StaleIsHopeless <=> \A s \in Streams : Hopeless(s)
    BY Zenon DEF StaleIsHopeless, Hopeless
<1>3. StaleIsHopeless' <=> \A s \in Streams : Hopeless(s)'
    BY Zenon DEF StaleIsHopeless, Hopeless
<1>4. ASSUME TypeOK, Lines, NEW u \in Streams, Hopeless(u), [Next]_vars
      PROVE  Hopeless(u)'
    <2>1. Other(u) \in Streams /\ now \in Nat /\ stale[u] \in Int
        BY <1>4, StreamTypes, SMT DEF None
    <2>2. CASE Tick
        <3>1. now' = now + 1 /\ UNCHANGED <<stamp, buf, stale>>
            BY <2>2, Zenon DEF Tick
        <3>2. now' > stale[u]
            BY <1>4, <2>1, <3>1, SMT DEF Hopeless
        <3> QED BY <1>4, <3>1, <3>2, Zenon DEF Hopeless
    <2>3. ASSUME NEW s \in Streams, Capture(s)
          PROVE  Hopeless(u)'
        <3>1. /\ stamp' = [stamp EXCEPT ![s] = now] /\ UNCHANGED <<now, buf, stale>>
              /\ stamp = [v \in Streams |-> stamp[v]]
            BY <1>4, <2>3, Zenon DEF Capture, TypeOK
        <3>2. stamp'[Other(u)] = now \/ stamp'[Other(u)] = stamp[Other(u)]
            BY <2>1, <3>1, Zenon
        <3> QED BY <1>4, <3>1, <3>2, Zenon DEF Hopeless
    <2>4. CASE UNCHANGED vars
        BY <1>4, <2>4, Zenon DEF vars, Hopeless
    <2> QED BY <1>4, <2>2, <2>3, <2>4, PushHopeless, CallHopeless DEF Next
<1>5. TypeOK /\ Lines /\ StaleIsHopeless /\ [Next]_vars => StaleIsHopeless'
    BY <1>2, <1>3, <1>4
<1> QED BY <1>1, <1>5, FramesInvariant, PTL DEF Spec
=============================================================================
