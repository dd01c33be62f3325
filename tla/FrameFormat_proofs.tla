------------------------- MODULE FrameFormat_proofs -------------------------
(***************************************************************************)
(* Proofs about FrameFormat, for every number of points, every rate and    *)
(* every number of stale packets.  The arithmetic is in the lemmas; the    *)
(* inductive invariant says how much of it each stage has been through.    *)
(***************************************************************************)
EXTENDS FrameFormat, TLAPS

\* A transfer of the points SendFrame keeps is never whole packets: 7n + 5 is
\* a multiple of 64 only if n - 45 is (HeliosDac.cpp:339).
LEMMA NeverWholePackets ==
    ASSUME NEW n \in Nat
    PROVE  Bytes(PointsSent(n)) % PacketSize # 0
<1>1. CASE n >= 45 /\ (n - 45) % 64 = 0
    BY <1>1, SMT DEF Bytes, PointsSent, PacketSize
<1>2. CASE ~(n >= 45 /\ (n - 45) % 64 = 0)
    BY <1>2, SMT DEF Bytes, PointsSent, PacketSize
<1> QED BY <1>1, <1>2

\* Two bytes carry a 16 bit number.
LEMMA BytesCarryWord ==
    ASSUME NEW x \in Nat, x <= MaxRate
    PROVE  /\ Lo(x) \in 0 .. 255 /\ Hi(x) \in 0 .. 255
           /\ Word(Lo(x), Hi(x)) = x
<1> DEFINE l == x % 256
           h == x \div 256
<1>1. l \in 0 .. 255
    BY SMT
<1>2. h \in Nat /\ h <= 255
    BY SMT DEF MaxRate
<1>3. x = l + 256 * h
    BY SMT
<1> HIDE DEF h
<1>4. h % 256 = h
    BY <1>2, SMT
<1>5. Lo(x) = l /\ Hi(x) = h % 256
    BY SMT DEF Lo, Hi, h
<1> QED BY <1>1, <1>2, <1>3, <1>4, <1>5, SMT DEF Word

\* SendFrame keeps all points or drops one, and never the only one.
LEMMA PointsKept ==
    ASSUME NEW n \in Nat
    PROVE  /\ PointsSent(n) \in Nat
           /\ PointsSent(n) \in {n, n - 1}
           /\ PointsSent(n) # n => n >= 45
BY SMT DEF PointsSent

\* Products, and the quotient of a division, stated once.
LEMMA ProductGrows ==
    ASSUME NEW a \in Nat, NEW b \in Nat, NEW c \in Nat, a <= b
    PROVE  c * a <= c * b /\ a * c <= b * c /\ c * a \in Nat /\ c * a = a * c
BY SMT

LEMMA Quotient ==
    ASSUME NEW a \in Nat, NEW b \in Nat \ {0}
    PROVE  /\ a \div b \in Nat
           /\ b * (a \div b) <= a
           /\ a < b * ((a \div b) + 1)
BY SMT

\* The rate sent stays within the bounds of the rate passed, and keeps the
\* duration to half a point per second (HeliosDac.cpp:344-346).
LEMMA RateKept ==
    ASSUME NEW pps \in Nat, NEW n \in Nat, MinRate <= pps, pps <= MaxRate
    PROVE  /\ RateSent(pps, n) \in Nat
           /\ MinRate <= RateSent(pps, n) /\ RateSent(pps, n) <= MaxRate
           /\ 2 * (RateSent(pps, n) * n - pps * PointsSent(n)) <= n
           /\ -n <= 2 * (RateSent(pps, n) * n - pps * PointsSent(n))
<1> DEFINE m == PointsSent(n)
           r == RateSent(pps, n)
<1>0. 7 <= pps
    BY SMT DEF MinRate
<1>1. CASE m = n
    <2>1. r = pps
        BY <1>1, Zenon DEF RateSent
    <2>2. pps * n \in Nat /\ pps * n - pps * n = 0
        BY <1>0, SMT
    <2> QED BY <1>0, <1>1, <2>1, <2>2, SMT
<1>2. CASE m # n
    <2>1. n >= 45 /\ m = n - 1 /\ m \in Nat
        BY <1>0, <1>2, PointsKept, SMT
    <2> DEFINE p == pps * m
               t == pps * n
    <2>2. p \in Nat /\ t \in Nat /\ p = t - pps
        BY <1>0, <2>1, SMT
    <2>3. r = (2 * p + n) \div (2 * n)
        <3>1. 2 * pps * m = 2 * p
            BY <1>0, <2>1, SMT
        <3> QED BY <1>2, <3>1, Zenon DEF RateSent
    <2> DEFINE u == n * r
    <2>4. r \in Nat /\ u \in Nat /\ 2 * u <= 2 * p + n /\ 2 * p + n < 2 * u + 2 * n
        <3>1. 2 * p + n \in Nat /\ 2 * n \in Nat \ {0}
            BY <1>0, <2>1, <2>2, SMT
        <3>2. /\ r \in Nat /\ (2 * n) * r <= 2 * p + n
              /\ 2 * p + n < (2 * n) * (r + 1)
            BY <2>3, <3>1, Quotient, Zenon
        <3>3. u \in Nat /\ (2 * n) * r = 2 * u /\ (2 * n) * (r + 1) = 2 * u + 2 * n
            BY <1>0, <3>2, SMT
        <3> QED BY <3>2, <3>3, Zenon
    <2> HIDE DEF r, m, p, t, u
    <2>5. r <= pps
        <3>1. SUFFICES ASSUME pps + 1 <= r PROVE FALSE
            BY <1>0, <2>4, SMT
        <3>2. n * (pps + 1) <= u
            BY <1>0, <2>4, <3>1, ProductGrows, SMT DEF u
        <3>3. n * (pps + 1) = t + n
            BY <1>0, SMT DEF t
        <3> QED BY <1>0, <2>2, <2>4, <3>2, <3>3, SMT
    <2>6. r >= 7
        <3>1. SUFFICES ASSUME r <= 6 PROVE FALSE
            BY <2>4, SMT
        <3>2. u <= n * 6
            BY <1>0, <2>4, <3>1, ProductGrows, SMT DEF u
        <3>3. p >= 7 * m
            BY <1>0, <2>1, ProductGrows, SMT DEF p
        <3> QED BY <1>0, <2>1, <2>2, <2>4, <3>2, <3>3, SMT
    <2>7. r * n = u
        BY <1>0, <2>4, SMT DEF u
    <2>8. MinRate <= r /\ r <= MaxRate
        BY <2>4, <2>5, <2>6, SMT DEF MinRate, MaxRate
    <2>9. 2 * (r * n - p) <= n /\ -n <= 2 * (r * n - p)
        BY <1>0, <2>2, <2>4, <2>7, SMT
    <2> QED BY <2>4, <2>8, <2>9, Zenon DEF r, p, m
<1> QED BY <1>1, <1>2

\* The firmware's two sizes agree exactly when the frame is alone in its job.
LEMMA AgreeIffAlone ==
    ASSUME NEW m \in Nat, NEW k \in Nat, m <= MaxPoints,
           PacketSize * k + Bytes(m) <= JobSize
    PROVE  /\ SizesAgree(PacketSize * k + Bytes(m), <<Lo(m), Hi(m)>>) <=> k = 0
           /\ LengthBytes(Bytes(m)) \div 7 = m
<1>1. Word(Lo(m), Hi(m)) = m
    <2>1. m <= MaxRate
        BY SMT DEF MaxPoints, MaxRate
    <2> QED BY <2>1, BytesCarryWord, SMT
<1>2. FieldBytes(<<Lo(m), Hi(m)>>) = 7 * m
    BY <1>1, SMT DEF FieldBytes, UInt16, MaxPoints
<1>3. LengthBytes(PacketSize * k + Bytes(m)) = 64 * k + 7 * m
    BY SMT DEF LengthBytes, UInt16, PacketSize, Bytes, JobSize, MaxPoints
<1>4. LengthBytes(Bytes(m)) \div 7 = m
    BY SMT DEF LengthBytes, UInt16, Bytes, MaxPoints
<1> QED BY <1>2, <1>3, <1>4, SMT DEF SizesAgree, MaxPoints

\* No rate a frame can carry makes SysTick_Config() refuse, so speed_set()
\* always starts SysTick (main.c:305-310).
THEOREM ClockAlwaysStarts ==
    \A rate \in Nat : ReloadPossible(Ticks(SpeedSet(rate)))
<1> TAKE rate \in Nat
<1> DEFINE s == SpeedSet(rate)
<1>1. s \in Nat /\ 7 <= s
    BY SMT DEF SpeedSet, MinRate, MaxRate
<1> HIDE DEF s
<1> DEFINE q == CpuHz \div s
<1>2. q \in Nat /\ s * q <= CpuHz
    <2>1. CpuHz \in Nat /\ s \in Nat \ {0}
        BY <1>1, SMT DEF CpuHz
    <2> QED BY <2>1, Quotient, Zenon
<1> HIDE DEF q
<1>3. 7 * q <= s * q
    BY <1>1, <1>2, ProductGrows, SMT
<1>4. q <= 16000000
    <2>1. 7 * q <= 112000000
        BY <1>1, <1>2, <1>3, SMT DEF CpuHz
    <2> QED BY <1>2, <2>1, SMT
<1>5. 2^24 = 16777216
    BY SMT
<1> QED BY <1>2, <1>4, <1>5, SMT DEF ReloadPossible, Ticks, s, q

-----------------------------------------------------------------------------
(* The invariant *)

SentWire == WireFrame(call.pps, Clamped(call.n))

Called == stage \in {"called", "failed", "overrun"} => wire = NoWire /\ stale = 0 /\ frame = NoFrame

Sent == stage \in {"sent", "skipped", "stalled", "played"} =>
    /\ MinRate <= call.pps /\ call.pps <= MaxRate
    /\ Clamped(call.n) <= MaxPoints
    /\ wire = SentWire /\ stale \in StalePackets

Skipped == /\ stage = "sent" => frame = NoFrame
           /\ stage \in {"skipped", "stalled"} => stale # 0

Overrun == stage = "overrun" => call.n > IntMax

PlayedAlone ==
    /\ stale = 0
    /\ frame = [points |-> PointsSent(Clamped(call.n)),
                rate   |-> RateSent(call.pps, Clamped(call.n))]

PlayedMixed ==
    /\ stale # 0
    /\ PacketSize * stale + wire.length > JobSize /\ frame.points = MaxPoints

Played == stage = "played" => PlayedAlone \/ PlayedMixed

IInv ==
    /\ stage \in {"called", "failed", "overrun", "sent", "skipped", "stalled", "played"}
    /\ call \in [pps : Rates, n : PointCounts]
    /\ Called /\ Overrun /\ Sent /\ Skipped /\ Played

\* What std::min<int> makes of a number of points: from IntMax + 1 on, nothing.
LEMMA ClampedInt ==
    ASSUME NEW n \in 0 .. UIntMax
    PROVE  /\ Clamped(n) \in Nat
           /\ n <= IntMax => Clamped(n) = IF n < MaxPoints THEN n ELSE MaxPoints
           /\ n > IntMax => Clamped(n) = n
<1>1. IntMax \in Nat /\ UIntMax = 2 * IntMax + 1
    BY CallAssumption DEF UIntMax
<1> QED BY <1>1, SMT DEF Clamped, AsInt, AsUnsigned, MaxPoints

\* What the arguments of WriteFrame are and become.
LEMMA Arguments ==
    ASSUME call \in [pps : Rates, n : PointCounts]
    PROVE  /\ call.pps \in Nat /\ call.n \in 0 .. UIntMax /\ call.n \in Nat
           /\ Clamped(call.n) \in Nat
<1>1. call.pps \in Nat /\ call.n \in 0 .. UIntMax
    <2>1. call.pps \in Rates /\ call.n \in PointCounts
        BY SMT
    <2> QED BY <2>1, CallAssumption
<1>2. UIntMax \in Nat
    BY CallAssumption, SMT DEF UIntMax
<1> QED BY <1>1, <1>2, ClampedInt

\* The transfer of a frame, as the firmware reads it.
LEMMA FrameReceived ==
    ASSUME NEW pps \in Nat, NEW n \in Nat, NEW k \in Nat,
           MinRate <= pps, pps <= MaxRate, n <= MaxPoints,
           PacketSize * k + WireFrame(pps, n).length <= JobSize
    PROVE  LET w == WireFrame(pps, n) IN
           /\ SizesAgree(PacketSize * k + w.length, w.size) <=> k = 0
           /\ LengthBytes(PacketSize * 0 + w.length) \div 7 = PointsSent(n)
           /\ SpeedSet(Word(w.rate[1], w.rate[2])) = RateSent(pps, n)
           /\ ReloadPossible(Ticks(SpeedSet(Word(w.rate[1], w.rate[2]))))
<1> DEFINE m == PointsSent(n)
           r == RateSent(pps, n)
           w == WireFrame(pps, n)
<1>1. w.length = Bytes(m) /\ w.size = <<Lo(m), Hi(m)>> /\ w.rate = <<Lo(r), Hi(r)>>
    BY SMT DEF WireFrame, SizeField
<1>2. m \in Nat /\ m <= MaxPoints
    BY PointsKept, SMT DEF MaxPoints
<1>3. r \in Nat /\ MinRate <= r /\ r <= MaxRate
    BY RateKept
<1> HIDE DEF m, r, w
<1>4. /\ SizesAgree(PacketSize * k + w.length, w.size) <=> k = 0
      /\ LengthBytes(w.length) \div 7 = m
    <2>1. PacketSize * k + Bytes(m) <= JobSize
        BY <1>1, SMT DEF w
    <2> QED BY <1>1, <1>2, <2>1, AgreeIffAlone, SMT
<1>5. PacketSize * 0 + w.length = w.length
    BY <1>1, <1>2, SMT DEF PacketSize, Bytes
<1>6. Word(w.rate[1], w.rate[2]) = r
    <2>1. w.rate[1] = Lo(r) /\ w.rate[2] = Hi(r)
        BY <1>1, SMT
    <2> QED BY <1>3, <2>1, BytesCarryWord, SMT
<1>7. SpeedSet(r) = r
    BY <1>3, SMT DEF SpeedSet, MinRate, MaxRate
<1>8. ReloadPossible(Ticks(SpeedSet(r)))
    BY <1>3, ClockAlwaysStarts
<1> QED BY <1>4, <1>5, <1>6, <1>7, <1>8, Zenon DEF m, r, w

\* In a job that holds all of the transfer the callback finds its control bytes.
LEMMA ControlBytesFound ==
    ASSUME NEW pps \in Nat, NEW n \in Nat, wire = WireFrame(pps, n),
           NEW j \in 1 .. 4
    PROVE  WireBytes(wire.length - 5 + j - 1) =
              {(<<wire.rate[1], wire.rate[2], wire.size[1], wire.size[2]>>)[j]}
<1>1. wire.length \in Int
    BY PointsKept, SMT DEF WireFrame, Bytes
<1>2. ~ (wire.length - 5 + j - 1 < wire.length - 5)
      /\ (wire.length - 5 + j - 1) - (wire.length - 5) + 1 = j
    BY <1>1, SMT
<1> QED BY <1>1, <1>2, Zenon DEF WireBytes

\* A frame in a job with room for it and what lies before it: played if alone.
LEMMA CallbackFits ==
    ASSUME IInv, usb_bulk_out_callback, PacketSize * stale + wire.length <= JobSize
    PROVE  \/ stale = 0 /\ stage' = "played" /\ PlayedAlone'
           \/ stale # 0 /\ stage' = "skipped" /\ frame' = frame
<1> DEFINE n == Clamped(call.n)
           length == Received(PacketSize * stale + wire.length)
           at == length - 5 - PacketSize * stale
<1>1. /\ stage = "sent" /\ UNCHANGED <<call, wire, stale>>
      /\ \E r1 \in WireBytes(at), r2 \in WireBytes(at + 1),
            s1 \in WireBytes(at + 2), s2 \in WireBytes(at + 3) :
            \/ /\ SizesAgree(length, <<s1, s2>>)
               /\ frame' = [points |-> LengthBytes(length) \div 7,
                            rate   |-> SpeedSet(Word(r1, r2))]
               /\ stage' = IF ReloadPossible(Ticks(SpeedSet(Word(r1, r2))))
                           THEN "played" ELSE "stalled"
            \/ /\ ~SizesAgree(length, <<s1, s2>>)
               /\ stage' = "skipped" /\ UNCHANGED frame
    BY Zenon DEF usb_bulk_out_callback
<1>2. /\ MinRate <= call.pps /\ call.pps <= MaxRate /\ n <= MaxPoints
      /\ wire = WireFrame(call.pps, n) /\ stale \in StalePackets
      /\ call.pps \in Nat /\ n \in Nat
    BY <1>1, Arguments, SMT DEF IInv, Sent, SentWire
<1>3. stale \in Nat
    BY <1>2, BytesAssumption, SMT DEF JobSize, Bytes, MaxPoints, PacketSize
<1> HIDE DEF n
<1>4. wire.length \in Nat
    BY <1>2, PointsKept, SMT DEF WireFrame, Bytes
<1>5. length = PacketSize * stale + wire.length /\ at = wire.length - 5
    BY <1>3, <1>4, SMT DEF Received, PacketSize, JobSize, Bytes, MaxPoints
<1> HIDE DEF length, at
<1>6. /\ WireBytes(at) = {wire.rate[1]} /\ WireBytes(at + 1) = {wire.rate[2]}
      /\ WireBytes(at + 2) = {wire.size[1]} /\ WireBytes(at + 3) = {wire.size[2]}
    <2> DEFINE c == <<wire.rate[1], wire.rate[2], wire.size[1], wire.size[2]>>
    <2>1. \A j \in 1 .. 4 : WireBytes(wire.length - 5 + j - 1) = {c[j]}
        BY <1>2, ControlBytesFound
    <2> HIDE DEF c
    <2>2. /\ WireBytes(wire.length - 5 + 1 - 1) = {c[1]}
          /\ WireBytes(wire.length - 5 + 2 - 1) = {c[2]}
          /\ WireBytes(wire.length - 5 + 3 - 1) = {c[3]}
          /\ WireBytes(wire.length - 5 + 4 - 1) = {c[4]}
        BY <2>1, SMT
    <2>3. /\ wire.length - 5 + 1 - 1 = at /\ wire.length - 5 + 2 - 1 = at + 1
          /\ wire.length - 5 + 3 - 1 = at + 2 /\ wire.length - 5 + 4 - 1 = at + 3
        BY <1>4, <1>5, SMT
    <2>4. WireBytes(at) = {c[1]} /\ WireBytes(at + 1) = {c[2]}
          /\ WireBytes(at + 2) = {c[3]} /\ WireBytes(at + 3) = {c[4]}
        BY <2>2, <2>3, Zenon
    <2> QED BY <2>4 DEF c
<1>7. /\ SizesAgree(length, wire.size) <=> stale = 0
      /\ LengthBytes(PacketSize * 0 + wire.length) \div 7 = PointsSent(n)
      /\ SpeedSet(Word(wire.rate[1], wire.rate[2])) = RateSent(call.pps, n)
      /\ ReloadPossible(Ticks(SpeedSet(Word(wire.rate[1], wire.rate[2]))))
    BY <1>2, <1>3, <1>5, FrameReceived
<1>8. wire.size = <<wire.size[1], wire.size[2]>>
    BY <1>2 DEF WireFrame
<1>9. \/ /\ SizesAgree(length, wire.size)
         /\ stage' = "played"
         /\ frame' = [points |-> LengthBytes(length) \div 7,
                      rate   |-> SpeedSet(Word(wire.rate[1], wire.rate[2]))]
      \/ ~SizesAgree(length, wire.size) /\ stage' = "skipped" /\ frame' = frame
    <2>1. PICK r1 \in {wire.rate[1]}, r2 \in {wire.rate[2]},
               s1 \in {wire.size[1]}, s2 \in {wire.size[2]} :
            \/ /\ SizesAgree(length, <<s1, s2>>)
               /\ frame' = [points |-> LengthBytes(length) \div 7,
                            rate   |-> SpeedSet(Word(r1, r2))]
               /\ stage' = IF ReloadPossible(Ticks(SpeedSet(Word(r1, r2))))
                           THEN "played" ELSE "stalled"
            \/ /\ ~SizesAgree(length, <<s1, s2>>)
               /\ stage' = "skipped" /\ frame' = frame
        BY <1>1, <1>6, Zenon
    <2>2. r1 = wire.rate[1] /\ r2 = wire.rate[2] /\ s1 = wire.size[1] /\ s2 = wire.size[2]
        OBVIOUS
    <2> QED BY <1>7, <1>8, <2>1, <2>2, Zenon
<1>10. CASE stale = 0
    <2>1. length = PacketSize * 0 + wire.length
        BY <1>5, <1>10
    <2>2. /\ stage' = "played"
          /\ frame' = [points |-> PointsSent(n), rate |-> RateSent(call.pps, n)]
        BY <1>7, <1>9, <1>10, <2>1, Zenon
    <2> QED BY <1>1, <1>10, <2>2 DEF PlayedAlone, n
<1>11. CASE stale # 0
    BY <1>7, <1>9, <1>11, Zenon
<1> QED BY <1>10, <1>11

\* What the callback can take for a frame has the size of the whole job.
LEMMA FullJob == Received(JobSize) = JobSize /\ LengthBytes(JobSize) \div 7 = MaxPoints
BY SMT DEF Received, LengthBytes, UInt16, JobSize, Bytes, MaxPoints

\* A transfer the job cannot hold is not alone in it, and may be taken for a frame
\* as large as the job.
LEMMA CallbackFull ==
    ASSUME IInv, usb_bulk_out_callback, PacketSize * stale + wire.length > JobSize
    PROVE  \/ stage' = "played" /\ PlayedMixed'
           \/ stale # 0 /\ stage' \in {"skipped", "stalled"}
<1> DEFINE n == Clamped(call.n)
           total == PacketSize * stale + wire.length
<1>1. stage = "sent" /\ UNCHANGED <<call, wire, stale>>
    BY Zenon DEF usb_bulk_out_callback
<1>2. n <= MaxPoints /\ wire = WireFrame(call.pps, n) /\ stale \in StalePackets /\ n \in Nat
    BY <1>1, Arguments, SMT DEF IInv, Sent, SentWire
<1>3. stale \in Nat
    BY <1>2, BytesAssumption, SMT DEF JobSize, Bytes, MaxPoints, PacketSize
<1> HIDE DEF n
<1>4. wire.length \in Nat /\ wire.length <= JobSize
    <2>1. wire.length = Bytes(PointsSent(n))
        BY <1>2 DEF WireFrame
    <2>2. PointsSent(n) \in Nat /\ PointsSent(n) <= MaxPoints
        BY <1>2, PointsKept, SMT DEF MaxPoints
    <2> HIDE DEF n
    <2> QED BY <2>1, <2>2, SMT DEF Bytes, JobSize, MaxPoints
<1>5. stale # 0
    BY <1>3, <1>4, SMT DEF PacketSize, JobSize, Bytes, MaxPoints
<1>6. Received(total) = JobSize
    BY <1>3, <1>4, SMT DEF Received, PacketSize, JobSize, Bytes, MaxPoints
<1>7. \/ stage' = "played" /\ \E r : frame' = [points |-> LengthBytes(Received(total)) \div 7,
                                              rate   |-> r]
      \/ stage' \in {"skipped", "stalled"}
    BY Zenon DEF usb_bulk_out_callback
<1>8. CASE stage' = "played" /\ \E r : frame' = [points |-> LengthBytes(Received(total)) \div 7,
                                                rate   |-> r]
    <2>1. frame'.points = MaxPoints
        BY <1>6, <1>8, FullJob
    <2> QED BY <1>1, <1>5, <1>8, <2>1 DEF PlayedMixed
<1> QED BY <1>5, <1>7, <1>8

\* The invariant holds initially.
LEMMA InitInv == Init => IInv
BY SMT DEF Init, IInv, Called, Overrun, Sent, Skipped, Played

\* The steps of a frame keep it.
LEMMA NextInv == IInv /\ [Next]_vars => IInv'
<1> SUFFICES ASSUME IInv, [Next]_vars PROVE IInv'
    OBVIOUS
<1> USE DEF IInv
<1>1. CASE WriteFrameError
    BY <1>1, SMT DEF WriteFrameError, Called, Overrun, Sent, Skipped, Played
<1>2. CASE SendFrame
    BY <1>2, SMT DEF SendFrame, RateAccepted, Called, Overrun, Sent, Skipped, Played, SentWire
<1>3. CASE SendFrameOverrun
    <2>1. call.n > IntMax
        <3>1. Clamped(call.n) > MaxPoints /\ call.n \in 0 .. UIntMax
            BY <1>3, Arguments DEF SendFrameOverrun
        <3>2. call.n \in Nat /\ IntMax \in Nat
            BY Arguments, CallAssumption
        <3> QED BY <3>1, <3>2, ClampedInt, SMT DEF MaxPoints
    <2> QED BY <1>3, <2>1, SMT DEF SendFrameOverrun, Called, Overrun, Sent, Skipped, Played
<1>4. CASE usb_bulk_out_callback
    <2>1. stage = "sent" /\ UNCHANGED <<call, wire, stale>>
        BY <1>4, Zenon DEF usb_bulk_out_callback
    <2>2. \/ stale = 0 /\ stage' = "played" /\ PlayedAlone'
          \/ stage' = "played" /\ PlayedMixed'
          \/ stale # 0 /\ stage' \in {"skipped", "stalled"}
        <3>1. PacketSize * stale + wire.length \in Int
            <4>1. wire.length = Bytes(PointsSent(Clamped(call.n))) /\ stale \in StalePackets
                BY <2>1, SMT DEF Sent, SentWire, WireFrame
            <4>2. stale \in Nat
                BY <4>1, BytesAssumption, SMT DEF JobSize, Bytes, MaxPoints, PacketSize
            <4>3. PointsSent(Clamped(call.n)) \in Nat
                BY Arguments, PointsKept
            <4> QED BY <4>1, <4>2, <4>3, SMT DEF Bytes, PacketSize
        <3>2. \/ PacketSize * stale + wire.length <= JobSize
              \/ PacketSize * stale + wire.length > JobSize
            BY <3>1, SMT DEF JobSize, Bytes, MaxPoints
        <3> QED BY <1>4, <3>2, CallbackFits, CallbackFull, Zenon
    <2>3. Sent'
        BY <2>1, <2>2 DEF Sent, SentWire
    <2> QED BY <2>1, <2>2, <2>3 DEF Called, Overrun, Skipped, Played
<1>5. CASE UNCHANGED vars
    BY <1>5, SMT DEF vars, Called, Overrun, Sent, Skipped, Played, PlayedAlone, PlayedMixed,
       SentWire
<1> QED BY <1>1, <1>2, <1>3, <1>4, <1>5, Zenon DEF Next

LEMMA FormatInvariance == Spec => []IInv
BY InitInv, NextInv, PTL DEF Spec

-----------------------------------------------------------------------------
(* The theorems *)

\* The end of every transfer SendFrame makes can be told from its packets.
THEOREM TransfersEnd == Spec => []EndsInShortPacket
<1>1. IInv => EndsInShortPacket
    <2> SUFFICES ASSUME IInv, stage = "sent" PROVE wire.length % PacketSize # 0
        BY Zenon DEF EndsInShortPacket
    <2>1. wire.length = Bytes(PointsSent(Clamped(call.n)))
        BY SMT DEF IInv, Sent, SentWire, WireFrame
    <2> QED BY <2>1, Arguments, NeverWholePackets, Zenon DEF IInv
<1> QED BY <1>1, FormatInvariance, PTL

\* The firmware plays every frame sent into an empty job, with its points, as long as
\* their number is an int.
THEOREM FramesArrive == Spec => []PlayedAsSent
<1>1. IInv => PlayedAsSent
    <2> DEFINE n == IF call.n < MaxPoints THEN call.n ELSE MaxPoints
    <2> SUFFICES ASSUME IInv, stage \in {"overrun", "skipped", "stalled", "played"},
                        stale = 0,
                        call.n <= IntMax
                 PROVE  stage = "played" /\ frame.points \in {n, n - 1}
        BY Zenon DEF PlayedAsSent
    <2>1. call.n \in 0 .. UIntMax /\ call.n \in Nat /\ IntMax \in Nat
        BY Arguments, CallAssumption DEF IInv
    <2>2. Clamped(call.n) = n /\ n \in Nat
        BY <2>1, ClampedInt, SMT DEF MaxPoints
    <2>3. stage # "overrun"
        BY <2>1, SMT DEF IInv, Overrun
    <2>4. stage = "played"
        BY <2>3, Zenon DEF IInv, Skipped
    <2>5. frame.points = PointsSent(n)
        BY <2>2, <2>4 DEF IInv, Played, PlayedAlone, PlayedMixed
    <2> HIDE DEF n
    <2> QED BY <2>2, <2>4, <2>5, PointsKept, Zenon
<1> QED BY <1>1, FormatInvariance, PTL

\* The rate played keeps the frame's duration, also when a point was dropped.
THEOREM DurationsKept == Spec => []DurationKept
<1>1. IInv => DurationKept
    <2> SUFFICES ASSUME IInv, stage = "played", stale = 0 PROVE DurationKept
        BY Zenon DEF DurationKept
    <2> DEFINE n == Clamped(call.n)
    <2>1. frame.points = PointsSent(n) /\ frame.rate = RateSent(call.pps, n)
        BY SMT DEF IInv, Played, PlayedAlone, PlayedMixed
    <2>2. /\ 2 * (RateSent(call.pps, n) * n - call.pps * PointsSent(n)) <= n
          /\ -n <= 2 * (RateSent(call.pps, n) * n - call.pps * PointsSent(n))
        BY Arguments, RateKept, Zenon DEF IInv, Sent
    <2> QED BY <2>1, <2>2, Zenon DEF DurationKept
<1> QED BY <1>1, FormatInvariance, PTL

\* Behind bytes of an abandoned transfer, as many as they may be, a frame is skipped,
\* but for jobs too small for both, where it can only be taken for one as large.
THEOREM MixedPlayedOnlyFull == Spec => []MixedFrameFillsJob
<1>1. IInv => MixedFrameFillsJob
    BY Zenon DEF IInv, Played, PlayedAlone, PlayedMixed, MixedFrameFillsJob
<1> QED BY <1>1, FormatInvariance, PTL
=============================================================================
