---------------------------- MODULE FrameFormat ----------------------------
(***************************************************************************)
(* One frame on its way from HeliosDac::WriteFrame to the firmware's       *)
(* usb_bulk_out_callback: the checks of its arguments, the point dropped   *)
(* from sizes the device cannot receive, the five control bytes behind the *)
(* points, the bulk transfer in packets of 64 bytes, and the firmware's    *)
(* comparison of the two sizes it gets.  Of the points their number is     *)
(* what matters, and their bytes where the firmware takes them for others. *)
(*                                                                         *)
(* An operator named X_<what is wrong> is X with a mistake its code could  *)
(* have, and no part of the specification.                                 *)
(***************************************************************************)
EXTENDS Integers

CONSTANTS
    PointCounts,    \* the numbers of points applications pass
    Rates,          \* the rates they pass
    StalePackets,   \* the packets an abandoned transfer may have left
    PointBytes,     \* the bytes points may consist of
    IntMax          \* the largest int of the host

MaxPoints == 4096           \* HELIOS_MAX_POINTS, and MAXFRAMESIZE
MaxRate == 65535            \* HELIOS_MAX_RATE, and MAXSPEED
\* ... _TooLow: SysTick_Config() would refuse its reload value.
MinRate_TooLow == 6

MinRate == 7                \* HELIOS_MIN_RATE, and MINSPEED
PacketSize == 64            \* UDI_VENDOR_EPS_SIZE_BULK_FS
CpuHz == 112000000          \* sysclk_get_cpu_hz()

Bytes(n) == 7 * n + 5
JobSize == Bytes(MaxPoints)

\* Of an unsigned int, which has one bit more.
UIntMax == 2 * IntMax + 1

ASSUME CallAssumption ==
    /\ IntMax \in Nat /\ MaxPoints <= IntMax
    /\ PointCounts \subseteq 0 .. UIntMax /\ Rates \subseteq Nat

\* Packets as many as fill a job would have ended it.
ASSUME BytesAssumption ==
    /\ StalePackets \subseteq 0 .. JobSize \div PacketSize
    /\ PointBytes \subseteq 0 .. 255 /\ PointBytes # {}

Lo(x) == x % 256
Hi(x) == (x \div 256) % 256
Word(lo, hi) == lo + 256 * hi
UInt16(x) == x % 65536

-----------------------------------------------------------------------------
(* The host *)

\* The device does not see the end of a transfer without a short last packet:
\* SendFrame drops a point from the sizes that would have none.
PointsSent_All(n) == n

PointsSent(n) == IF n >= 45 /\ (n - 45) % 64 = 0 THEN n - 1 ELSE n

\* The rate that keeps the frame's duration, (unsigned)(pps * m / n + 0.5).
RateSent_RoundedDown(pps, n) ==
    IF PointsSent(n) = n THEN pps ELSE (pps * PointsSent(n)) \div n

RateSent(pps, n) ==
    IF PointsSent(n) = n THEN pps ELSE (2 * pps * PointsSent(n) + n) \div (2 * n)

\* The size in the control bytes.
SizeField_Called(n) == n

SizeField(n) == PointsSent(n)

\* What SendFrame puts on the wire.
WireFrame(pps, n) ==
    [length |-> Bytes(PointsSent(n)),
     rate   |-> <<Lo(RateSent(pps, n)), Hi(RateSent(pps, n))>>,
     size   |-> <<Lo(SizeField(n)), Hi(SizeField(n))>>]

-----------------------------------------------------------------------------
(* The firmware *)

\* The bytes before the control bytes, by the length of the transfer and by
\* the control bytes, as 16 bit numbers.
LengthBytes(length) == UInt16(length - 5)
FieldBytes(size) == UInt16(Word(size[1], size[2]) * 7)

\* udp_device.c ends a job that is full, whatever is left of the transfer.
Received(bytes) == IF bytes < JobSize THEN bytes ELSE JobSize

SizesAgree_NotChecked(length, size) == length <= JobSize

SizesAgree(length, size) == length <= JobSize /\ LengthBytes(length) = FieldBytes(size)

\* speed_set() keeps the rate within bounds, and SysTick_Config() refuses a
\* reload value of more than 24 bits and leaves SysTick as it is.
SpeedSet(rate) == IF rate > MaxRate THEN MaxRate ELSE IF rate < MinRate THEN MinRate ELSE rate
Ticks(rate) == CpuHz \div rate + 1
ReloadPossible(ticks) == ticks - 1 <= 2^24 - 1

-----------------------------------------------------------------------------
VARIABLES
    stage,      \* "called", "failed", "overrun", "sent", "skipped", "played",
                \* or "stalled": taken by the firmware, but without a clock
    call,       \* the arguments of WriteFrame
    wire,       \* what was sent
    stale,      \* how many packets of an abandoned transfer lie before it
    frame       \* the points and the rate of the frame the firmware took

vars == <<stage, call, wire, stale, frame>>

NoWire == [length |-> 0, rate |-> <<0, 0>>, size |-> <<0, 0>>]
NoFrame == [points |-> 0, rate |-> 0]

Init ==
    /\ stage = "called"
    /\ call \in [pps : Rates, n : PointCounts]
    /\ wire = NoWire /\ stale = 0 /\ frame = NoFrame

\* WriteFrame refuses a rate out of range ...
WriteFrameError ==
    /\ stage = "called" /\ (call.pps > MaxRate \/ call.pps < MinRate)
    /\ stage' = "failed"
    /\ UNCHANGED <<call, wire, stale, frame>>

AsInt(n) == IF n > IntMax THEN n - (UIntMax + 1) ELSE n
AsUnsigned(i) == IF i < 0 THEN i + (UIntMax + 1) ELSE i

\* ... but cuts a frame that has too many points: std::min<int>.
Clamped(n) == AsUnsigned(IF AsInt(n) < MaxPoints THEN AsInt(n) ELSE MaxPoints)

RateAccepted == MinRate <= call.pps /\ call.pps <= MaxRate

SendFrame ==
    /\ stage = "called" /\ RateAccepted /\ Clamped(call.n) <= MaxPoints
    /\ stage' = "sent"
    /\ wire' = WireFrame(call.pps, Clamped(call.n))
    /\ \E k \in StalePackets : stale' = k
    /\ UNCHANGED <<call, frame>>

\* SendFrame writes past frameBuffer; what it does then is undefined.
SendFrameOverrun ==
    /\ stage = "called" /\ RateAccepted /\ Clamped(call.n) > MaxPoints
    /\ stage' = "overrun"
    /\ UNCHANGED <<call, wire, stale, frame>>

\* What byte i of the transfer may be: of a point, or the control byte it is.
WireBytes(i) ==
    LET control == <<wire.rate[1], wire.rate[2], wire.size[1], wire.size[2]>>
    IN  IF i < wire.length - 5 THEN PointBytes ELSE {control[i - (wire.length - 5) + 1]}

\* The callback gets the length of the job and takes its last five bytes for the
\* control bytes.  They are if all of the transfer fits into the job.
usb_bulk_out_callback ==
    LET length == Received(PacketSize * stale + wire.length)
        at == length - 5 - PacketSize * stale
    IN  /\ stage = "sent"
        /\ \E r1 \in WireBytes(at), r2 \in WireBytes(at + 1),
              s1 \in WireBytes(at + 2), s2 \in WireBytes(at + 3) :
              \/ /\ SizesAgree(length, <<s1, s2>>)
                 /\ frame' = [points |-> LengthBytes(length) \div 7,
                              rate   |-> SpeedSet(Word(r1, r2))]
                 /\ stage' = IF ReloadPossible(Ticks(SpeedSet(Word(r1, r2))))
                             THEN "played" ELSE "stalled"
              \/ /\ ~SizesAgree(length, <<s1, s2>>)
                 /\ stage' = "skipped" /\ UNCHANGED frame
        /\ UNCHANGED <<call, wire, stale>>

Next == WriteFrameError \/ SendFrame \/ SendFrameOverrun \/ usb_bulk_out_callback

Spec == Init /\ [][Next]_vars

-----------------------------------------------------------------------------
(* Properties *)

\* The end of every transfer can be told from its packets.
EndsInShortPacket == stage = "sent" => wire.length % PacketSize # 0

\* A frame of any number of points an int can hold, at any rate WriteFrame accepts,
\* is played when sent into an empty job, with the points that were passed, or one
\* fewer, or as many as fit, and with SysTick going.
PlayedAsSent ==
    stage \in {"overrun", "skipped", "stalled", "played"} /\ stale = 0 /\ call.n <= IntMax =>
        LET n == IF call.n < MaxPoints THEN call.n ELSE MaxPoints
        IN  stage = "played" /\ frame.points \in {n, n - 1}

\* Its duration, points by rate, is off by at most half a point per second.
DurationKept ==
    stage = "played" /\ stale = 0 =>
        LET n == Clamped(call.n)
            d == frame.rate * n - call.pps * frame.points
        IN  2 * d <= n /\ -n <= 2 * d

\* Behind packets of an abandoned transfer a frame is skipped, unless the job cannot
\* hold both: the check then reads point data, and can only be passed as a frame of
\* MaxPoints points.
MixedFrameFillsJob ==
    stage = "played" /\ stale # 0 =>
        PacketSize * stale + wire.length > JobSize /\ frame.points = MaxPoints

=============================================================================
