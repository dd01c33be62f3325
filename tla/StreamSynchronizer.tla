------------------------ MODULE StreamSynchronizer ------------------------
(***************************************************************************)
(* The pairing of two video streams by time stamp (stream_synchronizer.py),*)
(* with the reader thread of each stream and the viewer's loop that use it *)
(* (rtsp_viewer.py).  A reader stamps a frame and then pushes it; between  *)
(* the two the other stream and the viewer may run.  Every method of the   *)
(* synchroniser holds its lock throughout and is one step.                 *)
(*                                                                         *)
(* Time is counted in steps of a clock, and of a frame only the stamp and  *)
(* the sequence number matter.  The averages of the time differences are   *)
(* left out.                                                               *)
(*                                                                         *)
(* An operator named X_<what is wrong> is X with a mistake its code could  *)
(* have, and no part of the specification.                                 *)
(***************************************************************************)
EXTENDS Integers, Sequences

CONSTANTS
    MaxBuffer,      \* max_buffer_size
    Deltas,         \* the differences that calls of get_aligned_pair allow
    MaxTime         \* a bound on the clock

ASSUME MaxBufferAssumption == MaxBuffer \in Nat \ {0}
ASSUME DeltasAssumption == Deltas \subseteq Nat
ASSUME MaxTimeAssumption == MaxTime \in Nat

Streams == {1, 2}
Other(s) == 3 - s

\* No frame has been stamped that is not pushed yet.
None == -1

VARIABLES
    now,            \* time.perf_counter_ns()
    stamp,          \* of each reader: the stamp of the frame it is about to push
    buf,            \* _buf1 and _buf2, oldest first
    seq,            \* _seq1 and _seq2
    dropped,        \* dropped_frames_1 and dropped_frames_2
    synced,         \* the number of pairs that were taken out of the buffers
    gone,           \* frames nothing counts: older than one paired, or cleared
    last,           \* the sequence numbers of the last pair taken out
    stale           \* the latest stamp a frame given up as stale could pair with

vars == <<now, stamp, buf, seq, dropped, synced, gone, last, stale>>

Init ==
    /\ now = 0
    /\ stamp = [s \in Streams |-> None]
    /\ buf = [s \in Streams |-> <<>>]
    /\ seq = [s \in Streams |-> 0]
    /\ dropped = [s \in Streams |-> 0]
    /\ synced = 0
    /\ gone = [s \in Streams |-> 0]
    /\ last = [s \in Streams |-> 0]
    /\ stale = [s \in Streams |-> None]

Tick ==
    /\ now < MaxTime
    /\ now' = now + 1
    /\ UNCHANGED <<stamp, buf, seq, dropped, synced, gone, last, stale>>

\* The reader's thread has read a frame and looks at the clock.
Capture(s) ==
    /\ stamp[s] = None
    /\ seq[s] <= now                \* no more frames than steps of the clock
    /\ stamp' = [stamp EXCEPT ![s] = now]
    /\ UNCHANGED <<now, buf, seq, dropped, synced, gone, last, stale>>

-----------------------------------------------------------------------------
(* StreamSynchronizer *)

Rest(q, n) == SubSeq(q, n + 1, Len(q))

\* A deque with maxlen drops its oldest element when a full one is appended to.
Pushed(q, f) == Append(IF Len(q) = MaxBuffer THEN Tail(q) ELSE q, f)

Full_Early(q) == Len(q) = MaxBuffer - 1

Full(q) == Len(q) = MaxBuffer

push_frame(s) ==
    /\ stamp[s] # None
    /\ seq' = [seq EXCEPT ![s] = @ + 1]
    /\ dropped' = IF Full(buf[s]) THEN [dropped EXCEPT ![s] = @ + 1] ELSE dropped
    /\ buf' = [buf EXCEPT ![s] = Pushed(@, [seq |-> seq[s] + 1, stamp |-> stamp[s]])]
    /\ stamp' = [stamp EXCEPT ![s] = None]
    /\ UNCHANGED <<now, synced, gone, last, stale>>

Gap(p) ==
    LET a == buf[1][p[1]].stamp
        b == buf[2][p[2]].stamp
    IN  IF a < b THEN b - a ELSE a - b

Candidates == (DOMAIN buf[1]) \X (DOMAIN buf[2])

Before(p, q) == p[1] < q[1] \/ (p[1] = q[1] /\ p[2] <= q[2])

\* The two loops keep the first of the closest pairs.
IsBest(p) ==
    /\ \A q \in Candidates : Gap(p) <= Gap(q)
    /\ \A q \in Candidates : Gap(q) = Gap(p) => Before(p, q)

Kept_OnlyMatchedGone(q, i) == SubSeq(q, 1, i - 1) \o Rest(q, i)

\* popleft() up to and including the i-th frame.
Kept(q, i) == Rest(q, i)

\* A pair within delta is returned and, with drop_stale, taken out.
TakePair(p) ==
    /\ buf' = [s \in Streams |-> Kept(buf[s], p[s])]
    /\ synced' = synced + 1
    /\ gone' = [s \in Streams |-> gone[s] + p[s] - 1]
    /\ last' = [s \in Streams |-> buf[s][p[s]].seq]
    /\ UNCHANGED <<dropped, stale>>

GivesUp_Newer(s, delta) == Head(buf[Other(s)]).stamp < Head(buf[s]).stamp - delta

GivesUp_FirstOnly(s, delta) ==
    s = 1 /\ Head(buf[s]).stamp < Head(buf[Other(s)]).stamp - delta

\* The oldest frame of s is too old for the oldest of the other stream.
GivesUp(s, delta) == Head(buf[s]).stamp < Head(buf[Other(s)]).stamp - delta

DropOldest(s, delta) ==
    /\ buf' = [buf EXCEPT ![s] = Tail(@)]
    /\ dropped' = [dropped EXCEPT ![s] = @ + 1]
    /\ stale' = [stale EXCEPT ![s] = LET t == Head(buf[s]).stamp + delta
                                     IN  IF t > @ THEN t ELSE @]
    /\ UNCHANGED <<synced, gone, last>>

\* With drop_stale, as the viewer calls it: a pair is taken out; or, if none is close
\* enough, one frame may be given up.  Else nothing is taken out.
get_aligned_pair(delta) ==
    /\ \A s \in Streams : buf[s] # <<>>
    /\ LET best == CHOOSE p \in Candidates : IsBest(p) IN
       \/ Gap(best) <= delta /\ TakePair(best)
       \/ Gap(best) > delta /\ GivesUp(1, delta) /\ DropOldest(1, delta)
       \/ Gap(best) > delta /\ ~GivesUp(1, delta) /\ GivesUp(2, delta) /\ DropOldest(2, delta)
    /\ UNCHANGED <<now, stamp, seq>>

\* The counters stay.
clear ==
    /\ gone' = [s \in Streams |-> gone[s] + Len(buf[s])]
    /\ buf' = [s \in Streams |-> <<>>]
    /\ UNCHANGED <<now, stamp, seq, dropped, synced, last, stale>>

Next ==
    \/ Tick
    \/ \E s \in Streams : Capture(s) \/ push_frame(s)
    \/ \E delta \in Deltas : get_aligned_pair(delta)
    \/ clear

Spec == Init /\ [][Next]_vars

-----------------------------------------------------------------------------
(* Properties *)

Frames == [seq : Nat \ {0}, stamp : 0 .. MaxTime]

TypeOK ==
    /\ now \in 0 .. MaxTime
    /\ stamp \in [Streams -> 0 .. MaxTime \cup {None}]
    /\ buf \in [Streams -> Seq(Frames)]
    /\ \A s \in Streams : Len(buf[s]) <= MaxBuffer
    /\ seq \in [Streams -> Nat] /\ dropped \in [Streams -> Nat]
    /\ gone \in [Streams -> Nat] /\ synced \in Nat
    /\ last \in [Streams -> Nat] /\ stale \in [Streams -> Nat \cup {None}]

\* Pairs go forward in both streams: what is still buffered is newer than what has been
\* paired, and in the order in which it was captured.
InOrder ==
    \A s \in Streams :
        /\ \A i \in DOMAIN buf[s] : last[s] < buf[s][i].seq /\ buf[s][i].seq <= seq[s]
        /\ \A i, j \in DOMAIN buf[s] :
              i < j => buf[s][i].seq < buf[s][j].seq /\ buf[s][i].stamp <= buf[s][j].stamp
        /\ stamp[s] # None => \A i \in DOMAIN buf[s] : buf[s][i].stamp <= stamp[s]

\* Every frame pushed is buffered, paired, or counted by what has thrown it away; of
\* these dropped_frames counts the ones given up and the ones a full buffer pushed out.
Accounted ==
    \A s \in Streams :
        seq[s] = Len(buf[s]) + synced + dropped[s] + gone[s]

\* A frame given up as stale would never have been paired: whatever the other stream
\* holds then or delivers later is more than the call's delta away from it.
StaleIsHopeless ==
    \A s \in Streams :
        /\ \A i \in DOMAIN buf[Other(s)] : buf[Other(s)][i].stamp > stale[s]
        /\ stamp[Other(s)] # None => stamp[Other(s)] > stale[s]
        /\ now > stale[s]

\* A call that finds frames of both streams always takes some out, so that two streams
\* out of step are never stuck with full buffers.
AlwaysProgress ==
    (\A s \in Streams : buf[s] # <<>>) =>
        \A delta \in Deltas : \/ \E p \in Candidates : Gap(p) <= delta
                             \/ \E s \in Streams : GivesUp(s, delta)
=============================================================================
