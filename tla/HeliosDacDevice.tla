-------------------------- MODULE HeliosDacDevice --------------------------
(***************************************************************************)
(* One HeliosDacDevice of the host SDK: the threads of the application     *)
(* that call it, the detached thread that runs FrameHandler() for frames   *)
(* sent with HELIOS_FLAGS_DONT_BLOCK, and the destructor, which one of the *)
(* application's threads runs.                                             *)
(*                                                                         *)
(* frameLock is taken by the commands and the destructor, and by neither   *)
(* SendFrame nor FrameHandler: these share frameReady, closed and the      *)
(* frame buffer with no lock.  A step is one access to what is shared, or  *)
(* the beginning or the end of a USB transfer, which may fail or time out. *)
(*                                                                         *)
(* An operator named X_<what is wrong> is X with a mistake its code could  *)
(* have, and no part of the specification.                                 *)
(***************************************************************************)
EXTENDS Integers

CONSTANTS
    Clients,        \* the application's threads
    Senders,        \* those of them that send frames
    Closer,         \* the one that destroys the object, or Nobody
    Nobody

ASSUME ThreadsAssumption ==
    /\ Nobody \notin Clients /\ Closer \in Clients \cup {Nobody}
    /\ Senders \subseteq Clients

Commands == {"status", "stop", "erase"}     \* the others are like "status"
Calls == {"frame", "frameNoWait"} \cup Commands

\* Two frames of each client in turn, so that one can be told from the next.
Frames == Clients \X {0, 1}
NoFrame == <<Nobody, 0>>        \* no frame yet, or one being written

VARIABLES
    closed, frameReady, buffer,
    frameLock,      \* the thread that holds it
    freed,          \* the destructor is done
    pending,        \* the frame that frameReady announces
    call, pc, mine, \* each client's call, its place in it, its latest frame
    hpc             \* the place of FrameHandler

shared == <<closed, frameReady, buffer, frameLock, freed, pending>>
vars == <<shared, call, pc, mine, hpc>>

\* The constructor has ended and the handler's thread is running.
Init ==
    /\ closed = FALSE /\ frameReady = FALSE /\ buffer = NoFrame
    /\ frameLock = Nobody /\ freed = FALSE /\ pending = NoFrame
    /\ call = [c \in Clients |-> "frame"]
    /\ pc = [c \in Clients |-> "idle"]
    /\ mine = [c \in Clients |-> <<c, 0>>]
    /\ hpc = "poll"

Goto(c, to) == pc' = [pc EXCEPT ![c] = to]

-----------------------------------------------------------------------------
(* The application's threads *)

Entry_ClosedIgnored(op) == IF op \in Commands THEN "lock" ELSE "ready"

\* Every call first returns HELIOS_ERROR_DEVICE_CLOSED if closed is set; a command
\* does not test it again once it holds frameLock.
Entry(op) == IF closed THEN "idle" ELSE IF op \in Commands THEN "lock" ELSE "ready"

Begin(c) ==
    /\ pc[c] = "idle" /\ ~freed
    /\ \E op \in IF c \in Senders THEN Calls ELSE Commands :
          /\ call' = [call EXCEPT ![c] = op]
          /\ Goto(c, Entry(op))
    /\ UNCHANGED <<shared, mine, hpc>>

TestReady_Never(c) == Goto(c, "fill")

\* HELIOS_ERROR_DEVICE_FRAME_READY while the handler has a frame.
TestReady(c) == Goto(c, IF frameReady THEN "idle" ELSE "fill")

SendFrame(c) ==
    \/ /\ pc[c] = "ready"
       /\ TestReady(c)
       /\ UNCHANGED <<buffer, frameReady, pending, mine>>
    \/ /\ pc[c] = "fill"
       /\ buffer' = NoFrame
       /\ mine' = [mine EXCEPT ![c] = <<c, 1 - @[2]>>]
       /\ Goto(c, "filling")
       /\ UNCHANGED <<frameReady, pending>>
    \/ /\ pc[c] = "filling"
       /\ buffer' = mine[c]
       /\ Goto(c, IF call[c] = "frame" THEN "doFrame" ELSE "handOver")
       /\ UNCHANGED <<frameReady, pending, mine>>
    \/ /\ pc[c] = "handOver"
       /\ frameReady' = TRUE /\ pending' = mine[c]
       /\ Goto(c, "idle")
       /\ UNCHANGED <<buffer, mine>>

\* DoFrame() by the caller itself; the transfer reads the buffer all along.
DoFrame(c) ==
    \/ pc[c] = "doFrame" /\ Goto(c, IF closed THEN "idle" ELSE "transfer")
    \/ pc[c] = "transfer" /\ Goto(c, "idle")

FrameStep(c) ==
    /\ SendFrame(c) \/ (DoFrame(c) /\ UNCHANGED <<buffer, frameReady, pending, mine>>)
    /\ UNCHANGED <<closed, frameLock, freed, call, hpc>>

LockFrame_Free(c) == UNCHANGED frameLock

\* std::lock_guard: taken here, released when the call returns.
LockFrame(c) == frameLock = Nobody /\ frameLock' = c

Lock(c) ==
    /\ pc[c] = "lock" /\ ~freed
    /\ LockFrame(c)
    /\ Goto(c, "command")
    /\ UNCHANGED <<closed, frameReady, buffer, freed, pending, call, mine, hpc>>

Return(c) == Goto(c, "idle") /\ frameLock' = Nobody

\* Stop() sleeps 100 ms before it returns.
AfterStop(c) == Goto(c, "sleep") /\ UNCHANGED frameLock

\* SendControl() fails, or the call goes on to what it does after it; reading
\* the answer may fail too.
CommandStep(c) ==
    /\ \/ pc[c] \in {"command", "answer", "sleep"} /\ Return(c) /\ UNCHANGED closed
       \/ /\ pc[c] = "command" /\ call[c] = "status"
          /\ Goto(c, "answer")
          /\ UNCHANGED <<closed, frameLock>>
       \/ /\ pc[c] = "command" /\ call[c] = "stop"
          /\ AfterStop(c)
          /\ UNCHANGED closed
       \/ /\ pc[c] = "command" /\ call[c] = "erase"
          /\ closed' = TRUE
          /\ Return(c)
    /\ UNCHANGED <<frameReady, buffer, freed, pending, call, mine, hpc>>

\* The destructor: closed is set, then frameLock is waited for.  The application
\* destroys the object when no other call is under way.
Destructor(c) ==
    /\ c = Closer
    /\ \/ /\ pc[c] = "idle" /\ ~freed /\ \A d \in Clients : pc[d] = "idle"
          /\ closed' = TRUE
          /\ Goto(c, "destroy")
          /\ UNCHANGED freed
       \/ /\ pc[c] = "destroy" /\ frameLock = Nobody
          /\ freed' = TRUE
          /\ Goto(c, "gone")
          /\ UNCHANGED closed
    /\ UNCHANGED <<frameReady, buffer, frameLock, pending, call, mine, hpc>>

-----------------------------------------------------------------------------
(* The handler's thread *)

\* What a read of flag x returns: anything once the object is freed.
Read(x) == IF freed THEN BOOLEAN ELSE {x}

PollEnds_Never == FALSE

PollEnds == TRUE \in Read(closed)

AfterFrame_RetryForever == {"poll", "clear"}

\* The result of DoFrame() is dropped.
AfterFrame == {"clear"}

FrameHandler ==
    /\ \/ /\ hpc = "poll" /\ PollEnds
          /\ hpc' = "gone"
          /\ UNCHANGED frameReady
       \/ /\ hpc = "poll" /\ TRUE \in Read(frameReady) /\ FALSE \in Read(closed)
          /\ hpc' = "doFrame"
          /\ UNCHANGED frameReady
       \/ /\ hpc = "doFrame" /\ FALSE \in Read(closed)
          /\ hpc' = "transfer"
          /\ UNCHANGED frameReady
       \/ /\ hpc = "doFrame" /\ TRUE \in Read(closed)
          /\ hpc' \in {"gone", "clear"}
          /\ UNCHANGED frameReady
       \/ /\ hpc = "transfer"
          /\ hpc' \in AfterFrame
          /\ UNCHANGED frameReady
       \/ /\ hpc = "clear"
          /\ frameReady' = FALSE
          /\ hpc' = "poll"
    /\ UNCHANGED <<closed, buffer, frameLock, freed, pending, call, pc, mine>>

Next ==
    \/ \E c \in Clients :
          Begin(c) \/ FrameStep(c) \/ Lock(c) \/ CommandStep(c) \/ Destructor(c)
    \/ FrameHandler

Spec == Init /\ [][Next]_vars

-----------------------------------------------------------------------------
(* Properties *)

Inside == {"command", "answer", "sleep"}

FlagsOK == closed \in BOOLEAN /\ frameReady \in BOOLEAN /\ freed \in BOOLEAN

FramesOK ==
    /\ buffer \in Frames \cup {NoFrame} /\ pending \in Frames \cup {NoFrame}
    /\ mine \in [Clients -> Frames]

PlacesOK ==
    /\ call \in [Clients -> Calls]
    /\ pc \in [Clients -> Inside \cup {"idle", "ready", "fill", "filling", "handOver",
                                       "doFrame", "transfer", "lock", "destroy", "gone"}]
    /\ hpc \in {"poll", "doFrame", "transfer", "clear", "gone"}

\* frameLock names the one client that is inside.
LockOK ==
    /\ frameLock \in Clients \cup {Nobody}
    /\ \A c \in Clients : frameLock = c <=> pc[c] \in Inside

TypeOK == FlagsOK /\ FramesOK /\ PlacesOK /\ LockOK

\* For 100 ms after a stop the device gets no other command, and is not closed.
StopWindowQuiet ==
    \A c, d \in Clients :
        pc[c] = "sleep" => ~freed /\ (d # c => pc[d] \notin Inside)

\* What is on its way to the device is one whole frame, and the one meant.
FramesWhole ==
    /\ \A c \in Clients : pc[c] = "transfer" => buffer = mine[c]
    /\ hpc = "transfer" /\ ~freed => buffer = pending

\* The destructor waits until all threads have closed.
ThreadsClosedFirst == freed => hpc = "gone"

-----------------------------------------------------------------------------
(* Liveness *)

\* Threads run on, transfers end or time out, frameLock starves nobody.
Fairness ==
    /\ WF_vars(FrameHandler)
    /\ \A c \in Clients : /\ WF_vars(FrameStep(c)) /\ WF_vars(CommandStep(c))
                          /\ SF_vars(Lock(c))

FairSpec == Spec /\ Fairness

\* A frame handed over does not stay in the way of the next one.
FrameTaken == frameReady ~> ~frameReady \/ closed

\* The handler's thread ends once the device is closed, unless the object is freed
\* first: then there is no telling what the thread reads.
HandlerEnds == closed ~> hpc = "gone" \/ freed

\* A command that had tested closed before another thread erased the firmware may
\* still be sent; in the end no command is sent to a closed device.
ClosedDrains == closed ~> [](\A c \in Clients : pc[c] \notin Inside \cup {"lock"})
=============================================================================
