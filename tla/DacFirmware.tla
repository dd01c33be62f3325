---------------------------- MODULE DacFirmware ----------------------------
(***************************************************************************)
(* The playback core of the DAC firmware (main.c) on its one CPU:          *)
(*                                                                         *)
(*   U   the USB interrupt (UDP_Handler, NVIC priority 2): receives frames *)
(*       and commands, connects and disconnects;                           *)
(*   S   the SysTick interrupt (priority 1): outputs one point per tick;   *)
(*   T   the TC0 interrupt (priority 0): ends the 100 ms stop window.      *)
(*                                                                         *)
(* A higher priority preempts a lower one between any two instructions, so *)
(* U and S advance in the steps their program counters uPc and sPc name    *)
(* and T, which nothing preempts, is one step.  Statements are joined into *)
(* one step where no preemption between them can be told apart from one    *)
(* before or after them; cpu_irq_enter_critical() makes one step of the    *)
(* section it opens.  Points are counted in whole points, not in bytes.    *)
(***************************************************************************)
EXTENDS Integers

CONSTANTS
    MaxPoints,          \* MAXFRAMESIZE
    Frames,             \* the frames the host may send
    MixedFrames,        \* frames that mixed bytes filling the job may be taken for
    OverlapStops,       \* may the host stop or close within 100 ms of a stop?
    FramesDuringStop    \* may the host send frames within 100 ms of a stop?

\* A frame: its points, and bits 1 and 0 of its flags byte.
Frame == [n : 0 .. MaxPoints, once : BOOLEAN, now : BOOLEAN]

ASSUME MaxPointsAssumption == MaxPoints \in Nat \ {0}
ASSUME FramesAssumption == Frames \subseteq Frame
ASSUME MixedAssumption == MixedFrames \subseteq {f \in Frame : f.n = MaxPoints}
ASSUME HostAssumption == OverlapStops \in BOOLEAN /\ FramesDuringStop \in BOOLEAN

Buffers == {"A", "B"}

\* Bytes that are not one whole frame: uninitialised, being written, or the
\* head of an abandoned transfer followed by another one.
Torn == [n |-> -1, once |-> FALSE, now |-> FALSE]

\* A bulk job that has received nothing yet.
NoData == [n |-> -2, once |-> FALSE, now |-> FALSE]

VARIABLES
    \* the globals of main.c
    playing, stopFlag, connected, newFrameReady, notRepeat, newNotRepeat,
    frameAddress, newFrameAddress, framePos, frameSize, newFrameSize,
    content,            \* what each of the two buffers holds
    \* timers, the output, and the SLEEPMGR lock counts main.c holds
    sysTickOn, tickPending, tcRunning, lit, activeLocks, waitFastLocks,
    \* the endpoints: enabled; the bulk OUT job; is the command job armed;
    \* the answer waiting in the interrupt IN job
    epOn, bulkBusy, bulkBuf, bulkSize, bulkGot, intArmed, reply,
    \* the handlers in progress
    uPc, uTask, uNext, uLen, sPc

frameVars == <<frameAddress, newFrameAddress, frameSize, notRepeat>>
queueVars == <<newFrameSize, newNotRepeat>>
playVars  == <<playing, framePos, newFrameReady, frameVars, queueVars>>
stopVars  == <<stopFlag, tcRunning>>
tickVars  == <<sysTickOn, tickPending>>
bulkVars  == <<bulkBusy, bulkBuf, bulkSize, bulkGot>>
lockVars  == <<activeLocks, waitFastLocks>>
linkVars  == <<connected, epOn, intArmed, reply, lockVars>>
uVars     == <<uPc, uTask, uNext, uLen>>

vars == <<playVars, stopVars, tickVars, lit, content, bulkVars, linkVars, uVars, sPc>>

\* main() up to its idle loop; the host has not opened the interface.
Init ==
    /\ playing = FALSE /\ stopFlag = FALSE /\ connected = FALSE
    /\ newFrameReady = FALSE /\ notRepeat = TRUE /\ newNotRepeat = TRUE
    /\ frameAddress = "A" /\ newFrameAddress = "B"
    /\ framePos = 0 /\ frameSize = 0 /\ newFrameSize = 0
    /\ content = [b \in Buffers |-> Torn]
    /\ sysTickOn = FALSE /\ tickPending = FALSE /\ tcRunning = FALSE /\ lit = FALSE
    /\ activeLocks = 0 /\ waitFastLocks = 1
    /\ epOn = FALSE
    /\ bulkBusy = FALSE /\ bulkBuf = "B" /\ bulkSize = 0 /\ bulkGot = NoData
    /\ intArmed = FALSE /\ reply = "none"
    /\ uPc = "idle" /\ uTask = "stop" /\ uNext = 0 /\ uLen = 0
    /\ sPc = "idle"

-----------------------------------------------------------------------------
(* What the handlers share *)

(***************************************************************************)
(* An operator named X_<what is wrong> is X with a mistake its code could  *)
(* have.  None is part of the specification: the properties are shown to   *)
(* fail when one of them replaces X.                                       *)
(***************************************************************************)

\* The argument of udd_ep_run in update_status().
ArmedBuffer_BeforeSwap == newFrameAddress

ArmedBuffer == newFrameAddress'

\* udd_ep_run on the bulk OUT endpoint: refused when the endpoint is disabled
\* or a job is going on; the test and set of busy is masked.
ArmBulk ==
    IF epOn /\ ~bulkBusy
    THEN /\ bulkBusy' = TRUE
         /\ bulkBuf'  = ArmedBuffer
         /\ bulkSize' = MaxPoints
         /\ bulkGot'  = NoData
    ELSE UNCHANGED bulkVars

update_status ==
    /\ newFrameReady' = FALSE
    /\ ArmBulk

\* The last write of stop_weak() to the colour DAC.
BlankOutput_Missing == UNCHANGED lit

BlankOutput == lit' = FALSE

\* The part of stop_weak() after SysTick->CTRL is cleared.
StopPlayback ==
    /\ UNCHANGED <<frameVars, queueVars>>
    /\ playing' = FALSE
    /\ framePos' = 0
    /\ update_status
    /\ BlankOutput

stop_weak ==
    /\ sysTickOn' = FALSE
    /\ StopPlayback

\* speed_set() and SysTick_Config(): the rate itself is left out.
speed_set_NoClock == UNCHANGED sysTickOn

speed_set == sysTickOn' = (connected \/ sysTickOn)

\* The 100 ms timer of the delayed stop.
tc_start_Missing == UNCHANGED tcRunning

tc_start == tcRunning' = TRUE

tc_stop == tcRunning' = FALSE

\* The end of usb_interrupt_out_callback, and of callback_vendor_enable.
ListenAgain == intArmed' = TRUE

\* udd_ep_run on interrupt IN: an answer is dropped while one is unread.
Answer(r) == reply' = IF reply = "none" THEN r ELSE reply

-----------------------------------------------------------------------------
(* S: SysTick_Handler *)

\* A tick.  One already pending when SysTick is switched off is still taken.
TickEntry ==
    /\ sPc = "idle" /\ (sysTickOn \/ tickPending)
    /\ tickPending' = FALSE
    /\ sPc' = IF playing THEN "flags" ELSE "idle"
    /\ UNCHANGED <<playVars, stopVars, sysTickOn, lit, content, bulkVars, linkVars, uVars>>

TickFlags ==
    /\ sPc = "flags"
    /\ sPc' = IF ~stopFlag /\ connected THEN "position" ELSE "idle"
    /\ UNCHANGED <<playVars, stopVars, tickVars, lit, content, bulkVars, linkVars, uVars>>

AtFrameEnd_OffByOne == framePos > frameSize

AtFrameEnd_CutsFrame == newFrameReady \/ framePos >= frameSize

AtFrameEnd == framePos >= frameSize

TickPosition ==
    /\ sPc = "position"
    /\ sPc' = IF AtFrameEnd THEN "frameEnd" ELSE "output"
    /\ UNCHANGED <<playVars, stopVars, tickVars, lit, content, bulkVars, linkVars, uVars>>

\* The frame has ended and another is pending ...
FindNewFrame ==
    /\ sPc = "frameEnd" /\ newFrameReady
    /\ sPc' = "swap"
    /\ UNCHANGED <<playVars, stopVars, tickVars, lit, content, bulkVars, linkVars, uVars>>

\* ... switch buffers, also if TC0 has dropped it since.
SwapFrame ==
    /\ sPc = "swap"
    /\ frameAddress' = newFrameAddress
    /\ newFrameAddress' = frameAddress
    /\ framePos' = 0
    /\ frameSize' = newFrameSize
    /\ notRepeat' = newNotRepeat
    /\ sPc' = "swapOutput"
    /\ UNCHANGED <<playing, newFrameReady, queueVars, stopVars, tickVars, lit, content,
                   bulkVars, linkVars, uVars>>

MayLoop_EvenIfQueued == ~notRepeat

MayLoop == ~newFrameReady /\ ~notRepeat

LoopFrame ==
    /\ sPc = "frameEnd" /\ MayLoop
    /\ framePos' = 0
    /\ sPc' = "output"
    /\ UNCHANGED <<playing, newFrameReady, frameVars, queueVars, stopVars, tickVars, lit,
                   content, bulkVars, linkVars, uVars>>

\* A frame played once ends: stop_weak() and one more update_status().
EndOfSingleFrame ==
    \/ /\ sPc = "frameEnd" /\ ~newFrameReady /\ notRepeat
       /\ sPc' = "stopWeak"
       /\ UNCHANGED <<playVars, stopVars, tickVars, lit, content, bulkVars, linkVars, uVars>>
    \/ /\ sPc = "stopWeak"
       /\ stop_weak
       /\ sPc' = "idle"
       /\ UNCHANGED <<stopVars, tickPending, content, linkVars, uVars>>

\* point_output() and the step to the next point.
TickOutput ==
    /\ sPc \in {"output", "swapOutput"}
    /\ lit' = TRUE
    /\ framePos' = framePos + 1
    /\ sPc' = IF sPc = "output" THEN "idle" ELSE "speed"
    /\ UNCHANGED <<playing, newFrameReady, frameVars, queueVars, stopVars, tickVars, content,
                   bulkVars, linkVars, uVars>>

\* speed_set() after a swap.  SysTick_Config() first gives SysTick the lowest
\* priority, also while its handler runs: until NVIC_SetPriority() raises it
\* again a USB interrupt that had not begun may run inside the handler, before
\* SysTick is switched on ("lowered") or after ("loweredOn").
TickSpeed ==
    /\ \/ /\ sPc = "speed" /\ uPc = "idle"
          /\ sPc' = "lowered" /\ UNCHANGED sysTickOn
       \/ /\ sPc = "speed" /\ uPc # "idle"
          /\ sPc' = "update" /\ speed_set
       \/ /\ sPc = "lowered" /\ uPc = "idle"
          /\ sPc' = "loweredOn" /\ sysTickOn' = TRUE
       \/ /\ sPc = "loweredOn" /\ uPc = "idle"
          /\ sPc' = "update" /\ UNCHANGED sysTickOn
    /\ UNCHANGED <<playVars, stopVars, tickPending, lit, content, bulkVars, linkVars, uVars>>

TickUpdate ==
    /\ sPc = "update"
    /\ sPc' = "idle"
    /\ UNCHANGED <<playing, framePos, frameVars, queueVars, stopVars, tickVars, lit, content,
                   linkVars, uVars>>
    /\ update_status

SysTickStep ==
    \/ TickFlags \/ TickPosition
    \/ FindNewFrame \/ SwapFrame \/ LoopFrame \/ EndOfSingleFrame
    \/ TickOutput \/ TickSpeed \/ TickUpdate

-----------------------------------------------------------------------------
(* T: TC0_Handler, the end of the delayed stop *)

TC0_Handler ==
    /\ tcRunning
    /\ tc_stop
    /\ stop_weak
    /\ stopFlag' = FALSE       \* and update_status() again: the job is armed
    /\ UNCHANGED <<tickPending, content, linkVars, uVars, sPc>>

-----------------------------------------------------------------------------
(* U: the USB interrupt *)

\* U runs only when no handler of a higher priority does.
UdpRuns == sPc \in {"lowered", "loweredOn"} \/ (sPc = "idle" /\ ~tickPending)

UdpIdle == uPc = "idle" /\ UdpRuns

\* May the host begin something that calls stop()?
MayStop == OverlapStops \/ ~tcRunning

\* udd_ep_out_received: the first packets of frame f.  If an earlier transfer
\* was given up half way its bytes are still at the head of the job.
RxPackets(f) ==
    /\ UdpIdle /\ epOn /\ bulkBusy
    /\ FramesDuringStop \/ ~stopFlag
    /\ bulkGot' = IF bulkGot = NoData THEN f ELSE Torn
    /\ content' = [content EXCEPT ![bulkBuf] = Torn]
    /\ UNCHANGED <<playVars, stopVars, tickVars, lit, bulkBusy, bulkBuf, bulkSize, linkVars,
                   uVars, sPc>>

\* As what a complete job may read: mixed bytes as a frame only if they fill it
\* (FrameFormat).  What is left of the transfer then heads the next job.
Completed == IF bulkGot = Torn THEN {Torn} \cup MixedFrames ELSE {bulkGot}

\* ... and the last one, which is short or fills the job: the job gets the received
\* length and, in udd_ep_finish_job, stops being busy before the callback is called.
RxLastPacket ==
    /\ UdpIdle /\ epOn /\ bulkBusy /\ bulkGot # NoData
    /\ FramesDuringStop \/ ~stopFlag
    /\ \E c \in Completed :
          /\ content' = [content EXCEPT ![bulkBuf] = c]
          /\ bulkSize' = c.n
    /\ bulkGot' = NoData
    /\ bulkBusy' = FALSE
    /\ uPc' = "call"
    /\ UNCHANGED <<playVars, stopVars, tickVars, lit, bulkBuf, linkVars, uTask, uNext, uLen,
                   sPc>>

\* The length argument is read from the job, which may have been armed again.
CallBulkCallback ==
    /\ uPc = "call" /\ UdpRuns
    /\ uLen' = bulkSize
    /\ uPc' = "callback"
    /\ UNCHANGED <<playVars, stopVars, tickVars, lit, content, bulkVars, linkVars, uTask, uNext,
                   sPc>>

\* As which frames the callback may read newFrameAddress, given the length it
\* was passed; Torn when the two sizes disagree.  Bytes of another length are
\* whatever the buffer held before.
Readings ==
    LET c == content[newFrameAddress] IN
    IF c.n = uLen THEN {c} ELSE {Torn} \cup {f \in Frame : uLen \in {f.n, -1}}

StartFrame(f) ==
    /\ frameAddress' = newFrameAddress
    /\ newFrameAddress' = frameAddress
    /\ framePos' = 0
    /\ frameSize' = f.n
    /\ playing' = TRUE
    /\ notRepeat' = f.once
    /\ speed_set
    /\ update_status
    /\ UNCHANGED newFrameSize

QueueFrame(f) ==
    /\ newFrameSize' = f.n
    /\ newFrameReady' = TRUE
    /\ UNCHANGED <<playing, framePos, frameVars, sysTickOn, bulkVars>>

Refused == ~connected \/ stopFlag

\* usb_bulk_out_callback: the job is armed again only if the frame starts.
usb_bulk_out_callback ==
    /\ uPc = "callback" /\ UdpRuns
    /\ \E f \in Readings :
          \/ /\ Refused \/ f = Torn
             /\ UNCHANGED <<playVars, sysTickOn, bulkVars>>
          \/ /\ ~Refused /\ f # Torn
             /\ newNotRepeat' = f.once
             /\ IF ~playing \/ f.now THEN StartFrame(f) ELSE QueueFrame(f)
    /\ uPc' = "idle" /\ uLen' = 0
    /\ UNCHANGED <<stopVars, tickPending, lit, content, linkVars, uTask, uNext, sPc>>

\* usb_interrupt_out_callback is called for a command ...
Command == UdpIdle /\ connected /\ epOn /\ intArmed

PollArms_Always == ArmBulk

PollArms_Never == UNCHANGED bulkVars

PollArms == IF newFrameReady THEN UNCHANGED bulkVars ELSE ArmBulk

\* ... 0x03: report, and arm the bulk job in case it was left idle;
CmdStatus ==
    /\ Command
    /\ UNCHANGED <<playVars, stopVars, tickVars, lit, content, connected, epOn, intArmed,
                   lockVars, uVars, sPc>>
    /\ PollArms
    /\ Answer(IF newFrameReady THEN "full" ELSE "ready")

\* ... 0x04 and 0x05, which only answer;
CmdQuery ==
    /\ Command
    /\ Answer("data")
    /\ UNCHANGED <<playVars, stopVars, tickVars, lit, content, bulkVars, connected, epOn,
                   intArmed, lockVars, uVars, sPc>>

\* ... 0x01: stop(), and at its end (Finish) the command job is armed again;
CmdStop ==
    /\ Command /\ MayStop
    /\ stopFlag' = TRUE
    /\ intArmed' = FALSE
    /\ uPc' = "clockOff" /\ uTask' = "stop"
    /\ UNCHANGED <<playVars, tcRunning, tickVars, lit, content, bulkVars, connected, epOn, reply,
                   lockVars, uNext, uLen, sPc>>

\* ... 0xDE: stop_weak(), then wait for the watchdog.
CmdErase ==
    /\ Command
    /\ intArmed' = FALSE
    /\ uPc' = "clockOff" /\ uTask' = "erase"
    /\ UNCHANGED <<playVars, stopVars, tickVars, lit, content, bulkVars, connected, epOn, reply,
                   lockVars, uNext, uLen, sPc>>

\* The host reads the answer from interrupt IN.
HostReadsReply ==
    /\ UdpIdle /\ reply # "none"
    /\ reply' = "none"
    /\ UNCHANGED <<playVars, stopVars, tickVars, lit, content, bulkVars, connected, epOn,
                   intArmed, lockVars, uVars, sPc>>

MustClose_OnlyToClose(alt) == connected /\ alt = 0

MustClose(alt) == connected

\* SET_INTERFACE: the host opens (alt 1) or closes (alt 0) the interface.  An
\* open one is closed first: udc_iface_disable frees its endpoints, aborting
\* their jobs.  A USB reset closes it in the same way (udc_reset).
SetInterface(alt) ==
    /\ UdpIdle
    /\ \/ /\ MustClose(alt) /\ MayStop
          /\ uPc' = "freed" /\ uNext' = alt
          /\ epOn' = FALSE /\ bulkBusy' = FALSE /\ bulkGot' = NoData
          /\ intArmed' = FALSE /\ reply' = "none"
       \/ /\ ~MustClose(alt) /\ alt = 1
          /\ uPc' = "alloc"
          /\ UNCHANGED <<uNext, epOn, bulkBusy, bulkGot, intArmed, reply>>
    /\ UNCHANGED <<playVars, stopVars, tickVars, lit, content, bulkBuf, bulkSize, connected,
                   lockVars, uTask, uLen, sPc>>

callback_vendor_disable ==
    /\ uPc = "freed" /\ UdpRuns
    /\ connected' = FALSE
    /\ stopFlag' = TRUE
    /\ uPc' = "clockOff" /\ uTask' = "disable"
    /\ UNCHANGED <<playVars, tcRunning, tickVars, lit, content, bulkVars, epOn, intArmed, reply,
                   lockVars, uNext, uLen, sPc>>

\* udc_iface_enable enables the endpoints, then calls the application.
callback_vendor_enable ==
    /\ uPc = "alloc" /\ UdpRuns
    /\ epOn' = TRUE
    /\ connected' = TRUE
    /\ uPc' = "clockOff" /\ uTask' = "enable" /\ uNext' = 0
    /\ UNCHANGED <<playVars, stopVars, tickVars, lit, content, bulkVars, intArmed, reply,
                   lockVars, uLen, sPc>>

\* stop_weak() as U runs it: SysTick is switched off, perhaps with a tick
\* already pending, and that tick is taken before playing is cleared.
ClockOff ==
    /\ uPc = "clockOff" /\ UdpRuns
    /\ sysTickOn' = FALSE
    /\ tickPending' \in {tickPending, sysTickOn \/ tickPending}
    /\ uPc' = "blank"
    /\ UNCHANGED <<playVars, stopVars, lit, content, bulkVars, linkVars, uTask, uNext, uLen, sPc>>

Blank ==
    /\ uPc = "blank" /\ UdpRuns
    /\ StopPlayback
    /\ uPc' = "finish"
    /\ UNCHANGED <<stopVars, tickVars, content, linkVars, uTask, uNext, uLen, sPc>>

\* What follows stop_weak() in the handler that called it.
FinishStop ==
    /\ uTask = "stop"
    /\ tc_start
    /\ ListenAgain
    /\ uPc' = "idle"
    /\ UNCHANGED <<bulkVars, lockVars, uNext>>

FinishDisable ==
    /\ uTask = "disable"
    /\ tc_start
    /\ activeLocks' = activeLocks - 1
    /\ waitFastLocks' = waitFastLocks + 1
    /\ uPc' = IF uNext = 1 THEN "alloc" ELSE "idle"
    /\ UNCHANGED <<bulkVars, intArmed, uNext>>

FinishEnable ==
    /\ uTask = "enable"
    /\ activeLocks' = activeLocks + 1
    /\ waitFastLocks' = waitFastLocks - 1
    /\ ListenAgain
    /\ ArmBulk
    /\ uPc' = "idle"
    /\ UNCHANGED <<tcRunning, uNext>>

FinishErase ==
    /\ uTask = "erase"
    /\ uPc' = "hang"
    /\ UNCHANGED <<tcRunning, bulkVars, intArmed, lockVars, uNext>>

Finish ==
    /\ uPc = "finish" /\ UdpRuns
    /\ UNCHANGED <<playVars, stopFlag, tickVars, lit, content, connected, epOn, reply, uTask,
                   uLen, sPc>>
    /\ FinishStop \/ FinishDisable \/ FinishEnable \/ FinishErase

\* The idle loop no longer restarts the watchdog: 500 ms later it resets the
\* MCU, which boots the ROM loader because the GPNVM bit is cleared.
WatchdogReset ==
    /\ uPc = "hang"
    /\ uPc' = "bootloader" /\ sPc' = "idle"
    /\ sysTickOn' = FALSE /\ tickPending' = FALSE /\ tcRunning' = FALSE /\ stopFlag' = FALSE
    /\ playing' = FALSE /\ newFrameReady' = FALSE
    /\ epOn' = FALSE /\ bulkBusy' = FALSE /\ intArmed' = FALSE
    /\ UNCHANGED <<framePos, frameVars, queueVars, lit, content, bulkBuf, bulkSize, bulkGot,
                   connected, reply, lockVars, uTask, uNext, uLen>>

InBootloader ==
    /\ uPc = "bootloader"
    /\ UNCHANGED vars

\* The steps of a USB interrupt already begun.
UdpStep ==
    \/ CallBulkCallback \/ usb_bulk_out_callback
    \/ callback_vendor_disable \/ callback_vendor_enable
    \/ ClockOff \/ Blank \/ Finish

\* What the host makes happen.
HostStep ==
    \/ \E f \in Frames : RxPackets(f)
    \/ RxLastPacket
    \/ CmdStatus \/ CmdQuery \/ CmdStop \/ CmdErase \/ HostReadsReply
    \/ \E alt \in {0, 1} : SetInterface(alt)

Next ==
    \/ TickEntry \/ SysTickStep
    \/ TC0_Handler
    \/ UdpStep \/ HostStep
    \/ WatchdogReset \/ InBootloader

Spec == Init /\ [][Next]_vars

-----------------------------------------------------------------------------
(* Properties *)

FlagsOK ==
    /\ playing \in BOOLEAN /\ stopFlag \in BOOLEAN /\ connected \in BOOLEAN
    /\ newFrameReady \in BOOLEAN /\ notRepeat \in BOOLEAN /\ newNotRepeat \in BOOLEAN
    /\ sysTickOn \in BOOLEAN /\ tickPending \in BOOLEAN /\ tcRunning \in BOOLEAN
    /\ lit \in BOOLEAN /\ epOn \in BOOLEAN /\ bulkBusy \in BOOLEAN /\ intArmed \in BOOLEAN

PointsOK ==
    /\ framePos \in 0 .. MaxPoints /\ frameSize \in 0 .. MaxPoints
    /\ newFrameSize \in 0 .. MaxPoints
    /\ bulkSize \in -1 .. MaxPoints /\ uLen \in -1 .. MaxPoints

BuffersOK ==
    /\ frameAddress \in Buffers /\ newFrameAddress \in Buffers /\ bulkBuf \in Buffers
    /\ content \in [Buffers -> Frame \cup {Torn}]
    /\ bulkGot \in Frame \cup {Torn, NoData}

ControlOK ==
    /\ activeLocks \in {0, 1} /\ waitFastLocks \in {0, 1}
    /\ reply \in {"none", "ready", "full", "data"}
    /\ uPc \in {"idle", "call", "callback", "freed", "alloc", "clockOff", "blank", "finish",
                "hang", "bootloader"}
    /\ uTask \in {"stop", "disable", "enable", "erase"}
    /\ uNext \in {0, 1}
    /\ sPc \in {"idle", "flags", "position", "frameEnd", "swap", "output", "swapOutput",
                "stopWeak", "speed", "lowered", "loweredOn", "update"}

TypeOK == FlagsOK /\ PointsOK /\ BuffersOK /\ ControlOK

\* A frame that waits to be played is never overwritten: no transfer is going
\* on or being completed, and playback is on so that it will be taken.
ReadyFrameIsSafe ==
    newFrameReady => playing /\ ~bulkBusy /\ uPc \notin {"call", "callback"}

\* The device is never locked out for good: while stopFlag refuses frames the
\* timer that clears it runs, or the handler about to start it is under way.
StopFlagHasTimer ==
    stopFlag => \/ tcRunning
                \/ uTask \in {"stop", "disable"} /\ uPc \in {"clockOff", "blank", "finish"}

\* Playback never freezes on a point: while playing is set SysTick is on, except
\* inside stop_weak() just before playing is cleared.
PlayingHasClock == playing => sysTickOn \/ uPc = "blank"

\* A closed interface means a dark laser, an idle bulk endpoint and no playback,
\* whatever handler the close interrupted.
DarkWhenClosed ==
    ~connected /\ uPc \in {"idle", "alloc", "finish"} => ~playing /\ ~lit /\ ~bulkBusy

\* sleepmgr_unlock_mode() of a mode that is not locked never returns: enable and
\* disable always alternate, and when U is done the lock held tells the state.
SleepLocksMatch ==
    /\ activeLocks + waitFastLocks = 1
    /\ uPc = "idle" => (connected <=> activeLocks = 1)

\* Whatever command was handled, an open device that is not resetting itself
\* listens for the next one, and has an enabled bulk endpoint.
CommandsHeard == connected /\ uPc = "idle" => intArmed /\ epOn

\* No playback starts inside the stop window.
NoStartWhileStopped == [][~playing /\ playing' => ~stopFlag]_vars

\* A frame in play is replaced at its end, unless U delivers an immediate one.
ReplacedAtFrameEnd ==
    [][frameAddress' # frameAddress /\ playing => framePos >= frameSize \/ uPc = "callback"]_vars

\* The timer of the stop window runs only while the window refuses frames.
TimerMeansStopped == tcRunning => stopFlag

\* The laser emits only while frames are playing.
NoFrozenBeam == lit => playing

\* The bulk transfer fills the buffer that is not being played.
ReceivesBehindPlayback == bulkBusy /\ playing => bulkBuf # frameAddress

-----------------------------------------------------------------------------
(* Liveness *)

\* A begun interrupt goes on although ticks and TC0 preempt it again and again
\* (their handlers are shorter than a tick); ticks come while SysTick is on; a
\* running TC0 expires; a host in use polls the status again and again.
Fairness ==
    /\ SF_vars(UdpStep)
    /\ SF_vars(SysTickStep)
    /\ SF_vars(TickEntry)
    /\ WF_vars(TC0_Handler)
    /\ WF_vars(WatchdogReset)

PollFairness == SF_vars(CmdStatus)

\* The stop window ends.
StopWindowEnds == stopFlag ~> ~stopFlag

\* A queued frame is taken up: swapped in, or dropped by a stop.
QueuedFrameTaken == newFrameReady ~> ~newFrameReady

\* A device whose host polls gets ready for a frame again, also after it left a
\* frame it refused without arming the endpoint.
EndpointRearmed ==
    connected ~> bulkBusy \/ ~connected \/ uPc \in {"hang", "bootloader"}
=============================================================================
