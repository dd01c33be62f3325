-------------------------- MODULE DacStream_proofs --------------------------
(***************************************************************************)
(* Proof that the firmware implements FrameStream for a careful host.      *)
(* CInv strengthens the invariants of DacFirmware_proofs by what each      *)
(* buffer holds and who may write it.                                      *)
(*                                                                         *)
(* For each action A of DacFirmware, AKeeps says that it preserves CInv    *)
(* and AMaps which step of the frame player it is, if any.                 *)
(***************************************************************************)
EXTENDS DacStream, DacFirmware_proofs

Completing == uPc \in {"call", "callback"}

\* Buffers hold whole frames or Torn bytes, and the job fills the one not in play.
BuffersInv ==
    /\ frameAddress # newFrameAddress
    /\ bulkBusy => bulkBuf = newFrameAddress
    /\ content \in [Buffers -> Playable \cup {Torn}]
    /\ bulkGot \in Frames \cup {Torn, NoData}

\* What is played is a frame, and framePos a place in it.
PlayInv ==
    /\ playing => /\ content[frameAddress] \in Playable
                  /\ content[frameAddress].n = frameSize
                  /\ ~notRepeat
                  /\ framePos <= frameSize
    /\ sPc = "output" => framePos < frameSize
    /\ sPc \in {"frameEnd", "swap"} => framePos = frameSize
    /\ sPc # "stopWeak"
    /\ sPc = "speed" => playing

\* What is queued is a frame, until the swap.
QueueInv ==
    /\ newFrameReady => ~newNotRepeat
    /\ newFrameReady /\ ~swapped => /\ content[newFrameAddress] \in Playable
                                    /\ content[newFrameAddress].n = newFrameSize
    /\ sPc \in {"swap", "swapOutput", "speed"} => newFrameReady

\* A transfer being completed keeps its buffer and its length.
DeliverInv ==
    /\ Completing => /\ connected /\ ~stopFlag /\ ~bulkBusy
                     /\ bulkBuf = newFrameAddress
                     /\ ~swapped
    /\ uPc = "call" => bulkSize = content[newFrameAddress].n
    /\ uPc = "callback" => uLen = content[newFrameAddress].n

\* While a swap is held up its frame keeps the endpoint shut, or a stop does.
HeldInv == TickHeldUp => newFrameReady \/ stopped

\* What uTask tells of the handler under way.
TaskInv ==
    /\ uTask = "erase" => uPc \in {"clockOff", "blank", "finish", "hang", "bootloader"}
    /\ uPc \in {"hang", "bootloader"} => uTask = "erase"
    /\ Stopping /\ uTask = "enable" => ~playing

CInv == BuffersInv /\ PlayInv /\ QueueInv /\ DeliverInv /\ HeldInv /\ TaskInv

\* All that is known of a state a careful host can bring about.
All == Careful /\ IInv /\ SpacedInv /\ CInv

USE DEF Stopping, Completing, TickHeldUp, swapped, stopped,
        frameVars, queueVars, playVars, stopVars, tickVars, bulkVars, lockVars,
        linkVars, uVars, ArmedBuffer, BlankOutput, tc_start, tc_stop, ListenAgain, AtFrameEnd,
        MayLoop, Refused, PollArms, MustClose, MayStop

\* A frame is neither of the two values that stand for something else.
LEMMA FramesAreFrames == \A f \in Playable : f # NoData /\ f # Torn /\ f.n \in 0 .. MaxPoints
BY FramesAssumption, MixedAssumption, MaxPointsAssumption DEF Playable, Frame, NoData, Torn

-----------------------------------------------------------------------------
(* S: SysTick_Handler *)

LEMMA TickEntryKeeps == ASSUME All, TickEntry PROVE CInv'
BY DEF All, CInv, BuffersInv, PlayInv, QueueInv, DeliverInv, HeldInv, TaskInv, TickEntry

LEMMA TickEntryMaps == ASSUME All, TickEntry PROVE UNCHANGED Stream!vars
BY DEF TickEntry, incoming, current, pos, queued, Stream!vars

LEMMA TickFlagsKeeps == ASSUME All, TickFlags PROVE CInv'
BY DEF All, CInv, BuffersInv, PlayInv, QueueInv, DeliverInv, HeldInv, TaskInv, TickFlags

LEMMA TickFlagsMaps == ASSUME All, TickFlags PROVE UNCHANGED Stream!vars
BY DEF TickFlags, incoming, current, pos, queued, Stream!vars

LEMMA TickPositionKeeps == ASSUME All, TickPosition PROVE CInv'
BY DEF All, CInv, BuffersInv, PlayInv, QueueInv, DeliverInv, HeldInv, TaskInv,
   SpacedInv, IInv, TypeOK, PointsOK, TickPosition

LEMMA TickPositionMaps == ASSUME All, TickPosition PROVE UNCHANGED Stream!vars
BY DEF TickPosition, incoming, current, pos, queued, Stream!vars

LEMMA FindNewFrameKeeps == ASSUME All, FindNewFrame PROVE CInv'
BY DEF All, CInv, BuffersInv, PlayInv, QueueInv, DeliverInv, HeldInv, TaskInv, FindNewFrame

LEMMA FindNewFrameMaps == ASSUME All, FindNewFrame PROVE UNCHANGED Stream!vars
BY DEF FindNewFrame, incoming, current, pos, queued, Stream!vars

LEMMA SwapFrameKeeps == ASSUME All, SwapFrame PROVE CInv'
BY DEF All, CInv, BuffersInv, PlayInv, QueueInv, DeliverInv, HeldInv, TaskInv, IInv,
   ReadyFrameIsSafe, TypeOK, PointsOK, SwapFrame

LEMMA SwapFrameMaps == ASSUME All, SwapFrame PROVE Stream!Advance
BY FramesAreFrames DEF All, CInv, PlayInv, QueueInv, IInv, ReadyFrameIsSafe, SwapFrame,
   incoming, current, pos, queued, Stream!Advance, Stream!AtEnd

LEMMA LoopFrameKeeps == ASSUME All, LoopFrame PROVE CInv'
BY DEF All, Careful, CInv, BuffersInv, PlayInv, QueueInv, DeliverInv, HeldInv, TaskInv,
   SpacedInv, IInv, TypeOK, PointsOK, LoopFrame

LEMMA LoopFrameMaps == ASSUME All, LoopFrame PROVE Stream!Repeat
BY FramesAreFrames DEF All, Careful, CInv, PlayInv, SpacedInv, LoopFrame, incoming,
   current, pos, queued, Stream!Repeat, Stream!AtEnd

LEMMA EndOfSingleFrameKeeps == ASSUME All, EndOfSingleFrame PROVE CInv'
BY DEF All, CInv, PlayInv, TaskInv, SpacedInv, EndOfSingleFrame

LEMMA EndOfSingleFrameMaps == ASSUME All, EndOfSingleFrame PROVE UNCHANGED Stream!vars
BY DEF All, CInv, PlayInv, EndOfSingleFrame, incoming, current, pos, queued, Stream!vars

LEMMA TickOutputKeeps == ASSUME All, TickOutput PROVE CInv'
BY DEF All, Careful, CInv, BuffersInv, PlayInv, QueueInv, DeliverInv, HeldInv, TaskInv,
   IInv, ReadyFrameIsSafe, PointInv, TypeOK, PointsOK, TickOutput

LEMMA TickOutputMaps == ASSUME All, TickOutput PROVE Stream!Point
BY FramesAreFrames DEF All, Careful, CInv, PlayInv, SpacedInv, IInv, PointInv,
   TickOutput, incoming, current, pos, queued, Stream!Point

LEMMA TickSpeedKeeps == ASSUME All, TickSpeed PROVE CInv'
BY DEF All, CInv, BuffersInv, PlayInv, QueueInv, DeliverInv, HeldInv, TaskInv, TickSpeed

LEMMA TickSpeedMaps == ASSUME All, TickSpeed PROVE UNCHANGED Stream!vars
BY DEF TickSpeed, incoming, current, pos, queued, Stream!vars

LEMMA TickUpdateKeeps == ASSUME All, TickUpdate PROVE CInv'
BY DEF All, CInv, BuffersInv, PlayInv, QueueInv, DeliverInv, HeldInv, TaskInv,
   TickUpdate, update_status, ArmBulk

LEMMA TickUpdateMaps == ASSUME All, TickUpdate PROVE UNCHANGED Stream!vars
BY DEF All, TaskInv, IInv, TransferInv, TickUpdate, update_status, incoming, current,
   pos, queued, Stream!vars

-----------------------------------------------------------------------------
(* T: TC0_Handler, which does not preempt a tick held up *)

LEMMA TC0_HandlerKeeps == ASSUME All, TC0_Handler, ~TickHeldUp PROVE CInv'
BY DEF All, CInv, BuffersInv, PlayInv, QueueInv, DeliverInv, HeldInv, TaskInv,
   SpacedInv, TC0_Handler, stop_weak, StopPlayback, update_status, ArmBulk

LEMMA TC0_HandlerMaps ==
    ASSUME All, TC0_Handler, ~TickHeldUp PROVE Stream!EndStop \/ UNCHANGED Stream!vars
BY DEF All, CInv, DeliverInv, SpacedInv, IInv, ReadyFrameIsSafe, TC0_Handler, stop_weak,
   StopPlayback, update_status, incoming, current, pos, queued, Stream!EndStop,
   Stream!vars

-----------------------------------------------------------------------------
(* U: the USB interrupt, and the watchdog *)

LEMMA RxPacketsKeeps == ASSUME All, NEW f \in Frames, RxPackets(f) PROVE CInv'
BY DEF All, CInv, BuffersInv, PlayInv, QueueInv, DeliverInv, HeldInv, TaskInv, IInv,
   ReadyFrameIsSafe, TypeOK, BuffersOK, RxPackets

LEMMA RxPacketsMaps ==
    ASSUME All, NEW f \in Frames, RxPackets(f) PROVE UNCHANGED Stream!vars
BY DEF All, CInv, BuffersInv, IInv, ReadyFrameIsSafe, RxPackets, UdpIdle, incoming,
   current, pos, queued, Stream!vars

\* Only mixed bytes that pass for a frame are completed as one nobody sent.
LEMMA CompletedPlayable ==
    ASSUME BuffersInv, bulkGot # NoData PROVE Completed \subseteq Playable \cup {Torn}
BY DEF BuffersInv, Completed, Playable

LEMMA RxLastPacketKeeps == ASSUME All, RxLastPacket PROVE CInv'
BY CompletedPlayable DEF All, Careful, CInv, BuffersInv, PlayInv, QueueInv, DeliverInv, HeldInv, TaskInv,
   IInv, ReadyFrameIsSafe, LinkInv, TypeOK, BuffersOK, RxLastPacket, UdpIdle, UdpRuns

LEMMA RxLastPacketMaps == ASSUME All, RxLastPacket PROVE Stream!Deliver
BY CompletedPlayable DEF All, Careful, CInv, BuffersInv, TaskInv, IInv, ReadyFrameIsSafe, TypeOK,
   BuffersOK, RxLastPacket, UdpIdle, incoming, current, pos, queued, Stream!Deliver

LEMMA CallBulkCallbackKeeps == ASSUME All, CallBulkCallback PROVE CInv'
BY DEF All, CInv, BuffersInv, PlayInv, QueueInv, DeliverInv, HeldInv, TaskInv,
   CallBulkCallback

LEMMA CallBulkCallbackMaps == ASSUME All, CallBulkCallback PROVE UNCHANGED Stream!vars
BY DEF CallBulkCallback, incoming, current, pos, queued, Stream!vars

LEMMA usb_bulk_out_callbackKeeps == ASSUME All, usb_bulk_out_callback PROVE CInv'
BY DEF All, Careful, CInv, BuffersInv, PlayInv, QueueInv, DeliverInv, HeldInv, TaskInv,
   IInv, TypeOK, PointsOK, BuffersOK, usb_bulk_out_callback, Readings, StartFrame,
   QueueFrame, update_status, ArmBulk, UdpRuns

LEMMA usb_bulk_out_callbackMaps ==
    ASSUME All, usb_bulk_out_callback PROVE Stream!Start \/ Stream!Queue \/ Stream!Refuse
BY FramesAreFrames DEF All, CInv, BuffersInv, PlayInv, DeliverInv, TaskInv, IInv,
   ReadyFrameIsSafe, TypeOK, BuffersOK, usb_bulk_out_callback, Readings, StartFrame,
   QueueFrame, update_status, incoming, current, pos, queued, Stream!Start,
   Stream!Queue, Stream!Refuse

LEMMA CmdStatusKeeps == ASSUME All, CmdStatus PROVE CInv'
BY DEF All, CInv, BuffersInv, PlayInv, QueueInv, DeliverInv, HeldInv, TaskInv,
   CmdStatus, Command, UdpIdle, ArmBulk

LEMMA CmdStatusMaps == ASSUME All, CmdStatus PROVE UNCHANGED Stream!vars
BY DEF CmdStatus, Command, UdpIdle, incoming, current, pos, queued, Stream!vars

LEMMA CmdQueryKeeps == ASSUME All, CmdQuery PROVE CInv'
BY DEF All, CInv, BuffersInv, PlayInv, QueueInv, DeliverInv, HeldInv, TaskInv, CmdQuery

LEMMA CmdQueryMaps == ASSUME All, CmdQuery PROVE UNCHANGED Stream!vars
BY DEF CmdQuery, incoming, current, pos, queued, Stream!vars

LEMMA CmdStopKeeps == ASSUME All, CmdStop PROVE CInv'
BY DEF All, CInv, BuffersInv, PlayInv, QueueInv, DeliverInv, HeldInv, TaskInv, CmdStop

LEMMA CmdStopMaps == ASSUME All, CmdStop PROVE Stream!BeginStop
BY DEF CmdStop, Command, UdpIdle, incoming, current, pos, queued, Stream!BeginStop

LEMMA CmdEraseKeeps == ASSUME All, CmdErase PROVE CInv'
BY DEF All, CInv, BuffersInv, PlayInv, QueueInv, DeliverInv, HeldInv, TaskInv, CmdErase

LEMMA CmdEraseMaps == ASSUME All, CmdErase PROVE Stream!BeginStop
BY DEF CmdErase, Command, UdpIdle, incoming, current, pos, queued, Stream!BeginStop

LEMMA HostReadsReplyKeeps == ASSUME All, HostReadsReply PROVE CInv'
BY DEF All, CInv, BuffersInv, PlayInv, QueueInv, DeliverInv, HeldInv, TaskInv,
   HostReadsReply

LEMMA HostReadsReplyMaps == ASSUME All, HostReadsReply PROVE UNCHANGED Stream!vars
BY DEF HostReadsReply, incoming, current, pos, queued, Stream!vars

LEMMA SetInterfaceKeeps == ASSUME All, NEW alt \in {0, 1}, SetInterface(alt) PROVE CInv'
BY DEF All, CInv, BuffersInv, PlayInv, QueueInv, DeliverInv, HeldInv, TaskInv,
   SetInterface, UdpIdle

LEMMA SetInterfaceMaps ==
    ASSUME All, NEW alt \in {0, 1}, SetInterface(alt) PROVE UNCHANGED Stream!vars
BY DEF All, CInv, TaskInv, SetInterface, UdpIdle, incoming, current, pos, queued,
   Stream!vars

LEMMA callback_vendor_disableKeeps == ASSUME All, callback_vendor_disable PROVE CInv'
BY DEF All, CInv, BuffersInv, PlayInv, QueueInv, DeliverInv, HeldInv, TaskInv,
   callback_vendor_disable

LEMMA callback_vendor_disableMaps ==
    ASSUME All, callback_vendor_disable PROVE Stream!BeginStop
BY DEF callback_vendor_disable, incoming, current, pos, queued, Stream!BeginStop

LEMMA callback_vendor_enableKeeps == ASSUME All, callback_vendor_enable PROVE CInv'
BY DEF All, CInv, BuffersInv, PlayInv, QueueInv, DeliverInv, HeldInv, TaskInv, IInv,
   LinkInv, DarkInv, callback_vendor_enable

LEMMA callback_vendor_enableMaps ==
    ASSUME All, callback_vendor_enable PROVE UNCHANGED Stream!vars
BY DEF All, CInv, TaskInv, callback_vendor_enable, incoming, current, pos, queued,
   Stream!vars

LEMMA ClockOffKeeps == ASSUME All, ClockOff PROVE CInv'
BY DEF All, CInv, BuffersInv, PlayInv, QueueInv, DeliverInv, HeldInv, TaskInv, ClockOff

LEMMA ClockOffMaps == ASSUME All, ClockOff PROVE UNCHANGED Stream!vars
BY DEF ClockOff, incoming, current, pos, queued, Stream!vars

LEMMA BlankKeeps == ASSUME All, Blank PROVE CInv'
BY DEF All, CInv, BuffersInv, PlayInv, QueueInv, DeliverInv, HeldInv, TaskInv,
   SpacedInv, IInv, ReadyFrameIsSafe, TypeOK, ControlOK, Blank, StopPlayback,
   update_status, ArmBulk, UdpRuns

LEMMA BlankMaps == ASSUME All, Blank PROVE Stream!Halt \/ UNCHANGED Stream!vars
BY DEF All, CInv, TaskInv, SpacedInv, IInv, ReadyFrameIsSafe, TypeOK, ControlOK, Blank,
   StopPlayback, update_status, incoming, current, pos, queued, Stream!Halt, Stream!vars

LEMMA FinishKeeps == ASSUME All, Finish PROVE CInv'
BY DEF All, CInv, BuffersInv, PlayInv, QueueInv, DeliverInv, HeldInv, TaskInv, Finish,
   FinishStop, FinishDisable, FinishEnable, FinishErase, ArmBulk

LEMMA FinishMaps == ASSUME All, Finish PROVE UNCHANGED Stream!vars
BY DEF Finish, FinishStop, FinishDisable, FinishEnable, FinishErase, incoming, current,
   pos, queued, Stream!vars

LEMMA WatchdogResetKeeps == ASSUME All, WatchdogReset PROVE CInv'
BY DEF All, CInv, BuffersInv, PlayInv, QueueInv, DeliverInv, HeldInv, TaskInv,
   WatchdogReset

LEMMA WatchdogResetMaps == ASSUME All, WatchdogReset PROVE UNCHANGED Stream!vars
BY DEF All, CInv, TaskInv, IInv, ReadyFrameIsSafe, BlankInv, WatchdogReset, incoming,
   current, pos, queued, Stream!vars

-----------------------------------------------------------------------------
(* The theorems *)

\* What DacFirmware_proofs shows of Next, and of spaced stops, holds here.
LEMMA CarefulIsNext == [CarefulNext]_vars => [Next]_vars
BY DEF CarefulNext

LEMMA CarefulSpaces == Careful => OverlapStops = FALSE
BY HostAssumption DEF Careful

\* The initial states satisfy the invariant.
LEMMA CInvInit == Careful /\ Init => CInv
BY DEF Init, CInv, BuffersInv, PlayInv, QueueInv, DeliverInv, HeldInv, TaskInv, Buffers

\* The initial states are those of the frame player.
LEMMA InitMaps == Init => Stream!Init
BY DEF Init, Stream!Init, incoming, current, pos, queued

\* Every step preserves the invariant ...
LEMMA CInvNext == All /\ [CarefulNext]_vars => CInv'
<1> SUFFICES ASSUME All, [CarefulNext]_vars PROVE CInv'
  OBVIOUS
<1>1. CASE TickEntry BY <1>1, TickEntryKeeps
<1>2. CASE SysTickStep BY <1>2, TickFlagsKeeps, TickPositionKeeps, FindNewFrameKeeps,
     SwapFrameKeeps, LoopFrameKeeps, EndOfSingleFrameKeeps, TickOutputKeeps, TickSpeedKeeps, TickUpdateKeeps
     DEF SysTickStep
<1>3. CASE TC0_Handler /\ ~TickHeldUp BY <1>3, TC0_HandlerKeeps
<1>4. CASE UdpStep BY <1>4, CallBulkCallbackKeeps, usb_bulk_out_callbackKeeps,
     callback_vendor_disableKeeps, callback_vendor_enableKeeps, ClockOffKeeps, BlankKeeps,
     FinishKeeps DEF UdpStep
<1>5. CASE HostStep BY <1>5, RxPacketsKeeps, RxLastPacketKeeps, CmdStatusKeeps,
     CmdQueryKeeps, CmdStopKeeps, CmdEraseKeeps, HostReadsReplyKeeps, SetInterfaceKeeps
     DEF HostStep
<1>6. CASE WatchdogReset BY <1>6, WatchdogResetKeeps
<1>7. CASE UNCHANGED vars BY <1>7 DEF vars, All, CInv, BuffersInv, PlayInv, QueueInv,
     DeliverInv, HeldInv, TaskInv
<1> QED BY <1>1, <1>2, <1>3, <1>4, <1>5, <1>6, <1>7 DEF CarefulNext, Next, InBootloader

\* ... and is a step of the frame player, or none.
LEMMA NextMaps == All /\ [CarefulNext]_vars => [Stream!Next]_(Stream!vars)
<1> SUFFICES ASSUME All, [CarefulNext]_vars PROVE Stream!Next \/ UNCHANGED Stream!vars
  OBVIOUS
<1>1. CASE TickEntry BY <1>1, TickEntryMaps
<1>2. CASE SysTickStep BY <1>2, TickFlagsMaps, TickPositionMaps, FindNewFrameMaps,
     SwapFrameMaps, LoopFrameMaps, EndOfSingleFrameMaps, TickOutputMaps, TickSpeedMaps, TickUpdateMaps
     DEF SysTickStep, Stream!Next
<1>3. CASE TC0_Handler /\ ~TickHeldUp BY <1>3, TC0_HandlerMaps DEF Stream!Next
<1>4. CASE UdpStep BY <1>4, CallBulkCallbackMaps, usb_bulk_out_callbackMaps,
     callback_vendor_disableMaps, callback_vendor_enableMaps, ClockOffMaps, BlankMaps,
     FinishMaps DEF UdpStep, Stream!Next
<1>5. CASE HostStep BY <1>5, RxPacketsMaps, RxLastPacketMaps, CmdStatusMaps, CmdQueryMaps,
     CmdStopMaps, CmdEraseMaps, HostReadsReplyMaps, SetInterfaceMaps
     DEF HostStep, Stream!Next
<1>6. CASE WatchdogReset BY <1>6, WatchdogResetMaps
<1>7. CASE UNCHANGED vars BY <1>7 DEF vars, Stream!vars, incoming, current, pos, queued
<1> QED BY <1>1, <1>2, <1>3, <1>4, <1>5, <1>6, <1>7 DEF CarefulNext, Next, InBootloader

\* What a careful host sees never leaves the invariant.
LEMMA CarefulInvariance == ASSUME Careful PROVE CarefulSpec => []All
<1>1. Init => All BY InitInv, SpacedInit, CInvInit DEF All
<1>2. All /\ [CarefulNext]_vars => All'
  <2> SUFFICES ASSUME All, [CarefulNext]_vars PROVE All'
    OBVIOUS
  <2>1. CInv' BY CInvNext
  <2>2. IInv' BY CarefulIsNext, NextInv DEF All
  <2>3. SpacedInv' BY CarefulIsNext, CarefulSpaces, SpacedNext DEF All
  <2> QED BY <2>1, <2>2, <2>3 DEF All, Careful
<1> QED BY <1>1, <1>2, PTL DEF CarefulSpec

\* For a careful host the firmware plays the frames it accepts, whole, in order
\* and from buffers nothing overwrites: it implements FrameStream.
THEOREM FirmwareIsStream == ASSUME Careful PROVE CarefulSpec => ImplementsStream
BY InitMaps, NextMaps, CarefulInvariance, PTL DEF CarefulSpec, ImplementsStream, Stream!Spec

\* ... and no transfer writes the buffer in play.
THEOREM TransfersBehindPlayback ==
    ASSUME Careful PROVE CarefulSpec => []ReceivesBehindPlayback
<1>1. All => ReceivesBehindPlayback
  BY DEF All, CInv, BuffersInv, ReceivesBehindPlayback
<1> QED BY <1>1, CarefulInvariance, PTL
=============================================================================
