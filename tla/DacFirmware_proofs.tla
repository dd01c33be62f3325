------------------------ MODULE DacFirmware_proofs ------------------------
(***************************************************************************)
(* Proofs about DacFirmware, for every MaxPoints, every set of frames and  *)
(* every host.  IInv is the inductive invariant; each of its conjuncts is  *)
(* there because a step of some handler needs it.                          *)
(***************************************************************************)
EXTENDS DacFirmware, TLAPS

\* U is inside stop_weak(), or in what its caller does next.
Stopping == uPc \in {"clockOff", "blank", "finish"}

\* The point output next lies in the buffer, and a swap follows a frame's end.
PointInv ==
    /\ sPc = "output" => framePos < MaxPoints
    /\ sPc = "swapOutput" => framePos = 0
    /\ sPc = "frameEnd" /\ newFrameReady => framePos >= frameSize
    /\ sPc = "swap" /\ playing => framePos >= frameSize

\* What each stage of opening and closing the interface has done so far.
LinkInv ==
    /\ uPc = "freed" => connected /\ ~epOn
    /\ uPc = "alloc" => ~connected
    /\ uPc \in {"hang", "bootloader"} => connected
    /\ Stopping => (connected <=> uTask # "disable")
    /\ ~connected => ~epOn
    /\ ~epOn => ~bulkBusy
    /\ connected /\ uPc \notin {"freed", "bootloader"} => epOn
    /\ connected /\ uPc \in {"idle", "call", "callback"} => intArmed

\* disable and enable alternate, so each finds the lock it releases.
LockInv ==
    /\ activeLocks + waitFastLocks = 1
    /\ activeLocks = 1 <=> \/ uPc = "freed"
                           \/ Stopping /\ uTask = "disable"
                           \/ connected /\ ~(Stopping /\ uTask = "enable")

\* While a transfer is completed S swaps nothing, and arms the endpoint again
\* only by stopping playback.
TransferInv ==
    uPc \in {"call", "callback"} => /\ sPc \notin {"swap", "swapOutput", "speed", "update"}
                                    /\ playing => ~bulkBusy

BlankInv == uPc \in {"finish", "hang"} => ~playing

\* With the interface closed S outputs nothing.
DarkInv ==
    ~connected => /\ sPc \in {"idle", "flags", "lowered", "loweredOn", "update"}
                  /\ uPc \notin {"clockOff", "blank"} => ~playing /\ ~lit

IInv ==
    /\ TypeOK /\ PointInv /\ LinkInv /\ LockInv /\ TransferInv /\ BlankInv /\ DarkInv
    /\ ReadyFrameIsSafe /\ StopFlagHasTimer /\ PlayingHasClock

USE DEF Stopping, frameVars, queueVars, playVars, stopVars, tickVars, bulkVars, lockVars,
        linkVars, uVars, ArmedBuffer, BlankOutput, tc_start, tc_stop, ListenAgain, AtFrameEnd,
        MayLoop, Refused, PollArms, MustClose

\* The number of points of what a buffer can hold.
LEMMA FramePoints == \A f \in Frame \cup {Torn} : f.n \in -1 .. MaxPoints
BY MaxPointsAssumption DEF Frame, Torn

\* The attributes of a frame.
LEMMA FrameFields ==
    \A f \in Frame : f.n \in 0 .. MaxPoints /\ f.once \in BOOLEAN /\ f.now \in BOOLEAN
BY DEF Frame

\* The initial state satisfies the invariant.
LEMMA InitInv == Init => IInv
<1> SUFFICES ASSUME Init PROVE IInv
  OBVIOUS
<1> USE DEF Init
<1>1. TypeOK
  <2>1. FlagsOK BY DEF FlagsOK
  <2>2. PointsOK BY MaxPointsAssumption DEF PointsOK
  <2>3. BuffersOK BY DEF BuffersOK, Buffers
  <2>4. ControlOK BY DEF ControlOK
  <2> QED BY <2>1, <2>2, <2>3, <2>4 DEF TypeOK
<1>2. PointInv /\ LinkInv /\ LockInv BY DEF PointInv, LinkInv, LockInv
<1>3. TransferInv /\ BlankInv /\ DarkInv BY DEF TransferInv, BlankInv, DarkInv
<1>4. ReadyFrameIsSafe /\ StopFlagHasTimer /\ PlayingHasClock
  BY DEF ReadyFrameIsSafe, StopFlagHasTimer, PlayingHasClock
<1> QED BY <1>1, <1>2, <1>3, <1>4 DEF IInv

-----------------------------------------------------------------------------
(* S *)

LEMMA TickEntryStep == ASSUME IInv, TickEntry PROVE IInv'
<1> USE DEF TickEntry
<1>1. FlagsOK' BY DEF IInv, TypeOK, FlagsOK
<1>2. PointsOK' BY MaxPointsAssumption DEF IInv, TypeOK, PointsOK
<1>3. BuffersOK' BY DEF IInv, TypeOK, BuffersOK
<1>4. ControlOK' BY DEF IInv, TypeOK, ControlOK
<1>5. PointInv' BY DEF IInv, TypeOK, PointsOK, PointInv
<1>6. LinkInv' BY DEF IInv, TypeOK, LinkInv
<1>7. LockInv' BY DEF IInv, TypeOK, ControlOK, LockInv
<1>8. TransferInv' BY DEF IInv, TypeOK, TransferInv
<1>9. BlankInv' BY DEF IInv, TypeOK, BlankInv
<1>10. DarkInv' BY DEF IInv, TypeOK, DarkInv
<1>11. ReadyFrameIsSafe' BY DEF IInv, TypeOK, ReadyFrameIsSafe
<1>12. StopFlagHasTimer' BY DEF IInv, TypeOK, StopFlagHasTimer
<1>13. PlayingHasClock' BY DEF IInv, TypeOK, PlayingHasClock
<1> QED
  BY <1>1, <1>2, <1>3, <1>4, <1>5, <1>6, <1>7, <1>8, <1>9, <1>10, <1>11, <1>12, <1>13
  DEF IInv, TypeOK

LEMMA TickFlagsStep == ASSUME IInv, TickFlags PROVE IInv'
<1> USE DEF TickFlags
<1>1. FlagsOK' BY DEF IInv, TypeOK, FlagsOK
<1>2. PointsOK' BY MaxPointsAssumption DEF IInv, TypeOK, PointsOK
<1>3. BuffersOK' BY DEF IInv, TypeOK, BuffersOK
<1>4. ControlOK' BY DEF IInv, TypeOK, ControlOK
<1>5. PointInv' BY DEF IInv, TypeOK, PointsOK, PointInv
<1>6. LinkInv' BY DEF IInv, TypeOK, LinkInv
<1>7. LockInv' BY DEF IInv, TypeOK, ControlOK, LockInv
<1>8. TransferInv' BY DEF IInv, TypeOK, TransferInv
<1>9. BlankInv' BY DEF IInv, TypeOK, BlankInv
<1>10. DarkInv' BY DEF IInv, TypeOK, DarkInv
<1>11. ReadyFrameIsSafe' BY DEF IInv, TypeOK, ReadyFrameIsSafe
<1>12. StopFlagHasTimer' BY DEF IInv, TypeOK, StopFlagHasTimer
<1>13. PlayingHasClock' BY DEF IInv, TypeOK, PlayingHasClock
<1> QED
  BY <1>1, <1>2, <1>3, <1>4, <1>5, <1>6, <1>7, <1>8, <1>9, <1>10, <1>11, <1>12, <1>13
  DEF IInv, TypeOK

LEMMA TickPositionStep == ASSUME IInv, TickPosition PROVE IInv'
<1> USE DEF TickPosition
<1>1. FlagsOK' BY DEF IInv, TypeOK, FlagsOK
<1>2. PointsOK' BY MaxPointsAssumption DEF IInv, TypeOK, PointsOK
<1>3. BuffersOK' BY DEF IInv, TypeOK, BuffersOK
<1>4. ControlOK' BY DEF IInv, TypeOK, ControlOK
<1>5. PointInv' BY MaxPointsAssumption DEF IInv, TypeOK, PointsOK, PointInv
<1>6. LinkInv' BY DEF IInv, TypeOK, LinkInv
<1>7. LockInv' BY DEF IInv, TypeOK, ControlOK, LockInv
<1>8. TransferInv' BY DEF IInv, TypeOK, TransferInv
<1>9. BlankInv' BY DEF IInv, TypeOK, BlankInv
<1>10. DarkInv' BY DEF IInv, TypeOK, DarkInv
<1>11. ReadyFrameIsSafe' BY DEF IInv, TypeOK, ReadyFrameIsSafe
<1>12. StopFlagHasTimer' BY DEF IInv, TypeOK, StopFlagHasTimer
<1>13. PlayingHasClock' BY DEF IInv, TypeOK, PlayingHasClock
<1> QED
  BY <1>1, <1>2, <1>3, <1>4, <1>5, <1>6, <1>7, <1>8, <1>9, <1>10, <1>11, <1>12, <1>13
  DEF IInv, TypeOK

LEMMA FindNewFrameStep == ASSUME IInv, FindNewFrame PROVE IInv'
<1> USE DEF FindNewFrame
<1>1. FlagsOK' BY DEF IInv, TypeOK, FlagsOK
<1>2. PointsOK' BY MaxPointsAssumption DEF IInv, TypeOK, PointsOK
<1>3. BuffersOK' BY DEF IInv, TypeOK, BuffersOK
<1>4. ControlOK' BY DEF IInv, TypeOK, ControlOK
<1>5. PointInv' BY DEF IInv, TypeOK, PointsOK, PointInv
<1>6. LinkInv' BY DEF IInv, TypeOK, LinkInv
<1>7. LockInv' BY DEF IInv, TypeOK, ControlOK, LockInv
<1>8. TransferInv' BY DEF IInv, TypeOK, TransferInv, ReadyFrameIsSafe
<1>9. BlankInv' BY DEF IInv, TypeOK, BlankInv
<1>10. DarkInv' BY DEF IInv, TypeOK, DarkInv
<1>11. ReadyFrameIsSafe' BY DEF IInv, TypeOK, ReadyFrameIsSafe
<1>12. StopFlagHasTimer' BY DEF IInv, TypeOK, StopFlagHasTimer
<1>13. PlayingHasClock' BY DEF IInv, TypeOK, PlayingHasClock
<1> QED
  BY <1>1, <1>2, <1>3, <1>4, <1>5, <1>6, <1>7, <1>8, <1>9, <1>10, <1>11, <1>12, <1>13
  DEF IInv, TypeOK

LEMMA SwapFrameStep == ASSUME IInv, SwapFrame PROVE IInv'
<1> USE DEF SwapFrame
<1>1. FlagsOK' BY DEF IInv, TypeOK, FlagsOK
<1>2. PointsOK' BY MaxPointsAssumption DEF IInv, TypeOK, PointsOK
<1>3. BuffersOK' BY DEF IInv, TypeOK, BuffersOK
<1>4. ControlOK' BY DEF IInv, TypeOK, ControlOK
<1>5. PointInv' BY DEF IInv, TypeOK, PointsOK, PointInv
<1>6. LinkInv' BY DEF IInv, TypeOK, LinkInv
<1>7. LockInv' BY DEF IInv, TypeOK, ControlOK, LockInv
<1>8. TransferInv' BY DEF IInv, TypeOK, TransferInv, ReadyFrameIsSafe
<1>9. BlankInv' BY DEF IInv, TypeOK, BlankInv
<1>10. DarkInv' BY DEF IInv, TypeOK, DarkInv
<1>11. ReadyFrameIsSafe' BY DEF IInv, TypeOK, ReadyFrameIsSafe
<1>12. StopFlagHasTimer' BY DEF IInv, TypeOK, StopFlagHasTimer
<1>13. PlayingHasClock' BY DEF IInv, TypeOK, PlayingHasClock
<1> QED
  BY <1>1, <1>2, <1>3, <1>4, <1>5, <1>6, <1>7, <1>8, <1>9, <1>10, <1>11, <1>12, <1>13
  DEF IInv, TypeOK

LEMMA LoopFrameStep == ASSUME IInv, LoopFrame PROVE IInv'
<1> USE DEF LoopFrame
<1>1. FlagsOK' BY DEF IInv, TypeOK, FlagsOK
<1>2. PointsOK' BY MaxPointsAssumption DEF IInv, TypeOK, PointsOK
<1>3. BuffersOK' BY DEF IInv, TypeOK, BuffersOK
<1>4. ControlOK' BY DEF IInv, TypeOK, ControlOK
<1>5. PointInv' BY MaxPointsAssumption DEF IInv, TypeOK, PointsOK, PointInv
<1>6. LinkInv' BY DEF IInv, TypeOK, LinkInv
<1>7. LockInv' BY DEF IInv, TypeOK, ControlOK, LockInv
<1>8. TransferInv' BY DEF IInv, TypeOK, TransferInv
<1>9. BlankInv' BY DEF IInv, TypeOK, BlankInv
<1>10. DarkInv' BY DEF IInv, TypeOK, DarkInv
<1>11. ReadyFrameIsSafe' BY DEF IInv, TypeOK, ReadyFrameIsSafe
<1>12. StopFlagHasTimer' BY DEF IInv, TypeOK, StopFlagHasTimer
<1>13. PlayingHasClock' BY DEF IInv, TypeOK, PlayingHasClock
<1> QED
  BY <1>1, <1>2, <1>3, <1>4, <1>5, <1>6, <1>7, <1>8, <1>9, <1>10, <1>11, <1>12, <1>13
  DEF IInv, TypeOK

LEMMA EndOfSingleFrameStep == ASSUME IInv, EndOfSingleFrame PROVE IInv'
<1> USE DEF EndOfSingleFrame, stop_weak, StopPlayback, update_status, ArmBulk
<1>1. FlagsOK'
  <2>1. CASE sPc = "frameEnd" BY <2>1 DEF IInv, TypeOK, FlagsOK
  <2>2. CASE sPc = "stopWeak" BY <2>2 DEF IInv, TypeOK, FlagsOK
  <2> QED BY <2>1, <2>2
<1>2. PointsOK' BY MaxPointsAssumption DEF IInv, TypeOK, PointsOK
<1>3. BuffersOK' BY DEF IInv, TypeOK, BuffersOK
<1>4. ControlOK' BY DEF IInv, TypeOK, ControlOK
<1>5. PointInv' BY DEF IInv, TypeOK, PointsOK, PointInv
<1>6. LinkInv' BY DEF IInv, TypeOK, LinkInv
<1>7. LockInv' BY DEF IInv, TypeOK, ControlOK, LockInv
<1>8. TransferInv' BY DEF IInv, TypeOK, TransferInv
<1>9. BlankInv' BY DEF IInv, TypeOK, BlankInv
<1>10. DarkInv' BY DEF IInv, TypeOK, DarkInv
<1>11. ReadyFrameIsSafe' BY DEF IInv, TypeOK, ReadyFrameIsSafe
<1>12. StopFlagHasTimer' BY DEF IInv, TypeOK, StopFlagHasTimer
<1>13. PlayingHasClock' BY DEF IInv, TypeOK, PlayingHasClock
<1> QED
  BY <1>1, <1>2, <1>3, <1>4, <1>5, <1>6, <1>7, <1>8, <1>9, <1>10, <1>11, <1>12, <1>13
  DEF IInv, TypeOK

LEMMA TickOutputStep == ASSUME IInv, TickOutput PROVE IInv'
<1> USE DEF TickOutput
<1>1. FlagsOK' BY DEF IInv, TypeOK, FlagsOK
<1>2. PointsOK' BY MaxPointsAssumption DEF IInv, TypeOK, PointsOK, PointInv
<1>3. BuffersOK' BY DEF IInv, TypeOK, BuffersOK
<1>4. ControlOK' BY DEF IInv, TypeOK, ControlOK
<1>5. PointInv' BY DEF IInv, TypeOK, PointsOK, PointInv
<1>6. LinkInv' BY DEF IInv, TypeOK, LinkInv
<1>7. LockInv' BY DEF IInv, TypeOK, ControlOK, LockInv
<1>8. TransferInv' BY DEF IInv, TypeOK, TransferInv
<1>9. BlankInv' BY DEF IInv, TypeOK, BlankInv
<1>10. DarkInv' BY DEF IInv, TypeOK, DarkInv
<1>11. ReadyFrameIsSafe' BY DEF IInv, TypeOK, ReadyFrameIsSafe
<1>12. StopFlagHasTimer' BY DEF IInv, TypeOK, StopFlagHasTimer
<1>13. PlayingHasClock' BY DEF IInv, TypeOK, PlayingHasClock
<1> QED
  BY <1>1, <1>2, <1>3, <1>4, <1>5, <1>6, <1>7, <1>8, <1>9, <1>10, <1>11, <1>12, <1>13
  DEF IInv, TypeOK

LEMMA TickSpeedStep == ASSUME IInv, TickSpeed PROVE IInv'
<1> USE DEF TickSpeed, speed_set
<1>1. FlagsOK'
  <2>1. sysTickOn' \in BOOLEAN BY DEF IInv, TypeOK, FlagsOK
  <2> QED BY <2>1 DEF IInv, TypeOK, FlagsOK
<1>2. PointsOK' BY MaxPointsAssumption DEF IInv, TypeOK, PointsOK
<1>3. BuffersOK' BY DEF IInv, TypeOK, BuffersOK
<1>4. ControlOK' BY DEF IInv, TypeOK, ControlOK
<1>5. PointInv' BY DEF IInv, TypeOK, PointsOK, PointInv
<1>6. LinkInv' BY DEF IInv, TypeOK, LinkInv
<1>7. LockInv' BY DEF IInv, TypeOK, ControlOK, LockInv
<1>8. TransferInv' BY DEF IInv, TypeOK, TransferInv
<1>9. BlankInv' BY DEF IInv, TypeOK, BlankInv
<1>10. DarkInv' BY DEF IInv, TypeOK, DarkInv
<1>11. ReadyFrameIsSafe' BY DEF IInv, TypeOK, ReadyFrameIsSafe
<1>12. StopFlagHasTimer' BY DEF IInv, TypeOK, StopFlagHasTimer
<1>13. PlayingHasClock' BY DEF IInv, TypeOK, PlayingHasClock
<1> QED
  BY <1>1, <1>2, <1>3, <1>4, <1>5, <1>6, <1>7, <1>8, <1>9, <1>10, <1>11, <1>12, <1>13
  DEF IInv, TypeOK

LEMMA TickUpdateStep == ASSUME IInv, TickUpdate PROVE IInv'
<1> USE DEF TickUpdate, update_status, ArmBulk
<1>1. FlagsOK' BY DEF IInv, TypeOK, FlagsOK
<1>2. PointsOK' BY MaxPointsAssumption DEF IInv, TypeOK, PointsOK
<1>3. BuffersOK' BY DEF IInv, TypeOK, BuffersOK
<1>4. ControlOK' BY DEF IInv, TypeOK, ControlOK
<1>5. PointInv' BY DEF IInv, TypeOK, PointsOK, PointInv
<1>6. LinkInv' BY DEF IInv, TypeOK, LinkInv
<1>7. LockInv' BY DEF IInv, TypeOK, ControlOK, LockInv
<1>8. TransferInv' BY DEF IInv, TypeOK, TransferInv
<1>9. BlankInv' BY DEF IInv, TypeOK, BlankInv
<1>10. DarkInv' BY DEF IInv, TypeOK, DarkInv
<1>11. ReadyFrameIsSafe' BY DEF IInv, TypeOK, ReadyFrameIsSafe
<1>12. StopFlagHasTimer' BY DEF IInv, TypeOK, StopFlagHasTimer
<1>13. PlayingHasClock' BY DEF IInv, TypeOK, PlayingHasClock
<1> QED
  BY <1>1, <1>2, <1>3, <1>4, <1>5, <1>6, <1>7, <1>8, <1>9, <1>10, <1>11, <1>12, <1>13
  DEF IInv, TypeOK

-----------------------------------------------------------------------------
(* T *)

LEMMA TC0_HandlerStep == ASSUME IInv, TC0_Handler PROVE IInv'
<1> USE DEF TC0_Handler, stop_weak, StopPlayback, update_status, ArmBulk
<1>1. FlagsOK' BY DEF IInv, TypeOK, FlagsOK
<1>2. PointsOK' BY MaxPointsAssumption DEF IInv, TypeOK, PointsOK
<1>3. BuffersOK' BY DEF IInv, TypeOK, BuffersOK
<1>4. ControlOK' BY DEF IInv, TypeOK, ControlOK
<1>5. PointInv' BY MaxPointsAssumption DEF IInv, TypeOK, PointsOK, PointInv
<1>6. LinkInv' BY DEF IInv, TypeOK, LinkInv
<1>7. LockInv' BY DEF IInv, TypeOK, ControlOK, LockInv
<1>8. TransferInv' BY DEF IInv, TypeOK, TransferInv
<1>9. BlankInv' BY DEF IInv, TypeOK, BlankInv
<1>10. DarkInv' BY DEF IInv, TypeOK, DarkInv
<1>11. ReadyFrameIsSafe' BY DEF IInv, TypeOK, ReadyFrameIsSafe
<1>12. StopFlagHasTimer' BY DEF IInv, TypeOK, StopFlagHasTimer
<1>13. PlayingHasClock' BY DEF IInv, TypeOK, PlayingHasClock
<1> QED
  BY <1>1, <1>2, <1>3, <1>4, <1>5, <1>6, <1>7, <1>8, <1>9, <1>10, <1>11, <1>12, <1>13
  DEF IInv, TypeOK

-----------------------------------------------------------------------------
(* U *)

\* A complete job is read as one frame, or as none.
LEMMA CompletedFrames ==
    ASSUME IInv, bulkGot # NoData
    PROVE  \A c \in Completed : c \in Frame \cup {Torn} /\ c.n \in -1 .. MaxPoints
BY MixedAssumption, FramePoints DEF Completed, IInv, TypeOK, BuffersOK

LEMMA RxPacketsStep == ASSUME IInv, NEW f \in Frames, RxPackets(f) PROVE IInv'
<1> USE DEF RxPackets, UdpIdle, UdpRuns
<1>1. FlagsOK' BY DEF IInv, TypeOK, FlagsOK
<1>2. PointsOK' BY MaxPointsAssumption DEF IInv, TypeOK, PointsOK
<1>3. BuffersOK' BY FramesAssumption DEF IInv, TypeOK, BuffersOK
<1>4. ControlOK' BY DEF IInv, TypeOK, ControlOK
<1>5. PointInv' BY DEF IInv, TypeOK, PointsOK, PointInv
<1>6. LinkInv' BY DEF IInv, TypeOK, LinkInv
<1>7. LockInv' BY DEF IInv, TypeOK, ControlOK, LockInv
<1>8. TransferInv' BY DEF IInv, TypeOK, TransferInv
<1>9. BlankInv' BY DEF IInv, TypeOK, BlankInv
<1>10. DarkInv' BY DEF IInv, TypeOK, DarkInv
<1>11. ReadyFrameIsSafe' BY DEF IInv, TypeOK, ReadyFrameIsSafe
<1>12. StopFlagHasTimer' BY DEF IInv, TypeOK, StopFlagHasTimer
<1>13. PlayingHasClock' BY DEF IInv, TypeOK, PlayingHasClock
<1> QED
  BY <1>1, <1>2, <1>3, <1>4, <1>5, <1>6, <1>7, <1>8, <1>9, <1>10, <1>11, <1>12, <1>13
  DEF IInv, TypeOK

LEMMA RxLastPacketStep == ASSUME IInv, RxLastPacket PROVE IInv'
<1> USE DEF RxLastPacket, UdpIdle, UdpRuns
<1>1. FlagsOK' BY DEF IInv, TypeOK, FlagsOK
<1>2. PointsOK' BY CompletedFrames, MaxPointsAssumption DEF IInv, TypeOK, PointsOK
<1>3. BuffersOK' BY CompletedFrames DEF IInv, TypeOK, BuffersOK
<1>4. ControlOK' BY DEF IInv, TypeOK, ControlOK
<1>5. PointInv' BY DEF IInv, TypeOK, PointsOK, PointInv
<1>6. LinkInv' BY DEF IInv, TypeOK, LinkInv
<1>7. LockInv' BY DEF IInv, TypeOK, ControlOK, LockInv
<1>8. TransferInv' BY DEF IInv, TypeOK, TransferInv
<1>9. BlankInv' BY DEF IInv, TypeOK, BlankInv
<1>10. DarkInv' BY DEF IInv, TypeOK, DarkInv
<1>11. ReadyFrameIsSafe' BY DEF IInv, TypeOK, ReadyFrameIsSafe
<1>12. StopFlagHasTimer' BY DEF IInv, TypeOK, StopFlagHasTimer
<1>13. PlayingHasClock' BY DEF IInv, TypeOK, PlayingHasClock
<1> QED
  BY <1>1, <1>2, <1>3, <1>4, <1>5, <1>6, <1>7, <1>8, <1>9, <1>10, <1>11, <1>12, <1>13
  DEF IInv, TypeOK

LEMMA CallBulkCallbackStep == ASSUME IInv, CallBulkCallback PROVE IInv'
<1> USE DEF CallBulkCallback, UdpIdle, UdpRuns
<1>1. FlagsOK' BY DEF IInv, TypeOK, FlagsOK
<1>2. PointsOK' BY MaxPointsAssumption DEF IInv, TypeOK, PointsOK
<1>3. BuffersOK' BY DEF IInv, TypeOK, BuffersOK
<1>4. ControlOK' BY DEF IInv, TypeOK, ControlOK
<1>5. PointInv' BY DEF IInv, TypeOK, PointsOK, PointInv
<1>6. LinkInv' BY DEF IInv, TypeOK, LinkInv
<1>7. LockInv' BY DEF IInv, TypeOK, ControlOK, LockInv
<1>8. TransferInv' BY DEF IInv, TypeOK, TransferInv
<1>9. BlankInv' BY DEF IInv, TypeOK, BlankInv
<1>10. DarkInv' BY DEF IInv, TypeOK, DarkInv
<1>11. ReadyFrameIsSafe' BY DEF IInv, TypeOK, ReadyFrameIsSafe
<1>12. StopFlagHasTimer' BY DEF IInv, TypeOK, StopFlagHasTimer
<1>13. PlayingHasClock' BY DEF IInv, TypeOK, PlayingHasClock
<1> QED
  BY <1>1, <1>2, <1>3, <1>4, <1>5, <1>6, <1>7, <1>8, <1>9, <1>10, <1>11, <1>12, <1>13
  DEF IInv, TypeOK

\* The callback starts the frame it received.
LEMMA StartFrameStep ==
    ASSUME IInv, NEW f \in Frame,
           uPc = "callback", UdpRuns, connected, ~stopFlag, ~playing \/ f.now, 
           newNotRepeat' = f.once, StartFrame(f), uPc' = "idle", uLen' = 0,
           UNCHANGED <<stopVars, tickPending, lit, content, linkVars, uTask, uNext, sPc>>
    PROVE  IInv'
<1> USE DEF StartFrame, speed_set, update_status, ArmBulk, UdpRuns
<1>1. FlagsOK' BY FrameFields DEF IInv, TypeOK, FlagsOK
<1>2. PointsOK' BY MaxPointsAssumption, FrameFields DEF IInv, TypeOK, PointsOK
<1>3. BuffersOK' BY DEF IInv, TypeOK, BuffersOK
<1>4. ControlOK' BY DEF IInv, TypeOK, ControlOK
<1>5. PointInv' BY MaxPointsAssumption DEF IInv, TypeOK, PointsOK, PointInv
<1>6. LinkInv' BY DEF IInv, TypeOK, LinkInv
<1>7. LockInv' BY DEF IInv, TypeOK, ControlOK, LockInv
<1>8. TransferInv' BY DEF IInv, TypeOK, TransferInv
<1>9. BlankInv' BY DEF IInv, TypeOK, BlankInv
<1>10. DarkInv' BY DEF IInv, TypeOK, DarkInv
<1>11. ReadyFrameIsSafe' BY DEF IInv, TypeOK, ReadyFrameIsSafe
<1>12. StopFlagHasTimer' BY DEF IInv, TypeOK, StopFlagHasTimer
<1>13. PlayingHasClock' BY DEF IInv, TypeOK, PlayingHasClock
<1> QED
  BY <1>1, <1>2, <1>3, <1>4, <1>5, <1>6, <1>7, <1>8, <1>9, <1>10, <1>11, <1>12, <1>13
  DEF IInv, TypeOK

\* The callback queues the frame it received.
LEMMA QueueFrameStep ==
    ASSUME IInv, NEW f \in Frame,
           uPc = "callback", UdpRuns, connected, ~stopFlag, playing, 
           newNotRepeat' = f.once, QueueFrame(f), uPc' = "idle", uLen' = 0,
           UNCHANGED <<stopVars, tickPending, lit, content, linkVars, uTask, uNext, sPc>>
    PROVE  IInv'
<1> USE DEF QueueFrame, UdpRuns
<1>1. FlagsOK' BY FrameFields DEF IInv, TypeOK, FlagsOK
<1>2. PointsOK' BY MaxPointsAssumption, FrameFields DEF IInv, TypeOK, PointsOK
<1>3. BuffersOK' BY DEF IInv, TypeOK, BuffersOK
<1>4. ControlOK' BY DEF IInv, TypeOK, ControlOK
<1>5. PointInv' BY DEF IInv, TypeOK, PointsOK, PointInv
<1>6. LinkInv' BY DEF IInv, TypeOK, LinkInv
<1>7. LockInv' BY DEF IInv, TypeOK, ControlOK, LockInv
<1>8. TransferInv' BY DEF IInv, TypeOK, TransferInv
<1>9. BlankInv' BY DEF IInv, TypeOK, BlankInv
<1>10. DarkInv' BY DEF IInv, TypeOK, DarkInv
<1>11. ReadyFrameIsSafe' BY DEF IInv, TypeOK, ReadyFrameIsSafe, TransferInv
<1>12. StopFlagHasTimer' BY DEF IInv, TypeOK, StopFlagHasTimer
<1>13. PlayingHasClock' BY DEF IInv, TypeOK, PlayingHasClock
<1> QED
  BY <1>1, <1>2, <1>3, <1>4, <1>5, <1>6, <1>7, <1>8, <1>9, <1>10, <1>11, <1>12, <1>13
  DEF IInv, TypeOK

\* The callback ignores what it received.
LEMMA RejectStep ==
    ASSUME IInv, uPc = "callback", uPc' = "idle", uLen' = 0,
           UNCHANGED <<playVars, stopVars, tickVars, lit, content, bulkVars, linkVars, uTask,
                       uNext, sPc>>
    PROVE  IInv'
<1>1. FlagsOK' BY DEF IInv, TypeOK, FlagsOK
<1>2. PointsOK' BY MaxPointsAssumption DEF IInv, TypeOK, PointsOK
<1>3. BuffersOK' BY DEF IInv, TypeOK, BuffersOK
<1>4. ControlOK' BY DEF IInv, TypeOK, ControlOK
<1>5. PointInv' BY DEF IInv, TypeOK, PointsOK, PointInv
<1>6. LinkInv' BY DEF IInv, TypeOK, LinkInv
<1>7. LockInv' BY DEF IInv, TypeOK, ControlOK, LockInv
<1>8. TransferInv' BY DEF IInv, TypeOK, TransferInv
<1>9. BlankInv' BY DEF IInv, TypeOK, BlankInv
<1>10. DarkInv' BY DEF IInv, TypeOK, DarkInv
<1>11. ReadyFrameIsSafe' BY DEF IInv, TypeOK, ReadyFrameIsSafe
<1>12. StopFlagHasTimer' BY DEF IInv, TypeOK, StopFlagHasTimer
<1>13. PlayingHasClock' BY DEF IInv, TypeOK, PlayingHasClock
<1> QED
  BY <1>1, <1>2, <1>3, <1>4, <1>5, <1>6, <1>7, <1>8, <1>9, <1>10, <1>11, <1>12, <1>13
  DEF IInv, TypeOK

LEMMA usb_bulk_out_callbackStep == ASSUME IInv, usb_bulk_out_callback PROVE IInv'
<1>1. PICK f \in Readings :
          \/ /\ Refused \/ f = Torn
             /\ UNCHANGED <<playVars, sysTickOn, bulkVars>>
          \/ /\ ~Refused /\ f # Torn
             /\ newNotRepeat' = f.once
             /\ IF ~playing \/ f.now THEN StartFrame(f) ELSE QueueFrame(f)
  BY DEF usb_bulk_out_callback
<1>2. f \in Frame \cup {Torn} BY DEF Readings, IInv, TypeOK, BuffersOK
<1>3. /\ uPc = "callback" /\ UdpRuns /\ uPc' = "idle" /\ uLen' = 0
      /\ UNCHANGED <<stopVars, tickPending, lit, content, linkVars, uTask, uNext, sPc>>
  BY DEF usb_bulk_out_callback
<1>4. CASE UNCHANGED <<playVars, sysTickOn, bulkVars>> BY <1>3, <1>4, RejectStep
<1>5. CASE /\ connected /\ ~stopFlag /\ f \in Frame /\ newNotRepeat' = f.once
           /\ (~playing \/ f.now) /\ StartFrame(f)
  BY <1>3, <1>5, StartFrameStep
<1>6. CASE /\ connected /\ ~stopFlag /\ f \in Frame /\ newNotRepeat' = f.once
           /\ playing /\ QueueFrame(f)
  BY <1>3, <1>6, QueueFrameStep
<1> QED BY <1>1, <1>2, <1>4, <1>5, <1>6

LEMMA CmdStatusStep == ASSUME IInv, CmdStatus PROVE IInv'
<1> USE DEF CmdStatus, Command, Answer, ArmBulk, UdpIdle, UdpRuns
<1>1. FlagsOK' BY DEF IInv, TypeOK, FlagsOK
<1>2. PointsOK' BY MaxPointsAssumption DEF IInv, TypeOK, PointsOK
<1>3. BuffersOK' BY DEF IInv, TypeOK, BuffersOK
<1>4. ControlOK' BY DEF IInv, TypeOK, ControlOK
<1>5. PointInv' BY DEF IInv, TypeOK, PointsOK, PointInv
<1>6. LinkInv' BY DEF IInv, TypeOK, LinkInv
<1>7. LockInv' BY DEF IInv, TypeOK, ControlOK, LockInv
<1>8. TransferInv' BY DEF IInv, TypeOK, TransferInv
<1>9. BlankInv' BY DEF IInv, TypeOK, BlankInv
<1>10. DarkInv' BY DEF IInv, TypeOK, DarkInv
<1>11. ReadyFrameIsSafe' BY DEF IInv, TypeOK, ReadyFrameIsSafe
<1>12. StopFlagHasTimer' BY DEF IInv, TypeOK, StopFlagHasTimer
<1>13. PlayingHasClock' BY DEF IInv, TypeOK, PlayingHasClock
<1> QED
  BY <1>1, <1>2, <1>3, <1>4, <1>5, <1>6, <1>7, <1>8, <1>9, <1>10, <1>11, <1>12, <1>13
  DEF IInv, TypeOK

LEMMA CmdQueryStep == ASSUME IInv, CmdQuery PROVE IInv'
<1> USE DEF CmdQuery, Command, Answer, UdpIdle, UdpRuns
<1>1. FlagsOK' BY DEF IInv, TypeOK, FlagsOK
<1>2. PointsOK' BY MaxPointsAssumption DEF IInv, TypeOK, PointsOK
<1>3. BuffersOK' BY DEF IInv, TypeOK, BuffersOK
<1>4. ControlOK' BY DEF IInv, TypeOK, ControlOK
<1>5. PointInv' BY DEF IInv, TypeOK, PointsOK, PointInv
<1>6. LinkInv' BY DEF IInv, TypeOK, LinkInv
<1>7. LockInv' BY DEF IInv, TypeOK, ControlOK, LockInv
<1>8. TransferInv' BY DEF IInv, TypeOK, TransferInv
<1>9. BlankInv' BY DEF IInv, TypeOK, BlankInv
<1>10. DarkInv' BY DEF IInv, TypeOK, DarkInv
<1>11. ReadyFrameIsSafe' BY DEF IInv, TypeOK, ReadyFrameIsSafe
<1>12. StopFlagHasTimer' BY DEF IInv, TypeOK, StopFlagHasTimer
<1>13. PlayingHasClock' BY DEF IInv, TypeOK, PlayingHasClock
<1> QED
  BY <1>1, <1>2, <1>3, <1>4, <1>5, <1>6, <1>7, <1>8, <1>9, <1>10, <1>11, <1>12, <1>13
  DEF IInv, TypeOK

LEMMA CmdStopStep == ASSUME IInv, CmdStop PROVE IInv'
<1> USE DEF CmdStop, Command, UdpIdle, UdpRuns
<1>1. FlagsOK' BY DEF IInv, TypeOK, FlagsOK
<1>2. PointsOK' BY MaxPointsAssumption DEF IInv, TypeOK, PointsOK
<1>3. BuffersOK' BY DEF IInv, TypeOK, BuffersOK
<1>4. ControlOK' BY DEF IInv, TypeOK, ControlOK
<1>5. PointInv' BY DEF IInv, TypeOK, PointsOK, PointInv
<1>6. LinkInv' BY DEF IInv, TypeOK, LinkInv
<1>7. LockInv' BY DEF IInv, TypeOK, ControlOK, LockInv
<1>8. TransferInv' BY DEF IInv, TypeOK, TransferInv
<1>9. BlankInv' BY DEF IInv, TypeOK, BlankInv
<1>10. DarkInv' BY DEF IInv, TypeOK, DarkInv
<1>11. ReadyFrameIsSafe' BY DEF IInv, TypeOK, ReadyFrameIsSafe
<1>12. StopFlagHasTimer' BY DEF IInv, TypeOK, StopFlagHasTimer
<1>13. PlayingHasClock' BY DEF IInv, TypeOK, PlayingHasClock
<1> QED
  BY <1>1, <1>2, <1>3, <1>4, <1>5, <1>6, <1>7, <1>8, <1>9, <1>10, <1>11, <1>12, <1>13
  DEF IInv, TypeOK

LEMMA CmdEraseStep == ASSUME IInv, CmdErase PROVE IInv'
<1> USE DEF CmdErase, Command, UdpIdle, UdpRuns
<1>1. FlagsOK' BY DEF IInv, TypeOK, FlagsOK
<1>2. PointsOK' BY MaxPointsAssumption DEF IInv, TypeOK, PointsOK
<1>3. BuffersOK' BY DEF IInv, TypeOK, BuffersOK
<1>4. ControlOK' BY DEF IInv, TypeOK, ControlOK
<1>5. PointInv' BY DEF IInv, TypeOK, PointsOK, PointInv
<1>6. LinkInv' BY DEF IInv, TypeOK, LinkInv
<1>7. LockInv' BY DEF IInv, TypeOK, ControlOK, LockInv
<1>8. TransferInv' BY DEF IInv, TypeOK, TransferInv
<1>9. BlankInv' BY DEF IInv, TypeOK, BlankInv
<1>10. DarkInv' BY DEF IInv, TypeOK, DarkInv
<1>11. ReadyFrameIsSafe' BY DEF IInv, TypeOK, ReadyFrameIsSafe
<1>12. StopFlagHasTimer' BY DEF IInv, TypeOK, StopFlagHasTimer
<1>13. PlayingHasClock' BY DEF IInv, TypeOK, PlayingHasClock
<1> QED
  BY <1>1, <1>2, <1>3, <1>4, <1>5, <1>6, <1>7, <1>8, <1>9, <1>10, <1>11, <1>12, <1>13
  DEF IInv, TypeOK

LEMMA HostReadsReplyStep == ASSUME IInv, HostReadsReply PROVE IInv'
<1> USE DEF HostReadsReply, UdpIdle, UdpRuns
<1>1. FlagsOK' BY DEF IInv, TypeOK, FlagsOK
<1>2. PointsOK' BY MaxPointsAssumption DEF IInv, TypeOK, PointsOK
<1>3. BuffersOK' BY DEF IInv, TypeOK, BuffersOK
<1>4. ControlOK' BY DEF IInv, TypeOK, ControlOK
<1>5. PointInv' BY DEF IInv, TypeOK, PointsOK, PointInv
<1>6. LinkInv' BY DEF IInv, TypeOK, LinkInv
<1>7. LockInv' BY DEF IInv, TypeOK, ControlOK, LockInv
<1>8. TransferInv' BY DEF IInv, TypeOK, TransferInv
<1>9. BlankInv' BY DEF IInv, TypeOK, BlankInv
<1>10. DarkInv' BY DEF IInv, TypeOK, DarkInv
<1>11. ReadyFrameIsSafe' BY DEF IInv, TypeOK, ReadyFrameIsSafe
<1>12. StopFlagHasTimer' BY DEF IInv, TypeOK, StopFlagHasTimer
<1>13. PlayingHasClock' BY DEF IInv, TypeOK, PlayingHasClock
<1> QED
  BY <1>1, <1>2, <1>3, <1>4, <1>5, <1>6, <1>7, <1>8, <1>9, <1>10, <1>11, <1>12, <1>13
  DEF IInv, TypeOK

LEMMA SetInterfaceStep == ASSUME IInv, NEW alt \in {0, 1}, SetInterface(alt) PROVE IInv'
<1> USE DEF SetInterface, UdpIdle, UdpRuns
<1>1. FlagsOK' BY DEF IInv, TypeOK, FlagsOK
<1>2. PointsOK' BY MaxPointsAssumption DEF IInv, TypeOK, PointsOK
<1>3. BuffersOK' BY DEF IInv, TypeOK, BuffersOK
<1>4. ControlOK' BY DEF IInv, TypeOK, ControlOK
<1>5. PointInv' BY DEF IInv, TypeOK, PointsOK, PointInv
<1>6. LinkInv' BY DEF IInv, TypeOK, LinkInv
<1>7. LockInv' BY DEF IInv, TypeOK, ControlOK, LockInv
<1>8. TransferInv' BY DEF IInv, TypeOK, TransferInv
<1>9. BlankInv' BY DEF IInv, TypeOK, BlankInv
<1>10. DarkInv' BY DEF IInv, TypeOK, DarkInv
<1>11. ReadyFrameIsSafe' BY DEF IInv, TypeOK, ReadyFrameIsSafe
<1>12. StopFlagHasTimer' BY DEF IInv, TypeOK, StopFlagHasTimer
<1>13. PlayingHasClock' BY DEF IInv, TypeOK, PlayingHasClock
<1> QED
  BY <1>1, <1>2, <1>3, <1>4, <1>5, <1>6, <1>7, <1>8, <1>9, <1>10, <1>11, <1>12, <1>13
  DEF IInv, TypeOK

LEMMA callback_vendor_disableStep == ASSUME IInv, callback_vendor_disable PROVE IInv'
<1> USE DEF callback_vendor_disable, UdpIdle, UdpRuns
<1>1. FlagsOK' BY DEF IInv, TypeOK, FlagsOK
<1>2. PointsOK' BY MaxPointsAssumption DEF IInv, TypeOK, PointsOK
<1>3. BuffersOK' BY DEF IInv, TypeOK, BuffersOK
<1>4. ControlOK' BY DEF IInv, TypeOK, ControlOK
<1>5. PointInv' BY DEF IInv, TypeOK, PointsOK, PointInv
<1>6. LinkInv' BY DEF IInv, TypeOK, LinkInv
<1>7. LockInv' BY DEF IInv, TypeOK, ControlOK, LockInv
<1>8. TransferInv' BY DEF IInv, TypeOK, TransferInv
<1>9. BlankInv' BY DEF IInv, TypeOK, BlankInv
<1>10. DarkInv' BY DEF IInv, TypeOK, DarkInv
<1>11. ReadyFrameIsSafe' BY DEF IInv, TypeOK, ReadyFrameIsSafe
<1>12. StopFlagHasTimer' BY DEF IInv, TypeOK, StopFlagHasTimer
<1>13. PlayingHasClock' BY DEF IInv, TypeOK, PlayingHasClock
<1> QED
  BY <1>1, <1>2, <1>3, <1>4, <1>5, <1>6, <1>7, <1>8, <1>9, <1>10, <1>11, <1>12, <1>13
  DEF IInv, TypeOK

LEMMA callback_vendor_enableStep == ASSUME IInv, callback_vendor_enable PROVE IInv'
<1> USE DEF callback_vendor_enable, UdpIdle, UdpRuns
<1>1. FlagsOK' BY DEF IInv, TypeOK, FlagsOK
<1>2. PointsOK' BY MaxPointsAssumption DEF IInv, TypeOK, PointsOK
<1>3. BuffersOK' BY DEF IInv, TypeOK, BuffersOK
<1>4. ControlOK' BY DEF IInv, TypeOK, ControlOK
<1>5. PointInv' BY DEF IInv, TypeOK, PointsOK, PointInv
<1>6. LinkInv' BY DEF IInv, TypeOK, LinkInv
<1>7. LockInv' BY DEF IInv, TypeOK, ControlOK, LockInv, LinkInv
<1>8. TransferInv' BY DEF IInv, TypeOK, TransferInv
<1>9. BlankInv' BY DEF IInv, TypeOK, BlankInv
<1>10. DarkInv' BY DEF IInv, TypeOK, DarkInv
<1>11. ReadyFrameIsSafe' BY DEF IInv, TypeOK, ReadyFrameIsSafe
<1>12. StopFlagHasTimer' BY DEF IInv, TypeOK, StopFlagHasTimer
<1>13. PlayingHasClock' BY DEF IInv, TypeOK, PlayingHasClock
<1> QED
  BY <1>1, <1>2, <1>3, <1>4, <1>5, <1>6, <1>7, <1>8, <1>9, <1>10, <1>11, <1>12, <1>13
  DEF IInv, TypeOK

LEMMA ClockOffStep == ASSUME IInv, ClockOff PROVE IInv'
<1> USE DEF ClockOff, UdpIdle, UdpRuns
<1>1. FlagsOK'
  <2>1. tickPending' \in BOOLEAN BY DEF IInv, TypeOK, FlagsOK
  <2> QED BY <2>1 DEF IInv, TypeOK, FlagsOK
<1>2. PointsOK' BY MaxPointsAssumption DEF IInv, TypeOK, PointsOK
<1>3. BuffersOK' BY DEF IInv, TypeOK, BuffersOK
<1>4. ControlOK' BY DEF IInv, TypeOK, ControlOK
<1>5. PointInv' BY DEF IInv, TypeOK, PointsOK, PointInv
<1>6. LinkInv' BY DEF IInv, TypeOK, LinkInv
<1>7. LockInv' BY DEF IInv, TypeOK, ControlOK, LockInv
<1>8. TransferInv' BY DEF IInv, TypeOK, TransferInv
<1>9. BlankInv' BY DEF IInv, TypeOK, BlankInv
<1>10. DarkInv' BY DEF IInv, TypeOK, DarkInv
<1>11. ReadyFrameIsSafe' BY DEF IInv, TypeOK, ReadyFrameIsSafe
<1>12. StopFlagHasTimer' BY DEF IInv, TypeOK, StopFlagHasTimer
<1>13. PlayingHasClock' BY DEF IInv, TypeOK, PlayingHasClock
<1> QED
  BY <1>1, <1>2, <1>3, <1>4, <1>5, <1>6, <1>7, <1>8, <1>9, <1>10, <1>11, <1>12, <1>13
  DEF IInv, TypeOK

LEMMA BlankStep == ASSUME IInv, Blank PROVE IInv'
<1> USE DEF Blank, StopPlayback, update_status, ArmBulk, UdpIdle, UdpRuns
<1>1. FlagsOK' BY DEF IInv, TypeOK, FlagsOK
<1>2. PointsOK' BY MaxPointsAssumption DEF IInv, TypeOK, PointsOK
<1>3. BuffersOK' BY DEF IInv, TypeOK, BuffersOK
<1>4. ControlOK' BY DEF IInv, TypeOK, ControlOK
<1>5. PointInv' BY DEF IInv, TypeOK, PointsOK, PointInv
<1>6. LinkInv' BY DEF IInv, TypeOK, LinkInv
<1>7. LockInv' BY DEF IInv, TypeOK, ControlOK, LockInv
<1>8. TransferInv' BY DEF IInv, TypeOK, TransferInv
<1>9. BlankInv' BY DEF IInv, TypeOK, BlankInv
<1>10. DarkInv' BY DEF IInv, TypeOK, DarkInv
<1>11. ReadyFrameIsSafe' BY DEF IInv, TypeOK, ReadyFrameIsSafe
<1>12. StopFlagHasTimer' BY DEF IInv, TypeOK, StopFlagHasTimer
<1>13. PlayingHasClock' BY DEF IInv, TypeOK, PlayingHasClock
<1> QED
  BY <1>1, <1>2, <1>3, <1>4, <1>5, <1>6, <1>7, <1>8, <1>9, <1>10, <1>11, <1>12, <1>13
  DEF IInv, TypeOK

LEMMA FinishStep == ASSUME IInv, Finish PROVE IInv'
<1> USE DEF Finish, FinishStop, FinishDisable, FinishEnable, FinishErase, ArmBulk, UdpIdle, UdpRuns
<1>1. FlagsOK'
  <2>1. CASE FinishStop BY <2>1 DEF IInv, TypeOK, FlagsOK
  <2>2. CASE FinishDisable BY <2>2 DEF IInv, TypeOK, FlagsOK
  <2>3. CASE FinishEnable BY <2>3 DEF IInv, TypeOK, FlagsOK
  <2>4. CASE FinishErase BY <2>4 DEF IInv, TypeOK, FlagsOK
  <2> QED BY <2>1, <2>2, <2>3, <2>4
<1>2. PointsOK' BY MaxPointsAssumption DEF IInv, TypeOK, PointsOK
<1>3. BuffersOK' BY DEF IInv, TypeOK, BuffersOK
<1>4. ControlOK' BY DEF IInv, TypeOK, ControlOK, LockInv, LinkInv
<1>5. PointInv' BY DEF IInv, TypeOK, PointsOK, PointInv
<1>6. LinkInv' BY DEF IInv, TypeOK, LinkInv
<1>7. LockInv' BY DEF IInv, TypeOK, ControlOK, LockInv, LinkInv
<1>8. TransferInv' BY DEF IInv, TypeOK, TransferInv
<1>9. BlankInv' BY DEF IInv, TypeOK, BlankInv
<1>10. DarkInv' BY DEF IInv, TypeOK, DarkInv
<1>11. ReadyFrameIsSafe' BY DEF IInv, TypeOK, ReadyFrameIsSafe, BlankInv
<1>12. StopFlagHasTimer' BY DEF IInv, TypeOK, StopFlagHasTimer
<1>13. PlayingHasClock' BY DEF IInv, TypeOK, PlayingHasClock
<1> QED
  BY <1>1, <1>2, <1>3, <1>4, <1>5, <1>6, <1>7, <1>8, <1>9, <1>10, <1>11, <1>12, <1>13
  DEF IInv, TypeOK

LEMMA WatchdogResetStep == ASSUME IInv, WatchdogReset PROVE IInv'
<1> USE DEF WatchdogReset
<1>1. FlagsOK' BY DEF IInv, TypeOK, FlagsOK
<1>2. PointsOK' BY MaxPointsAssumption DEF IInv, TypeOK, PointsOK
<1>3. BuffersOK' BY DEF IInv, TypeOK, BuffersOK
<1>4. ControlOK' BY DEF IInv, TypeOK, ControlOK
<1>5. PointInv' BY DEF IInv, TypeOK, PointsOK, PointInv
<1>6. LinkInv' BY DEF IInv, TypeOK, LinkInv
<1>7. LockInv' BY DEF IInv, TypeOK, ControlOK, LockInv
<1>8. TransferInv' BY DEF IInv, TypeOK, TransferInv
<1>9. BlankInv' BY DEF IInv, TypeOK, BlankInv
<1>10. DarkInv' BY DEF IInv, TypeOK, DarkInv
<1>11. ReadyFrameIsSafe' BY DEF IInv, TypeOK, ReadyFrameIsSafe
<1>12. StopFlagHasTimer' BY DEF IInv, TypeOK, StopFlagHasTimer
<1>13. PlayingHasClock' BY DEF IInv, TypeOK, PlayingHasClock
<1> QED
  BY <1>1, <1>2, <1>3, <1>4, <1>5, <1>6, <1>7, <1>8, <1>9, <1>10, <1>11, <1>12, <1>13
  DEF IInv, TypeOK

-----------------------------------------------------------------------------
(* The theorems *)

\* Every step preserves the invariant.
LEMMA NextInv == IInv /\ [Next]_vars => IInv'
<1> SUFFICES ASSUME IInv, [Next]_vars PROVE IInv'
  OBVIOUS
<1>1. CASE TickEntry BY <1>1, TickEntryStep
<1>2. CASE SysTickStep BY <1>2, TickFlagsStep, TickPositionStep, FindNewFrameStep, SwapFrameStep,
     LoopFrameStep, EndOfSingleFrameStep, TickOutputStep, TickSpeedStep, TickUpdateStep
     DEF SysTickStep
<1>3. CASE TC0_Handler BY <1>3, TC0_HandlerStep
<1>4. CASE UdpStep BY <1>4, CallBulkCallbackStep, usb_bulk_out_callbackStep,
     callback_vendor_disableStep, callback_vendor_enableStep, ClockOffStep, BlankStep,
     FinishStep DEF UdpStep
<1>5. CASE HostStep BY <1>5, RxPacketsStep, RxLastPacketStep, CmdStatusStep,
     CmdQueryStep, CmdStopStep, CmdEraseStep, HostReadsReplyStep, SetInterfaceStep DEF
     HostStep
<1>6. CASE WatchdogReset BY <1>6, WatchdogResetStep
<1>7. CASE UNCHANGED vars BY <1>7 DEF vars, IInv, TypeOK, FlagsOK, PointsOK, BuffersOK,
     ControlOK, PointInv, LinkInv, LockInv, TransferInv, BlankInv, DarkInv,
     ReadyFrameIsSafe, StopFlagHasTimer, PlayingHasClock
<1> QED BY <1>1, <1>2, <1>3, <1>4, <1>5, <1>6, <1>7 DEF Next, InBootloader

\* IInv is an invariant.
THEOREM Invariance == Spec => []IInv
BY InitInv, NextInv, PTL DEF Spec

\* Every variable keeps its type.
THEOREM TypeCorrect == Spec => []TypeOK
<1>1. IInv => TypeOK BY DEF IInv
<1> QED BY <1>1, Invariance, PTL

\* A queued frame is never overwritten before it is played.
THEOREM QueuedFrameSafe == Spec => []ReadyFrameIsSafe
<1>1. IInv => ReadyFrameIsSafe BY DEF IInv
<1> QED BY <1>1, Invariance, PTL

\* While frames are refused, the timer that ends the refusal runs or is about to.
THEOREM StopWindowBounded == Spec => []StopFlagHasTimer
<1>1. IInv => StopFlagHasTimer BY DEF IInv
<1> QED BY <1>1, Invariance, PTL

\* Playback always has its clock.
THEOREM PlaybackClocked == Spec => []PlayingHasClock
<1>1. IInv => PlayingHasClock BY DEF IInv
<1> QED BY <1>1, Invariance, PTL

\* Closing the interface, in whatever state, leaves the device dark and idle.
THEOREM ClosedIsDark == Spec => []DarkWhenClosed
<1>1. IInv => DarkWhenClosed BY DEF IInv, LinkInv, DarkInv, DarkWhenClosed
<1> QED BY <1>1, Invariance, PTL

\* The sleep locks of main.c are never released twice.
THEOREM LocksBalanced == Spec => []SleepLocksMatch
<1>1. IInv => SleepLocksMatch BY DEF IInv, LockInv, SleepLocksMatch
<1> QED BY <1>1, Invariance, PTL

\* An open device always listens for commands.
THEOREM AlwaysListening == Spec => []CommandsHeard
<1>1. IInv => CommandsHeard BY DEF IInv, LinkInv, CommandsHeard
<1> QED BY <1>1, Invariance, PTL

\* The only steps that set playing are those of usb_bulk_out_callback.
LEMMA PlaybackStarts ==
    ASSUME [Next]_vars, ~playing, playing' PROVE usb_bulk_out_callback /\ ~stopFlag
<1>1. CASE TickEntry BY <1>1 DEF TickEntry
<1>2. CASE SysTickStep
  BY <1>2 DEF SysTickStep, TickFlags, TickPosition, FindNewFrame, SwapFrame,
     LoopFrame, EndOfSingleFrame, TickOutput, TickSpeed, TickUpdate, stop_weak, StopPlayback,
     update_status, ArmBulk
<1>3. CASE TC0_Handler BY <1>3 DEF TC0_Handler, stop_weak, StopPlayback
<1>4. CASE UdpStep
  <2>1. CASE usb_bulk_out_callback BY <2>1 DEF usb_bulk_out_callback
  <2>2. CASE ~usb_bulk_out_callback
    BY <1>4, <2>2 DEF UdpStep, CallBulkCallback, callback_vendor_disable,
     callback_vendor_enable, ClockOff, Blank, StopPlayback, Finish
  <2> QED BY <2>1, <2>2
<1>5. CASE HostStep
  BY <1>5 DEF HostStep, RxPackets, RxLastPacket, CmdStatus, CmdQuery, CmdStop, CmdErase,
     HostReadsReply, SetInterface
<1>6. CASE WatchdogReset BY <1>6 DEF WatchdogReset
<1>7. CASE UNCHANGED vars BY <1>7 DEF vars
<1> QED BY <1>1, <1>2, <1>3, <1>4, <1>5, <1>6, <1>7 DEF Next, InBootloader

\* No playback starts inside the stop window.
THEOREM StoppedStaysStopped == Spec => NoStartWhileStopped
<1>1. [Next]_vars => [~playing /\ playing' => ~stopFlag]_vars BY PlaybackStarts
<1> QED BY <1>1, PTL DEF Spec, NoStartWhileStopped

\* The buffers change places in two handlers only.
LEMMA BufferSwaps ==
    ASSUME [Next]_vars, frameAddress' # frameAddress PROVE SwapFrame \/ usb_bulk_out_callback
<1>1. CASE TickEntry BY <1>1 DEF TickEntry
<1>2. CASE SysTickStep
  BY <1>2 DEF SysTickStep, TickFlags, TickPosition, FindNewFrame, SwapFrame,
     LoopFrame, EndOfSingleFrame, TickOutput, TickSpeed, TickUpdate, stop_weak, StopPlayback,
     update_status, ArmBulk
<1>3. CASE TC0_Handler BY <1>3 DEF TC0_Handler, stop_weak, StopPlayback
<1>4. CASE UdpStep
  BY <1>4 DEF UdpStep, CallBulkCallback, callback_vendor_disable,
     callback_vendor_enable, ClockOff, Blank, StopPlayback, Finish
<1>5. CASE HostStep
  BY <1>5 DEF HostStep, RxPackets, RxLastPacket, CmdStatus, CmdQuery, CmdStop, CmdErase,
     HostReadsReply, SetInterface
<1>6. CASE WatchdogReset BY <1>6 DEF WatchdogReset
<1>7. CASE UNCHANGED vars BY <1>7 DEF vars
<1> QED BY <1>1, <1>2, <1>3, <1>4, <1>5, <1>6, <1>7 DEF Next, InBootloader

\* A frame in play is replaced only at its end, or by U.
THEOREM FramesPlayedOut == Spec => ReplacedAtFrameEnd
<1> DEFINE Replaced ==
      frameAddress' # frameAddress /\ playing => framePos >= frameSize \/ uPc = "callback"
<1>1. IInv /\ [Next]_vars => [Replaced]_vars
  <2> SUFFICES ASSUME IInv, [Next]_vars, frameAddress' # frameAddress, playing
               PROVE  framePos >= frameSize \/ uPc = "callback"
    OBVIOUS
  <2>1. CASE SwapFrame BY <2>1 DEF SwapFrame, IInv, PointInv
  <2>2. CASE usb_bulk_out_callback BY <2>2 DEF usb_bulk_out_callback
  <2> QED BY <2>1, <2>2, BufferSwaps
<1> QED BY <1>1, Invariance, PTL DEF Spec, ReplacedAtFrameEnd

-----------------------------------------------------------------------------
(* A host that leaves 100 ms between its stops: OverlapStops = FALSE *)

\* The timer runs only in a window whose playback has ended; the handler that
\* is about to start it finds it stopped; a tick under way is one of playback.
SpacedInv ==
    /\ tcRunning => stopFlag /\ ~playing
    /\ uPc = "freed" => ~tcRunning
    /\ Stopping /\ uTask \in {"stop", "disable"} => stopFlag /\ ~tcRunning
    /\ sPc \in {"flags", "position", "frameEnd", "swap", "output", "swapOutput", "stopWeak"}
          => playing
    /\ NoFrozenBeam

LEMMA SpacedInit == Init => SpacedInv
BY DEF Init, SpacedInv, NoFrozenBeam

LEMMA SpacedNext ==
    ASSUME OverlapStops = FALSE, IInv, SpacedInv, [Next]_vars PROVE SpacedInv'
<1> USE DEF SpacedInv, NoFrozenBeam, UdpIdle, UdpRuns
<1>1. CASE TickEntry BY <1>1 DEF TickEntry
<1>2. CASE SysTickStep
  <2>1. CASE TickFlags \/ TickPosition \/ FindNewFrame \/ SwapFrame \/ LoopFrame
    BY <2>1 DEF TickFlags, TickPosition, FindNewFrame, SwapFrame, LoopFrame
  <2>2. CASE EndOfSingleFrame
    BY <2>2 DEF EndOfSingleFrame, stop_weak, StopPlayback
  <2>3. CASE TickOutput BY <2>3 DEF TickOutput
  <2>4. CASE TickSpeed \/ TickUpdate
    BY <2>4 DEF TickSpeed, TickUpdate, update_status, ArmBulk
  <2> QED BY <1>2, <2>1, <2>2, <2>3, <2>4 DEF SysTickStep
<1>3. CASE TC0_Handler BY <1>3 DEF TC0_Handler, stop_weak, StopPlayback
<1>4. CASE UdpStep
  <2>1. CASE CallBulkCallback BY <2>1 DEF CallBulkCallback
  <2>2. CASE usb_bulk_out_callback
    BY <2>2 DEF usb_bulk_out_callback, StartFrame, QueueFrame, update_status
  <2>3. CASE callback_vendor_disable \/ callback_vendor_enable
    BY <2>3 DEF callback_vendor_disable, callback_vendor_enable
  <2>4. CASE ClockOff \/ Blank BY <2>4 DEF ClockOff, Blank, StopPlayback
  <2>5. CASE Finish
    BY <2>5 DEF Finish, FinishStop, FinishDisable, FinishEnable, FinishErase, IInv, BlankInv
  <2> QED BY <1>4, <2>1, <2>2, <2>3, <2>4, <2>5 DEF UdpStep
<1>5. CASE HostStep
  <2>1. CASE \E f \in Frames : RxPackets(f) BY <2>1 DEF RxPackets
  <2>2. CASE RxLastPacket BY <2>2 DEF RxLastPacket
  <2>3. CASE CmdStatus \/ CmdQuery \/ HostReadsReply
    BY <2>3 DEF CmdStatus, CmdQuery, HostReadsReply
  <2>4. CASE CmdStop \/ CmdErase BY <2>4 DEF CmdStop, CmdErase, MayStop
  <2>5. CASE \E alt \in {0, 1} : SetInterface(alt) BY <2>5 DEF SetInterface, MayStop
  <2> QED BY <1>5, <2>1, <2>2, <2>3, <2>4, <2>5 DEF HostStep
<1>6. CASE WatchdogReset BY <1>6 DEF WatchdogReset, IInv, BlankInv
<1>7. CASE UNCHANGED vars BY <1>7 DEF vars
<1> QED BY <1>1, <1>2, <1>3, <1>4, <1>5, <1>6, <1>7 DEF Next, InBootloader

LEMMA SpacedInvariance == ASSUME OverlapStops = FALSE PROVE Spec => []SpacedInv
<1>1. IInv /\ SpacedInv /\ [Next]_vars => SpacedInv' BY SpacedNext
<1> QED BY <1>1, SpacedInit, Invariance, PTL DEF Spec

\* With such a host the timer of the stop window never outlives the window ...
THEOREM SpacedTimer == ASSUME OverlapStops = FALSE PROVE Spec => []TimerMeansStopped
<1>1. SpacedInv => TimerMeansStopped BY DEF SpacedInv, TimerMeansStopped
<1> QED BY <1>1, SpacedInvariance, PTL

\* ... and the laser is dark whenever playback is off, between any two steps.
THEOREM SpacedBeam == ASSUME OverlapStops = FALSE PROVE Spec => []NoFrozenBeam
<1>1. SpacedInv => NoFrozenBeam BY DEF SpacedInv
<1> QED BY <1>1, SpacedInvariance, PTL
=============================================================================
