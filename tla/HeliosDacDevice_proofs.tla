----------------------- MODULE HeliosDacDevice_proofs -----------------------
(***************************************************************************)
(* Proofs about HeliosDacDevice, for any number of threads: the discipline *)
(* of frameLock, the quiet of the stop window, and, if no more than one    *)
(* thread sends frames, that every frame is sent whole; and that with one  *)
(* such thread the device implements FrameSending.                         *)
(***************************************************************************)
EXTENDS DeviceSending, TLAPS

\* Nobody is inside once the destructor is done.
FreedInv == freed => frameLock = Nobody

LockInv == TypeOK /\ FreedInv

USE DEF shared, vars, Commands, Calls, Inside, Goto

-----------------------------------------------------------------------------
(* frameLock *)

LEMMA InitLock == Init => LockInv
<1> SUFFICES ASSUME Init PROVE LockInv
    OBVIOUS
<1>1. FlagsOK
    BY Zenon DEF Init, FlagsOK
<1>2. FramesOK /\ PlacesOK
    BY SMT DEF Init, FramesOK, PlacesOK, Frames
<1>3. LockOK /\ FreedInv
    BY ThreadsAssumption, SMT DEF Init, LockOK, FreedInv
<1> QED BY <1>1, <1>2, <1>3 DEF LockInv, TypeOK

LEMMA BeginLock == ASSUME LockInv, NEW c \in Clients, Begin(c) PROVE LockInv'
<1>1. FlagsOK' /\ FramesOK' /\ FreedInv'
    BY Zenon DEF LockInv, TypeOK, FlagsOK, FramesOK, FreedInv, Begin
<1>2. PlacesOK' /\ LockOK'
    BY SMT DEF LockInv, TypeOK, PlacesOK, LockOK, Begin, Entry
<1> QED BY <1>1, <1>2 DEF LockInv, TypeOK

LEMMA FrameStepLock == ASSUME LockInv, NEW c \in Clients, FrameStep(c) PROVE LockInv'
<1>1. FlagsOK' /\ FreedInv'
    BY Zenon DEF LockInv, TypeOK, FlagsOK, FreedInv, FrameStep, SendFrame
<1>2. FramesOK'
    BY SMT DEF LockInv, TypeOK, FramesOK, Frames, FrameStep, SendFrame
<1>3. PlacesOK' /\ LockOK'
    BY SMT DEF LockInv, TypeOK, PlacesOK, LockOK, FrameStep, SendFrame, DoFrame, TestReady
<1> QED BY <1>1, <1>2, <1>3 DEF LockInv, TypeOK

LEMMA LockLock == ASSUME LockInv, NEW c \in Clients, Lock(c) PROVE LockInv'
<1>1. FlagsOK' /\ FramesOK' /\ FreedInv'
    BY Zenon DEF LockInv, TypeOK, FlagsOK, FramesOK, FreedInv, Lock
<1>2. PlacesOK' /\ LockOK'
    BY ThreadsAssumption, SMT DEF LockInv, TypeOK, PlacesOK, LockOK, Lock, LockFrame
<1> QED BY <1>1, <1>2 DEF LockInv, TypeOK

LEMMA CommandStepLock == ASSUME LockInv, NEW c \in Clients, CommandStep(c) PROVE LockInv'
<1>1. FlagsOK' /\ FramesOK'
    BY Zenon DEF LockInv, TypeOK, FlagsOK, FramesOK, CommandStep
<1>2. PlacesOK' /\ LockOK'
    BY ThreadsAssumption, SMT
       DEF LockInv, TypeOK, PlacesOK, LockOK, CommandStep, Return, AfterStop
<1>3. FreedInv'
    BY Zenon DEF LockInv, FreedInv, CommandStep, Return, AfterStop
<1> QED BY <1>1, <1>2, <1>3 DEF LockInv, TypeOK

LEMMA DestructorLock == ASSUME LockInv, NEW c \in Clients, Destructor(c) PROVE LockInv'
<1>1. FlagsOK' /\ FramesOK' /\ FreedInv'
    <2>1. FlagsOK' /\ FramesOK'
        BY Zenon DEF LockInv, TypeOK, FlagsOK, FramesOK, Destructor
    <2>2. FreedInv'
        BY Zenon DEF LockInv, FreedInv, Destructor
    <2> QED BY <2>1, <2>2
<1>2. PlacesOK' /\ LockOK'
    BY ThreadsAssumption, SMT DEF LockInv, TypeOK, PlacesOK, LockOK, Destructor
<1> QED BY <1>1, <1>2 DEF LockInv, TypeOK

LEMMA FrameHandlerLock == ASSUME LockInv, FrameHandler PROVE LockInv'
BY Zenon DEF LockInv, TypeOK, FlagsOK, FramesOK, PlacesOK, LockOK, FreedInv, FrameHandler,
             AfterFrame

\* The invariant of frameLock: it is held by the one thread inside a command, and by
\* nobody once the object is freed.
THEOREM LockInvariance == Spec => []LockInv
<1>1. Init => LockInv
    BY InitLock
<1>2. LockInv /\ [Next]_vars => LockInv'
    <2> SUFFICES ASSUME LockInv, [Next]_vars PROVE LockInv'
        OBVIOUS
    <2>1. CASE UNCHANGED vars
        BY <2>1, Zenon DEF LockInv, TypeOK, FlagsOK, FramesOK, PlacesOK, LockOK, FreedInv
    <2>2. CASE FrameHandler
        BY <2>2, FrameHandlerLock
    <2>3. ASSUME NEW c \in Clients,
                 Begin(c) \/ FrameStep(c) \/ Lock(c) \/ CommandStep(c) \/ Destructor(c)
          PROVE LockInv'
        BY <2>3, BeginLock, FrameStepLock, LockLock, CommandStepLock, DestructorLock
    <2> QED BY <2>1, <2>2, <2>3 DEF Next
<1> QED BY <1>1, <1>2, PTL DEF Spec

\* frameLock admits one thread at a time, and every variable keeps its type.
THEOREM LockDiscipline == Spec => []TypeOK
BY LockInvariance, PTL DEF LockInv

\* A thread that sleeps in Stop() keeps every other command, and the end of the
\* destructor, away from the device.
THEOREM StopKeptQuiet == Spec => []StopWindowQuiet
<1>1. LockInv => StopWindowQuiet
    <2> SUFFICES ASSUME LockInv, NEW c \in Clients, NEW d \in Clients, pc[c] = "sleep"
                 PROVE  ~freed /\ (d # c => pc[d] \notin Inside)
        BY DEF StopWindowQuiet
    <2>1. frameLock = c
        BY DEF LockInv, TypeOK, LockOK
    <2>2. ~freed
        BY <2>1, ThreadsAssumption DEF LockInv, FreedInv
    <2>3. d # c => pc[d] \notin Inside
        BY <2>1, Zenon DEF LockInv, TypeOK, LockOK
    <2> QED BY <2>2, <2>3
<1> QED BY <1>1, LockInvariance, PTL

-----------------------------------------------------------------------------
(* The frame buffer *)

\* The application keeps to one thread that sends frames.
OneSender == \A c, d \in Senders : c = d

\* A sender that has found frameReady clear, until it hands the frame over.
Filling == {"fill", "filling", "handOver", "doFrame", "transfer"}

\* Only senders work on frames, and only with no frame handed over.
SenderInv ==
    \A c \in Clients : /\ pc[c] \in Filling \cup {"ready"} => c \in Senders
                       /\ pc[c] \in Filling => ~frameReady

\* The buffer holds what frameReady announces, or what the sender has put there.
BufferInv ==
    /\ frameReady => buffer = pending
    /\ \A c \in Clients : pc[c] \in {"handOver", "doFrame", "transfer"} => buffer = mine[c]

\* The handler works on a frame handed over.
HandlerInv == ~freed => (hpc \in {"doFrame", "transfer", "clear"} => frameReady)

FrameInv == LockInv /\ SenderInv /\ BufferInv /\ HandlerInv

USE DEF Filling

LEMMA BeginFrames == ASSUME FrameInv, NEW c \in Clients, Begin(c) PROVE FrameInv'
<1>1. LockInv'
    BY BeginLock DEF FrameInv
<1>2. SenderInv' /\ BufferInv'
    BY SMT DEF FrameInv, LockInv, TypeOK, PlacesOK, SenderInv, BufferInv, Begin, Entry
<1>3. HandlerInv'
    BY Zenon DEF FrameInv, HandlerInv, Begin
<1> QED BY <1>1, <1>2, <1>3 DEF FrameInv

LEMMA FrameStepFrames ==
    ASSUME OneSender, FrameInv, NEW c \in Clients, FrameStep(c) PROVE FrameInv'
<1>1. LockInv'
    BY FrameStepLock DEF FrameInv
<1>2. pc[c] \in Filling \cup {"ready"} /\ c \in Senders
    BY SMT DEF FrameInv, SenderInv, FrameStep, SendFrame, DoFrame
<1>3. \A d \in Clients : pc[d] \in Filling \cup {"ready"} => d = c
    BY <1>2, SMT DEF FrameInv, SenderInv, OneSender
<1>4. \A d \in Clients : d # c => pc'[d] = pc[d] /\ pc[d] \notin Filling \cup {"ready"}
    BY <1>3, SMT DEF FrameInv, LockInv, TypeOK, PlacesOK, FrameStep, SendFrame, DoFrame, TestReady
<1>5. pc'[c] \in Filling => ~frameReady'
    <2>1. CASE pc[c] = "ready"
        BY <2>1, SMT DEF FrameInv, LockInv, TypeOK, PlacesOK, FrameStep, SendFrame, DoFrame,
                         TestReady
    <2>2. CASE pc[c] \in Filling
        <3>1. CASE pc[c] = "handOver"
            BY <3>1, SMT DEF FrameInv, LockInv, TypeOK, PlacesOK, FrameStep, SendFrame, DoFrame
        <3>2. CASE pc[c] # "handOver"
            <4>1. frameReady' = frameReady
                BY <2>2, <3>2, Zenon DEF FrameStep, SendFrame, DoFrame
            <4> QED BY <2>2, <4>1, Zenon DEF FrameInv, SenderInv
        <3> QED BY <3>1, <3>2
    <2> QED BY <1>2, <2>1, <2>2
<1>6. SenderInv'
    BY <1>2, <1>4, <1>5, Zenon DEF SenderInv
<1>7. frameReady' => buffer' = pending'
    <2>1. CASE pc[c] = "handOver"
        BY <2>1, SMT DEF FrameInv, BufferInv, FrameStep, SendFrame, DoFrame
    <2>2. CASE pc[c] \in {"fill", "filling"}
        BY <2>2, <1>2, Zenon DEF FrameInv, SenderInv, FrameStep, SendFrame, DoFrame
    <2>3. CASE pc[c] \in {"ready", "doFrame", "transfer"}
        BY <2>3, Zenon DEF FrameInv, BufferInv, FrameStep, SendFrame, DoFrame
    <2> QED BY <1>2, <2>1, <2>2, <2>3
<1>8. pc'[c] \in {"handOver", "doFrame", "transfer"} => buffer' = mine'[c]
    BY <1>2, SMT DEF FrameInv, LockInv, TypeOK, PlacesOK, BufferInv, FrameStep, SendFrame,
                     DoFrame, TestReady
<1>9. BufferInv'
    BY <1>4, <1>7, <1>8, Zenon DEF BufferInv
<1>10. HandlerInv'
    <2>1. CASE pc[c] = "handOver"
        BY <2>1, SMT DEF FrameStep, SendFrame, DoFrame, HandlerInv
    <2>2. CASE pc[c] # "handOver"
        BY <2>2, Zenon DEF FrameInv, HandlerInv, FrameStep, SendFrame
    <2> QED BY <2>1, <2>2
<1> QED BY <1>1, <1>6, <1>9, <1>10 DEF FrameInv

LEMMA CommandFrames ==
    ASSUME FrameInv, NEW c \in Clients, Lock(c) \/ CommandStep(c) \/ Destructor(c)
    PROVE  FrameInv'
<1>1. LockInv'
    BY LockLock, CommandStepLock, DestructorLock DEF FrameInv
<1>2. UNCHANGED <<frameReady, buffer, pending, mine, hpc>> /\ (freed => freed')
    <2>1. CASE Lock(c)
        BY <2>1, Zenon DEF Lock
    <2>2. CASE CommandStep(c)
        BY <2>2, Zenon DEF CommandStep
    <2>3. CASE Destructor(c)
        BY <2>3, Zenon DEF Destructor
    <2> QED BY <2>1, <2>2, <2>3
<1>3. \A d \in Clients : pc'[d] = pc[d] \/ pc'[d] \notin Filling \cup {"ready"}
    BY SMT DEF FrameInv, LockInv, TypeOK, PlacesOK, Lock, CommandStep, Return, AfterStop, Destructor
<1>4. SenderInv' /\ BufferInv' /\ HandlerInv'
    BY <1>2, <1>3, Zenon DEF FrameInv, SenderInv, BufferInv, HandlerInv
<1> QED BY <1>1, <1>4 DEF FrameInv

LEMMA HandlerFrames == ASSUME FrameInv, FrameHandler PROVE FrameInv'
<1>1. LockInv'
    BY FrameHandlerLock DEF FrameInv
<1>2. UNCHANGED <<buffer, freed, pending, pc, mine>> /\ (frameReady' => frameReady)
    <2>1. frameReady' = FALSE \/ frameReady' = frameReady
        BY Zenon DEF FrameHandler
    <2>2. frameReady' => frameReady
        BY <2>1
    <2> QED BY <2>2, Zenon DEF FrameHandler
<1>3. SenderInv' /\ BufferInv'
    BY <1>2, Zenon DEF FrameInv, SenderInv, BufferInv
<1>4. ASSUME ~freed, hpc' \in {"doFrame", "transfer", "clear"} PROVE frameReady'
    <2>1. CASE hpc = "poll"
        <3>1. TRUE \in Read(frameReady) /\ frameReady' = frameReady
            BY <1>4, <2>1, Zenon DEF FrameHandler
        <3> QED BY <1>4, <3>1, Zenon DEF Read
    <2>2. CASE hpc \in {"doFrame", "transfer"}
        BY <1>4, <2>2, Zenon DEF FrameHandler, FrameInv, HandlerInv
    <2>3. CASE hpc = "clear"
        BY <1>4, <2>3, Zenon DEF FrameHandler
    <2>4. hpc # "gone"
        BY Zenon DEF FrameHandler
    <2> QED BY <2>1, <2>2, <2>3, <2>4, Zenon DEF FrameInv, LockInv, TypeOK, PlacesOK
<1>5. HandlerInv'
    BY <1>2, <1>4, Zenon DEF HandlerInv
<1> QED BY <1>1, <1>3, <1>5 DEF FrameInv

LEMMA InitFrames == Init => FrameInv
BY InitLock, SMT DEF Init, FrameInv, SenderInv, BufferInv, HandlerInv

LEMMA NextFrames == ASSUME OneSender, FrameInv, [Next]_vars PROVE FrameInv'
<1>1. CASE UNCHANGED vars
    <2>1. LockInv'
        BY <1>1, Zenon
           DEF FrameInv, LockInv, TypeOK, FlagsOK, FramesOK, PlacesOK, LockOK, FreedInv
    <2> QED BY <1>1, <2>1, Zenon DEF FrameInv, SenderInv, BufferInv, HandlerInv
<1>2. CASE FrameHandler
    BY <1>2, HandlerFrames
<1>3. ASSUME NEW c \in Clients,
             Begin(c) \/ FrameStep(c) \/ Lock(c) \/ CommandStep(c) \/ Destructor(c)
      PROVE FrameInv'
    BY <1>3, OneSender, BeginFrames, FrameStepFrames, CommandFrames
<1> QED BY <1>1, <1>2, <1>3 DEF Next

\* With one sender, whatever is being transferred is one whole frame, the one meant,
\* although neither SendFrame nor FrameHandler takes frameLock.
THEOREM FramesSentWhole == ASSUME OneSender PROVE Spec => []FramesWhole
<1>1. FrameInv => FramesWhole
    BY SMT DEF FrameInv, SenderInv, BufferInv, HandlerInv, FramesWhole
<1> QED BY <1>1, InitFrames, NextFrames, PTL DEF Spec

-----------------------------------------------------------------------------
(* The device implements FrameSending *)

\* From the beginning of the destructor on no call is under way, and none begins.
DestroyInv ==
    (freed \/ \E c \in Clients : pc[c] = "destroy") =>
        closed /\ \A c \in Clients : pc[c] \in {"idle", "destroy", "gone"}

\* Each thread's frames are its own.
OwnInv == \A c \in Clients : mine[c] \in {<<c, 0>>, <<c, 1>>}

SendInv == FrameInv /\ DestroyInv /\ OwnInv

LEMMA InitSend == Init => SendInv
BY InitFrames, SMT DEF SendInv, DestroyInv, OwnInv, Init

LEMMA DestroyStep == ASSUME LockInv, DestroyInv, [Next]_vars PROVE DestroyInv'
<1> USE DEF LockInv, TypeOK, FlagsOK, PlacesOK, DestroyInv
<1>1. CASE UNCHANGED vars
    BY <1>1, Zenon
<1>2. CASE FrameHandler
    BY <1>2, Zenon DEF FrameHandler
<1>3. ASSUME NEW c \in Clients, Begin(c) PROVE DestroyInv'
    BY <1>3, SMT DEF Begin, Entry
<1>4. ASSUME NEW c \in Clients, FrameStep(c) PROVE DestroyInv'
    BY <1>4, SMT DEF FrameStep, SendFrame, DoFrame, TestReady
<1>5. ASSUME NEW c \in Clients, Lock(c) PROVE DestroyInv'
    BY <1>5, SMT DEF Lock
<1>6. ASSUME NEW c \in Clients, CommandStep(c) PROVE DestroyInv'
    BY <1>6, SMT DEF CommandStep, Return, AfterStop
<1>7. ASSUME NEW c \in Clients, Destructor(c) PROVE DestroyInv'
    BY <1>7, SMT DEF Destructor
<1> QED BY <1>1, <1>2, <1>3, <1>4, <1>5, <1>6, <1>7 DEF Next

LEMMA OwnStep == ASSUME LockInv, OwnInv, [Next]_vars PROVE OwnInv'
<1>1. ASSUME NEW c \in Clients, FrameStep(c) PROVE OwnInv'
    BY <1>1, SMT DEF LockInv, TypeOK, FramesOK, OwnInv, FrameStep, SendFrame
<1>2. UNCHANGED mine => OwnInv'
    BY Zenon DEF OwnInv
<1>3. UNCHANGED mine \/ \E c \in Clients : FrameStep(c)
    BY Zenon DEF Next, Begin, Lock, CommandStep, Destructor, FrameHandler
<1> QED BY <1>1, <1>2, <1>3

LEMMA SenderIs ==
    ASSUME Senders = {Sender}, SendInv
    PROVE  /\ Sender \in Clients /\ OneSender
           /\ \A c \in Clients : c # Sender => pc[c] \notin Filling \cup {"ready"}
           /\ mine[Sender] \in {<<Sender, 0>>, <<Sender, 1>>} /\ mine[Sender] # NoBytes
           /\ mine[Sender] \in Frames
           /\ frameReady => pc[Sender] \notin Filling
BY ThreadsAssumption, SMT
   DEF SendInv, FrameInv, LockInv, TypeOK, FramesOK, SenderInv, OneSender, OwnInv, Frames, NoBytes

\* Outside their frame calls, and with nothing destroyed, the clients change nothing.
LEMMA BeginSends ==
    ASSUME Senders = {Sender}, SendInv, NEW c \in Clients, Begin(c) \/ Lock(c)
    PROVE  UNCHANGED <<taken, out, latest, closed>>
<1>1. UNCHANGED <<freed, closed, frameReady, buffer, pending, mine, hpc>>
    BY Zenon DEF Begin, Lock
<1>2. /\ pc'[Sender] \notin {"filling", "handOver", "doFrame", "transfer"}
         \/ pc'[Sender] = pc[Sender]
      /\ pc[Sender] \notin {"filling", "handOver", "doFrame", "transfer"}
         \/ pc'[Sender] = pc[Sender]
    BY SenderIs, SMT DEF SendInv, FrameInv, LockInv, TypeOK, PlacesOK, Begin, Entry, Lock
<1> QED BY <1>1, <1>2, SMT DEF taken, out, latest

LEMMA FrameStepSends ==
    ASSUME Senders = {Sender}, SendInv, NEW c \in Clients, FrameStep(c)
    PROVE  Sending!Next \/ UNCHANGED <<taken, out, latest, closed>>
<1>1. c = Sender
    BY SenderIs, SMT DEF FrameStep, SendFrame, DoFrame
<1>2. UNCHANGED <<closed, freed, hpc>> /\ ~freed
    BY SMT DEF SendInv, DestroyInv, FrameStep, SendFrame, DoFrame
<1>3. pc[Sender] \in Filling \cup {"ready"}
    BY <1>1, SMT DEF FrameStep, SendFrame, DoFrame
<1>4. pc[Sender] \in Filling => ~frameReady
    BY SenderIs
<1>5. CASE pc[Sender] \in {"ready", "fill"}
    <2>1. UNCHANGED <<frameReady, pending>>
        BY <1>1, <1>5, Zenon DEF FrameStep, SendFrame, DoFrame
    <2>2. \/ pc[Sender] = "ready" /\ pc'[Sender] \in {"idle", "fill"} /\ mine' = mine
          \/ /\ pc[Sender] = "fill" /\ pc'[Sender] = "filling"
             /\ mine'[Sender] = <<Sender, 1 - mine[Sender][2]>>
        BY <1>1, <1>5, SenderIs, SMT
           DEF SendInv, FrameInv, LockInv, TypeOK, PlacesOK, FramesOK, FrameStep, SendFrame,
               DoFrame, TestReady
    <2>3. taken' = taken
        BY <1>2, <2>1, <2>2, SMT DEF taken
    <2>4. latest' = latest
        BY <2>2, SenderIs, SMT DEF latest
    <2>5. out' = out
        <3>1. pc[Sender] = "ready" => buffer' = buffer
            BY <1>1, Zenon DEF FrameStep, SendFrame, DoFrame
        <3>2. pc[Sender] = "fill" => hpc # "transfer"
            BY <1>2, <1>4 DEF SendInv, FrameInv, HandlerInv
        <3> QED BY <1>2, <2>2, <3>1, <3>2, SMT DEF out
    <2> QED BY <1>2, <2>3, <2>4, <2>5
<1>6. CASE pc[Sender] = "filling"
    <2>1. UNCHANGED <<frameReady, pending, mine>> /\ buffer' = mine[Sender]
        BY <1>1, <1>6, Zenon DEF FrameStep, SendFrame, DoFrame
    <2>2. hpc # "transfer" /\ hpc # "clear"
        BY <1>2, <1>4, <1>6 DEF SendInv, FrameInv, HandlerInv
    <2>3. out' = NoBytes /\ out = NoBytes
        <3>1. pc'[Sender] # "transfer"
            BY <1>1, <1>6, SenderIs, SMT
               DEF SendInv, FrameInv, LockInv, TypeOK, PlacesOK, FrameStep, SendFrame, DoFrame
        <3> QED BY <1>2, <1>6, <2>2, <3>1, Zenon DEF out
    <2>4. CASE pc'[Sender] = "handOver"
        <3>1. taken' = taken /\ latest' = latest
            BY <1>2, <1>6, <2>1, <2>4, SMT DEF taken, latest
        <3> QED BY <1>2, <2>3, <3>1
    <2>5. CASE pc'[Sender] = "doFrame"
        <3>1. taken = NoBytes /\ taken' = mine[Sender] /\ latest' = mine[Sender]
            BY <1>2, <1>4, <1>6, <2>1, <2>5, SMT DEF taken, latest
        <3>2. latest # mine[Sender]
            BY <1>6, SenderIs, SMT DEF latest
        <3> QED BY <1>2, <2>3, <3>1, <3>2, SenderIs, Zenon DEF Sending!Next, Sending!Take
    <2>6. pc'[Sender] \in {"handOver", "doFrame"}
        BY <1>1, <1>6, SenderIs, SMT
           DEF SendInv, FrameInv, LockInv, TypeOK, PlacesOK, FrameStep, SendFrame, DoFrame
    <2> QED BY <2>4, <2>5, <2>6
<1>7. CASE pc[Sender] = "handOver"
    <2>1. /\ UNCHANGED <<buffer, mine>> /\ frameReady' = TRUE /\ pending' = mine[Sender]
          /\ pc' = [pc EXCEPT ![Sender] = "idle"]
        BY <1>1, <1>7, Zenon DEF FrameStep, SendFrame, DoFrame
    <2>2. hpc # "transfer" /\ hpc # "clear"
        BY <1>2, <1>4, <1>7 DEF SendInv, FrameInv, HandlerInv
    <2>3. pc'[Sender] = "idle"
        BY <2>1, SenderIs, SMT DEF SendInv, FrameInv, LockInv, TypeOK, PlacesOK
    <2>4. taken = NoBytes /\ taken' = mine[Sender] /\ latest' = mine[Sender]
        BY <1>2, <1>4, <1>7, <2>1, <2>2, <2>3, SMT DEF taken, latest
    <2>5. out = NoBytes /\ out' = NoBytes
        BY <1>2, <1>7, <2>2, <2>3, Zenon DEF out
    <2>6. latest # mine[Sender]
        BY <1>7, SenderIs, SMT DEF latest
    <2> QED BY <1>2, <2>4, <2>5, <2>6, SenderIs, Zenon DEF Sending!Next, Sending!Take
<1>8. CASE pc[Sender] = "doFrame"
    <2>1. /\ UNCHANGED <<frameReady, pending, mine, buffer>>
          /\ pc' = [pc EXCEPT ![Sender] = IF closed THEN "idle" ELSE "transfer"]
        BY <1>1, <1>8, Zenon DEF FrameStep, SendFrame, DoFrame
    <2>2. hpc # "transfer" /\ ~frameReady
        BY <1>2, <1>4, <1>8 DEF SendInv, FrameInv, HandlerInv
    <2>3. pc'[Sender] = IF closed THEN "idle" ELSE "transfer"
        BY <2>1, SenderIs, SMT DEF SendInv, FrameInv, LockInv, TypeOK, PlacesOK
    <2>4. taken = mine[Sender] /\ out = NoBytes /\ latest' = latest
        BY <1>2, <1>8, <2>1, <2>2, <2>3, SMT DEF taken, out, latest
    <2>5. buffer = mine[Sender]
        BY <1>8, SenderIs DEF SendInv, FrameInv, BufferInv
    <2>6. CASE closed
        <3>1. taken' = NoBytes /\ out' = NoBytes
            BY <1>2, <2>1, <2>2, <2>3, <2>6, SMT DEF taken, out
        <3> QED BY <1>2, <2>4, <2>6, <3>1, Zenon DEF Sending!Next, Sending!Drop
    <2>7. CASE ~closed
        <3>1. taken' = taken /\ out' = taken
            BY <1>2, <1>8, <2>1, <2>3, <2>4, <2>5, <2>7, SMT DEF taken, out
        <3> QED BY <1>2, <2>4, <2>7, <3>1, SenderIs, Zenon DEF Sending!Next, Sending!Begin
    <2> QED BY <2>6, <2>7
<1>9. CASE pc[Sender] = "transfer"
    <2>1. /\ UNCHANGED <<frameReady, pending, mine, buffer>>
          /\ pc' = [pc EXCEPT ![Sender] = "idle"]
        BY <1>1, <1>9, Zenon DEF FrameStep, SendFrame, DoFrame
    <2>2. hpc # "transfer" /\ ~frameReady
        BY <1>2, <1>4, <1>9 DEF SendInv, FrameInv, HandlerInv
    <2>3. pc'[Sender] = "idle"
        BY <2>1, SenderIs, SMT DEF SendInv, FrameInv, LockInv, TypeOK, PlacesOK
    <2>4. out = mine[Sender]
        BY <1>2, <1>9, SenderIs, SMT DEF out, SendInv, FrameInv, BufferInv
    <2>5. taken' = NoBytes /\ out' = NoBytes /\ latest' = latest
        BY <1>2, <1>9, <2>1, <2>2, <2>3, SMT DEF taken, out, latest
    <2> QED BY <1>2, <2>4, <2>5, SenderIs, Zenon DEF Sending!Next, Sending!End
<1> QED BY <1>3, <1>5, <1>6, <1>7, <1>8, <1>9

LEMMA CommandSends ==
    ASSUME Senders = {Sender}, SendInv, NEW c \in Clients, CommandStep(c)
    PROVE  Sending!Next \/ UNCHANGED <<taken, out, latest, closed>>
<1>1. UNCHANGED <<freed, frameReady, buffer, pending, mine, hpc>>
    BY Zenon DEF CommandStep
<1>2. closed' = closed \/ closed' = TRUE
    BY Zenon DEF CommandStep
<1>3. \/ pc'[Sender] = pc[Sender]
      \/ pc[Sender] \notin Filling /\ pc'[Sender] \notin Filling
    BY SenderIs, SMT
       DEF SendInv, FrameInv, LockInv, TypeOK, PlacesOK, CommandStep, Return, AfterStop
<1>4. UNCHANGED <<taken, out, latest>>
    BY <1>1, <1>3, SMT DEF taken, out, latest
<1> QED BY <1>2, <1>4, Zenon DEF Sending!Next, Sending!Close

LEMMA DestructorSends ==
    ASSUME Senders = {Sender}, SendInv, NEW c \in Clients, Destructor(c)
    PROVE  Sending!Next \/ UNCHANGED <<taken, out, latest, closed>>
<1>1. UNCHANGED <<frameReady, buffer, pending, mine, hpc>>
    BY Zenon DEF Destructor
<1>2. pc[Sender] \notin Filling /\ pc'[Sender] \notin Filling
    <2>1. pc[Sender] \in {"idle", "destroy", "gone"}
        BY SenderIs, Zenon DEF SendInv, DestroyInv, Destructor
    <2>2. pc'[Sender] \in {"idle", "destroy", "gone"}
        BY <2>1, SenderIs, SMT DEF SendInv, FrameInv, LockInv, TypeOK, PlacesOK, Destructor
    <2> QED BY <2>1, <2>2
<1>3. latest' = latest
    BY <1>1, <1>2, SMT DEF latest
<1>4. CASE closed' = TRUE /\ freed' = freed
    <2>1. taken' = taken /\ out' = out
        BY <1>1, <1>2, <1>4, SMT DEF taken, out
    <2> QED BY <1>3, <1>4, <2>1, Zenon DEF Sending!Next, Sending!Close
<1>5. CASE pc[c] = "destroy" /\ freed' = TRUE /\ closed' = closed
    <2>1. closed
        BY <1>5 DEF SendInv, DestroyInv
    <2>2. taken' = NoBytes /\ out' = NoBytes
        BY <1>5 DEF taken, out
    <2> QED BY <1>3, <1>5, <2>1, <2>2, Zenon DEF Sending!Next, Sending!Drop
<1> QED BY <1>4, <1>5, Zenon DEF Destructor

LEMMA HandlerSends ==
    ASSUME Senders = {Sender}, SendInv, FrameHandler
    PROVE  Sending!Next \/ UNCHANGED <<taken, out, latest, closed>>
<1>1. UNCHANGED <<closed, buffer, freed, pending, pc, mine>>
    BY Zenon DEF FrameHandler
<1>2. latest' = latest
    BY <1>1 DEF latest
<1>3. CASE freed
    BY <1>1, <1>2, <1>3 DEF taken, out
<1>4. ASSUME ~freed, hpc \in {"doFrame", "transfer", "clear"}
      PROVE  frameReady /\ pc[Sender] \notin Filling /\ buffer = pending
    BY <1>4, SenderIs DEF SendInv, FrameInv, HandlerInv, BufferInv
<1>5. frameReady => pending # NoBytes
    BY ThreadsAssumption, SMT DEF SendInv, FrameInv, LockInv, TypeOK, FramesOK, Frames, NoFrame, NoBytes
<1>6. CASE ~freed /\ hpc = "poll"
    <2>1. hpc' \in {"gone", "doFrame"} /\ frameReady' = frameReady
        BY <1>6, Zenon DEF FrameHandler
    <2> QED BY <1>1, <1>2, <1>6, <2>1, SMT DEF taken, out
<1>7. CASE ~freed /\ hpc = "doFrame"
    <2>1. frameReady' = frameReady
        BY <1>7, Zenon DEF FrameHandler
    <2>2. out = NoBytes /\ taken = pending
        BY <1>4, <1>7, SMT DEF taken, out
    <2>3. CASE hpc' = "transfer"
        <3>1. ~closed
            BY <1>7, <2>3, Zenon DEF FrameHandler, Read
        <3>2. taken' = taken /\ out' = taken
            BY <1>1, <1>4, <1>7, <2>1, <2>2, <2>3, SMT DEF taken, out
        <3> QED BY <1>1, <1>2, <1>4, <1>5, <1>7, <2>2, <3>1, <3>2, Zenon
                DEF Sending!Next, Sending!Begin
    <2>4. CASE hpc' = "clear"
        <3>1. closed
            BY <1>7, <2>4, Zenon DEF FrameHandler, Read
        <3>2. taken' = NoBytes /\ out' = NoBytes
            BY <1>1, <1>4, <1>7, <2>4, SMT DEF taken, out
        <3> QED BY <1>1, <1>2, <3>1, <3>2, Zenon DEF Sending!Next, Sending!Drop
    <2>5. CASE hpc' = "gone"
        BY <1>1, <1>2, <1>4, <1>7, <2>1, <2>5, SMT DEF taken, out
    <2>6. hpc' \in {"transfer", "clear", "gone"}
        BY <1>7, Zenon DEF FrameHandler
    <2> QED BY <2>3, <2>4, <2>5, <2>6
<1>8. CASE ~freed /\ hpc = "transfer"
    <2>1. hpc' = "clear" /\ frameReady' = frameReady
        BY <1>8, Zenon DEF FrameHandler, AfterFrame
    <2>2. out = pending /\ taken' = NoBytes /\ out' = NoBytes
        BY <1>1, <1>4, <1>8, <2>1, SMT DEF taken, out
    <2> QED BY <1>1, <1>2, <1>4, <1>5, <1>8, <2>2, Zenon DEF Sending!Next, Sending!End
<1>9. CASE ~freed /\ hpc = "clear"
    <2>1. hpc' = "poll" /\ frameReady' = FALSE
        BY <1>9, Zenon DEF FrameHandler
    <2> QED BY <1>1, <1>2, <1>4, <1>9, <2>1, SMT DEF taken, out
<1>10. hpc \in {"poll", "doFrame", "transfer", "clear"}
    BY Zenon DEF FrameHandler
<1> QED BY <1>3, <1>6, <1>7, <1>8, <1>9, <1>10

\* With one sender the device is a FrameSending: each frame it takes is sent once,
\* whole, before the next is taken, and is dropped only if the device is closed.
THEOREM DeviceSendsFrames == ASSUME Senders = {Sender} PROVE Spec => ImplementsSending
<1>1. Init => Sending!Init
    <2> SUFFICES ASSUME Init PROVE Sending!Init
        OBVIOUS
    <2>1. SendInv
        BY InitSend
    <2>2. pc[Sender] = "idle" /\ ~freed /\ ~frameReady /\ ~closed /\ hpc = "poll"
        BY <2>1, SenderIs, SMT DEF Init
    <2>3. taken = NoBytes /\ out = NoBytes /\ latest = mine[Sender]
        BY <2>2, SMT DEF taken, out, latest
    <2> QED BY <2>1, <2>2, <2>3, SenderIs, Zenon DEF Sending!Init
<1>2. SendInv /\ [Next]_vars => SendInv'
    <2> SUFFICES ASSUME SendInv, [Next]_vars PROVE SendInv'
        OBVIOUS
    <2>1. FrameInv'
        BY SenderIs, NextFrames DEF SendInv
    <2>2. DestroyInv' /\ OwnInv'
        BY DestroyStep, OwnStep DEF SendInv, FrameInv
    <2> QED BY <2>1, <2>2 DEF SendInv
<1>3. SendInv /\ [Next]_vars => [Sending!Next]_Sending!vars
    <2> SUFFICES ASSUME SendInv, [Next]_vars
                 PROVE  Sending!Next \/ UNCHANGED <<taken, out, latest, closed>>
        BY DEF Sending!vars
    <2>1. CASE UNCHANGED vars
        BY <2>1, SMT DEF taken, out, latest
    <2>2. CASE FrameHandler
        BY <2>2, HandlerSends
    <2>3. ASSUME NEW c \in Clients,
                 Begin(c) \/ FrameStep(c) \/ Lock(c) \/ CommandStep(c) \/ Destructor(c)
          PROVE  Sending!Next \/ UNCHANGED <<taken, out, latest, closed>>
        BY <2>3, BeginSends, FrameStepSends, CommandSends, DestructorSends
    <2> QED BY <2>1, <2>2, <2>3 DEF Next
<1> QED BY <1>1, <1>2, <1>3, InitSend, PTL DEF Spec, ImplementsSending, Sending!Spec
=============================================================================
