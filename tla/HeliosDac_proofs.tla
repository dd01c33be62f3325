-------------------------- MODULE HeliosDac_proofs --------------------------
(***************************************************************************)
(* Proofs about HeliosDac, for any number of threads and devices: every    *)
(* safety property that its run checks.                                    *)
(***************************************************************************)
EXTENDS HeliosDac, TLAPS

USE DEF object, libusb, local, ghosts, Goto, Opening, Closing, Using

-----------------------------------------------------------------------------
(* The list *)

LEMMA Appended ==
    ASSUME NEW d \in Devices, deviceList \in Seq(Devices), deviceList' = Append(deviceList, d)
    PROVE  /\ deviceList' \in Seq(Devices) /\ deviceList' # <<>>
           /\ DOMAIN deviceList = 1 .. Len(deviceList)
           /\ DOMAIN deviceList' = 1 .. Len(deviceList) + 1
           /\ \A n \in DOMAIN deviceList : deviceList'[n] = deviceList[n]
           /\ deviceList'[Len(deviceList) + 1] = d
           /\ Len(deviceList) \in Nat
BY SMT

LEMMA AliveAppended ==
    ASSUME NEW d \in Devices, deviceList \in Seq(Devices), deviceList' = Append(deviceList, d)
    PROVE  \A e : Alive(e)' <=> Alive(e) \/ e = d
<1>1. ASSUME NEW e, Alive(e) \/ e = d PROVE Alive(e)'
    BY <1>1, Appended, SMT DEF Alive
<1>2. ASSUME NEW e, Alive(e)' PROVE Alive(e) \/ e = d
    BY <1>2, Appended, SMT DEF Alive
<1> QED BY <1>1, <1>2

LEMMA Shortened ==
    ASSUME deviceList \in Seq(Devices), deviceList # <<>>, deviceList' = Tail(deviceList)
    PROVE  /\ deviceList' \in Seq(Devices)
           /\ Len(deviceList) \in Nat \ {0}
           /\ DOMAIN deviceList = 1 .. Len(deviceList)
           /\ DOMAIN deviceList' = 1 .. Len(deviceList) - 1
           /\ \A n \in DOMAIN deviceList' : deviceList'[n] = deviceList[n + 1]
           /\ Head(deviceList) = deviceList[1] /\ Head(deviceList) \in Devices
BY SMT

LEMMA AliveShortened ==
    ASSUME deviceList \in Seq(Devices), deviceList # <<>>, deviceList' = Tail(deviceList)
    PROVE  \A e : /\ Alive(e)' => Alive(e)
                  /\ Alive(e) => Alive(e)' \/ e = Head(deviceList)
<1>1. ASSUME NEW e, Alive(e)' PROVE Alive(e)
    <2>1. PICK n \in DOMAIN deviceList' : deviceList'[n] = e
        BY <1>1 DEF Alive
    <2>2. n + 1 \in DOMAIN deviceList /\ deviceList[n + 1] = e
        BY <2>1, Shortened, SMT
    <2> QED BY <2>2 DEF Alive
<1>2. ASSUME NEW e, Alive(e), e # Head(deviceList) PROVE Alive(e)'
    <2>1. PICK n \in DOMAIN deviceList : deviceList[n] = e
        BY <1>2 DEF Alive
    <2>2. n - 1 \in DOMAIN deviceList' /\ deviceList'[n - 1] = e
        BY <1>2, <2>1, Shortened, SMT
    <2> QED BY <2>2 DEF Alive
<1> QED BY <1>1, <1>2
-----------------------------------------------------------------------------
(* Types and threadLock *)

ThreadStep(t) == BeginOpen(t) \/ BeginClose(t) \/ BeginCall(t) \/ Proceed(t) \/ Wait(t)

LEMMA StepsOf ==
    ASSUME [Next]_vars
    PROVE  \/ UNCHANGED <<object, libusb, pc, local, ghosts>>
           \/ Plug \/ Unplug
           \/ \E t \in Threads : ThreadStep(t)
BY DEF Next, ThreadStep, vars

LEMMA FlagsStep == ASSUME TypeOK, NEW t \in Threads, ThreadStep(t) PROVE FlagsOK'
BY Zenon
   DEF TypeOK, FlagsOK, ThreadStep, Proceed, Wait, BeginOpen, BeginClose, BeginCall, InitLibusb,
       Enumerate, OpenOne, EndOpen, DestroyOne, EndClose, LeaveDevice, LockOpen, LockClose,
       FindDevice, EnterDevice, Fails, InitedAfter

LEMMA LibusbStep == ASSUME TypeOK, NEW t \in Threads, ThreadStep(t) PROVE LibusbOK'
BY MaxRefsAssumption, SMT
   DEF TypeOK, LibusbOK, ThreadsOK, ThreadStep, Proceed, Wait, BeginOpen, BeginClose, BeginCall,
       InitLibusb, Enumerate, OpenOne, EndOpen, DestroyOne, EndClose, LeaveDevice, LockOpen,
       LockClose, FindDevice, EnterDevice, Fails, Released

PlaceOf == {"idle", "find", "lost"} \cup Opening \cup Closing \cup Using

LEMMA ThreadsStep == ASSUME TypeOK, NEW t \in Threads, ThreadStep(t) PROVE ThreadsOK'
<1> USE DEF ThreadStep, Proceed, Wait, BeginOpen, BeginClose, BeginCall, InitLibusb, Enumerate,
            OpenOne, EndOpen, DestroyOne, EndClose, LeaveDevice, LockOpen, LockClose, FindDevice,
            EnterDevice
<1>1. pc' \in [Threads -> PlaceOf]
    <2>1. pc' = pc \/ \E p \in PlaceOf : pc' = [pc EXCEPT ![t] = p]
        BY Zenon DEF PlaceOf
    <2> QED BY <2>1, SMT DEF TypeOK, ThreadsOK, PlaceOf
<1>2. todo' \in [Threads -> SUBSET Devices]
    <2>1. todo' = todo \/ \E x \in {plugged} \cup {todo[t] \ {d} : d \in todo[t]} :
                             todo' = [todo EXCEPT ![t] = x]
        BY Zenon
    <2>2. todo' = todo \/ \E x \in SUBSET Devices : todo' = [todo EXCEPT ![t] = x]
        BY <2>1, Zenon DEF TypeOK, ThreadsOK, LibusbOK
    <2> QED BY <2>2, SMT DEF TypeOK, ThreadsOK
<1>3. devNum' \in [Threads -> Nat]
    <2>1. devNum' = devNum \/ \E n \in {0, devNum[t] + 1} : devNum' = [devNum EXCEPT ![t] = n]
        BY Zenon
    <2> QED BY <2>1, SMT DEF TypeOK, ThreadsOK
<1>4. dev' \in [Threads -> Devices \cup {Nobody}]
    <2>1. dev' = dev \/ \E d \in {dev[t], Nobody} \cup {deviceList[n] : n \in DOMAIN deviceList} :
                           dev' = [dev EXCEPT ![t] = d]
        BY Zenon
    <2>2. \A n \in DOMAIN deviceList : deviceList[n] \in Devices
        BY SMT DEF TypeOK
    <2> QED BY <2>1, <2>2, SMT DEF TypeOK, ThreadsOK
<1> QED BY <1>1, <1>2, <1>3, <1>4 DEF ThreadsOK, PlaceOf

LEMMA LockStep == ASSUME TypeOK, NEW t \in Threads, ThreadStep(t) PROVE LockOK'
BY ThreadsAssumption, SMT
   DEF TypeOK, ThreadsOK, LockOK, ThreadStep, Proceed, Wait, BeginOpen, BeginClose, BeginCall,
       InitLibusb, Enumerate, OpenOne, EndOpen, DestroyOne, EndClose, LeaveDevice, LockOpen,
       LockClose, FindDevice, EnterDevice, Unlock, Lock

LEMMA ListStep ==
    ASSUME TypeOK, NEW t \in Threads, ThreadStep(t) PROVE deviceList' \in Seq(Devices)
<1>1. CASE OpenOne(t)
    BY <1>1, Appended, SMT DEF TypeOK, ThreadsOK, OpenOne, Listed
<1>2. CASE DestroyOne(t)
    BY <1>2, Shortened DEF TypeOK, DestroyOne
<1>3. CASE deviceList' = deviceList
    BY <1>3 DEF TypeOK
<1>4. ThreadStep(t) => OpenOne(t) \/ DestroyOne(t) \/ deviceList' = deviceList
    BY Zenon
       DEF ThreadStep, Proceed, Wait, BeginOpen, BeginClose, BeginCall, InitLibusb, Enumerate,
           EndOpen, EndClose, LeaveDevice, LockOpen, LockClose, FindDevice, EnterDevice
<1> QED BY <1>1, <1>2, <1>3, <1>4

LEMMA TypeStep == TypeOK /\ [Next]_vars => TypeOK'
<1> SUFFICES ASSUME TypeOK, [Next]_vars PROVE TypeOK'
    OBVIOUS
<1>1. CASE UNCHANGED <<object, libusb, pc, local, ghosts>>
    BY <1>1, Zenon DEF TypeOK, FlagsOK, LibusbOK, ThreadsOK, LockOK
<1>2. CASE Plug \/ Unplug
    <2>1. LibusbOK'
        BY <1>2, SMT DEF TypeOK, LibusbOK, Plug, Unplug
    <2>2. UNCHANGED <<object, pc, local, ghosts>>
        BY <1>2, Zenon DEF Plug, Unplug
    <2> QED BY <2>1, <2>2, Zenon DEF TypeOK, FlagsOK, ThreadsOK, LockOK
<1>3. ASSUME NEW t \in Threads, ThreadStep(t) PROVE TypeOK'
    BY <1>3, FlagsStep, LibusbStep, ThreadsStep, LockStep, ListStep DEF TypeOK
<1> QED BY <1>1, <1>2, <1>3, StepsOf

LEMMA InitType == Init => TypeOK
<1> SUFFICES ASSUME Init PROVE TypeOK
    OBVIOUS
<1>1. FlagsOK
    BY Zenon DEF Init, FlagsOK
<1>2. LibusbOK /\ ThreadsOK
    BY MaxRefsAssumption, SMT DEF Init, LibusbOK, ThreadsOK
<1>3. LockOK /\ deviceList \in Seq(Devices)
    BY ThreadsAssumption, SMT DEF Init, LockOK
<1> QED BY <1>1, <1>2, <1>3 DEF TypeOK

\* threadLock admits one thread at a time to the list, and every variable keeps its type.
THEOREM LockDiscipline == Spec => []TypeOK
BY InitType, TypeStep, PTL DEF Spec

-----------------------------------------------------------------------------
(* The list, inited and the claimed interfaces *)

\* What the thread that changes the list has done so far.
OpenInv ==
    /\ InitedMeansOpen
    /\ \A t \in Threads : /\ pc[t] = "scan" => (deviceList # <<>> <=> inited \/ devNum[t] > 0)
                          /\ pc[t] = "clear" => ~inited

CommandInv == \A t \in Threads : pc[t] = "command" => Alive(dev[t])

ListInv == TypeOK /\ NoDeviceTwice /\ OpenInv /\ CommandInv

LEMMA NoTwiceStep ==
    ASSUME ListInv, NEW t \in Threads, ThreadStep(t) PROVE NoDeviceTwice'
<1> deviceList \in Seq(Devices)
    BY DEF ListInv, TypeOK
<1>1. ASSUME NEW d \in Devices, d \notin claims, claims' = claims \cup {d}, dropped' = dropped,
             deviceList' = Append(deviceList, d)
      PROVE  NoDeviceTwice'
    <2>1. \A n \in DOMAIN deviceList : deviceList[n] # d
        BY <1>1, Zenon DEF ListInv, NoDeviceTwice, Alive
    <2>2. \A m, n \in DOMAIN deviceList' : deviceList'[m] = deviceList'[n] => m = n
        BY <1>1, <2>1, Appended, SMT DEF ListInv, NoDeviceTwice
    <2>3. \A e : Alive(e)' <=> Alive(e) \/ e = d
        BY <1>1, AliveAppended
    <2> QED BY <1>1, <2>2, <2>3, Zenon DEF ListInv, NoDeviceTwice
<1>2. CASE DestroyOne(t)
    <2>1. /\ deviceList # <<>> /\ deviceList' = Tail(deviceList)
          /\ claims' = claims \ {Head(deviceList)} /\ dropped' = dropped
        BY <1>2 DEF DestroyOne, Released
    <2>2. \A m, n \in DOMAIN deviceList' : deviceList'[m] = deviceList'[n] => m = n
        BY <2>1, Shortened, SMT DEF ListInv, NoDeviceTwice
    <2>3. ASSUME NEW e, e = Head(deviceList) PROVE ~Alive(e)'
        BY <2>1, <2>3, Shortened, SMT DEF ListInv, NoDeviceTwice, Alive
    <2>4. \A e : (Alive(e)' => Alive(e)) /\ (Alive(e) => Alive(e)' \/ e = Head(deviceList))
        BY <2>1, AliveShortened
    <2> QED BY <2>1, <2>2, <2>3, <2>4, Zenon DEF ListInv, NoDeviceTwice
<1>3. CASE UNCHANGED deviceList /\ claims \subseteq claims' /\ dropped \subseteq dropped'
           /\ claims' \ claims \subseteq dropped'
    <2>1. \A e : Alive(e)' <=> Alive(e)
        BY <1>3 DEF Alive
    <2> QED BY <1>3, <2>1, Zenon DEF ListInv, NoDeviceTwice
<1>4. CASE OpenOne(t)
    <2>1. PICK d \in todo[t] :
              \/ Fails(d) /\ UNCHANGED deviceList
              \/ /\ Claimable(d) /\ claims' = claims \cup {d}
                 /\ deviceList' = Listed(d) /\ UNCHANGED dropped
        BY <1>4, Zenon DEF OpenOne
    <2>2. d \in Devices
        BY <2>1, SMT DEF ListInv, TypeOK, ThreadsOK
    <2>3. CASE Fails(d) /\ UNCHANGED deviceList
        BY <1>3, <2>3, Zenon DEF Fails
    <2>4. CASE Claimable(d) /\ claims' = claims \cup {d} /\ deviceList' = Listed(d)
               /\ UNCHANGED dropped
        BY <1>1, <2>2, <2>4, Zenon DEF Claimable, Listed
    <2> QED BY <2>1, <2>3, <2>4
<1>5. ThreadStep(t) => \/ OpenOne(t) \/ DestroyOne(t)
                       \/ UNCHANGED <<deviceList, claims, dropped>>
    BY Zenon
       DEF ThreadStep, Proceed, Wait, BeginOpen, BeginClose, BeginCall, InitLibusb, Enumerate,
           EndOpen, EndClose, LeaveDevice, LockOpen, LockClose, FindDevice, EnterDevice
<1> QED BY <1>2, <1>3, <1>4, <1>5, Zenon

LEMMA OthersStay ==
    ASSUME TypeOK, NEW t \in Threads, ThreadStep(t), NEW u \in Threads, u # t
    PROVE  UNCHANGED <<pc[u], devNum[u], dev[u]>>
BY SMT
   DEF TypeOK, ThreadsOK, ThreadStep, Proceed, Wait, BeginOpen, BeginClose, BeginCall, InitLibusb,
       Enumerate, OpenOne, EndOpen, DestroyOne, EndClose, LeaveDevice, LockOpen, LockClose,
       FindDevice, EnterDevice

LEMMA OpenStep == ASSUME ListInv, NEW t \in Threads, ThreadStep(t) PROVE OpenInv'
<1>1. \A u \in Threads : threadLock = u <=> pc[u] \in {"scan", "clear"}
    BY DEF ListInv, TypeOK, LockOK
<1>2. TypeOK'
    BY FlagsStep, LibusbStep, ThreadsStep, LockStep, ListStep DEF ListInv, TypeOK
<1>3. \A u \in Threads : threadLock' = u <=> pc'[u] \in {"scan", "clear"}
    BY <1>2 DEF TypeOK, LockOK
<1>4. \A u \in Threads : u # t => UNCHANGED <<pc[u], devNum[u]>>
    BY OthersStay DEF ListInv
<1>5. \A u \in Threads : u # t /\ (threadLock = Nobody \/ threadLock = t) =>
          pc'[u] \notin {"scan", "clear"}
    BY <1>1, <1>4, ThreadsAssumption, Zenon
<1>6. CASE LockOpen(t)
    <2>1. /\ threadLock = Nobody /\ threadLock' = t /\ UNCHANGED <<deviceList, inited>>
          /\ pc'[t] = "scan" /\ ~(devNum'[t] > 0)
        BY <1>6, SMT DEF ListInv, TypeOK, ThreadsOK, LockOpen, Lock
    <2> QED BY <1>5, <2>1, ThreadsAssumption, Zenon DEF ListInv, OpenInv, InitedMeansOpen
<1>7. CASE OpenOne(t)
    <2>1. pc[t] = "scan" /\ threadLock = t /\ UNCHANGED <<inited, threadLock, pc>>
        BY <1>1, <1>7, Zenon DEF OpenOne
    <2>2. \/ UNCHANGED <<deviceList, devNum>>
          \/ deviceList' # <<>> /\ devNum'[t] > 0
        <3>1. PICK d \in todo[t] : \/ UNCHANGED <<deviceList, devNum>>
                                  \/ /\ deviceList' = Append(deviceList, d)
                                     /\ devNum' = [devNum EXCEPT ![t] = @ + 1]
            BY <1>7, Zenon DEF OpenOne, Listed
        <3> QED BY <3>1, Appended, SMT DEF ListInv, TypeOK, ThreadsOK
    <2> QED BY <1>5, <2>1, <2>2, ThreadsAssumption, Zenon DEF ListInv, OpenInv, InitedMeansOpen
<1>8. CASE EndOpen(t)
    <2>1. /\ pc[t] = "scan" /\ threadLock = t /\ threadLock' = Nobody /\ UNCHANGED deviceList
          /\ inited' = (inited \/ devNum[t] > 0)
        BY <1>1, <1>8, Zenon DEF EndOpen, Unlock, InitedAfter
    <2>2. pc'[t] = "idle"
        BY <1>8, Zenon DEF ListInv, TypeOK, ThreadsOK, EndOpen
    <2> QED BY <1>5, <2>1, <2>2, Zenon DEF ListInv, OpenInv, InitedMeansOpen
<1>9. CASE LockClose(t)
    <2>1. threadLock = Nobody /\ threadLock' = t /\ inited' = FALSE
        BY <1>9, Zenon DEF LockClose, Lock
    <2>2. pc'[t] = "clear"
        BY <1>9, Zenon DEF ListInv, TypeOK, ThreadsOK, LockClose
    <2> QED BY <1>5, <2>1, <2>2, ThreadsAssumption, Zenon DEF ListInv, OpenInv, InitedMeansOpen
<1>10. CASE DestroyOne(t)
    <2>1. pc[t] = "clear" /\ threadLock = t /\ UNCHANGED <<inited, threadLock, pc>>
        BY <1>1, <1>10, Zenon DEF DestroyOne
    <2> QED BY <1>5, <2>1, ThreadsAssumption, Zenon DEF ListInv, OpenInv, InitedMeansOpen
<1>11. CASE EndClose(t)
    <2>1. /\ pc[t] = "clear" /\ threadLock = t /\ deviceList = <<>>
          /\ UNCHANGED <<inited, deviceList>>
        BY <1>1, <1>11, Zenon DEF EndClose
    <2>2. pc'[t] = "idle"
        BY <1>11, Zenon DEF ListInv, TypeOK, ThreadsOK, EndClose
    <2> QED BY <1>5, <2>1, <2>2, Zenon DEF ListInv, OpenInv, InitedMeansOpen
<1>12. CASE \/ BeginOpen(t) \/ BeginClose(t) \/ BeginCall(t)
            \/ InitLibusb(t) \/ Enumerate(t) \/ LeaveDevice(t)
            \/ FindDevice(t) \/ EnterDevice(t)
    <2>1. UNCHANGED <<deviceList, inited, threadLock>>
        BY <1>12, Zenon DEF BeginOpen, BeginClose, BeginCall, InitLibusb, Enumerate, LeaveDevice,
                            FindDevice, EnterDevice
    <2>2. pc'[t] \notin {"scan", "clear"}
        BY <1>12, SMT DEF ListInv, TypeOK, ThreadsOK, BeginOpen, BeginClose, BeginCall, InitLibusb,
                          Enumerate, LeaveDevice, FindDevice, EnterDevice
    <2> QED BY <1>4, <2>1, <2>2, Zenon DEF ListInv, OpenInv, InitedMeansOpen
<1> QED BY <1>6, <1>7, <1>8, <1>9, <1>10, <1>11, <1>12, Zenon DEF ThreadStep, Proceed, Wait

LEMMA CommandStep ==
    ASSUME ListInv, NEW t \in Threads, ThreadStep(t) PROVE CommandInv'
<1> SUFFICES ASSUME NEW u \in Threads, NEW e, e = dev'[u], pc'[u] = "command" PROVE Alive(e)'
    BY DEF CommandInv, Alive
<1>1. CASE pc[u] = "command" /\ dev'[u] = dev[u]
    <2>1. Alive(e) /\ e = dev[u]
        BY <1>1 DEF ListInv, CommandInv
    <2>2. CASE DestroyOne(t)
        <3>1. deviceList # <<>> /\ deviceList' = Tail(deviceList) /\ dev[u] # Head(deviceList)
            BY <1>1, <2>2, Zenon DEF DestroyOne, Unused
        <3> QED BY <2>1, <3>1, AliveShortened DEF ListInv, TypeOK
    <2>3. CASE OpenOne(t)
        <3>1. UNCHANGED deviceList \/ \E d \in Devices : deviceList' = Append(deviceList, d)
            BY <2>3, Zenon DEF OpenOne, Listed, ListInv, TypeOK, ThreadsOK
        <3> QED BY <2>1, <3>1, AliveAppended DEF ListInv, TypeOK, Alive
    <2>4. CASE UNCHANGED deviceList
        BY <2>1, <2>4 DEF Alive
    <2> QED
        BY <2>2, <2>3, <2>4, Zenon
           DEF ThreadStep, Proceed, Wait, BeginOpen, BeginClose, BeginCall, InitLibusb, Enumerate,
               EndOpen, EndClose, LeaveDevice, LockOpen, LockClose, FindDevice, EnterDevice
<1>2. CASE ~(pc[u] = "command" /\ dev'[u] = dev[u])
    <2>1. u = t
        BY <1>2, OthersStay, Zenon DEF ListInv
    <2>2. EnterDevice(t) /\ Alive(dev[t])
        BY <1>2, <2>1, SMT
           DEF ListInv, TypeOK, ThreadsOK, ThreadStep, Proceed, Wait, BeginOpen, BeginClose,
               BeginCall, InitLibusb, Enumerate, OpenOne, EndOpen, DestroyOne, EndClose,
               LeaveDevice, LockOpen, LockClose, FindDevice, EnterDevice
    <2>3. dev'[t] = dev[t] /\ deviceList' = deviceList
        BY <2>2, Zenon DEF EnterDevice, ListInv, TypeOK, ThreadsOK
    <2> QED BY <2>1, <2>2, <2>3 DEF Alive
<1> QED BY <1>1, <1>2

LEMMA ListInvStep == ListInv /\ [Next]_vars => ListInv'
<1> SUFFICES ASSUME ListInv, [Next]_vars PROVE ListInv'
    OBVIOUS
<1>1. TypeOK'
    BY TypeStep DEF ListInv
<1>2. CASE UNCHANGED <<object, libusb, pc, local, ghosts>> \/ Plug \/ Unplug
    <2>1. UNCHANGED <<object, claims, dropped, pc, local>>
        BY <1>2, Zenon DEF Plug, Unplug
    <2>2. \A e : Alive(e)' <=> Alive(e)
        BY <2>1 DEF Alive
    <2>3. NoDeviceTwice' /\ CommandInv'
        BY <2>1, <2>2, Zenon DEF ListInv, NoDeviceTwice, CommandInv
    <2>4. OpenInv'
        BY <2>1, Zenon DEF ListInv, OpenInv, InitedMeansOpen
    <2> QED BY <1>1, <2>3, <2>4 DEF ListInv
<1>3. ASSUME NEW t \in Threads, ThreadStep(t) PROVE ListInv'
    BY <1>1, <1>3, NoTwiceStep, OpenStep, CommandStep DEF ListInv
<1> QED BY <1>2, <1>3, StepsOf

LEMMA InitList == Init => ListInv
<1> SUFFICES ASSUME Init PROVE ListInv
    OBVIOUS
<1>1. TypeOK
    BY InitType
<1>2. NoDeviceTwice /\ CommandInv
    BY SMT DEF Init, NoDeviceTwice, CommandInv, Alive
<1>3. OpenInv
    BY Zenon DEF Init, OpenInv, InitedMeansOpen
<1> QED BY <1>1, <1>2, <1>3 DEF ListInv

\* The list, inited, the claimed interfaces and the commands under way always agree.
THEOREM ListInvariance == Spec => []ListInv
BY InitList, ListInvStep, PTL DEF Spec

\* However the calls of OpenDevices and CloseDevices overlap, no device is opened twice,
\* and no claimed interface is forgotten except where a step of opening failed.
THEOREM OpenedOnce == Spec => []NoDeviceTwice
BY ListInvariance, PTL DEF ListInv

\* With threadLock free, inited says whether there are devices.
THEOREM InitedIsTrue == Spec => []InitedMeansOpen
BY ListInvariance, PTL DEF ListInv, OpenInv

\* Thread t has something to do and nothing to wait for: its next step needs a lock that
\* is free, or none.  A thread that is about to enter a living device counts only if it
\* could run a command there.
CanGoOn(t) ==
    \/ pc[t] \in {"init", "enumerate", "scan", "command", "frame"}
    \/ pc[t] \in {"lockOpen", "lockClose", "find"} /\ threadLock = Nobody
    \/ pc[t] = "enter" /\ (Alive(dev[t]) => Unused(dev[t]))
    \/ pc[t] = "clear" /\ (deviceList # <<>> => Unused(Head(deviceList)))

InCall(t) == pc[t] \notin {"idle", "lost"}

\* Of the threads that are in a call, one can always go on.
NobodyStuck == (\E t \in Threads : InCall(t)) => \E t \in Threads : CanGoOn(t)

\* threadLock and frameLock never wait for each other: CloseDevices waits for commands
\* with threadLock held, and a thread in a command waits for neither.
THEOREM NoDeadlock == Spec => []NobodyStuck
<1>1. TypeOK => NobodyStuck
    <2> SUFFICES ASSUME TypeOK, NEW t \in Threads, InCall(t),
                        \A u \in Threads : ~ CanGoOn(u)
                 PROVE  FALSE
        BY DEF NobodyStuck
    <2>1. \A d : Unused(d)
        BY DEF CanGoOn, Unused
    <2>2. \A u \in Threads : pc[u] \notin {"scan", "clear"}
        BY <2>1 DEF CanGoOn
    <2>3. threadLock = Nobody
        BY <2>2 DEF TypeOK, LockOK
    <2>4. pc[t] \in {"idle", "lost"}
        BY <2>1, <2>2, <2>3 DEF CanGoOn, TypeOK, ThreadsOK, Opening, Closing, Using
    <2> QED BY <2>4 DEF InCall
<1> QED BY <1>1, LockDiscipline, PTL

\* While there are devices their numbers do not change.
THEOREM NumbersKept == Spec => NumbersStable
<1>1. ListInv /\ [Next]_vars =>
          [inited => \A n \in DOMAIN deviceList :
                        n \in DOMAIN deviceList' /\ deviceList'[n] = deviceList[n]]_vars
    <2> SUFFICES ASSUME ListInv, [Next]_vars, inited, NEW n \in DOMAIN deviceList
                 PROVE  n \in DOMAIN deviceList' /\ deviceList'[n] = deviceList[n]
        OBVIOUS
    <2>1. CASE UNCHANGED deviceList
        BY <2>1
    <2>2. ASSUME NEW t \in Threads, OpenOne(t), ~UNCHANGED deviceList
          PROVE  n \in DOMAIN deviceList' /\ deviceList'[n] = deviceList[n]
        <3>1. \E d \in Devices : deviceList' = Append(deviceList, d)
            BY <2>2, Zenon DEF OpenOne, Listed, ListInv, TypeOK, ThreadsOK
        <3> QED BY <3>1, Appended, SMT DEF ListInv, TypeOK
    <2>3. ASSUME NEW t \in Threads PROVE ~DestroyOne(t)
        BY Zenon DEF DestroyOne, ListInv, OpenInv
    <2>4. ASSUME NEW t \in Threads, ThreadStep(t)
          PROVE  OpenOne(t) \/ DestroyOne(t) \/ UNCHANGED deviceList
        BY <2>4, Zenon
           DEF ThreadStep, Proceed, Wait, BeginOpen, BeginClose, BeginCall, InitLibusb, Enumerate,
               EndOpen, EndClose, LeaveDevice, LockOpen, LockClose, FindDevice, EnterDevice
    <2>5. CASE UNCHANGED <<object, libusb, pc, local, ghosts>> \/ Plug \/ Unplug
        BY <2>1, <2>5, Zenon DEF Plug, Unplug
    <2> QED BY <2>1, <2>2, <2>3, <2>4, <2>5, StepsOf
<1> QED BY <1>1, ListInvariance, PTL DEF Spec, NumbersStable

-----------------------------------------------------------------------------
(* Calls that do not overlap OpenDevices or CloseDevices *)

\* As long as the application is orderly, whoever opens or closes is the only one with a
\* call under way, the pointers taken are good, and libusb is initialised.
AloneInv == orderly => \A t \in Threads : pc[t] \in Opening \cup Closing => Alone(t)

PointerInv ==
    orderly => \A t \in Threads : (pc[t] \in Using => Alive(dev[t])) /\ pc[t] # "lost"

RefsInv ==
    orderly => /\ \A t \in Threads : pc[t] \in {"enumerate", "lockOpen", "scan"} => refs > 0
               /\ deviceList # <<>> => refs > 0

OrderInv == ListInv /\ AloneInv /\ PointerInv /\ RefsInv

LEMMA OrderlyBefore ==
    ASSUME NEW t \in Threads, ThreadStep(t), orderly' PROVE orderly
BY Zenon
   DEF ThreadStep, Proceed, Wait, BeginOpen, BeginClose, BeginCall, InitLibusb, Enumerate, OpenOne,
       EndOpen, DestroyOne, EndClose, LeaveDevice, LockOpen, LockClose, FindDevice, EnterDevice

\* A call begins an orderly application's next step only if nobody is in its way.
LEMMA BeginOrderly ==
    ASSUME ListInv, NEW t \in Threads, ThreadStep(t), orderly', pc[t] = "idle"
    PROVE  /\ OthersUse
           /\ pc'[t] \in Opening \cup Closing => Alone(t)
           /\ pc'[t] \notin Using \cup {"lost", "enumerate", "lockOpen", "scan"}
<1>1. BeginOpen(t) \/ BeginClose(t) \/ BeginCall(t)
    BY Zenon
       DEF ThreadStep, Proceed, Wait, InitLibusb, Enumerate, OpenOne, EndOpen, DestroyOne, EndClose,
           LeaveDevice, LockOpen, LockClose, FindDevice, EnterDevice
<1>2. CASE BeginOpen(t) \/ BeginClose(t)
    <2>1. Alone(t)
        BY <1>2, Zenon DEF BeginOpen, BeginClose
    <2>2. OthersUse
        BY <2>1, Zenon DEF Alone, OthersUse
    <2>3. pc'[t] \in {"idle", "init", "lockClose"}
        BY <1>2, Zenon DEF BeginOpen, BeginClose, ListInv, TypeOK, ThreadsOK
    <2> QED BY <2>1, <2>2, <2>3
<1>3. CASE BeginCall(t)
    <2>1. OthersUse
        BY <1>3, Zenon DEF BeginCall
    <2>2. pc'[t] \in {"idle", "find"}
        BY <1>3, Zenon DEF BeginCall, ListInv, TypeOK, ThreadsOK
    <2> QED BY <2>1, <2>2
<1> QED BY <1>1, <1>2, <1>3

LEMMA AloneStep == ASSUME OrderInv, NEW t \in Threads, ThreadStep(t) PROVE AloneInv'
<1> SUFFICES ASSUME orderly', NEW u \in Threads, pc'[u] \in Opening \cup Closing,
                    NEW v \in Threads \ {u}
             PROVE  pc'[v] = "idle"
    BY DEF AloneInv, Alone
<1>1. orderly
    BY OrderlyBefore
<1>2. \A w \in Threads : w # t => pc'[w] = pc[w]
    BY OthersStay DEF OrderInv, ListInv
<1>3. CASE u = t
    <2>1. Alone(t)
        <3>1. CASE pc[t] \in Opening \cup Closing
            BY <1>1, <3>1 DEF OrderInv, AloneInv
        <3>2. CASE pc[t] = "idle"
            BY <1>3, <3>2, BeginOrderly DEF OrderInv
        <3>3. CASE pc[t] \notin Opening \cup Closing \cup {"idle"}
            <4>1. FindDevice(t) \/ EnterDevice(t) \/ LeaveDevice(t)
                BY <3>3, Zenon
                   DEF ThreadStep, Proceed, Wait, BeginOpen, BeginClose, BeginCall, InitLibusb,
                       Enumerate, OpenOne, EndOpen, DestroyOne, EndClose, LockOpen, LockClose
            <4>2. pc'[t] \in Using \cup {"idle", "lost"}
                BY <4>1, Zenon DEF OrderInv, ListInv, TypeOK, ThreadsOK, FindDevice, EnterDevice,
                                   LeaveDevice
            <4> QED BY <1>3, <4>2
        <3> QED BY <3>1, <3>2, <3>3
    <2> QED BY <1>2, <1>3, <2>1 DEF Alone
<1>4. CASE u # t
    <2>1. pc[u] \in Opening \cup Closing /\ Alone(u)
        BY <1>1, <1>2, <1>4 DEF OrderInv, AloneInv
    <2>2. pc[t] = "idle"
        BY <1>4, <2>1 DEF Alone
    <2>3. OthersUse
        BY <2>2, BeginOrderly DEF OrderInv
    <2> QED BY <2>1, <2>3 DEF OthersUse
<1> QED BY <1>3, <1>4

LEMMA PointerStep == ASSUME OrderInv, NEW t \in Threads, ThreadStep(t) PROVE PointerInv'
<1> SUFFICES ASSUME orderly', NEW u \in Threads, NEW e, e = dev'[u]
             PROVE  (pc'[u] \in Using => Alive(e)') /\ pc'[u] # "lost"
    BY DEF PointerInv, Alive
<1>1. orderly
    BY OrderlyBefore
<1>2. CASE u # t
    <2>1. pc'[u] = pc[u] /\ dev'[u] = dev[u]
        BY <1>2, OthersStay DEF OrderInv, ListInv
    <2>2. ASSUME pc[u] \in Using PROVE Alive(e)'
        <3>1. Alive(e)
            BY <1>1, <2>1, <2>2 DEF OrderInv, PointerInv
        <3>2. ~DestroyOne(t)
            BY <1>1, <1>2, <2>2, Zenon DEF DestroyOne, OrderInv, AloneInv, Alone
        <3>3. UNCHANGED deviceList \/ \E d \in Devices : deviceList' = Append(deviceList, d)
            BY <3>2, Zenon
               DEF OrderInv, ListInv, TypeOK, ThreadsOK, ThreadStep, Proceed, Wait, BeginOpen,
                   BeginClose, BeginCall, InitLibusb, Enumerate, OpenOne, Listed, EndOpen,
                   EndClose, LeaveDevice, LockOpen, LockClose, FindDevice, EnterDevice
        <3> QED BY <3>1, <3>3, AliveAppended DEF OrderInv, ListInv, TypeOK, Alive
    <2> QED BY <1>1, <2>1, <2>2 DEF OrderInv, PointerInv
<1>3. CASE u = t
    <2>1. CASE FindDevice(t)
        <3>1. \/ pc'[t] = "enter" /\ \E n \in DOMAIN deviceList : dev'[t] = deviceList[n]
              \/ pc'[t] = "idle"
            BY <2>1, Zenon DEF FindDevice, OrderInv, ListInv, TypeOK, ThreadsOK
        <3>2. UNCHANGED deviceList
            BY <2>1 DEF FindDevice
        <3> QED BY <1>3, <3>1, <3>2, Zenon DEF Alive
    <2>2. CASE EnterDevice(t)
        <3>1. Alive(dev[t]) /\ UNCHANGED deviceList
            BY <1>1, <2>2, Zenon DEF OrderInv, PointerInv, EnterDevice
        <3>2. dev'[t] = dev[t] /\ pc'[t] \in {"command", "frame"}
            BY <2>2, <3>1, Zenon DEF EnterDevice, OrderInv, ListInv, TypeOK, ThreadsOK
        <3> QED BY <1>3, <3>1, <3>2, Zenon DEF Alive
    <2>3. CASE ~FindDevice(t) /\ ~EnterDevice(t)
        <3>1. pc'[t] \notin Using \cup {"lost"}
            <4>1. \/ \E p \in {"idle", "find"} \cup Opening \cup Closing : pc' = [pc EXCEPT ![t] = p]
                  \/ pc' = pc /\ pc[t] \in {"scan", "clear"}
                BY <2>3, Zenon
                   DEF ThreadStep, Proceed, Wait, BeginOpen, BeginClose, BeginCall, InitLibusb,
                       Enumerate, OpenOne, EndOpen, DestroyOne, EndClose, LeaveDevice, LockOpen,
                       LockClose
            <4> QED BY <4>1, SMT DEF OrderInv, ListInv, TypeOK, ThreadsOK
        <3> QED BY <1>3, <3>1
    <2> QED BY <2>1, <2>2, <2>3
<1> QED BY <1>2, <1>3

LEMMA RefsStep == ASSUME OrderInv, NEW t \in Threads, ThreadStep(t) PROVE RefsInv'
<1> SUFFICES ASSUME orderly', NEW u \in Threads
             PROVE  /\ pc'[u] \in {"enumerate", "lockOpen", "scan"} => refs' > 0
                    /\ deviceList' # <<>> => refs' > 0
    BY DEF RefsInv
<1>1. orderly
    BY OrderlyBefore
<1>2. refs \in Nat
    BY MaxRefsAssumption, SMT DEF OrderInv, ListInv, TypeOK, LibusbOK
<1>3. \A w \in Threads : w # t => pc'[w] = pc[w]
    BY OthersStay DEF OrderInv, ListInv
<1>4. CASE InitLibusb(t)
    <2>1. UNCHANGED deviceList /\ (refs' = refs + 1 \/ (UNCHANGED refs /\ pc'[t] = "idle"))
        BY <1>4, Zenon DEF InitLibusb, OrderInv, ListInv, TypeOK, ThreadsOK
    <2>2. CASE refs' = refs + 1
        BY <1>2, <2>2, SMT
    <2>3. CASE UNCHANGED refs /\ pc'[t] = "idle"
        BY <1>1, <1>3, <2>1, <2>3, Zenon DEF OrderInv, RefsInv
    <2> QED BY <2>1, <2>2, <2>3
<1>5. CASE EndClose(t)
    <2>1. pc[t] = "clear" /\ deviceList = <<>> /\ UNCHANGED deviceList /\ pc'[t] = "idle"
        BY <1>5, Zenon DEF EndClose, OrderInv, ListInv, TypeOK, ThreadsOK
    <2>2. Alone(t)
        BY <1>1, <2>1 DEF OrderInv, AloneInv
    <2> QED BY <1>3, <2>1, <2>2, Zenon DEF Alone
<1>6. CASE OpenOne(t)
    <2>1. pc[t] = "scan" /\ UNCHANGED <<pc, refs>>
        BY <1>6, Zenon DEF OpenOne
    <2> QED BY <1>1, <2>1, Zenon DEF OrderInv, RefsInv
<1>7. CASE DestroyOne(t)
    <2>1. deviceList # <<>> /\ UNCHANGED <<pc, refs>>
        BY <1>7, Zenon DEF DestroyOne
    <2> QED BY <1>1, <2>1, Zenon DEF OrderInv, RefsInv
<1>8. CASE ~InitLibusb(t) /\ ~EndClose(t) /\ ~OpenOne(t) /\ ~DestroyOne(t)
    <2>1. UNCHANGED <<deviceList, refs>>
        BY <1>8, Zenon
           DEF ThreadStep, Proceed, Wait, BeginOpen, BeginClose, BeginCall, Enumerate, EndOpen,
               LeaveDevice, LockOpen, LockClose, FindDevice, EnterDevice
    <2>2. pc'[t] \in {"enumerate", "lockOpen", "scan"} => pc[t] \in {"enumerate", "lockOpen"}
        BY <1>8, Zenon
           DEF OrderInv, ListInv, TypeOK, ThreadsOK, ThreadStep, Proceed, Wait, BeginOpen,
               BeginClose, BeginCall, Enumerate, EndOpen, LeaveDevice, LockOpen, LockClose,
               FindDevice, EnterDevice
    <2> QED BY <1>1, <1>3, <2>1, <2>2, Zenon DEF OrderInv, RefsInv
<1> QED BY <1>4, <1>5, <1>6, <1>7, <1>8

LEMMA OrderInvStep == OrderInv /\ [Next]_vars => OrderInv'
<1> SUFFICES ASSUME OrderInv, [Next]_vars PROVE OrderInv'
    OBVIOUS
<1>1. ListInv'
    BY ListInvStep DEF OrderInv
<1>2. CASE UNCHANGED <<object, libusb, pc, local, ghosts>> \/ Plug \/ Unplug
    <2>1. UNCHANGED <<object, refs, pc, local, ghosts>>
        BY <1>2, Zenon DEF Plug, Unplug
    <2>2. \A e : Alive(e)' <=> Alive(e)
        BY <2>1 DEF Alive
    <2>3. AloneInv' /\ RefsInv'
        BY <2>1, Zenon DEF OrderInv, AloneInv, RefsInv, Alone
    <2>4. PointerInv'
        BY <2>1, <2>2, Zenon DEF OrderInv, PointerInv
    <2> QED BY <1>1, <2>3, <2>4 DEF OrderInv
<1>3. ASSUME NEW t \in Threads, ThreadStep(t) PROVE OrderInv'
    BY <1>1, <1>3, AloneStep, PointerStep, RefsStep DEF OrderInv
<1> QED BY <1>2, <1>3, StepsOf

LEMMA InitOrder == Init => OrderInv
<1> SUFFICES ASSUME Init PROVE OrderInv
    OBVIOUS
<1>1. ListInv
    BY InitList
<1>2. AloneInv /\ PointerInv /\ RefsInv
    BY SMT DEF Init, AloneInv, PointerInv, RefsInv
<1> QED BY <1>1, <1>2 DEF OrderInv

\* A device is not destroyed under a command; and if nothing overlaps OpenDevices and
\* CloseDevices, no pointer that a call has taken is ever left dangling.
THEOREM PointersGood == Spec => []PointerAlive
<1>1. OrderInv => PointerAlive
    BY Zenon DEF OrderInv, ListInv, CommandInv, PointerInv, RefsInv, PointerAlive
<1> QED BY <1>1, InitOrder, OrderInvStep, PTL DEF Spec

-----------------------------------------------------------------------------
(* What CloseDevices leaves *)

DroppedInv == smooth => dropped = {}

\* How often libusb is counted as initialised, if nothing has failed, at each place of
\* whoever opens or closes, and between their calls.
PhaseOK(t) ==
    /\ pc[t] = "init" => ~inited /\ refs = 0
    /\ pc[t] \in {"enumerate", "lockOpen", "scan"} => ~inited /\ refs = 1
    /\ pc[t] = "lockClose" => inited /\ refs = 1
    /\ pc[t] = "clear" => refs = 1

CountInv ==
    orderly /\ smooth => /\ \A t \in Threads : PhaseOK(t)
                         /\ OthersUse => (inited => refs = 1) /\ (~inited => refs = 0)

FreeInv == OrderInv /\ DroppedInv /\ CountInv

LEMMA DroppedStep == ASSUME FreeInv, NEW t \in Threads, ThreadStep(t) PROVE DroppedInv'
<1>1. CASE OpenOne(t)
    BY <1>1, Zenon DEF FreeInv, DroppedInv, OpenOne, Fails
<1>2. CASE ~OpenOne(t)
    <2>1. dropped' = dropped
        BY <1>2, Zenon
           DEF ThreadStep, Proceed, Wait, BeginOpen, BeginClose, BeginCall, InitLibusb, Enumerate,
               EndOpen, DestroyOne, EndClose, LeaveDevice, LockOpen, LockClose, FindDevice,
               EnterDevice
    <2>2. smooth' => smooth
        BY <1>2, Zenon
           DEF ThreadStep, Proceed, Wait, BeginOpen, BeginClose, BeginCall, InitLibusb, Enumerate,
               EndOpen, DestroyOne, EndClose, LeaveDevice, LockOpen, LockClose, FindDevice,
               EnterDevice
    <2> QED BY <2>1, <2>2 DEF FreeInv, DroppedInv
<1> QED BY <1>1, <1>2

LEMMA SmoothBefore == ASSUME NEW t \in Threads, ThreadStep(t), smooth' PROVE smooth
BY Zenon
   DEF ThreadStep, Proceed, Wait, BeginOpen, BeginClose, BeginCall, InitLibusb, Enumerate, OpenOne,
       EndOpen, DestroyOne, EndClose, LeaveDevice, LockOpen, LockClose, FindDevice, EnterDevice,
       Fails

LEMMA CountStep == ASSUME FreeInv, NEW t \in Threads, ThreadStep(t) PROVE CountInv'
<1> SUFFICES ASSUME orderly', smooth'
             PROVE  /\ \A u \in Threads : PhaseOK(u)'
                    /\ OthersUse' => (inited' => refs' = 1) /\ (~inited' => refs' = 0)
    BY DEF CountInv
<1>1. orderly /\ smooth
    BY OrderlyBefore, SmoothBefore
<1>2. ListInv /\ pc \in [Threads -> PlaceOf]
    BY DEF FreeInv, OrderInv, ListInv, TypeOK, ThreadsOK, PlaceOf
<1>3. PhaseOK(t) /\ (OthersUse => (inited => refs = 1) /\ (~inited => refs = 0))
    BY <1>1 DEF FreeInv, CountInv
<1>4. ASSUME NEW u \in Threads, u # t PROVE PhaseOK(u)'
    <2>1. pc'[u] = pc[u]
        BY <1>2, <1>4, OthersStay DEF ListInv
    <2>2. ASSUME pc[u] \in Opening \cup Closing PROVE FALSE
        <3>1. pc[t] = "idle"
            BY <1>1, <1>4, <2>2 DEF FreeInv, OrderInv, AloneInv, Alone
        <3>2. OthersUse
            BY <1>2, <3>1, BeginOrderly
        <3> QED BY <2>2, <3>2 DEF OthersUse
    <2> QED BY <2>1, <2>2, Zenon DEF PhaseOK
<1>5. PhaseOK(t)' /\ (OthersUse' => (inited' => refs' = 1) /\ (~inited' => refs' = 0))
    <2>1. CASE BeginOpen(t) \/ BeginClose(t) \/ BeginCall(t)
        <3>1. pc[t] = "idle" /\ UNCHANGED <<inited, refs>>
            BY <2>1, Zenon DEF BeginOpen, BeginClose, BeginCall
        <3>2. OthersUse
            BY <1>2, <3>1, BeginOrderly
        <3>3. \/ pc'[t] = "init" /\ ~inited
              \/ pc'[t] = "lockClose" /\ inited
              \/ pc'[t] \in {"idle", "find"}
            BY <1>2, <2>1, Zenon DEF BeginOpen, BeginClose, BeginCall
        <3> QED BY <1>3, <3>1, <3>2, <3>3, Zenon DEF PhaseOK
    <2>2. CASE InitLibusb(t)
        <3>1. pc[t] = "init" /\ inited' = inited /\ refs' = refs + 1
            BY <2>2, Zenon DEF InitLibusb
        <3>2. pc'[t] = "enumerate"
            BY <1>2, <2>2, Zenon DEF InitLibusb
        <3>3. refs = 0 /\ ~inited
            BY <1>3, <3>1, Zenon DEF PhaseOK
        <3>4. refs' = 1
            BY <3>1, <3>3, SMT
        <3> QED BY <3>1, <3>2, <3>3, <3>4, Zenon DEF PhaseOK, OthersUse
    <2>3. CASE Enumerate(t) \/ LockOpen(t) \/ OpenOne(t)
        <3>1. pc[t] \in {"enumerate", "lockOpen", "scan"} /\ UNCHANGED <<inited, refs>>
            BY <2>3, Zenon DEF Enumerate, LockOpen, OpenOne
        <3>2. pc'[t] \in {"lockOpen", "scan"}
            BY <1>2, <2>3, Zenon DEF Enumerate, LockOpen, OpenOne
        <3> QED BY <1>3, <3>1, <3>2, Zenon DEF PhaseOK, OthersUse
    <2>4. CASE EndOpen(t)
        <3>1. pc[t] = "scan" /\ inited' /\ UNCHANGED refs
            BY <2>4, Zenon DEF EndOpen, InitedAfter
        <3>2. pc'[t] = "idle"
            BY <1>2, <2>4, Zenon DEF EndOpen
        <3> QED BY <1>3, <3>1, <3>2, Zenon DEF PhaseOK
    <2>5. CASE LockClose(t) \/ DestroyOne(t)
        <3>1. pc[t] \in {"lockClose", "clear"} /\ UNCHANGED refs
            BY <2>5, Zenon DEF LockClose, DestroyOne
        <3>2. pc'[t] = "clear"
            BY <1>2, <2>5, Zenon DEF LockClose, DestroyOne
        <3> QED BY <1>3, <3>1, <3>2, Zenon DEF PhaseOK, OthersUse
    <2>6. CASE EndClose(t)
        <3>1. pc[t] = "clear" /\ UNCHANGED inited
            BY <2>6, Zenon DEF EndClose
        <3>2. ~inited /\ refs = 1
            BY <1>2, <1>3, <3>1, Zenon DEF PhaseOK, ListInv, OpenInv
        <3>3. refs' = 0
            BY <2>6, <3>2, SMT DEF EndClose
        <3>4. pc'[t] = "idle"
            BY <1>2, <2>6, Zenon DEF EndClose
        <3> QED BY <3>1, <3>2, <3>3, <3>4, Zenon DEF PhaseOK
    <2>7. CASE FindDevice(t) \/ EnterDevice(t) \/ LeaveDevice(t)
        <3>1. UNCHANGED <<inited, refs>> /\ pc[t] \notin Opening \cup Closing
            BY <2>7, Zenon DEF FindDevice, EnterDevice, LeaveDevice
        <3>2. pc'[t] \notin Opening \cup Closing
            BY <1>2, <2>7, Zenon DEF FindDevice, EnterDevice, LeaveDevice
        <3>3. OthersUse' => OthersUse
            <4>1. \A u \in Threads : u # t => pc'[u] = pc[u]
                BY <1>2, OthersStay DEF ListInv
            <4> QED BY <3>1, <4>1, Zenon DEF OthersUse
        <3> QED BY <1>3, <3>1, <3>2, <3>3, Zenon DEF PhaseOK
    <2> QED BY <2>1, <2>2, <2>3, <2>4, <2>5, <2>6, <2>7, Zenon DEF ThreadStep, Proceed, Wait
<1> QED BY <1>4, <1>5

\* In an orderly application CloseDevices gives back all that OpenDevices took, unless a
\* step of opening has failed or no device was found.
THEOREM ClosedIsFreed == Spec => []AllFreed
<1>1. Init => FreeInv
    <2> SUFFICES ASSUME Init PROVE FreeInv
        OBVIOUS
    <2>1. OrderInv
        BY InitOrder
    <2>2. DroppedInv /\ CountInv
        BY Zenon DEF Init, DroppedInv, CountInv, PhaseOK
    <2> QED BY <2>1, <2>2 DEF FreeInv
<1>2. FreeInv /\ [Next]_vars => FreeInv'
    <2> SUFFICES ASSUME FreeInv, [Next]_vars PROVE FreeInv'
        OBVIOUS
    <2>1. OrderInv'
        BY OrderInvStep DEF FreeInv
    <2>2. CASE UNCHANGED <<object, libusb, pc, local, ghosts>> \/ Plug \/ Unplug
        <3>1. UNCHANGED <<object, refs, dropped, pc, local, ghosts>>
            BY <2>2, Zenon DEF Plug, Unplug
        <3>2. DroppedInv' /\ CountInv'
            BY <3>1, Zenon DEF FreeInv, DroppedInv, CountInv, PhaseOK, OthersUse
        <3> QED BY <2>1, <3>2 DEF FreeInv
    <2>3. ASSUME NEW t \in Threads, ThreadStep(t) PROVE FreeInv'
        BY <2>1, <2>3, DroppedStep, CountStep DEF FreeInv
    <2> QED BY <2>2, <2>3, StepsOf
<1>3. FreeInv => AllFreed
    <2> SUFFICES ASSUME FreeInv, orderly, smooth, ~inited, \A t \in Threads : pc[t] = "idle"
                 PROVE  claims = {} /\ dropped = {} /\ refs = 0
        BY DEF AllFreed
    <2>1. OthersUse
        BY DEF OthersUse
    <2>2. refs = 0 /\ dropped = {}
        BY <2>1, Zenon DEF FreeInv, DroppedInv, CountInv
    <2>3. threadLock = Nobody
        BY Zenon DEF FreeInv, OrderInv, ListInv, TypeOK, LockOK
    <2>4. deviceList = <<>>
        BY <2>3, Zenon DEF FreeInv, OrderInv, ListInv, OpenInv, InitedMeansOpen
    <2>5. \A d \in Devices : ~Alive(d)
        BY <2>4, SMT DEF Alive
    <2>6. claims = {}
        BY <2>2, <2>5 DEF FreeInv, OrderInv, ListInv, TypeOK, LibusbOK, NoDeviceTwice
    <2> QED BY <2>2, <2>6
<1> QED BY <1>1, <1>2, <1>3, PTL DEF Spec
=============================================================================
