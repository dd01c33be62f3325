----------------------------- MODULE HeliosDac -----------------------------
(***************************************************************************)
(* The controller of the host SDK: the list of opened devices, which the   *)
(* application's threads fill with OpenDevices(), empty with               *)
(* CloseDevices() and use by number, all at the same time.  threadLock     *)
(* guards the list; inited is read without it, and a call keeps a plain    *)
(* pointer to its device after letting go of it.                           *)
(*                                                                         *)
(* libusb is modelled by what the SDK relies on: a counted context, handles*)
(* that stay open until they are closed, and an interface that only one    *)
(* handle can claim.  A device that is unplugged and plugged in again is   *)
(* another element of Devices.                                             *)
(*                                                                         *)
(* An operator named X_<what is wrong> is X with a mistake its code could  *)
(* have, and no part of the specification.                                 *)
(***************************************************************************)
EXTENDS Integers, Sequences

CONSTANTS
    Threads,        \* the application's threads
    Openers,        \* those that open and close the devices
    Devices,        \* DACs, as they get plugged in
    MaxRefs,        \* a bound on the context's count
    Nobody          \* no thread, no device

ASSUME ThreadsAssumption == Openers \subseteq Threads /\ Nobody \notin Threads \cup Devices
ASSUME MaxRefsAssumption == MaxRefs \in Nat \ {0}

VARIABLES
    \* the object
    inited, deviceList,
    threadLock,     \* the thread that holds it
    \* libusb
    refs,           \* the count of its default context
    claims,         \* the devices whose interface a handle of ours has claimed
    dropped,        \* the devices with an open handle that nobody will close
    plugged, unplugged,
    \* the threads
    pc, todo, devNum, dev,
    \* so far, was each OpenDevices and CloseDevices the only call at its time?
    \* Has every device that was found opened, and every OpenDevices found one?
    orderly, smooth

object == <<inited, deviceList, threadLock>>
libusb == <<refs, claims, dropped, plugged, unplugged>>
local == <<todo, devNum, dev>>
ghosts == <<orderly, smooth>>
vars == <<object, libusb, pc, local, ghosts>>

Init ==
    /\ inited = FALSE /\ deviceList = <<>> /\ threadLock = Nobody
    /\ refs = 0 /\ claims = {} /\ dropped = {}
    /\ plugged \in SUBSET Devices /\ unplugged = {}
    /\ pc = [t \in Threads |-> "idle"]
    /\ todo = [t \in Threads |-> {}]
    /\ devNum = [t \in Threads |-> 0]
    /\ dev = [t \in Threads |-> Nobody]
    /\ orderly = TRUE /\ smooth = TRUE

Goto(t, to) == pc' = [pc EXCEPT ![t] = to]

\* The places of OpenDevices and CloseDevices.
Opening == {"init", "enumerate", "lockOpen", "scan"}
Closing == {"lockClose", "clear"}
Using == {"enter", "command", "frame"}

Alone(t) == \A u \in Threads \ {t} : pc[u] = "idle"
OthersUse == \A u \in Threads : pc[u] \notin Opening \cup Closing

\* std::lock_guard on threadLock
Lock(t) == threadLock = Nobody /\ threadLock' = t

-----------------------------------------------------------------------------
(* Plugging *)

Plug ==
    /\ \E d \in Devices \ (plugged \cup unplugged) : plugged' = plugged \cup {d}
    /\ UNCHANGED <<object, refs, claims, dropped, unplugged, pc, local, ghosts>>

Unplug ==
    /\ \E d \in plugged : plugged' = plugged \ {d} /\ unplugged' = unplugged \cup {d}
    /\ UNCHANGED <<object, refs, claims, dropped, pc, local, ghosts>>

-----------------------------------------------------------------------------
(* OpenDevices *)

\* With inited set it returns the size of the list.
BeginOpen(t) ==
    /\ pc[t] = "idle" /\ t \in Openers
    /\ Goto(t, IF inited THEN "idle" ELSE "init")
    /\ orderly' = (orderly /\ Alone(t))
    /\ UNCHANGED <<object, libusb, local, smooth>>

\* libusb_init counts the default context, or fails.
InitLibusb(t) ==
    /\ pc[t] = "init"
    /\ \/ refs < MaxRefs /\ refs' = refs + 1 /\ Goto(t, "enumerate") /\ UNCHANGED smooth
       \/ Goto(t, "idle") /\ smooth' = FALSE /\ UNCHANGED refs
    /\ UNCHANGED <<object, claims, dropped, plugged, unplugged, local, orderly>>

\* libusb_get_device_list; when it fails the context stays counted.
Enumerate(t) ==
    /\ pc[t] = "enumerate"
    /\ \/ Goto(t, "lockOpen") /\ todo' = [todo EXCEPT ![t] = plugged] /\ UNCHANGED smooth
       \/ Goto(t, "idle") /\ smooth' = FALSE /\ UNCHANGED todo
    /\ UNCHANGED <<object, libusb, devNum, dev, orderly>>

LockOpen(t) ==
    /\ pc[t] = "lockOpen"
    /\ Lock(t)
    /\ Goto(t, "scan")
    /\ devNum' = [devNum EXCEPT ![t] = 0]
    /\ UNCHANGED <<inited, deviceList, libusb, todo, dev, ghosts>>

\* libusb_open, or libusb_claim_interface, or libusb_set_interface_alt_setting fails:
\* the loop goes on without closing the handle or releasing the interface.
Fails(d) ==
    /\ smooth' = FALSE
    /\ \/ UNCHANGED <<claims, dropped>>
       \/ d \in plugged /\ dropped' = dropped \cup {d} /\ UNCHANGED claims
       \/ d \in plugged \ claims /\ dropped' = dropped \cup {d} /\ claims' = claims \cup {d}

Claimable_Always(d) == d \in plugged

\* libusb_claim_interface
Claimable(d) == d \in plugged \ claims

Listed_First(d) == <<d>> \o deviceList

\* deviceList.push_back
Listed(d) == Append(deviceList, d)

\* One device of the loop; the HeliosDacDevice is constructed.
OpenOne(t) ==
    /\ pc[t] = "scan"
    /\ \E d \in todo[t] :
          /\ todo' = [todo EXCEPT ![t] = @ \ {d}]
          /\ \/ Fails(d) /\ UNCHANGED <<deviceList, devNum>>
             \/ /\ Claimable(d)
                /\ claims' = claims \cup {d}
                /\ deviceList' = Listed(d)
                /\ devNum' = [devNum EXCEPT ![t] = @ + 1]
                /\ UNCHANGED <<dropped, smooth>>
    /\ UNCHANGED <<inited, threadLock, refs, plugged, unplugged, pc, dev, orderly>>

InitedAfter_Set(t) == devNum[t] > 0

\* if (devNum > 0) inited = true
InitedAfter(t) == inited \/ devNum[t] > 0

Unlock_IfOpened(t) == threadLock' = IF devNum[t] > 0 THEN Nobody ELSE threadLock

Unlock(t) == threadLock' = Nobody

EndOpen(t) ==
    /\ pc[t] = "scan" /\ todo[t] = {}
    /\ inited' = InitedAfter(t)
    /\ Unlock(t)
    /\ Goto(t, "idle")
    /\ devNum' = [devNum EXCEPT ![t] = 0]
    /\ smooth' = (smooth /\ devNum[t] > 0)
    /\ UNCHANGED <<deviceList, libusb, todo, dev, orderly>>

-----------------------------------------------------------------------------
(* CloseDevices, also run by the destructor *)

BeginClose(t) ==
    /\ pc[t] = "idle" /\ t \in Openers
    /\ Goto(t, IF inited THEN "lockClose" ELSE "idle")
    /\ orderly' = (orderly /\ Alone(t))
    /\ UNCHANGED <<object, libusb, local, smooth>>

LockClose(t) ==
    /\ pc[t] = "lockClose"
    /\ Lock(t)
    /\ inited' = FALSE
    /\ Goto(t, "clear")
    /\ UNCHANGED <<deviceList, libusb, local, ghosts>>

Unused_NotAwaited(d) == TRUE

\* ~HeliosDacDevice takes frameLock, which a command holds.
Unused(d) == \A t \in Threads : pc[t] = "command" => dev[t] # d

Released_Kept(d) == claims

\* libusb_close
Released(d) == claims \ {d}

\* deviceList.clear() destroys the devices one by one.
DestroyOne(t) ==
    /\ pc[t] = "clear" /\ deviceList # <<>>
    /\ Unused(Head(deviceList))
    /\ claims' = Released(Head(deviceList))
    /\ deviceList' = Tail(deviceList)
    /\ UNCHANGED <<inited, threadLock, refs, dropped, plugged, unplugged, pc, local, ghosts>>

\* libusb_exit, which does nothing without a context.
EndClose(t) ==
    /\ pc[t] = "clear" /\ deviceList = <<>>
    /\ refs' = IF refs > 0 THEN refs - 1 ELSE 0
    /\ Unlock(t)
    /\ Goto(t, "idle")
    /\ UNCHANGED <<inited, deviceList, claims, dropped, plugged, unplugged, local, ghosts>>

-----------------------------------------------------------------------------
(* WriteFrame and the other calls on a device by its number *)

BeginCall(t) ==
    /\ pc[t] = "idle"
    /\ Goto(t, IF inited THEN "find" ELSE "idle")
    /\ orderly' = (orderly /\ OthersUse)
    /\ UNCHANGED <<object, libusb, local, smooth>>

\* threadLock is held only to take the pointer; dev is Nobody for an invalid number.
FindDevice(t) ==
    /\ pc[t] = "find" /\ threadLock = Nobody
    /\ \/ \E n \in DOMAIN deviceList : dev' = [dev EXCEPT ![t] = deviceList[n]] /\ Goto(t, "enter")
       \/ UNCHANGED dev /\ Goto(t, "idle")
    /\ UNCHANGED <<object, libusb, todo, devNum, ghosts>>

Alive(d) == \E n \in DOMAIN deviceList : deviceList[n] = d

\* A command waits for frameLock, a frame does not; the behaviour of a call of a
\* device that has been destroyed is undefined: it returns, or is lost.
EnterDevice(t) ==
    /\ pc[t] = "enter"
    /\ \/ Alive(dev[t]) /\ Unused(dev[t]) /\ Goto(t, "command")
       \/ Alive(dev[t]) /\ Goto(t, "frame")
       \/ ~Alive(dev[t]) /\ (Goto(t, "idle") \/ Goto(t, "lost"))
    /\ dev' = [dev EXCEPT ![t] = IF Alive(@) THEN @ ELSE Nobody]
    /\ UNCHANGED <<object, libusb, todo, devNum, ghosts>>

LeaveDevice(t) ==
    /\ pc[t] \in {"command", "frame"}
    /\ Goto(t, "idle")
    /\ dev' = [dev EXCEPT ![t] = Nobody]
    /\ UNCHANGED <<object, libusb, todo, devNum, ghosts>>

\* What a call does once it has begun.
Proceed(t) ==
    \/ InitLibusb(t) \/ Enumerate(t) \/ OpenOne(t) \/ EndOpen(t)
    \/ DestroyOne(t) \/ EndClose(t)
    \/ LeaveDevice(t)

Wait(t) == LockOpen(t) \/ LockClose(t) \/ FindDevice(t) \/ EnterDevice(t)

Next ==
    \/ Plug \/ Unplug
    \/ \E t \in Threads :
          BeginOpen(t) \/ BeginClose(t) \/ BeginCall(t) \/ Proceed(t) \/ Wait(t)

Spec == Init /\ [][Next]_vars

-----------------------------------------------------------------------------
(* Properties *)

FlagsOK == inited \in BOOLEAN /\ orderly \in BOOLEAN /\ smooth \in BOOLEAN

LibusbOK ==
    /\ refs \in 0 .. MaxRefs /\ claims \subseteq Devices /\ dropped \subseteq Devices
    /\ plugged \subseteq Devices /\ unplugged \subseteq Devices

ThreadsOK ==
    /\ pc \in [Threads -> {"idle", "find", "lost"} \cup Opening \cup Closing \cup Using]
    /\ todo \in [Threads -> SUBSET Devices] /\ devNum \in [Threads -> Nat]
    /\ dev \in [Threads -> Devices \cup {Nobody}]

\* threadLock names the one thread that changes the list.
LockOK ==
    /\ threadLock \in Threads \cup {Nobody}
    /\ \A t \in Threads : threadLock = t <=> pc[t] \in {"scan", "clear"}

TypeOK == deviceList \in Seq(Devices) /\ FlagsOK /\ LibusbOK /\ ThreadsOK /\ LockOK

\* However OpenDevices and CloseDevices overlap, no device is listed twice, and the
\* handles that have claimed an interface are those listed or dropped.
NoDeviceTwice ==
    /\ \A m, n \in DOMAIN deviceList : deviceList[m] = deviceList[n] => m = n
    /\ \A d \in Devices : Alive(d) => d \in claims
    /\ \A d \in claims : Alive(d) \/ d \in dropped

\* inited, read without the lock, tells whether there are devices to use.
InitedMeansOpen == threadLock = Nobody => (inited <=> deviceList # <<>>)

\* A device is not destroyed while a command is under way on it.  As long as no call
\* overlaps CloseDevices, the pointer that any call has taken stays good, and so does
\* libusb's context.
PointerAlive ==
    /\ \A t \in Threads : pc[t] = "command" => Alive(dev[t])
    /\ orderly => /\ \A t \in Threads : /\ pc[t] \in Using => Alive(dev[t])
                                        /\ pc[t] # "lost"
                  /\ deviceList # <<>> => refs > 0

\* "closes and frees all devices": with every device closed nothing is left open,
\* provided that no step of OpenDevices has failed and it has always found a device.
AllFreed ==
    orderly /\ smooth /\ ~inited /\ (\A t \in Threads : pc[t] = "idle") =>
        claims = {} /\ dropped = {} /\ refs = 0

\* While there are devices, the number of each stays the same until they are all
\* closed.
NumbersStable ==
    [][inited => \A n \in DOMAIN deviceList :
                     n \in DOMAIN deviceList' /\ deviceList'[n] = deviceList[n]]_vars

-----------------------------------------------------------------------------
(* Liveness *)

\* Threads run on, USB transfers end or time out, and a lock that is free again and
\* again is obtained in the end.
FairSpec ==
    /\ Spec
    /\ \A t \in Threads : WF_vars(Proceed(t)) /\ SF_vars(Wait(t))

\* Every call returns, but for one of a destroyed device: the two locks never wait for
\* each other.
CallsReturn == \A t \in Threads : pc[t] # "idle" ~> pc[t] \in {"idle", "lost"}
=============================================================================
