-------------------------- MODULE CommandProtocol --------------------------
(***************************************************************************)
(* The commands of the SDK and their answers: one HeliosDacDevice, whose   *)
(* calls frameLock makes one at a time, and the firmware's command handler *)
(* with the device name it keeps in the flash's user signature.            *)
(*                                                                         *)
(* Between them are the interrupt OUT endpoint, whose two banks hold       *)
(* commands the handler has not taken yet, and the interrupt IN endpoint,  *)
(* whose one job holds one answer.  A transfer may time out at either end: *)
(* the host gives up, and what it wanted may happen all the same.  Power   *)
(* may fail between any two steps of the device.                           *)
(*                                                                         *)
(* An operator named X_<what is wrong> is X with a mistake its code could  *)
(* have, and no part of the specification.                                 *)
(***************************************************************************)
EXTENDS Integers, Sequences

CONSTANTS
    Names,          \* names the application may give the device
    Default,        \* the name the firmware gives it
    Erased,         \* an erased user signature
    Banks           \* how many commands the OUT endpoint holds

ASSUME NamesAssumption ==
    Default \notin Names /\ Erased \notin Names \cup {Default} /\ "none" \notin Names
ASSUME BanksAssumption == Banks \in Nat \ {0}

Stored == Names \cup {Default}

\* What an answer says: its first byte names the command it answers.
Answers == [id : {"status"}, value : {"ready", "full"}]
           \cup [id : {"version"}, value : {"release"}]
           \cup [id : {"name"}, value : Stored \cup {Erased}]

NoAnswer == [id |-> "none", value |-> "none"]

\* The calls, with how often each sends its command and reads for its answer.
\* "version" and "sdk" (the SDK's version) are sent by the constructor; SetShutter
\* and Stop end like "plain".
Tries == [status |-> 1, name |-> 2, set |-> 1, plain |-> 1, erase |-> 1,
          version |-> 2, sdk |-> 2]
Reads == [status |-> 1, name |-> 1, set |-> 0, plain |-> 0, erase |-> 0,
          version |-> 3, sdk |-> 0]

Calls == {"status", "name", "set", "plain", "erase"}

\* A command on its way: its name, and the name that "set" carries.
Command == [op : DOMAIN Tries, arg : Names \cup {"none"}]

VARIABLES
    \* the host: is the device open, the call under way and its argument, what it
    \* does next, the attempts and reads left; the latest call that succeeded
    open, op, arg, step, tries, reads, result,
    \* the endpoints; does the host's handle still reach the device?
    out, answer, attached,
    \* the device: what it is doing, the name being written, the user signature,
    \* newFrameReady
    dev, writing, flash, full,
    \* what the device could have answered, truthfully, since the host last took an
    \* answer, and since the latest call began; did that call find no answer of its own
    \* kind left over?
    since, during, clean

host == <<open, op, arg, step, tries, reads, result>>
pipe == <<out, answer, attached>>
device == <<dev, writing, flash, full>>
ghosts == <<since, during, clean>>
vars == <<host, pipe, device, ghosts>>

\* The answers the device would give in its present state.
Truth(f, s) == {[id |-> "status", value |-> IF f THEN "full" ELSE "ready"],
                [id |-> "name", value |-> s], [id |-> "version", value |-> "release"]}

Now == Truth(full, flash)

\* A device that has been powered on, with or without a name.
Init ==
    /\ open = FALSE /\ op = "plain" /\ arg = "none" /\ step = "idle"
    /\ tries = 0 /\ reads = 0 /\ result = [op |-> "none", value |-> "none"]
    /\ out = <<>> /\ answer = NoAnswer /\ attached = FALSE
    /\ dev = "boot" /\ writing = Default /\ flash \in Stored \cup {Erased} /\ full = FALSE
    /\ since = Now /\ during = {} /\ clean = TRUE

\* since and during see every state the device passes through.
Observe ==
    /\ since' = since \cup Truth(full', flash')
    /\ during' = IF step = "idle" THEN during ELSE during \cup Truth(full', flash')
    /\ UNCHANGED clean

-----------------------------------------------------------------------------
(* The host *)

\* The loop over the attempts of call c, from its first.
Call(c, a) ==
    /\ op' = c /\ arg' = a
    /\ step' = "send" /\ tries' = Tries[c] /\ reads' = 0

\* The end of a call; the constructor goes on from the firmware's version to its own.
EndCall ==
    IF op = "version"
    THEN Call("sdk", "none")
    ELSE op' = "plain" /\ arg' = "none" /\ step' = "idle" /\ tries' = 0 /\ reads' = 0

Succeed(v) ==
    /\ EndCall
    /\ result' = [op |-> op, value |-> v]

\* The next attempt of the call, or an error to the caller.
NextTry ==
    /\ UNCHANGED result
    /\ IF tries > 1
       THEN step' = "send" /\ tries' = tries - 1 /\ reads' = 0 /\ UNCHANGED <<op, arg>>
       ELSE EndCall

FreeEndpoints_OnlyOut == out' = <<>> /\ UNCHANGED answer

\* SET_INTERFACE frees the endpoints, with their banks and jobs.
FreeEndpoints == out' = <<>> /\ answer' = NoAnswer

\* OpenDevices selects the interface; the constructor then reads away what answers
\* linger, until a read fails.
Open ==
    /\ ~open /\ dev = "run"
    /\ open' = TRUE /\ attached' = TRUE
    /\ FreeEndpoints
    /\ op' = "version" /\ arg' = "none" /\ step' = "drain" /\ tries' = 0 /\ reads' = 0
    /\ result' = [op |-> "none", value |-> "none"]
    /\ since' = Now /\ during' = {} /\ clean' = TRUE
    /\ UNCHANGED device

\* Every call first returns HELIOS_ERROR_DEVICE_CLOSED if the device is closed.
Begin ==
    /\ step = "idle" /\ open
    /\ \E c \in Calls, a \in Names \cup {"none"} :
          /\ c = "set" <=> a # "none"
          /\ Call(c, a)
          /\ clean' = (answer.id # c)
    /\ result' = [op |-> "none", value |-> "none"]
    /\ during' = Now
    /\ UNCHANGED <<open, pipe, device, since>>

\* The destructor.
Close ==
    /\ step = "idle" /\ open
    /\ open' = FALSE
    /\ UNCHANGED <<op, arg, step, tries, reads, result, pipe, device, ghosts>>

\* The endpoint takes a command while it has a free bank.
Deliver == Len(out) < Banks /\ out' = Append(out, [op |-> op, arg |-> arg])

\* What SendControl()'s success leads to: EraseFirmware() also closes the device.
AfterSend ==
    IF Reads[op] > 0
    THEN /\ step' = "read" /\ reads' = Reads[op]
         /\ UNCHANGED <<open, op, arg, tries, result>>
    ELSE /\ Succeed(arg)
         /\ open' = (op # "erase")

\* A command that timed out may have been received all the same.
SendControl ==
    /\ step = "send"
    /\ \/ attached /\ Deliver /\ AfterSend
       \/ attached /\ Deliver /\ NextTry /\ UNCHANGED open
       \/ NextTry /\ UNCHANGED <<open, out>>
    /\ UNCHANGED <<answer, attached, device>>
    /\ Observe

Taken_KindIgnored == TRUE

\* Is the answer read the one the call asked for?
Taken == answer.id = op

\* The read that failed was the last of this attempt, or not.
ReadAgain ==
    IF reads > 1
    THEN reads' = reads - 1 /\ UNCHANGED <<op, arg, step, tries, result>>
    ELSE NextTry

StartDialogue == Call("version", "none") /\ UNCHANGED result

\* The host reads interrupt IN: it gets the answer there is, or loses it by giving
\* up at that moment; or it gives up while there is none.
ReadAnswer ==
    /\ step \in {"read", "drain"}
    /\ \/ /\ attached /\ answer # NoAnswer
          /\ answer' = NoAnswer
          /\ since' = Now
          /\ IF step = "drain"
             THEN UNCHANGED <<op, arg, step, tries, reads, result>>
             ELSE IF Taken THEN Succeed(answer.value) \/ ReadAgain ELSE ReadAgain
       \/ /\ ~attached \/ answer = NoAnswer
          /\ IF step = "drain" THEN StartDialogue ELSE ReadAgain
          /\ UNCHANGED <<answer, since>>
    /\ during' = during \cup Now
    /\ UNCHANGED <<open, out, attached, device, clean>>

HostStep == SendControl \/ ReadAnswer

-----------------------------------------------------------------------------
(* The device *)

\* assign_default_name(): an erased signature gets the default name.
NeedsName_Always == TRUE

NeedsName_Never == FALSE

NeedsName == flash = Erased

\* main() up to its idle loop.  No host can reach the device yet.
Boot ==
    /\ dev = "boot"
    /\ dev' = IF NeedsName THEN "write" ELSE "run"
    /\ writing' = Default
    /\ UNCHANGED <<flash, full, host, pipe>>
    /\ Observe

\* flash_erase_user_signature() has been done; flash_write_user_signature() follows.
WriteName ==
    /\ dev = "write"
    /\ flash' = writing
    /\ dev' = "run"
    /\ UNCHANGED <<writing, full, host, pipe>>
    /\ Observe

\* udd_ep_run on interrupt IN: refused while the job holds an unread answer.
Answer(a) == answer' = IF answer = NoAnswer THEN a ELSE answer

GivenAnswer(c) == CHOOSE a \in Now : a.id = c

NameToWrite_Default(c) == Default

\* The 32 bytes after the command's first.
NameToWrite(c) == c.arg

\* usb_interrupt_out_callback: the command is taken, and the endpoint armed again.
usb_interrupt_out_callback ==
    /\ dev = "run" /\ out # <<>>
    /\ out' = Tail(out)
    /\ LET c == Head(out) IN
       \/ /\ c.op \in {"status", "name", "version"}
          /\ Answer(GivenAnswer(c.op))
          /\ UNCHANGED device
       \/ /\ c.op \in {"plain", "sdk"}
          /\ UNCHANGED <<answer, device>>
       \/ /\ c.op = "set"              \* the old name is erased first
          /\ flash' = Erased /\ writing' = NameToWrite(c) /\ dev' = "write"
          /\ UNCHANGED <<answer, full>>
       \/ /\ c.op = "erase"            \* stop_weak(), and wait for the watchdog
          /\ dev' = "bootloader" /\ full' = FALSE
          /\ UNCHANGED <<answer, writing, flash>>
    /\ UNCHANGED <<host, attached>>
    /\ Observe

\* Another thread queues a frame; a tick takes it, or a stop drops it.
BufferChanges ==
    /\ dev = "run"
    /\ full' = ~full
    /\ UNCHANGED <<dev, writing, flash, host, pipe>>
    /\ Observe

\* The plug is pulled and put back: what was in the endpoints is gone, and the
\* host's handle with it.
PowerCut ==
    /\ dev' = IF dev = "bootloader" THEN dev ELSE "boot"
    /\ full' = FALSE
    /\ out' = <<>> /\ answer' = NoAnswer /\ attached' = FALSE
    /\ UNCHANGED <<writing, flash, host>>
    /\ Observe

DeviceStep == Boot \/ WriteName \/ usb_interrupt_out_callback

Next ==
    \/ Open \/ Begin \/ Close \/ HostStep
    \/ DeviceStep \/ BufferChanges \/ PowerCut

Spec == Init /\ [][Next]_vars

-----------------------------------------------------------------------------
(* Properties *)

FlagsOK == open \in BOOLEAN /\ attached \in BOOLEAN /\ full \in BOOLEAN /\ clean \in BOOLEAN

CallOK ==
    /\ op \in DOMAIN Tries /\ arg \in Names \cup {"none"}
    /\ step \in {"idle", "drain", "send", "read"}
    /\ tries \in 0 .. 2 /\ reads \in 0 .. 3
    /\ result.op \in DOMAIN Tries \cup {"none"}

PipeOK ==
    /\ out \in Seq(Command) /\ Len(out) <= Banks
    /\ answer \in Answers \cup {NoAnswer}

DeviceOK ==
    /\ dev \in {"boot", "write", "run", "bootloader"}
    /\ writing \in Stored /\ flash \in Stored \cup {Erased}

GhostsOK == since \subseteq Answers /\ during \subseteq Answers

TypeOK == FlagsOK /\ CallOK /\ PipeOK /\ DeviceOK /\ GhostsOK

\* An answer may be late, but the one waiting was true at some time since the host
\* last took one: two old answers never pile up.
AnswerRecent == answer # NoAnswer => answer \in since

\* What GetStatus and GetName return was so at some time during the call, provided
\* that no call of the same kind that timed out has left its answer.  What is left over
\* of another kind, and any command still on its way, fails the call or does no harm.
CleanCallCurrent ==
    clean /\ result.op \in {"status", "name"} =>
        [id |-> result.op, value |-> result.value] \in during

\* GetStatus "actually checks whether or not the buffer on the DAC is empty or full".
StatusIsCurrent ==
    result.op = "status" => [id |-> "status", value |-> result.value] \in during

\* A device that serves a host has a name, whenever the power was cut, and never
\* reports an erased one.
NeverNameless ==
    /\ dev \in {"run", "bootloader"} => flash \in Stored
    /\ answer.id = "name" => answer.value \in Stored

\* A stored name is given up only for one the host sets.
NamePersists ==
    [][flash' # flash => flash = Erased \/ (out # <<>> /\ Head(out).op = "set")]_vars

-----------------------------------------------------------------------------
(* Liveness *)

\* The device takes what its endpoints hold.
FairSpec == Spec /\ WF_vars(DeviceStep)

\* A name that SetName has accepted gets stored, unless before the device has taken
\* the command the power is cut, the device closed, or its firmware erased (by a
\* command the host believes to have failed).
NameStored ==
    \A n \in Names :
        result = [op |-> "set", value |-> n]
            ~> flash = n \/ ~attached \/ ~open \/ dev = "bootloader"
=============================================================================
