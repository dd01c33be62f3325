----------------------- MODULE CommandProtocol_proofs -----------------------
(***************************************************************************)
(* Proofs about CommandProtocol, for any set of names and any number of    *)
(* banks: what the answers and the stored name are worth.                  *)
(***************************************************************************)
EXTENDS CommandProtocol, SequenceTheorems, TLAPS

USE DEF host, pipe, device, ghosts

-----------------------------------------------------------------------------
(* The operators *)

LEMMA CallNumbers ==
    /\ DOMAIN Tries = {"status", "name", "set", "plain", "erase", "version", "sdk"}
    /\ \A c \in DOMAIN Tries : Tries[c] \in 0 .. 2 /\ Reads[c] \in 0 .. 3
    /\ \A c \in {"status", "name", "version"} : Reads[c] > 0
    /\ \A c \in {"set", "plain", "erase", "sdk"} : Reads[c] = 0
BY SMT DEF Tries, Reads

LEMMA TruthIsAnswers ==
    ASSUME NEW f \in BOOLEAN, NEW s \in Stored \cup {Erased}
    PROVE  Truth(f, s) \subseteq Answers
BY SMT DEF Truth, Answers

\* The answer a command asks for, as the device would give it now.
LEMMA AnswerGiven ==
    ASSUME NEW c \in {"status", "name", "version"}
    PROVE  GivenAnswer(c) \in Now /\ GivenAnswer(c).id = c
<1>1. \E a \in Now : a.id = c
    BY SMT DEF Now, Truth
<1> QED BY <1>1, Zenon DEF GivenAnswer

LEMMA NameGiven == \A a \in Now : a.id = "name" => a.value = flash
BY SMT DEF Now, Truth

-----------------------------------------------------------------------------
(* Types *)

\* A command to set a name carries one.
ArgsOK ==
    /\ op = "set" => arg \in Names
    /\ \A i \in DOMAIN out : out[i].op = "set" => out[i].arg \in Names

Types == TypeOK /\ ArgsOK

LEMMA FlagsKept ==
    ASSUME FlagsOK, [Next]_vars
    PROVE  FlagsOK'
BY Zenon DEF FlagsOK, Next, vars, Open, Begin, Close, HostStep, DeviceStep, BufferChanges,
    PowerCut, SendControl, ReadAnswer, Boot, WriteName, usb_interrupt_out_callback,
    AfterSend, Observe

\* What the steps do to the call under way, whatever else they do.
LEMMA CallMoves ==
    ASSUME [Next]_vars
    PROVE  \/ UNCHANGED <<op, arg, step, tries, reads, result>>
           \/ /\ op' = "version" /\ arg' = "none" /\ step' = "drain"
              /\ tries' = 0 /\ reads' = 0 /\ answer' = NoAnswer
              /\ result' = [op |-> "none", value |-> "none"]
           \/ /\ step = "idle"
              /\ \E c \in Calls, a \in Names \cup {"none"} :
                    (c = "set" <=> a # "none") /\ Call(c, a)
              /\ result' = [op |-> "none", value |-> "none"]
           \/ /\ step = "send" /\ Reads[op] > 0
              /\ step' = "read" /\ reads' = Reads[op]
              /\ UNCHANGED <<op, arg, tries, result>>
           \/ step = "send" /\ ~(Reads[op] > 0) /\ Succeed(arg)
           \/ step = "read" /\ Taken /\ Succeed(answer.value)
           \/ step \in {"send", "read"} /\ NextTry
           \/ /\ step = "read" /\ reads > 1 /\ reads' = reads - 1
              /\ UNCHANGED <<op, arg, step, tries, result>>
           \/ step = "drain" /\ StartDialogue
<1>1. CASE SendControl
    BY <1>1, Zenon DEF SendControl, AfterSend
<1>2. CASE ReadAnswer
    <2>1. step = "read" \/ step = "drain"
        BY <1>2, Zenon DEF ReadAnswer
    <2>2. CASE ReadAgain
        BY <2>1, <2>2, <1>2, Zenon DEF ReadAgain, ReadAnswer
    <2> QED BY <2>1, <2>2, <1>2, Zenon DEF ReadAnswer
<1>3. CASE ~SendControl /\ ~ReadAnswer
    BY <1>3, Zenon DEF Next, vars, Open, Begin, Close, HostStep, DeviceStep, BufferChanges,
        PowerCut, Boot, WriteName, usb_interrupt_out_callback, FreeEndpoints
<1> QED BY <1>1, <1>2, <1>3

LEMMA CallKept ==
    ASSUME CallOK, op = "set" => arg \in Names, [Next]_vars
    PROVE  CallOK' /\ (op = "set" => arg \in Names)'
<1> USE CallNumbers DEF CallOK
<1>1. ASSUME NEW c \in DOMAIN Tries, NEW a \in Names \cup {"none"}, Call(c, a)
      PROVE  /\ op' = c /\ arg' = a
             /\ op' \in DOMAIN Tries /\ arg' \in Names \cup {"none"} /\ step' = "send"
             /\ tries' \in 0 .. 2 /\ reads' \in 0 .. 3
    BY <1>1, SMT DEF Call
<1>2. ASSUME EndCall
      PROVE  /\ op' \in DOMAIN Tries \ {"set"} /\ arg' \in Names \cup {"none"}
             /\ step' \in {"idle", "send"} /\ tries' \in 0 .. 2 /\ reads' \in 0 .. 3
    BY <1>1, <1>2, SMT DEF EndCall
<1>3. CASE \E c \in Calls, a \in Names \cup {"none"} :
              (c = "set" <=> a # "none") /\ Call(c, a) /\ result'.op = "none"
    BY <1>1, <1>3, SMT DEF Calls
<1>4. CASE \E v : Succeed(v)
    BY <1>2, <1>4, SMT DEF Succeed
<1>5. CASE NextTry
    BY <1>2, <1>5, SMT DEF NextTry
<1>6. CASE StartDialogue
    BY <1>1, <1>6, SMT DEF StartDialogue
<1> QED BY CallMoves, <1>3, <1>4, <1>5, <1>6, SMT

\* What the steps do to the OUT endpoint: a host's transfer puts in the command of the
\* call, the firmware takes the first, and a reset frees all.
LEMMA OutMoves ==
    ASSUME [Next]_vars
    PROVE  UNCHANGED out \/ out' = <<>> \/ Deliver \/ (out # <<>> /\ out' = Tail(out))
BY Zenon DEF Next, vars, Open, Begin, Close, HostStep, DeviceStep, BufferChanges,
    PowerCut, SendControl, ReadAnswer, Boot, WriteName, usb_interrupt_out_callback,
    FreeEndpoints

LEMMA OutKept ==
    ASSUME Types, [Next]_vars
    PROVE  /\ out' \in Seq(Command) /\ Len(out') <= Banks
           /\ \A i \in DOMAIN out' : out'[i].op = "set" => out'[i].arg \in Names
<1> DEFINE Good(q) == /\ q \in Seq(Command) /\ Len(q) <= Banks
                      /\ \A i \in DOMAIN q : q[i].op = "set" => q[i].arg \in Names
<1>1. /\ Good(out) /\ op \in DOMAIN Tries /\ arg \in Names \cup {"none"}
      /\ op = "set" => arg \in Names
    BY DEF Types, TypeOK, PipeOK, CallOK, ArgsOK
<1>2. [op |-> op, arg |-> arg] \in Command
    BY <1>1 DEF Command
<1>3. CASE Deliver
    BY <1>1, <1>2, <1>3, BanksAssumption, SMT DEF Deliver
<1>4. CASE out # <<>> /\ out' = Tail(out)
    <2>1. out' \in Seq(Command) /\ Len(out') <= Banks
        BY <1>1, <1>4, BanksAssumption, SMT
    <2>2. \A i \in DOMAIN out' : i + 1 \in DOMAIN out /\ out'[i] = out[i + 1]
        BY <1>1, <1>4, SMT
    <2> QED BY <1>1, <2>1, <2>2
<1>5. CASE out' = <<>>
    BY <1>5, BanksAssumption, SMT
<1> QED BY <1>1, <1>3, <1>4, <1>5, OutMoves

\* And to the answer: the firmware gives a true one if there is room, and a read or a
\* reset takes it away.
LEMMA AnswerMoves ==
    ASSUME [Next]_vars
    PROVE  \/ UNCHANGED answer
           \/ answer' = NoAnswer
           \/ answer' \in Now /\ answer = NoAnswer /\ UNCHANGED device /\ Observe
<1>1. CASE usb_interrupt_out_callback
    <2> DEFINE c == Head(out)
    <2>1. \/ UNCHANGED answer
          \/ /\ c.op \in {"status", "name", "version"} /\ Answer(GivenAnswer(c.op))
             /\ UNCHANGED device /\ Observe
        BY <1>1, Zenon DEF usb_interrupt_out_callback
    <2> HIDE DEF c
    <2> QED BY <2>1, AnswerGiven, Zenon DEF Answer
<1>2. CASE ~usb_interrupt_out_callback
    BY <1>2, Zenon DEF Next, vars, Open, Begin, Close, HostStep, DeviceStep, BufferChanges,
        PowerCut, SendControl, ReadAnswer, Boot, WriteName, FreeEndpoints
<1> QED BY <1>1, <1>2

\* And to the device.
LEMMA DeviceMoves ==
    ASSUME ArgsOK, PipeOK, [Next]_vars
    PROVE  \/ UNCHANGED <<dev, writing, flash>>
           \/ /\ dev = "boot" /\ dev' = (IF NeedsName THEN "write" ELSE "run")
              /\ writing' = Default /\ UNCHANGED flash
           \/ /\ dev = "write" /\ dev' = "run" /\ flash' = writing /\ UNCHANGED writing
           \/ /\ dev = "run" /\ out # <<>> /\ Head(out).op = "set" /\ dev' = "write"
              /\ flash' = Erased /\ writing' \in Names
           \/ dev = "run" /\ dev' = "bootloader" /\ UNCHANGED <<writing, flash>>
           \/ dev' \in {"boot", "bootloader"} /\ (dev' = "bootloader" => dev = "bootloader")
              /\ UNCHANGED <<writing, flash>>
<1>1. out # <<>> => 1 \in DOMAIN out /\ Head(out) = out[1]
    BY SMT DEF PipeOK
<1>2. CASE usb_interrupt_out_callback
    <2> DEFINE c == Head(out)
    <2>1. out # <<>> => (c.op = "set" => NameToWrite(c) \in Names)
        BY <1>1, Zenon DEF ArgsOK, NameToWrite
    <2> HIDE DEF c
    <2>2. \/ UNCHANGED device
          \/ /\ dev = "run" /\ out # <<>> /\ c.op = "set" /\ dev' = "write"
             /\ flash' = Erased /\ writing' = NameToWrite(c)
          \/ dev = "run" /\ dev' = "bootloader" /\ UNCHANGED <<writing, flash>>
        BY <1>2, Zenon DEF usb_interrupt_out_callback, c
    <2> QED BY <2>1, <2>2, Zenon DEF c
<1>3. CASE PowerCut
    BY <1>3, Zenon DEF PowerCut
<1>4. CASE ~usb_interrupt_out_callback /\ ~PowerCut
    BY <1>4, Zenon DEF Next, vars, Open, Begin, Close, HostStep, DeviceStep, BufferChanges,
        SendControl, ReadAnswer, Boot, WriteName
<1> QED BY <1>2, <1>3, <1>4

LEMMA DeviceKept ==
    ASSUME Types, [Next]_vars
    PROVE  DeviceOK'
<1>1. ArgsOK /\ PipeOK /\ DeviceOK
    BY DEF Types, TypeOK
<1>2. Default \in Stored /\ Names \subseteq Stored
    BY DEF Stored
<1> QED BY <1>1, <1>2, DeviceMoves, SMT DEF DeviceOK

\* And to the two histories.
LEMMA GhostMoves ==
    ASSUME [Next]_vars
    PROVE  /\ since' \in {since, Now, since \cup Truth(full', flash')}
           /\ during' \in {during, {}, Now, during \cup Now, during \cup Truth(full', flash')}
BY Zenon DEF Next, vars, Open, Begin, Close, HostStep, DeviceStep, BufferChanges,
    PowerCut, SendControl, ReadAnswer, Boot, WriteName, usb_interrupt_out_callback, Observe

LEMMA GhostsKept ==
    ASSUME Types, [Next]_vars
    PROVE  GhostsOK'
<1>1. full \in BOOLEAN /\ flash \in Stored \cup {Erased} /\ GhostsOK /\ FlagsOK
    BY DEF Types, TypeOK, FlagsOK, DeviceOK
<1>2. full' \in BOOLEAN /\ flash' \in Stored \cup {Erased}
    BY <1>1, FlagsKept, DeviceKept DEF FlagsOK, DeviceOK
<1>3. Now \subseteq Answers /\ Truth(full', flash') \subseteq Answers
    BY <1>1, <1>2, TruthIsAnswers, Zenon DEF Now
<1> QED BY <1>1, <1>3, GhostMoves DEF GhostsOK

LEMMA TypesKept ==
    ASSUME Types, [Next]_vars
    PROVE  Types'
<1>1. FlagsOK' /\ CallOK' /\ DeviceOK' /\ GhostsOK'
    BY FlagsKept, CallKept, DeviceKept, GhostsKept DEF Types, TypeOK, ArgsOK
<1>2. (op = "set" => arg \in Names)'
    BY CallKept DEF Types, TypeOK, ArgsOK
<1>3. answer' \in Answers \cup {NoAnswer}
    <2>1. Now \subseteq Answers
        BY TruthIsAnswers, Zenon DEF Now, Types, TypeOK, FlagsOK, DeviceOK
    <2> QED BY <2>1, AnswerMoves DEF Types, TypeOK, PipeOK
<1> QED BY <1>1, <1>2, <1>3, OutKept DEF Types, TypeOK, ArgsOK, PipeOK

LEMMA TypesInit == Init => Types
<1> SUFFICES ASSUME Init PROVE Types
    OBVIOUS
<1>1. FlagsOK
    BY Zenon DEF Init, FlagsOK
<1>2. DeviceOK
    BY SMT DEF Init, DeviceOK, Stored
<1>3. GhostsOK
    BY <1>1, <1>2, TruthIsAnswers DEF Init, GhostsOK, Now, FlagsOK, DeviceOK
<1>4. CallOK
    BY CallNumbers, SMT DEF Init, CallOK
<1>5. PipeOK
    BY BanksAssumption, SMT DEF Init, PipeOK
<1>6. ArgsOK
    BY SMT DEF Init, ArgsOK
<1> QED BY <1>1, <1>2, <1>3, <1>4, <1>5, <1>6 DEF Types, TypeOK

LEMMA TypesStutter == Types /\ UNCHANGED vars => Types'
BY DEF Types, TypeOK, FlagsOK, CallOK, PipeOK, DeviceOK, GhostsOK, ArgsOK, vars

LEMMA TypesInvariant == Spec => []Types
<1>1. Types /\ [Next]_vars => Types'
    BY TypesKept, TypesStutter
<1> QED BY TypesInit, <1>1, PTL DEF Spec

\* Type correctness, for any set of names and any number of banks.
THEOREM CommandTypes == Spec => []TypeOK
<1>1. Types => TypeOK
    BY DEF Types
<1> QED BY <1>1, TypesInvariant, PTL

-----------------------------------------------------------------------------
(* The answers *)

\* The answer that waits is among those the device could have given: AnswerRecent since
\* the host last took one.  Within a call that found no answer of its kind, an answer of
\* its kind is one of the call's own time.
LateAnswers ==
    /\ AnswerRecent
    /\ step = "drain" => op = "version"
    /\ clean /\ step # "idle" => (answer.id = op => answer \in during)
    /\ CleanCallCurrent

\* Only a reset or a new call forgets what the device could have answered.
LEMMA HistoryKept ==
    ASSUME [Next]_vars
    PROVE  \/ since \subseteq since'
           \/ answer' = NoAnswer
BY Zenon DEF Next, vars, Open, Begin, Close, HostStep, DeviceStep, BufferChanges, PowerCut,
    SendControl, ReadAnswer, Boot, WriteName, usb_interrupt_out_callback, Observe,
    FreeEndpoints

LEMMA RecentKept ==
    ASSUME AnswerRecent, [Next]_vars
    PROVE  AnswerRecent'
<1>1. UNCHANGED device /\ Observe => Now \subseteq since'
    BY Zenon DEF Observe, Now
<1> QED BY <1>1, HistoryKept, AnswerMoves DEF AnswerRecent

\* Within a call nothing is forgotten, and an answer given is seen.
LEMMA CallHistory ==
    ASSUME [Next]_vars, step # "idle"
    PROVE  \/ during \subseteq during' /\ UNCHANGED clean
           \/ /\ answer' = NoAnswer /\ op' = "version" /\ step' = "drain"
              /\ result' = [op |-> "none", value |-> "none"]
<1>1. CASE Open
    BY <1>1, Zenon DEF Open, FreeEndpoints
<1>2. CASE ~Open
    BY <1>2, Zenon DEF Next, vars, Begin, Close, HostStep, DeviceStep, BufferChanges, PowerCut,
        SendControl, ReadAnswer, Boot, WriteName, usb_interrupt_out_callback, Observe
<1> QED BY <1>1, <1>2

\* Between calls only a new call or a new handle makes a difference.
LEMMA IdleMoves ==
    ASSUME [Next]_vars, step = "idle"
    PROVE  \/ UNCHANGED <<op, step, result, during, clean>>
           \/ /\ answer' = NoAnswer /\ op' = "version" /\ step' = "drain"
              /\ result' = [op |-> "none", value |-> "none"]
           \/ /\ UNCHANGED answer /\ (clean' => answer.id # op') /\ step' = "send"
              /\ result' = [op |-> "none", value |-> "none"]
<1>1. CASE Open
    BY <1>1, Zenon DEF Open, FreeEndpoints
<1>2. CASE Begin
    BY <1>2, Zenon DEF Begin, Call
<1>3. CASE HostStep
    BY <1>3, Zenon DEF HostStep, SendControl, ReadAnswer
<1>4. CASE ~Open /\ ~Begin /\ ~HostStep
    BY <1>4, Zenon DEF Next, vars, Close, DeviceStep, BufferChanges, PowerCut,
        Boot, WriteName, usb_interrupt_out_callback, Observe
<1> QED BY <1>1, <1>2, <1>3, <1>4

\* An answer of a kind is a record of that kind; no answer is of no call's kind.
LEMMA AnswerShape ==
    ASSUME PipeOK
    PROVE  /\ answer = NoAnswer \/ answer = [id |-> answer.id, value |-> answer.value]
           /\ answer.id \in {"status", "version", "name", "none"}
           /\ answer.id = "none" <=> answer = NoAnswer
BY SMT DEF PipeOK, Answers, NoAnswer

\* Where a step leaves the call under way: at its next try, at an end that no answer
\* fits, or at the beginning.
LEMMA CallGoesOn ==
    ASSUME CallOK, step = "drain" => op = "version", [Next]_vars, step # "idle"
    PROVE  \/ /\ answer' = NoAnswer /\ op' = "version" /\ step' = "drain"
              /\ result' = [op |-> "none", value |-> "none"]
           \/ /\ op' = op \/ op' \in {"sdk", "plain"}
              /\ step' = "drain" => step = "drain" /\ op' = op
              /\ \/ UNCHANGED result
                 \/ result'.op \notin {"status", "name"}
                 \/ Taken /\ result' = [op |-> op, value |-> answer.value]
<1> USE CallNumbers DEF CallOK
<1>1. EndCall => op' \in {"sdk", "plain"} /\ step' # "drain"
    BY SMT DEF EndCall, Call
<1>2. CASE step = "send" /\ ~(Reads[op] > 0) /\ Succeed(arg)
    BY <1>1, <1>2, SMT DEF Succeed
<1>3. CASE Taken /\ Succeed(answer.value)
    BY <1>1, <1>3, SMT DEF Succeed
<1>4. CASE step \in {"send", "read"} /\ NextTry
    BY <1>1, <1>4, SMT DEF NextTry
<1>5. CASE step = "drain" /\ StartDialogue
    BY <1>5, SMT DEF StartDialogue, Call
<1> QED BY <1>2, <1>3, <1>4, <1>5, CallMoves, SMT

LEMMA LateAnswersKept ==
    ASSUME Types, LateAnswers, [Next]_vars
    PROVE  LateAnswers'
<1> DEFINE Restart == /\ answer' = NoAnswer /\ op' = "version" /\ step' = "drain"
                      /\ result' = [op |-> "none", value |-> "none"]
           Drains == step = "drain" => op = "version"
           Mine == clean /\ step # "idle" => (answer.id = op => answer \in during)
<1>1. PipeOK /\ CallOK /\ PipeOK' /\ CallOK'
    BY TypesKept DEF Types, TypeOK
<1>2. /\ answer = NoAnswer \/ answer = [id |-> answer.id, value |-> answer.value]
      /\ answer'.id \in {"status", "version", "name", "none"}
      /\ answer'.id = "none" <=> answer' = NoAnswer
    BY <1>1, AnswerShape, SMT DEF PipeOK, Answers, NoAnswer
<1>3. AnswerRecent'
    BY RecentKept DEF LateAnswers
<1>4. CASE Restart
    BY <1>2, <1>3, <1>4, SMT DEF LateAnswers, CleanCallCurrent
<1>5. CASE step = "idle" /\ ~Restart
    <2>1. Drains'
        BY <1>5, IdleMoves DEF LateAnswers
    <2>2. CASE UNCHANGED <<op, step, result, during, clean>>
        BY <1>3, <1>5, <2>2, Zenon DEF LateAnswers, CleanCallCurrent
    <2>3. CASE /\ UNCHANGED answer /\ (clean' => answer.id # op') /\ step' = "send"
               /\ result' = [op |-> "none", value |-> "none"]
        <3>1. result'.op \notin {"status", "name"}
            BY <2>3
        <3> QED BY <1>3, <2>3, <3>1, Zenon DEF LateAnswers, CleanCallCurrent
    <2> QED BY <1>5, <2>2, <2>3, IdleMoves
<1>6. CASE step # "idle" /\ ~Restart
    <2>1. during \subseteq during' /\ UNCHANGED clean
        BY <1>6, CallHistory
    <2>2. \/ UNCHANGED answer \/ answer' = NoAnswer \/ answer' \in during'
        <3>1. UNCHANGED device /\ Observe => Now \subseteq during'
            BY <1>6, Zenon DEF Observe, Now
        <3> QED BY <3>1, AnswerMoves
    <2>3. /\ op' = op \/ op' \in {"sdk", "plain"}
          /\ step' = "drain" => step = "drain" /\ op' = op
          /\ \/ UNCHANGED result
             \/ result'.op \notin {"status", "name"}
             \/ Taken /\ result' = [op |-> op, value |-> answer.value]
        BY <1>1, <1>6, CallGoesOn DEF LateAnswers
    <2>4. Drains'
        BY <2>3 DEF LateAnswers
    <2>5. Mine'
        <3> SUFFICES ASSUME clean', answer'.id = op' PROVE answer' \in during'
            BY Zenon
        <3>1. answer' # NoAnswer /\ op' = op
            BY <1>1, <1>2, <2>3 DEF CallOK, NoAnswer, Tries
        <3> QED BY <1>6, <2>1, <2>2, <3>1, Zenon DEF LateAnswers
    <2>6. CleanCallCurrent'
        <3>1. CASE UNCHANGED result
            BY <2>1, <3>1, Zenon DEF LateAnswers, CleanCallCurrent
        <3>2. CASE result'.op \notin {"status", "name"}
            BY <3>2, Zenon DEF CleanCallCurrent
        <3>3. CASE Taken /\ result' = [op |-> op, value |-> answer.value]
            <4>1. [id |-> result'.op, value |-> result'.value] = answer \/ answer = NoAnswer
                BY <1>2, <3>3 DEF Taken
            <4>2. answer = NoAnswer => result'.op \notin {"status", "name"}
                BY <3>3 DEF Taken, NoAnswer
            <4>3. clean => answer \in during
                BY <1>6, <3>3, Zenon DEF LateAnswers, Taken
            <4> QED BY <2>1, <4>1, <4>2, <4>3, Zenon DEF CleanCallCurrent
        <3> QED BY <2>3, <3>1, <3>2, <3>3
    <2> QED BY <1>3, <2>4, <2>5, <2>6, Zenon DEF LateAnswers
<1> QED BY <1>4, <1>5, <1>6

LEMMA LateAnswersInvariant == Spec => []LateAnswers
<1>1. Init => LateAnswers
    <2> SUFFICES ASSUME Init PROVE LateAnswers
        OBVIOUS
    <2>1. answer = NoAnswer /\ step = "idle" /\ result.op = "none"
        BY DEF Init
    <2> QED BY <2>1, SMT DEF LateAnswers, AnswerRecent, CleanCallCurrent
<1>2. LateAnswers /\ UNCHANGED vars => LateAnswers'
    BY DEF LateAnswers, AnswerRecent, CleanCallCurrent, vars
<1>3. Types /\ LateAnswers /\ [Next]_vars => LateAnswers'
    BY <1>2, LateAnswersKept
<1> QED BY <1>1, <1>3, TypesInvariant, PTL DEF Spec

\* An answer waiting for the host was true at some time since it last took one, however
\* many transfers have timed out and however often the power has failed (the interrupt
\* IN endpoint's one job, udd_ep_run).
THEOREM AnswersNeverPileUp == Spec => []AnswerRecent
<1>1. LateAnswers => AnswerRecent
    BY DEF LateAnswers
<1> QED BY <1>1, LateAnswersInvariant, PTL

\* GetStatus and GetName return what was so during the call, when no call of the same
\* kind has left an answer behind (HeliosDacDevice::GetStatus, GetName).
THEOREM CleanCallsCurrent == Spec => []CleanCallCurrent
<1>1. LateAnswers => CleanCallCurrent
    BY DEF LateAnswers
<1> QED BY <1>1, LateAnswersInvariant, PTL

-----------------------------------------------------------------------------
(* The name *)

\* While a name is being written the signature is erased; a device that serves a host
\* has one.
NameInv ==
    /\ dev = "write" => flash = Erased
    /\ NeverNameless

LEMMA NameKept ==
    ASSUME Types, NameInv, [Next]_vars
    PROVE  NameInv'
<1>1. ArgsOK /\ PipeOK /\ DeviceOK
    BY DEF Types, TypeOK
<1>2. Erased \notin Stored /\ Default \in Stored /\ Names \subseteq Stored
    BY NamesAssumption DEF Stored
<1>3. (dev = "write" => flash = Erased)' /\ (dev \in {"run", "bootloader"} => flash \in Stored)'
    BY <1>1, <1>2, DeviceMoves, SMT DEF DeviceOK, NameInv, NeverNameless, NeedsName
<1>4. (answer.id = "name" => answer.value \in Stored)'
    <2>1. CASE answer' = NoAnswer
        BY <2>1 DEF NoAnswer
    <2>2. CASE usb_interrupt_out_callback
        <3>1. dev = "run" /\ flash \in Stored
            BY <2>2, Zenon DEF usb_interrupt_out_callback, NameInv, NeverNameless
        <3>2. UNCHANGED answer \/ answer' = NoAnswer \/ answer' \in Now
            BY AnswerMoves
        <3> QED BY <3>1, <3>2, <2>1, NameGiven DEF NameInv, NeverNameless
    <2>3. CASE ~usb_interrupt_out_callback
        <3>1. UNCHANGED answer \/ answer' = NoAnswer
            BY <2>3, Zenon DEF Next, vars, Open, Begin, Close, HostStep, DeviceStep,
                BufferChanges, PowerCut, SendControl, ReadAnswer, Boot, WriteName,
                FreeEndpoints
        <3> QED BY <3>1, <2>1 DEF NameInv, NeverNameless
    <2> QED BY <2>2, <2>3
<1> QED BY <1>3, <1>4 DEF NameInv, NeverNameless

LEMMA NameInvariant == Spec => []NameInv
<1>1. Init => NameInv
    BY SMT DEF Init, NameInv, NeverNameless, NoAnswer
<1>2. NameInv /\ UNCHANGED vars => NameInv'
    BY DEF NameInv, NeverNameless, vars
<1>3. Types /\ NameInv /\ [Next]_vars => NameInv'
    BY <1>2, NameKept
<1> QED BY <1>1, <1>3, TypesInvariant, PTL DEF Spec

\* Whenever the power is cut, a device that serves a host has a name and reports no
\* erased one (assign_default_name at every boot; SetName erases before it writes).
THEOREM AlwaysNamed == Spec => []NeverNameless
<1>1. NameInv => NeverNameless
    BY DEF NameInv
<1> QED BY <1>1, NameInvariant, PTL

\* The stored name changes only for one the host sets: neither booting nor any other
\* command gives it up.
THEOREM NameGivenUpForAnother == Spec => NamePersists
<1>1. ASSUME Types, NameInv, [Next]_vars
      PROVE  [flash' # flash => flash = Erased \/ (out # <<>> /\ Head(out).op = "set")]_vars
    <2>1. ArgsOK /\ PipeOK
        BY <1>1 DEF Types, TypeOK
    <2> QED BY <1>1, <2>1, DeviceMoves, Zenon DEF NameInv
<1> QED BY <1>1, TypesInvariant, NameInvariant, PTL DEF Spec, NamePersists

\* A name the device has accepted from a host that is still there: the last command in
\* the OUT endpoint, then what is being written, then what is stored.  No command that
\* came before it, and had timed out at the host, can overtake it.
AcceptedNameWins ==
    result.op = "set" /\ attached /\ open /\ dev # "bootloader" =>
        IF out # <<>> THEN out[Len(out)] = [op |-> "set", arg |-> result.value]
        ELSE IF dev = "write" THEN writing = result.value
        ELSE flash = result.value

\* A host's handle reaches a device that has booted; SetName has returned.
AcceptedInv ==
    /\ attached => dev # "boot"
    /\ result.op = "set" => step = "idle"
    /\ AcceptedNameWins

\* The host accepts a name with the command that carries it the last in the endpoint.
LEMMA HostAccepts ==
    ASSUME Types, AcceptedInv, HostStep
    PROVE  AcceptedInv'
<1>1. UNCHANGED <<attached, dev, writing, flash>> /\ step # "idle" /\ result.op # "set"
    BY Zenon DEF HostStep, SendControl, ReadAnswer, AcceptedInv
<1>2. CASE result' = result
    BY <1>1, <1>2 DEF AcceptedInv, AcceptedNameWins
<1>3. CASE SendControl /\ result' # result
    <2>1. Deliver /\ result' = [op |-> op, value |-> arg] /\ EndCall
        BY <1>3, Zenon DEF SendControl, NextTry, AfterSend, Succeed
    <2>2. op = "set" => step' = "idle"
        BY <2>1, Zenon DEF EndCall
    <2>3. out' # <<>> /\ out'[Len(out')] = [op |-> op, arg |-> arg]
        BY <2>1, SMT DEF Deliver, Types, TypeOK, PipeOK
    <2> QED BY <1>1, <2>1, <2>2, <2>3 DEF AcceptedInv, AcceptedNameWins
<1>4. CASE ReadAnswer /\ result' # result
    <2>1. Taken /\ result' = [op |-> op, value |-> answer.value]
        BY <1>4, Zenon DEF ReadAnswer, NextTry, ReadAgain, StartDialogue, Succeed
    <2>2. op # "set"
        BY <2>1, AnswerShape DEF Taken, Types, TypeOK
    <2> QED BY <1>1, <2>1, <2>2 DEF AcceptedInv, AcceptedNameWins
<1> QED BY <1>2, <1>3, <1>4 DEF HostStep

LEMMA LastOfTail ==
    ASSUME NEW S, NEW q \in Seq(S), Len(q) # 1, q # <<>>
    PROVE  Tail(q) # <<>> /\ Tail(q)[Len(Tail(q))] = q[Len(q)]
<1>1. Len(q) \in Nat /\ Len(q) > 1
    <2>1. Len(q) \in Nat \ {0}
        BY EmptySeq
    <2>2. \A n \in Nat \ {0} : n # 1 => n > 1
        OBVIOUS
    <2> QED BY <2>1, <2>2, Zenon
<1>2. Len(Tail(q)) = Len(q) - 1 /\ \A k \in 1 .. Len(Tail(q)) : Tail(q)[k] = q[k + 1]
    BY HeadTailProperties
<1>3. Len(q) - 1 \in 1 .. Len(q) - 1 /\ Len(q) - 1 + 1 = Len(q) /\ Len(q) - 1 # 0
    BY <1>1
<1>4. Tail(q) # <<>>
    <2>1. Tail(q) \in Seq(S)
        BY HeadTailProperties
    <2> QED BY <1>2, <1>3, <2>1, EmptySeq
<1> QED BY <1>2, <1>3, <1>4

\* The firmware takes the commands in order.
LEMMA FirmwareAccepts ==
    ASSUME Types, AcceptedInv, usb_interrupt_out_callback
    PROVE  AcceptedInv'
<1> DEFINE c == Head(out)
<1>1. UNCHANGED <<attached, open, step, result>> /\ dev = "run" /\ out # <<>> /\ out' = Tail(out)
    BY Zenon DEF usb_interrupt_out_callback
<1>2. dev' # "boot"
    BY <1>1, Zenon DEF usb_interrupt_out_callback
<1>3. out \in Seq(Command) /\ Len(out) > 0
    BY <1>1, SMT DEF Types, TypeOK, PipeOK
<1>4. SUFFICES ASSUME result'.op = "set", attached', open', dev' # "bootloader"
               PROVE  AcceptedNameWins'
    BY <1>1, <1>2 DEF AcceptedInv, AcceptedNameWins
<1>5. out[Len(out)] = [op |-> "set", arg |-> result.value]
    BY <1>1, <1>4 DEF AcceptedInv, AcceptedNameWins
<1>6. CASE Len(out) = 1
    <2>1. c.op = "set" /\ c.arg = result.value /\ out' = <<>>
        BY <1>1, <1>3, <1>5, <1>6, SMT
    <2> HIDE DEF c
    <2>2. dev' = "write" /\ writing' = NameToWrite(c)
        BY <2>1, Zenon DEF usb_interrupt_out_callback, c
    <2> QED BY <1>1, <2>1, <2>2 DEF AcceptedNameWins, NameToWrite
<1>7. CASE Len(out) # 1
    <2>1. out' # <<>> /\ out'[Len(out')] = out[Len(out)]
        BY <1>1, <1>3, <1>7, LastOfTail
    <2> QED BY <1>1, <1>5, <2>1 DEF AcceptedNameWins
<1> QED BY <1>3, <1>6, <1>7

LEMMA AcceptedKept ==
    ASSUME Types, AcceptedInv, [Next]_vars
    PROVE  AcceptedInv'
<1> USE DEF AcceptedInv, AcceptedNameWins
<1>1. CASE UNCHANGED vars
    BY <1>1 DEF vars
<1>2. CASE Open
    BY <1>2, SMT DEF Open
<1>3. CASE Begin
    BY <1>3, SMT DEF Begin
<1>4. CASE Close
    BY <1>4, SMT DEF Close
<1>5. CASE HostStep
    BY <1>5, HostAccepts
<1>6. CASE Boot
    BY <1>6, SMT DEF Boot
<1>7. CASE WriteName
    BY <1>7, SMT DEF WriteName
<1>8. CASE usb_interrupt_out_callback
    BY <1>8, FirmwareAccepts
<1>9. CASE BufferChanges
    BY <1>9, SMT DEF BufferChanges
<1>10. CASE PowerCut
    BY <1>10, SMT DEF PowerCut
<1> QED BY <1>1, <1>2, <1>3, <1>4, <1>5, <1>6, <1>7, <1>8, <1>9, <1>10 DEF Next, DeviceStep

\* A name SetName has returned for is not lost, nor replaced by an older one, while
\* the host's handle is good: what NameStored promises, but for the time it takes.
THEOREM AcceptedNamesWin == Spec => []AcceptedNameWins
<1>1. Init => AcceptedInv
    BY SMT DEF Init, AcceptedInv, AcceptedNameWins
<1>2. AcceptedInv => AcceptedNameWins
    BY DEF AcceptedInv
<1> QED BY <1>1, <1>2, AcceptedKept, TypesInvariant, PTL DEF Spec
=============================================================================
