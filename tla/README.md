# Helios Laser DAC: a TLA+ model

The Helios DAC is a USB device that plays *frames* (lists of laser points) at a
fixed point rate. The repository holds its firmware (C, an Atmel SAM4S), the
host SDK (C++, with a C API, a .NET version and Python examples) and the
hardware. This directory models the parts that carry the program's own logic,
model-checks them with TLC and proves the most important properties with TLAPS.

Paths below are relative to `src/`; `FW` stands for
`firmware/AtmelStudio_helios/lasdac_mainfirmware/src`.

## 1. Inventory

| Component | Code | State | Operations | What is hard | What makes it correct |
|---|---|---|---|---|---|
| Firmware application | `FW/main.c`, `FW/main.h` | two frame buffers, play position, queued frame, stop flag, connection, the name in flash | SysTick (one point per tick), TC0 (end of the stop window), bulk callback (frames), interrupt callback (commands), enable/disable | three interrupt priorities preempt each other; almost nothing is masked; power may fail between erasing and writing the name | the buffer in play is not overwritten; a queued frame is played; stop means dark; every window ends |
| USB device stack (ASF) | `FW/ASF/.../udp_device.c`, `udc.c`, `udi_vendor.c`, `sleepmgr.h` | endpoint jobs, the alternate setting, sleep locks | run, fill, finish, abort a job; enable, disable the interface | the job stops being busy *before* its callback | one job per endpoint; enable and disable alternate |
| Host SDK device | `sdk/HeliosDac.cpp` 272-609 | `frameBuffer`, `frameReady`, `closed`, `frameLock`, the frame thread | SendFrame, FrameHandler, GetStatus, Stop, EraseFirmware, ..., the destructor | a detached thread and unlocked flags; answers that come late | a frame is not changed while it is sent; commands do not overlap; an answer is about the call that returns it |
| Host SDK controller | `sdk/HeliosDac.cpp` 1-271 | `deviceList`, `inited`, `threadLock` | OpenDevices, CloseDevices, calls by device number | a device is used after the lock is released; `inited` is read without it; steps of opening may fail | no device is opened twice; pointers stay good; what is opened is closed |
| Frame wire format | `sdk/HeliosDac.cpp` 326-377, `FW/main.c` 111-156 | none | lay out a frame; check its two sizes | transfers that are a multiple of 64 bytes; 16-bit sizes | what is accepted is what was sent |
| C API, OLSC, EzAudDac | `sdk/HeliosDacAPI.cpp` | one global `HeliosDac` | one call each | return value conventions | errors stay errors |
| .NET SDK | `sdk/dotnet/.../HeliosController.cs` | a list of controllers | as the C++ SDK | work in progress | - |
| Stream synchroniser | `sdk/examples/python/stream_synchronizer.py`, the readers of `rtsp_viewer.py` | two bounded frame buffers, counters | add a frame, pair by time stamp, clear | frames are stamped and pushed in two steps; drops at capacity; streams out of step | pairs go forward in time; only hopeless frames are given up; nothing gets stuck |
| Track smoother | `sdk/examples/python/stereo_matcher.py` 150-265 | live tracks, the next id | update with the objects of a frame | an assignment that pairs too much; two branches that age tracks | one id for one object; a track dies in time |
| Other Python examples, notebooks | `sdk/examples` | - | geometry, drawing, viewers | numeric code, external libraries | - |
| Old firmware USB layer | `FW/usb.c` | - | earlier version of the callbacks | not built | - |

How they interact: the application calls the SDK from its own threads; the SDK
sends frames over the bulk OUT endpoint and two-byte commands over interrupt
OUT, and reads answers from interrupt IN. The device stack calls the firmware's
callbacks inside the UDP interrupt. The firmware arms the bulk endpoint itself,
and while it is not armed a transfer waits (NAK) until the host times out.

The hazards this code is exposed to are listed, each at its line and with the
properties aimed at it, in `PROJECT.json` under `hazards`.

## 2. Modules

    FrameStream          what HeliosDac.h promises about frames, without buffers
    DacFirmware          the firmware's playback core and its three interrupts
      DacStream          its refinement mapping to FrameStream, for a careful host
      DacFirmware_proofs, DacStream_proofs
      MCDacFirmware      small instances of both, for TLC
    FrameFormat          a frame from SendFrame's bytes to the firmware's check
      FrameFormat_proofs, MCFrameFormat
    FrameSending         what the SDK promises about the frames a device is given
    HeliosDacDevice      the SDK's device object: clients, frame thread, destructor
      DeviceSending      its refinement mapping to FrameSending, for one sender
      HeliosDacDevice_proofs, MCHeliosDacDevice
    CommandProtocol      one device object and the firmware's command handler,
                         with the two interrupt endpoints and the stored name
      CommandProtocol_proofs, MCCommandProtocol
    HeliosDac            the SDK's controller: the list of devices and its threads
      HeliosDac_proofs, MCHeliosDac
    StreamSynchronizer   the two buffers, their readers and the viewer
      StreamSynchronizer_proofs, MCStreamSynchronizer
    TrackSmoother3D      the tracks of a stereo view
      TrackSmoother3D_proofs, MCTrackSmoother3D

`DacFirmware` composes the three interrupt contexts with any host;
`CommandProtocol` composes the SDK with the firmware. Names ending in
`_<what is wrong>`, such as `tc_start_Missing`, are mistakes the code could have;
they belong to no specification, and each shows that one property notices it.

### DacFirmware

One CPU, three contexts. `main()` does nothing but sleep once it is set up, so
everything is an interrupt:

| Context | NVIC priority | In the model |
|---|---|---|
| TC0, the 100 ms stop window | 0, preempts all | one atomic action, `TC0_Handler` |
| SysTick, one point | 1 | `TickEntry`, then `SysTickStep` by the program counter `sPc` |
| UDP, the USB interrupt | 2 | `HostStep` begins a handler, `UdpStep` goes on by `uPc` and `uTask` |

A step of U needs `UdpRuns`: no handler of a higher priority is in progress or
pending. S steps need nothing, and TC0 may come between any two steps of either.
Statements are one step when nothing that a handler reads afterwards tells a
preemption between them from one before or after (that TC0 leaves `framePos` at 0 or
at 1 with playback off is such a difference nobody reads);
`cpu_irq_enter_critical()` makes one step of the section in
`usb_bulk_out_callback`. Four places where the split matters:

- `udd_ep_finish_job` clears `busy` and later calls the callback with the job's
  `buf_size`: `RxLastPacket`, `CallBulkCallback`, `usb_bulk_out_callback` are
  three steps, and the length is read in the middle one.
- the test of `newFrameReady` at the end of a frame and the switch of the buffers
  are `FindNewFrame` and `SwapFrame`: TC0 may drop the frame in between, and arm the
  endpoint on the buffer that then comes into play.
- `stop_weak()` run by U is `ClockOff` and `Blank`. Switching SysTick off does
  not withdraw a tick that is already pending (`tickPending`).
- `SysTick_Config()` (CMSIS) sets SysTick to the *lowest* priority before
  `NVIC_SetPriority` raises it again. Called in the tick's own handler
  (main.c:82), it lets a USB interrupt in: `sPc` is `lowered` or `loweredOn`.

The variables are the globals of `main.c` by their names. Sizes and positions
count points, not bytes (`framePos += 7` is `+ 1`). `content[b]` is what buffer
`b` holds: one frame or `Torn` bytes. `bulkBusy`, `bulkBuf`, `bulkSize`,
`bulkGot` are the bulk OUT job, `intArmed` the command job, `reply` the answer in
the interrupt IN job. The host is every legal sequence of packets, commands and
SET_INTERFACE requests; two constants restrict it for the runs that need it:

- `OverlapStops = FALSE`: it waits out a stop window before its next stop or
  close. `HeliosDacDevice::Stop` sleeps 100 ms under `frameLock` for this.
- `FramesDuringStop = FALSE`: it sends no frame inside a stop window.

`Readings` is the firmware's size check. Bytes whose two sizes disagree read as
`Torn` and are skipped; when the callback was passed the length of another job
(the race above) anything may be read. A frame behind the packets of an abandoned
transfer leaves `Torn` bytes, which the check finds out (`FrameFormat`) unless the
two overfill the job. Such a job ends when it is full, with a length of 28677 bytes
(udp_device.c:1474-1493), and main.c:126 reads the size from whatever point data lie
there: if they say 4096, the job is played. `MixedFrames` are the frames such bytes
may be taken for, all of `MaxPoints` points (`MixedAssumption`), and `Completed` is
that choice. What is left of the transfer then heads the next job, as the packets of
any abandoned transfer do.

Not in this module: the shutter, version and name commands (see
`CommandProtocol`), the value of `outputSpeed`, suspend and stall. A frame transfer is two steps (its packets,
its short last packet) whatever its length.

### FrameFormat

One frame from `HeliosDac::WriteFrame` to the firmware's size check, with the
code's real numbers. A frame is its number of points, its rate and, where the
firmware may take them for control bytes, its point bytes (`PointBytes`); on the wire it
is a length and the four control bytes that carry the two, so that splitting
numbers into bytes, 16-bit truncation and the packets of 64 bytes are modelled by
what they do. `RateSent` is the exact value of the C++ expression
`(unsigned)(pps * (double)m / (double)n + 0.5)`: with these ranges the double
computation cannot be off by enough to round differently. `stale` counts the
packets that an abandoned transfer left at the head of the job. `Received` ends a
job that is full, with the transfer cut off, and `WireBytes` says what the firmware
may find where it looks for the control bytes: point bytes, control bytes or some of
both. TLC finds the frame that is played although nobody sent it, 46 points at 4096
points per second behind 443 packets, whose rate lies where the size is read.
`Clamped` is `std::min<int>`: a number of points above `IntMax` becomes negative, is
not cut, and goes on as the number it was, so that `SendFrame` writes past its
buffer. What happens then is undefined, and the model stops (`SendFrameOverrun`). A
frame whose rate `SysTick_Config()` refuses is taken but has no clock (`stalled`).

### HeliosDacDevice

One device object of the SDK. `pc[c]` is where application thread `c` is in its
call, `hpc` where the detached frame thread is. `buffer` says whose frame
`frameBuffer` holds (`NoFrame` while one is being written), with two frames per
thread so that a new one is told from the old. `lock`, `command`, `answer`,
`sleep` are the waiting for and the three stages under `frameLock`; a USB
transfer may succeed or fail. Flags are read and written in program order: the
compiler cannot move them across the calls and byte stores around them, and the
reordering a weakly ordered CPU could add is not modelled. After the destructor
the frame thread reads freed memory, which may yield any value (`Read`). The
destructor runs when no other call is under way, as C++ asks of the application.

### FrameSending and DeviceSending

`FrameSending` is what HeliosDac.h says of WriteFrame and of the errors -1000 and
-1001, as a state machine: the frame a device has taken, the bytes being
transferred, the frame taken last, and whether the device is closed. There are two
ways to take a frame in the code, one that blocks and one that hands over, and
`DeviceSending` maps both: `taken` is the frame of the call that is transferring,
or what `frameReady` announces until the handler is done sending it. `out` is
whatever `frameBuffer` holds during a transfer, so that a buffer written too early
shows as a step `FrameSending` does not have; `latest` makes a frame sent twice
show in the same way. Once the object is destroyed nothing more is promised.

### FrameStream and DacStream

`FrameStream` is lines 13 to 30 of HeliosDac.h as a state machine: the frame in
play and the place in it, the frame that follows, what has just been delivered,
and whether a stop is under way. `DacStream` says where these are in the
firmware. Two details carry the mapping: a delivered frame exists from the end of
its transfer until the callback is done with it, and from the swap in SysTick on
`newFrameReady` stands for nothing until `update_status()` clears it (`swapped`).
The frames are those the host sends and those mixed bytes pass for (`Playable`): the
firmware cannot tell them apart. The promise holds for a careful host: stops spaced,
no frames in a stop window, frames, mixed ones too, that have points and loop. "No frames in a window" cannot be dropped: with
`FramesDuringStop = TRUE` TLC breaks `ReceivesBehindPlayback` in 15 states, when
TC0 ends the window between a transfer's last packet and its callback: it arms the
endpoint on the buffer the callback then starts to play, the race of `once_race`
with another actor. `CarefulNext` adds a fact about time that steps
do not have: a timer of 100 ms started before a tick does not expire while that
tick is held up.

### CommandProtocol

The host side is one call at a time, as `frameLock` makes it: `op`, the attempts
and reads left (`Tries`, `Reads`, from the loops of each call), and `step`. `Open`
is SET_INTERFACE and the constructor, which drains old answers and then asks for
the firmware's version and sends its own. A transfer that times out may have
happened at the device (`SendControl`, `ReadAnswer`): this is what makes late
answers. `out` is the OUT endpoint's banks and `answer` the one answer the IN job
holds; `udd_ep_run` refuses a second (`Answer`). SetShutter and Stop end like
`plain`: a command and no answer.

The device boots (`assign_default_name` before any host can reach it), serves
commands, and writes its name in two steps, the erase and the write, each of which
the flash controller does as one command. `PowerCut` comes between any two steps.
`BufferChanges` is another thread of the application that queues frames, and the
ticks that take them. `since`, `during` and `clean` record what the device could
have truthfully answered, and whether an answer of the call's own kind was left
over when it began; they are only observed.

### HeliosDac

`pc[t]` is where each thread is in OpenDevices, CloseDevices or a call by device
number. The calls by number all take the pointer alike; then a command runs under
`frameLock` and a frame does not. `inited` is read without `threadLock`, as in the
code. libusb is what the SDK relies on: `libusb_init` counts, an interface is
claimed by one handle. A device that fails a step of OpenDevices is passed over
with its handle open (`dropped`). After `CloseDevices` a stale pointer may do
anything: the call returns or is `lost`. `orderly` and `smooth` record whether the
calls have overlapped and whether any step of opening has failed.

### StreamSynchronizer

A reader looks at the clock (`Capture`) and pushes the frame later (`push_frame`).
Each method holds the lock from beginning to end and is one step. `gone` counts
frames that no counter of the code shows (older than one paired, or cleared) and
`stale` the latest time a frame given up could have been paired with. `Deltas`
has more than one member because `max_delta_ms` may change from call to call.

### TrackSmoother3D

Places are numbers on a line instead of points in space, a smoothed place is any
place between the two, and scipy's assignment is any one of least cost: what the
class does must hold for all of them. `born` and `unseen` remember, past the death
of a track, the classes its id has been given out with, one for each time, and how
long it has not been seen. `Far` is the 1e6 that
keeps classes apart; `PlacesAssumption` says why it can: the matcher passes on
only what is within 50 metres of the cameras.

## 3. Runs

`F(n, once, now)` is a frame of n points with its two flag bits.

| Run | Instance | Shows |
|---|---|---|
| `any_host` | frames of 2 points looping and of 0 points played at once and only once, mixed bytes that pass for 2 points played once, buffers of 2 points; any host | types; a queued frame is never overwritten; the stop window always has its timer; playback always has its clock (SysTick on; that SysTick takes every rate is `frame_sizes` and `ClockAlwaysStarts`); closed means dark; sleep locks balance; no deadlock |
| `careful_host` | looping frames of 1 and 2 points, and mixed bytes that pass for 2; stops spaced, no frames in the window; fair and polled | the firmware implements `FrameStream`; transfers fill the other buffer; the beam never freezes; a stop window ends; a queued frame is taken; the endpoint gets ready again |
| `once_race` | one-point frames, looping and once | **violation** of the double buffer |
| `frozen_beam` | the same, stops may overlap | **violation**: a lit point stays on with playback stopped |
| `frame_sizes` | every number of points 0-4097 and around the largest int, for which 5000 stands; rates around each boundary, up to 448 stale packets, point bytes 0 and 16 | transfers end in a short packet; frames of as many points as an int holds arrive, and their clock starts; durations are kept; mixed bytes are played only when they overfill the job |
| `device` | one thread that sends frames, one that gives commands and destroys the object; fair | the device implements `FrameSending`; the window after a stop is quiet; frames are taken, the handler ends, commands to a closed device run dry |
| `destroyed` | one thread, which also destroys the object | **violation**: the destructor does not wait for the frame thread |
| `controller` | two threads that open, close and use devices; two devices, plugged and unplugged; fair | no device is opened twice; `inited` is true; pointers stay good; closing frees all; numbers stay; every call returns |
| `commands` | one name, two banks; fair device | old answers do not pile up; clean calls return what is so; the device has a name; a stored name stays; a name accepted gets stored |
| `stale_status` | the same | **violation**: GetStatus returns an old answer |
| `synchronizer` | buffers of 2, tolerances 0 and 1, a clock of 4 steps | pairs go forward; frames are accounted for; only hopeless ones are given up; no call is stuck |
| `tracks` | three places, two classes, up to two objects a frame, tracks forgotten after two misses | ids are unique, are given out once, keep their class, die in time, and stay with a lone object |

The violations are disagreements between the code and what its own comments say;
`PROJECT.json` quotes them under `findings`.

*The three firmware races.* (1) Between `busy = false` and the callback, the end
of a frame played once arms the endpoint on the buffer whose frame the callback
then starts. (2) `stop()` sets `stopFlag`, and the timer of an earlier stop clears
it before the new timer is started. The SDK's `Stop` sleeps exactly the length of
the window, so a second stop of the same client arrives right where that timer
expires. (3) After (2), the timer expires inside a tick, whose point is put out
after the output was blanked.

*Late answers.* `GetStatus` waits 16 ms for its answer. An answer that comes later
stays in the endpoint and is what the next `GetStatus` reads; the true answer to
that one is refused by the busy job and lost. `AnswerRecent` says how old it can
be, and `CleanCallCurrent` that answers of another kind do no harm.

*Bounds.* Two buffers, two priorities and one host are the real system. Frames of
0, 1 and 2 points cover: at the end at once, at the end after the first point,
and not yet at the end; longer frames only repeat the last. In `DacFirmware`,
`HeliosDacDevice` and `CommandProtocol` everything else is finite by itself. Two
application threads are enough for each pair of calls to meet; the frame thread is
a third. `MaxRefs` caps libusb's count of contexts, which a failing
`libusb_get_device_list` raises again and again. `MaxTime` caps the synchroniser's
clock and with it the number of frames; it leaves room for a buffer to run over
and for every order of stamps and pushes across two tolerances. `MaxId` caps the
tracker's ids and `MaxSeen` the objects of a frame: enough for a rivalry of two
and for a third id after a death.

*Fairness.* A handler that has begun goes on (`SF` on `UdpStep` and
`SysTickStep`): handlers of a higher priority interrupt it again and again, but
each is far shorter than the tick that separates two of them, so it is granted
infinitely many steps, and strong fairness is what that amounts to. Ticks come
while SysTick is on; TC0, once started, expires. `PollFairness` is the host that
HeliosDac.h:13-15 asks for, one that polls the status again and again; without it
`EndpointRearmed` is false, since a refused frame leaves the endpoint idle. For
the SDK, threads are scheduled and transfers end or time out (`WF`), and
`std::mutex` does not starve a waiter for ever (`SF` on `Lock` and `Wait`): the
holder sleeps, transfers or returns, so others are waiting when it lets go. In
`CommandProtocol` only the device is fair: it takes what its endpoints hold.

## 4. Proofs

Each theorem holds for every value of the constants its module allows.

| Module | Theorems | Properties |
|---|---|---|
| `DacFirmware_proofs` | `TypeCorrect`, `QueuedFrameSafe`, `StopWindowBounded`, `PlaybackClocked`, `ClosedIsDark`, `LocksBalanced` | `TypeOK`, `ReadyFrameIsSafe`, `StopFlagHasTimer`, `PlayingHasClock`, `DarkWhenClosed`, `SleepLocksMatch` |
| | `AlwaysListening`, `StoppedStaysStopped`, `FramesPlayedOut` | `CommandsHeard`: an open device listens; `NoStartWhileStopped`; `ReplacedAtFrameEnd` |
| | `SpacedTimer`, `SpacedBeam` (if `OverlapStops = FALSE`) | `TimerMeansStopped`, `NoFrozenBeam` |
| `DacStream_proofs` | `FirmwareIsStream`, `TransfersBehindPlayback` (for a careful host) | `ImplementsStream`, `ReceivesBehindPlayback` |
| `FrameFormat_proofs` | `TransfersEnd`, `FramesArrive`, `DurationsKept`, `MixedPlayedOnlyFull` | `EndsInShortPacket`, `PlayedAsSent`, `DurationKept`, `MixedFrameFillsJob` |
| | `ClockAlwaysStarts` | `SysTick_Config` accepts every rate after `speed_set`'s bounds; it is why `speed_set` starts SysTick in `DacFirmware` |
| `HeliosDacDevice_proofs` | `LockDiscipline`, `StopKeptQuiet`, `FramesSentWhole` (if at most one thread sends frames), `DeviceSendsFrames` (for one that does) | `TypeOK`, `StopWindowQuiet`, `FramesWhole`, `ImplementsSending` |
| `CommandProtocol_proofs` | `CommandTypes`, `AnswersNeverPileUp`, `CleanCallsCurrent`, `AlwaysNamed`, `NameGivenUpForAnother` | `TypeOK`, `AnswerRecent`, `CleanCallCurrent`, `NeverNameless`, `NamePersists` |
| | `AcceptedNamesWin` | a name accepted is the next to be stored, or stored (stated in the proof module) |
| `HeliosDac_proofs` | `LockDiscipline`, `OpenedOnce`, `InitedIsTrue`, `NumbersKept`, `PointersGood`, `ClosedIsFreed` | `TypeOK`, `NoDeviceTwice`, `InitedMeansOpen`, `NumbersStable`, `PointerAlive`, `AllFreed` |
| | `NoDeadlock` | of the threads in a call, one can always go on (stated in the proof module) |
| `StreamSynchronizer_proofs` | `SynchronizerTypes`, `PairsGoForward`, `FramesAccountedFor`, `OnlyHopelessGivenUp`, `NeverStuck` | `TypeOK`, `InOrder`, `Accounted`, `StaleIsHopeless`, `AlwaysProgress` |
| `TrackSmoother3D_proofs` | `OneIdForEach`, `IdsKeepTheirClass`, `TracksForgottenInTime`, `LoneObjectsKeepTheirId` | `OneIdEach`, `IdKeepsClass`, `ForgottenInTime`, `LoneObjectKeepsId` |

The assumptions are those the modules name: `MaxPoints` is a positive number,
`Frames` are frames, `MixedFrames` frames of `MaxPoints` points, the host constants
are Booleans, point counts are unsigned ints and rates natural numbers, an int holds
at least 4096, abandoned packets have not filled the job and point data are bytes, names differ from the markers of no name, threads from `Nobody`,
places are integers no farther apart than `Far`.

*The invariant of DacFirmware.* None of the properties is inductive: each hangs on
where the handlers are. `IInv` adds what relates the two. S puts a point out only
where its buffer has room for one, and a swap follows the end of a frame
(`PointInv`). `epOn`, `intArmed` and the two lock counts are tied to `connected` by
`uPc` and `uTask` (`LinkInv`, `LockInv`). While U completes a transfer S swaps
nothing, and arms the endpoint again only by stopping playback (`TransferInv`). A
stop that is finishing has ended playback, and with the interface closed S puts
nothing out (`BlankInv`, `DarkInv`). Whoever has set `stopFlag` either runs the
timer or is on the way to start it (`StopFlagHasTimer` itself). `SpacedInv` adds,
for spaced stops, that a tick in progress means playback is on and that the timer
runs only inside a window with playback off, which is what excludes `frozen_beam`.
One lemma per action shows that it keeps the invariant.

*The invariant of DacStream.* The refinement needs to know what each buffer holds.
`CInv` adds to the two invariants above that the buffers are two, that they hold
whole frames or torn bytes, and that the transfer fills the one not in play
(`BuffersInv`); that what is played, and what is queued until the swap, is a whole
frame of the size the firmware believes it has (`PlayInv`, `QueueInv`); that a
transfer being completed keeps its buffer and its length until the callback is
done (`DeliverInv`); and that while a swap is held up in `SysTick_Config`, where a
USB interrupt may run, the swapped frame or a stop keeps the host's next frame out
(`HeldInv`). Frames that loop are what makes `DeliverInv` inductive: a frame
played once arms the endpoint between the end of a transfer and its callback. Two
lemmas per action show that it keeps `CInv` and which step of `FrameStream` it is.

*The invariant of FrameFormat* says what each stage has computed; the work is in
the lemmas about remainders, byte splitting and the rounded quotient. The callback
has two cases: a job that holds all of the transfer, whose control bytes are found
(`CallbackFits`), and one that does not, where the length alone decides how many
points a frame would have, whatever its bytes are (`CallbackFull`).

*HeliosDacDevice.* `frameLock` names the one client inside a command; whole frames
need in addition that `frameReady` keeps the only sender out from the moment it
hands a frame over until the handler is done with it. `SendInv` adds what the
refinement needs: a thread's frames are its own, and from the beginning of the
destructor on no call is under way, so that nothing is dropped but with `closed`
set. Then each step of a client, of the handler and of the destructor is one step
of `FrameSending`, or none.

*CommandProtocol.* `LateAnswers` says which answers may still be waiting and what
is known of each: with `clean`, one of the call's own kind can only have been given
since the call began. `NameInv` ties the erased signature to the two places where
a write follows. `AcceptedNamesWin` is what `NameStored` promises but for the time
it takes: a command that timed out at the host and arrives all the same comes
before the accepted one, never after it. Lemmas named `...Moves` say, for each part of the state, all that
any step does to it; the invariants then follow from a few cases.

*HeliosDac.* The list changes only under `threadLock`, whose holder is in `scan` or
`clear`; what is left to open, what is listed and what is dropped are kept apart
by `claims`; with orderly calls a thread that uses a device excludes one that
closes. `NoDeadlock` is the part of `CallsReturn` that needs no fairness; it says
with guards what ENABLED would.

*StreamSynchronizer.* `Lines` puts, for each stream, last pair, buffered frames,
the frame a reader holds and the clock in one order; `Hopeless` is the like for
`stale`. That the closest pair exists (`BestIsCandidate`) is a least-number
argument, made without induction by counting: a set of naturals without a least
element would inject into too small an interval.

*TrackSmoother3D.* `IInv` says that ids have been given from 1 on without gaps,
that a live track has the class of its birth, and that `missed` is what `unseen`
remembers; both branches of `update` have to keep it, the one with no live track
being the one that could forget to age. The new ids of a frame are ranks among
the unmatched detections, so that they are distinct and leave no gap is a
counting argument (`RanksCount`). `LoneObjectsKeepTheirId` holds for *every*
assignment of least cost, and is an exchange argument: if such an assignment
left the lone pair out, one of its pairs, or two of them, could be replaced by
that pair (`PairReplaced`, `CheaperPair`, `CheaperPairs`), and would cost less,
since all that it replaces is farther than `MaxMatch`. It needs the total of a
set of pairs to be what it is without one pair, plus that pair's cost
(`TotalWithout`). `MapThenSumSet` is defined by choosing a function that adds in
an order of its own, so this rests on that function existing (`SumsExist`), being
unique (`SumsAreOne`) and not depending on the order. These are inductions on the
number of pairs, stated on the *set* of the numbers that have the property
(`NumbersFromZero`, from the fact that `<` is well founded), because the library's
induction theorems take the property as an operator.

Only model-checked, because no prover here handles fairness, are the eight
liveness properties: `StopWindowEnds`, `QueuedFrameTaken` and `EndpointRearmed`
of the firmware, `FrameTaken`, `HandlerEnds` and `ClosedDrains` of the device,
`CallsReturn` of the controller, `NameStored` of the command protocol. TLC also
checks that nothing deadlocks.

## 5. Not modelled

- Not intended: enumeration and control transfers, stalls, USB suspend; clocks,
  pins, SPI and DAC registers (one `lit` flag stands for the output); point data;
  the text of names; the notebooks, viewers and geometry; libusb itself. Most of
  the repository's C is vendored (ASF, CMSIS, copies of libusb.h); only what the
  firmware's handlers meet of it is modelled.
- `HeliosDacAPI.cpp` and the .NET controller: wrappers without a protocol or
  threads of their own. Reading them shows that OLSC_GetStatus cannot see an error
  (it keeps the result in an unsigned byte), that the C API's global pointer is not
  guarded, and that the .NET `WriteFrame` throws when the whole frame *was* sent.
- The viewers around the synchroniser and the pose engine. Reading them shows that
  a lost stream's last frame stays on screen and is triangulated with live ones
  (rtsp_viewer.py:469, 515), that its warning at 425 promises a mode the loop at
  459 does not have, that `stop()` may release a capture in use (82), and that the
  fallback to the CPU fails for the thunder model (coral_pose_engine.py:368).
- A frame of no points puts out one point of stale bytes (main.c:80, 92). No
  comment promises otherwise.
- `WriteFrame` cuts a frame of too many points to 4096 and sends it: the check
  that HELIOS_ERROR_TOO_MANY_POINTS describes is commented out (HeliosDac.cpp:116).
  From 2^31 points on it is not cut (`std::min<int>`, 134), and `SendFrame` writes
  past its buffer; `PlayedAsSent` is stated for what an int holds.
- The firmware plays mixed bytes that fill a job if the point data at its end happen
  to read as 4096; no check it makes could tell.
- `ImplementsSending` is about one thread that sends frames. A second one may write its
  frame with HELIOS_FLAGS_DONT_BLOCK into the buffer that a blocking `DoFrame()`
  of the first is sending: `SendFrame` takes no lock and tests only `frameReady`.
- OpenDevices leaks the handle of a device that fails a later step, and the libusb
  context when there is no device, and the devices after one that fails have lower
  numbers than they would have had. No property is about either: `AllFreed` is stated
  for openings that succeed, `NumbersStable` for devices once listed.
- `clear()` of the synchroniser keeps its counters, although its comment says
  "reset diagnostics".
- `assign_default_name` reads the unique id and the signature with other
  interrupts enabled and formats up to 18 characters into 16 (main.c:428); neither
  is visible at the level of `CommandProtocol`.

## 6. What is left

The control endpoint's state machine of the vendored device stack (`udp_device.c`),
if the firmware ever comes to depend on more of it, and the firmware with frames
played once, once the race of run `once_race` is repaired.
