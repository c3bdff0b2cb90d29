# A formal model of servo_controller

servo_controller moves four hobby servos from ROS 2. A `ros2_control` hardware
component on the host sends target angles over a USB serial line to an ESP32-C3,
whose firmware moves the servos there at a limited speed and reports their angles
fifty times a second. This directory holds TLA+ modules that model the core of both
sides, configurations that check them with TLC, and theorems that TLAPS proves.

`<file>:<line>` below refers to the repository; `main.cpp` is
`servo_embedded/src/main.cpp`, `servo_hardware.cpp`, `serial_port.cpp` and
`servo_protocol_decoder.cpp` are under their packages' `src/`.

## Inventory

| component | state | operations | hard behaviour | what makes it correct |
|---|---|---|---|---|
| firmware tasks (`main.cpp`) | two queues of 5, targets and current positions, the task's copy, the LEDC duties | update and publish every 20 ms, set the outputs, accept a command | three priorities on one core, preemption between two channels, queues at their limit with unchecked sends, a `Serial.write` that stalls | no update lost, no jump, the status is true, the target is reached |
| firmware stream decoder (`main.cpp:329`) | state, two static buffers, an index | one byte | no resynchronisation inside a packet, 0xFF may be data, stale buffers, lost bytes, restart | only whole valid commands, all of them on an undisturbed stream, recovery after a fault |
| host protocol decoder (`servo_protocol_decoder.cpp`) | `in_buffer_`, callbacks | `processStream`, setters | any chunking, garbage, packets inside damaged packets | the packets found depend on the stream only; bounded buffer |
| command interfaces (`servo_hardware.cpp:261-344`) | claims, delays, stored commands, a queue of 10 | mode switch, `write` | partial failure, first-cycle 0.0, full queue | claims follow controllers; no out-of-range value is forwarded |
| hardware component (`servo_hardware.cpp`) | lifecycle, thread, `halting_`, status box and flag | `on_*`, `read`, background thread | three threads, a condition variable notified without its mutex, tear-down order | no use after tear-down, `on_deactivate` returns, commands in order |
| serial port (`serial_port.cpp`) | asio port, io thread, mutex, callback | `open`, `close`, `send`, `setCallback` | a blocking send against a callback under the same mutex | no deadlock, no callback after `close` |
| codec, CRC-16, PWM scaling (`servo_protocol_decoder.cpp:137-290`, `main.cpp:118-215`) | none | encode, decode, scale, CRC | truncation against rounding, carries, wrap at a turn, damaged bits | an angle comes through to a unit, damage is noticed |
| the loop as a whole | what is under way | – | nothing below the controllers repeats a lost or dropped command | the servos come to the last command |
| blink task, attitude publisher, launch files, docker, tools | – | – | – | not modelled (see the end) |

How they interact: the controller manager calls `write`, which pushes a packet into
`command_queue_`; the background thread encodes it and calls `SerialPort::send`, which
waits for the io thread. The firmware's reader feeds bytes to its decoder, which puts a
target into `profilerQueue`; the profiler moves towards it, puts the positions into
`servoQueue` and writes a status packet; the servo task sets the outputs. The status
comes back through the io thread, whose callback (under the port's mutex) runs the host
decoder, which sets `status_box_` and then `state_message_received_`; `read` takes them.

## Modules

Each component has a module whose actions are its handlers, named as in the code; an
`MC*` module gives TLC its constants; `*Proofs` modules hold theorems. Definitions
marked `Slip` are variants a plausible bug would give: they are used by nothing, and
each of them breaks a property when put in the place of the definition that follows.

**FirmwareTasks** – the profiler (`ProfilerUpdate`, then the write that publishes:
`ProfilerPublish`, or `ProfilerStall` and `ProfilerResume`, then `DelayUntil`), the servo
task (`ServoReceive`, `ServoSetDuty` per channel), and the reader at the moment a command
is complete (`handleServoCommand`). Priorities are guards: a task runs only when those
above it wait. `Tick` is time; `late` is the tick count minus `xLastWakeTime`, so that
`vTaskDelayUntil` returns at once while the task is behind. Angles are integers in steps
fine enough for `MaxDelta`.

**Framing** – what a packet is: `Frame` builds one, `ValidAt`/`InvalidAt` are
`validatePacket` at a place of a stream; neither is "incomplete". Sizes and CRC are
parameters.

**ServoProtocolDecoder** – `processStream`: one action appends the chunk, one per iteration
of the loop (`decodeBufferById`, `skipByte`) and one erases. **HostStream** adds history:
the whole stream, what was erased, the packets taken. **FrameStream** is the abstract
specification, a cursor that walks the whole stream; HostStream implements it (`Walk`).

**FirmwareDecoder** – `serialStreamDecoder`, one action per state. **FirmwareStream** adds
the history of the stream; **CommandLink** puts the decoder behind a link that loses bytes,
with restarts of the firmware in the middle of a packet.

**CommandInterfaces** – `perform_command_mode_switch` (`Switch`; an error keeps any subset of
the claims before it) and `write`. The controller manager is external: `owned` are the joints
whose controllers run, `settled` those whose first cycle is over, and `HandleValues` says
what their handles may hold, as `servo_hardware.hpp:186-192` describes it.

Which interfaces a robot description may request (`Requests`: each at most once, and only ones the
component has) decides in `CommandInit` which joints exist for the controllers; the others keep
their 0.0 in every packet.

**SerialPort** – the port's mutex, its io thread (`polling`, a read `handler` that waits for the
mutex, `callback`), and `send` step by step. **ServoHardware** extends both with the lifecycle,
`read` in two steps, the background thread (test, begin of the wait, notification, timeout, pop, send)
and the status callback in two steps. `notify` reaches the thread only while it waits: between its test
of `halting_` and its wait a notification is lost, since `on_deactivate` does not hold `cv_mutex_`. **CommandChannel** is its abstract specification: accepted commands
leave in order, each at most once.

**ServoMotion** – the abstract specification of the firmware: targets are taken in the order of
the commands, every servo goes straight to its target by at most a step per update, a status is
where the servos are or cut short. FirmwareTasks implements it (`Motion`), and ControlLoop uses it.

**Crc**, **Codec** – pure functions. `Crc` is the firmware's loop over bits, a register being the
set of the places of its ones, so that exclusive or is the symmetric difference; below it stands the
algebra it is compared with, the long division of polynomials (`Remainder`), a polynomial being the
set of its exponents. `Codec` has both sides' conversions, in integers of a quarter of
the protocol's unit (1/40000 rad), in which rounding and truncation differ; pi is between two of
them. **ServoWire** takes angles through them and back: `SendCommand`, bits flipped on the line
(`DamagePacket`), `TakeCommand`, `SendStatus`, `TakeStatus`, with the packets and numbers of the
code. Damage is any set of bits that a CRC of sixteen bits can tell (`Detectable`: one in the sync byte, or
no multiple of the generator behind it). `falls` are the servos for which `angle * 10000` in doubles falls below the whole number it
came from.

**ControlLoop** – CommandInterfaces, a line that holds one packet, ServoMotion and `read`
composed, with lost packets, cut statuses, full queues and restarts of the firmware. The firmware's decoder
is here a single bit, `inStep`: a loss, or a restart in mid-packet, may put it out of step, and then it
discards the next packet. `Resynchronise` says what CommandLink shows byte by byte: a packet without a
further sync byte (`SyncFree`) brings it back, any other may or may not. The threads
are left out here (ServoHardware shows that accepted packets leave in order), and so are bytes of two packets that happen to
have a valid CRC together. **LossyChannel** is
CommandChannel over the whole way from `write` to the servos: any packet under way may be lost and
a restart forgets the oldest ones, but none is used twice and none overtakes another. ControlLoop
implements it (`Way`), with `UnderWay`, the three queues behind each other, as what is pending.

Since the abstract `Accept` takes any packet, `ImplementsChannel` and `OrderKept` also say that only
`write` makes what is pending longer; without that a packet that is sent but stays in the queue could
pass for a new one.

## What the runs check

| run | bounds | result |
|---|---|---|
| `firmware_tasks` | 2 servos, queues of 2, range 0..9, step 2, period 2, up to 5 ticks late | passes: `RoomForUpdate`, `StatusTruthful`, `OutputStep`, `Converges`, `ImplementsMotion` |
| `firmware_stall` | the same, up to 6 ticks late | **violated** `OutputStep`: updates are lost and an output jumps (finding) |
| `host_stream` | 3 byte values, packets of 4, chunks of any 0..2 bytes and of whole packets with a byte or a packet next to them, streams of up to 8 bytes | passes: `NoFrameLost`, `OnlyDisjointFrames`, `BoundedBuffer`, `DeliversFrames`, `WalksStream` and the buffer's invariant |
| `firmware_stream` | 3 byte values, packets of 5, streams of up to 10 bytes | passes: `OnlyValidCommands`, `InSync`, `BuffersHoldStream` |
| `command_link` | 3 commands without sync byte, packets of 6, 2 faults | passes: `SecondPacketHandled`, `Recovers` |
| `command_lockout` | a command with the sync byte in it, 1 fault | **violated** `Recovers` (finding) |
| `command_interfaces` | 2 joints, every description of up to 2 names, 2 positions, queue of 2 | passes: `FirstZeroIgnored`, `OnlyClaimedMove` |
| `interfaces_zero` | the same | **violated** `ZeroNotSent` (finding) |
| `interfaces_claims` | the same | **violated** `ClaimedByController` (finding) |
| `servo_hardware` | 1 joint, 1 position, queue of 2 | passes: `PortOutlivesThread`, `DecoderOutlivesCallback`, `ThreadsFollowLifecycle`, `StateStaysReported`, `ImplementsChannel`, `DeactivateReturns`, `QueueIsServed` |
| `wire` | commands around 0, pi, 2 pi and a carry, off by up to 3 quarters of a unit, one negative and one beyond a turn; every single bit, pairs with one of two bits, bursts of up to 16 bits (all `Detectable`, which TLC evaluates) | passes: `CrcIsRemainder`, `DamageRejected`, `CommandKept`, `StatusKept`, `PulsesInOrder` and the inductive `RoundTrip` |
| `control_loop` | 2 joints of which the description requests one, positions 1 and 2, of which 2 holds a sync byte, queues of 1, 1 fault | passes: `OrderKept`, `Settles` and the type invariant |

Why the bounds are enough. FirmwareTasks: two servos show every mixture of set and unset
channels, one target is out of range and one is no whole number of steps away; 5 ticks are
the most that a queue of 2 absorbs ((2+1)*2 - 1), so the queue does fill. The streams are
any bytes up to the bound, which is two whole packets, or one with garbage before, after or around it,
with every cut; bytes collide with the sync byte and with the small checksums, so packets occur inside
packets. `MaxStream`
is the only bound on the streams; because of it a stream ends, and `firmware_stream` is run
without deadlock checking. CommandLink's `MaxFaults` of 2 allows a second fault during the
recovery from the first. In ServoHardware activations are not bounded; one joint suffices because
its threads treat packets as wholes, and 0.0 and one position make two packets to tell apart.
CommandInterfaces has two joints so that one can be commanded while the other is claimed. In
ServoWire the servos are converted independently, so four angles in one packet test four cases at
once; the angles are those next to which a conversion changes its form, and theorems cover the rest.
A round trip ends, so `wire` is run without deadlock checking. ControlLoop's queues of one
make both sides refuse commands, the servos are centred two steps away from where the joint that is
not requested is sent, so its move takes two updates; one fault at any time is enough to lose any packet
or to put the decoder out of step, and nothing repeats a packet but the controllers.

FirmwareTasks leaves the numbers to Codec: there the output is the limited angle behind the duty,
and the status the position before its truncation.

### Findings

1. `main.cpp:279`: a profiler that is 120 ms late and more, by one stalled `Serial.write` or by several
   (the host keeps the port open but does not read), loses updates, and the servos jump. `PROTOCOL.md:114` promises at most 6° per
   update. The lateness is a parameter of the run; the core's USB transport waits up to a
   quarter of a second by default.
2. `main.cpp:333`: 0xFF is not a synchronisation (`PROTOCOL.md:27`) once the decoder is out of step:
   a command that contains it and is repeated can keep the decoder out of step for ever.
3. `servo_hardware.cpp:287`: a packet carries all joints, so the 0.0 which the delay is to keep
   from a joint just claimed is sent from the stored commands.
4. `servo_hardware.cpp:339`: a failed mode switch leaves joints claimed that no controller has.
   (The run gives the switch a list with a name the component does not have, a case the code
   has an error path for.)

### Observations without a run

- `main.cpp:256` takes one queued target per update, so a command behind another waits for a later
  update than the next, which `PROTOCOL.md:237` promises. ServoMotion states what does hold: the order.
- `servo_hardware.cpp:474`: the predicate of the thread's wait ignores the queue, so the
  notification of a queued command (`:297`) has no effect and the command waits up to 10 ms.
- `PROTOCOL.md` describes a CRC-32 of four bytes, low byte first, and hundredths of a degree; both
  sides of the code use CRC-16, high byte first, and 1/10000 rad. The models follow the code.
- `servo_protocol_decoder.cpp:178` clamps after `fmod`: a command of a full turn and more wraps to a
  small angle. `CommandKept` is stated for commands below a turn.
- `servo_hardware.cpp:415`: with a prefix that is not empty `write` finds no command handle.

### Fairness

FirmwareTasks: weak fairness of the profiler, the servo task and time (a FreeRTOS task that is
ready and not outranked runs; `Serial.write` has a timeout). Nothing makes the host send.
HostStream: a call of `processStream` runs to its end. CommandLink: the host goes on sending
(`write` runs every cycle) and the link delivers. ServoHardware: calls, callbacks and the
10 ms wait end (the wait strongly: its deadline is fixed when it begins, so notifications cannot put it
off); who waits for the mutex gets it and the io thread serves writes even though
reads keep coming (strong: a mutex gives no such guarantee on paper, but the io thread leaves it
and sleeps in between); the device takes or refuses what is written. ControlLoop: both sides run
periodically, the thread sends and the line delivers (weak). The cycles that are fair are those in which
controllers command what they commanded before (`Repeat`): nothing forces a controller to change or to
go silent, and `Settles` is about controllers that keep their command (`Held`). Its other premise is that the
command is `SyncFree` or the decoder ends up in step: without it TLC finds the lock-out of `command_lockout`
in the loop. ServoWire states no fairness.

## What is proved

For every value of the constants that meets the modules' assumptions.

*FirmwareTasksProofs.* The inductive invariant is `TypeOK`, `Backlog`, `Path` and `Reported`. `Backlog`
is the argument behind everything else: the updates in the servo queue are paid for by time the
profiler has caught up with, `Period` for each, so that a stall below `(Depth + 1) * Period` cannot
fill the queue (`NoUpdateLost`, under `KeepsUp`). If no update is lost, consecutive elements of the
chain output, positions being set, queued positions, current positions are within one step
(`Path`), which gives `MotionIsSmooth`; when the chain is empty its ends are equal, which with
`Reported` gives `StatusIsTruthful`. The assumption `KeepsUp` is necessary: `firmware_stall` is its
counterexample at equality. With the code's numbers it says: never 120 ms late.

*HostStreamProofs.* Every place before the cursor is `Decided`: it can never begin a packet, whatever
still arrives, or lies in one that was taken. Validity and invalidity are stable when the stream
grows and are the same in the buffer as in the stream (the buffer is its tail). From this
`NothingLost`, `FramesAreReal`, `BufferStaysBounded`, and `RefinesWalk` step by step.

`BufferHoldsTail` and `DeliversWhatStands` come from the same invariant: what the callbacks get is
compared with the stream itself.

*FirmwareStreamProofs.* `BuffersHoldStream` and `AcceptedBefore` make `CommandsAreReal` inductive; for
`StaysInSync` the place of the packet being read is a multiple of the packet size after the
beginning (`KeepsPlace`, which is a theorem, `PlaceIsKept`, and no run's property).

*CommandLinkProofs.* `LinkInv` adds to the types that the wire holds the rest of the packet sent last
(`WireHoldsRest`). `SyncInv` is the argument for `SecondPacketIsHandled`. A packet that the decoder has
begun is, at any time, missing fewer bytes than a packet has. So the first undamaged packet that passes
brings the decoder back to waiting before the packet ends, and then no byte of it starts another one
(`BoundaryRegained`; this is where `SyncFree` is needed). The next undamaged packet is therefore read
from its first byte (`InStep`: the decoder has taken as many bytes as have passed, and its buffers
hold them), and is accepted as it was sent. `SyncFree` is a hypothesis of the theorem; the finding
`command_lockout` is what happens without it.

*Refinement.* `TasksMoveAsPromised` (FirmwareTasksProofs) shows that every step of the tasks is a step of
ServoMotion or leaves it unchanged: the profiler's step towards a target is straight and
bounded (`MovesStraight`), an accepted command is appended, a status is the position. It needs type
correctness only, no bound on the stall.

*ServoWireProofs.* With the code's own numbers, for every angle and not only those of the run. Lemmas
follow an angle through rounding, bytes, packet and clipping (`CommandValue`, `PayloadKeepsValues`,
`FrameParts`, `FrameIsValid`, `TargetMonotone`, `PulseMonotone`); `CommandUnderWay`, the packet is the
encoding of what was commanded as long as no bit is flipped, is inductive, and gives
`CommandsAreKept` and `PulsesAreInOrder`.

For damaged packets the CRC itself has to be understood, for every packet. The argument:

1. `ByteOf`, `AddByte`, `calculateCRC16` and `Remainder` are recursive functions. `IterateExists` shows, by
   induction, that each such loop has values, and `ByteOfIs`, `AddByteIs`, `CrcIs`, `RemainderIs` that the
   definition is the last of them. (The library's induction takes an operator; `Induction` puts a set in
   its place and takes the least element that is missing from it.)
2. A byte is the same as the places of its ones (`ByteOfOnes`, `SameOnes`).
3. One step of the loop over bits is one step of the division (`BitStep`), a byte that enters the register is
   taken off the rest of the packet (`ByteEnters`), so eight steps keep "register times a power of x,
   exclusive or the bytes still to come" equal to what the division has left (`ByteSteps`), and after all
   bytes but the last two it is the register against these two (`LoopsDivide`, `CrcDivides`):
   `CrcIsTheRemainder`.
4. The division is linear (`RemainderIsLinear`), and flipping bits adds them to the packet
   (`FlippedCodeword`). A packet and its damaged form cannot both leave no remainder if the bits flipped
   leave one (`DamageShows`); bits flipped in the sync byte show by themselves (`SyncShowsDamage`).

With this `RoundTrip` is inductive (a damaged packet is a valid one with those bits flipped), which gives
`RoundTripHolds`, `DamageIsRejected` and `StatusIsKept`. All of them hold for any set `Damage` of `Detectable`
sets of bits. This is no more than the code justifies: damage that is not detectable makes a valid packet of
a valid one. `BurstsAreDetectable` shows that no burst of up to sixteen bits is excluded; TLC evaluates the
assumption for the pairs of bits of the run. `CrcFitsFraming` is what Framing assumes of a CRC, for this one.

*CommandInterfacesProofs.* For any joints, descriptions and capacity. `FirstZeroIsIgnored` rests on
`DelayArmed`: from the claim until the first cycle of its controller is over a joint's delay is 1, also
across failed switches, which keep claims but start nobody. Note that owned joints need not be
claimed: a failed switch releases the stopped ones first.

*ServoHardwareProofs.* For any joints, positions and capacity, and every interleaving of the three threads.
The inductive invariant `HardwareInv` has four parts besides the types. `LifecycleOrder`: which of port,
decoder and thread exist follows from where the controller manager's call is. `ThreadOrder`: the thread
ends only after it was told to, and a packet is between the thread and the device exactly while the
thread is sending; with the previous part, the port is open as long as it is. `IoOrder`: the io thread
runs until `close` stops it, and a port just opened has no callback. `StatusOrder`: the flag of a status
is set only after its box was, and what `read` copied before is a position or was copied when nothing
had been shown. They give `PortIsThereForThread`, `DecoderIsThereForCallback`, `ThreadsKeepToLifecycle` and
`ReportedStateStays`. No call changes claims or stored commands behind the back of CommandInterfaces
(`CommandsOfHardware`), so that `FirstZeroIsIgnoredInHardware` follows from its lemmas.
`HardwareImplementsChannel` goes through the steps: a cycle accepts, taking a packet to send it and
posting it change nothing that is pending (the port is open, so no packet is given up), the device
transmits or loses the oldest one, everything else stutters.

*ControlLoopProofs.* `LoopTypeCorrect`, and two refinements. `LoopKeepsCommandSpec`: every step of the loop is
one of CommandInterfaces or leaves its variables alone, so its theorems hold in the loop
(`LoopGuardsCommands`). `LoopKeepsOrder` is `OrderKept`: sending and delivering move a packet within
`UnderWay` without changing it, the servos take the oldest, a packet that is lost, dropped at a full queue or
discarded by a decoder out of step is one in the middle, a restart forgets a prefix. The lemmas about sequences in parts (`PartsOfConcat`,
`OldestOfConcat`, `DropBetween`) carry it.

### What stays with TLC

- Liveness under fairness, which is out of the prover's reach: `Converges`, `Recovers`,
  `DeactivateReturns`, `QueueIsServed`, `Settles`, and the fairness in the specifications that `WalksStream`
  and `ImplementsMotion` refine (`RefinesWalk` and `TasksMoveAsPromised` prove the rest of them).
- That a pair of bits further apart than a burst is `Detectable`: it takes the order of x modulo the
  generator, a calculation. TLC evaluates it for the pairs of the run.

Every other property of the passing runs is a theorem. The theorem about CommandLink assumes `SyncFree`, those
about FirmwareTasks' smooth motion assume `KeepsUp`; all others assume only what the modules assume of
their constants.

## Not modelled

- The decoders' models hold for every CRC function; only ServoWire has the CRC-16 of the code, the firmware's.
  The host's library is taken to calculate the same; it is not compared on its own.
- Starvation of the firmware's reader by the tasks above it.
- Doubles: `current + (target - current)` may miss the target by an ulp; infinite commands.
- `encodeServoStatusPacket` (only tests call it) and the builder's pushes of other widths (nobody does).
- State and command interfaces are requested together; a joint with only one of them, names and
  prefixes are not modelled.
- `on_init`'s parameters, `setConfiguration`, `sendBreak`, the LEDC driver's set-up, `setup`'s text
  output (garbage for the host decoder, which HostStream covers), the case that creating a queue fails.
- The receive buffer of the firmware's USB port: its overflow is a lost byte in CommandLink.
- A read that fails for ever makes the io thread spin; no state changes, so no model shows it.
- Blink task (touches an LED only), attitude publisher (stateless), launch files, URDF, docker, tools.

## Plan

1. Done: Framing, FirmwareTasks, ServoProtocolDecoder/HostStream/FrameStream,
   FirmwareDecoder/FirmwareStream/CommandLink with runs; proofs for tasks and both decoders;
   CommandInterfaces, SerialPort, ServoHardware, CommandChannel with runs.
2. Done: Crc, Codec and ServoWire; ServoMotion with the refinement of FirmwareTasks; ControlLoop; the
   requests of the robot description in CommandInterfaces; proofs for ServoWire, CommandInterfaces,
   the refinement, and the remaining invariants of both decoders.
3. Done: proofs of ServoHardware's tear-down order, its state and its refinement of CommandChannel; of
   CommandLink's types and of its recovery; of ControlLoop's types, of its refinement of
   CommandInterfaces and of the order of commands over the whole way (LossyChannel).
4. Done: the CRC for every packet: its loops against polynomial division, its linearity, and with it the
   theorems about damaged packets without an assumption on the CRC.
5. Left: to join the two descriptions of the way of a command, that ServoHardware's threads implement the
   part of ControlLoop they stand for.
