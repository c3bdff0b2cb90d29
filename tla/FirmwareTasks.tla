---------------------------- MODULE FirmwareTasks ----------------------------
(***************************************************************************)
(* The FreeRTOS tasks of the servo controller firmware (ESP32-C3, a single *)
(* core, preemptive fixed priorities), servo_embedded/src/main.cpp:        *)
(*                                                                         *)
(*   serial reader (priority 0) --profilerQueue--> profiler (priority 3)   *)
(*   profiler --servoQueue--> servo task (priority 2) --> LEDC channels    *)
(*   profiler --Serial.write--> host (a status packet per update)          *)
(*                                                                         *)
(* Angles are integers: the unit is a step fine enough that MaxDelta is a  *)
(* whole number of them.  Computing takes no time, waiting does: time      *)
(* advances (Tick) while the profiler waits in vTaskDelayUntil or inside a *)
(* Serial.write that finds no room in the transmit buffer.                 *)
(***************************************************************************)
EXTENDS Integers, Sequences

CONSTANTS
  NumChannels,   (* servos (four in the firmware)                            *)
  Depth,         (* length of both queues (five in the firmware)             *)
  MinAngle,      (* MG996R_CONFIG.min_angular_position                       *)
  MaxAngle,      (* MG996R_CONFIG.max_angular_position                       *)
  InitialAngle,  (* SERVO_INITIAL_POSITION                                   *)
  MaxDelta,      (* maxDeltaPerUpdate                                        *)
  Period,        (* PROFILER_UPDATE_PERIOD_MS, in ticks                      *)
  MaxLate,       (* how late stalls of Serial.write may make the profiler in *)
                 (* all, in ticks; the transport's, not the firmware's       *)
  Commands,      (* commands the host sends, raw angles as on the wire       *)
  NoStatus       (* no complete status: the last write was cut short         *)

Channel == 0 .. NumChannels - 1
Angle == MinAngle .. MaxAngle
ServoPositions == [Channel -> Angle]

ASSUME SizesAssumption ==
  /\ NumChannels \in Nat \ {0}
  /\ Depth \in Nat \ {0}
  /\ Period \in Nat \ {0}
  /\ MaxLate \in Nat

ASSUME AnglesAssumption ==
  /\ MinAngle \in Int
  /\ MaxAngle \in Int
  /\ InitialAngle \in Angle
  /\ MaxDelta \in Nat \ {0}

ASSUME CommandsAssumption == Commands \subseteq [Channel -> Int]

ASSUME NoStatusAssumption == NoStatus \notin ServoPositions

VARIABLES
  profilerQueue,      (* reader -> profiler                                  *)
  servoQueue,         (* profiler -> servo task                              *)
  profiler,           (* where the profiler task is                          *)
  late,               (* tick count minus xLastWakeTime                      *)
  targetPositions,    (* locals of vProfilerTask                             *)
  currentPositions,
  positions,          (* local of vServoTask                                 *)
  channel,            (* next channel vServoTask sets; NumChannels: waiting  *)
  output,             (* angle behind the duty each LEDC channel was given   *)
  published           (* the last status packet put on the wire              *)

profilerVars == <<profiler, late, targetPositions, currentPositions, published>>
servoVars == <<positions, channel, output>>
vars == <<profilerQueue, servoQueue, profilerVars, servoVars>>

-----------------------------------------------------------------------------
(* Scheduling: a task runs only while every task above it waits. *)

ProfilerWaits == profiler \in {"delayed", "blocked"}
ServoWaits == servoQueue = <<>> /\ channel = NumChannels

(* std::max(lo, std::min(x, hi)). *)
Clip(lo, x, hi) == IF x < lo THEN lo ELSE IF x > hi THEN hi ELSE x

(* xQueueSend with no wait: a full queue refuses the new item and the      *)
(* callers ignore the result.                                              *)
SendNoWait(queue, item) ==
  IF Len(queue) < Depth THEN Append(queue, item) ELSE queue

InitialPositions == [c \in Channel |-> InitialAngle]

(* setup: the outputs are centred before the tasks exist, and the profiler, *)
(* of a higher priority than setup's own task, runs as soon as it is made.  *)
(* positions is not initialised by the code, which never reads it before    *)
(* the first receive; it starts here with the centre.                       *)
Init ==
  /\ profilerQueue = <<>>
  /\ servoQueue = <<>>
  /\ profiler = "ready"
  /\ late = 0
  /\ targetPositions = InitialPositions
  /\ currentPositions = InitialPositions
  /\ positions = InitialPositions
  /\ channel = NumChannels
  /\ output = InitialPositions
  /\ published = NoStatus

-----------------------------------------------------------------------------
(* The profiler task. *)

(* Slips that would break the properties: no limit on the step, and a step *)
(* that stops short of the target.                                         *)
moveTowardsAtOnce(current, target) == target

moveTowardsDeadBand(current, target) ==
  IF target - current \in -MaxDelta + 1 .. MaxDelta - 1
  THEN current ELSE current + Clip(-MaxDelta, target - current, MaxDelta)

(* One update moves an angle by at most MaxDelta. *)
moveTowards(current, target) ==
  current + Clip(-MaxDelta, target - current, MaxDelta)

(* Slip: the newest queued target is taken and the others are forgotten. *)
ProfilerUpdateNewest ==
  /\ profiler = "ready"
  /\ targetPositions' = IF profilerQueue = <<>> THEN targetPositions
                                                ELSE profilerQueue[Len(profilerQueue)]
  /\ profilerQueue' = <<>>
  /\ currentPositions' =
       [c \in Channel |-> moveTowards(currentPositions[c], targetPositions'[c])]
  /\ servoQueue' = SendNoWait(servoQueue, currentPositions')
  /\ profiler' = "publishing"
  /\ UNCHANGED <<late, published, servoVars>>

(* The loop body up to the write: at most one queued target is taken. *)
ProfilerUpdate ==
  /\ profiler = "ready"
  /\ targetPositions' = IF profilerQueue = <<>> THEN targetPositions
                                                ELSE Head(profilerQueue)
  /\ profilerQueue' = IF profilerQueue = <<>> THEN <<>> ELSE Tail(profilerQueue)
  /\ currentPositions' =
       [c \in Channel |-> moveTowards(currentPositions[c], targetPositions'[c])]
  /\ servoQueue' = SendNoWait(servoQueue, currentPositions')
  /\ profiler' = "publishing"
  /\ UNCHANGED <<late, published, servoVars>>

(* Slip: the wake time is not moved on, so that the task never waits. *)
DelayNeeded == late' = late /\ profiler' = "ready"

(* vTaskDelayUntil: the wake time moves by one period; the task is blocked *)
(* only if that time has not come yet.                                     *)
DelayUntil ==
  /\ late' = late - Period
  /\ profiler' = IF late - Period < 0 THEN "delayed" ELSE "ready"

(* Slip: the status tells where the servos are sent. *)
publishTargets(complete) ==
  published' = IF complete THEN targetPositions ELSE NoStatus

(* Serial.write returns, having sent the whole packet or (after a stall    *)
(* that reached its timeout) only a part of it.                            *)
publishServoState(complete) ==
  published' = IF complete THEN currentPositions ELSE NoStatus

ProfilerPublish ==
  /\ profiler = "publishing"
  /\ publishServoState(TRUE)
  /\ DelayUntil
  /\ UNCHANGED <<profilerQueue, servoQueue, targetPositions, currentPositions,
                 servoVars>>

ProfilerStall ==
  /\ profiler = "publishing"
  /\ profiler' = "blocked"
  /\ UNCHANGED <<profilerQueue, servoQueue, late, targetPositions,
                 currentPositions, published, servoVars>>

ProfilerResume(complete) ==
  /\ profiler = "blocked"
  /\ publishServoState(complete)
  /\ DelayUntil
  /\ UNCHANGED <<profilerQueue, servoQueue, targetPositions, currentPositions,
                 servoVars>>

-----------------------------------------------------------------------------
(* The servo task: the channels are set one after the other, and the       *)
(* profiler may preempt it between two of them.                            *)

ServoReceive ==
  /\ ProfilerWaits
  /\ channel = NumChannels
  /\ servoQueue # <<>>
  /\ positions' = Head(servoQueue)
  /\ servoQueue' = Tail(servoQueue)
  /\ channel' = 0
  /\ UNCHANGED <<profilerQueue, profilerVars, output>>

(* anglesToDutyCycle constrains the angle, setLedcDuty updates the PWM. *)
ServoSetDuty ==
  /\ ProfilerWaits
  /\ channel < NumChannels
  /\ output' = [output EXCEPT ![channel] =
                  Clip(MinAngle, positions[channel], MaxAngle)]
  /\ channel' = channel + 1
  /\ UNCHANGED <<profilerQueue, servoQueue, profilerVars, positions>>

-----------------------------------------------------------------------------
(* The serial reader task, at the moment a valid SERVO_COMMAND is complete. *)

(* Slip: no upper limit. *)
scaleAndClipBelow(raw) == IF raw < MinAngle THEN MinAngle ELSE raw

(* The conversion limits every angle to the servo's range. *)
scaleAndClip(raw) == Clip(MinAngle, raw, MaxAngle)

handleServoCommand(command) ==
  /\ ProfilerWaits /\ ServoWaits
  /\ profilerQueue' =
       SendNoWait(profilerQueue, [c \in Channel |-> scaleAndClip(command[c])])
  /\ UNCHANGED <<servoQueue, profilerVars, servoVars>>

(* Time passes.  A task that is ready runs at once, so queued positions    *)
(* are taken before the next tick; the tick may still interrupt the servo  *)
(* task between two channels.                                              *)
Tick ==
  /\ servoQueue = <<>>
  /\ \/ profiler = "delayed"
     \/ profiler = "blocked" /\ late < MaxLate
  /\ late' = late + 1
  /\ profiler' = IF profiler = "delayed" /\ late + 1 = 0 THEN "ready" ELSE profiler
  /\ UNCHANGED <<profilerQueue, servoQueue, targetPositions, currentPositions,
                 published, servoVars>>

-----------------------------------------------------------------------------
ProfilerStep ==
  \/ ProfilerUpdate
  \/ ProfilerPublish
  \/ ProfilerStall
  \/ \E complete \in BOOLEAN : ProfilerResume(complete)

ServoStep == ServoReceive \/ ServoSetDuty

CommandStep == \E command \in Commands : handleServoCommand(command)

Next == ProfilerStep \/ ServoStep \/ CommandStep \/ Tick

(* A ready task of sufficient priority runs, a stalled write returns (it   *)
(* has a timeout), and time passes.  Nothing makes the host send.          *)
Fairness ==
  /\ WF_vars(ProfilerStep)
  /\ WF_vars(ServoStep)
  /\ WF_vars(Tick)

Spec == Init /\ [][Next]_vars /\ Fairness

-----------------------------------------------------------------------------
(* Properties. *)

(* Every angle a queue, a task or an output holds is one the servo can     *)
(* take, the queues keep their depth, and the profiler is never later than *)
(* the transport makes it (main.cpp:143-172, 254-320).                     *)
TypeOK ==
  /\ profilerQueue \in Seq(ServoPositions) /\ Len(profilerQueue) <= Depth
  /\ servoQueue \in Seq(ServoPositions) /\ Len(servoQueue) <= Depth
  /\ profiler \in {"ready", "publishing", "blocked", "delayed"}
  /\ late \in -Period .. MaxLate
  /\ (profiler = "delayed") <=> (late < 0)
  /\ targetPositions \in ServoPositions
  /\ currentPositions \in ServoPositions
  /\ positions \in ServoPositions
  /\ channel \in 0 .. NumChannels
  /\ output \in ServoPositions
  /\ published \in ServoPositions \union {NoStatus}

(* The stall of Serial.write the queue to the servo task can absorb: the   *)
(* updates the profiler then makes without waiting all fit in it.          *)
KeepsUp == MaxLate < (Depth + 1) * Period

(* The profiler never makes an update for which the servo queue has no     *)
(* room, so the send whose result it ignores (main.cpp:279) never fails.   *)
RoomForUpdate == profiler = "ready" => Len(servoQueue) < Depth

(* When the tasks are idle the servos stand where the profiler's last      *)
(* update put them, and that is what the last status told the host         *)
(* (main.cpp:279-282): no update was lost on the way.                      *)
StatusTruthful ==
  profiler = "delayed" /\ ServoWaits =>
    /\ output = currentPositions
    /\ published # NoStatus => published = output

Near(a, b) == a - b <= MaxDelta /\ b - a <= MaxDelta

(* No output is ever moved by more than one update's worth of rotation     *)
(* (PROTOCOL.md:114), however the tasks are delayed and preempted and      *)
(* whatever the host asks for.                                             *)
OutputStep == [][\A c \in Channel : Near(output[c], output'[c])]_vars

Settled == profilerQueue = <<>> /\ output = targetPositions

(* Once the host stops sending, the servos reach the target of the last    *)
(* command that was accepted and stay there (PROTOCOL.md:117-120).         *)
Converges == []<><<CommandStep>>_vars \/ <>[]Settled

Motion == INSTANCE ServoMotion WITH
  queue <- profilerQueue, target <- targetPositions,
  position <- currentPositions, status <- published

(* The tasks, with their priorities, preemptions and stalls, promise what  *)
(* ServoMotion says: targets are taken in the order of the commands        *)
(* accepted, none is skipped, and every update goes straight to its target *)
(* (main.cpp:256-282).                                                     *)
ImplementsMotion == Motion!Spec

(* The inductive invariant behind the safety properties.  Backlog: the     *)
(* updates queued for the servo task are paid for by the time the profiler *)
(* has caught up with.  Path: from where each output stands, through the   *)
(* positions being set and those queued, to the profiler's current ones,   *)
(* no step is longer than one update.                                      *)
Backlog ==
  /\ profiler = "ready" =>
       \/ late = 0 /\ servoQueue = <<>>
       \/ Period * (Len(servoQueue) + 1) <= MaxLate - late
  /\ profiler \in {"publishing", "blocked"} =>
       \/ servoQueue = <<>>
       \/ late < Period
       \/ Period * Len(servoQueue) <= MaxLate - late

Waypoint(i) == IF i = 0 THEN positions ELSE servoQueue[i]

Path ==
  /\ \A i \in 1 .. Len(servoQueue) : \A c \in Channel :
       Near(Waypoint(i - 1)[c], Waypoint(i)[c])
  /\ Waypoint(Len(servoQueue)) = currentPositions
  /\ \A c \in Channel :
       IF c < channel THEN output[c] = positions[c]
                      ELSE Near(output[c], positions[c])

Reported ==
  profiler \in {"ready", "delayed"} => published \in {NoStatus, currentPositions}
=============================================================================
