------------------------- MODULE FirmwareTasksProofs -------------------------
(***************************************************************************)
(* Safety of the firmware's tasks for every number of servos, queue depth, *)
(* range, period and set of commands.                                      *)
(***************************************************************************)
EXTENDS FirmwareTasks, TLAPS

(* What is clipped to the servo's range lies in it.                        *)
LEMMA ClipInRange ==
  ASSUME NEW x \in Int
  PROVE  Clip(MinAngle, x, MaxAngle) \in Angle
BY AnglesAssumption DEF Clip, Angle

(* One update of a channel stays in range and within one step of where the *)
(* channel was (moveTowards, main.cpp:259-263).                            *)
LEMMA MoveTowardsStep ==
  ASSUME NEW current \in Angle, NEW target \in Angle
  PROVE  /\ moveTowards(current, target) \in Angle
         /\ Near(current, moveTowards(current, target))
BY AnglesAssumption DEF moveTowards, Clip, Near, Angle

LEMMA SendType ==
  ASSUME NEW S, NEW q \in Seq(S), NEW x \in S, Len(q) <= Depth
  PROVE  SendNoWait(q, x) \in Seq(S) /\ Len(SendNoWait(q, x)) <= Depth
BY SizesAssumption DEF SendNoWait

LEMMA InitTypeOK == Init => TypeOK
<1> SUFFICES ASSUME Init PROVE TypeOK
  OBVIOUS
<1>1. InitialPositions \in ServoPositions
  BY AnglesAssumption DEF InitialPositions, ServoPositions
<1> QED
  BY <1>1, SizesAssumption DEF Init, TypeOK

(* The profiler's update keeps every angle in range: what it takes from    *)
(* the queue was clipped before, and moving towards it stays in between.   *)
LEMMA UpdateTypeOK == TypeOK /\ ProfilerUpdate => TypeOK'
<1> SUFFICES ASSUME TypeOK, ProfilerUpdate PROVE TypeOK'
  OBVIOUS
<1> USE DEF TypeOK
<1>1. targetPositions' \in ServoPositions
  <2>1. CASE profilerQueue = <<>>
    BY <2>1 DEF ProfilerUpdate
  <2>2. CASE profilerQueue # <<>>
    BY <2>2 DEF ProfilerUpdate
  <2> QED
    BY <2>1, <2>2
<1>2. currentPositions' \in ServoPositions
  BY <1>1, MoveTowardsStep DEF ProfilerUpdate, ServoPositions
<1>3. profilerQueue' \in Seq(ServoPositions) /\ Len(profilerQueue') <= Depth
  BY SizesAssumption DEF ProfilerUpdate
<1>4. servoQueue' \in Seq(ServoPositions) /\ Len(servoQueue') <= Depth
  BY <1>2, SendType DEF ProfilerUpdate
<1> QED
  BY <1>1, <1>2, <1>3, <1>4 DEF ProfilerUpdate, servoVars

LEMMA PublishTypeOK == TypeOK /\ ProfilerPublish => TypeOK'
BY SizesAssumption
   DEF TypeOK, ProfilerPublish, publishServoState, DelayUntil, servoVars

LEMMA StallTypeOK == TypeOK /\ ProfilerStall => TypeOK'
BY DEF TypeOK, ProfilerStall, servoVars

LEMMA ResumeTypeOK ==
  ASSUME TypeOK, NEW complete \in BOOLEAN, ProfilerResume(complete)
  PROVE  TypeOK'
BY SizesAssumption
   DEF TypeOK, ProfilerResume, publishServoState, DelayUntil, servoVars

LEMMA ReceiveTypeOK == TypeOK /\ ServoReceive => TypeOK'
BY SizesAssumption DEF TypeOK, ServoReceive, profilerVars

LEMMA SetDutyTypeOK == TypeOK /\ ServoSetDuty => TypeOK'
<1> SUFFICES ASSUME TypeOK, ServoSetDuty PROVE TypeOK'
  OBVIOUS
<1>1. channel \in Channel
  BY SizesAssumption DEF TypeOK, ServoSetDuty, Channel
<1>2. Clip(MinAngle, positions[channel], MaxAngle) \in Angle
  <2>1. positions[channel] \in Int
    BY <1>1, AnglesAssumption DEF TypeOK, ServoPositions, Angle
  <2> QED
    BY <2>1, ClipInRange
<1>3. output' \in ServoPositions
  BY <1>2 DEF TypeOK, ServoSetDuty, ServoPositions
<1>4. channel' \in 0 .. NumChannels
  BY SizesAssumption DEF TypeOK, ServoSetDuty
<1> QED
  BY <1>3, <1>4 DEF TypeOK, ServoSetDuty, profilerVars

LEMMA CommandTypeOK ==
  ASSUME TypeOK, NEW command \in Commands, handleServoCommand(command)
  PROVE  TypeOK'
<1>1. ASSUME NEW c \in Channel PROVE scaleAndClip(command[c]) \in Angle
  <2>1. command[c] \in Int
    BY CommandsAssumption
  <2> QED
    BY <2>1, ClipInRange DEF scaleAndClip
<1>2. [c \in Channel |-> scaleAndClip(command[c])] \in ServoPositions
  BY <1>1 DEF ServoPositions
<1>3. profilerQueue' \in Seq(ServoPositions) /\ Len(profilerQueue') <= Depth
  BY <1>2, SendType DEF TypeOK, handleServoCommand
<1> QED
  BY <1>3 DEF TypeOK, handleServoCommand, profilerVars, servoVars

LEMMA TickTypeOK == TypeOK /\ Tick => TypeOK'
BY SizesAssumption DEF TypeOK, Tick, servoVars

LEMMA NextTypeOK == TypeOK /\ [Next]_vars => TypeOK'
<1> SUFFICES ASSUME TypeOK, [Next]_vars PROVE TypeOK'
  OBVIOUS
<1>1. CASE ProfilerStep
  BY <1>1, UpdateTypeOK, PublishTypeOK, StallTypeOK, ResumeTypeOK DEF ProfilerStep
<1>2. CASE ServoStep
  BY <1>2, ReceiveTypeOK, SetDutyTypeOK DEF ServoStep
<1>3. CASE CommandStep
  BY <1>3, CommandTypeOK DEF CommandStep
<1>4. CASE Tick
  BY <1>4, TickTypeOK
<1>5. CASE UNCHANGED vars
  BY <1>5 DEF TypeOK, vars, profilerVars, servoVars
<1> QED
  BY <1>1, <1>2, <1>3, <1>4, <1>5 DEF Next

(* Every angle held anywhere stays in the servo's range, for every command *)
(* the host may send, valid or not (main.cpp:143-172, 254-320).            *)
THEOREM TypeCorrect == Spec => []TypeOK
BY InitTypeOK, NextTypeOK, PTL DEF Spec
-----------------------------------------------------------------------------
(* Timing: how far the queue to the servo task can fill. *)

LEMMA BacklogStep ==
  ASSUME TypeOK, Backlog, RoomForUpdate, Next
  PROVE  Backlog'
<1> USE SizesAssumption
<1>1. CASE ProfilerUpdate
  <2>1. profiler = "ready" /\ profiler' = "publishing" /\ late' = late
    BY <1>1 DEF ProfilerUpdate
  <2>2. Len(servoQueue') = Len(servoQueue) + 1
    BY <1>1, <2>1 DEF TypeOK, RoomForUpdate, ProfilerUpdate, SendNoWait
  <2>3. CASE late = 0
    BY <2>1, <2>3 DEF Backlog
  <2>4. CASE Period * (Len(servoQueue) + 1) <= MaxLate - late
    BY <2>1, <2>2, <2>4 DEF Backlog
  <2> QED
    BY <2>1, <2>3, <2>4 DEF Backlog
<1>2. ASSUME profiler \in {"publishing", "blocked"}, DelayUntil,
             servoQueue' = servoQueue
      PROVE  Backlog'
  <2>1. CASE late < Period
    BY <1>2, <2>1 DEF Backlog, DelayUntil, TypeOK
  <2>2. CASE servoQueue = <<>> /\ late >= Period
    BY <1>2, <2>2 DEF Backlog, DelayUntil, TypeOK
  <2>3. CASE Period * Len(servoQueue) <= MaxLate - late /\ late >= Period
    <3>1. Len(servoQueue) \in Nat /\ late \in Int
      BY DEF TypeOK
    <3>2. Period * (Len(servoQueue) + 1) = Period * Len(servoQueue) + Period
      BY <3>1
    <3>3. Period * (Len(servoQueue) + 1) <= MaxLate - (late - Period)
      BY <2>3, <3>1, <3>2
    <3> QED
      BY <1>2, <3>3 DEF Backlog, DelayUntil
  <2> QED
    BY <1>2, <2>1, <2>2, <2>3 DEF Backlog, TypeOK
<1>3. CASE ProfilerPublish
  BY <1>2, <1>3 DEF ProfilerPublish
<1>4. CASE ProfilerStall
  BY <1>4 DEF ProfilerStall, Backlog
<1>5. ASSUME NEW complete \in BOOLEAN, ProfilerResume(complete) PROVE Backlog'
  BY <1>2, <1>5 DEF ProfilerResume
<1>6. CASE ServoReceive
  <2>1. profiler' = profiler /\ late' = late /\ profiler # "ready"
    BY <1>6 DEF ServoReceive, profilerVars, ProfilerWaits
  <2>2. Len(servoQueue') = Len(servoQueue) - 1
    BY <1>6 DEF ServoReceive, TypeOK
  <2>3. Period * Len(servoQueue') <= Period * Len(servoQueue)
    BY <2>2 DEF TypeOK
  <2> QED
    BY <1>6, <2>1, <2>2, <2>3 DEF Backlog, TypeOK, ServoReceive
<1>7. CASE ServoSetDuty
  BY <1>7 DEF ServoSetDuty, Backlog, profilerVars
<1>8. ASSUME NEW command \in Commands, handleServoCommand(command) PROVE Backlog'
  BY <1>8 DEF handleServoCommand, Backlog, profilerVars
<1>9. CASE Tick
  BY <1>9 DEF Tick, Backlog, TypeOK
<1> QED
  BY <1>1, <1>3, <1>4, <1>5, <1>6, <1>7, <1>8, <1>9
     DEF Next, ProfilerStep, ServoStep, CommandStep

(* The queue has room for the next update as long as no stall outlasts it. *)
LEMMA BacklogGivesRoom ==
  ASSUME KeepsUp, TypeOK, Backlog
  PROVE  RoomForUpdate
<1> SUFFICES ASSUME profiler = "ready", Len(servoQueue) = Depth
             PROVE  FALSE
  BY SizesAssumption DEF RoomForUpdate, TypeOK
<1>1. late >= 0
  BY DEF TypeOK
<1>2. servoQueue # <<>>
  BY SizesAssumption
<1>3. Period * (Depth + 1) <= MaxLate - late
  BY <1>2 DEF Backlog
<1>4. (Depth + 1) * Period = Period * (Depth + 1)
  BY SizesAssumption
<1> QED
  BY <1>1, <1>3, <1>4, SizesAssumption DEF KeepsUp, TypeOK

-----------------------------------------------------------------------------
(* Motion: the way from the outputs to the profiler's positions. *)

LEMMA NearReflexive ==
  ASSUME NEW a \in Angle PROVE Near(a, a)
BY AnglesAssumption DEF Near, Angle

LEMMA PathUpdate ==
  ASSUME TypeOK, Path, RoomForUpdate, ProfilerUpdate
  PROVE  Path'
<1> PICK n \in Nat : n = Len(servoQueue)
  BY DEF TypeOK
<1>1. n \in Nat /\ servoQueue' = Append(servoQueue, currentPositions')
  BY DEF TypeOK, RoomForUpdate, ProfilerUpdate, SendNoWait
<1>2. Len(servoQueue') = n + 1 /\ servoQueue'[n + 1] = currentPositions'
  BY <1>1 DEF TypeOK
<1>3. positions' = positions /\ output' = output /\ channel' = channel
  BY DEF ProfilerUpdate, servoVars
<1>4. \A i \in 0 .. n : Waypoint(i)' = Waypoint(i)
  BY <1>1, <1>3 DEF Waypoint, TypeOK
<1>5. Waypoint(n + 1)' = currentPositions'
  BY <1>1, <1>2 DEF Waypoint
<1>6. targetPositions' \in ServoPositions
  BY UpdateTypeOK DEF TypeOK
<1>7. \A c \in Channel : Near(currentPositions[c], currentPositions'[c])
  BY <1>6, MoveTowardsStep DEF ProfilerUpdate, TypeOK, ServoPositions
<1>8. ASSUME NEW i \in 1 .. Len(servoQueue'), NEW c \in Channel
      PROVE  Near(Waypoint(i - 1)'[c], Waypoint(i)'[c])
  <2>1. CASE i = n + 1
    <3>1. Waypoint(i - 1)' = currentPositions
      BY <1>1, <1>4, <2>1 DEF Path
    <3> QED
      BY <1>5, <1>7, <2>1, <3>1
  <2>2. CASE i \in 1 .. n
    BY <1>1, <1>4, <2>2 DEF Path
  <2> QED
    BY <1>1, <1>2, <2>1, <2>2
<1> QED
  BY <1>2, <1>3, <1>5, <1>8 DEF Path, Near

LEMMA PathReceive ==
  ASSUME TypeOK, Path, ServoReceive
  PROVE  Path'
<1> PICK n \in Nat : n = Len(servoQueue)
  BY DEF TypeOK
<1>1. n \in Nat \ {0} /\ servoQueue' = Tail(servoQueue) /\ positions' = servoQueue[1]
  BY DEF TypeOK, ServoReceive
<1>2. Len(servoQueue') = n - 1
  BY <1>1 DEF TypeOK
<1>3. \A i \in 0 .. n - 1 : Waypoint(i)' = Waypoint(i + 1)
  BY <1>1, <1>2 DEF Waypoint, TypeOK
<1>4. ASSUME NEW i \in 1 .. n - 1, NEW c \in Channel
      PROVE  Near(Waypoint(i - 1)'[c], Waypoint(i)'[c])
  BY <1>1, <1>3 DEF Path
<1>5. currentPositions' = currentPositions /\ Waypoint(n - 1)' = currentPositions
  BY <1>1, <1>3 DEF Path, ServoReceive, profilerVars
<1>6. ASSUME NEW c \in Channel
      PROVE  channel' = 0 /\ ~ (c < channel') /\ Near(output'[c], positions'[c])
  <2>1. channel' = 0 /\ ~ (c < channel') /\ output' = output /\ c < channel
    BY SizesAssumption DEF ServoReceive, Channel
  <2>2. output[c] = positions[c]
    BY <2>1 DEF Path
  <2>3. Near(positions[c], servoQueue[1][c])
    BY <1>1 DEF Path, Waypoint
  <2> QED
    BY <1>1, <2>1, <2>2, <2>3
<1> QED
  BY <1>1, <1>2, <1>4, <1>5, <1>6 DEF Path, Near

LEMMA PathSetDuty ==
  ASSUME TypeOK, Path, ServoSetDuty
  PROVE  Path'
<1>1. channel \in Channel /\ channel' = channel + 1
  BY SizesAssumption DEF TypeOK, ServoSetDuty, Channel
<1>2. servoQueue' = servoQueue /\ positions' = positions
      /\ currentPositions' = currentPositions
  BY DEF ServoSetDuty, profilerVars
<1>3. output' = [output EXCEPT ![channel] = positions[channel]]
  <2>1. positions[channel] \in Angle
    BY <1>1 DEF TypeOK, ServoPositions
  <2>2. Clip(MinAngle, positions[channel], MaxAngle) = positions[channel]
    BY <2>1, AnglesAssumption DEF Clip, Angle
  <2> QED
    BY <2>2 DEF ServoSetDuty
<1>4. ASSUME NEW c \in Channel
      PROVE  IF c < channel' THEN output'[c] = positions'[c]
                             ELSE Near(output'[c], positions'[c])
  <2>1. CASE c = channel
    BY <1>1, <1>2, <1>3, <2>1 DEF TypeOK, ServoPositions, Channel
  <2>2. CASE c # channel
    <3>1. output'[c] = output[c] /\ (c < channel' <=> c < channel)
      BY <1>1, <1>3, <2>2, SizesAssumption DEF TypeOK, ServoPositions, Channel
    <3> QED
      BY <1>2, <3>1 DEF Path
  <2> QED
    BY <2>1, <2>2
<1> QED
  BY <1>2, <1>4 DEF Path, Waypoint, Near

LEMMA PathStep ==
  ASSUME TypeOK, Path, RoomForUpdate, Next
  PROVE  Path'
<1>1. CASE ProfilerUpdate
  BY <1>1, PathUpdate
<1>2. CASE ServoReceive
  BY <1>2, PathReceive
<1>3. CASE ServoSetDuty
  BY <1>3, PathSetDuty
<1>4. ASSUME UNCHANGED <<servoQueue, currentPositions, positions, channel, output>>
      PROVE  Path'
  BY <1>4 DEF Path, Waypoint, Near
<1>5. CASE ProfilerPublish
  BY <1>4, <1>5 DEF ProfilerPublish, servoVars
<1>6. CASE ProfilerStall
  BY <1>4, <1>6 DEF ProfilerStall, servoVars
<1>7. ASSUME NEW complete \in BOOLEAN, ProfilerResume(complete) PROVE Path'
  BY <1>4, <1>7 DEF ProfilerResume, servoVars
<1>8. ASSUME NEW command \in Commands, handleServoCommand(command) PROVE Path'
  BY <1>4, <1>8 DEF handleServoCommand, servoVars, profilerVars
<1>9. CASE Tick
  BY <1>4, <1>9 DEF Tick, servoVars
<1> QED
  BY <1>1, <1>2, <1>3, <1>5, <1>6, <1>7, <1>8, <1>9
     DEF Next, ProfilerStep, ServoStep, CommandStep

LEMMA ReportedStep ==
  ASSUME TypeOK, Reported, Next
  PROVE  Reported'
BY DEF TypeOK, Reported, Next, ProfilerStep, ServoStep, CommandStep, ProfilerUpdate,
       ProfilerPublish, ProfilerStall, ProfilerResume, publishServoState,
       ServoReceive, ServoSetDuty, handleServoCommand, Tick, profilerVars,
       servoVars, ProfilerWaits

-----------------------------------------------------------------------------
IInv == TypeOK /\ Backlog /\ Path /\ Reported

LEMMA InitIInv == Init => IInv
<1> SUFFICES ASSUME Init PROVE IInv
  OBVIOUS
<1>1. TypeOK
  BY InitTypeOK
<1>2. Backlog
  BY DEF Init, Backlog
<1>3. Path
  BY <1>1, NearReflexive DEF Init, Path, Waypoint, TypeOK, ServoPositions
<1>4. Reported
  BY DEF Init, Reported
<1> QED
  BY <1>1, <1>2, <1>3, <1>4 DEF IInv

LEMMA StepIInv ==
  ASSUME KeepsUp
  PROVE  IInv /\ [Next]_vars => IInv'
<1> SUFFICES ASSUME IInv, [Next]_vars PROVE IInv'
  OBVIOUS
<1>1. TypeOK'
  BY NextTypeOK DEF IInv
<1>2. CASE Next
  <2>1. RoomForUpdate
    BY BacklogGivesRoom DEF IInv
  <2> QED
    BY <1>1, <1>2, <2>1, BacklogStep, PathStep, ReportedStep DEF IInv
<1>3. CASE UNCHANGED vars
  <2> USE <1>3 DEF vars, profilerVars, servoVars
  <2>1. Backlog'
    BY DEF IInv, Backlog
  <2>2. Path'
    BY DEF IInv, Path, Waypoint, Near
  <2>3. Reported'
    BY DEF IInv, Reported
  <2> QED
    BY <1>1, <2>1, <2>2, <2>3 DEF IInv
<1> QED
  BY <1>2, <1>3

LEMMA IdleMeansThere ==
  ASSUME IInv PROVE StatusTruthful
<1> SUFFICES ASSUME profiler = "delayed", ServoWaits
             PROVE  /\ output = currentPositions
                    /\ published # NoStatus => published = output
  BY DEF StatusTruthful
<1>1. positions = currentPositions
  BY DEF IInv, Path, Waypoint, ServoWaits
<1>2. \A c \in Channel : output[c] = positions[c]
  BY SizesAssumption DEF IInv, Path, ServoWaits, Channel
<1>3. output = currentPositions
  BY <1>1, <1>2 DEF IInv, TypeOK, ServoPositions
<1> QED
  BY <1>3 DEF IInv, Reported

LEMMA OutputStepLemma ==
  ASSUME TypeOK, Path, [Next]_vars
  PROVE  \A c \in Channel : Near(output[c], output'[c])
<1> SUFFICES ASSUME NEW c \in Channel PROVE Near(output[c], output'[c])
  OBVIOUS
<1>1. output[c] \in Angle
  BY DEF TypeOK, ServoPositions
<1>2. CASE output' = output
  BY <1>1, <1>2, NearReflexive
<1>3. CASE ServoSetDuty /\ c = channel
  <2>1. output'[c] = positions[c]
    BY <1>3, AnglesAssumption
       DEF ServoSetDuty, Clip, TypeOK, ServoPositions, Angle
  <2> QED
    BY <1>3, <2>1, SizesAssumption DEF Path, TypeOK, Channel
<1>4. CASE ServoSetDuty /\ c # channel
  <2>1. output'[c] = output[c]
    BY <1>4 DEF ServoSetDuty, TypeOK, ServoPositions
  <2> QED
    BY <1>1, <2>1, NearReflexive
<1>5. CASE ~ ServoSetDuty
  BY <1>2, <1>5 DEF Next, vars, ProfilerStep, ServoStep, CommandStep, ProfilerUpdate,
     ProfilerPublish, ProfilerStall, ProfilerResume, ServoReceive,
     handleServoCommand, Tick, profilerVars, servoVars
<1> QED
  BY <1>3, <1>4, <1>5

(* If Serial.write never holds the profiler longer than the servo queue    *)
(* can absorb, the send whose result main.cpp:279 ignores always succeeds. *)
THEOREM NoUpdateLost ==
  ASSUME KeepsUp PROVE Spec => []RoomForUpdate
<1>1. IInv => RoomForUpdate
  BY BacklogGivesRoom DEF IInv
<1> QED
  BY <1>1, InitIInv, StepIInv, PTL DEF Spec

(* Under the same condition an idle controller's servos stand where the    *)
(* profiler and the last complete status say (main.cpp:279-282).           *)
THEOREM StatusIsTruthful ==
  ASSUME KeepsUp PROVE Spec => []StatusTruthful
<1>1. IInv => StatusTruthful
  BY IdleMeansThere
<1> QED
  BY <1>1, InitIInv, StepIInv, PTL DEF Spec

(* Under the same condition no servo is ever moved by more than one        *)
(* update's rotation, for every sequence of commands (PROTOCOL.md:114).    *)
THEOREM MotionIsSmooth ==
  ASSUME KeepsUp PROVE Spec => OutputStep
<1>1. IInv /\ [Next]_vars => [\A c \in Channel : Near(output[c], output'[c])]_vars
  BY OutputStepLemma DEF IInv
<1> QED
  BY <1>1, InitIInv, StepIInv, PTL DEF Spec, OutputStep

-----------------------------------------------------------------------------
(* Refinement: the tasks move the servos as ServoMotion promises. *)

LEMMA MovesStraight ==
  ASSUME NEW current \in Angle, NEW target \in Angle
  PROVE  Motion!Towards(current, moveTowards(current, target), target)
BY AnglesAssumption DEF Motion!Towards, moveTowards, Clip, Angle

LEMMA UpdateMoves ==
  ASSUME TypeOK, ProfilerUpdate
  PROVE  Motion!Move
<1>1. TypeOK'
  BY UpdateTypeOK
<1>2. ASSUME NEW c \in Channel
      PROVE  Motion!Towards(currentPositions[c], currentPositions'[c], targetPositions'[c])
  <2>1. /\ currentPositions[c] \in Angle /\ targetPositions'[c] \in Angle
        /\ currentPositions'[c] = moveTowards(currentPositions[c], targetPositions'[c])
    BY <1>1 DEF TypeOK, ServoPositions, ProfilerUpdate
  <2> QED
    BY <2>1, MovesStraight
<1>3. currentPositions' \in Motion!Positions
  BY <1>1 DEF TypeOK, ServoPositions, Motion!Positions
<1>4. IF profilerQueue = <<>>
      THEN UNCHANGED <<profilerQueue, targetPositions>>
      ELSE profilerQueue' = Tail(profilerQueue) /\ targetPositions' = Head(profilerQueue)
  BY DEF ProfilerUpdate
<1> QED
  BY <1>2, <1>3, <1>4 DEF Motion!Move, ProfilerUpdate

LEMMA CommandAccepted ==
  ASSUME TypeOK, NEW command \in Commands, handleServoCommand(command)
  PROVE  [Motion!Next]_(Motion!motionVars)
<1> DEFINE clipped == [c \in Channel |-> scaleAndClip(command[c])]
<1>1. UNCHANGED <<targetPositions, currentPositions, published>>
  BY DEF handleServoCommand, profilerVars
<1>2. CASE Len(profilerQueue) < Depth
  <2>1. clipped \in Motion!Positions
    <3>1. ASSUME NEW c \in Channel PROVE scaleAndClip(command[c]) \in Angle
      BY CommandsAssumption, ClipInRange DEF scaleAndClip
    <3> QED
      BY <3>1 DEF Motion!Positions
  <2>2. profilerQueue' = Append(profilerQueue, clipped)
    BY <1>2 DEF handleServoCommand, SendNoWait
  <2>3. Motion!Accept(clipped)
    BY <1>1, <1>2, <2>2 DEF Motion!Accept
  <2> QED
    BY <2>1, <2>3 DEF Motion!Next
<1>3. CASE ~ (Len(profilerQueue) < Depth)
  <2>1. profilerQueue' = profilerQueue
    BY <1>3 DEF handleServoCommand, SendNoWait
  <2> QED
    BY <1>1, <2>1 DEF Motion!motionVars
<1> QED
  BY <1>2, <1>3

LEMMA StepOfMotion ==
  ASSUME TypeOK, [Next]_vars
  PROVE  [Motion!Next]_(Motion!motionVars)
<1>1. CASE ProfilerUpdate
  BY <1>1, UpdateMoves DEF Motion!Next
<1>2. ASSUME NEW complete \in BOOLEAN, publishServoState(complete),
             UNCHANGED <<profilerQueue, targetPositions, currentPositions>>
      PROVE  Motion!Next
  BY <1>2 DEF publishServoState, Motion!Next, Motion!Publish
<1>3. CASE ProfilerPublish
  BY <1>2, <1>3 DEF ProfilerPublish
<1>4. ASSUME NEW complete \in BOOLEAN, ProfilerResume(complete) PROVE Motion!Next
  BY <1>2, <1>4 DEF ProfilerResume
<1>5. ASSUME NEW command \in Commands, handleServoCommand(command)
      PROVE  [Motion!Next]_(Motion!motionVars)
  BY <1>5, CommandAccepted
<1>6. CASE ProfilerStall \/ ServoStep \/ Tick \/ UNCHANGED vars
  BY <1>6 DEF ProfilerStall, ServoStep, ServoReceive, ServoSetDuty, Tick, vars,
              profilerVars, servoVars, Motion!motionVars
<1> QED
  BY <1>1, <1>3, <1>4, <1>5, <1>6 DEF Next, ProfilerStep, CommandStep

(* Whatever the stalls, and whatever the host sends, the tasks do what     *)
(* ServoMotion says of safety: targets are taken in the order of the       *)
(* commands accepted, every update goes straight to its target, a status   *)
(* tells the positions.  (ImplementsMotion adds that updates go on.)       *)
THEOREM TasksMoveAsPromised ==
  Spec => Motion!Init /\ [][Motion!Next]_(Motion!motionVars)
<1>1. Init => Motion!Init
  BY DEF Init, Motion!Init, InitialPositions
<1>2. TypeOK /\ [Next]_vars => [Motion!Next]_(Motion!motionVars)
  BY StepOfMotion
<1> QED
  BY <1>1, <1>2, TypeCorrect, PTL DEF Spec
=============================================================================
