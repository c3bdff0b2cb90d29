------------------------ MODULE CommandInterfacesProofs ------------------------
(***************************************************************************)
(* CommandInterfaces for any set of joints, any robot description and any  *)
(* length of the queue.                                                    *)
(***************************************************************************)
EXTENDS CommandInterfaces, SequenceTheorems, TLAPS

(* A command of a joint that is stored comes from its handle, in a cycle   *)
(* in which the joint is claimed and not delayed.                          *)
LEMMA StoredCommand ==
  ASSUME CommandTypeOK, [CommandNext]_commandVars, NEW j \in Joint,
         servo_command'[j] # servo_command[j]
  PROVE  /\ j \in requested \intersect claimed /\ ~ post_claim_delay[j] > 0
         /\ servo_command'[j] \in HandleValues(j) \ {NaN}
<1>1. ASSUME NEW start, NEW stop, NEW foreign, ModeSwitch(start, stop, foreign)
      PROVE  UNCHANGED servo_command
  BY <1>1 DEF ModeSwitch
<1>2. CASE ControlCycle
  <2>1. PICK values \in [Joint -> Handle] :
          (\A i \in Joint : values[i] \in HandleValues(i)) /\ write(values)
    BY <1>2 DEF ControlCycle
  <2>2. /\ j \in Commanded(values) /\ ~ post_claim_delay[j] > 0
        /\ servo_command'[j] = values[j]
    BY <2>1 DEF write
  <2> QED
    BY <2>1, <2>2 DEF Commanded
<1>3. ASSUME Pop \/ UNCHANGED commandVars PROVE UNCHANGED servo_command
  BY <1>3 DEF Pop, commandVars
<1> QED
  BY <1>1, <1>2, <1>3 DEF CommandNext, SwitchStep

(* The queue takes a packet only if it has room.                           *)
LEMMA QueueKeepsCapacity ==
  ASSUME NEW queue \in Seq(Packet), Len(queue) <= Capacity, NEW packet \in Packet
  PROVE  Push(queue, packet) \in Seq(Packet) /\ Len(Push(queue, packet)) <= Capacity
BY CapacityAssumption DEF Push

(* Nothing is claimed or queued at first, and every value is 0.0.          *)
LEMMA CommandTypesStart ==
  ASSUME CommandInit
  PROVE  CommandTypeOK
<1>1. requested \subseteq Joint
  BY DEF CommandInit, Requests
<1>2. command \in [Joint -> Handle] /\ servo_command \in Packet
  BY DEF CommandInit, AllZero, Packet, Handle, Stored
<1>3. command_queue_ \in Seq(Packet) /\ Len(command_queue_) <= Capacity
  BY CapacityAssumption DEF CommandInit
<1>4. post_claim_delay \in [Joint -> 0 .. 1]
  BY DEF CommandInit
<1> QED
  BY <1>1, <1>2, <1>3, <1>4 DEF CommandInit, CommandTypeOK

(* No switch, cycle or pop takes a variable out of its kind.               *)
LEMMA CommandTypesStep ==
  ASSUME CommandTypeOK, [CommandNext]_commandVars
  PROVE  CommandTypeOK'
<1>1. ASSUME NEW start \in SUBSET Joint, NEW stop \in SUBSET Joint, NEW foreign \in BOOLEAN,
             ModeSwitch(start, stop, foreign)
      PROVE  CommandTypeOK'
  <2>1. PICK started \in Claims(start, stop, foreign) : Switch(started, stop)
    BY <1>1 DEF ModeSwitch
  <2>2. started \subseteq start /\ start \subseteq requested /\ stop \subseteq owned
    BY <1>1, <2>1 DEF Claims, ModeSwitch
  <2>3. claimed' \subseteq requested /\ post_claim_delay' \in [Joint -> 0 .. 1]
    BY <2>1, <2>2 DEF CommandTypeOK, Switch
  <2>4. owned' \subseteq requested /\ settled' \subseteq owned'
    BY <1>1, <2>2 DEF CommandTypeOK, ModeSwitch, controllerVars
  <2>5. UNCHANGED <<requested, command, servo_command, command_queue_>>
    BY <1>1 DEF ModeSwitch
  <2> QED
    BY <2>3, <2>4, <2>5 DEF CommandTypeOK
<1>2. CASE ControlCycle
  <2>1. PICK values \in [Joint -> Handle] : command' = values /\ write(values)
    BY <1>2 DEF ControlCycle
  <2>2. servo_command' \in Packet
    BY <2>1 DEF write, Commanded, CommandTypeOK, Packet, Handle
  <2>3. post_claim_delay' \in [Joint -> 0 .. 1]
    BY <2>1 DEF write, CommandTypeOK
  <2>4. command_queue_' \in Seq(Packet) /\ Len(command_queue_') <= Capacity
    BY <2>1, <2>2, QueueKeepsCapacity DEF write, CommandTypeOK
  <2>5. UNCHANGED <<requested, claimed, owned>> /\ settled' = owned
    BY <1>2, <2>1 DEF ControlCycle, write
  <2> QED
    BY <2>1, <2>2, <2>3, <2>4, <2>5 DEF CommandTypeOK
<1>3. CASE Pop
  <2>1. command_queue_' \in Seq(Packet) /\ Len(command_queue_') <= Capacity
    BY <1>3, CapacityAssumption DEF Pop, CommandTypeOK
  <2> QED
    BY <1>3, <2>1 DEF Pop, CommandTypeOK, claimVars, controllerVars
<1>4. CASE UNCHANGED commandVars
  BY <1>4 DEF CommandTypeOK, commandVars, claimVars, controllerVars
<1> QED
  BY <1>1, <1>2, <1>3, <1>4 DEF CommandNext, SwitchStep

(* Type correctness, among it: only requested joints are ever claimed, and *)
(* the queue never holds more than it can (servo_hardware.cpp:304-344).    *)
THEOREM TypeCorrect == CommandSpec => []CommandTypeOK
<1>1. CommandInit => CommandTypeOK
  BY CommandTypesStart
<1>2. CommandTypeOK /\ [CommandNext]_commandVars => CommandTypeOK'
  BY CommandTypesStep
<1> QED
  BY <1>1, <1>2, PTL DEF CommandSpec

(* A step keeps the delay armed: a claim arms it, and a cycle that spends  *)
(* it ends the first cycle of the controller.                              *)
LEMMA DelayArmedStep ==
  ASSUME CommandTypeOK, DelayArmed, [CommandNext]_commandVars
  PROVE  DelayArmed'
<1>1. ASSUME NEW start \in SUBSET Joint, NEW stop \in SUBSET Joint, NEW foreign \in BOOLEAN,
             ModeSwitch(start, stop, foreign)
      PROVE  DelayArmed'
  <2>1. PICK started \in Claims(start, stop, foreign) : Switch(started, stop)
    BY <1>1 DEF ModeSwitch
  <2>2. \A j \in Joint : post_claim_delay[j] = 1 => post_claim_delay'[j] = 1
    BY <2>1 DEF Switch
  <2>3. CASE SwitchFails(start, stop, foreign)
    BY <1>1, <2>2, <2>3 DEF ModeSwitch, DelayArmed, controllerVars, CommandTypeOK
  <2>4. CASE ~ SwitchFails(start, stop, foreign)
    <3>1. \A j \in start : post_claim_delay'[j] = 1
      BY <2>1, <2>4 DEF Claims, Switch
    <3>2. owned' \ settled' \subseteq start \union (owned \ settled)
      BY <1>1, <2>4 DEF ModeSwitch
    <3> QED
      BY <2>2, <3>1, <3>2 DEF DelayArmed, CommandTypeOK
  <2> QED
    BY <2>3, <2>4
<1>2. CASE ControlCycle
  BY <1>2 DEF ControlCycle, DelayArmed
<1>3. CASE Pop \/ UNCHANGED commandVars
  BY <1>3 DEF Pop, commandVars, claimVars, controllerVars, DelayArmed
<1> QED
  BY <1>1, <1>2, <1>3 DEF CommandNext, SwitchStep

(* The delay of a joint is armed from the claim to the end of the first    *)
(* cycle of its controller, also if a switch fails in between.             *)
LEMMA DelayIsArmed == CommandSpec => []DelayArmed
<1>1. CommandInit => DelayArmed
  BY DEF CommandInit, DelayArmed
<1>2. CommandTypeOK /\ DelayArmed /\ [CommandNext]_commandVars => DelayArmed'
  BY DelayArmedStep
<1> QED
  BY <1>1, <1>2, TypeCorrect, PTL DEF CommandSpec

(* What a step stores for a joint with a controller is in range: its delay *)
(* is not armed, so its first cycle is over.                               *)
LEMMA FirstZeroStep ==
  ASSUME CommandTypeOK, DelayArmed, [CommandNext]_commandVars,
         NEW j \in owned, servo_command'[j] # servo_command[j]
  PROVE  servo_command'[j] \in Position
<1>1. j \in Joint /\ j \in requested
  BY DEF CommandTypeOK
<1>2. ~ post_claim_delay[j] > 0 /\ servo_command'[j] \in HandleValues(j) \ {NaN}
  BY <1>1, StoredCommand
<1>3. j \in settled
  BY <1>2 DEF DelayArmed
<1> QED
  BY <1>1, <1>2, <1>3 DEF HandleValues

(* Whatever order switches, failed switches, cycles and pops come in, what *)
(* is stored for a joint with a controller is a position in range, never   *)
(* the 0.0 of the first cycle (servo_hardware.cpp:272-282, 329-333).       *)
THEOREM FirstZeroIsIgnored == CommandSpec => FirstZeroIgnored
<1>1. CommandTypeOK /\ DelayArmed /\ [CommandNext]_commandVars =>
        [\A j \in owned :
           servo_command'[j] # servo_command[j] => servo_command'[j] \in Position]_commandVars
  BY FirstZeroStep
<1> QED
  BY <1>1, TypeCorrect, DelayIsArmed, PTL DEF CommandSpec, FirstZeroIgnored

(* A joint whose interface nobody has claimed keeps its value in the       *)
(* packets (servo_hardware.cpp:265-271).                                   *)
THEOREM OnlyClaimedJointsMove == CommandSpec => OnlyClaimedMove
<1>1. CommandTypeOK /\ [CommandNext]_commandVars =>
        [\A j \in Joint \ claimed : servo_command'[j] = servo_command[j]]_commandVars
  BY StoredCommand
<1> QED
  BY <1>1, TypeCorrect, PTL DEF CommandSpec, OnlyClaimedMove
=============================================================================
