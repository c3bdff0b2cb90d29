------------------------------ MODULE ControlLoop ------------------------------
(***************************************************************************)
(* The loop as a whole: controllers command joints through the hardware    *)
(* component (CommandInterfaces), packets cross a line that may lose them, *)
(* the firmware moves the servos (ServoMotion, which FirmwareTasks         *)
(* implements) and reports them, and read shows the report as the state.   *)
(* The firmware may restart, and its decoder may be out of step with the   *)
(* packets (CommandLink shows how, byte by byte).  The threads of the      *)
(* component are in ServoHardware, the bytes and angles in ServoWire.      *)
(***************************************************************************)
EXTENDS CommandInterfaces

CONSTANTS
  Angle,         (* angles a servo can take                                  *)
  InitialAngle,
  MaxDelta,
  Depth,
  NoStatus,
  SyncFree,      (* packets with no sync byte behind their first byte        *)
  MaxFaults      (* bound on lost packets, cut statuses and restarts         *)

ASSUME AnglesAssumption == Stored \subseteq Angle /\ InitialAngle \in Angle

ASSUME SyncFreeAssumption == SyncFree \subseteq Packet

ASSUME BoundsAssumption == MaxFaults \in Nat /\ Depth \in Nat

VARIABLES
  line,                              (* the packet under way to the firmware *)
  inStep,                            (* its decoder waits where it begins    *)
  queue, target, position, status,   (* of the firmware                      *)
  state,                             (* the state handles                    *)
  faults

lineVars == <<line, inStep>>
firmwareVars == <<queue, target, position, status>>
vars == <<commandVars, lineVars, firmwareVars, state, faults>>

Firmware == INSTANCE ServoMotion WITH Channel <- Joint

Init ==
  /\ CommandInit
  /\ line = <<>>
  /\ inStep = TRUE
  /\ Firmware!Init
  /\ state = AllZero
  /\ faults = 0

-----------------------------------------------------------------------------
(* All interfaces are the component's, so a switch has no foreign names. *)
SwitchControllers ==
  /\ \E start \in SUBSET Joint, stop \in SUBSET Joint : ModeSwitch(start, stop, FALSE)
  /\ UNCHANGED <<lineVars, firmwareVars, state, faults>>

Cycle ==
  /\ ControlCycle
  /\ UNCHANGED <<lineVars, firmwareVars, state, faults>>

(* Slip: the packet that is sent stays in the queue. *)
SendPacketKept ==
  /\ line = <<>>
  /\ command_queue_ # <<>>
  /\ line' = <<Head(command_queue_)>>
  /\ UNCHANGED <<inStep, commandVars, firmwareVars, state, faults>>

(* The background thread sends the oldest packet. *)
SendPacket ==
  /\ line = <<>>
  /\ Pop
  /\ line' = <<Head(command_queue_)>>
  /\ UNCHANGED <<inStep, firmwareVars, state, faults>>

(* Slip: what is discarded is not counted off, and the decoder never gets  *)
(* back to the beginning of a packet.                                      *)
ResynchroniseNever(packet) == UNCHANGED inStep

(* A decoder in the middle of a packet ends it with the first bytes of the *)
(* next one, whose other bytes it discards unless they hold a sync byte:   *)
(* then it may begin another wrong packet.                                 *)
Resynchronise(packet) ==
  /\ inStep' \in BOOLEAN
  /\ inStep \/ packet \in SyncFree => inStep'

(* A packet is handled if the decoder is in step, and a full queue drops   *)
(* its target.                                                             *)
DeliverPacket ==
  /\ line # <<>>
  /\ line' = <<>>
  /\ IF inStep /\ Len(queue) < Depth THEN Firmware!Accept(Head(line))
                                     ELSE UNCHANGED firmwareVars
  /\ Resynchronise(Head(line))
  /\ UNCHANGED <<commandVars, state, faults>>

MoveServos == Firmware!Move /\ UNCHANGED <<commandVars, lineVars, state, faults>>

Publish ==
  /\ Firmware!Publish
  /\ status' # NoStatus
  /\ UNCHANGED <<commandVars, lineVars, state, faults>>

(* A status arrives, and read shows it. *)
ReadStatus ==
  /\ status # NoStatus
  /\ state' = [j \in Joint |-> IF j \in requested THEN status[j] ELSE state[j]]
  /\ UNCHANGED <<commandVars, lineVars, firmwareVars, faults>>

-----------------------------------------------------------------------------
Fault == faults < MaxFaults /\ faults' = faults + 1 /\ UNCHANGED <<commandVars, state>>

(* Bytes are lost or damaged, which may leave the decoder in mid-packet. *)
LosePacket ==
  /\ line # <<>>
  /\ line' = <<>>
  /\ inStep' \in BOOLEAN
  /\ Fault
  /\ UNCHANGED firmwareVars

(* A stalled write was cut short, or the line damaged the status. *)
LoseStatus ==
  /\ status' = NoStatus
  /\ Fault
  /\ UNCHANGED <<lineVars, queue, target, position>>

(* setup centres the servos again; the decoder begins anew, in step unless *)
(* a packet is half through.                                               *)
Restart ==
  /\ queue' = <<>>
  /\ target' = [j \in Joint |-> InitialAngle]
  /\ position' = target'
  /\ status' = NoStatus
  /\ inStep' \in BOOLEAN
  /\ line = <<>> => inStep'
  /\ Fault
  /\ UNCHANGED line

(* A cycle in which the controllers command what they commanded before, if *)
(* they may.                                                               *)
Repeat ==
  /\ Cycle
  /\ \A j \in Joint : command[j] \in HandleValues(j) => command'[j] = command[j]

Next ==
  \/ SwitchControllers \/ Cycle \/ SendPacket \/ DeliverPacket
  \/ MoveServos \/ Publish \/ ReadStatus
  \/ LosePacket \/ LoseStatus \/ Restart

(* Both sides run periodically, the thread and the line do their work.     *)
(* Fairness of Repeat, not of Cycle, makes no controller change what it    *)
(* commands; one that does so for ever is not what Settles is about.       *)
Fairness ==
  /\ WF_vars(Repeat)
  /\ WF_vars(SendPacket)
  /\ WF_vars(DeliverPacket)
  /\ WF_vars(MoveServos)
  /\ WF_vars(Publish)
  /\ WF_vars(ReadStatus)

Spec == Init /\ [][Next]_vars /\ Fairness

-----------------------------------------------------------------------------
(* The queues on both sides and the line hold packets and nothing else. *)
LoopTypeOK ==
  /\ CommandTypeOK
  /\ line \in {<<>>} \union {<<packet>> : packet \in Packet}
  /\ inStep \in BOOLEAN
  /\ queue \in Seq(Packet) /\ Len(queue) <= Depth
  /\ target \in [Joint -> Angle]
  /\ position \in [Joint -> Angle]
  /\ status \in [Joint -> Angle] \union {NoStatus}
  /\ state \in [Joint -> Angle]
  /\ faults \in 0 .. MaxFaults

(* Commands under way, the oldest first: accepted by the firmware, on the  *)
(* line, and queued by the hardware component.                             *)
UnderWay == queue \o line \o command_queue_

Way == INSTANCE LossyChannel WITH
         NoPacket <- [j \in Joint |-> InitialAngle], pending <- UnderWay, transmitted <- target

(* The servos' targets are commands that write accepted in its cycles, in  *)
(* the order in which it accepted them and none twice, whatever is lost on *)
(* the line, dropped at a full queue or forgotten in a restart             *)
(* (servo_hardware.cpp:295-299, 481-490, main.cpp:347-374).                *)
OrderKept ==
  /\ Way!LossySpec
  /\ [][Len(UnderWay') > Len(UnderWay) => Cycle]_vars

(* The commands of all joints stay what they are, a controller goes on     *)
(* commanding one of them, the controllers are no longer switched, and the *)
(* repeated packet holds no sync byte or the decoder is in step in the end.*)
Held(packet) ==
  /\ <>[](servo_command = packet /\ Commanded(command) # {})
  /\ ~ []<><<SwitchControllers>>_vars
  /\ packet \in SyncFree \/ <>[]inStep

(* Whatever packets are lost on the line or dropped at a full queue, and   *)
(* also if the firmware restarts in the middle of a packet: as long as     *)
(* commands are held, all servos come to where they are commanded, stay    *)
(* there and are shown there (servo_hardware.cpp:264-299: every cycle      *)
(* repeats the command, and every packet carries all joints).  A packet    *)
(* with a sync byte that finds the decoder out of step may never be        *)
(* handled (main.cpp:332-345): the run command_lockout.                    *)
Settles == \A packet \in Packet : Held(packet) => <>[](position = packet /\ state = packet)
=============================================================================
