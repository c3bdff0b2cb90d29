-------------------------- MODULE CommandInterfaces --------------------------
(***************************************************************************)
(* The command side of the ros2_control hardware component, servo_hardware *)
(* /src/servo_hardware.cpp: which joints the robot description requests,   *)
(* which are claimed, what write() makes of the command handles, and the   *)
(* queue it fills.  Calls of the controller manager exclude each other, so *)
(* each is one action.                                                     *)
(*                                                                         *)
(* The controller manager and its controllers are external: before a joint *)
(* is claimed its handle may hold anything, after that an out-of-range 0.0 *)
(* for one cycle, and from then on a position in range or NaN              *)
(* (servo_hardware.hpp:186-192).                                           *)
(***************************************************************************)
EXTENDS Naturals, Sequences, Functions

CONSTANTS
  Joint,         (* the joints of the component, one for each servo          *)
  Descriptions,  (* the joints whose interfaces a robot description lists    *)
  Position,      (* positions in range                                       *)
  Zero,          (* 0.0, outside the range                                   *)
  NaN,           (* no command                                               *)
  Capacity       (* of command_queue_, ten in the code                       *)

ASSUME ValuesAssumption ==
  /\ Zero \notin Position
  /\ NaN \notin Position
  /\ NaN # Zero

ASSUME CapacityAssumption == Capacity \in Nat \ {0}

Stored == Position \union {Zero}
Handle == Stored \union {NaN}
Packet == [Joint -> Stored]

VARIABLES
  requested,           (* joints whose interfaces are requested              *)
  claimed,             (* joints whose interface is claimed                  *)
  post_claim_delay,
  command,             (* the command handles                                *)
  servo_command,       (* servo_0_command_ ... servo_3_command_              *)
  command_queue_,
  owned,               (* joints that an active controller commands          *)
  settled              (* owned joints whose first cycle is over             *)

claimVars == <<claimed, post_claim_delay>>
controllerVars == <<owned, settled>>
commandVars == <<requested, claimVars, command, servo_command, command_queue_, controllerVars>>

AllZero == [j \in Joint |-> Zero]

(* Slip: a joint may be listed twice, or be none of the component's. *)
RequestsAny(names) == TRUE

(* A listed interface that the component does not have, or that was listed *)
(* before, makes on_init fail, and the component is not used.              *)
Requests(names) == Range(names) \subseteq Joint /\ IsInjective(names)

(* on_init, on_configure: nothing is claimed and every value is 0.0. *)
CommandInit ==
  /\ \E names \in Descriptions : Requests(names) /\ requested = Range(names)
  /\ claimed = {}
  /\ post_claim_delay = [j \in Joint |-> 0]
  /\ command = AllZero
  /\ servo_command = AllZero
  /\ command_queue_ = <<>>
  /\ owned = {}
  /\ settled = {}

-----------------------------------------------------------------------------
(* perform_command_mode_switch.  The stopped joints are released first;    *)
(* then the joints to start are claimed one by one, and the first one that *)
(* is still claimed, or unknown, ends the call with an error: those before *)
(* it stay claimed.  foreign: a name of another component is on the list.  *)
SwitchFails(start, stop, foreign) ==
  foreign \/ start \intersect (claimed \ stop) # {}

Claims(start, stop, foreign) ==
  IF SwitchFails(start, stop, foreign) THEN SUBSET (start \ (claimed \ stop))
                                       ELSE {start}

(* Slip: no delay after a claim. *)
SwitchNoDelay(started, stop) ==
  /\ claimed' = (claimed \ stop) \union started
  /\ UNCHANGED post_claim_delay

Switch(started, stop) ==
  /\ claimed' = (claimed \ stop) \union started
  /\ post_claim_delay' =
       [j \in Joint |-> IF j \in started THEN 1 ELSE post_claim_delay[j]]

(* The controller manager starts controllers on joints nobody owns and     *)
(* stops controllers it has started, and changes them only if the switch   *)
(* succeeds.                                                               *)
ModeSwitch(start, stop, foreign) ==
  /\ stop \subseteq owned
  /\ start \subseteq requested
  /\ start \intersect (owned \ stop) = {}
  /\ \E started \in Claims(start, stop, foreign) : Switch(started, stop)
  /\ IF SwitchFails(start, stop, foreign)
     THEN UNCHANGED controllerVars
     ELSE /\ owned' = (owned \ stop) \union start
          /\ settled' = settled \ (start \union stop)
  /\ UNCHANGED <<requested, command, servo_command, command_queue_>>

-----------------------------------------------------------------------------
(* What a cycle may find in a handle. *)
HandleValues(j) ==
  IF j \notin requested THEN {command[j]}
  ELSE IF j \notin owned THEN Handle
  ELSE IF j \in settled THEN Position \union {NaN}
  ELSE {command[j], Zero, NaN}

(* Slip: write forwards a command whether or not its interface is claimed. *)
CommandedUnclaimed(values) == {j \in requested : values[j] # NaN}

(* Joints whose handle holds a command for a claimed interface. *)
Commanded(values) == {j \in requested \intersect claimed : values[j] # NaN}

(* Slip: the queue grows. *)
PushAlways(queue, packet) == Append(queue, packet)

(* LockFreeSPSCQueue::push: a full queue refuses the packet. *)
Push(queue, packet) ==
  IF Len(queue) < Capacity THEN Append(queue, packet) ELSE queue

(* Slip: only a packet with a new value is queued. *)
writeChanges(values) ==
  LET delayed == {j \in Commanded(values) : post_claim_delay[j] > 0}
      valid == Commanded(values) \ delayed
  IN  /\ post_claim_delay' =
           [j \in Joint |-> IF j \in delayed THEN post_claim_delay[j] - 1
                                             ELSE post_claim_delay[j]]
      /\ servo_command' =
           [j \in Joint |-> IF j \in valid THEN values[j] ELSE servo_command[j]]
      /\ command_queue_' = IF servo_command' # servo_command
                           THEN Push(command_queue_, servo_command') ELSE command_queue_
      /\ UNCHANGED <<requested, claimed>>

(* write: the delay swallows a command of the joint, every other command   *)
(* is stored, and if there was one a packet with all joints is queued.     *)
write(values) ==
  LET delayed == {j \in Commanded(values) : post_claim_delay[j] > 0}
      valid == Commanded(values) \ delayed
  IN  /\ post_claim_delay' =
           [j \in Joint |-> IF j \in delayed THEN post_claim_delay[j] - 1
                                             ELSE post_claim_delay[j]]
      /\ servo_command' =
           [j \in Joint |-> IF j \in valid THEN values[j] ELSE servo_command[j]]
      /\ command_queue_' = IF valid # {} THEN Push(command_queue_, servo_command')
                                         ELSE command_queue_
      /\ UNCHANGED <<requested, claimed>>

(* One cycle of the controller manager: update, then write. *)
ControlCycle ==
  \E values \in [Joint -> Handle] :
    /\ \A j \in Joint : values[j] \in HandleValues(j)
    /\ command' = values
    /\ write(values)
    /\ settled' = owned
    /\ UNCHANGED owned

(* The background thread takes the oldest packet. *)
Pop ==
  /\ command_queue_ # <<>>
  /\ command_queue_' = Tail(command_queue_)
  /\ UNCHANGED <<requested, claimVars, command, servo_command, controllerVars>>

SwitchStep ==
  \E start \in SUBSET Joint, stop \in SUBSET Joint, foreign \in BOOLEAN :
    ModeSwitch(start, stop, foreign)

CommandNext == SwitchStep \/ ControlCycle \/ Pop

CommandSpec == CommandInit /\ [][CommandNext]_commandVars

-----------------------------------------------------------------------------
(* Claims and commands are of their kinds and the queue keeps its capacity. *)
CommandTypeOK ==
  /\ requested \subseteq Joint
  /\ claimed \subseteq requested
  /\ post_claim_delay \in [Joint -> 0 .. 1]
  /\ command \in [Joint -> Handle]
  /\ servo_command \in Packet
  /\ command_queue_ \in Seq(Packet) /\ Len(command_queue_) <= Capacity
  /\ owned \subseteq requested
  /\ settled \subseteq owned

(* The delay works: whatever mix of switches, failed switches and cycles   *)
(* without a command, the 0.0 of the first cycle after a claim is never    *)
(* stored as the command of a joint a controller owns (cpp:272-282, 329-   *)
(* 333).                                                                   *)
FirstZeroIgnored ==
  [][\A j \in owned :
       servo_command'[j] # servo_command[j] => servo_command'[j] \in Position]_commandVars

(* Why it works, as the inductive invariant: the delay of a joint is armed *)
(* until the first cycle of its controller is over.                        *)
DelayArmed == \A j \in owned \ settled : post_claim_delay[j] = 1

(* A joint that no controller claims stands still: its value in the        *)
(* packets changes only in a cycle in which its interface is claimed.      *)
OnlyClaimedMove ==
  [][\A j \in Joint \ claimed : servo_command'[j] = servo_command[j]]_commandVars

(* A joint is not sent the out-of-range 0.0 in the first cycle after its   *)
(* claim (servo_hardware.cpp:331-332, "the CM seems to give an out-range   *)
(* 0.0 command on the first cycle after claiming, so we set a delay to     *)
(* ignore it").                                                            *)
ZeroNotSent ==
  [][Len(command_queue_') > Len(command_queue_) =>
       \A j \in owned \ settled :
         command_queue_'[Len(command_queue_')][j] # Zero]_commandVars

(* claimed tells "Whether this interface is currently claimed by a         *)
(* controller" (servo_hardware.hpp:184).                                   *)
ClaimedByController == claimed = owned
=============================================================================
