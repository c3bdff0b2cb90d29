------------------------------ MODULE ServoMotion ------------------------------
(***************************************************************************)
(* What the firmware promises, whatever its tasks do in between: commands  *)
(* become targets one after the other, in the order in which they were     *)
(* accepted; every servo goes straight to its target, at most MaxDelta at  *)
(* a time, and a status tells where the servos are.                        *)
(***************************************************************************)
EXTENDS Integers, Sequences

CONSTANTS
  Channel,
  Angle,         (* angles a servo can take                                  *)
  InitialAngle,
  MaxDelta,
  Depth,         (* commands that wait at most                               *)
  NoStatus

VARIABLES
  queue,         (* targets accepted                                         *)
  target,
  position,
  status         (* the last one published, NoStatus if it is incomplete     *)

motionVars == <<queue, target, position, status>>

Positions == [Channel -> Angle]

Init ==
  /\ queue = <<>>
  /\ target = [c \in Channel |-> InitialAngle]
  /\ position = target
  /\ status = NoStatus

Accept(targets) ==
  /\ Len(queue) < Depth
  /\ queue' = Append(queue, targets)
  /\ UNCHANGED <<target, position, status>>

(* From a to b, straight towards goal and at most MaxDelta far. *)
Towards(a, b, goal) ==
  IF a <= goal THEN /\ a <= b /\ b <= goal /\ b - a <= MaxDelta
                    /\ b = goal \/ b - a = MaxDelta
               ELSE /\ goal <= b /\ b <= a /\ a - b <= MaxDelta
                    /\ b = goal \/ a - b = MaxDelta

(* One update: the oldest target is taken, if there is one. *)
Move ==
  /\ IF queue = <<>> THEN UNCHANGED <<queue, target>>
                     ELSE queue' = Tail(queue) /\ target' = Head(queue)
  /\ position' \in Positions
  /\ \A c \in Channel : Towards(position[c], position'[c], target'[c])
  /\ UNCHANGED status

Publish ==
  /\ status' \in {position, NoStatus}
  /\ UNCHANGED <<queue, target, position>>

Next ==
  \/ \E targets \in Positions : Accept(targets)
  \/ Move
  \/ Publish

Fairness == WF_motionVars(Move)

Spec == Init /\ [][Next]_motionVars /\ Fairness
=============================================================================
