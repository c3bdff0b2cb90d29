------------------------------ MODULE MCServoWire ------------------------------
(***************************************************************************)
(* Angles around the places where something changes: zero, the servo's     *)
(* limit, a full turn, and a carry between the two bytes of a value.       *)
(* Damage: every single bit, pairs of bits at every distance, and bursts   *)
(* of up to sixteen bits, ends and middle.                                 *)
(***************************************************************************)
EXTENDS ServoWire

Around(angle) ==
  { <<angle - 3, angle - 2, angle - 1, angle>>, <<angle + 3, angle + 2, angle + 1, angle>> }

MCCommands ==
  UNION { Around(angle) : angle \in {0, 4 * 256, Pi, TwoPi} } \union { <<-9, 40000, 200000, 300000>> }

MCMoves == {-1, 0, 2}

Bit == 0 .. 95

MCDamage ==
  { {bit} : bit \in Bit }
    \union { {3, bit} : bit \in Bit } \union { {bit, 88} : bit \in Bit }
    \union { (bit .. bit + 15) : bit \in {4 * n : n \in 0 .. 20} }
    \union { {bit, bit + 7, bit + 8, bit + 15} : bit \in {8 * n + 1 : n \in 0 .. 9} }
=============================================================================
