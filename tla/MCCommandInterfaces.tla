------------------------- MODULE MCCommandInterfaces -------------------------
(* Values of the constants of CommandInterfaces for TLC; the joints are     *)
(* interchangeable.                                                         *)
EXTENDS CommandInterfaces, TLC

CONSTANT Unknown   (* a name the component does not have                     *)

(* All lists of up to two names, repeated and unknown ones among them. *)
MCDescriptions == UNION { [1 .. n -> Joint \union {Unknown}] : n \in 0 .. 2 }

JointSymmetry == Permutations(Joint)
=============================================================================
