--------------------------- MODULE MCFirmwareTasks ---------------------------
(* Values of the constants of FirmwareTasks for TLC. *)
EXTENDS FirmwareTasks

(* A command as the tuple of its raw angles. *)
Raw(f) == [c \in Channel |-> f[c + 1]]

(* Two servos sent to opposite ends, one raw angle beyond the range, and   *)
(* to a place less than one update away from the centre.                   *)
MCTwoServos == { Raw(<<0, 12>>), Raw(<<6, 1>>) }
=============================================================================
