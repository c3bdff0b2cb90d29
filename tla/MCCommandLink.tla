--------------------------- MODULE MCCommandLink ---------------------------
(***************************************************************************)
(* Bytes 0..3, packets of six bytes, a checksum of two bytes that never    *)
(* contains the sync byte.                                                 *)
(***************************************************************************)
EXTENDS CommandLink

MCCRC16(data) == << (data[1] + 2 * data[2] + data[3]) % 3, (data[2] + 2 * data[3]) % 3 >>

(* Commands without a sync byte, two of them alike but for one byte. *)
MCSyncFree == { <<0, 1>>, <<1, 2>>, <<0, 2>> }

(* One command, sent over and over, with a sync byte in its payload. *)
MCHoldsSync == { <<3, 1>> }

(* MCSyncFree keeps its promise. *)
ASSUME Commands = MCSyncFree => SyncFree
=============================================================================
