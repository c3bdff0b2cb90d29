--------------------------- MODULE CommandChannel ---------------------------
(***************************************************************************)
(* What the hardware component promises for the commands it accepts: they  *)
(* leave through the serial port one after the other, each at most once    *)
(* and in the order in which write() accepted them; a write that fails     *)
(* loses its packet.                                                       *)
(***************************************************************************)
EXTENDS Sequences

CONSTANTS
  Packet,
  NoPacket       (* nothing was transmitted yet                              *)

VARIABLES
  pending,       (* accepted, not transmitted                                *)
  transmitted    (* the last packet transmitted                              *)

channelVars == <<pending, transmitted>>

Init == pending = <<>> /\ transmitted = NoPacket

Accept ==
  /\ \E packet \in Packet : pending' = Append(pending, packet)
  /\ UNCHANGED transmitted

Transmit ==
  /\ pending # <<>>
  /\ transmitted' = Head(pending)
  /\ pending' = Tail(pending)

Lose ==
  /\ pending # <<>>
  /\ pending' = Tail(pending)
  /\ UNCHANGED transmitted

Next == Accept \/ Transmit \/ Lose

Spec == Init /\ [][Next]_channelVars
=============================================================================
