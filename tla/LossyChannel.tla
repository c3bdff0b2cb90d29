----------------------------- MODULE LossyChannel -----------------------------
(***************************************************************************)
(* What remains of CommandChannel over the whole way from write() to the   *)
(* servos.  A packet may also be lost in the middle of the way, and a      *)
(* restart of the receiver forgets what the receiver had accepted; but no  *)
(* packet is used twice, none is made up, and none overtakes another.      *)
(***************************************************************************)
EXTENDS CommandChannel, Naturals

(* The packet lost need not be the oldest one. *)
LoseAny ==
  /\ \E k \in 1 .. Len(pending) :
       pending' = SubSeq(pending, 1, k - 1) \o SubSeq(pending, k + 1, Len(pending))
  /\ UNCHANGED transmitted

(* The receiver starts again without the oldest k packets. *)
Forget ==
  /\ \E k \in 0 .. Len(pending) : pending' = SubSeq(pending, k + 1, Len(pending))
  /\ transmitted' = NoPacket

LossyNext == Next \/ LoseAny \/ Forget

LossySpec == Init /\ [][LossyNext]_channelVars
=============================================================================
