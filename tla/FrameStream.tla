----------------------------- MODULE FrameStream -----------------------------
(***************************************************************************)
(* What a decoder of the host promises, without buffer, chunks or erasing: *)
(* a cursor walks the whole stream that ever arrived; it takes the packet  *)
(* it stands on and continues behind it, or else moves on by one byte.     *)
(***************************************************************************)
EXTENDS Framing

VARIABLES
  stream,        (* all bytes that have arrived                              *)
  cursor,        (* place of the first byte not yet decided about            *)
  frames         (* places of the packets taken, in order                    *)

streamVars == <<stream, cursor, frames>>

Init == stream = <<>> /\ cursor = 1 /\ frames = <<>>

Arrive ==
  /\ Len(stream) <= Len(stream')
  /\ SubSeq(stream', 1, Len(stream)) = stream
  /\ UNCHANGED <<cursor, frames>>

Take ==
  /\ ValidAt(stream, cursor)
  /\ frames' = Append(frames, cursor)
  /\ cursor' = cursor + FrameSize
  /\ UNCHANGED stream

Skip ==
  /\ InvalidAt(stream, cursor)
  /\ cursor' = cursor + 1
  /\ UNCHANGED <<stream, frames>>

Next == Arrive \/ Take \/ Skip

Spec == Init /\ [][Next]_streamVars /\ WF_streamVars(Take \/ Skip)
=============================================================================
