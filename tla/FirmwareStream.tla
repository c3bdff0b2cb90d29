--------------------------- MODULE FirmwareStream ---------------------------
(***************************************************************************)
(* The firmware's decoder and the history of the stream it was given.      *)
(***************************************************************************)
EXTENDS FirmwareDecoder

CONSTANT MaxStream     (* bound on the length of the stream                  *)

ASSUME MaxStreamAssumption == MaxStream \in Nat

VARIABLES
  received,      (* every byte given to the decoder                          *)
  start,         (* place of the sync byte of the packet being read          *)
  accepted       (* places of the packets dispatched, in order               *)

vars == <<decoderVars, received, start, accepted>>

Init ==
  /\ DecoderInit
  /\ received = <<>>
  /\ start = 0
  /\ accepted = <<>>

(* The reader task passes on the next byte. *)
ReadByte(byte) ==
  /\ Len(received) < MaxStream
  /\ serialStreamDecoder(byte)
  /\ received' = Append(received, byte)
  /\ start' = IF decoderState = "WAITING_FOR_START" /\ byte = SyncByte
              THEN Len(received) + 1 ELSE start
  /\ accepted' = IF dispatched' # NoCommand THEN Append(accepted, start) ELSE accepted

Next == \E byte \in Byte : ReadByte(byte)

Spec == Init /\ [][Next]_vars

-----------------------------------------------------------------------------
TypeOK ==
  /\ DecoderTypeOK
  /\ received \in Seq(Byte)
  /\ start \in 0 .. Len(received)
  /\ accepted \in Seq(1 .. Len(received))

(* The buffers hold the bytes that follow the packet's sync byte, in order *)
(* and without a gap.                                                      *)
BuffersHoldStream ==
  /\ decoderState # "WAITING_FOR_START" => start > 0 /\ received[start] = SyncByte
  /\ decoderState = "READING_PAYLOAD" =>
       /\ Len(received) = start + byteIndex
       /\ \A i \in 0 .. byteIndex - 1 : payloadBuffer[i] = received[start + 1 + i]
  /\ decoderState = "READING_CRC" =>
       /\ Len(received) = start + PayloadSize + 1 + byteIndex
       /\ \A i \in 0 .. PayloadSize : payloadBuffer[i] = received[start + 1 + i]
       /\ \A i \in 0 .. byteIndex - 1 :
            crcBuffer[i] = received[start + PayloadSize + 2 + i]

CommandAt(s, p) == ValidAt(s, p) /\ s[p + 1] = CommandId

(* Every command handled stands as a valid packet in the stream, and no    *)
(* byte is used twice: stale bytes left in the static buffers never become *)
(* part of a command (main.cpp:339-372).                                   *)
OnlyValidCommands ==
  \A k \in DOMAIN accepted :
    /\ CommandAt(received, accepted[k])
    /\ k > 1 => accepted[k - 1] + FrameSize <= accepted[k]

(* Inductive part of OnlyValidCommands: the packets handled lie before the *)
(* packet being read.                                                      *)
AcceptedBefore ==
  \A k \in DOMAIN accepted :
    accepted[k] + FrameSize <=
      IF decoderState = "WAITING_FOR_START" THEN Len(received) + 1 ELSE start

(* n bytes are a whole number of packets. *)
WholePackets(n) == \E k \in 0 .. n : n = k * FrameSize

(* A sync byte stands wherever a packet of an undisturbed stream begins.   *)
Aligned ==
  \A p \in 1 .. Len(received) : WholePackets(p - 1) => received[p] = SyncByte

(* Sync bytes inside packets, corrupted packets and packets of other types *)
(* do not cost the decoder its place: as long as packets follow each other *)
(* without a lost or an added byte, every valid command is handled.        *)
InSync ==
  Aligned =>
    \A p \in 1 .. Len(received) :
      WholePackets(p - 1) /\ CommandAt(received, p) =>
        \E k \in DOMAIN accepted : accepted[k] = p

(* The decoder keeps its place: between packets it is at a boundary.       *)
KeepsPlace ==
  Aligned =>
    WholePackets(IF decoderState = "WAITING_FOR_START" THEN Len(received) ELSE start - 1)
=============================================================================
