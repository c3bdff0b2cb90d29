------------------------------- MODULE Framing -------------------------------
(***************************************************************************)
(* The packets exchanged between the ROS 2 host and the firmware:          *)
(*                                                                         *)
(*    sync byte | packet type | payload | CRC of packet type and payload   *)
(*                                                                         *)
(* A stream is a sequence of bytes and a place in it an index from 1.  The *)
(* sizes and the CRC are parameters: two bytes of CRC-16/CCITT-FALSE and   *)
(* eight bytes of payload in the code, for both packet types.              *)
(***************************************************************************)
EXTENDS Integers, Sequences

CONSTANTS
  Byte,
  SyncByte,      (* 0xFF                                                     *)
  CommandId,     (* SERVO_COMMAND, 0x00                                      *)
  StatusId,      (* SERVO_STATUS, 0x28                                       *)
  PayloadSize,
  CrcSize,
  CRC16(_)       (* the CRC of a sequence of bytes, CrcSize bytes long       *)

PacketType == {CommandId, StatusId}

HeaderSize == 2

FrameSize == HeaderSize + PayloadSize + CrcSize

ASSUME BytesAssumption ==
  /\ SyncByte \in Byte
  /\ PacketType \subseteq Byte
  /\ CommandId # StatusId

ASSUME FrameAssumption ==
  /\ PayloadSize \in Nat \ {0}
  /\ CrcSize \in Nat \ {0}
  /\ \A data \in [1 .. PayloadSize + 1 -> Byte] : CRC16(data) \in [1 .. CrcSize -> Byte]

Payload == [1 .. PayloadSize -> Byte]

(* What the encoders send for a packet. *)
Frame(type, payload) ==
  <<SyncByte, type>> \o payload \o CRC16(<<type>> \o payload)

-----------------------------------------------------------------------------
(* What stands at place p of stream s. *)

(* Slip: one byte more than the packet has. *)
CompleteLate(s, p) == p + FrameSize <= Len(s)

(* The whole packet has arrived. *)
Complete(s, p) == p + FrameSize - 1 <= Len(s)

(* Packet type and payload, and the CRC received after them. *)
Body(s, p) == SubSeq(s, p + 1, p + HeaderSize + PayloadSize - 1)

ReceivedCrc(s, p) == SubSeq(s, p + HeaderSize + PayloadSize, p + FrameSize - 1)

(* The header bytes that have arrived are those of a known packet. *)
HeaderPossible(s, p) ==
  /\ s[p] = SyncByte
  /\ p + 1 <= Len(s) => s[p + 1] \in PacketType

ValidAt(s, p) ==
  /\ Complete(s, p)
  /\ HeaderPossible(s, p)
  /\ ReceivedCrc(s, p) = CRC16(Body(s, p))

(* Neither a packet nor the beginning of one. *)
InvalidAt(s, p) ==
  /\ p <= Len(s)
  /\ \/ ~ HeaderPossible(s, p)
     \/ Complete(s, p) /\ ReceivedCrc(s, p) # CRC16(Body(s, p))
=============================================================================
