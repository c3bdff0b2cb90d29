--------------------------- MODULE FirmwareDecoder ---------------------------
(***************************************************************************)
(* The firmware's decoder, serialStreamDecoder in servo_embedded/src/      *)
(* main.cpp: a state machine fed one byte at a time.  Unlike the host's it *)
(* never looks at a byte twice: a byte taken for the start of a packet     *)
(* commits the machine to the FrameSize - 1 bytes that follow.             *)
(***************************************************************************)
EXTENDS Framing

CONSTANT NoCommand     (* the last byte completed no valid command           *)

ASSUME NoCommandAssumption == NoCommand \notin Payload

VARIABLES
  decoderState,
  payloadBuffer,       (* packet type and payload                            *)
  crcBuffer,
  byteIndex,
  dispatched           (* payload given to handleServoCommand by the last    *)
                       (* byte, or NoCommand                                 *)

decoderVars == <<decoderState, payloadBuffer, crcBuffer, byteIndex, dispatched>>

(* The buffers are static: they start with zeros, which is SERVO_COMMAND.  *)
DecoderInit ==
  /\ decoderState = "WAITING_FOR_START"
  /\ payloadBuffer = [i \in 0 .. PayloadSize |-> CommandId]
  /\ crcBuffer = [i \in 0 .. CrcSize - 1 |-> CommandId]
  /\ byteIndex = 0
  /\ dispatched = NoCommand

(* The contents of a buffer as a sequence of n bytes. *)
Bytes(buffer, n) == [i \in 1 .. n |-> buffer[i - 1]]

WaitForStart(byte) ==
  /\ decoderState = "WAITING_FOR_START"
  /\ decoderState' = IF byte = SyncByte THEN "READING_PAYLOAD" ELSE decoderState
  /\ byteIndex' = IF byte = SyncByte THEN 0 ELSE byteIndex
  /\ dispatched' = NoCommand
  /\ UNCHANGED <<payloadBuffer, crcBuffer>>

(* Slips: the bound is off by one; byteIndex is not reset for the CRC; a   *)
(* sync byte in the payload starts the packet afresh; a packet of another  *)
(* type is given up at once.                                               *)
ReadPayloadOverrun(byte) ==
  /\ decoderState = "READING_PAYLOAD"
  /\ payloadBuffer' = [payloadBuffer EXCEPT ![byteIndex] = byte]
  /\ decoderState' = IF byteIndex + 1 > PayloadSize + 1 THEN "READING_CRC"
                                                        ELSE decoderState
  /\ byteIndex' = IF byteIndex + 1 > PayloadSize + 1 THEN 0 ELSE byteIndex + 1
  /\ dispatched' = NoCommand
  /\ UNCHANGED crcBuffer

ReadPayloadNoReset(byte) ==
  /\ decoderState = "READING_PAYLOAD"
  /\ payloadBuffer' = [payloadBuffer EXCEPT ![byteIndex] = byte]
  /\ decoderState' = IF byteIndex + 1 >= PayloadSize + 1 THEN "READING_CRC"
                                                         ELSE decoderState
  /\ byteIndex' = byteIndex + 1
  /\ dispatched' = NoCommand
  /\ UNCHANGED crcBuffer

ReadPayloadRestart(byte) ==
  /\ decoderState = "READING_PAYLOAD"
  /\ payloadBuffer' = [payloadBuffer EXCEPT ![byteIndex] = byte]
  /\ decoderState' = IF byte # SyncByte /\ byteIndex + 1 >= PayloadSize + 1
                     THEN "READING_CRC" ELSE decoderState
  /\ byteIndex' = IF byte = SyncByte \/ byteIndex + 1 >= PayloadSize + 1
                  THEN 0 ELSE byteIndex + 1
  /\ dispatched' = NoCommand
  /\ UNCHANGED crcBuffer

(* Packet type and payload are stored until there is room for no more. *)
ReadPayload(byte) ==
  /\ decoderState = "READING_PAYLOAD"
  /\ payloadBuffer' = [payloadBuffer EXCEPT ![byteIndex] = byte]
  /\ decoderState' = IF byteIndex + 1 >= PayloadSize + 1 THEN "READING_CRC"
                                                         ELSE decoderState
  /\ byteIndex' = IF byteIndex + 1 >= PayloadSize + 1 THEN 0 ELSE byteIndex + 1
  /\ dispatched' = NoCommand
  /\ UNCHANGED crcBuffer

(* Slip: the CRC is not checked. *)
AcceptsAnyCrc(payload, crc) == payload[0] = CommandId

(* The packet in the buffers is valid and of a type the firmware handles.  *)
AcceptsPacket(payload, crc) ==
  /\ Bytes(crc, CrcSize) = CRC16(Bytes(payload, PayloadSize + 1))
  /\ payload[0] = CommandId

(* Slip: only a valid packet ends the reading of a CRC. *)
ReadCrcAgain(byte) ==
  /\ decoderState = "READING_CRC"
  /\ crcBuffer' = [crcBuffer EXCEPT ![byteIndex] = byte]
  /\ byteIndex' = (byteIndex + 1) % CrcSize
  /\ IF byteIndex + 1 >= CrcSize /\ AcceptsPacket(payloadBuffer, crcBuffer')
     THEN /\ decoderState' = "WAITING_FOR_START"
          /\ dispatched' = [i \in 1 .. PayloadSize |-> payloadBuffer[i]]
     ELSE /\ dispatched' = NoCommand
          /\ UNCHANGED decoderState
  /\ UNCHANGED payloadBuffer

(* The last byte of the CRC ends the packet, whether it is valid or not.   *)
ReadCrc(byte) ==
  /\ decoderState = "READING_CRC"
  /\ crcBuffer' = [crcBuffer EXCEPT ![byteIndex] = byte]
  /\ IF byteIndex + 1 >= CrcSize
     THEN /\ decoderState' = "WAITING_FOR_START"
          /\ byteIndex' = 0
          /\ dispatched' = IF AcceptsPacket(payloadBuffer, crcBuffer')
                           THEN [i \in 1 .. PayloadSize |-> payloadBuffer[i]]
                           ELSE NoCommand
     ELSE /\ byteIndex' = byteIndex + 1
          /\ dispatched' = NoCommand
          /\ UNCHANGED decoderState
  /\ UNCHANGED payloadBuffer

serialStreamDecoder(byte) ==
  WaitForStart(byte) \/ ReadPayload(byte) \/ ReadCrc(byte)

(* In particular no write ever leaves its buffer. *)
DecoderTypeOK ==
  /\ decoderState \in {"WAITING_FOR_START", "READING_PAYLOAD", "READING_CRC"}
  /\ payloadBuffer \in [0 .. PayloadSize -> Byte]
  /\ crcBuffer \in [0 .. CrcSize - 1 -> Byte]
  /\ byteIndex \in Nat
  /\ decoderState = "WAITING_FOR_START" => byteIndex = 0
  /\ decoderState = "READING_PAYLOAD" => byteIndex \in DOMAIN payloadBuffer
  /\ decoderState = "READING_CRC" => byteIndex \in DOMAIN crcBuffer
  /\ dispatched \in Payload \union {NoCommand}
=============================================================================
