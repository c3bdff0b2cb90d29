----------------------------- MODULE CommandLink -----------------------------
(***************************************************************************)
(* The host sends commands, one packet after the other, over a serial link *)
(* that may lose a byte, to the firmware's decoder; the firmware may also  *)
(* restart in the middle of a packet.  The host keeps sending: write()     *)
(* queues a packet in every control cycle in which a joint is commanded.   *)
(***************************************************************************)
EXTENDS FirmwareDecoder

CONSTANTS
  Commands,      (* payloads the host sends                                  *)
  MaxFaults      (* bound on lost bytes and restarts                         *)

ASSUME CommandsAssumption == Commands \subseteq Payload

ASSUME MaxFaultsAssumption == MaxFaults \in Nat

VARIABLES
  wire,          (* bytes of the current packet that are still under way     *)
  sent,          (* payload of the current packet                            *)
  faults,        (* faults so far                                            *)
  damaged,       (* a fault hit the current packet                           *)
  intact         (* packets, up to two, since the last fault                 *)

vars == <<decoderVars, wire, sent, faults, damaged, intact>>

Init ==
  /\ DecoderInit
  /\ wire = <<>>
  /\ sent = NoCommand
  /\ faults = 0
  /\ damaged = FALSE
  /\ intact = 0

SendCommand(payload) ==
  /\ wire = <<>>
  /\ wire' = Frame(CommandId, payload)
  /\ sent' = payload
  /\ damaged' = FALSE
  /\ UNCHANGED <<decoderVars, faults, intact>>

DeliverByte ==
  /\ wire # <<>>
  /\ serialStreamDecoder(Head(wire))
  /\ wire' = Tail(wire)
  /\ intact' = IF Len(wire) = 1 /\ ~ damaged /\ intact < 2 THEN intact + 1 ELSE intact
  /\ UNCHANGED <<sent, faults, damaged>>

LoseByte ==
  /\ faults < MaxFaults
  /\ wire # <<>>
  /\ wire' = Tail(wire)
  /\ faults' = faults + 1
  /\ damaged' = TRUE
  /\ intact' = 0
  /\ UNCHANGED <<decoderVars, sent>>

(* The firmware starts again with its static variables. *)
Restart ==
  /\ faults < MaxFaults
  /\ faults' = faults + 1
  /\ decoderState' = "WAITING_FOR_START"
  /\ byteIndex' = 0
  /\ dispatched' = NoCommand
  /\ payloadBuffer' = [i \in 0 .. PayloadSize |-> CommandId]
  /\ crcBuffer' = [i \in 0 .. CrcSize - 1 |-> CommandId]
  /\ damaged' = TRUE
  /\ intact' = 0
  /\ UNCHANGED <<wire, sent>>

Transfer == (\E payload \in Commands : SendCommand(payload)) \/ DeliverByte

Next == Transfer \/ LoseByte \/ Restart

(* The host sends and the link delivers without end. *)
Spec == Init /\ [][Next]_vars /\ WF_vars(Transfer)

-----------------------------------------------------------------------------
TypeOK ==
  /\ DecoderTypeOK
  /\ wire \in Seq(Byte) /\ Len(wire) <= FrameSize
  /\ sent \in Commands \union {NoCommand}
  /\ faults \in 0 .. MaxFaults
  /\ damaged \in BOOLEAN
  /\ intact \in 0 .. 2

(* No sync byte in a packet but its first byte. *)
SyncFree ==
  \A payload \in Commands :
    LET frame == Frame(CommandId, payload)
    IN  \A i \in 2 .. FrameSize : frame[i] # SyncByte

(* A fault costs at most the packet it hits and the one after it, if no    *)
(* other byte looks like a sync byte: the second of two undamaged packets  *)
(* is always handled, and as it was sent (main.cpp:329-376).               *)
SecondPacketHandled ==
  wire = <<>> /\ intact = 2 => dispatched = sent

(* Why it holds, as an inductive invariant.  What is under way is the rest *)
(* of the packet that was sent last.                                       *)
WireHoldsRest ==
  wire # <<>> =>
    /\ sent \in Commands
    /\ \A i \in 1 .. Len(wire) : wire[i] = Frame(CommandId, sent)[FrameSize - Len(wire) + i]

(* Bytes of the current packet that have left the wire.                    *)
Passed == IF wire = <<>> THEN 0 ELSE FrameSize - Len(wire)

(* Bytes the decoder has taken since a byte that looked like a start.      *)
Taken ==
  IF decoderState = "WAITING_FOR_START" THEN 0
  ELSE IF decoderState = "READING_PAYLOAD" THEN 1 + byteIndex
  ELSE HeaderSize + PayloadSize + byteIndex

(* While an undamaged packet passes, what the decoder had begun before it  *)
(* ends, and nothing begins inside it.                                     *)
BoundaryRegained ==
  /\ damaged => intact = 0
  /\ ~ damaged => IF wire = <<>> THEN Taken = 0 ELSE Passed = 0 \/ Taken = 0 \/ Passed <= Taken

(* After it the decoder takes the packets as they are sent.                *)
InStep ==
  intact > 0 =>
    /\ Taken = Passed
    /\ decoderState = "READING_PAYLOAD" =>
         \A i \in 0 .. byteIndex - 1 : payloadBuffer[i] = Frame(CommandId, sent)[i + 2]
    /\ decoderState = "READING_CRC" =>
         /\ \A i \in 0 .. PayloadSize : payloadBuffer[i] = Frame(CommandId, sent)[i + 2]
         /\ \A i \in 0 .. byteIndex - 1 :
              crcBuffer[i] = Frame(CommandId, sent)[PayloadSize + 3 + i]

LinkInv == TypeOK /\ WireHoldsRest

SyncInv == BoundaryRegained /\ InStep /\ SecondPacketHandled

(* The sync byte synchronises (PROTOCOL.md:27, "Used for packet            *)
(* synchronization"): after a fault commands get through again.            *)
Recovers == []<>(dispatched # NoCommand)
=============================================================================
