--------------------------- MODULE CommandLinkProofs ---------------------------
(***************************************************************************)
(* CommandLink for every alphabet, packet size and CRC, for any commands   *)
(* and any number of faults.                                               *)
(***************************************************************************)
EXTENDS CommandLink, SequenceTheorems, TLAPS

LEMMA Sizes ==
  /\ PayloadSize \in Nat \ {0} /\ CrcSize \in Nat \ {0}
  /\ FrameSize \in Nat /\ FrameSize = PayloadSize + CrcSize + 2
BY FrameAssumption DEF FrameSize, HeaderSize

(* A sequence of n bytes.                                                  *)
IsBytes(s, n) == s \in Seq(Byte) /\ Len(s) = n

(* s consists of the m bytes of a and the n bytes of b.                    *)
HasParts(s, a, m, b, n) ==
  /\ IsBytes(s, m + n)
  /\ \A i \in 1 .. m : s[i] = a[i]
  /\ \A i \in 1 .. n : s[m + i] = b[i]

(* Two sequences after each other.                                         *)
LEMMA TwoParts ==
  ASSUME NEW a, NEW b, NEW m \in Nat, NEW n \in Nat, IsBytes(a, m), IsBytes(b, n)
  PROVE  HasParts(a \o b, a, m, b, n)
<1>1. PICK c : c = a \o b
  OBVIOUS
<1>2. a \in Seq(Byte) /\ b \in Seq(Byte) /\ Len(a) = m /\ Len(b) = n
  BY DEF IsBytes
<1>3. /\ c \in Seq(Byte) /\ Len(c) = m + n
      /\ \A i \in 1 .. m + n : c[i] = IF i <= m THEN a[i] ELSE b[i - m]
  <2>1. /\ a \o b \in Seq(Byte) /\ Len(a \o b) = Len(a) + Len(b)
        /\ \A i \in 1 .. Len(a) + Len(b) :
             (a \o b)[i] = IF i <= Len(a) THEN a[i] ELSE b[i - Len(a)]
    BY <1>2, ConcatProperties, ZenonT(30)
  <2> QED
    BY <1>1, <1>2, <2>1
<1>4. \A i \in 1 .. m : c[i] = a[i]
  BY <1>3
<1>5. \A i \in 1 .. n : c[m + i] = b[i]
  BY <1>3
<1>6. HasParts(c, a, m, b, n)
  BY <1>3, <1>4, <1>5 DEF HasParts, IsBytes
<1> QED
  BY <1>1, <1>6

(* A function on the places 1 to n is a sequence of n bytes, and the other *)
(* way round.                                                              *)
LEMMA BytesAreFunctions ==
  ASSUME NEW n \in Nat, NEW s
  PROVE  IsBytes(s, n) <=> s \in [1 .. n -> Byte]
<1>1. s \in [1 .. n -> Byte] => IsBytes(s, n)
  BY DEF IsBytes
<1>2. ASSUME IsBytes(s, n) PROVE s \in [1 .. n -> Byte]
  <2>1. s \in [1 .. Len(s) -> Byte]
    BY <1>2, LenProperties DEF IsBytes
  <2> QED
    BY <1>2, <2>1 DEF IsBytes
<1> QED
  BY <1>1, <1>2

(* Type byte and payload, what the CRC is computed of.                     *)
Typed(payload) == <<CommandId>> \o payload

LEMMA TypedPayload ==
  ASSUME NEW payload \in Payload
  PROVE  /\ IsBytes(payload, PayloadSize)
         /\ HasParts(Typed(payload), <<CommandId>>, 1, payload, PayloadSize)
         /\ Typed(payload) \in [1 .. PayloadSize + 1 -> Byte]
         /\ IsBytes(CRC16(Typed(payload)), CrcSize)
<1>1. IsBytes(payload, PayloadSize)
  BY Sizes, BytesAreFunctions DEF Payload
<1>2. IsBytes(<<CommandId>>, 1)
  BY BytesAssumption DEF PacketType, IsBytes
<1>3. HasParts(Typed(payload), <<CommandId>>, 1, payload, PayloadSize)
  BY <1>1, <1>2, Sizes, TwoParts DEF Typed
<1>4. Typed(payload) \in [1 .. PayloadSize + 1 -> Byte]
  <2>1. IsBytes(Typed(payload), PayloadSize + 1)
    BY <1>3, Sizes DEF HasParts, IsBytes
  <2> QED
    BY <2>1, Sizes, BytesAreFunctions
<1>5. CRC16(Typed(payload)) \in [1 .. CrcSize -> Byte]
  BY <1>4, FrameAssumption
<1> QED
  BY <1>1, <1>3, <1>4, <1>5, Sizes, BytesAreFunctions

(* The bytes of a packet, each at its place.                               *)
LEMMA FrameParts ==
  ASSUME NEW payload \in Payload
  PROVE  /\ IsBytes(Frame(CommandId, payload), FrameSize)
         /\ Frame(CommandId, payload)[1] = SyncByte
         /\ Frame(CommandId, payload)[2] = CommandId
         /\ \A i \in 1 .. PayloadSize : Frame(CommandId, payload)[i + 2] = payload[i]
         /\ \A i \in 1 .. CrcSize :
              Frame(CommandId, payload)[PayloadSize + 2 + i] = CRC16(Typed(payload))[i]
<1>1. PICK crc, head, front, f :
        /\ crc = CRC16(Typed(payload)) /\ head = <<SyncByte, CommandId>>
        /\ front = head \o payload /\ f = front \o crc
  OBVIOUS
<1>2. f = Frame(CommandId, payload)
  BY <1>1 DEF Frame, Typed
<1>3. IsBytes(payload, PayloadSize) /\ IsBytes(crc, CrcSize)
  BY <1>1, TypedPayload
<1>4. IsBytes(head, 2) /\ head[1] = SyncByte /\ head[2] = CommandId
  BY <1>1, BytesAssumption DEF PacketType, IsBytes
<1>5. HasParts(front, head, 2, payload, PayloadSize)
  BY <1>1, <1>3, <1>4, Sizes, TwoParts
<1>6. IsBytes(front, 2 + PayloadSize)
  BY <1>5 DEF HasParts
<1>7. HasParts(f, front, 2 + PayloadSize, crc, CrcSize)
  <2>1. 2 + PayloadSize \in Nat /\ CrcSize \in Nat
    BY Sizes
  <2> QED
    BY <1>1, <1>3, <1>6, <2>1, TwoParts
<1>8. /\ \A i \in 1 .. 2 + PayloadSize : f[i] = front[i]
      /\ \A i \in 1 .. CrcSize : f[2 + PayloadSize + i] = crc[i]
      /\ IsBytes(f, 2 + PayloadSize + CrcSize)
  BY <1>7 DEF HasParts
<1>9. front[1] = SyncByte /\ front[2] = CommandId
      /\ \A i \in 1 .. PayloadSize : front[2 + i] = payload[i]
  BY <1>4, <1>5 DEF HasParts
<1>10. f[1] = SyncByte /\ f[2] = CommandId
       /\ \A i \in 1 .. PayloadSize : f[i + 2] = payload[i]
  BY <1>8, <1>9, Sizes
<1>11. /\ \A i \in 1 .. CrcSize : f[PayloadSize + 2 + i] = crc[i]
       /\ IsBytes(f, FrameSize)
  BY <1>8, Sizes
<1> QED
  BY <1>1, <1>2, <1>10, <1>11

-----------------------------------------------------------------------------
(* The buffers start with the type of a command in every place.            *)
LEMMA FreshBuffers ==
  /\ [i \in 0 .. PayloadSize |-> CommandId] \in [0 .. PayloadSize -> Byte]
  /\ [i \in 0 .. CrcSize - 1 |-> CommandId] \in [0 .. CrcSize - 1 -> Byte]
BY BytesAssumption DEF PacketType

(* A byte is stored inside the buffer it is meant for.                     *)
LEMMA DecoderTypesStep ==
  ASSUME DecoderTypeOK, NEW byte \in Byte, serialStreamDecoder(byte)
  PROVE  DecoderTypeOK'
<1> USE Sizes DEF DecoderTypeOK
<1>1. CASE WaitForStart(byte)
  BY <1>1 DEF WaitForStart
<1>2. CASE ReadPayload(byte)
  BY <1>2 DEF ReadPayload
<1>3. CASE ReadCrc(byte)
  <2>1. crcBuffer' \in [0 .. CrcSize - 1 -> Byte]
    BY <1>3 DEF ReadCrc
  <2>2. [i \in 1 .. PayloadSize |-> payloadBuffer[i]] \in Payload
    BY DEF Payload
  <2> QED
    BY <1>3, <2>1, <2>2 DEF ReadCrc
<1> QED
  BY <1>1, <1>2, <1>3 DEF serialStreamDecoder

(* The next byte on the wire, and those behind it.                         *)
LEMMA NextByte ==
  ASSUME LinkInv, wire # <<>>
  PROVE  /\ Passed \in 0 .. FrameSize - 1 /\ Len(wire) = FrameSize - Passed
         /\ sent \in Payload /\ Head(wire) \in Byte
         /\ Head(wire) = Frame(CommandId, sent)[Passed + 1]
         /\ Tail(wire) \in Seq(Byte) /\ Len(Tail(wire)) = Len(wire) - 1
         /\ \A i \in 1 .. Len(wire) - 1 :
              Tail(wire)[i] = Frame(CommandId, sent)[FrameSize - (Len(wire) - 1) + i]
<1>1. wire \in Seq(Byte) /\ Len(wire) \in 1 .. FrameSize
  BY Sizes DEF LinkInv, TypeOK
<1>2. Passed = FrameSize - Len(wire)
  BY DEF Passed
<1>3. sent \in Payload
  BY CommandsAssumption DEF LinkInv, WireHoldsRest
<1>4. \A i \in 1 .. Len(wire) : wire[i] = Frame(CommandId, sent)[FrameSize - Len(wire) + i]
  BY DEF LinkInv, WireHoldsRest
<1>5. Head(wire) = wire[1] /\ Head(wire) \in Byte
  BY <1>1
<1>6. wire[1] = Frame(CommandId, sent)[Passed + 1]
  BY <1>1, <1>2, <1>4
<1>7. /\ Tail(wire) \in Seq(Byte) /\ Len(Tail(wire)) = Len(wire) - 1
      /\ \A i \in 1 .. Len(wire) - 1 : Tail(wire)[i] = wire[i + 1]
  BY <1>1
<1>8. ASSUME NEW i \in 1 .. Len(wire) - 1
      PROVE  wire[i + 1] = Frame(CommandId, sent)[FrameSize - (Len(wire) - 1) + i]
  <2>1. i + 1 \in 1 .. Len(wire)
    BY <1>1
  <2>2. FrameSize - Len(wire) + (i + 1) = FrameSize - (Len(wire) - 1) + i
    BY <1>1, Sizes
  <2> QED
    BY <1>4, <2>1, <2>2
<1>9. \A i \in 1 .. Len(wire) - 1 :
        Tail(wire)[i] = Frame(CommandId, sent)[FrameSize - (Len(wire) - 1) + i]
  BY <1>7, <1>8
<1>10. Passed \in 0 .. FrameSize - 1 /\ Len(wire) = FrameSize - Passed
  BY <1>1, <1>2, Sizes
<1> QED
  BY <1>3, <1>5, <1>6, <1>7, <1>9, <1>10

(* A byte that leaves the wire leaves the rest of the packet on it.        *)
LEMMA TailHoldsRest ==
  ASSUME LinkInv, wire # <<>>, wire' = Tail(wire), UNCHANGED sent
  PROVE  /\ wire' \in Seq(Byte) /\ Len(wire') <= FrameSize
         /\ WireHoldsRest'
<1>1. Len(wire') = Len(wire) - 1 /\ wire' \in Seq(Byte)
  BY NextByte
<1>2. Len(wire) \in Nat /\ Len(wire) <= FrameSize
  BY DEF LinkInv, TypeOK
<1>3. WireHoldsRest'
  BY <1>1, NextByte DEF LinkInv, WireHoldsRest
<1> QED
  BY <1>1, <1>2, <1>3, Sizes

LEMMA LinkStart == Init => LinkInv
<1> SUFFICES ASSUME Init PROVE LinkInv
  OBVIOUS
<1>1. DecoderTypeOK
  BY FreshBuffers, Sizes DEF Init, DecoderInit, DecoderTypeOK
<1>2. wire \in Seq(Byte) /\ Len(wire) <= FrameSize /\ WireHoldsRest
  BY Sizes DEF Init, WireHoldsRest
<1>3. faults \in 0 .. MaxFaults /\ intact \in 0 .. 2
  BY MaxFaultsAssumption DEF Init
<1>4. sent \in Commands \union {NoCommand} /\ damaged \in BOOLEAN
  BY Zenon DEF Init
<1> QED
  BY <1>1, <1>2, <1>3, <1>4 DEF LinkInv, TypeOK

(* Packets are sent, delivered, cut and forgotten with their types.        *)
LEMMA LinkStep ==
  ASSUME LinkInv, [Next]_vars
  PROVE  LinkInv'
<1> USE DEF LinkInv, TypeOK
<1>1. ASSUME NEW payload \in Commands, SendCommand(payload) PROVE LinkInv'
  <2>1. payload \in Payload /\ wire' = Frame(CommandId, payload) /\ sent' = payload
    BY <1>1, CommandsAssumption DEF SendCommand
  <2>2. wire' \in Seq(Byte) /\ Len(wire') = FrameSize
    BY <2>1, FrameParts DEF IsBytes
  <2>3. WireHoldsRest'
    <3>1. ASSUME NEW i \in 1 .. Len(wire')
          PROVE  wire'[i] = Frame(CommandId, sent')[FrameSize - Len(wire') + i]
      BY <2>1, <2>2, Sizes
    <3> QED
      BY <2>1, <3>1 DEF WireHoldsRest
  <2>4. UNCHANGED <<decoderVars, faults, intact>> /\ damaged' = FALSE
    BY <1>1 DEF SendCommand
  <2>5. DecoderTypeOK'
    BY <2>4 DEF decoderVars, DecoderTypeOK
  <2>6. Len(wire') <= FrameSize
    BY <2>2, Sizes
  <2> QED
    BY <2>1, <2>2, <2>3, <2>4, <2>5, <2>6
<1>2. CASE DeliverByte
  <2>1. DecoderTypeOK'
    BY <1>2, NextByte, DecoderTypesStep DEF DeliverByte
  <2>2. wire' \in Seq(Byte) /\ Len(wire') <= FrameSize /\ WireHoldsRest'
    BY <1>2, TailHoldsRest DEF DeliverByte
  <2> QED
    BY <1>2, <2>1, <2>2 DEF DeliverByte
<1>3. CASE LoseByte
  <2>1. wire' \in Seq(Byte) /\ Len(wire') <= FrameSize /\ WireHoldsRest'
    BY <1>3, TailHoldsRest DEF LoseByte
  <2>2. faults' \in 0 .. MaxFaults
    BY <1>3, MaxFaultsAssumption DEF LoseByte
  <2> QED
    BY <1>3, <2>1, <2>2 DEF LoseByte, decoderVars, DecoderTypeOK
<1>4. CASE Restart
  <2>1. DecoderTypeOK'
    BY <1>4, FreshBuffers, Sizes DEF Restart, DecoderTypeOK
  <2>2. faults' \in 0 .. MaxFaults
    BY <1>4, MaxFaultsAssumption DEF Restart
  <2> QED
    BY <1>4, <2>1, <2>2 DEF Restart, WireHoldsRest
<1>5. CASE UNCHANGED vars
  BY <1>5 DEF vars, decoderVars, DecoderTypeOK, WireHoldsRest
<1> QED
  BY <1>1, <1>2, <1>3, <1>4, <1>5 DEF Next, Transfer

(* What is under way is the rest of the packet sent last, and no fault     *)
(* makes the decoder write outside its buffers (main.cpp:103-108, 339-     *)
(* 348).                                                                   *)
THEOREM LinkTypeCorrect == Spec => []TypeOK
<1>1. LinkInv => TypeOK
  BY DEF LinkInv
<1>2. LinkInv /\ [Next]_vars => LinkInv'
  BY LinkStep
<1> QED
  BY <1>1, <1>2, LinkStart, PTL DEF Spec

-----------------------------------------------------------------------------
(* A packet that was taken byte by byte is handled, and is what was sent.  *)
LEMMA PacketHandled ==
  ASSUME LinkInv, InStep, intact > 0, wire # <<>>, ReadCrc(Head(wire)),
         byteIndex + 1 >= CrcSize
  PROVE  dispatched' = sent
<1>1. /\ Passed \in 0 .. FrameSize - 1 /\ sent \in Payload
      /\ Head(wire) = Frame(CommandId, sent)[Passed + 1]
  BY NextByte
<1>2. /\ decoderState = "READING_CRC" /\ byteIndex = CrcSize - 1
      /\ payloadBuffer \in [0 .. PayloadSize -> Byte]
      /\ crcBuffer \in [0 .. CrcSize - 1 -> Byte]
      /\ crcBuffer' = [crcBuffer EXCEPT ![byteIndex] = Head(wire)]
  BY Sizes DEF ReadCrc, LinkInv, TypeOK, DecoderTypeOK
<1>3. /\ Passed = PayloadSize + 2 + byteIndex
      /\ \A i \in 0 .. PayloadSize : payloadBuffer[i] = Frame(CommandId, sent)[i + 2]
      /\ \A i \in 0 .. byteIndex - 1 :
           crcBuffer[i] = Frame(CommandId, sent)[PayloadSize + 3 + i]
  BY <1>2, Sizes DEF InStep, Taken, HeaderSize
<1>4. payloadBuffer[0] = CommandId /\ \A i \in 1 .. PayloadSize : payloadBuffer[i] = sent[i]
  BY <1>1, <1>3, FrameParts, Sizes
<1>5. [i \in 1 .. PayloadSize |-> payloadBuffer[i]] = sent
  BY <1>1, <1>4 DEF Payload
<1>6. Bytes(payloadBuffer, PayloadSize + 1) = Typed(sent)
  <2>1. /\ Typed(sent) \in [1 .. PayloadSize + 1 -> Byte]
        /\ Typed(sent)[1] = CommandId
        /\ \A i \in 1 .. PayloadSize : Typed(sent)[1 + i] = sent[i]
    BY <1>1, TypedPayload DEF HasParts
  <2>2. ASSUME NEW i \in 1 .. PayloadSize + 1
        PROVE  payloadBuffer[i - 1] = Typed(sent)[i]
    <3>1. CASE i = 1
      BY <1>4, <2>1, <3>1
    <3>2. CASE i > 1
      <4>1. i - 1 \in 1 .. PayloadSize /\ 1 + (i - 1) = i
        BY <3>2, Sizes
      <4> QED
        BY <1>4, <2>1, <4>1
    <3> QED
      BY <3>1, <3>2
  <2> QED
    BY <2>1, <2>2 DEF Bytes
<1>7. Bytes(crcBuffer', CrcSize) = CRC16(Typed(sent))
  <2>1. /\ CRC16(Typed(sent)) \in [1 .. CrcSize -> Byte]
        /\ \A i \in 1 .. CrcSize :
             Frame(CommandId, sent)[PayloadSize + 2 + i] = CRC16(Typed(sent))[i]
    BY <1>1, TypedPayload, FrameParts, BytesAreFunctions, Sizes
  <2>2. ASSUME NEW i \in 1 .. CrcSize
        PROVE  crcBuffer'[i - 1] = Frame(CommandId, sent)[PayloadSize + 2 + i]
    <3>1. CASE i = CrcSize
      <4>1. crcBuffer'[i - 1] = Head(wire)
        BY <1>2, <3>1
      <4>2. Passed + 1 = PayloadSize + 2 + i
        BY <1>2, <1>3, <3>1, Sizes
      <4> QED
        BY <1>1, <4>1, <4>2
    <3>2. CASE i < CrcSize
      <4>1. i - 1 \in 0 .. byteIndex - 1 /\ i - 1 # byteIndex
            /\ PayloadSize + 3 + (i - 1) = PayloadSize + 2 + i
        BY <1>2, <3>2, Sizes
      <4>2. crcBuffer'[i - 1] = crcBuffer[i - 1]
        BY <1>2, <4>1
      <4> QED
        BY <1>3, <4>1, <4>2
    <3> QED
      BY <3>1, <3>2, Sizes
  <2>3. \A i \in 1 .. CrcSize : crcBuffer'[i - 1] = CRC16(Typed(sent))[i]
    BY <2>1, <2>2
  <2> QED
    BY <2>1, <2>3 DEF Bytes
<1>8. AcceptsPacket(payloadBuffer, crcBuffer')
  BY <1>4, <1>6, <1>7 DEF AcceptsPacket
<1> QED
  BY <1>5, <1>8 DEF ReadCrc

(* How many bytes the decoder has taken follows from its state.            *)
LEMMA TakenByState ==
  ASSUME LinkInv
  PROVE  /\ Taken \in 0 .. FrameSize - 1
         /\ decoderState = "WAITING_FOR_START" <=> Taken = 0
         /\ decoderState = "READING_PAYLOAD" =>
              Taken = 1 + byteIndex /\ byteIndex \in 0 .. PayloadSize
         /\ decoderState = "READING_CRC" =>
              Taken = PayloadSize + 2 + byteIndex /\ byteIndex \in 0 .. CrcSize - 1
BY Sizes DEF LinkInv, TypeOK, DecoderTypeOK, Taken, HeaderSize

(* What a byte does to the wire and to the count of undamaged packets.     *)
LEMMA BytePasses ==
  ASSUME LinkInv, DeliverByte
  PROVE  /\ Passed < FrameSize - 1 =>
              wire' # <<>> /\ Passed' = Passed + 1 /\ UNCHANGED intact
         /\ Passed = FrameSize - 1 =>
              wire' = <<>> /\ Passed' = 0 /\ intact' \in {intact, intact + 1}
         /\ damaged => UNCHANGED intact
         /\ UNCHANGED <<sent, damaged>>
<1>1. wire # <<>> /\ wire' = Tail(wire)
  BY DEF DeliverByte
<1>2. /\ Passed \in 0 .. FrameSize - 1 /\ Len(wire) = FrameSize - Passed
      /\ wire' \in Seq(Byte) /\ Len(wire') = Len(wire) - 1
  BY <1>1, NextByte
<1>3. Passed = FrameSize - Len(wire) /\ (wire' = <<>> <=> Len(wire') = 0)
  BY <1>1, <1>2 DEF Passed
<1>4. ASSUME Passed < FrameSize - 1
      PROVE  wire' # <<>> /\ Passed' = Passed + 1 /\ UNCHANGED intact
  <2>1. Len(wire) # 1 /\ wire' # <<>>
    BY <1>2, <1>3, <1>4, Sizes
  <2>2. Passed' = FrameSize - Len(wire')
    BY <2>1 DEF Passed
  <2> QED
    BY <1>2, <1>3, <2>1, <2>2, Sizes DEF DeliverByte
<1>5. ASSUME Passed = FrameSize - 1
      PROVE  wire' = <<>> /\ Passed' = 0 /\ intact' \in {intact, intact + 1}
  <2>1. wire' = <<>>
    BY <1>2, <1>3, <1>5, Sizes
  <2> QED
    BY <2>1 DEF Passed, DeliverByte
<1> QED
  BY <1>4, <1>5 DEF DeliverByte

(* The decoder waits: the packet's own sync byte starts it, and no other   *)
(* byte of the packet does.                                                *)
LEMMA WaitingStep ==
  ASSUME SyncFree, LinkInv, LinkInv', SyncInv, DeliverByte, WaitForStart(Head(wire)), ~ damaged
  PROVE  SyncInv'
<1>1. Taken = 0 /\ Passed \in 0 .. FrameSize - 1 /\ wire # <<>>
  BY NextByte, TakenByState DEF WaitForStart, DeliverByte
<1>2. CASE Passed = 0
  <2>1. Head(wire) = SyncByte
    BY <1>1, <1>2, NextByte, FrameParts
  <2>2. decoderState' = "READING_PAYLOAD" /\ byteIndex' = 0
    BY <2>1 DEF WaitForStart
  <2>3. Taken' = 1
    BY <2>2 DEF Taken
  <2>4. wire' # <<>> /\ Passed' = 1 /\ UNCHANGED <<intact, damaged>>
    BY <1>2, BytePasses, Sizes
  <2> QED
    BY <2>2, <2>3, <2>4 DEF SyncInv, BoundaryRegained, InStep, SecondPacketHandled
<1>3. CASE Passed > 0
  <2>1. Head(wire) # SyncByte
    <3>1. sent \in Commands /\ Passed + 1 \in 2 .. FrameSize
      BY <1>1, <1>3, Sizes DEF LinkInv, WireHoldsRest
    <3> QED
      BY <1>1, <3>1, NextByte DEF SyncFree
  <2>2. decoderState' = "WAITING_FOR_START" /\ Taken' = 0
    BY <2>1 DEF WaitForStart, Taken
  <2>3. intact = 0
    BY <1>1, <1>3 DEF SyncInv, InStep, LinkInv, TypeOK
  <2>4. ~ damaged' /\ (intact' > 0 => wire' = <<>> /\ Passed' = 0 /\ intact' = 1)
    <3>1. CASE Passed = FrameSize - 1
      BY <2>3, <3>1, BytePasses
    <3>2. CASE Passed < FrameSize - 1
      BY <2>3, <3>2, BytePasses
    <3> QED
      BY <1>1, <3>1, <3>2, Sizes
  <2> QED
    BY <2>2, <2>3, <2>4 DEF SyncInv, BoundaryRegained, InStep, SecondPacketHandled
<1> QED
  BY <1>1, <1>2, <1>3

(* A packet that is being read goes on, and cannot outlast the undamaged   *)
(* packet that passes.                                                     *)
LEMMA ReadingStep ==
  ASSUME LinkInv, LinkInv', SyncInv, DeliverByte, ~ damaged,
         \/ ReadPayload(Head(wire))
         \/ ReadCrc(Head(wire)) /\ ~ byteIndex + 1 >= CrcSize
  PROVE  SyncInv'
<1>1. Passed \in 0 .. FrameSize - 1 /\ wire # <<>>
  BY NextByte DEF DeliverByte
<1>2. Taken \in 1 .. FrameSize - 2 /\ Taken' = Taken + 1
  <2>1. CASE ReadPayload(Head(wire))
    BY <2>1, TakenByState, Sizes DEF ReadPayload, Taken, HeaderSize
  <2>2. CASE ReadCrc(Head(wire)) /\ ~ byteIndex + 1 >= CrcSize
    BY <2>2, TakenByState, Sizes DEF ReadCrc, Taken, HeaderSize
  <2> QED
    BY <2>1, <2>2
<1>3. Passed = 0 \/ Passed <= Taken
  BY <1>1, <1>2 DEF SyncInv, BoundaryRegained
<1>4. Passed < FrameSize - 1
  BY <1>1, <1>2, <1>3, Sizes
<1>5. wire' # <<>> /\ Passed' = Passed + 1 /\ UNCHANGED <<intact, sent, damaged>>
  BY <1>4, BytePasses
<1>6. BoundaryRegained'
  BY <1>1, <1>2, <1>3, <1>5 DEF BoundaryRegained
<1>7. InStep'
  <2> SUFFICES ASSUME intact > 0 PROVE InStep'
    BY <1>5 DEF InStep
  <2>1. Taken = Passed
    BY DEF SyncInv, InStep
  <2>2. Head(wire) = Frame(CommandId, sent)[Taken + 1]
    BY <1>1, <2>1, NextByte
  <2>3. CASE ReadPayload(Head(wire))
    <3>1. /\ Taken = 1 + byteIndex /\ byteIndex \in 0 .. PayloadSize
          /\ \A i \in 0 .. byteIndex - 1 : payloadBuffer[i] = Frame(CommandId, sent)[i + 2]
      BY <2>3, TakenByState DEF ReadPayload, SyncInv, InStep
    <3>2. ASSUME NEW i \in 0 .. byteIndex
          PROVE  payloadBuffer'[i] = Frame(CommandId, sent')[i + 2]
      <4>1. payloadBuffer' = [payloadBuffer EXCEPT ![byteIndex] = Head(wire)]
            /\ payloadBuffer \in [0 .. PayloadSize -> Byte]
        BY <2>3 DEF ReadPayload, LinkInv, TypeOK, DecoderTypeOK
      <4>2. CASE i = byteIndex
        BY <1>5, <2>2, <3>1, <4>1, <4>2
      <4>3. CASE i < byteIndex
        BY <1>5, <3>1, <4>1, <4>3
      <4> QED
        BY <3>1, <4>2, <4>3
    <3>3. \/ decoderState' = "READING_PAYLOAD" /\ byteIndex' = byteIndex + 1
          \/ decoderState' = "READING_CRC" /\ byteIndex' = 0 /\ byteIndex = PayloadSize
      BY <2>3, <3>1, Sizes DEF ReadPayload
    <3>4. Taken' = Passed'
      BY <1>2, <1>5, <2>1
    <3>5. CASE decoderState' = "READING_PAYLOAD" /\ byteIndex' = byteIndex + 1
      BY <3>1, <3>2, <3>4, <3>5 DEF InStep
    <3>6. CASE decoderState' = "READING_CRC" /\ byteIndex' = 0 /\ byteIndex = PayloadSize
      BY <3>2, <3>4, <3>6 DEF InStep
    <3> QED
      BY <3>3, <3>5, <3>6
  <2>4. CASE ReadCrc(Head(wire)) /\ ~ byteIndex + 1 >= CrcSize
    <3>1. /\ Taken = PayloadSize + 2 + byteIndex /\ byteIndex \in 0 .. CrcSize - 1
          /\ \A i \in 0 .. PayloadSize : payloadBuffer[i] = Frame(CommandId, sent)[i + 2]
          /\ \A i \in 0 .. byteIndex - 1 :
               crcBuffer[i] = Frame(CommandId, sent)[PayloadSize + 3 + i]
      BY <2>4, TakenByState DEF ReadCrc, SyncInv, InStep
    <3>2. ASSUME NEW i \in 0 .. byteIndex
          PROVE  crcBuffer'[i] = Frame(CommandId, sent')[PayloadSize + 3 + i]
      <4>1. crcBuffer' = [crcBuffer EXCEPT ![byteIndex] = Head(wire)]
            /\ crcBuffer \in [0 .. CrcSize - 1 -> Byte]
        BY <2>4 DEF ReadCrc, LinkInv, TypeOK, DecoderTypeOK
      <4>2. CASE i = byteIndex
        <5>1. Taken + 1 = PayloadSize + 3 + i
          BY <3>1, <4>2, Sizes
        <5> QED
          BY <1>5, <2>2, <3>1, <4>1, <4>2, <5>1
      <4>3. CASE i < byteIndex
        BY <1>5, <3>1, <4>1, <4>3
      <4> QED
        BY <3>1, <4>2, <4>3
    <3>3. /\ decoderState' = "READING_CRC" /\ byteIndex' = byteIndex + 1
          /\ UNCHANGED payloadBuffer
      BY <2>4 DEF ReadCrc
    <3>4. Taken' = Passed'
      BY <1>2, <1>5, <2>1
    <3> QED
      BY <1>5, <3>1, <3>2, <3>3, <3>4 DEF InStep
  <2> QED
    BY <2>3, <2>4
<1> QED
  BY <1>5, <1>6, <1>7 DEF SyncInv, SecondPacketHandled

(* The last byte of a CRC brings the decoder back to waiting; if it is in  *)
(* step, the packet was handled.                                           *)
LEMMA EndingStep ==
  ASSUME LinkInv, LinkInv', SyncInv, DeliverByte, ~ damaged,
         ReadCrc(Head(wire)), byteIndex + 1 >= CrcSize
  PROVE  SyncInv'
<1>1. Taken = FrameSize - 1 /\ decoderState' = "WAITING_FOR_START" /\ Taken' = 0
  BY TakenByState, Sizes DEF ReadCrc, Taken
<1>2. Passed \in 0 .. FrameSize - 1 /\ wire # <<>>
  BY NextByte DEF DeliverByte
<1>3. damaged' = FALSE /\ UNCHANGED sent
  BY BytePasses
<1>4. BoundaryRegained'
  BY <1>1, <1>3 DEF BoundaryRegained
<1>5. intact' > 0 => Passed' = 0
  BY <1>1, <1>2, BytePasses, Sizes DEF SyncInv, InStep, LinkInv, TypeOK
<1>6. ASSUME intact > 0 PROVE dispatched' = sent'
  BY <1>2, <1>3, <1>6, PacketHandled DEF SyncInv
<1>7. intact' = 2 => intact > 0
  BY <1>2, BytePasses, Sizes DEF LinkInv, TypeOK
<1> QED
  BY <1>1, <1>4, <1>5, <1>6, <1>7 DEF SyncInv, InStep, SecondPacketHandled

(* The invariant is inductive if no byte of a packet but its first looks   *)
(* like a start.                                                           *)
LEMMA SyncStep ==
  ASSUME SyncFree, LinkInv, SyncInv, [Next]_vars
  PROVE  SyncInv'
<1>1. LinkInv'
  BY LinkStep
<1>2. ASSUME NEW payload \in Commands, SendCommand(payload) PROVE SyncInv'
  <2>1. payload \in Payload /\ wire = <<>> /\ wire' = Frame(CommandId, payload)
    BY <1>2, CommandsAssumption DEF SendCommand
  <2>2. wire' # <<>> /\ Passed' = 0 /\ damaged' = FALSE /\ UNCHANGED <<decoderVars, intact>>
    BY <1>2, <2>1, FrameParts, Sizes DEF SendCommand, Passed, IsBytes
  <2>3. intact > 0 => Taken = 0
    BY <2>1 DEF SyncInv, InStep, Passed
  <2>4. Taken' = Taken /\ decoderState' = decoderState
    BY <2>2 DEF Taken, decoderVars
  <2>5. InStep'
    <3>1. intact > 0 => decoderState' = "WAITING_FOR_START" /\ Taken' = Passed'
      BY <2>2, <2>3, <2>4, TakenByState
    <3> QED
      BY <2>2, <3>1 DEF InStep
  <2> QED
    BY <2>2, <2>5 DEF SyncInv, BoundaryRegained, SecondPacketHandled
<1>3. CASE DeliverByte /\ damaged
  <2>1. intact' = 0 /\ damaged'
    BY <1>3, BytePasses DEF SyncInv, BoundaryRegained
  <2> QED
    BY <2>1 DEF SyncInv, BoundaryRegained, InStep, SecondPacketHandled
<1>4. CASE DeliverByte /\ ~ damaged
  BY <1>1, <1>4, WaitingStep, ReadingStep, EndingStep DEF DeliverByte, serialStreamDecoder
<1>5. CASE LoseByte \/ Restart
  BY <1>5 DEF LoseByte, Restart, SyncInv, BoundaryRegained, InStep, SecondPacketHandled
<1>6. CASE UNCHANGED vars
  BY <1>6 DEF vars, decoderVars, SyncInv, BoundaryRegained, InStep, SecondPacketHandled,
       Passed, Taken
<1> QED
  BY <1>2, <1>3, <1>4, <1>5, <1>6 DEF Next, Transfer

(* Whatever bytes are lost and however often the firmware restarts: of two *)
(* undamaged packets the second is handled as it was sent, if no byte but  *)
(* the first of a packet is the sync byte (main.cpp:329-376).              *)
THEOREM SecondPacketIsHandled ==
  ASSUME SyncFree
  PROVE  Spec => []SecondPacketHandled
<1>1. Init => LinkInv /\ SyncInv
  BY LinkStart DEF Init, DecoderInit, SyncInv, BoundaryRegained, InStep, SecondPacketHandled,
     Taken
<1>2. LinkInv /\ SyncInv /\ [Next]_vars => LinkInv' /\ SyncInv'
  BY LinkStep, SyncStep, SyncFree
<1>3. LinkInv /\ SyncInv => SecondPacketHandled
  BY DEF SyncInv
<1> QED
  BY <1>1, <1>2, <1>3, PTL DEF Spec
=============================================================================
