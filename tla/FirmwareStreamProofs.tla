------------------------- MODULE FirmwareStreamProofs -------------------------
(***************************************************************************)
(* What the firmware's decoder makes of a stream, for every alphabet,      *)
(* packet size and CRC.                                                    *)
(***************************************************************************)
EXTENDS FirmwareStream, SequenceTheorems, TLAPS

LEMMA FrameSizeType ==
  /\ FrameSize = PayloadSize + CrcSize + 2
  /\ PayloadSize \in Nat /\ CrcSize \in Nat /\ PayloadSize >= 1 /\ CrcSize >= 1
BY FrameAssumption DEF FrameSize, HeaderSize

(* The bytes of a buffer, put in order, are those of the stream.           *)
LEMMA BufferIsSubSeq ==
  ASSUME NEW s \in Seq(Byte), NEW m \in Nat \ {0}, NEW n \in Nat,
         m + n - 1 <= Len(s), NEW b, \A i \in 0 .. n - 1 : b[i] = s[m + i]
  PROVE  Bytes(b, n) = SubSeq(s, m, m + n - 1)
<1> PICK u, v : u = SubSeq(s, m, m + n - 1) /\ v = Bytes(b, n)
  OBVIOUS
<1>1. \A i \in m .. m + n - 1 : s[i] \in Byte
  OBVIOUS
<1>2. /\ u \in Seq(Byte)
      /\ Len(u) = n
      /\ \A i \in 1 .. n : u[i] = s[m + i - 1]
  <2>1. /\ u \in Seq(Byte)
        /\ Len(u) = IF m <= m + n - 1 THEN m + n - 1 - m + 1 ELSE 0
        /\ \A i \in 1 .. m + n - 1 - m + 1 : u[i] = s[m + i - 1]
    BY <1>1, SubSeqProperties
  <2> QED
    BY <2>1
<1>3. \A i \in 1 .. n : v[i] = s[m + i - 1]
  <2> TAKE i \in 1 .. n
  <2>1. v[i] = b[i - 1] /\ i - 1 \in 0 .. n - 1
    BY DEF Bytes
  <2>2. b[i - 1] = s[m + (i - 1)]
    BY <2>1
  <2> QED
    BY <2>1, <2>2
<1>4. v \in Seq(Byte) /\ Len(v) = n
  <2>1. v = [i \in 1 .. n |-> b[i - 1]]
    BY DEF Bytes
  <2>2. \A i \in 1 .. n : s[m + i - 1] \in Byte
    OBVIOUS
  <2>3. \A i \in 1 .. n : v[i] \in Byte
    BY <1>3, <2>2
  <2>4. v \in [1 .. n -> Byte]
    BY <2>1, <2>3
  <2> QED
    BY <2>4
<1>5. \A i \in 1 .. Len(u) : u[i] = v[i]
  BY <1>2, <1>3
<1>6. u = v
  BY <1>2, <1>4, <1>5, SeqEqual
<1> QED
  BY <1>6

LEMMA InitTypeOK == Init => TypeOK /\ BuffersHoldStream
<1> SUFFICES ASSUME Init PROVE TypeOK /\ BuffersHoldStream
  OBVIOUS
<1>1. CommandId \in Byte
  BY BytesAssumption DEF PacketType
<1>2. /\ payloadBuffer \in [0 .. PayloadSize -> Byte]
      /\ crcBuffer \in [0 .. CrcSize - 1 -> Byte]
  BY <1>1 DEF Init, DecoderInit
<1>3. received \in Seq(Byte) /\ start \in 0 .. Len(received)
      /\ accepted \in Seq(1 .. Len(received))
  BY DEF Init
<1> QED
  BY <1>2, <1>3 DEF Init, DecoderInit, TypeOK, DecoderTypeOK, BuffersHoldStream

(* The three states of the machine keep the buffers filled from the        *)
(* stream, and each byte lands inside its buffer.                          *)
LEMMA StepTypeOK ==
  ASSUME TypeOK, BuffersHoldStream, NEW byte \in Byte, ReadByte(byte)
  PROVE  TypeOK' /\ BuffersHoldStream'
<1> USE FrameSizeType
<1> USE DEF TypeOK
<1>1. /\ received' \in Seq(Byte) /\ Len(received') = Len(received) + 1
      /\ received'[Len(received) + 1] = byte
      /\ \A i \in 1 .. Len(received) : received'[i] = received[i]
  BY DEF ReadByte
<1>2. start' \in 0 .. Len(received')
  BY <1>1 DEF ReadByte
<1>3. ASSUME dispatched' # NoCommand => start \in 1 .. Len(received)
      PROVE  accepted' \in Seq(1 .. Len(received'))
  <2>1. accepted \in Seq(1 .. Len(received'))
    BY <1>1
  <2>2. start \in 1 .. Len(received) => start \in 1 .. Len(received')
    BY <1>1
  <2>3. CASE dispatched' # NoCommand
    <3>1. accepted' = Append(accepted, start)
      BY <2>3 DEF ReadByte
    <3> QED
      BY <1>3, <2>1, <2>2, <2>3, <3>1
  <2>4. CASE dispatched' = NoCommand
    BY <2>1, <2>4 DEF ReadByte
  <2> QED
    BY <2>3, <2>4
<1>4. CASE WaitForStart(byte)
  <2>1. DecoderTypeOK'
    BY <1>4 DEF WaitForStart, DecoderTypeOK
  <2>2. accepted' \in Seq(1 .. Len(received'))
    BY <1>3, <1>4 DEF WaitForStart
  <2>3. BuffersHoldStream'
    BY <1>1, <1>4 DEF WaitForStart, ReadByte, BuffersHoldStream
  <2> QED
    BY <1>1, <1>2, <2>1, <2>2, <2>3
<1>5. CASE ReadPayload(byte)
  <2>1. byteIndex \in 0 .. PayloadSize
    BY <1>5 DEF ReadPayload, DecoderTypeOK
  <2>2. DecoderTypeOK'
    BY <1>5, <2>1 DEF ReadPayload, DecoderTypeOK
  <2>3. accepted' \in Seq(1 .. Len(received'))
    BY <1>3, <1>5 DEF ReadPayload
  <2>4. /\ start' = start /\ Len(received) = start + byteIndex /\ start > 0
        /\ received[start] = SyncByte
        /\ \A i \in 0 .. byteIndex - 1 : payloadBuffer[i] = received[start + 1 + i]
    BY <1>5 DEF ReadPayload, ReadByte, BuffersHoldStream
  <2>5. \A i \in 0 .. byteIndex : payloadBuffer'[i] = received'[start + 1 + i]
    <3> TAKE i \in 0 .. byteIndex
    <3>1. CASE i = byteIndex
      BY <1>1, <1>5, <2>1, <2>4, <3>1 DEF ReadPayload, DecoderTypeOK
    <3>2. CASE i < byteIndex
      BY <1>1, <1>5, <2>1, <2>4, <3>2 DEF ReadPayload, DecoderTypeOK
    <3> QED
      BY <2>1, <3>1, <3>2
  <2>6. BuffersHoldStream'
    BY <1>1, <1>5, <2>1, <2>4, <2>5 DEF ReadPayload, BuffersHoldStream
  <2> QED
    BY <1>1, <1>2, <2>2, <2>3, <2>6
<1>6. CASE ReadCrc(byte)
  <2>1. byteIndex \in 0 .. CrcSize - 1
    BY <1>6 DEF ReadCrc, DecoderTypeOK
  <2>2. DecoderTypeOK'
    <3>1. crcBuffer' \in [0 .. CrcSize - 1 -> Byte]
      BY <1>6, <2>1 DEF ReadCrc, DecoderTypeOK
    <3>2. [i \in 1 .. PayloadSize |-> payloadBuffer[i]] \in Payload
      BY DEF DecoderTypeOK, Payload
    <3> QED
      BY <1>6, <2>1, <3>1, <3>2 DEF ReadCrc, DecoderTypeOK
  <2>3. /\ start' = start /\ Len(received) = start + PayloadSize + 1 + byteIndex
        /\ start > 0 /\ received[start] = SyncByte
        /\ \A i \in 0 .. PayloadSize : payloadBuffer[i] = received[start + 1 + i]
        /\ \A i \in 0 .. byteIndex - 1 :
             crcBuffer[i] = received[start + PayloadSize + 2 + i]
    BY <1>6 DEF ReadCrc, ReadByte, BuffersHoldStream
  <2>8. /\ start \in Nat /\ Len(received) \in Nat /\ byteIndex \in Nat
        /\ Len(received) = start + PayloadSize + 1 + byteIndex
    BY <2>1, <2>3
  <2>4. accepted' \in Seq(1 .. Len(received'))
    BY <1>3, <2>1, <2>3
  <2>5. \A i \in 0 .. byteIndex : crcBuffer'[i] = received'[start + PayloadSize + 2 + i]
    <3> TAKE i \in 0 .. byteIndex
    <3>1. CASE i = byteIndex
      <4>1. crcBuffer'[i] = byte
        BY <1>6, <2>1, <3>1 DEF ReadCrc, DecoderTypeOK
      <4>2. start + PayloadSize + 2 + i = Len(received) + 1
        BY <2>1, <2>3, <3>1
      <4> QED
        BY <1>1, <4>1, <4>2
    <3>2. CASE i < byteIndex
      <4>1. crcBuffer'[i] = crcBuffer[i]
        BY <1>6, <2>1, <3>2 DEF ReadCrc, DecoderTypeOK
      <4>2. start + PayloadSize + 2 + i \in 1 .. Len(received) /\ i \in 0 .. byteIndex - 1
        <5>1. i \in Nat /\ i <= byteIndex - 1
          BY <2>8, <3>2
        <5>2. start + PayloadSize + 2 + i <= Len(received)
          BY <2>8, <5>1
        <5> QED
          BY <2>8, <5>1, <5>2
      <4> QED
        BY <1>1, <2>3, <4>1, <4>2
    <3> QED
      BY <2>1, <3>1, <3>2
  <2>6. \A i \in 0 .. PayloadSize : payloadBuffer'[i] = received'[start + 1 + i]
    <3> TAKE i \in 0 .. PayloadSize
    <3>1. start + 1 + i \in 1 .. Len(received)
      BY <2>1, <2>3
    <3>2. payloadBuffer' = payloadBuffer
      BY <1>6 DEF ReadCrc
    <3> QED
      BY <1>1, <2>3, <3>1, <3>2
  <2>7. BuffersHoldStream'
    <3>1. start' = start /\ start > 0 /\ start \in 1 .. Len(received)
          /\ received'[start] = SyncByte
      BY <1>1, <2>1, <2>3
    <3>2. CASE byteIndex + 1 >= CrcSize
      BY <1>6, <3>1, <3>2 DEF ReadCrc, BuffersHoldStream
    <3>3. CASE ~ (byteIndex + 1 >= CrcSize)
      <4>1. decoderState' = "READING_CRC" /\ byteIndex' = byteIndex + 1
        BY <1>6, <3>3 DEF ReadCrc
      <4>2. Len(received') = start' + PayloadSize + 1 + byteIndex'
        <5>1. Len(received') = Len(received) + 1
          BY <1>1
        <5>2. Len(received) + 1 = start + PayloadSize + 1 + (byteIndex + 1)
          BY <2>8
        <5> QED
          BY <3>1, <4>1, <5>1, <5>2
      <4>3. \A i \in 0 .. byteIndex' - 1 :
              crcBuffer'[i] = received'[start' + PayloadSize + 2 + i]
        BY <2>5, <2>8, <3>1, <4>1, SMTT(30)
      <4> QED
        BY <2>6, <3>1, <4>1, <4>2, <4>3 DEF BuffersHoldStream
    <3> QED
      BY <3>2, <3>3
  <2> QED
    BY <1>1, <1>2, <2>2, <2>4, <2>7
<1> QED
  BY <1>4, <1>5, <1>6 DEF ReadByte, serialStreamDecoder

-----------------------------------------------------------------------------
(* Commands. *)

LEMMA SubSeqOfAppend ==
  ASSUME NEW s \in Seq(Byte), NEW byte \in Byte, NEW m \in Nat \ {0}, NEW n \in Nat,
         n <= Len(s)
  PROVE  SubSeq(Append(s, byte), m, n) = SubSeq(s, m, n)
<1> PICK t, u, v : /\ t = Append(s, byte)
                   /\ u = SubSeq(t, m, n)
                   /\ v = SubSeq(s, m, n)
  OBVIOUS
<1>1. /\ \A i \in m .. n : t[i] \in Byte /\ s[i] \in Byte
      /\ \A i \in m .. n : t[i] = s[i]
  OBVIOUS
<1>2. /\ u \in Seq(Byte)
      /\ Len(u) = IF m <= n THEN n - m + 1 ELSE 0
      /\ \A i \in 1 .. n - m + 1 : u[i] = t[m + i - 1]
  <2>1. t \in Seq(Byte) /\ u = SubSeq(t, m, n)
    OBVIOUS
  <2>2. \A i \in m .. n : t[i] \in Byte
    BY <1>1
  <2> QED
    BY <2>1, <2>2, SubSeqProperties, SMTT(30)
<1>3. /\ v \in Seq(Byte)
      /\ Len(v) = IF m <= n THEN n - m + 1 ELSE 0
      /\ \A i \in 1 .. n - m + 1 : v[i] = s[m + i - 1]
  BY <1>1, SubSeqProperties
<1>4. ASSUME NEW i \in 1 .. Len(u) PROVE u[i] = v[i]
  <2>1. i \in 1 .. n - m + 1 /\ m + i - 1 \in m .. n
    BY <1>2
  <2> QED
    BY <1>1, <1>2, <1>3, <2>1
<1>5. u = v
  BY <1>2, <1>3, <1>4, SeqEqual
<1> QED
  BY <1>5

(* A packet that has arrived in full stays what it is.                     *)
LEMMA AppendKeeps ==
  ASSUME NEW s \in Seq(Byte), NEW byte \in Byte, NEW p \in Nat \ {0},
         p + FrameSize - 1 <= Len(s)
  PROVE  CommandAt(Append(s, byte), p) <=> CommandAt(s, p)
<1> USE FrameSizeType
<1> PICK t : t = Append(s, byte)
  OBVIOUS
<1>1. Len(t) = Len(s) + 1 /\ t[p] = s[p] /\ t[p + 1] = s[p + 1]
  OBVIOUS
<1>2. Complete(s, p) /\ Complete(t, p)
  BY <1>1 DEF Complete
<1>3. HeaderPossible(t, p) <=> HeaderPossible(s, p)
  BY <1>1 DEF HeaderPossible
<1>4. Body(t, p) = Body(s, p)
  <2>1. p + 1 \in Nat \ {0} /\ p + HeaderSize + PayloadSize - 1 \in Nat
        /\ p + HeaderSize + PayloadSize - 1 <= Len(s)
    BY DEF HeaderSize
  <2> QED
    BY <2>1, SubSeqOfAppend DEF Body
<1>5. ReceivedCrc(t, p) = ReceivedCrc(s, p)
  <2>1. p + HeaderSize + PayloadSize \in Nat \ {0} /\ p + FrameSize - 1 \in Nat
    BY DEF HeaderSize
  <2> QED
    BY <2>1, SubSeqOfAppend DEF ReceivedCrc
<1> QED
  BY <1>1, <1>2, <1>3, <1>4, <1>5 DEF CommandAt, ValidAt

(* The check of the buffers is the check of the packet in the stream.      *)
LEMMA PacketEnds ==
  ASSUME TypeOK, BuffersHoldStream, NEW byte \in Byte, ReadByte(byte),
         decoderState = "READING_CRC", byteIndex + 1 >= CrcSize
  PROVE  /\ start \in 1 .. Len(received)
         /\ start' = start
         /\ Len(received') = start + FrameSize - 1
         /\ decoderState' = "WAITING_FOR_START"
         /\ dispatched' # NoCommand <=> CommandAt(received', start)
<1> USE FrameSizeType
<1>1. ReadCrc(byte)
  BY DEF ReadByte, serialStreamDecoder, WaitForStart, ReadPayload
<1>2. byteIndex = CrcSize - 1
  BY DEF TypeOK, DecoderTypeOK
<1>3. /\ Len(received) = start + PayloadSize + CrcSize
      /\ start > 0 /\ start \in Nat /\ start' = start
      /\ \A i \in 0 .. PayloadSize : payloadBuffer[i] = received[start + 1 + i]
      /\ received[start] = SyncByte
  BY <1>2 DEF BuffersHoldStream, TypeOK, ReadByte
<1>4. /\ received' \in Seq(Byte) /\ received' = Append(received, byte)
      /\ Len(received') = start + FrameSize - 1
      /\ \A i \in 1 .. Len(received) : received'[i] = received[i]
  <2>1. received \in Seq(Byte) /\ received' = Append(received, byte)
    BY DEF ReadByte, TypeOK
  <2>2. Len(received') = Len(received) + 1
    BY <2>1
  <2>3. Len(received') = start + FrameSize - 1
    BY <1>3, <2>2
  <2> QED
    BY <2>1, <2>3
<1>5. \A i \in 0 .. PayloadSize : payloadBuffer[i] = received'[start + 1 + i]
  BY <1>3, <1>4
<1>6. \A i \in 0 .. CrcSize - 1 : crcBuffer'[i] = received'[start + PayloadSize + 2 + i]
  <2> TAKE i \in 0 .. CrcSize - 1
  <2>1. CASE i = CrcSize - 1
    <3>1. crcBuffer'[i] = byte
      BY <1>1, <1>2, <2>1 DEF ReadCrc, TypeOK, DecoderTypeOK
    <3>2. start + PayloadSize + 2 + i = Len(received) + 1
      BY <1>3, <2>1
    <3>3. received'[Len(received) + 1] = byte
      BY <1>4 DEF TypeOK
    <3> QED
      BY <3>1, <3>2, <3>3
  <2>2. CASE i < CrcSize - 1
    <3>1. crcBuffer'[i] = crcBuffer[i] /\ i \in 0 .. byteIndex - 1
      BY <1>1, <1>2, <2>2 DEF ReadCrc, TypeOK, DecoderTypeOK
    <3>2. crcBuffer[i] = received[start + PayloadSize + 2 + i]
      BY <3>1 DEF BuffersHoldStream
    <3>3. start + PayloadSize + 2 + i \in 1 .. Len(received)
      BY <1>3, <2>2
    <3> QED
      BY <1>4, <3>1, <3>2, <3>3
  <2> QED
    BY <2>1, <2>2
<1>7. Bytes(payloadBuffer, PayloadSize + 1) = Body(received', start)
  <2>1. PayloadSize + 1 \in Nat /\ start + 1 \in Nat \ {0}
        /\ start + 1 + (PayloadSize + 1) - 1 <= Len(received')
        /\ \A i \in 0 .. PayloadSize + 1 - 1 : payloadBuffer[i] = received'[start + 1 + i]
    BY <1>3, <1>4, <1>5
  <2>2. Bytes(payloadBuffer, PayloadSize + 1)
          = SubSeq(received', start + 1, start + 1 + (PayloadSize + 1) - 1)
    <3> PICK m \in Nat \ {0}, n \in Nat, s \in Seq(Byte) :
               m = start + 1 /\ n = PayloadSize + 1 /\ s = received'
      BY <1>4, <2>1
    <3>1. m + n - 1 <= Len(s) /\ \A i \in 0 .. n - 1 : payloadBuffer[i] = s[m + i]
      BY <2>1
    <3>2. Bytes(payloadBuffer, n) = SubSeq(s, m, m + n - 1)
      BY <3>1, BufferIsSubSeq, ZenonT(60)
    <3> QED
      BY <3>2
  <2>3. start + 1 + (PayloadSize + 1) - 1 = start + HeaderSize + PayloadSize - 1
    BY <1>3 DEF HeaderSize
  <2> QED
    BY <2>2, <2>3 DEF Body
<1>8. Bytes(crcBuffer', CrcSize) = ReceivedCrc(received', start)
  <2>1. start + PayloadSize + 2 \in Nat \ {0}
        /\ start + PayloadSize + 2 + CrcSize - 1 <= Len(received')
    BY <1>3, <1>4
  <2>2. Bytes(crcBuffer', CrcSize)
          = SubSeq(received', start + PayloadSize + 2, start + PayloadSize + 2 + CrcSize - 1)
    BY <1>4, <1>6, <2>1, BufferIsSubSeq, ZenonT(60)
  <2>3. /\ start + PayloadSize + 2 = start + HeaderSize + PayloadSize
        /\ start + PayloadSize + 2 + CrcSize - 1 = start + FrameSize - 1
    BY <1>3 DEF HeaderSize
  <2> QED
    BY <2>2, <2>3 DEF ReceivedCrc
<1>9. payloadBuffer[0] = received'[start + 1]
  <2>1. 0 \in 0 .. PayloadSize
    OBVIOUS
  <2>2. payloadBuffer[0] = received'[start + 1 + 0]
    BY <1>5, <2>1
  <2> QED
    BY <1>3, <2>2
<1>10. AcceptsPacket(payloadBuffer, crcBuffer') <=> CommandAt(received', start)
  <2>1. Complete(received', start) /\ received'[start] = SyncByte
    BY <1>3, <1>4 DEF Complete
  <2>2. CommandId \in PacketType
    BY DEF PacketType
  <2> QED
    BY <1>7, <1>8, <1>9, <2>1, <2>2
       DEF AcceptsPacket, CommandAt, ValidAt, HeaderPossible
<1>11. dispatched' # NoCommand <=> AcceptsPacket(payloadBuffer, crcBuffer')
  <2>1. [i \in 1 .. PayloadSize |-> payloadBuffer[i]] \in Payload
    BY DEF TypeOK, DecoderTypeOK, Payload
  <2> QED
    BY <1>1, <2>1, NoCommandAssumption DEF ReadCrc
<1>12. decoderState' = "WAITING_FOR_START"
  BY <1>1 DEF ReadCrc
<1> QED
  BY <1>3, <1>4, <1>10, <1>11, <1>12

(* Before its last byte no packet is dispatched.                           *)
LEMMA PacketGoesOn ==
  ASSUME TypeOK, NEW byte \in Byte, ReadByte(byte),
         ~ (decoderState = "READING_CRC" /\ byteIndex + 1 >= CrcSize)
  PROVE  dispatched' = NoCommand /\ accepted' = accepted
BY DEF ReadByte, serialStreamDecoder, WaitForStart, ReadPayload, ReadCrc

LEMMA CommandsStep ==
  ASSUME TypeOK, BuffersHoldStream, OnlyValidCommands, AcceptedBefore,
         NEW byte \in Byte, ReadByte(byte)
  PROVE  OnlyValidCommands' /\ AcceptedBefore'
<1> USE FrameSizeType
<1> PICK n \in Nat : n = Len(accepted)
  BY DEF TypeOK
<1>1. /\ received \in Seq(Byte) /\ received' = Append(received, byte)
      /\ Len(received') = Len(received) + 1
      /\ DOMAIN accepted = 1 .. n
      /\ \A k \in 1 .. n : accepted[k] \in Nat \ {0}
  BY DEF TypeOK, ReadByte
<1>2. \A k \in 1 .. n : CommandAt(received', accepted[k])
  <2> TAKE k \in 1 .. n
  <2>1. CommandAt(received, accepted[k])
    BY <1>1 DEF OnlyValidCommands
  <2>2. accepted[k] + FrameSize - 1 <= Len(received)
    BY <2>1 DEF CommandAt, ValidAt, Complete
  <2> QED
    BY <1>1, <2>1, <2>2, AppendKeeps
<1>3. CASE decoderState = "READING_CRC" /\ byteIndex + 1 >= CrcSize
  <2>1. /\ start \in 1 .. Len(received) /\ start' = start
        /\ Len(received') = start + FrameSize - 1
        /\ decoderState' = "WAITING_FOR_START"
        /\ dispatched' # NoCommand <=> CommandAt(received', start)
    BY <1>3, PacketEnds
  <2>2. \A k \in 1 .. n : accepted[k] + FrameSize <= start
    BY <1>1, <1>3 DEF AcceptedBefore
  <2>3. CASE dispatched' = NoCommand
    <3>1. accepted' = accepted
      BY <2>3 DEF ReadByte
    <3>2. OnlyValidCommands'
      BY <1>1, <1>2, <3>1 DEF OnlyValidCommands
    <3>3. AcceptedBefore'
      BY <1>1, <2>1, <2>2, <3>1 DEF AcceptedBefore
    <3> QED
      BY <3>2, <3>3
  <2>4. CASE dispatched' # NoCommand
    <3>1. /\ accepted' = Append(accepted, start)
          /\ DOMAIN accepted' = 1 .. n + 1
          /\ accepted'[n + 1] = start
          /\ \A k \in 1 .. n : accepted'[k] = accepted[k]
      BY <2>4 DEF ReadByte, TypeOK
    <3>2. OnlyValidCommands'
      <4> SUFFICES ASSUME NEW k \in 1 .. n + 1
                   PROVE  /\ CommandAt(received', accepted'[k])
                          /\ k > 1 => accepted'[k - 1] + FrameSize <= accepted'[k]
        BY <3>1 DEF OnlyValidCommands
      <4>1. CASE k = n + 1
        BY <2>1, <2>2, <2>4, <3>1, <4>1
      <4>2. CASE k \in 1 .. n
        <5>1. k > 1 => k - 1 \in 1 .. n /\ accepted[k - 1] + FrameSize <= accepted[k]
          BY <1>1, <4>2, SMTT(30) DEF OnlyValidCommands
        <5> QED
          BY <1>2, <3>1, <4>2, <5>1
      <4> QED
        BY <4>1, <4>2
    <3>3. AcceptedBefore'
      BY <1>1, <2>1, <2>2, <3>1 DEF AcceptedBefore
    <3> QED
      BY <3>2, <3>3
  <2> QED
    BY <2>3, <2>4
<1>4. CASE ~ (decoderState = "READING_CRC" /\ byteIndex + 1 >= CrcSize)
  <2>1. accepted' = accepted
    BY <1>4, PacketGoesOn
  <2>2. OnlyValidCommands'
    BY <1>1, <1>2, <2>1 DEF OnlyValidCommands
  <2>3. CASE decoderState = "WAITING_FOR_START"
    <3>1. decoderState' = "WAITING_FOR_START" \/ start' = Len(received) + 1
      BY <2>3 DEF ReadByte, serialStreamDecoder, WaitForStart, ReadPayload, ReadCrc
    <3>2. \A k \in 1 .. n : accepted[k] + FrameSize <= Len(received) + 1
      BY <1>1, <2>3 DEF AcceptedBefore
    <3> QED
      BY <1>1, <2>1, <2>2, <3>1, <3>2 DEF AcceptedBefore
  <2>4. CASE decoderState # "WAITING_FOR_START"
    <3>1. decoderState' # "WAITING_FOR_START" /\ start' = start
      BY <1>4, <2>4 DEF ReadByte, serialStreamDecoder, WaitForStart, ReadPayload, ReadCrc
    <3> QED
      BY <1>1, <2>1, <2>2, <2>4, <3>1 DEF AcceptedBefore
  <2> QED
    BY <2>3, <2>4
<1> QED
  BY <1>3, <1>4

-----------------------------------------------------------------------------
(* Keeping the place in an undisturbed stream. *)

LEMMA OneMorePacket ==
  ASSUME NEW n \in Nat, WholePackets(n)
  PROVE  WholePackets(n + FrameSize)
<1> USE FrameSizeType
<1> PICK k \in 0 .. n : n = k * FrameSize
  BY DEF WholePackets
<1>1. FrameSize \in Nat /\ FrameSize >= 1
  OBVIOUS
<1>2. n + FrameSize = (k + 1) * FrameSize
  BY <1>1
<1>3. k + 1 \in 0 .. n + FrameSize
  BY <1>1
<1> QED
  BY <1>2, <1>3 DEF WholePackets

LEMMA BetweenPackets ==
  ASSUME NEW n \in Nat, WholePackets(n), NEW d \in 1 .. FrameSize - 1
  PROVE  ~ WholePackets(n + d)
<1> USE FrameSizeType
<1> SUFFICES ASSUME WholePackets(n + d) PROVE FALSE
  OBVIOUS
<1> PICK j \in Nat : n = j * FrameSize
  BY DEF WholePackets
<1> PICK k \in Nat : n + d = k * FrameSize
  BY DEF WholePackets
<1> PICK f \in Nat : f = FrameSize
  OBVIOUS
<1>1. k * f = j * f + d /\ d >= 1 /\ d < f
  OBVIOUS
<1>2. CASE k <= j
  <2>1. (j - k) * f >= 0
    BY <1>2
  <2>2. j * f = k * f + (j - k) * f
    BY <1>2
  <2> QED
    BY <1>1, <2>1, <2>2
<1>3. CASE k >= j + 1
  <2>1. (k - j - 1) * f >= 0
    BY <1>3
  <2>2. k * f = j * f + f + (k - j - 1) * f
    BY <1>3
  <2> QED
    BY <1>1, <2>1, <2>2
<1> QED
  BY <1>2, <1>3

LEMMA PlaceStep ==
  ASSUME TypeOK, BuffersHoldStream, KeepsPlace, InSync, NEW byte \in Byte, ReadByte(byte)
  PROVE  KeepsPlace' /\ InSync'
<1> USE FrameSizeType
<1> SUFFICES ASSUME Aligned' PROVE KeepsPlace' /\ InSync'
  BY DEF KeepsPlace, InSync
<1>1. /\ received \in Seq(Byte) /\ received' = Append(received, byte)
      /\ Len(received') = Len(received) + 1
      /\ received'[Len(received) + 1] = byte
      /\ \A i \in 1 .. Len(received) : received'[i] = received[i]
  BY DEF TypeOK, ReadByte
<1>2. Aligned
  BY <1>1 DEF Aligned
<1>3. WholePackets(IF decoderState = "WAITING_FOR_START" THEN Len(received) ELSE start - 1)
  BY <1>2 DEF KeepsPlace
<1>4. \A p \in 1 .. Len(received) :
        WholePackets(p - 1) /\ CommandAt(received, p) =>
          \E k \in DOMAIN accepted : accepted[k] = p
  BY <1>2 DEF InSync
<1>5. ASSUME NEW p \in 1 .. Len(received'), WholePackets(p - 1), CommandAt(received', p),
             p + FrameSize - 1 <= Len(received)
      PROVE  \E k \in DOMAIN accepted : accepted[k] = p
  <2>1. p \in Nat \ {0} /\ p \in 1 .. Len(received)
    BY <1>1, <1>5
  <2>2. CommandAt(received, p)
    BY <1>1, <1>5, <2>1, AppendKeeps
  <2> QED
    BY <1>4, <1>5, <2>1, <2>2
<1>6. \A k \in DOMAIN accepted : k \in DOMAIN accepted' /\ accepted'[k] = accepted[k]
  BY DEF ReadByte, TypeOK
<1>7. \A p \in 1 .. Len(received') :
        CommandAt(received', p) => p + FrameSize - 1 <= Len(received')
  BY DEF CommandAt, ValidAt, Complete
<1>8. CASE decoderState = "READING_CRC" /\ byteIndex + 1 >= CrcSize
  <2>1. /\ start \in 1 .. Len(received)
        /\ Len(received') = start + FrameSize - 1
        /\ decoderState' = "WAITING_FOR_START"
        /\ dispatched' # NoCommand <=> CommandAt(received', start)
    BY <1>8, PacketEnds
  <2>2. KeepsPlace'
    <3>1. WholePackets(start - 1 + FrameSize)
      BY <1>3, <1>8, <2>1, OneMorePacket
    <3>2. Len(received') = start - 1 + FrameSize
      BY <2>1
    <3> QED
      BY <2>1, <3>1, <3>2 DEF KeepsPlace, WholePackets
  <2>3. ASSUME NEW p \in 1 .. Len(received'), WholePackets(p - 1), CommandAt(received', p)
        PROVE  \E k \in DOMAIN accepted' : accepted'[k] = p
    <3>1. CASE p + FrameSize - 1 <= Len(received)
      BY <1>5, <1>6, <2>3, <3>1
    <3>2. CASE p + FrameSize - 1 > Len(received)
      <4>1. p + FrameSize - 1 <= Len(received')
        BY <1>7, <2>3
      <4>2. p = start
        BY <1>1, <2>1, <3>2, <4>1
      <4>3. accepted' = Append(accepted, start)
        BY <2>1, <2>3, <4>2 DEF ReadByte
      <4>4. Len(accepted) + 1 \in DOMAIN accepted' /\ accepted'[Len(accepted) + 1] = p
        BY <4>2, <4>3 DEF TypeOK
      <4> QED
        BY <4>4
    <3> QED
      BY <1>1, <3>1, <3>2
  <2>4. InSync'
    BY <2>3 DEF InSync, WholePackets
  <2> QED
    BY <2>2, <2>4
<1>9. CASE ~ (decoderState = "READING_CRC" /\ byteIndex + 1 >= CrcSize)
  (* The decoder is at a boundary or less than a packet behind one, so no  *)
  (* packet ends with this byte.                                           *)
  <2>4. \E n \in Nat, d \in 1 .. FrameSize - 1 :
          WholePackets(n) /\ Len(received) + 1 = n + d
    <3>1. CASE decoderState = "WAITING_FOR_START"
      <4>1. WholePackets(Len(received)) /\ Len(received) \in Nat /\ 1 \in 1 .. FrameSize - 1
        BY <1>1, <1>3, <3>1
      <4> QED
        BY <4>1
    <3>2. CASE decoderState # "WAITING_FOR_START"
      <4>1. /\ WholePackets(start - 1) /\ start - 1 \in Nat
            /\ Len(received) + 1 - (start - 1) \in 1 .. FrameSize - 1
        BY <1>3, <1>9, <3>2 DEF TypeOK, DecoderTypeOK, BuffersHoldStream
      <4>2. Len(received) + 1 = start - 1 + (Len(received) + 1 - (start - 1))
        BY <1>1, <4>1
      <4> QED
        BY <4>1, <4>2
    <3> QED
      BY <3>1, <3>2
  <2>1. ASSUME NEW p \in 1 .. Len(received'), WholePackets(p - 1), CommandAt(received', p)
        PROVE  \E k \in DOMAIN accepted' : accepted'[k] = p
    <3>1. CASE p + FrameSize - 1 <= Len(received)
      BY <1>5, <1>6, <2>1, <3>1
    <3>2. CASE p + FrameSize - 1 = Len(received) + 1
      <4>1. PICK n \in Nat, d \in 1 .. FrameSize - 1 :
              WholePackets(n) /\ Len(received) + 1 = n + d
        BY <2>4
      <4>2. WholePackets(n + d)
        <5>1. WholePackets(p - 1 + FrameSize)
          BY <2>1, <1>1, OneMorePacket
        <5>2. p - 1 + FrameSize = n + d
          BY <1>1, <3>2, <4>1
        <5> QED
          BY <5>1, <5>2
      <4> QED
        BY <4>1, <4>2, BetweenPackets
    <3>3. \/ p + FrameSize - 1 <= Len(received)
          \/ p + FrameSize - 1 = Len(received) + 1
      <4>1. p + FrameSize - 1 <= Len(received')
        BY <2>1 DEF CommandAt, ValidAt, Complete
      <4>2. Len(received') = Len(received) + 1 /\ p \in Nat
        BY <1>1
      <4> QED
        BY <4>1, <4>2
    <3> QED
      BY <3>1, <3>2, <3>3
  <2>2. InSync'
    BY <2>1 DEF InSync, WholePackets
  <2>3. KeepsPlace'
    <3>1. CASE decoderState = "WAITING_FOR_START"
      <4>1. Len(received) + 1 \in 1 .. Len(received') /\ Len(received) + 1 - 1 = Len(received)
        BY <1>1
      <4>2. byte = SyncByte
        <5> PICK p \in 1 .. Len(received') : p = Len(received) + 1
          BY <4>1
        <5>1. p - 1 = Len(received)
          BY <1>1
        <5>2. WholePackets(p - 1)
          BY <1>3, <3>1, <5>1
        <5>3. received'[p] = SyncByte
          BY <5>2 DEF Aligned, WholePackets
        <5> QED
          BY <1>1, <5>3
      <4>3. decoderState' # "WAITING_FOR_START" /\ start' = Len(received) + 1
        BY <3>1, <4>2 DEF ReadByte, serialStreamDecoder, WaitForStart, ReadPayload, ReadCrc
      <4> QED
        BY <1>3, <3>1, <4>1, <4>3 DEF KeepsPlace, WholePackets
    <3>2. CASE decoderState # "WAITING_FOR_START"
      <4>1. decoderState' # "WAITING_FOR_START" /\ start' = start
        BY <1>9, <3>2 DEF ReadByte, serialStreamDecoder, WaitForStart, ReadPayload, ReadCrc
      <4> QED
        BY <1>3, <3>2, <4>1 DEF KeepsPlace, WholePackets
    <3> QED
      BY <3>1, <3>2
  <2> QED
    BY <2>2, <2>3
<1> QED
  BY <1>8, <1>9

-----------------------------------------------------------------------------
IInv ==
  /\ TypeOK /\ BuffersHoldStream
  /\ OnlyValidCommands /\ AcceptedBefore
  /\ KeepsPlace /\ InSync

LEMMA InitIInv == Init => IInv
<1> SUFFICES ASSUME Init PROVE IInv
  OBVIOUS
<1>1. TypeOK /\ BuffersHoldStream
  BY InitTypeOK
<1>2. OnlyValidCommands /\ AcceptedBefore
  BY DEF Init, OnlyValidCommands, AcceptedBefore
<1>3. KeepsPlace
  <2>1. 0 = 0 * FrameSize /\ Len(received) = 0 /\ decoderState = "WAITING_FOR_START"
    BY FrameSizeType DEF Init, DecoderInit
  <2> QED
    BY <2>1 DEF KeepsPlace, WholePackets
<1>4. InSync
  BY DEF Init, InSync
<1> QED
  BY <1>1, <1>2, <1>3, <1>4 DEF IInv

LEMMA StepIInv == IInv /\ [Next]_vars => IInv'
<1> SUFFICES ASSUME IInv, [Next]_vars PROVE IInv'
  OBVIOUS
<1>1. CASE Next
  BY <1>1, StepTypeOK, CommandsStep, PlaceStep DEF Next, IInv
<1>2. CASE UNCHANGED vars
  BY <1>2 DEF vars, decoderVars, IInv, TypeOK, DecoderTypeOK, BuffersHoldStream,
     OnlyValidCommands, AcceptedBefore, KeepsPlace, InSync, Aligned
<1> QED
  BY <1>1, <1>2

(* No byte is ever written outside payloadBuffer or crcBuffer, and the     *)
(* machine's variables keep their types (main.cpp:103-108, 339-348).       *)
THEOREM TypeCorrect == Spec => []TypeOK
<1>1. IInv => TypeOK
  BY DEF IInv
<1> QED
  BY <1>1, InitIInv, StepIInv, PTL DEF Spec

(* Whatever arrives, the firmware acts on valid packets of the stream only *)
(* and uses no byte twice (main.cpp:347-374).                              *)
THEOREM CommandsAreReal == Spec => []OnlyValidCommands
<1>1. IInv => OnlyValidCommands
  BY DEF IInv
<1> QED
  BY <1>1, InitIInv, StepIInv, PTL DEF Spec

(* In a stream of packets without a lost or an added byte every valid      *)
(* command is handled, whatever the payloads contain (main.cpp:329-376).   *)
THEOREM StaysInSync == Spec => []InSync
<1>1. IInv => InSync
  BY DEF IInv
<1> QED
  BY <1>1, InitIInv, StepIInv, PTL DEF Spec

(* The static buffers hold the bytes of the packet being read, each at its *)
(* place (main.cpp:339-348).                                               *)
THEOREM BuffersAreOfTheStream == Spec => []BuffersHoldStream
<1>1. IInv => BuffersHoldStream
  BY DEF IInv
<1> QED
  BY <1>1, InitIInv, StepIInv, PTL DEF Spec

(* Between two packets of an undisturbed stream the machine stands at the  *)
(* boundary (main.cpp:329-376).                                            *)
THEOREM PlaceIsKept == Spec => []KeepsPlace
<1>1. IInv => KeepsPlace
  BY DEF IInv
<1> QED
  BY <1>1, InitIInv, StepIInv, PTL DEF Spec
=============================================================================
