--------------------------- MODULE HostStreamProofs ---------------------------
(***************************************************************************)
(* What processStream makes of a stream, for every alphabet, packet size,  *)
(* CRC and way to cut the stream into chunks.                              *)
(***************************************************************************)
EXTENDS HostStream, SequenceTheorems, TLAPS

LEMMA FrameSizeType == FrameSize \in Nat /\ FrameSize >= 4
BY FrameAssumption DEF FrameSize, HeaderSize

(* Two streams that agree on the bytes of a packet agree about the packet. *)
LEMMA SameBytes ==
  ASSUME NEW s \in Seq(Byte), NEW t \in Seq(Byte), NEW p \in Nat \ {0}, NEW q \in Nat \ {0},
         Complete(s, p), Complete(t, q),
         \A i \in 0 .. FrameSize - 1 : s[p + i] = t[q + i]
  PROVE  /\ Body(s, p) = Body(t, q)
         /\ ReceivedCrc(s, p) = ReceivedCrc(t, q)
         /\ HeaderPossible(s, p) <=> HeaderPossible(t, q)
         /\ ValidAt(s, p) <=> ValidAt(t, q)
         /\ InvalidAt(s, p) <=> InvalidAt(t, q)
<1> USE FrameAssumption
<1>1. ASSUME NEW a \in 1 .. FrameSize - 1, NEW b \in a .. FrameSize - 1
      PROVE  SubSeq(s, p + a, p + b) = SubSeq(t, q + a, q + b)
  <2> DEFINE u == SubSeq(s, p + a, p + b)
             v == SubSeq(t, q + a, q + b)
  <2>1. /\ \A i \in p + a .. p + b : s[i] \in Byte
        /\ \A i \in q + a .. q + b : t[i] \in Byte
    BY FrameSizeType DEF Complete
  <2>2. /\ u \in Seq(Byte)
        /\ Len(u) = b - a + 1
        /\ \A i \in 1 .. b - a + 1 : u[i] = s[p + a + i - 1]
    BY <2>1, SubSeqProperties, FrameSizeType
  <2>3. /\ v \in Seq(Byte)
        /\ Len(v) = b - a + 1
        /\ \A i \in 1 .. b - a + 1 : v[i] = t[q + a + i - 1]
    BY <2>1, SubSeqProperties, FrameSizeType
  <2>4. ASSUME NEW i \in 1 .. b - a + 1 PROVE u[i] = v[i]
    <3>1. a + i - 1 \in 0 .. FrameSize - 1
      BY FrameSizeType
    <3>2. s[p + (a + i - 1)] = t[q + (a + i - 1)]
      BY <3>1
    <3> QED
      BY <2>2, <2>3, <3>2, FrameSizeType
  <2> HIDE DEF u, v
  <2>5. u = v
    BY <2>2, <2>3, <2>4, SeqEqual
  <2> QED
    BY <2>5 DEF u, v
<1>2. Body(s, p) = Body(t, q)
  <2>1. 1 \in 1 .. FrameSize - 1 /\ HeaderSize + PayloadSize - 1 \in 1 .. FrameSize - 1
    BY FrameSizeType DEF FrameSize, HeaderSize
  <2>2. SubSeq(s, p + 1, p + (HeaderSize + PayloadSize - 1))
          = SubSeq(t, q + 1, q + (HeaderSize + PayloadSize - 1))
    BY <1>1, <2>1
  <2> QED
    BY <2>2 DEF Body, HeaderSize
<1>3. ReceivedCrc(s, p) = ReceivedCrc(t, q)
  <2>1. HeaderSize + PayloadSize \in 1 .. FrameSize - 1
        /\ FrameSize - 1 \in HeaderSize + PayloadSize .. FrameSize - 1
    BY FrameSizeType DEF FrameSize, HeaderSize
  <2>2. SubSeq(s, p + (HeaderSize + PayloadSize), p + (FrameSize - 1))
          = SubSeq(t, q + (HeaderSize + PayloadSize), q + (FrameSize - 1))
    BY <1>1, <2>1
  <2> QED
    BY <2>2, FrameSizeType DEF ReceivedCrc, HeaderSize
<1>4. HeaderPossible(s, p) <=> HeaderPossible(t, q)
  <2>0. 0 \in 0 .. FrameSize - 1 /\ 1 \in 0 .. FrameSize - 1
    BY FrameSizeType
  <2>1. s[p] = t[q] /\ s[p + 1] = t[q + 1]
    <3>1. s[p + 0] = t[q + 0] /\ s[p + 1] = t[q + 1]
      BY <2>0
    <3> QED
      BY <3>1
  <2>2. p + 1 <= Len(s) /\ q + 1 <= Len(t)
    BY FrameSizeType DEF Complete
  <2> QED
    BY <2>1, <2>2 DEF HeaderPossible
<1>5. p <= Len(s) /\ q <= Len(t)
  BY FrameSizeType DEF Complete
<1> QED
  BY <1>2, <1>3, <1>4, <1>5 DEF ValidAt, InvalidAt

(* What is left of a stream when its first e bytes are erased.             *)
LEMMA Suffix ==
  ASSUME NEW s \in Seq(Byte), NEW e \in 0 .. Len(s)
  PROVE  /\ SubSeq(s, e + 1, Len(s)) \in Seq(Byte)
         /\ Len(SubSeq(s, e + 1, Len(s))) = Len(s) - e
         /\ \A i \in 1 .. Len(s) - e : SubSeq(s, e + 1, Len(s))[i] = s[e + i]
<1>1. \A i \in e + 1 .. Len(s) : s[i] \in Byte
  OBVIOUS
<1> PICK b : b = SubSeq(s, e + 1, Len(s))
  OBVIOUS
<1>2. /\ b \in Seq(Byte)
      /\ Len(b) = IF e + 1 <= Len(s) THEN Len(s) - (e + 1) + 1 ELSE 0
      /\ \A i \in 1 .. Len(s) - (e + 1) + 1 : b[i] = s[e + 1 + i - 1]
  BY <1>1, SubSeqProperties
<1> QED
  BY <1>2

LEMMA SuffixOfSuffix ==
  ASSUME NEW s \in Seq(Byte), NEW e \in 0 .. Len(s), NEW f \in 0 .. Len(s) - e,
         NEW b, b = SubSeq(s, e + 1, Len(s))
  PROVE  SubSeq(b, f + 1, Len(b)) = SubSeq(s, e + f + 1, Len(s))
<1>1. /\ b \in Seq(Byte)
      /\ Len(b) = Len(s) - e
      /\ \A i \in 1 .. Len(s) - e : b[i] = s[e + i]
  BY Suffix
<1> PICK u, v : u = SubSeq(b, f + 1, Len(b)) /\ v = SubSeq(s, e + f + 1, Len(s))
  OBVIOUS
<1>2. f \in 0 .. Len(b) /\ e + f \in 0 .. Len(s)
  <2>1. Len(s) \in Nat /\ Len(b) = Len(s) - e
    BY <1>1
  <2>2. f \in 0 .. Len(b)
    BY <2>1
  <2>3. e + f \in 0 .. Len(s)
    BY <2>1
  <2> QED
    BY <2>2, <2>3
<1>3. /\ u \in Seq(Byte)
      /\ Len(u) = Len(b) - f
      /\ \A i \in 1 .. Len(b) - f : u[i] = b[f + i]
  BY <1>1, <1>2, Suffix
<1>4. /\ v \in Seq(Byte)
      /\ Len(v) = Len(s) - (e + f)
      /\ \A i \in 1 .. Len(s) - (e + f) : v[i] = s[e + f + i]
  BY <1>2, Suffix
<1>5. ASSUME NEW i \in 1 .. Len(u) PROVE u[i] = v[i]
  <2>1. u[i] = b[f + i] /\ v[i] = s[e + f + i]
    BY <1>1, <1>3, <1>4
  <2>2. b[f + i] = s[e + (f + i)]
    BY <1>1, <1>3
  <2> QED
    BY <2>1, <2>2, <1>3
<1>6. u = v
  BY <1>1, <1>3, <1>4, <1>5, SeqEqual
<1> QED
  BY <1>6

(* A place of the buffer is judged as its place in the stream.             *)
LEMMA TailDecides ==
  ASSUME NEW s \in Seq(Byte), NEW e \in 0 .. Len(s), NEW b,
         b = SubSeq(s, e + 1, Len(s)),
         NEW p \in 1 .. Len(s) - e + 1
  PROVE  /\ b \in Seq(Byte) /\ Len(b) = Len(s) - e
         /\ Complete(b, p) <=> Complete(s, e + p)
         /\ ValidAt(b, p) <=> ValidAt(s, e + p)
         /\ InvalidAt(b, p) <=> InvalidAt(s, e + p)
         /\ Complete(b, p) => Body(b, p) = Body(s, e + p) /\ b[p + 1] = s[e + p + 1]
<1>1. /\ b \in Seq(Byte)
      /\ Len(b) = Len(s) - e
      /\ \A i \in 1 .. Len(s) - e : b[i] = s[e + i]
  BY Suffix
<1>2. Complete(b, p) <=> Complete(s, e + p)
  BY <1>1, FrameSizeType DEF Complete
<1>3. CASE Complete(b, p)
  <2>1. \A i \in 0 .. FrameSize - 1 : b[p + i] = s[e + p + i]
    <3> TAKE i \in 0 .. FrameSize - 1
    <3>1. p + i \in 1 .. Len(s) - e
      BY <1>1, <1>3, FrameSizeType DEF Complete
    <3> QED
      BY <1>1, <3>1
  <2>2. b[p + 1] = s[e + p + 1]
    <3>1. 1 \in 0 .. FrameSize - 1
      BY FrameSizeType
    <3> QED
      BY <2>1, <3>1
  <2>3. p \in Nat \ {0} /\ e + p \in Nat \ {0}
    OBVIOUS
  <2> QED
    BY <1>1, <1>2, <1>3, <2>1, <2>2, <2>3, SameBytes
<1>4. CASE ~ Complete(b, p)
  <2>1. p <= Len(b) => (HeaderPossible(b, p) <=> HeaderPossible(s, e + p))
    BY <1>1 DEF HeaderPossible
  <2>2. p <= Len(b) <=> e + p <= Len(s)
    BY <1>1
  <2> QED
    BY <1>1, <1>2, <1>4, <2>1, <2>2 DEF ValidAt, InvalidAt
<1> QED
  BY <1>3, <1>4

(* What was decided about a place stays so when more bytes arrive.         *)
LEMMA GrowthKeeps ==
  ASSUME NEW s \in Seq(Byte), NEW t \in Seq(Byte), NEW p \in 1 .. Len(s)
  PROVE  /\ ValidAt(s, p) => ValidAt(s \o t, p)
         /\ InvalidAt(s, p) => InvalidAt(s \o t, p)
<1>1. /\ s \o t \in Seq(Byte)
      /\ Len(s \o t) = Len(s) + Len(t)
      /\ \A i \in 1 .. Len(s) : (s \o t)[i] = s[i]
  BY ConcatProperties
<1>2. CASE Complete(s, p)
  <2>1. Complete(s \o t, p)
    BY <1>1, <1>2, FrameSizeType DEF Complete
  <2>2. \A i \in 0 .. FrameSize - 1 : s[p + i] = (s \o t)[p + i]
    BY <1>1, <1>2, FrameSizeType DEF Complete
  <2>3. p \in Nat \ {0}
    OBVIOUS
  <2>4. (ValidAt(s, p) <=> ValidAt(s \o t, p)) /\ (InvalidAt(s, p) <=> InvalidAt(s \o t, p))
    BY <1>1, <1>2, <2>1, <2>2, <2>3, SameBytes
  <2> QED
    BY <2>4
<1>3. CASE ~ Complete(s, p)
  <2>1. ~ HeaderPossible(s, p) => ~ HeaderPossible(s \o t, p)
    BY <1>1 DEF HeaderPossible
  <2> QED
    BY <1>1, <1>3, <2>1 DEF ValidAt, InvalidAt
<1> QED
  BY <1>2, <1>3

-----------------------------------------------------------------------------
(* The inductive invariant, action by action. *)

IInv == TypeOK /\ BufferIsTail /\ BoundedBuffer /\ Decided /\ OnlyDisjointFrames

(* The scan's place in the buffer and its place in the stream are judged   *)
(* alike.                                                                  *)
LEMMA CursorDecides ==
  ASSUME TypeOK, BufferIsTail
  PROVE  /\ Len(in_buffer_) = Len(received) - erased
         /\ Cursor \in 1 .. Len(received) + 1
         /\ Complete(in_buffer_, offset + 1) <=> Complete(received, Cursor)
         /\ ValidAt(in_buffer_, offset + 1) <=> ValidAt(received, Cursor)
         /\ InvalidAt(in_buffer_, offset + 1) <=> InvalidAt(received, Cursor)
         /\ Complete(received, Cursor) =>
              Body(in_buffer_, offset + 1) = Body(received, Cursor)
<1>1. Len(in_buffer_) = Len(received) - erased
  <2>1. 1 \in 1 .. Len(received) - erased + 1
    BY DEF TypeOK
  <2> QED
    BY <2>1, TailDecides DEF TypeOK, BufferIsTail
<1>2. offset + 1 \in 1 .. Len(received) - erased + 1
  BY <1>1 DEF TypeOK, DecoderTypeOK
<1>3. Cursor = erased + (offset + 1)
  BY DEF Cursor, TypeOK, DecoderTypeOK
<1>4. Cursor \in 1 .. Len(received) + 1
  BY <1>2, <1>3 DEF TypeOK
<1> PICK p \in 1 .. Len(received) - erased + 1 : p = offset + 1
  BY <1>2
<1>6. /\ received \in Seq(Byte) /\ erased \in 0 .. Len(received)
      /\ in_buffer_ = SubSeq(received, erased + 1, Len(received))
  BY DEF TypeOK, BufferIsTail
<1>5. /\ Complete(in_buffer_, p) <=> Complete(received, erased + p)
      /\ ValidAt(in_buffer_, p) <=> ValidAt(received, erased + p)
      /\ InvalidAt(in_buffer_, p) <=> InvalidAt(received, erased + p)
      /\ Complete(in_buffer_, p) => Body(in_buffer_, p) = Body(received, erased + p)
  BY <1>6, TailDecides, ZenonT(60)
<1> QED
  BY <1>1, <1>3, <1>4, <1>5

LEMMA InitIInv == Init => IInv
<1> SUFFICES ASSUME Init PROVE IInv
  OBVIOUS
<1> USE DEF Init, DecoderInit
<1>1. TypeOK
  <2>1. frames \in Seq(1 .. Len(received)) /\ received \in Seq(Byte) /\ erased \in 0 .. Len(received)
    OBVIOUS
  <2>2. scanning \in BOOLEAN /\ (~ scanning => offset = 0)
    OBVIOUS
  <2>3. /\ in_buffer_ \in Seq(Byte) /\ offset \in 0 .. Len(in_buffer_)
        /\ callbacks \subseteq PacketType /\ delivered \in Seq(Byte) \union {NoPacket}
    OBVIOUS
  <2> QED
    BY <2>1, <2>2, <2>3 DEF TypeOK, DecoderTypeOK
<1>2. BufferIsTail
  BY DEF BufferIsTail
<1>3. BoundedBuffer
  BY FrameSizeType DEF BoundedBuffer
<1>4. Decided /\ OnlyDisjointFrames
  BY DEF Decided, OnlyDisjointFrames, Cursor
<1> QED
  BY <1>1, <1>2, <1>3, <1>4 DEF IInv

(* More bytes: nothing that was decided changes, and the buffer gains what *)
(* the stream gains.                                                       *)
LEMMA ArriveStep ==
  ASSUME IInv, Arrive
  PROVE  IInv' /\ Cursor' = Cursor
<1> PICK data \in Chunks : /\ processStream(data)
                           /\ received' = received \o data
                           /\ UNCHANGED <<erased, frames>>
  BY DEF Arrive
<1> USE DEF IInv
<1>1. data \in Seq(Byte)
  BY ChunksAssumption
<1>2. /\ received' \in Seq(Byte)
      /\ Len(received') = Len(received) + Len(data)
      /\ received \in Seq(Byte)
  BY <1>1, ConcatProperties DEF TypeOK
<1>3. in_buffer_' \in Seq(Byte) /\ Len(in_buffer_') = Len(in_buffer_) + Len(data)
  BY <1>1, ConcatProperties DEF TypeOK, DecoderTypeOK, processStream
<1>4. TypeOK'
  <2>1. frames' \in Seq(1 .. Len(received'))
    BY <1>1, <1>2 DEF TypeOK
  <2>2. erased' \in 0 .. Len(received')
    BY <1>1, <1>2 DEF TypeOK
  <2>3. DecoderTypeOK'
    BY <1>1, <1>3 DEF TypeOK, DecoderTypeOK, processStream
  <2> QED
    BY <1>2, <2>1, <2>2, <2>3 DEF TypeOK
<1>5. BufferIsTail'
  <2>1. SubSeq(received', erased + 1, Len(received')) \in Seq(Byte)
        /\ Len(SubSeq(received', erased + 1, Len(received'))) = Len(received') - erased
        /\ \A i \in 1 .. Len(received') - erased :
             SubSeq(received', erased + 1, Len(received'))[i] = received'[erased + i]
    <3>1. erased \in 0 .. Len(received') /\ received' \in Seq(Byte)
      BY <1>4, <1>2 DEF TypeOK, Arrive
    <3> QED
      BY <3>1, Suffix, ZenonT(60)
  <2>2. Len(in_buffer_) = Len(received) - erased
    BY CursorDecides
  <2>3. ASSUME NEW i \in 1 .. Len(in_buffer_')
        PROVE  in_buffer_'[i] = received'[erased + i]
    <3>1. in_buffer_' = in_buffer_ \o data
      BY DEF processStream
    <3>2. CASE i <= Len(in_buffer_)
      <4>1. in_buffer_'[i] = in_buffer_[i]
        BY <1>1, <3>1, <3>2, ConcatProperties DEF TypeOK, DecoderTypeOK
      <4>2. in_buffer_[i] = received[erased + i]
        <5>1. \A k \in 1 .. Len(received) - erased : in_buffer_[k] = received[erased + k]
          BY Suffix DEF BufferIsTail, TypeOK
        <5>2. i \in 1 .. Len(received) - erased
          BY <2>2, <3>2
        <5> QED
          BY <5>1, <5>2
      <4>3. received'[erased + i] = received[erased + i]
        BY <1>1, <2>2, <3>2, ConcatProperties DEF TypeOK
      <4> QED
        BY <4>1, <4>2, <4>3
    <3>3. CASE i > Len(in_buffer_)
      <4>1. in_buffer_'[i] = data[i - Len(in_buffer_)]
        BY <1>1, <1>3, <3>1, <3>3, ConcatProperties DEF TypeOK, DecoderTypeOK
      <4>2. received'[erased + i] = data[erased + i - Len(received)]
        BY <1>1, <1>3, <2>2, <3>3, ConcatProperties DEF TypeOK, DecoderTypeOK
      <4> QED
        BY <2>2, <4>1, <4>2 DEF TypeOK
    <3>4. i <= Len(in_buffer_) \/ i > Len(in_buffer_)
      BY <1>3 DEF TypeOK, DecoderTypeOK
    <3> QED
      BY <3>2, <3>3, <3>4
  <2>4. Len(in_buffer_') = Len(received') - erased
    BY <1>1, <1>2, <1>3, <2>2 DEF TypeOK
  <2>5. in_buffer_' = SubSeq(received', erased + 1, Len(received'))
    BY <1>3, <2>1, <2>3, <2>4, SeqEqual, ZenonT(60)
  <2> QED
    BY <2>5 DEF BufferIsTail
<1>6. BoundedBuffer'
  BY DEF BoundedBuffer, processStream
<1>7. Cursor' = Cursor
  BY DEF Cursor, processStream, TypeOK, DecoderTypeOK
<1>8. Cursor \in 1 .. Len(received) + 1
  BY CursorDecides
<1>9. Decided'
  <2> SUFFICES ASSUME NEW p \in 1 .. Cursor - 1
               PROVE  \/ InvalidAt(received', p)
                      \/ \E k \in DOMAIN frames :
                           p \in frames[k] .. frames[k] + FrameSize - 1
    BY <1>7 DEF Decided
  <2>1. p \in 1 .. Len(received)
    BY <1>2, <1>8
  <2> QED
    BY <1>1, <1>2, <2>1, GrowthKeeps DEF Decided
<1>10. OnlyDisjointFrames'
  <2> SUFFICES ASSUME NEW k \in DOMAIN frames
               PROVE  ValidAt(received', frames[k])
    BY <1>7 DEF OnlyDisjointFrames
  <2>1. frames[k] \in 1 .. Len(received) /\ ValidAt(received, frames[k])
    BY DEF OnlyDisjointFrames, TypeOK
  <2> QED
    BY <1>1, <1>2, <2>1, GrowthKeeps
<1> QED
  BY <1>4, <1>5, <1>6, <1>7, <1>9, <1>10

(* A packet is taken where one stands in the stream.                       *)
LEMMA FindStep ==
  ASSUME IInv, FindPacket
  PROVE  /\ IInv'
         /\ ValidAt(received, Cursor)
         /\ Cursor' = Cursor + FrameSize
<1> USE DEF IInv
<1> PICK n \in Nat : n = Len(frames)
  BY DEF TypeOK
<1>1. /\ Cursor \in 1 .. Len(received) + 1
      /\ ValidAt(received, Cursor)
      /\ Len(in_buffer_) = Len(received) - erased
  BY CursorDecides DEF FindPacket, decodeBufferById
<1>2. Cursor + FrameSize - 1 <= Len(received)
  BY <1>1 DEF ValidAt, Complete
<1>3. Cursor' = Cursor + FrameSize
  BY FrameSizeType DEF Cursor, FindPacket, decodeBufferById, TypeOK, DecoderTypeOK
<1>4. /\ received' = received /\ erased' = erased /\ in_buffer_' = in_buffer_
      /\ frames' = Append(frames, Cursor)
  BY DEF FindPacket, decodeBufferById
<1>5. Cursor \in 1 .. Len(received)
  BY <1>1, <1>2, FrameSizeType DEF TypeOK
<1>6. TypeOK'
  <2>1. frames' \in Seq(1 .. Len(received))
    BY <1>4, <1>5 DEF TypeOK
  <2>2. offset' \in 0 .. Len(in_buffer_)
    BY <1>1, <1>2, FrameSizeType
       DEF FindPacket, decodeBufferById, TypeOK, DecoderTypeOK, Cursor
  <2>3. delivered' \in Seq(Byte) \union {NoPacket}
    <3>1. \A i \in offset + 2 .. offset + HeaderSize + PayloadSize : in_buffer_[i] \in Byte
      BY <1>1, <1>2, FrameAssumption
         DEF TypeOK, DecoderTypeOK, Cursor, FrameSize, HeaderSize
    <3>2. offset \in Int /\ HeaderSize + PayloadSize \in Int
      BY FrameAssumption DEF TypeOK, DecoderTypeOK, HeaderSize
    <3>3. SubSeq(in_buffer_, offset + 2, offset + HeaderSize + PayloadSize) \in Seq(Byte)
      BY <3>1, <3>2, SubSeqProperties, FrameAssumption DEF HeaderSize
    <3>4. /\ offset + 1 + 1 = offset + 2
          /\ offset + 1 + HeaderSize + PayloadSize - 1 = offset + HeaderSize + PayloadSize
      BY <3>2, FrameAssumption DEF HeaderSize
    <3>5. Body(in_buffer_, offset + 1) \in Seq(Byte)
      BY <3>3, <3>4 DEF Body
    <3> QED
      BY <3>5 DEF FindPacket, decodeBufferById
  <2> QED
    BY <1>4, <2>1, <2>2, <2>3
       DEF TypeOK, DecoderTypeOK, FindPacket, decodeBufferById
<1>7. BufferIsTail'
  BY <1>4 DEF BufferIsTail
<1>8. BoundedBuffer'
  BY DEF BoundedBuffer, FindPacket, decodeBufferById
<1>9. /\ DOMAIN frames' = 1 .. n + 1 /\ DOMAIN frames = 1 .. n
      /\ frames'[n + 1] = Cursor
      /\ \A k \in 1 .. n : frames'[k] = frames[k]
      /\ Len(frames') = n + 1
  BY <1>4 DEF TypeOK
<1>10. Decided'
  <2> SUFFICES ASSUME NEW p \in 1 .. Cursor' - 1, ~ InvalidAt(received, p)
               PROVE  \E k \in DOMAIN frames' :
                        p \in frames'[k] .. frames'[k] + FrameSize - 1
    BY <1>4 DEF Decided
  <2>1. CASE p < Cursor
    <3>1. PICK k \in 1 .. n : p \in frames[k] .. frames[k] + FrameSize - 1
      BY <1>9, <2>1, <1>1 DEF Decided
    <3> QED
      BY <1>9, <3>1
  <2>2. CASE p >= Cursor
    <3>1. p \in frames'[n + 1] .. frames'[n + 1] + FrameSize - 1
      BY <1>3, <1>9, <2>2, <1>1, FrameSizeType
    <3> QED
      BY <1>9, <3>1
  <2> QED
    BY <2>1, <2>2, <1>1
<1>11. OnlyDisjointFrames'
  <2> SUFFICES ASSUME NEW k \in 1 .. n + 1
               PROVE  /\ ValidAt(received, frames'[k])
                      /\ frames'[k] + FrameSize <=
                           IF k = n + 1 THEN Cursor' ELSE frames'[k + 1]
    BY <1>4, <1>9 DEF OnlyDisjointFrames
  <2>1. CASE k = n + 1
    BY <1>1, <1>3, <1>9, <2>1, FrameSizeType
  <2>2. CASE k \in 1 .. n - 1
    BY <1>9, <2>2 DEF OnlyDisjointFrames
  <2>3. CASE k = n /\ n > 0
    BY <1>9, <2>3 DEF OnlyDisjointFrames
  <2> QED
    BY <2>1, <2>2, <2>3
<1> QED
  BY <1>1, <1>3, <1>6, <1>7, <1>8, <1>10, <1>11

(* A byte is passed over where no packet can stand any more.               *)
LEMMA SkipStep ==
  ASSUME IInv, SkipByte
  PROVE  /\ IInv'
         /\ InvalidAt(received, Cursor)
         /\ Cursor' = Cursor + 1
<1> USE DEF IInv
<1>1. /\ Cursor \in 1 .. Len(received) + 1
      /\ InvalidAt(received, Cursor)
      /\ Len(in_buffer_) = Len(received) - erased
  BY CursorDecides DEF SkipByte, skipByte
<1>2. Cursor' = Cursor + 1
  BY DEF Cursor, SkipByte, skipByte, TypeOK, DecoderTypeOK
<1>3. /\ received' = received /\ erased' = erased /\ in_buffer_' = in_buffer_
      /\ frames' = frames
  BY DEF SkipByte, skipByte
<1>4. TypeOK'
  <2>1. offset + 1 <= Len(in_buffer_)
    BY DEF SkipByte, skipByte, InvalidAt
  <2> QED
    BY <1>3, <2>1 DEF TypeOK, DecoderTypeOK, SkipByte, skipByte
<1>5. BufferIsTail' /\ BoundedBuffer'
  BY <1>3 DEF BufferIsTail, BoundedBuffer, SkipByte, skipByte
<1>6. Decided'
  BY <1>1, <1>2, <1>3 DEF Decided
<1>7. OnlyDisjointFrames'
  <2>1. \A k \in DOMAIN frames : frames[k] \in Nat
    BY DEF TypeOK
  <2> QED
    BY <1>1, <1>2, <1>3, <2>1, FrameSizeType DEF OnlyDisjointFrames
<1> QED
  BY <1>1, <1>2, <1>4, <1>5, <1>6, <1>7

(* The end of a call leaves less than a packet in the buffer.              *)
LEMMA EraseStep ==
  ASSUME IInv, EraseProcessed
  PROVE  IInv' /\ Cursor' = Cursor
<1> USE DEF IInv
<1>1. Cursor' = Cursor
  BY DEF Cursor, EraseProcessed, eraseProcessed, TypeOK, DecoderTypeOK
<1>2. /\ received' = received /\ frames' = frames /\ erased' = erased + offset
      /\ in_buffer_' = SubSeq(in_buffer_, offset + 1, Len(in_buffer_))
      /\ scanning' = FALSE /\ offset' = 0
  BY DEF EraseProcessed, eraseProcessed
<1>3. Len(in_buffer_) = Len(received) - erased /\ in_buffer_ \in Seq(Byte)
      /\ offset \in 0 .. Len(in_buffer_) /\ erased \in Nat
  BY CursorDecides DEF TypeOK, DecoderTypeOK
<1>4. in_buffer_' \in Seq(Byte) /\ Len(in_buffer_') = Len(in_buffer_) - offset
  <2>1. 1 \in 1 .. Len(in_buffer_) - offset + 1
    BY <1>3
  <2> QED
    BY <1>2, <1>3, <2>1, TailDecides
<1>5. TypeOK'
  <2>1. DecoderTypeOK'
    <3>1. scanning' \in BOOLEAN /\ (~ scanning' => offset' = 0)
      BY <1>2
    <3>2. offset' \in 0 .. Len(in_buffer_')
      BY <1>2, <1>3, <1>4
    <3>3. callbacks' \subseteq PacketType /\ delivered' = NoPacket
      BY DEF TypeOK, DecoderTypeOK, EraseProcessed, eraseProcessed
    <3> QED
      BY <1>4, <3>1, <3>2, <3>3 DEF DecoderTypeOK
  <2>2. erased' \in 0 .. Len(received')
    BY <1>2, <1>3 DEF TypeOK
  <2> QED
    BY <1>2, <2>1, <2>2 DEF TypeOK
<1>6. BufferIsTail'
  <2>1. SubSeq(in_buffer_, offset + 1, Len(in_buffer_))
          = SubSeq(received, erased + offset + 1, Len(received))
    BY <1>3, SuffixOfSuffix DEF TypeOK, BufferIsTail
  <2> QED
    BY <1>2, <2>1 DEF BufferIsTail
<1>7. BoundedBuffer'
  <2>1. ~ Complete(in_buffer_, offset + 1)
    BY <1>3, FrameSizeType DEF EraseProcessed, eraseProcessed, ValidAt, InvalidAt, Complete
  <2> QED
    BY <1>3, <1>4, <2>1, FrameSizeType DEF BoundedBuffer, Complete
<1>8. Decided' /\ OnlyDisjointFrames'
  BY <1>1, <1>2 DEF Decided, OnlyDisjointFrames
<1> QED
  BY <1>1, <1>5, <1>6, <1>7, <1>8

LEMMA QuietStep ==
  ASSUME IInv, SetCallback \/ UNCHANGED vars
  PROVE  /\ IInv'
         /\ UNCHANGED <<received, erased, frames, Cursor>>
<1>1. UNCHANGED <<in_buffer_, offset, scanning, delivered, received, erased, frames>>
  BY DEF SetCallback, setCallback, vars, decoderVars
<1>2. callbacks' \subseteq PacketType
  BY DEF SetCallback, setCallback, vars, decoderVars, IInv, TypeOK, DecoderTypeOK
<1> QED
  BY <1>1, <1>2 DEF IInv, TypeOK, DecoderTypeOK, BufferIsTail, BoundedBuffer, Decided,
     OnlyDisjointFrames, Cursor

LEMMA StepIInv == IInv /\ [Next]_vars => IInv'
BY ArriveStep, FindStep, SkipStep, EraseStep, QuietStep DEF Next, ScanStep

(* Every place that was decided, or that still has a whole packet behind   *)
(* it between two calls, is accounted for.                                 *)
LEMMA NothingMissing ==
  ASSUME IInv PROVE NoFrameLost
<1> SUFFICES ASSUME NEW p \in 1 .. Len(received), ValidAt(received, p),
                    p < Cursor \/ ~ scanning
             PROVE  \E k \in DOMAIN frames :
                      p \in frames[k] .. frames[k] + FrameSize - 1
  BY DEF NoFrameLost
<1>1. Cursor \in 1 .. Len(received) + 1 /\ Len(in_buffer_) = Len(received) - erased
  BY CursorDecides DEF IInv
<1>2. ~ InvalidAt(received, p)
  BY DEF ValidAt, InvalidAt
<1>3. CASE p < Cursor
  BY <1>1, <1>2, <1>3 DEF IInv, Decided
<1>4. CASE ~ scanning /\ p >= Cursor
  <2>1. Cursor = erased + 1 /\ erased \in Nat
    BY <1>4 DEF IInv, TypeOK, DecoderTypeOK, Cursor
  <2>2. Len(received) - erased < FrameSize
    BY <1>1, <1>4 DEF IInv, BoundedBuffer
  <2>3. p + FrameSize - 1 <= Len(received)
    BY DEF ValidAt, Complete
  <2> QED
    BY <1>4, <2>1, <2>2, <2>3, FrameSizeType DEF IInv, TypeOK
<1> QED
  BY <1>1, <1>3, <1>4

-----------------------------------------------------------------------------
(* The walk along the stream. *)

LEMMA GrowthIsArrival ==
  ASSUME NEW s \in Seq(Byte), NEW t \in Seq(Byte)
  PROVE  Len(s) <= Len(s \o t) /\ SubSeq(s \o t, 1, Len(s)) = s
<1>1. CASE s = <<>>
  BY <1>1, SubSeqEmpty
<1>2. CASE s # <<>>
  <2> PICK n : n = Len(s)
    OBVIOUS
  <2>1. n \in 1 .. Len(s) /\ 1 \in 1 .. Len(s)
    BY <1>2
  <2>2. SubSeq(s \o t, 1, n) = SubSeq(s, 1, n)
    BY <2>1, SubSeqOfConcat1
  <2>3. SubSeq(s, 1, Len(s)) = s
    BY SubSeqFull
  <2> QED
    BY <2>2, <2>3
<1> QED
  BY <1>1, <1>2

LEMMA StepWalks == IInv /\ [Next]_vars => [Walk!Next]_(Walk!streamVars)
<1> SUFFICES ASSUME IInv, [Next]_vars PROVE [Walk!Next]_(Walk!streamVars)
  OBVIOUS
<1>1. CASE Arrive
  <2>1. PICK data \in Chunks : received' = received \o data /\ frames' = frames
    BY <1>1 DEF Arrive
  <2>2. data \in Seq(Byte) /\ received \in Seq(Byte)
    BY ChunksAssumption DEF IInv, TypeOK
  <2>3. Cursor' = Cursor
    BY <1>1, ArriveStep
  <2>4. Walk!Arrive
    BY <2>1, <2>2, <2>3, GrowthIsArrival DEF Walk!Arrive
  <2> QED
    BY <2>4 DEF Walk!Next
<1>2. CASE FindPacket
  <2>1. Walk!ValidAt(received, Cursor) /\ Cursor' = Cursor + Walk!FrameSize
    BY <1>2, FindStep
       DEF Walk!ValidAt, Walk!Complete, Walk!HeaderPossible, Walk!ReceivedCrc, Walk!Body,
           Walk!FrameSize, Walk!HeaderSize, Walk!PacketType, ValidAt, Complete,
           HeaderPossible, ReceivedCrc, Body, FrameSize, HeaderSize, PacketType
  <2>2. Walk!Take
    BY <1>2, <2>1 DEF FindPacket, Walk!Take
  <2> QED
    BY <2>2 DEF Walk!Next
<1>3. CASE SkipByte
  <2>1. Walk!InvalidAt(received, Cursor) /\ Cursor' = Cursor + 1
    BY <1>3, SkipStep
       DEF Walk!InvalidAt, Walk!Complete, Walk!HeaderPossible, Walk!ReceivedCrc, Walk!Body,
           Walk!FrameSize, Walk!HeaderSize, Walk!PacketType, InvalidAt, Complete,
           HeaderPossible, ReceivedCrc, Body, FrameSize, HeaderSize, PacketType
  <2>2. Walk!Skip
    BY <1>3, <2>1 DEF SkipByte, Walk!Skip
  <2> QED
    BY <2>2 DEF Walk!Next
<1>4. CASE EraseProcessed
  BY <1>4, EraseStep DEF EraseProcessed, Walk!streamVars
<1>5. CASE SetCallback \/ UNCHANGED vars
  BY <1>5, QuietStep DEF Walk!streamVars
<1> QED
  BY <1>1, <1>2, <1>3, <1>4, <1>5 DEF Next, ScanStep

(* What a callback is given, and that it stays what the last packet found  *)
(* contains.                                                               *)
LEMMA FindDelivers ==
  ASSUME IInv, FindPacket
  PROVE  DeliversFrames'
<1> SUFFICES ASSUME delivered' # NoPacket
             PROVE  /\ delivered' = Body(received, Cursor)
                    /\ delivered'[1] \in callbacks
  <2> PICK n \in Nat : n = Len(frames)
    BY DEF IInv, TypeOK
  <2>1. Cursor \in 1 .. Len(received)
    <3>1. ValidAt(received, Cursor) /\ Cursor \in 1 .. Len(received) + 1
      BY FindStep, CursorDecides DEF IInv
    <3> QED
      BY <3>1, FrameSizeType DEF ValidAt, Complete, IInv, TypeOK
  <2>2. frames' = Append(frames, Cursor) /\ received' = received /\ callbacks' = callbacks
    BY DEF FindPacket, decodeBufferById
  <2>3. frames'[Len(frames')] = Cursor
    BY <2>1, <2>2 DEF IInv, TypeOK
  <2> QED
    BY <2>2, <2>3 DEF DeliversFrames, Body
<1>1. /\ ValidAt(in_buffer_, offset + 1)
      /\ delivered' = Body(in_buffer_, offset + 1)
      /\ in_buffer_[offset + 2] \in callbacks
  BY DEF FindPacket, decodeBufferById
<1>2. Complete(received, Cursor)
  BY FindStep DEF ValidAt
<1>3. Body(in_buffer_, offset + 1) = Body(received, Cursor)
  BY <1>2, CursorDecides DEF IInv
<1>4. Body(in_buffer_, offset + 1)[1] = in_buffer_[offset + 2]
  <2> PICK first \in Nat, last \in Nat :
        first = offset + 2 /\ last = offset + 1 + HeaderSize + PayloadSize - 1
    BY FrameAssumption DEF IInv, TypeOK, DecoderTypeOK, HeaderSize
  <2>1. first <= last /\ last <= Len(in_buffer_) /\ first >= 1 /\ in_buffer_ \in Seq(Byte)
    BY <1>1, FrameAssumption
       DEF ValidAt, Complete, FrameSize, HeaderSize, IInv, TypeOK, DecoderTypeOK
  <2>2. \A i \in first .. last : in_buffer_[i] \in Byte
    BY <2>1
  <2>3. \A i \in 1 .. last - first + 1 :
           SubSeq(in_buffer_, first, last)[i] = in_buffer_[first + i - 1]
    BY <2>2, SubSeqProperties
  <2>4. SubSeq(in_buffer_, first, last)[1] = in_buffer_[first + 1 - 1]
    BY <2>1, <2>3
  <2>5. Body(in_buffer_, offset + 1) = SubSeq(in_buffer_, first, last)
    <3>1. offset + 1 + 1 = first
      BY DEF IInv, TypeOK, DecoderTypeOK
    <3> QED
      BY <3>1 DEF Body
  <2>6. first + 1 - 1 = offset + 2
    BY DEF IInv, TypeOK, DecoderTypeOK
  <2>7. SubSeq(in_buffer_, first, last)[1] = in_buffer_[offset + 2]
    BY <2>4, <2>6
  <2> QED
    BY <2>5, <2>7, Zenon
<1> QED
  BY <1>1, <1>3, <1>4

LEMMA StepDelivers == IInv /\ DeliversFrames /\ [Next]_vars => DeliversFrames'
<1> SUFFICES ASSUME IInv, DeliversFrames, [Next]_vars PROVE DeliversFrames'
  OBVIOUS
<1>1. CASE FindPacket
  BY <1>1, FindDelivers
<1>2. CASE Arrive \/ SkipByte \/ EraseProcessed
  <2>1. delivered' = NoPacket
    BY <1>2 DEF Arrive, SkipByte, EraseProcessed, processStream, skipByte, eraseProcessed
  <2> QED
    BY <2>1 DEF DeliversFrames
<1>3. CASE SetCallback \/ UNCHANGED vars
  <2>1. UNCHANGED <<delivered, received, frames>> /\ callbacks \subseteq callbacks'
    BY <1>3 DEF SetCallback, setCallback, vars, decoderVars
  <2> QED
    BY <2>1 DEF DeliversFrames, Body
<1> QED
  BY <1>1, <1>2, <1>3 DEF Next, ScanStep

(* A callback is only given the contents of a packet that stands in the    *)
(* stream, byte for byte, and of the type it was set for                   *)
(* (servo_protocol_decoder.cpp:66-94, 225-292).                            *)
THEOREM DeliversWhatStands == Spec => []DeliversFrames
<1>1. Init => DeliversFrames
  BY DEF Init, DecoderInit, DeliversFrames
<1> QED
  BY <1>1, InitIInv, StepIInv, StepDelivers, PTL DEF Spec

(* Type correctness: the cursor never leaves the buffer, whatever arrives  *)
(* (servo_protocol_decoder.cpp:31-63).                                     *)
THEOREM TypeCorrect == Spec => []TypeOK
<1>1. IInv => TypeOK
  BY DEF IInv
<1> QED
  BY <1>1, InitIInv, StepIInv, PTL DEF Spec

(* The buffer never holds anything but the bytes that were received and    *)
(* not yet consumed (servo_protocol_decoder.cpp:31-63).                    *)
THEOREM BufferHoldsTail == Spec => []BufferIsTail
<1>1. IInv => BufferIsTail
  BY DEF IInv
<1> QED
  BY <1>1, InitIInv, StepIInv, PTL DEF Spec

(* The buffer of an idle decoder is shorter than a packet, however long    *)
(* and however malformed the stream is (servo_protocol_decoder.cpp:60-63). *)
THEOREM BufferStaysBounded == Spec => []BoundedBuffer
<1>1. IInv => BoundedBuffer
  BY DEF IInv
<1> QED
  BY <1>1, InitIInv, StepIInv, PTL DEF Spec

(* Whenever processStream has returned, every packet that has arrived in   *)
(* full was taken or begins inside one that was: noise, chunk boundaries   *)
(* and false sync bytes lose nothing (servo_protocol_decoder.cpp:38-58).   *)
THEOREM NothingLost == Spec => []NoFrameLost
BY NothingMissing, InitIInv, StepIInv, PTL DEF Spec

(* No packet is invented and no byte is used for two packets.              *)
THEOREM FramesAreReal == Spec => []OnlyDisjointFrames
<1>1. IInv => OnlyDisjointFrames
  BY DEF IInv
<1> QED
  BY <1>1, InitIInv, StepIInv, PTL DEF Spec

(* The buffered, chunked and erased scan implements the walk along the     *)
(* stream: its initial state is the walk's, and each of its steps is one   *)
(* of the walk's or changes nothing there.                                 *)
THEOREM RefinesWalk == Spec => WalksSafely
<1>1. Init => Walk!Init
  BY DEF Init, DecoderInit, Cursor, Walk!Init
<1> QED
  BY <1>1, InitIInv, StepIInv, StepWalks, PTL DEF Spec, WalksSafely
=============================================================================
