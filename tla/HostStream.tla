----------------------------- MODULE HostStream -----------------------------
(***************************************************************************)
(* The host's decoder and the history of the stream it was given: what     *)
(* processStream makes of a stream, however the stream is cut into chunks. *)
(* The history variables copy what the decoder's actions do and never      *)
(* influence them.                                                         *)
(***************************************************************************)
EXTENDS ServoProtocolDecoder

CONSTANT MaxStream     (* bound on the length of the stream                  *)

ASSUME MaxStreamAssumption == MaxStream \in Nat

VARIABLES
  received,      (* every byte handed to processStream                       *)
  erased,        (* how many of them the buffer no longer holds              *)
  frames         (* places in received of the packets found                  *)

vars == <<decoderVars, received, erased, frames>>

Init ==
  /\ DecoderInit
  /\ received = <<>>
  /\ erased = 0
  /\ frames = <<>>

(* Place in the stream of the byte the scan looks at. *)
Cursor == erased + offset + 1

SetCallback ==
  /\ \E type \in PacketType : setCallback(type)
  /\ UNCHANGED <<received, erased, frames>>

Arrive ==
  \E data \in Chunks :
    /\ Len(received) + Len(data) <= MaxStream
    /\ processStream(data)
    /\ received' = received \o data
    /\ UNCHANGED <<erased, frames>>

FindPacket ==
  /\ decodeBufferById
  /\ frames' = Append(frames, Cursor)
  /\ UNCHANGED <<received, erased>>

SkipByte == skipByte /\ UNCHANGED <<received, erased, frames>>

EraseProcessed ==
  /\ eraseProcessed
  /\ erased' = erased + offset
  /\ UNCHANGED <<received, frames>>

ScanStep == FindPacket \/ SkipByte \/ EraseProcessed

Next == SetCallback \/ Arrive \/ ScanStep

(* processStream runs to its end once called. *)
Spec == Init /\ [][Next]_vars /\ WF_vars(ScanStep)

-----------------------------------------------------------------------------
TypeOK ==
  /\ DecoderTypeOK
  /\ received \in Seq(Byte)
  /\ erased \in 0 .. Len(received)
  /\ frames \in Seq(1 .. Len(received))

(* The buffer is always the part of the stream that was not erased.        *)
BufferIsTail == in_buffer_ = SubSeq(received, erased + 1, Len(received))

(* Between calls the buffer holds less than one packet: it cannot grow     *)
(* with the stream, whatever arrives (servo_protocol_decoder.cpp:60-63).   *)
BoundedBuffer == ~ scanning => Len(in_buffer_) < FrameSize

(* What the scan passed over is decided for good: every packet that stands *)
(* in the part of the stream before the cursor was taken, or begins inside *)
(* one that was.  Between calls the cursor is at the first place that is   *)
(* still undecided, so no packet that has arrived in full is missing.      *)
NoFrameLost ==
  \A p \in 1 .. Len(received) :
    ValidAt(received, p) /\ (p < Cursor \/ ~ scanning) =>
      \E k \in DOMAIN frames : p \in frames[k] .. frames[k] + FrameSize - 1

(* The same as an inductive statement: a place before the cursor is not a  *)
(* packet, whatever still arrives, or lies inside one that was taken.      *)
Decided ==
  \A p \in 1 .. Cursor - 1 :
    \/ InvalidAt(received, p)
    \/ \E k \in DOMAIN frames : p \in frames[k] .. frames[k] + FrameSize - 1

(* Every packet taken stands in the stream, and no byte is in two of them. *)
OnlyDisjointFrames ==
  \A k \in DOMAIN frames :
    /\ ValidAt(received, frames[k])
    /\ frames[k] + FrameSize <= IF k = Len(frames) THEN Cursor ELSE frames[k + 1]

(* What a callback is given is the contents of a packet of the type it was *)
(* set for, byte for byte as in the stream.                                *)
DeliversFrames ==
  delivered # NoPacket =>
    /\ delivered = Body(received, frames[Len(frames)])
    /\ delivered[1] \in callbacks

(* The decoder implements the walk along the stream: how the stream is cut *)
(* into chunks and when the buffer is erased makes no difference to the    *)
(* packets found (tests "OneByteAtATime", "WithGarbage").                  *)
Walk == INSTANCE FrameStream WITH stream <- received, cursor <- Cursor

WalksStream == Walk!Spec

(* The part of it that needs no fairness. *)
WalksSafely == Walk!Init /\ [][Walk!Next]_(Walk!streamVars)
=============================================================================
