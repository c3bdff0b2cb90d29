------------------------ MODULE ServoProtocolDecoder ------------------------
(***************************************************************************)
(* The host's decoder (servo_protocol_decoder.cpp).  Bytes arrive in       *)
(* chunks of any size; processStream appends a chunk to the buffer, scans  *)
(* the buffer, calls the callback of every packet found, and erases what   *)
(* it has consumed.  The scan is one action per iteration of its loop.     *)
(***************************************************************************)
EXTENDS Framing

CONSTANTS
  Chunks,        (* chunks the serial port may hand over                     *)
  NoPacket       (* no packet was delivered                                  *)

ASSUME ChunksAssumption == Chunks \subseteq Seq(Byte)

VARIABLES
  in_buffer_,
  offset,        (* of processStream, 0 outside of it                        *)
  scanning,      (* processStream is running                                 *)
  callbacks,     (* packet types whose callback is set                       *)
  delivered      (* body handed to a callback by the last step, or NoPacket  *)

decoderVars == <<in_buffer_, offset, scanning, callbacks, delivered>>

DecoderInit ==
  /\ in_buffer_ = <<>>
  /\ offset = 0
  /\ scanning = FALSE
  /\ callbacks = {}
  /\ delivered = NoPacket

(* setServoStatusCallback, setServoCommandCallback. *)
setCallback(type) ==
  /\ ~ scanning
  /\ callbacks' = callbacks \union {type}
  /\ UNCHANGED <<in_buffer_, offset, scanning, delivered>>

(* processStream is called with a chunk. *)
processStream(data) ==
  /\ ~ scanning
  /\ in_buffer_' = in_buffer_ \o data
  /\ offset' = 0
  /\ scanning' = TRUE
  /\ delivered' = NoPacket
  /\ UNCHANGED callbacks

(* Slips: the byte after the packet goes with it; only the header is       *)
(* passed over; the contents are taken from the buffer's beginning.        *)
decodeBufferOverrun ==
  /\ scanning
  /\ ValidAt(in_buffer_, offset + 1)
  /\ delivered' = NoPacket
  /\ offset' = offset + FrameSize + 1
  /\ UNCHANGED <<in_buffer_, scanning, callbacks>>

decodeBufferHeaderOnly ==
  /\ scanning
  /\ ValidAt(in_buffer_, offset + 1)
  /\ delivered' = NoPacket
  /\ offset' = offset + HeaderSize
  /\ UNCHANGED <<in_buffer_, scanning, callbacks>>

decodeBufferFront ==
  /\ scanning
  /\ ValidAt(in_buffer_, offset + 1)
  /\ delivered' = IF in_buffer_[offset + 2] \in callbacks
                  THEN Body(in_buffer_, 1) ELSE NoPacket
  /\ offset' = offset + FrameSize
  /\ UNCHANGED <<in_buffer_, scanning, callbacks>>

(* A packet: decodeBufferById calls its callback, if there is one, and the *)
(* scan goes on after the packet.                                          *)
decodeBufferById ==
  /\ scanning
  /\ ValidAt(in_buffer_, offset + 1)
  /\ delivered' = IF in_buffer_[offset + 2] \in callbacks
                  THEN Body(in_buffer_, offset + 1) ELSE NoPacket
  /\ offset' = offset + FrameSize
  /\ UNCHANGED <<in_buffer_, scanning, callbacks>>

(* Slip: a byte that begins no packet condemns all that follow it. *)
skipBuffer ==
  /\ scanning
  /\ InvalidAt(in_buffer_, offset + 1)
  /\ offset' = Len(in_buffer_)
  /\ delivered' = NoPacket
  /\ UNCHANGED <<in_buffer_, scanning, callbacks>>

(* Not a packet: the scan goes on at the next byte. *)
skipByte ==
  /\ scanning
  /\ InvalidAt(in_buffer_, offset + 1)
  /\ offset' = offset + 1
  /\ delivered' = NoPacket
  /\ UNCHANGED <<in_buffer_, scanning, callbacks>>

(* Slips: one byte too many is erased; an incomplete packet is erased.     *)
eraseOneMore ==
  /\ scanning
  /\ ~ ValidAt(in_buffer_, offset + 1) /\ ~ InvalidAt(in_buffer_, offset + 1)
  /\ in_buffer_' = SubSeq(in_buffer_, offset + 2, Len(in_buffer_))
  /\ offset' = 0 /\ scanning' = FALSE /\ delivered' = NoPacket
  /\ UNCHANGED callbacks

eraseAll ==
  /\ scanning
  /\ ~ ValidAt(in_buffer_, offset + 1) /\ ~ InvalidAt(in_buffer_, offset + 1)
  /\ in_buffer_' = <<>>
  /\ offset' = 0 /\ scanning' = FALSE /\ delivered' = NoPacket
  /\ UNCHANGED callbacks

(* The end of the buffer or an incomplete packet ends the scan. *)
eraseProcessed ==
  /\ scanning
  /\ ~ ValidAt(in_buffer_, offset + 1)
  /\ ~ InvalidAt(in_buffer_, offset + 1)
  /\ in_buffer_' = SubSeq(in_buffer_, offset + 1, Len(in_buffer_))
  /\ offset' = 0
  /\ scanning' = FALSE
  /\ delivered' = NoPacket
  /\ UNCHANGED callbacks

Scan == decodeBufferById \/ skipByte \/ eraseProcessed

(* Buffer and cursor of a decoder between and within calls. *)
DecoderTypeOK ==
  /\ in_buffer_ \in Seq(Byte)
  /\ scanning \in BOOLEAN
  /\ offset \in 0 .. Len(in_buffer_)
  /\ ~ scanning => offset = 0
  /\ callbacks \subseteq PacketType
  /\ delivered \in Seq(Byte) \union {NoPacket}
=============================================================================
