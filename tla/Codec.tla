--------------------------------- MODULE Codec ---------------------------------
(***************************************************************************)
(* What becomes of an angle on its way: the host's encoders and decoders   *)
(* (servo_protocol_decoder.cpp), the firmware's conversions and the duty   *)
(* of the PWM outputs (servo_embedded/src/main.cpp).                       *)
(*                                                                         *)
(* Angles are integers in quarters of the protocol's unit of 1/10000 rad,  *)
(* fine enough to tell rounding from truncation.  Pi is no whole number of *)
(* them: Pi and TwoPi are the quarters that have passed below it.          *)
(***************************************************************************)
EXTENDS Integers, Sequences

Unit == 4
Pi == 125663
TwoPi == 251327

Servo == 1 .. 4
Byte == 0 .. 255
MaxRaw == 65535
Raw == 0 .. MaxRaw

Clip(lo, x, hi) == IF x < lo THEN lo ELSE IF x > hi THEN hi ELSE x

(* std::fmod: the remainder has the sign of x. *)
fmod(x, y) == IF x < 0 THEN -((-x) % y) ELSE x % y

(* static_cast<std::uint16_t>(std::round(angle * 10000)) of an angle that  *)
(* is not negative.                                                        *)
RoundToRaw(angle) == ((angle + Unit \div 2) \div Unit) % (MaxRaw + 1)

(* encode_angle of encodeServoCommandPacket: negative angles become zero,  *)
(* angles beyond a turn begin again.                                       *)
encodeCommandAngle(angle) == RoundToRaw(Clip(0, fmod(angle, TwoPi), TwoPi))

(* Slip: low byte first. *)
pushLittleEndian(raw) == <<raw % 256, raw \div 256>>

(* PacketBufferBuilder::push of sixteen bits. *)
push(raw) == <<raw \div 256, raw % 256>>

(* The bytes of the values of all servos, one value after the other, and   *)
(* the value of one servo.                                                 *)
PayloadOf(raw) == [i \in 1 .. 8 |-> push(raw[(i + 1) \div 2])[2 - (i % 2)]]

RawAt(payload, servo) == 256 * payload[2 * servo - 1] + payload[2 * servo]

(* decodeServoStatusPacket, decodeServoCommandPacket. *)
decode(payload) == [servo \in Servo |-> RawAt(payload, servo) * Unit]

-----------------------------------------------------------------------------
(* The firmware. *)

(* Slip: an angle beyond half a turn begins again at zero.                  *)
scaleAndClipModulo(raw) == (raw * Unit) % Pi

(* Slip: the angle is not clipped. *)
scaleOnly(raw) == raw * Unit

scaleAndClip(raw) == Clip(0, raw * Unit, Pi)

(* handleServoCommand, up to the queue. *)
handleServoCommand(payload) == [servo \in Servo |-> scaleAndClip(RawAt(payload, servo))]

(* Slip: the status is rounded. *)
publishedRawRounded(angle, falls) == (angle + Unit \div 2) \div Unit

(* publishServoState truncates angle * 10000.  An angle that is a whole    *)
(* number of units came about as a quotient by 10000, and in doubles its   *)
(* product with 10000 falls below that number for some angles (falls).     *)
publishedRaw(angle, falls) ==
  IF falls /\ angle > 0 /\ angle % Unit = 0 THEN angle \div Unit - 1 ELSE angle \div Unit

(* A pulse of 500 us and up to 2000 us more for half a turn, as a part of  *)
(* the 20000 us of a period, in 1/2^14 of it.                              *)
anglesToDutyCycle(angle) == (2048 * (Pi + 4 * Clip(0, angle, Pi))) \div (5 * Pi)
=============================================================================
