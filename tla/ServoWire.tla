------------------------------- MODULE ServoWire -------------------------------
(***************************************************************************)
(* A command on its way from the host to the firmware and a status on its  *)
(* way back, with the packets, the CRC and the conversions as they are.    *)
(* The line may flip bits of a packet.  The conversions keep nothing from  *)
(* one packet to the next: a behaviour is one round trip from power-up.    *)
(* How the decoders find a packet in a stream is in HostStream and         *)
(* FirmwareStream, how the servos move is in FirmwareTasks.                *)
(***************************************************************************)
EXTENDS Codec, Crc

CONSTANTS
  Commands,      (* the angles of all servos that the host commands          *)
  Moves,         (* how far the servos may stand from their targets          *)
  Damage         (* sets of bits that are flipped together, counted from 0   *)

Packets == INSTANCE Framing WITH
  SyncByte <- 255, CommandId <- 0, StatusId <- 40,
  PayloadSize <- 8, CrcSize <- 2, CRC16 <- calculateCRC16

ASSUME AnglesAssumption ==
  /\ Commands \subseteq [Servo -> Int]
  /\ Moves \subseteq Int

ASSUME DamageAssumption ==
  \A bits \in Damage : bits # {} /\ bits \subseteq 0 .. 8 * Packets!FrameSize - 1

(* Flipped bits as a polynomial (Crc).  A packet shows that bits of it     *)
(* were flipped if one is in the sync byte, and else if the generator of   *)
(* the CRC does not divide them.                                           *)
Errors(bits) == {8 * Packets!FrameSize - 1 - bit : bit \in bits}

Detectable(bits) ==
  \/ \E bit \in bits : bit < 8
  \/ Remainder(Errors(bits), 8 * Packets!FrameSize - 9) # {}

ASSUME DetectableAssumption == \A bits \in Damage : Detectable(bits)

VARIABLES
  leg,           (* how far the round trip is                                *)
  wire,          (* the packet under way, or <<>>                            *)
  flipped,       (* its bits that the line has flipped                       *)
  wanted,        (* angles commanded                                         *)
  targets,       (* targets of the firmware                                  *)
  positions,     (* the firmware's angles when it publishes                  *)
  shown          (* positions the host decoded                               *)

vars == <<leg, wire, flipped, wanted, targets, positions, shown>>

(* 1.5708 rad. *)
InitialPositions == [servo \in Servo |-> 15708 * Unit]

Init ==
  /\ leg = "start"
  /\ wire = <<>>
  /\ flipped = {}
  /\ wanted = InitialPositions
  /\ targets = InitialPositions
  /\ positions = InitialPositions
  /\ shown = [servo \in Servo |-> 0]

encodeServoCommandPacket(angles) ==
  Packets!Frame(0, PayloadOf([servo \in Servo |-> encodeCommandAngle(angles[servo])]))

publishServoState(angles, falls) ==
  Packets!Frame(40,
    PayloadOf([servo \in Servo |-> publishedRaw(angles[servo], servo \in falls)]))

SendCommand(angles) ==
  /\ leg = "start"
  /\ leg' = "command"
  /\ wanted' = angles
  /\ wire' = encodeServoCommandPacket(angles)
  /\ UNCHANGED <<flipped, targets, positions, shown>>

(* The profiler publishes when the servos have come near their targets. *)
SendStatus(move, falls) ==
  /\ leg = "taken"
  /\ leg' = "status"
  /\ positions' = [servo \in Servo |-> Clip(0, targets[servo] + move, Pi)]
  /\ wire' = publishServoState(positions', falls)
  /\ UNCHANGED <<flipped, wanted, targets, shown>>

(* Bit 0 is the highest bit of the first byte. *)
FlipBits(packet, bits) ==
  [i \in DOMAIN packet |->
     ByteOf(SymDiff(OnesOf(packet[i]), {place \in 0 .. 7 : 8 * i - 1 - place \in bits}))]

DamagePacket(bits) ==
  /\ wire # <<>>
  /\ flipped = {}
  /\ flipped' = bits
  /\ wire' = FlipBits(wire, bits)
  /\ UNCHANGED <<leg, wanted, targets, positions, shown>>

(* Slip: the CRC is cut to eight bits before it is compared. *)
AcceptsLowCrc(packet, type) ==
  /\ Packets!HeaderPossible(packet, 1)
  /\ packet[2] = type
  /\ Packets!ReceivedCrc(packet, 1)[2] = calculateCRC16(Packets!Body(packet, 1))[2]

(* Each end takes the valid packets of the type it handles. *)
Accepts(packet, type) == Packets!ValidAt(packet, 1) /\ packet[2] = type

Payload == SubSeq(wire, 3, 10)

TakeCommand ==
  /\ leg = "command"
  /\ leg' = "taken"
  /\ targets' = IF Accepts(wire, 0) THEN handleServoCommand(Payload) ELSE targets
  /\ wire' = <<>>
  /\ flipped' = {}
  /\ UNCHANGED <<wanted, positions, shown>>

TakeStatus ==
  /\ leg = "status"
  /\ leg' = "done"
  /\ shown' = IF Accepts(wire, 40) THEN decode(Payload) ELSE shown
  /\ wire' = <<>>
  /\ flipped' = {}
  /\ UNCHANGED <<wanted, targets, positions>>

Next ==
  \/ \E angles \in Commands : SendCommand(angles)
  \/ \E move \in Moves, falls \in SUBSET Servo : SendStatus(move, falls)
  \/ \E bits \in Damage : DamagePacket(bits)
  \/ TakeCommand
  \/ TakeStatus

Spec == Init /\ [][Next]_vars

-----------------------------------------------------------------------------
(* What the loop over bits calculates is the CRC of the algebra: the CRC   *)
(* of a packet, damaged or not, is right exactly if the generator divides  *)
(* the packet (main.cpp:118-135).                                          *)
CrcIsRemainder ==
  wire # <<>> =>
    (Packets!ReceivedCrc(wire, 1) = calculateCRC16(Packets!Body(wire, 1)) <=>
       Remainder(Codeword(Tail(wire)), 8 * (Len(wire) - 1) - 1) = {})

(* A packet in which the line has flipped bits moves no servo and changes  *)
(* no state on the host (main.cpp:350-356, servo_protocol_decoder.cpp:     *)
(* 123-134).                                                               *)
DamageRejected ==
  [][wire' = <<>> /\ flipped # {} => UNCHANGED <<targets, shown>>]_vars

Within(a, b, distance) == a - b <= distance /\ b - a <= distance

(* Wherever a command below a full turn points, the target is the nearest  *)
(* place the servo can take, to half a unit of the protocol (servo_        *)
(* protocol_decoder.cpp:176-180, main.cpp:299-317).                        *)
CommandKept ==
  [][TakeCommand /\ flipped = {} =>
       \A servo \in Servo : wanted[servo] < TwoPi =>
         Within(targets'[servo], Clip(0, wanted[servo], Pi), Unit \div 2)]_vars

(* The state the host shows lies at most one unit of the protocol below    *)
(* the position the firmware had, and never above it (main.cpp:191-194,    *)
(* servo_protocol_decoder.cpp:257-263).                                    *)
StatusKept ==
  [][TakeStatus /\ flipped = {} =>
       \A servo \in Servo : positions[servo] - shown'[servo] \in 0 .. Unit]_vars

(* 500 and 2500 us of a period of 20000 us, in 1/2^14 of it.               *)
ShortestPulse == 409
LongestPulse == 2048
Pulse == ShortestPulse .. LongestPulse

(* Of two servos the one commanded further gets no shorter a pulse, and    *)
(* all pulses are within the servo's 500 to 2500 us (main.cpp:143-172).    *)
PulsesInOrder ==
  [][TakeCommand /\ flipped = {} =>
       \A servo \in Servo :
         /\ anglesToDutyCycle(targets'[servo]) \in Pulse
         /\ \A other \in Servo : wanted[servo] <= wanted[other] /\ wanted[other] < TwoPi =>
              anglesToDutyCycle(targets'[servo]) <= anglesToDutyCycle(targets'[other])]_vars

-----------------------------------------------------------------------------
(* The inductive invariant.  A packet that the line has left alone is the  *)
(* encoding of what was sent, one it has damaged is a valid packet with    *)
(* some bits flipped, and the servos are where servos can be.              *)
Reachable == 0 .. Pi

CommandUnderWay ==
  /\ wanted \in [Servo -> Int]
  /\ leg = "command" /\ flipped = {} => wire = encodeServoCommandPacket(wanted)

(* A packet is on the line in two of the legs only; with the bits back     *)
(* that the line has flipped it is a valid one.                            *)
DamageUnderWay ==
  /\ leg \notin {"command", "status"} => wire = <<>> /\ flipped = {}
  /\ leg \in {"command", "status"} => wire \in [1 .. Packets!FrameSize -> Byte]
  /\ flipped # {} => flipped \in Damage /\ Packets!ValidAt(FlipBits(wire, flipped), 1)

StatusUnderWay ==
  /\ targets \in [Servo -> Reachable]
  /\ positions \in [Servo -> Reachable]
  /\ leg = "status" /\ flipped = {} =>
       \E falls \in SUBSET Servo : wire = publishServoState(positions, falls)

RoundTrip == CommandUnderWay /\ DamageUnderWay /\ StatusUnderWay
=============================================================================
