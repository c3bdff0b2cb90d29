--------------------------- MODULE ControlLoopProofs ---------------------------
(***************************************************************************)
(* ControlLoop for any joints, angles, queue lengths and any number of     *)
(* faults.                                                                 *)
(***************************************************************************)
EXTENDS ControlLoop, CommandInterfacesProofs, TLAPS

(* What a packet carries, and a joint that is centred, are angles.         *)
LEMMA PacketsAreAngles ==
  /\ Packet \subseteq [Joint -> Angle]
  /\ AllZero \in Packet
  /\ [j \in Joint |-> InitialAngle] \in [Joint -> Angle]
BY AnglesAssumption DEF Packet, AllZero, Stored

(* The commands of the loop are those of the component.                    *)
LEMMA CommandsOfLoop ==
  ASSUME [Next]_vars
  PROVE  [CommandNext]_commandVars
<1>1. CASE SwitchControllers
  <2>1. SwitchStep
    BY <1>1 DEF SwitchControllers, SwitchStep
  <2> QED
    BY <2>1 DEF CommandNext
<1>2. CASE Cycle \/ SendPacket
  BY <1>2 DEF Cycle, SendPacket, CommandNext
<1>3. CASE DeliverPacket \/ MoveServos \/ Publish \/ ReadStatus
  BY <1>3 DEF DeliverPacket, MoveServos, Publish, ReadStatus
<1>4. CASE LosePacket \/ LoseStatus \/ Restart
  BY <1>4 DEF LosePacket, LoseStatus, Restart, Fault
<1>5. CASE UNCHANGED vars
  BY <1>5 DEF vars
<1> QED
  BY <1>1, <1>2, <1>3, <1>4, <1>5 DEF Next

LEMMA LoopTypesStep ==
  ASSUME LoopTypeOK, [Next]_vars
  PROVE  LoopTypeOK'
<1> USE DEF LoopTypeOK, firmwareVars, lineVars
<1>1. CommandTypeOK'
  BY CommandsOfLoop, CommandTypesStep
<1>2. CASE SwitchControllers \/ Cycle
  BY <1>1, <1>2 DEF SwitchControllers, Cycle
<1>3. CASE SendPacket
  <2>1. Head(command_queue_) \in Packet
    BY <1>3 DEF SendPacket, Pop, CommandTypeOK
  <2> QED
    BY <1>1, <1>3, <2>1 DEF SendPacket
<1>4. CASE DeliverPacket
  <2>1. PICK packet \in Packet : line = <<packet>>
    BY <1>4 DEF DeliverPacket
  <2>2. CASE inStep /\ Len(queue) < Depth
    <3>1. queue' = Append(queue, packet) /\ UNCHANGED <<target, position, status>>
      BY <1>4, <2>1, <2>2 DEF DeliverPacket, Firmware!Accept
    <3>2. queue' \in Seq(Packet) /\ Len(queue') <= Depth
      BY <2>2, <3>1, BoundsAssumption
    <3> QED
      BY <1>1, <1>4, <3>1, <3>2 DEF DeliverPacket, Resynchronise
  <2>3. CASE ~ (inStep /\ Len(queue) < Depth)
    BY <1>1, <1>4, <2>3 DEF DeliverPacket, Resynchronise
  <2> QED
    BY <2>2, <2>3
<1>5. CASE MoveServos
  <2>1. /\ queue' \in Seq(Packet) /\ Len(queue') <= Depth
        /\ target' \in [Joint -> Angle]
    <3>1. CASE queue = <<>>
      BY <1>5, <3>1 DEF MoveServos, Firmware!Move
    <3>2. CASE queue # <<>>
      <4>1. queue' = Tail(queue) /\ target' = Head(queue)
        BY <1>5, <3>2 DEF MoveServos, Firmware!Move
      <4>2. Tail(queue) \in Seq(Packet) /\ Len(Tail(queue)) <= Depth /\ Head(queue) \in Packet
        BY <3>2, BoundsAssumption
      <4> QED
        BY <4>1, <4>2, PacketsAreAngles
    <3> QED
      BY <3>1, <3>2
  <2>2. position' \in [Joint -> Angle] /\ UNCHANGED status
    BY <1>5 DEF MoveServos, Firmware!Move, Firmware!Positions
  <2> QED
    BY <1>1, <1>5, <2>1, <2>2 DEF MoveServos
<1>6. CASE Publish
  BY <1>1, <1>6 DEF Publish, Firmware!Publish
<1>7. CASE ReadStatus
  BY <1>1, <1>7 DEF ReadStatus
<1>8. CASE LosePacket \/ LoseStatus
  <2>1. faults' \in 0 .. MaxFaults
    BY <1>8, BoundsAssumption DEF LosePacket, LoseStatus, Fault
  <2> QED
    BY <1>1, <1>8, <2>1 DEF LosePacket, LoseStatus, Fault
<1>9. CASE Restart
  <2>1. faults' \in 0 .. MaxFaults
    BY <1>9, BoundsAssumption DEF Restart, Fault
  <2>2. target' \in [Joint -> Angle] /\ position' \in [Joint -> Angle]
    BY <1>9, PacketsAreAngles DEF Restart
  <2>3. queue' \in Seq(Packet) /\ Len(queue') <= Depth
    BY <1>9, BoundsAssumption DEF Restart
  <2> QED
    BY <1>1, <1>9, <2>1, <2>2, <2>3 DEF Restart, Fault
<1>10. CASE UNCHANGED vars
  BY <1>1, <1>10 DEF vars
<1> QED
  BY <1>2, <1>3, <1>4, <1>5, <1>6, <1>7, <1>8, <1>9, <1>10 DEF Next

(* Whatever is lost, dropped or restarted, the queues on both sides hold   *)
(* whole packets, no more than they can, and every servo is at an angle    *)
(* (servo_hardware.cpp:295-299, main.cpp:262-300).                         *)
THEOREM LoopTypeCorrect == Spec => []LoopTypeOK
<1>1. Init => LoopTypeOK
  <2> SUFFICES ASSUME Init PROVE LoopTypeOK
    OBVIOUS
  <2>1. CommandTypeOK
    BY CommandTypesStart DEF Init
  <2>2. queue \in Seq(Packet) /\ Len(queue) <= Depth /\ faults \in 0 .. MaxFaults
    BY BoundsAssumption DEF Init, Firmware!Init
  <2>3. /\ target \in [Joint -> Angle] /\ position \in [Joint -> Angle]
        /\ state \in [Joint -> Angle]
    BY PacketsAreAngles DEF Init, Firmware!Init
  <2>4. line = <<>> /\ status = NoStatus
    BY DEF Init, Firmware!Init
  <2>5. inStep \in BOOLEAN
    BY Zenon DEF Init
  <2> QED
    BY <2>1, <2>2, <2>3, <2>4, <2>5 DEF LoopTypeOK
<1>2. LoopTypeOK /\ [Next]_vars => LoopTypeOK'
  BY LoopTypesStep
<1> QED
  BY <1>1, <1>2, PTL DEF Spec

(* Seen from the controllers, the loop does what the component alone does: *)
(* nothing on the line or in the firmware reaches claims, delays, stored   *)
(* commands or the queue (servo_hardware.cpp:261-344, 466-491).            *)
THEOREM LoopKeepsCommandSpec == Spec => CommandSpec
<1>1. Init => CommandInit
  BY DEF Init
<1>2. [Next]_vars => [CommandNext]_commandVars
  BY CommandsOfLoop
<1> QED
  BY <1>1, <1>2, PTL DEF Spec, CommandSpec

(* So in the closed loop, too, the 0.0 of the first cycle after a claim is *)
(* not stored as a command, and a joint that no controller claims keeps    *)
(* its value (servo_hardware.cpp:261-299).                                 *)
THEOREM LoopGuardsCommands == Spec => FirstZeroIgnored /\ OnlyClaimedMove
BY LoopKeepsCommandSpec, FirstZeroIsIgnored, OnlyClaimedJointsMove, PTL

-----------------------------------------------------------------------------
(* Sequences in two parts.                                                 *)
LEMMA PartsOfConcat ==
  ASSUME NEW S, NEW s \in Seq(S), NEW t \in Seq(S)
  PROVE  /\ s \o t \in Seq(S) /\ Len(s \o t) = Len(s) + Len(t)
         /\ SubSeq(s \o t, 1, Len(s)) = s
         /\ SubSeq(s \o t, Len(s) + 1, Len(s \o t)) = t
<1>1. s \o t \in Seq(S) /\ Len(s \o t) = Len(s) + Len(t)
  BY ConcatProperties, ZenonT(30)
<1>2. Len(s) \in Nat /\ Len(t) \in Nat
  BY LenProperties
<1>3. SubSeq(s \o t, 1, Len(s)) = s
  <2>1. CASE s = <<>>
    <3>1. Len(s) < 1 /\ Len(s) \in Int /\ 1 \in Int
      BY <1>2, <2>1
    <3> QED
      BY <2>1, <3>1, SubSeqEmpty
  <2>2. CASE s # <<>>
    <3>1. 1 \in 1 .. Len(s) /\ Len(s) \in 1 .. Len(s)
      BY <1>2, <2>2
    <3>2. SubSeq(s \o t, 1, Len(s)) = SubSeq(s, 1, Len(s))
      BY <3>1, SubSeqOfConcat1, ZenonT(30)
    <3> QED
      BY <3>2, SubSeqFull
  <2> QED
    BY <2>1, <2>2
<1>4. SubSeq(s \o t, Len(s) + 1, Len(s) + Len(t)) = t
  <2>1. CASE t = <<>>
    <3>1. Len(s) + Len(t) < Len(s) + 1 /\ Len(s) + Len(t) \in Int /\ Len(s) + 1 \in Int
      BY <1>2, <2>1
    <3> QED
      BY <2>1, <3>1, SubSeqEmpty
  <2>2. CASE t # <<>>
    <3>1. PICK m \in Len(s) + 1 .. Len(s) + Len(t), n \in Len(s) + 1 .. Len(s) + Len(t) :
            m = Len(s) + 1 /\ n = Len(s) + Len(t)
      BY <1>2, <2>2
    <3>2. SubSeq(s \o t, m, n) = SubSeq(t, m - Len(s), n - Len(s))
      BY SubSeqOfConcat2, ZenonT(30)
    <3>3. m - Len(s) = 1 /\ n - Len(s) = Len(t)
      BY <1>2, <3>1
    <3> QED
      BY <3>1, <3>2, <3>3, SubSeqFull
  <2> QED
    BY <2>1, <2>2
<1> QED
  BY <1>1, <1>3, <1>4

(* What is appended to the second part is appended to both.                *)
LEMMA AppendToConcat ==
  ASSUME NEW S, NEW s \in Seq(S), NEW t \in Seq(S), NEW x \in S
  PROVE  s \o Append(t, x) = Append(s \o t, x)
<1>1. <<x>> \in Seq(S) /\ s \o t \in Seq(S)
  BY PartsOfConcat
<1>2. s \o (t \o <<x>>) = (s \o t) \o <<x>>
  BY <1>1, ConcatAssociative
<1> QED
  BY <1>1, <1>2, AppendIsConcat

(* The oldest element of the first part is the oldest one of both.         *)
LEMMA OldestOfConcat ==
  ASSUME NEW S, NEW s \in Seq(S), NEW t \in Seq(S), s # <<>>
  PROVE  /\ s \o t # <<>> /\ Head(s \o t) = Head(s)
         /\ Tail(s \o t) = Tail(s) \o t
<1>1. Head(s) \in S /\ Tail(s) \in Seq(S) /\ s = <<Head(s)>> \o Tail(s)
  OBVIOUS
<1>2. PICK x, rest : x = Head(s) /\ rest = Tail(s)
  OBVIOUS
<1>3. x \in S /\ rest \in Seq(S) /\ s = <<x>> \o rest /\ <<x>> \in Seq(S)
  BY <1>1, <1>2
<1>4. s \o t = <<x>> \o (rest \o t) /\ rest \o t \in Seq(S)
  BY <1>3, ConcatAssociative, PartsOfConcat
<1>5. PICK u \in Seq(S) : u = rest \o t
  BY <1>4
<1>6. <<x>> \o u # <<>> /\ Head(<<x>> \o u) = x /\ Tail(<<x>> \o u) = u
  BY <1>3, <1>5
<1> QED
  BY <1>2, <1>4, <1>5, <1>6

(* part is whole without one element.                                      *)
IsWithoutOne(part, whole) ==
  \E k \in 1 .. Len(whole) :
    part = SubSeq(whole, 1, k - 1) \o SubSeq(whole, k + 1, Len(whole))

(* An element between two parts is taken away.                             *)
LEMMA DropBetween ==
  ASSUME NEW S, NEW s \in Seq(S), NEW t \in Seq(S), NEW x \in S
  PROVE  IsWithoutOne(s \o t, (s \o <<x>>) \o t)
<1>1. PICK whole : whole = (s \o <<x>>) \o t
  OBVIOUS
<1>2. <<x>> \in Seq(S) /\ Len(<<x>>) = 1 /\ Len(s) \in Nat /\ Len(t) \in Nat
  BY LenProperties
<1>3. PICK front \in Seq(S), back \in Seq(S) : front = s \o <<x>> /\ back = <<x>> \o t
  BY <1>2, PartsOfConcat
<1>4. Len(front) = Len(s) + 1
  BY <1>2, <1>3, PartsOfConcat
<1>5. whole = front \o t /\ whole = s \o back
  BY <1>1, <1>2, <1>3, ConcatAssociative
<1>6. Len(whole) = Len(s) + 1 + Len(t) /\ SubSeq(whole, Len(front) + 1, Len(whole)) = t
  <2>1. /\ Len(front \o t) = Len(front) + Len(t)
        /\ SubSeq(front \o t, Len(front) + 1, Len(front \o t)) = t
    BY PartsOfConcat
  <2> QED
    BY <1>4, <1>5, <2>1
<1>7. SubSeq(whole, 1, Len(s)) = s
  <2>1. SubSeq(s \o back, 1, Len(s)) = s
    BY PartsOfConcat
  <2> QED
    BY <1>5, <2>1
<1>8. PICK k \in 1 .. Len(whole) : k = Len(s) + 1
  BY <1>2, <1>6
<1>9. k - 1 = Len(s) /\ k + 1 = Len(front) + 1
  BY <1>2, <1>4, <1>8
<1>10. s \o t = SubSeq(whole, 1, k - 1) \o SubSeq(whole, k + 1, Len(whole))
  BY <1>6, <1>7, <1>9
<1> QED
  BY <1>1, <1>10 DEF IsWithoutOne

-----------------------------------------------------------------------------
(* The way of a command: where the packets are, and what each step does to *)
(* them.                                                                   *)
LEMMA PacketsUnderWay ==
  ASSUME LoopTypeOK
  PROVE  /\ queue \in Seq(Packet) /\ line \in Seq(Packet) /\ command_queue_ \in Seq(Packet)
         /\ queue \o line \in Seq(Packet) /\ UnderWay \in Seq(Packet)
         /\ Len(UnderWay) = Len(queue) + Len(line) + Len(command_queue_)
<1>1. queue \in Seq(Packet) /\ line \in Seq(Packet) /\ command_queue_ \in Seq(Packet)
  <2>1. line = <<>> \/ \E packet \in Packet : line = <<packet>>
    BY DEF LoopTypeOK
  <2>2. ASSUME NEW packet \in Packet PROVE <<packet>> \in Seq(Packet)
    OBVIOUS
  <2>3. <<>> \in Seq(Packet)
    OBVIOUS
  <2>4. line \in Seq(Packet)
    BY <2>1, <2>2, <2>3, Zenon
  <2> QED
    BY <2>4 DEF LoopTypeOK, CommandTypeOK
<1>2. queue \o line \in Seq(Packet) /\ Len(queue \o line) = Len(queue) + Len(line)
  BY <1>1, PartsOfConcat
<1> QED
  BY <1>1, <1>2, PartsOfConcat DEF UnderWay

(* A cycle of the controller manager adds a packet at the end, or none.    *)
LEMMA CycleAccepts ==
  ASSUME LoopTypeOK, CommandTypeOK', Cycle
  PROVE  [Way!Accept]_Way!channelVars
<1>1. UNCHANGED <<queue, line, target>>
  BY DEF Cycle, firmwareVars, lineVars
<1>2. PICK packet \in Packet :
        command_queue_' = command_queue_ \/ command_queue_' = Append(command_queue_, packet)
  <2>1. PICK values \in [Joint -> Handle] : write(values)
    BY DEF Cycle, ControlCycle
  <2>2. servo_command' \in Packet
    BY DEF CommandTypeOK
  <2> QED
    BY <2>1, <2>2 DEF write, Push
<1>3. CASE command_queue_' = command_queue_
  BY <1>1, <1>3 DEF UnderWay, Way!channelVars
<1>4. CASE command_queue_' = Append(command_queue_, packet)
  <2>1. UnderWay' = Append(UnderWay, packet)
    BY <1>1, <1>4, PacketsUnderWay, AppendToConcat DEF UnderWay
  <2> QED
    BY <1>1, <2>1 DEF Way!Accept
<1> QED
  BY <1>2, <1>3, <1>4

(* Sending a packet leaves all packets under way in their order.           *)
LEMMA SendKeepsOrder ==
  ASSUME LoopTypeOK, SendPacket
  PROVE  UNCHANGED Way!channelVars
<1>1. /\ command_queue_ # <<>> /\ command_queue_' = Tail(command_queue_) /\ line = <<>>
      /\ line' = <<Head(command_queue_)>> /\ UNCHANGED <<queue, target>>
  BY DEF SendPacket, Pop, firmwareVars
<1>2. PICK first, rest : first = Head(command_queue_) /\ rest = Tail(command_queue_)
  OBVIOUS
<1>3. command_queue_ \in Seq(Packet) /\ queue \in Seq(Packet)
  BY PacketsUnderWay
<1>4. <<first>> \in Seq(Packet) /\ rest \in Seq(Packet) /\ command_queue_ = <<first>> \o rest
  BY <1>1, <1>2, <1>3
<1>5. UnderWay = queue \o command_queue_
  BY <1>1, <1>3, ConcatEmptySeq DEF UnderWay
<1>6. UnderWay' = (queue \o <<first>>) \o rest
  BY <1>1, <1>2 DEF UnderWay
<1>7. (queue \o <<first>>) \o rest = queue \o (<<first>> \o rest)
  BY <1>3, <1>4, ConcatAssociative
<1> QED
  BY <1>1, <1>4, <1>5, <1>6, <1>7 DEF Way!channelVars

(* A packet that leaves the line without reaching the queue is lost.       *)
LEMMA LineLoses ==
  ASSUME LoopTypeOK, line # <<>>, line' = <<>>, UNCHANGED <<queue, target, command_queue_>>
  PROVE  Way!LoseAny /\ ~ Len(UnderWay') > Len(UnderWay)
<1>1. PICK packet \in Packet : line = <<packet>>
  BY DEF LoopTypeOK
<1>2. queue \in Seq(Packet) /\ command_queue_ \in Seq(Packet)
  BY PacketsUnderWay
<1>3. UnderWay = (queue \o <<packet>>) \o command_queue_ /\ UnderWay' = queue \o command_queue_
  BY <1>1, <1>2, ConcatEmptySeq DEF UnderWay
<1>4. \E k \in 1 .. Len(UnderWay) :
        UnderWay' = SubSeq(UnderWay, 1, k - 1) \o SubSeq(UnderWay, k + 1, Len(UnderWay))
  <2>1. IsWithoutOne(queue \o command_queue_, (queue \o <<packet>>) \o command_queue_)
    BY <1>2, DropBetween
  <2> QED
    BY <1>3, <2>1, Zenon DEF IsWithoutOne
<1>5. Len(UnderWay') = Len(queue) + Len(command_queue_)
  BY <1>2, <1>3, PartsOfConcat
<1>6. Len(UnderWay) = Len(queue) + 1 + Len(command_queue_)
  BY <1>1, PacketsUnderWay
<1>7. Way!LoseAny
  BY <1>4, Zenon DEF Way!LoseAny
<1> QED
  BY <1>2, <1>5, <1>6, <1>7

(* Delivering the packet on the line leaves it where it is on the way, or  *)
(* loses it at a full queue or a decoder that is out of step.              *)
LEMMA DeliveryKeepsOrder ==
  ASSUME LoopTypeOK, DeliverPacket
  PROVE  [Way!LoseAny]_Way!channelVars /\ ~ Len(UnderWay') > Len(UnderWay)
<1>1. line # <<>> /\ line' = <<>> /\ UNCHANGED command_queue_
  BY DEF DeliverPacket, commandVars
<1>2. CASE inStep /\ Len(queue) < Depth
  <2>1. PICK packet \in Packet : line = <<packet>>
    BY <1>1 DEF LoopTypeOK
  <2>2. queue' = Append(queue, packet) /\ UNCHANGED target
    BY <1>2, <2>1 DEF DeliverPacket, Firmware!Accept
  <2>3. queue \in Seq(Packet) /\ queue \o <<packet>> \in Seq(Packet)
    BY <2>1, PacketsUnderWay
  <2>4. queue' \o line' = queue \o line
    BY <1>1, <2>1, <2>2, <2>3, AppendIsConcat, ConcatEmptySeq
  <2>5. UnderWay' = UnderWay
    BY <1>1, <2>4 DEF UnderWay
  <2> QED
    BY <2>2, <2>5, PacketsUnderWay DEF Way!channelVars
<1>3. CASE ~ (inStep /\ Len(queue) < Depth)
  BY <1>1, <1>3, LineLoses DEF DeliverPacket, firmwareVars
<1> QED
  BY <1>2, <1>3

(* The firmware takes the oldest packet under way as its target, or none.  *)
LEMMA MoveTakesOldest ==
  ASSUME LoopTypeOK, MoveServos
  PROVE  [Way!Transmit]_Way!channelVars /\ ~ Len(UnderWay') > Len(UnderWay)
<1>1. UNCHANGED <<line, command_queue_>>
  BY DEF MoveServos, commandVars, lineVars
<1>2. /\ queue \in Seq(Packet) /\ line \in Seq(Packet) /\ command_queue_ \in Seq(Packet)
      /\ queue \o line \in Seq(Packet) /\ UnderWay \in Seq(Packet)
  BY PacketsUnderWay
<1>3. CASE queue = <<>>
  <2>1. UNCHANGED <<queue, target>>
    BY <1>3 DEF MoveServos, Firmware!Move
  <2> QED
    BY <1>1, <1>2, <2>1 DEF UnderWay, Way!channelVars
<1>4. CASE queue # <<>>
  <2>1. queue' = Tail(queue) /\ target' = Head(queue)
    BY <1>4 DEF MoveServos, Firmware!Move
  <2>2. /\ queue \o line # <<>> /\ Head(queue \o line) = Head(queue)
        /\ Tail(queue \o line) = Tail(queue) \o line
    BY <1>2, <1>4, OldestOfConcat
  <2>3. /\ UnderWay # <<>> /\ Head(UnderWay) = Head(queue \o line)
        /\ Tail(UnderWay) = Tail(queue \o line) \o command_queue_
    BY <1>2, <2>2, OldestOfConcat DEF UnderWay
  <2>4. UnderWay' = Tail(UnderWay) /\ target' = Head(UnderWay)
    BY <1>1, <2>1, <2>2, <2>3 DEF UnderWay
  <2>5. ~ Len(UnderWay') > Len(UnderWay)
    BY <1>2, <2>3, <2>4
  <2> QED
    BY <2>3, <2>4, <2>5 DEF Way!Transmit
<1> QED
  BY <1>3, <1>4

(* A restart of the firmware forgets the packets it had accepted, which    *)
(* are the oldest ones under way.                                          *)
LEMMA RestartForgets ==
  ASSUME LoopTypeOK, Restart
  PROVE  Way!Forget /\ ~ Len(UnderWay') > Len(UnderWay)
<1>1. /\ queue' = <<>> /\ UNCHANGED <<line, command_queue_>>
      /\ target' = [j \in Joint |-> InitialAngle]
  BY DEF Restart, Fault, commandVars
<1>2. /\ queue \in Seq(Packet) /\ line \in Seq(Packet) /\ command_queue_ \in Seq(Packet)
      /\ UnderWay \in Seq(Packet)
  BY PacketsUnderWay
<1>3. PICK rest \in Seq(Packet) : rest = line \o command_queue_
  BY <1>2, PartsOfConcat
<1>4. UnderWay = queue \o rest
  BY <1>2, <1>3, ConcatAssociative DEF UnderWay
<1>5. UnderWay' = rest
  BY <1>1, <1>2, <1>3, ConcatEmptySeq DEF UnderWay
<1>6. /\ Len(UnderWay) = Len(queue) + Len(rest)
      /\ SubSeq(UnderWay, Len(queue) + 1, Len(UnderWay)) = rest
  BY <1>2, <1>4, PartsOfConcat
<1>7. Len(queue) \in Nat /\ Len(rest) \in Nat
  BY <1>2
<1>8. Len(queue) \in 0 .. Len(UnderWay)
  BY <1>6, <1>7
<1>9. UnderWay' = SubSeq(UnderWay, Len(queue) + 1, Len(UnderWay))
  BY <1>5, <1>6
<1>10. Way!Forget
  BY <1>1, <1>8, <1>9, Zenon DEF Way!Forget
<1> QED
  BY <1>5, <1>6, <1>7, <1>10

(* Nothing else touches a packet or a target.                              *)
LEMMA OthersKeepOrder ==
  ASSUME \/ SwitchControllers \/ Publish \/ ReadStatus \/ LoseStatus \/ UNCHANGED vars
  PROVE  UNCHANGED Way!channelVars
<1> USE DEF commandVars, firmwareVars, lineVars, UnderWay, Way!channelVars
<1>1. CASE SwitchControllers \/ Publish \/ ReadStatus \/ LoseStatus
  BY <1>1 DEF SwitchControllers, ModeSwitch, Publish, Firmware!Publish, ReadStatus, LoseStatus,
       Fault
<1>2. CASE UNCHANGED vars
  BY <1>2 DEF vars
<1> QED
  BY <1>1, <1>2

(* From write() to the servos no command is used twice, none overtakes     *)
(* another and none is made up, whatever is lost, dropped or restarted on  *)
(* the way (servo_hardware.cpp:295-299, 481-490, main.cpp:347-374).        *)
THEOREM LoopKeepsOrder == Spec => OrderKept
<1>1. Init => Way!Init
  BY DEF Init, CommandInit, Firmware!Init, UnderWay, Way!Init
<1>2. ASSUME LoopTypeOK, [Next]_vars
      PROVE  /\ [Way!LossyNext]_Way!channelVars
             /\ ~ Cycle => ~ Len(UnderWay') > Len(UnderWay)
  <2>2. Len(UnderWay) \in Nat
    BY <1>2, PacketsUnderWay
  <2> USE DEF Way!LossyNext, Way!Next
  <2>3. CASE Cycle
    <3>1. CommandTypeOK'
      BY <1>2, LoopTypesStep DEF LoopTypeOK
    <3> QED
      BY <1>2, <2>3, <3>1, CycleAccepts
  <2>4. CASE DeliverPacket
    BY <1>2, <2>4, DeliveryKeepsOrder
  <2>5. CASE MoveServos
    BY <1>2, <2>5, MoveTakesOldest
  <2>6. CASE LosePacket
    <3>1. line # <<>> /\ line' = <<>> /\ UNCHANGED <<queue, target, command_queue_>>
      BY <2>6 DEF LosePacket, Fault, commandVars, firmwareVars
    <3> QED
      BY <1>2, <3>1, LineLoses
  <2>7. CASE Restart
    BY <1>2, <2>7, RestartForgets
  <2>8. ASSUME UNCHANGED Way!channelVars
        PROVE  /\ [Way!LossyNext]_Way!channelVars
               /\ ~ Len(UnderWay') > Len(UnderWay)
    BY <2>2, <2>8 DEF Way!channelVars
  <2>9. CASE SendPacket
    BY <1>2, <2>8, <2>9, SendKeepsOrder
  <2>10. CASE \/ SwitchControllers \/ Publish \/ ReadStatus \/ LoseStatus \/ UNCHANGED vars
    BY <2>8, <2>10, OthersKeepOrder
  <2> QED
    BY <1>2, <2>3, <2>4, <2>5, <2>6, <2>7, <2>9, <2>10 DEF Next
<1>3. LoopTypeOK /\ [Next]_vars =>
        [Way!LossyNext]_Way!channelVars /\ [Len(UnderWay') > Len(UnderWay) => Cycle]_vars
  BY <1>2
<1> QED
  BY <1>1, <1>3, LoopTypeCorrect, PTL DEF Spec, OrderKept, Way!LossySpec
=============================================================================
