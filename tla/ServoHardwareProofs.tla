-------------------------- MODULE ServoHardwareProofs --------------------------
(***************************************************************************)
(* ServoHardware for any set of joints, any robot description and any      *)
(* length of the queue, whatever the order of the three threads' steps.    *)
(***************************************************************************)
EXTENDS ServoHardware, CommandInterfacesProofs, TLAPS

(* Every step of the component leaves the commands alone, or is a call or  *)
(* a pop that CommandInterfaces knows, or gives the handles values.        *)
LEMMA CommandsOfHardware ==
  ASSUME HardwareInv, [Next]_vars
  PROVE  \/ [CommandNext]_commandVars
         \/ /\ command' \in Packet
            /\ UNCHANGED <<requested, claimVars, servo_command, command_queue_, controllerVars>>
<1>1. CASE CallBegins
  <2>1. CASE Configure
    BY <2>1 DEF Configure, AllZero, Packet, Stored
  <2>2. CASE Write \/ SwitchMode
    BY <2>2 DEF Write, SwitchMode, CommandNext
  <2>3. CASE Cleanup \/ DeactivateHalt \/ ReadGet \/ \E opens \in BOOLEAN : ActivateOpen(opens)
    BY <2>3 DEF Cleanup, DeactivateHalt, ReadGet, ActivateOpen
  <2> QED
    BY <1>1, <2>1, <2>2, <2>3 DEF CallBegins
<1>2. CASE CallStep
  <2>1. CASE ActivateStart
    BY <2>1 DEF ActivateStart, HardwareInv, TypeOK
  <2>2. CASE ActivateWire \/ DeactivateNotify \/ DeactivateJoin \/ DeactivateClose \/ ReadUpdate
    BY <2>2 DEF ActivateWire, DeactivateNotify, DeactivateJoin, DeactivateClose, ReadUpdate
  <2> QED
    BY <1>2, <2>1, <2>2 DEF CallStep
<1>3. CASE ThreadStep
  <2>1. CASE ThreadPop
    BY <2>1 DEF ThreadPop, CommandNext
  <2>2. CASE \/ ThreadCheck \/ ThreadWait \/ ThreadNotified \/ ThreadTimeout \/ ThreadDrained
             \/ ThreadSend \/ ThreadSent
    BY <2>2 DEF ThreadCheck, ThreadWait, ThreadNotified, ThreadTimeout, ThreadDrained, ThreadSend,
         ThreadSent
  <2> QED
    BY <1>3, <2>1, <2>2 DEF ThreadStep
<1>4. CASE IoStep
  BY <1>4 DEF IoStep, IoCallback, StatusStored, StatusFlagged, NothingDelivered, IoRead,
       IoWrite, IoEnd, ioUnchanged
<1>5. CASE UNCHANGED vars
  BY <1>5 DEF vars
<1> QED
  BY <1>1, <1>2, <1>3, <1>4, <1>5 DEF Next

(* Hence the commands keep their types.                                    *)
LEMMA HardwareCommandTypes ==
  ASSUME HardwareInv, [Next]_vars
  PROVE  CommandTypeOK'
<1>1. CommandTypeOK
  BY DEF HardwareInv, TypeOK
<1>2. CASE [CommandNext]_commandVars
  BY <1>1, <1>2, CommandTypesStep
<1>3. CASE /\ command' \in Packet
           /\ UNCHANGED <<requested, claimVars, servo_command, command_queue_, controllerVars>>
  BY <1>1, <1>3 DEF CommandTypeOK, claimVars, controllerVars, Packet, Handle
<1> QED
  BY <1>2, <1>3, CommandsOfHardware

(* What is pushed and popped is a packet.                                  *)
LEMMA PoppedIsPacket ==
  ASSUME CommandTypeOK, command_queue_ # <<>>
  PROVE  Head(command_queue_) \in Packet
BY DEF CommandTypeOK

(* Every handler keeps the variables to their kinds.                       *)
LEMMA HardwareTypesStep ==
  ASSUME HardwareInv, [Next]_vars
  PROVE  TypeOK'
<1> USE DEF HardwareInv, TypeOK, PortTypeOK, portVars, threadVars, statusVars, readVars
<1>0. CommandTypeOK'
  BY HardwareCommandTypes
<1>1. CASE CallBegins
  <2>1. CASE Cleanup
    BY <1>0, <2>1 DEF Cleanup, Between
  <2>2. CASE DeactivateHalt
    BY <1>0, <2>2 DEF DeactivateHalt, Between
  <2>3. CASE ReadGet
    BY <1>0, <2>3 DEF ReadGet, Between
  <2>4. CASE Write
    BY <1>0, <2>4 DEF Write, Between
  <2>5. CASE SwitchMode
    BY <1>0, <2>5 DEF SwitchMode, Between
  <2>6. CASE Configure
    <3>1. AllZero \in Packet
      BY DEF AllZero, Packet, Stored
    <3> QED
      BY <2>6, <3>1, <1>0 DEF Configure
  <2>7. ASSUME NEW opens \in BOOLEAN, ActivateOpen(opens) PROVE TypeOK'
    <3>1. is_open' \in BOOLEAN /\ receive_callback_' \in BOOLEAN
      BY <2>7, Zenon DEF ActivateOpen, open
    <3>2. cm' \in {"opened", "failed"} /\ io_thread_' \in {"polling", "none"}
      BY <2>7 DEF ActivateOpen, open
    <3>3. UNCHANGED <<stopped, mutex_, sender, sending, transmitted, protocol_decoder_>>
      BY <2>7 DEF ActivateOpen, open
    <3>4. UNCHANGED <<threadVars, statusVars, readVars>>
      BY <2>7 DEF ActivateOpen
    <3> QED
      BY <1>0, <3>1, <3>2, <3>3, <3>4
  <2> QED
    BY <1>1, <2>1, <2>2, <2>3, <2>4, <2>5, <2>6, <2>7 DEF CallBegins
<1>2. CASE CallStep
  <2>1. CASE ActivateWire
    BY <1>0, <2>1 DEF ActivateWire, setCallback
  <2>2. CASE DeactivateNotify
    BY <1>0, <2>2 DEF DeactivateNotify
  <2>3. CASE DeactivateJoin
    BY <1>0, <2>3 DEF DeactivateJoin, CloseStop
  <2>4. CASE ActivateStart
    <3>1. halting_' \in BOOLEAN /\ background_thread_' = "checking" /\ cm' = "active"
      BY <2>4, Zenon DEF ActivateStart
    <3>2. UNCHANGED <<portVars, protocol_decoder_, notified, statusVars, readVars>>
      BY <2>4 DEF ActivateStart
    <3> QED
      BY <1>0, <3>1, <3>2
  <2>5. CASE DeactivateClose
    <3>1. is_open' \in BOOLEAN /\ stopped' \in BOOLEAN /\ protocol_decoder_' \in BOOLEAN
      BY <2>5, Zenon DEF DeactivateClose, CloseJoined
    <3>2. /\ cm' = "inactive"
          /\ UNCHANGED <<mutex_, io_thread_, receive_callback_, sender, sending, transmitted>>
          /\ UNCHANGED <<threadVars, statusVars, readVars>>
      BY <2>5 DEF DeactivateClose, CloseJoined
    <3> QED
      BY <1>0, <3>1, <3>2
  <2>6. CASE ReadUpdate
    <3>1. servo_state' \in Packet
      BY <2>6 DEF ReadUpdate
    <3>2. state' \in Packet
      BY <2>6, <3>1 DEF ReadUpdate, Packet
    <3> QED
      BY <2>6, <1>0, <3>1, <3>2 DEF ReadUpdate
  <2> QED
    BY <1>2, <2>1, <2>2, <2>3, <2>4, <2>5, <2>6 DEF CallStep
<1>3. CASE ThreadStep
  <2>1. CASE ThreadTimeout
    <3>1. background_thread_' \in {"ended", "popping"} /\ notified' \in BOOLEAN
      BY <2>1, Zenon DEF ThreadTimeout
    <3>2. UNCHANGED <<commandVars, portVars, threadUnchanged>>
      BY <2>1 DEF ThreadTimeout
    <3> QED
      BY <1>0, <3>1, <3>2 DEF threadUnchanged
  <2>2. CASE ThreadDrained
    BY <1>0, <2>2 DEF ThreadDrained, threadUnchanged
  <2>3. CASE ThreadSend
    BY <1>0, <2>3 DEF ThreadSend, SendCheck, SendPost, threadUnchanged
  <2>4. CASE ThreadSent
    BY <1>0, <2>4 DEF ThreadSent, SendReturn, threadUnchanged
  <2>5. CASE ThreadCheck
    <3>1. background_thread_' \in {"ended", "tested"}
      BY <2>5, Zenon DEF ThreadCheck
    <3>2. UNCHANGED <<notified, commandVars, portVars, threadUnchanged>>
      BY <2>5 DEF ThreadCheck
    <3> QED
      BY <1>0, <3>1, <3>2 DEF threadUnchanged
  <2>6. CASE ThreadNotified
    <3>1. background_thread_' = "checking" /\ notified' \in BOOLEAN
      BY <2>6, Zenon DEF ThreadNotified
    <3>2. UNCHANGED <<commandVars, portVars, threadUnchanged>>
      BY <2>6 DEF ThreadNotified
    <3> QED
      BY <1>0, <3>1, <3>2 DEF threadUnchanged
  <2>wait. CASE ThreadWait
    BY <1>0, <2>wait DEF ThreadWait, threadUnchanged
  <2>7. CASE ThreadPop
    <3>1. SendCall(Head(command_queue_)) /\ Head(command_queue_) \in Packet
      BY <2>7, PoppedIsPacket DEF ThreadPop, Pop
    <3>2. background_thread_' = "sending" /\ UNCHANGED <<notified, threadUnchanged>>
      BY <2>7 DEF ThreadPop
    <3> QED
      BY <1>0, <3>1, <3>2 DEF SendCall, threadUnchanged
  <2> QED
    BY <1>3, <2>1, <2>2, <2>3, <2>4, <2>5, <2>6, <2>7, <2>wait DEF ThreadStep
<1>4. CASE IoStep
  <2>1. CASE IoCallback
    BY <1>0, <2>1 DEF IoCallback, EnterCallback
  <2>2. CASE StatusFlagged
    BY <1>0, <2>2 DEF StatusFlagged, LeaveCallback
  <2>3. CASE NothingDelivered
    BY <1>0, <2>3 DEF NothingDelivered, LeaveCallback
  <2>4. CASE IoRead
    BY <1>0, <2>4 DEF IoRead, ReadCompletes, ioUnchanged
  <2>5. CASE IoWrite
    BY <1>0, <2>5 DEF IoWrite, WriteCompletes, ioUnchanged
  <2>6. CASE IoEnd
    BY <1>0, <2>6 DEF IoEnd, IoThreadEnds, ioUnchanged
  <2>7. CASE StatusStored
    <3>1. status_box_' \in Packet
      BY <2>7 DEF StatusStored, Packet, Stored
    <3> QED
      BY <2>7, <1>0, <3>1 DEF StatusStored
  <2> QED
    BY <1>4, <2>1, <2>2, <2>3, <2>4, <2>5, <2>6, <2>7 DEF IoStep
<1>5. CASE UNCHANGED vars
  BY <1>0, <1>5 DEF vars
<1> QED
  BY <1>1, <1>2, <1>3, <1>4, <1>5 DEF Next

(* What exists follows the controller manager's calls.                     *)
LEMMA LifecycleStep ==
  ASSUME HardwareInv, [Next]_vars
  PROVE  LifecycleOrder'
<1> USE DEF HardwareInv, TypeOK, PortTypeOK, LifecycleOrder, portVars, threadVars, statusVars,
         readVars
<1>1. CASE CallBegins
  <2>1. CASE Configure
    BY <2>1 DEF Configure, Between
  <2>2. CASE Cleanup
    BY <2>2 DEF Cleanup, Between
  <2>3. CASE DeactivateHalt
    BY <2>3 DEF DeactivateHalt, Between
  <2>4. CASE ReadGet
    BY <2>4 DEF ReadGet, Between
  <2>5. CASE Write
    BY <2>5 DEF Write, Between
  <2>6. CASE SwitchMode
    BY <2>6 DEF SwitchMode, Between
  <2>7. ASSUME NEW opens \in BOOLEAN, ActivateOpen(opens) PROVE LifecycleOrder'
    BY <2>7 DEF ActivateOpen, Between, open
  <2> QED
    BY <1>1, <2>1, <2>2, <2>3, <2>4, <2>5, <2>6, <2>7 DEF CallBegins
<1>2. CASE CallStep
  <2>1. CASE ActivateWire
    BY <2>1 DEF ActivateWire, setCallback
  <2>2. CASE ActivateStart
    BY <2>2 DEF ActivateStart
  <2>3. CASE DeactivateNotify
    BY <2>3 DEF DeactivateNotify
  <2>4. CASE DeactivateJoin
    BY <2>4 DEF DeactivateJoin, CloseStop
  <2>5. CASE DeactivateClose
    BY <2>5 DEF DeactivateClose, CloseJoined
  <2>6. CASE ReadUpdate
    BY <2>6 DEF ReadUpdate
  <2> QED
    BY <1>2, <2>1, <2>2, <2>3, <2>4, <2>5, <2>6 DEF CallStep
<1>3. CASE ThreadStep
  <2>1. CASE ThreadCheck
    BY <2>1 DEF ThreadCheck, threadUnchanged
  <2>2. CASE ThreadNotified
    BY <2>2 DEF ThreadNotified, threadUnchanged
  <2>wait. CASE ThreadWait
    BY <2>wait DEF ThreadWait, threadUnchanged
  <2>3. CASE ThreadTimeout
    BY <2>3 DEF ThreadTimeout, threadUnchanged
  <2>4. CASE ThreadDrained
    BY <2>4 DEF ThreadDrained, threadUnchanged
  <2>5. CASE ThreadPop
    BY <2>5 DEF ThreadPop, SendCall, threadUnchanged
  <2>6. CASE ThreadSend
    BY <2>6 DEF ThreadSend, SendCheck, SendPost, threadUnchanged
  <2>7. CASE ThreadSent
    BY <2>7 DEF ThreadSent, SendReturn, threadUnchanged
  <2> QED
    BY <1>3, <2>1, <2>2, <2>3, <2>4, <2>5, <2>6, <2>7, <2>wait DEF ThreadStep
<1>4. CASE IoStep
  <2>1. CASE IoCallback
    BY <2>1 DEF IoCallback, EnterCallback
  <2>2. CASE StatusStored
    BY <2>2 DEF StatusStored
  <2>3. CASE StatusFlagged
    BY <2>3 DEF StatusFlagged, LeaveCallback
  <2>4. CASE NothingDelivered
    BY <2>4 DEF NothingDelivered, LeaveCallback
  <2>5. CASE IoRead
    BY <2>5 DEF IoRead, ReadCompletes, ioUnchanged
  <2>6. CASE IoWrite
    BY <2>6 DEF IoWrite, WriteCompletes, ioUnchanged
  <2>7. CASE IoEnd
    BY <2>7 DEF IoEnd, IoThreadEnds, ioUnchanged
  <2> QED
    BY <1>4, <2>1, <2>2, <2>3, <2>4, <2>5, <2>6, <2>7 DEF IoStep
<1>5. CASE UNCHANGED vars
  BY <1>5 DEF vars
<1> QED
  BY <1>1, <1>2, <1>3, <1>4, <1>5 DEF Next

(* The background thread sends while a call of send is under way.          *)
LEMMA ThreadOrderStep ==
  ASSUME HardwareInv, [Next]_vars
  PROVE  ThreadOrder'
<1> USE DEF HardwareInv, TypeOK, PortTypeOK, LifecycleOrder, ThreadOrder, portVars,
         threadVars, statusVars, readVars
<1>1. CASE CallBegins
  <2>1. CASE Configure
    BY <2>1 DEF Configure, Between
  <2>2. CASE Cleanup
    BY <2>2 DEF Cleanup, Between
  <2>3. CASE DeactivateHalt
    BY <2>3 DEF DeactivateHalt, Between
  <2>4. CASE ReadGet
    BY <2>4 DEF ReadGet, Between
  <2>5. CASE Write
    BY <2>5 DEF Write, Between
  <2>6. CASE SwitchMode
    BY <2>6 DEF SwitchMode, Between
  <2>7. ASSUME NEW opens \in BOOLEAN, ActivateOpen(opens) PROVE ThreadOrder'
    BY <2>7 DEF ActivateOpen, Between, open
  <2> QED
    BY <1>1, <2>1, <2>2, <2>3, <2>4, <2>5, <2>6, <2>7 DEF CallBegins
<1>2. CASE CallStep
  <2>1. CASE ActivateWire
    BY <2>1 DEF ActivateWire, setCallback
  <2>2. CASE ActivateStart
    BY <2>2 DEF ActivateStart
  <2>3. CASE DeactivateNotify
    BY <2>3 DEF DeactivateNotify
  <2>4. CASE DeactivateJoin
    BY <2>4 DEF DeactivateJoin, CloseStop
  <2>5. CASE DeactivateClose
    BY <2>5 DEF DeactivateClose, CloseJoined
  <2>6. CASE ReadUpdate
    BY <2>6 DEF ReadUpdate
  <2> QED
    BY <1>2, <2>1, <2>2, <2>3, <2>4, <2>5, <2>6 DEF CallStep
<1>3. CASE ThreadStep
  <2>1. CASE ThreadCheck
    BY <2>1 DEF ThreadCheck, threadUnchanged
  <2>2. CASE ThreadNotified
    BY <2>2 DEF ThreadNotified, threadUnchanged
  <2>wait. CASE ThreadWait
    BY <2>wait DEF ThreadWait, threadUnchanged
  <2>3. CASE ThreadTimeout
    BY <2>3 DEF ThreadTimeout, threadUnchanged
  <2>4. CASE ThreadDrained
    BY <2>4 DEF ThreadDrained, threadUnchanged
  <2>5. CASE ThreadSend
    BY <2>5 DEF ThreadSend, SendCheck, SendPost, threadUnchanged
  <2>6. CASE ThreadSent
    BY <2>6 DEF ThreadSent, SendReturn, threadUnchanged
  <2>7. CASE ThreadPop
    <3>1. SendCall(Head(command_queue_)) /\ Head(command_queue_) # NoPacket
      BY <2>7, PoppedIsPacket, NoPacketAssumption DEF ThreadPop, Pop
    <3>2. background_thread_ = "popping" /\ background_thread_' = "sending"
      BY <2>7 DEF ThreadPop
    <3>3. UNCHANGED threadUnchanged
      BY <2>7 DEF ThreadPop
    <3> QED
      BY <3>1, <3>2, <3>3 DEF SendCall, threadUnchanged
  <2> QED
    BY <1>3, <2>1, <2>2, <2>3, <2>4, <2>5, <2>6, <2>7, <2>wait DEF ThreadStep
<1>4. CASE IoStep
  <2>1. CASE IoCallback
    BY <2>1 DEF IoCallback, EnterCallback
  <2>2. CASE StatusStored
    BY <2>2 DEF StatusStored
  <2>3. CASE StatusFlagged
    BY <2>3 DEF StatusFlagged, LeaveCallback
  <2>4. CASE NothingDelivered
    BY <2>4 DEF NothingDelivered, LeaveCallback
  <2>5. CASE IoRead
    BY <2>5 DEF IoRead, ReadCompletes, ioUnchanged
  <2>6. CASE IoWrite
    BY <2>6 DEF IoWrite, WriteCompletes, ioUnchanged
  <2>7. CASE IoEnd
    BY <2>7 DEF IoEnd, IoThreadEnds, ioUnchanged
  <2> QED
    BY <1>4, <2>1, <2>2, <2>3, <2>4, <2>5, <2>6, <2>7 DEF IoStep
<1>5. CASE UNCHANGED vars
  BY <1>5 DEF vars
<1> QED
  BY <1>1, <1>2, <1>3, <1>4, <1>5 DEF Next

(* The io thread runs until the port is stopped.                           *)
LEMMA IoOrderStep ==
  ASSUME HardwareInv, [Next]_vars
  PROVE  IoOrder'
<1> USE DEF HardwareInv, TypeOK, PortTypeOK, LifecycleOrder, IoOrder, portVars, threadVars,
         statusVars, readVars
<1>1. CASE CallBegins
  <2>1. CASE Configure
    BY <2>1 DEF Configure, Between
  <2>2. CASE Cleanup
    BY <2>2 DEF Cleanup, Between
  <2>3. CASE DeactivateHalt
    BY <2>3 DEF DeactivateHalt, Between
  <2>4. CASE ReadGet
    BY <2>4 DEF ReadGet, Between
  <2>5. CASE Write
    BY <2>5 DEF Write, Between
  <2>6. CASE SwitchMode
    BY <2>6 DEF SwitchMode, Between
  <2>7. ASSUME NEW opens \in BOOLEAN, ActivateOpen(opens) PROVE IoOrder'
    BY <2>7 DEF ActivateOpen, Between, open
  <2> QED
    BY <1>1, <2>1, <2>2, <2>3, <2>4, <2>5, <2>6, <2>7 DEF CallBegins
<1>2. CASE CallStep
  <2>1. CASE ActivateWire
    BY <2>1 DEF ActivateWire, setCallback
  <2>2. CASE ActivateStart
    BY <2>2 DEF ActivateStart
  <2>3. CASE DeactivateNotify
    BY <2>3 DEF DeactivateNotify
  <2>4. CASE DeactivateJoin
    BY <2>4 DEF DeactivateJoin, CloseStop
  <2>5. CASE DeactivateClose
    BY <2>5 DEF DeactivateClose, CloseJoined
  <2>6. CASE ReadUpdate
    BY <2>6 DEF ReadUpdate
  <2> QED
    BY <1>2, <2>1, <2>2, <2>3, <2>4, <2>5, <2>6 DEF CallStep
<1>3. CASE ThreadStep
  <2>1. CASE ThreadCheck
    BY <2>1 DEF ThreadCheck, threadUnchanged
  <2>2. CASE ThreadNotified
    BY <2>2 DEF ThreadNotified, threadUnchanged
  <2>wait. CASE ThreadWait
    BY <2>wait DEF ThreadWait, threadUnchanged
  <2>3. CASE ThreadTimeout
    BY <2>3 DEF ThreadTimeout, threadUnchanged
  <2>4. CASE ThreadDrained
    BY <2>4 DEF ThreadDrained, threadUnchanged
  <2>5. CASE ThreadPop
    BY <2>5 DEF ThreadPop, SendCall, threadUnchanged
  <2>6. CASE ThreadSend
    BY <2>6 DEF ThreadSend, SendCheck, SendPost, threadUnchanged
  <2>7. CASE ThreadSent
    BY <2>7 DEF ThreadSent, SendReturn, threadUnchanged
  <2> QED
    BY <1>3, <2>1, <2>2, <2>3, <2>4, <2>5, <2>6, <2>7, <2>wait DEF ThreadStep
<1>4. CASE IoStep
  <2>1. CASE IoCallback
    BY <2>1 DEF IoCallback, EnterCallback
  <2>2. CASE StatusStored
    BY <2>2 DEF StatusStored
  <2>3. CASE StatusFlagged
    BY <2>3 DEF StatusFlagged, LeaveCallback
  <2>4. CASE NothingDelivered
    BY <2>4 DEF NothingDelivered, LeaveCallback
  <2>5. CASE IoRead
    BY <2>5 DEF IoRead, ReadCompletes, ioUnchanged
  <2>6. CASE IoWrite
    BY <2>6 DEF IoWrite, WriteCompletes, ioUnchanged
  <2>7. CASE IoEnd
    BY <2>7 DEF IoEnd, IoThreadEnds, ioUnchanged
  <2> QED
    BY <1>4, <2>1, <2>2, <2>3, <2>4, <2>5, <2>6, <2>7 DEF IoStep
<1>5. CASE UNCHANGED vars
  BY <1>5 DEF vars
<1> QED
  BY <1>1, <1>2, <1>3, <1>4, <1>5 DEF Next

(* A status is flagged after it was stored, and read shows none before.    *)
LEMMA StatusOrderStep ==
  ASSUME HardwareInv, [Next]_vars
  PROVE  StatusOrder'
<1> USE DEF HardwareInv, TypeOK, PortTypeOK, StatusOrder, portVars, threadVars, statusVars,
         readVars
<1>1. CASE CallBegins
  <2>1. CASE Configure
    BY <2>1 DEF Configure, Between
  <2>2. CASE Cleanup
    BY <2>2 DEF Cleanup, Between
  <2>3. CASE DeactivateHalt
    BY <2>3 DEF DeactivateHalt, Between
  <2>4. CASE ReadGet
    BY <2>4 DEF ReadGet, Between
  <2>5. CASE Write
    BY <2>5 DEF Write, Between
  <2>6. CASE SwitchMode
    BY <2>6 DEF SwitchMode, Between
  <2>7. ASSUME NEW opens \in BOOLEAN, ActivateOpen(opens) PROVE StatusOrder'
    BY <2>7 DEF ActivateOpen, Between, open
  <2> QED
    BY <1>1, <2>1, <2>2, <2>3, <2>4, <2>5, <2>6, <2>7 DEF CallBegins
<1>2. CASE CallStep
  <2>1. CASE ActivateWire
    BY <2>1 DEF ActivateWire, setCallback
  <2>2. CASE ActivateStart
    BY <2>2 DEF ActivateStart
  <2>3. CASE DeactivateNotify
    BY <2>3 DEF DeactivateNotify
  <2>4. CASE DeactivateJoin
    BY <2>4 DEF DeactivateJoin, CloseStop
  <2>5. CASE DeactivateClose
    BY <2>5 DEF DeactivateClose, CloseJoined
  <2>6. CASE ReadUpdate
    BY <2>6 DEF ReadUpdate
  <2> QED
    BY <1>2, <2>1, <2>2, <2>3, <2>4, <2>5, <2>6 DEF CallStep
<1>3. CASE ThreadStep
  <2>1. CASE ThreadCheck
    BY <2>1 DEF ThreadCheck, threadUnchanged
  <2>2. CASE ThreadNotified
    BY <2>2 DEF ThreadNotified, threadUnchanged
  <2>wait. CASE ThreadWait
    BY <2>wait DEF ThreadWait, threadUnchanged
  <2>3. CASE ThreadTimeout
    BY <2>3 DEF ThreadTimeout, threadUnchanged
  <2>4. CASE ThreadDrained
    BY <2>4 DEF ThreadDrained, threadUnchanged
  <2>5. CASE ThreadPop
    BY <2>5 DEF ThreadPop, SendCall, threadUnchanged
  <2>6. CASE ThreadSend
    BY <2>6 DEF ThreadSend, SendCheck, SendPost, threadUnchanged
  <2>7. CASE ThreadSent
    BY <2>7 DEF ThreadSent, SendReturn, threadUnchanged
  <2> QED
    BY <1>3, <2>1, <2>2, <2>3, <2>4, <2>5, <2>6, <2>7, <2>wait DEF ThreadStep
<1>4. CASE IoStep
  <2>1. CASE IoCallback
    BY <2>1 DEF IoCallback, EnterCallback
  <2>2. CASE StatusStored
    BY <2>2 DEF StatusStored
  <2>3. CASE StatusFlagged
    BY <2>3 DEF StatusFlagged, LeaveCallback
  <2>4. CASE NothingDelivered
    BY <2>4 DEF NothingDelivered, LeaveCallback
  <2>5. CASE IoRead
    BY <2>5 DEF IoRead, ReadCompletes, ioUnchanged
  <2>6. CASE IoWrite
    BY <2>6 DEF IoWrite, WriteCompletes, ioUnchanged
  <2>7. CASE IoEnd
    BY <2>7 DEF IoEnd, IoThreadEnds, ioUnchanged
  <2> QED
    BY <1>4, <2>1, <2>2, <2>3, <2>4, <2>5, <2>6, <2>7 DEF IoStep
<1>5. CASE UNCHANGED vars
  BY <1>5 DEF vars
<1> QED
  BY <1>1, <1>2, <1>3, <1>4, <1>5 DEF Next

(* The invariant is inductive: every step of every thread keeps what       *)
(* exists, what each thread does and what has been reported in order.      *)
LEMMA HardwareStep ==
  ASSUME HardwareInv, [Next]_vars
  PROVE  HardwareInv'
BY HardwareTypesStep, LifecycleStep, ThreadOrderStep, IoOrderStep, StatusOrderStep DEF HardwareInv

(* The invariant holds, whatever the three threads do.                     *)
THEOREM HardwareInvariant == Spec => []HardwareInv
<1>1. Init => HardwareInv
  <2> SUFFICES ASSUME Init PROVE HardwareInv
    OBVIOUS
  <2>1. CommandTypeOK
    BY CommandTypesStart DEF Init
  <2>2. AllZero \in Packet /\ \A j \in Joint : AllZero[j] \notin Position
    BY ValuesAssumption DEF AllZero, Packet, Stored
  <2> QED
    BY <2>1, <2>2 DEF Init, PortInit, HardwareInv, TypeOK, PortTypeOK, LifecycleOrder,
         ThreadOrder, IoOrder, StatusOrder
<1>2. HardwareInv /\ [Next]_vars => HardwareInv'
  BY HardwareStep
<1> QED
  BY <1>1, <1>2, PTL DEF Spec

(* Type correctness of the component, its port and its commands.           *)
THEOREM HardwareTypeCorrect == Spec => []TypeOK
<1>1. HardwareInv => TypeOK
  BY DEF HardwareInv
<1> QED
  BY <1>1, HardwareInvariant, PTL

(* on_deactivate takes port and decoder away only when the background      *)
(* thread no longer uses them (servo_hardware.cpp:206-230).                *)
THEOREM PortIsThereForThread == Spec => []PortOutlivesThread
<1>1. HardwareInv => PortOutlivesThread
  BY DEF HardwareInv, TypeOK, LifecycleOrder, ThreadOrder, IoOrder, PortOutlivesThread
<1> QED
  BY <1>1, HardwareInvariant, PTL

(* The decoder goes after the io thread has ended, and comes before the    *)
(* callback is set up (servo_hardware.cpp:169-185, 220-226).               *)
THEOREM DecoderIsThereForCallback == Spec => []DecoderOutlivesCallback
<1>1. HardwareInv => DecoderOutlivesCallback
  BY DEF HardwareInv, TypeOK, LifecycleOrder, IoOrder, DecoderOutlivesCallback
<1> QED
  BY <1>1, HardwareInvariant, PTL

(* No thread survives a deactivation, and both run while the component is  *)
(* active (servo_hardware.cpp:147-230).                                    *)
THEOREM ThreadsKeepToLifecycle == Spec => []ThreadsFollowLifecycle
<1>1. HardwareInv => ThreadsFollowLifecycle
  BY DEF HardwareInv, TypeOK, LifecycleOrder, ThreadOrder, IoOrder, ThreadsFollowLifecycle
<1> QED
  BY <1>1, HardwareInvariant, PTL

(* read takes a copy of the box before it looks at the flag, and still     *)
(* never goes back to a state nobody reported (servo_hardware.cpp:232-     *)
(* 259).                                                                   *)
THEOREM ReportedStateStays == Spec => StateStaysReported
<1>1. ASSUME HardwareInv, ReadUpdate, NEW j \in Joint, servo_state[j] \in Position
      PROVE  servo_state'[j] \in Position
  BY <1>1 DEF HardwareInv, StatusOrder, ReadUpdate
<1>2. ASSUME [Next]_vars, ~ ReadUpdate
      PROVE  UNCHANGED servo_state
  BY <1>2 DEF Next, CallBegins, CallStep, ThreadStep, IoStep, vars, readVars, Configure, Cleanup,
       DeactivateHalt, ReadGet, Write, SwitchMode, ActivateOpen, ActivateWire, ActivateStart,
       DeactivateNotify, DeactivateJoin, DeactivateClose, ThreadCheck, ThreadWait,
       ThreadNotified, ThreadTimeout, ThreadDrained, ThreadPop, ThreadSend, ThreadSent,
       threadUnchanged, IoCallback, StatusStored, StatusFlagged, NothingDelivered, IoRead, IoWrite, IoEnd,
       ioUnchanged
<1>3. HardwareInv /\ [Next]_vars =>
        [\A j \in Joint : servo_state[j] \in Position => servo_state'[j] \in Position]_vars
  BY <1>1, <1>2
<1> QED
  BY <1>3, HardwareInvariant, PTL DEF Spec, StateStaysReported

(* The delay of a joint stays armed, whatever is activated, popped or sent *)
(* meanwhile.                                                              *)
LEMMA DelayArmedInHardware == Spec => []DelayArmed
<1>1. Init => DelayArmed
  BY DEF Init, CommandInit, DelayArmed
<1>2. HardwareInv /\ DelayArmed /\ [Next]_vars => DelayArmed'
  <2> SUFFICES ASSUME HardwareInv, DelayArmed, [Next]_vars PROVE DelayArmed'
    OBVIOUS
  <2>1. CommandTypeOK
    BY DEF HardwareInv, TypeOK
  <2>2. CASE [CommandNext]_commandVars
    BY <2>1, <2>2, DelayArmedStep
  <2>3. CASE UNCHANGED <<claimVars, controllerVars>>
    BY <2>3 DEF claimVars, controllerVars, DelayArmed
  <2> QED
    BY <2>2, <2>3, CommandsOfHardware
<1> QED
  BY <1>1, <1>2, HardwareInvariant, PTL DEF Spec

(* Also with activations, pops and sends between the cycles, the 0.0 of    *)
(* the first cycle after a claim is not stored (servo_hardware.cpp:185-    *)
(* 190, 272-282).                                                          *)
THEOREM FirstZeroIsIgnoredInHardware == Spec => FirstZeroIgnored
<1>1. ASSUME HardwareInv, DelayArmed, [Next]_vars
      PROVE  [\A j \in owned :
                servo_command'[j] # servo_command[j] => servo_command'[j] \in Position]_commandVars
  <2>1. CommandTypeOK
    BY <1>1 DEF HardwareInv, TypeOK
  <2>2. CASE [CommandNext]_commandVars
    BY <1>1, <2>1, <2>2, FirstZeroStep
  <2>3. CASE UNCHANGED servo_command
    BY <2>3
  <2> QED
    BY <1>1, <2>2, <2>3, CommandsOfHardware
<1>2. HardwareInv /\ DelayArmed /\ [Next]_vars =>
        [\A j \in owned :
           servo_command'[j] # servo_command[j] => servo_command'[j] \in Position]_commandVars
  BY <1>1
<1> QED
  BY <1>2, HardwareInvariant, DelayArmedInHardware, PTL DEF Spec, FirstZeroIgnored

-----------------------------------------------------------------------------
(* CommandChannel: what is accepted and not transmitted is the queue, with *)
(* the packet under way to the device in front of it.                      *)

(* A packet in front of a queue.                                           *)
LEMMA InFront ==
  ASSUME NEW S, NEW queue \in Seq(S), NEW first \in S
  PROVE  /\ <<first>> \o queue # <<>>
         /\ Head(<<first>> \o queue) = first
         /\ Tail(<<first>> \o queue) = queue
         /\ Len(<<first>> \o queue) = Len(queue) + 1
         /\ \A last \in S : <<first>> \o Append(queue, last) = Append(<<first>> \o queue, last)
OBVIOUS

(* A queue is its oldest packet in front of the others.                    *)
LEMMA OldestInFront ==
  ASSUME NEW S, NEW queue \in Seq(S), queue # <<>>
  PROVE  <<Head(queue)>> \o Tail(queue) = queue
OBVIOUS

(* What is pending has a length.                                           *)
LEMMA PendingIsQueue ==
  ASSUME HardwareInv
  PROVE  Len(Pending) \in Nat
<1>1. command_queue_ \in Seq(Packet)
  BY DEF HardwareInv, TypeOK, CommandTypeOK
<1>2. sender \in {"locking", "checked", "posted"} => sending \in Packet
  BY DEF HardwareInv, TypeOK, PortTypeOK, ThreadOrder
<1> QED
  BY <1>1, <1>2, InFront DEF Pending

(* A cycle of the controller manager accepts a packet, or none.            *)
LEMMA WriteAccepts ==
  ASSUME HardwareInv, CommandTypeOK', Write
  PROVE  [Channel!Accept]_Channel!channelVars
<1>1. command_queue_ \in Seq(Packet) /\ sending \in Packet \union {NoPacket}
  BY DEF HardwareInv, TypeOK, CommandTypeOK, PortTypeOK
<1>2. UNCHANGED <<sender, sending, transmitted>>
  BY DEF Write, portVars
<1>3. PICK packet \in Packet :
        command_queue_' = command_queue_ \/ command_queue_' = Append(command_queue_, packet)
  <2>1. PICK values \in [Joint -> Handle] : write(values)
    BY DEF Write, ControlCycle
  <2>2. servo_command' \in Packet
    BY DEF CommandTypeOK
  <2> QED
    BY <2>1, <2>2 DEF write, Push
<1>4. CASE command_queue_' = command_queue_
  BY <1>2, <1>4 DEF Pending, Channel!channelVars
<1>5. CASE command_queue_' = Append(command_queue_, packet)
  <2>1. CASE sender \in {"locking", "checked", "posted"}
    <3>1. sending \in Packet
      BY <1>1, <2>1 DEF HardwareInv, ThreadOrder
    <3> QED
      BY <1>1, <1>2, <1>5, <2>1, <3>1, InFront DEF Pending, Channel!Accept
  <2>2. CASE sender \notin {"locking", "checked", "posted"}
    BY <1>2, <1>5, <2>2 DEF Pending, Channel!Accept
  <2> QED
    BY <2>1, <2>2
<1> QED
  BY <1>3, <1>4, <1>5

(* Taking a packet from the queue to send it leaves it pending.            *)
LEMMA PopKeepsPending ==
  ASSUME HardwareInv, ThreadPop
  PROVE  UNCHANGED Channel!channelVars
<1>1. command_queue_ \in Seq(Packet) /\ command_queue_ # <<>>
  BY DEF HardwareInv, TypeOK, CommandTypeOK, ThreadPop, Pop
<1>2. /\ sender = "idle" /\ sender' = "locking" /\ sending' = Head(command_queue_)
      /\ command_queue_' = Tail(command_queue_) /\ UNCHANGED transmitted
  BY DEF ThreadPop, Pop, SendCall
<1> QED
  BY <1>1, <1>2, OldestInFront DEF Pending, Channel!channelVars

(* The mutex is taken, the write is posted, send returns: the port is open *)
(* while the thread sends, so no packet is given up.                       *)
LEMMA SendKeepsPending ==
  ASSUME HardwareInv, ThreadSend \/ ThreadSent
  PROVE  UNCHANGED Channel!channelVars
<1>1. ASSUME ThreadSend, SendPost PROVE is_open
  BY <1>1 DEF SendPost, HardwareInv, LifecycleOrder, ThreadOrder
<1> QED
  BY <1>1 DEF ThreadSend, ThreadSent, SendCheck, SendPost, SendReturn, commandVars, Pending,
       Channel!channelVars

(* The device takes the packet that was sent, or loses it.                 *)
LEMMA WriteTransmits ==
  ASSUME HardwareInv, IoWrite
  PROVE  /\ Channel!Transmit \/ Channel!Lose
         /\ ~ Len(Pending') > Len(Pending)
<1>1. command_queue_ \in Seq(Packet) /\ UNCHANGED command_queue_
  BY DEF HardwareInv, TypeOK, CommandTypeOK, IoWrite, ioUnchanged, commandVars
<1>2. sender = "posted" /\ sender' = "written" /\ sending \in Packet
  BY DEF HardwareInv, TypeOK, PortTypeOK, ThreadOrder, IoWrite, WriteCompletes
<1>3. /\ Pending = <<sending>> \o command_queue_ /\ Pending' = command_queue_
      /\ transmitted' = sending \/ transmitted' = transmitted
  BY <1>1, <1>2 DEF Pending, IoWrite, WriteCompletes
<1>4. Channel!Transmit \/ Channel!Lose
  BY <1>1, <1>2, <1>3, InFront DEF Channel!Transmit, Channel!Lose
<1>5. Len(Pending) = Len(command_queue_) + 1 /\ Len(command_queue_) \in Nat
  BY <1>1, <1>2, <1>3, InFront
<1> QED
  BY <1>3, <1>4, <1>5

(* Nothing else touches the queue, what is sent or what was transmitted.   *)
LEMMA OthersKeepPending ==
  ASSUME [Next]_vars, ~ Write, ~ ThreadPop, ~ ThreadSend, ~ ThreadSent, ~ IoWrite
  PROVE  UNCHANGED Channel!channelVars
<1> USE DEF commandVars, portVars, Pending, Channel!channelVars
<1>1. CASE CallBegins
  BY <1>1 DEF CallBegins, Configure, Cleanup, DeactivateHalt, ReadGet, SwitchMode, SwitchStep,
       ModeSwitch, ActivateOpen, open
<1>2. CASE CallStep
  BY <1>2 DEF CallStep, ActivateWire, setCallback, ActivateStart, DeactivateNotify,
       DeactivateJoin, CloseStop, DeactivateClose, CloseJoined, ReadUpdate
<1>3. CASE ThreadStep
  BY <1>3 DEF ThreadStep, ThreadCheck, ThreadWait, ThreadNotified, ThreadTimeout, ThreadDrained
<1>4. CASE IoStep
  BY <1>4 DEF IoStep, IoCallback, EnterCallback, StatusStored, StatusFlagged, NothingDelivered,
       LeaveCallback, IoRead, ReadCompletes, IoEnd, IoThreadEnds, ioUnchanged
<1>5. CASE UNCHANGED vars
  BY <1>5 DEF vars
<1> QED
  BY <1>1, <1>2, <1>3, <1>4, <1>5 DEF Next

(* The three threads together implement the channel: no packet is sent     *)
(* twice, none overtakes another, and none is made up, whatever is called  *)
(* while it is under way (servo_hardware.cpp:295-299, 466-491).            *)
THEOREM HardwareImplementsChannel == Spec => ImplementsChannel
<1>1. Init => Channel!Init
  BY DEF Init, CommandInit, PortInit, Pending, Channel!Init
<1>2. ASSUME HardwareInv, [Next]_vars
      PROVE  /\ [Channel!Next]_Channel!channelVars
             /\ ~ Write => ~ Len(Pending') > Len(Pending)
  <2>1. CASE Write
    BY <1>2, <2>1, HardwareCommandTypes, WriteAccepts DEF Channel!Next
  <2>2. CASE IoWrite
    BY <1>2, <2>2, WriteTransmits DEF Channel!Next
  <2>3. CASE ~ Write /\ ~ IoWrite
    <3>1. UNCHANGED Channel!channelVars
      BY <1>2, <2>3, PopKeepsPending, SendKeepsPending, OthersKeepPending
    <3>2. Pending' = Pending /\ Len(Pending) \in Nat
      BY <1>2, <3>1, PendingIsQueue DEF Channel!channelVars
    <3> QED
      BY <3>1, <3>2
  <2> QED
    BY <2>1, <2>2, <2>3
<1>3. HardwareInv /\ [Next]_vars =>
        [Channel!Next]_Channel!channelVars /\ [Len(Pending') > Len(Pending) => Write]_vars
  BY <1>2
<1> QED
  BY <1>1, <1>3, HardwareInvariant, PTL DEF Spec, ImplementsChannel, Channel!Spec
=============================================================================
