---------------------------- MODULE ServoHardware ----------------------------
(***************************************************************************)
(* The ros2_control hardware component, servo_hardware/src/servo_hardware  *)
(* .cpp, with its three threads:                                           *)
(*                                                                         *)
(*   the controller manager's, which makes the lifecycle calls, read and   *)
(*     write, one after the other;                                         *)
(*   the background thread, which takes packets from the queue and sends   *)
(*     them;                                                               *)
(*   the serial port's io thread, which delivers status packets.           *)
(*                                                                         *)
(* A call is split where another thread can see or change what it uses.    *)
(* The decoder's work on the stream is in HostStream: here the callback of *)
(* a read delivers a status or none.                                       *)
(***************************************************************************)
EXTENDS CommandInterfaces, SerialPort

VARIABLES
  cm,                        (* where the controller manager's calls are     *)
  protocol_decoder_,         (* it exists                                    *)
  background_thread_,        (* what the background thread does              *)
  halting_,
  notified,                  (* cv_ was notified during the present wait     *)
  status_box_,
  state_message_received_,
  copied,                    (* read's copy of the status, or NoPacket       *)
  servo_state,               (* servo_0_state_ ... servo_3_state_            *)
  state                      (* the state handles                            *)

threadVars == <<background_thread_, halting_, notified>>
statusVars == <<status_box_, state_message_received_>>
readVars == <<copied, servo_state, state>>
vars == <<commandVars, portVars, cm, protocol_decoder_, threadVars, statusVars, readVars>>

ASSUME NoPacketAssumption == NoPacket \notin Packet

Init ==
  /\ CommandInit
  /\ PortInit
  /\ cm = "unconfigured"
  /\ protocol_decoder_ = FALSE
  /\ background_thread_ = "none"
  /\ halting_ = FALSE
  /\ notified = FALSE
  /\ status_box_ = AllZero
  /\ state_message_received_ = FALSE
  /\ copied = NoPacket
  /\ servo_state = AllZero
  /\ state = AllZero

-----------------------------------------------------------------------------
(* Lifecycle.  A component whose activation failed can be configured again *)
(* (what comes after an error is the controller manager's decision).       *)

(* The controller manager is between calls. *)
Between(places) == cm \in places /\ copied = NoPacket

Configure ==
  /\ Between({"unconfigured", "failed"})
  /\ cm' = "inactive"
  /\ state' = AllZero
  /\ command' = AllZero
  /\ UNCHANGED <<requested, claimVars, servo_command, command_queue_, controllerVars,
                 portVars, protocol_decoder_, threadVars, statusVars, copied, servo_state>>

(* on_cleanup is the default one, which does nothing. *)
Cleanup ==
  /\ Between({"inactive"})
  /\ cm' = "unconfigured"
  /\ UNCHANGED <<commandVars, portVars, protocol_decoder_, threadVars, statusVars, readVars>>

ActivateOpen(opens) ==
  /\ Between({"inactive"})
  /\ open(opens)
  /\ cm' = IF opens THEN "opened" ELSE "failed"
  /\ UNCHANGED <<commandVars, protocol_decoder_, threadVars, statusVars, readVars>>

ActivateWire ==
  /\ cm = "opened"
  /\ setCallback
  /\ protocol_decoder_' = TRUE
  /\ cm' = "wired"
  /\ UNCHANGED <<commandVars, threadVars, statusVars, readVars>>

(* Slip: every activation starts with an empty status box. *)
ActivateFreshBox ==
  /\ cm = "wired"
  /\ command' = state
  /\ status_box_' = AllZero
  /\ halting_' = FALSE
  /\ background_thread_' = "checking"
  /\ cm' = "active"
  /\ UNCHANGED <<requested, claimVars, servo_command, command_queue_, controllerVars,
                 portVars, protocol_decoder_, notified, state_message_received_, readVars>>

(* The command handles take the values of the state handles. *)
ActivateStart ==
  /\ cm = "wired"
  /\ command' = state
  /\ halting_' = FALSE
  /\ background_thread_' = "checking"
  /\ cm' = "active"
  /\ UNCHANGED <<requested, claimVars, servo_command, command_queue_, controllerVars,
                 portVars, protocol_decoder_, notified, statusVars, readVars>>

(* halting_ is set and notified without cv_mutex_: a thread that has just  *)
(* found it unset ("tested") and does not wait yet misses the notification. *)
DeactivateHalt ==
  /\ Between({"active"})
  /\ halting_' = TRUE
  /\ cm' = "halting"
  /\ UNCHANGED <<commandVars, portVars, protocol_decoder_, background_thread_, notified,
                 statusVars, readVars>>

DeactivateNotify ==
  /\ cm = "halting"
  /\ notified' = (background_thread_ = "waiting")
  /\ cm' = "joining"
  /\ UNCHANGED <<commandVars, portVars, protocol_decoder_, background_thread_, halting_,
                 statusVars, readVars>>

(* Slips: the port is closed without waiting for the thread; the decoder   *)
(* goes before the port is closed.                                         *)
DeactivateNoJoin ==
  /\ cm = "joining"
  /\ CloseStop
  /\ cm' = "closing"
  /\ UNCHANGED <<commandVars, protocol_decoder_, threadVars, statusVars, readVars>>

DeactivateDecoderFirst ==
  /\ cm = "joining"
  /\ background_thread_ = "ended"
  /\ background_thread_' = "none"
  /\ CloseStop
  /\ protocol_decoder_' = FALSE
  /\ cm' = "closing"
  /\ UNCHANGED <<commandVars, halting_, notified, statusVars, readVars>>

DeactivateJoin ==
  /\ cm = "joining"
  /\ background_thread_ = "ended"
  /\ background_thread_' = "none"
  /\ CloseStop
  /\ cm' = "closing"
  /\ UNCHANGED <<commandVars, protocol_decoder_, halting_, notified, statusVars, readVars>>

DeactivateClose ==
  /\ cm = "closing"
  /\ CloseJoined
  /\ protocol_decoder_' = FALSE
  /\ cm' = "inactive"
  /\ UNCHANGED <<commandVars, threadVars, statusVars, readVars>>

-----------------------------------------------------------------------------
(* read, write and mode switches. *)

ReadGet ==
  /\ Between({"inactive", "active"})
  /\ copied' = status_box_
  /\ UNCHANGED <<commandVars, portVars, cm, protocol_decoder_, threadVars, statusVars,
                 servo_state, state>>

ReadUpdate ==
  /\ copied # NoPacket
  /\ servo_state' = IF state_message_received_ THEN copied ELSE servo_state
  /\ state' = [j \in Joint |-> IF j \in requested THEN servo_state'[j] ELSE state[j]]
  /\ copied' = NoPacket
  /\ UNCHANGED <<commandVars, portVars, cm, protocol_decoder_, threadVars, statusVars>>

(* A packet pushed is announced to the background thread. *)
Write ==
  /\ Between({"active"})
  /\ ControlCycle
  /\ notified' = \/ notified
                  \/ /\ background_thread_ = "waiting"
                     /\ Len(command_queue_') > Len(command_queue_)
  /\ UNCHANGED <<portVars, cm, protocol_decoder_, background_thread_, halting_, statusVars,
                 readVars>>

SwitchMode ==
  /\ Between({"inactive", "active"})
  /\ SwitchStep
  /\ UNCHANGED <<portVars, cm, protocol_decoder_, threadVars, statusVars, readVars>>

-----------------------------------------------------------------------------
(* The background thread. *)

threadUnchanged == <<cm, protocol_decoder_, halting_, statusVars, readVars>>

(* The test of the loop, and the predicate of the wait before it blocks. *)
ThreadCheck ==
  /\ background_thread_ = "checking"
  /\ background_thread_' = IF halting_ THEN "ended" ELSE "tested"
  /\ UNCHANGED <<notified, commandVars, portVars, threadUnchanged>>

(* From here on, and not before, a notification reaches the thread. *)
ThreadWait ==
  /\ background_thread_ = "tested"
  /\ background_thread_' = "waiting"
  /\ UNCHANGED <<notified, commandVars, portVars, threadUnchanged>>

(* A notification makes the wait look at its predicate, halting_, again. *)
ThreadNotified ==
  /\ background_thread_ = "waiting"
  /\ notified
  /\ background_thread_' = "checking"
  /\ notified' = FALSE
  /\ UNCHANGED <<commandVars, portVars, threadUnchanged>>

(* Slip: the wait has no timeout, only a notification ends it. *)
ThreadUntimed ==
  /\ background_thread_ = "waiting"
  /\ notified
  /\ background_thread_' = IF halting_ THEN "ended" ELSE "popping"
  /\ notified' = FALSE
  /\ UNCHANGED <<commandVars, portVars, threadUnchanged>>

(* Slip: the thread waits again as long as nobody told it to halt. *)
ThreadWaitsOn ==
  /\ background_thread_ = "waiting"
  /\ background_thread_' = IF halting_ THEN "ended" ELSE "checking"
  /\ notified' = FALSE
  /\ UNCHANGED <<commandVars, portVars, threadUnchanged>>

ThreadTimeout ==
  /\ background_thread_ = "waiting"
  /\ background_thread_' = IF halting_ THEN "ended" ELSE "popping"
  /\ notified' = FALSE
  /\ UNCHANGED <<commandVars, portVars, threadUnchanged>>

(* All that is queued is sent before the thread waits again. *)
ThreadDrained ==
  /\ background_thread_ = "popping"
  /\ command_queue_ = <<>> \/ ~ protocol_decoder_
  /\ background_thread_' = "checking"
  /\ UNCHANGED <<notified, commandVars, portVars, threadUnchanged>>

(* Slip: the newest packet goes first. *)
ThreadPopNewest ==
  /\ background_thread_ = "popping"
  /\ protocol_decoder_
  /\ Pop
  /\ background_thread_' = "sending"
  /\ SendCall(command_queue_[Len(command_queue_)])
  /\ UNCHANGED <<notified, threadUnchanged>>

ThreadPop ==
  /\ background_thread_ = "popping"
  /\ protocol_decoder_
  /\ Pop
  /\ background_thread_' = "sending"
  /\ SendCall(Head(command_queue_))
  /\ UNCHANGED <<notified, threadUnchanged>>

ThreadSend ==
  /\ SendCheck \/ SendPost
  /\ UNCHANGED <<commandVars, background_thread_, notified, threadUnchanged>>

(* The result of send is ignored. *)
ThreadSent ==
  /\ background_thread_ = "sending"
  /\ SendReturn
  /\ background_thread_' = "popping"
  /\ UNCHANGED <<notified, commandVars, threadUnchanged>>

-----------------------------------------------------------------------------
(* The io thread.  A status stores the box first and the flag after it. *)

IoCallback ==
  /\ EnterCallback
  /\ UNCHANGED <<commandVars, cm, protocol_decoder_, threadVars, statusVars, readVars>>

StatusStored ==
  /\ io_thread_ = "callback"
  /\ receive_callback_ /\ protocol_decoder_
  /\ \E status \in [Joint -> Position] : status_box_' = status
  /\ io_thread_' = "stored"
  /\ UNCHANGED <<commandVars, is_open, stopped, mutex_, receive_callback_, sender, sending,
                 transmitted, cm, protocol_decoder_, threadVars, state_message_received_,
                 readVars>>

StatusFlagged ==
  /\ LeaveCallback("stored")
  /\ state_message_received_' = TRUE
  /\ UNCHANGED <<commandVars, cm, protocol_decoder_, threadVars, status_box_, readVars>>

(* Bytes that complete no status, or no callback to give them to. *)
NothingDelivered ==
  /\ LeaveCallback("callback")
  /\ UNCHANGED <<commandVars, cm, protocol_decoder_, threadVars, statusVars, readVars>>

ioUnchanged == <<commandVars, cm, protocol_decoder_, threadVars, statusVars, readVars>>

IoRead == ReadCompletes /\ UNCHANGED ioUnchanged

IoWrite == (\E succeeds \in BOOLEAN : WriteCompletes(succeeds)) /\ UNCHANGED ioUnchanged

IoEnd == IoThreadEnds /\ UNCHANGED ioUnchanged

-----------------------------------------------------------------------------
CallStep ==
  ActivateWire \/ ActivateStart \/ DeactivateNotify \/ DeactivateJoin \/ DeactivateClose
    \/ ReadUpdate

CallBegins ==
  \/ Configure \/ Cleanup \/ DeactivateHalt \/ ReadGet \/ Write \/ SwitchMode
  \/ \E opens \in BOOLEAN : ActivateOpen(opens)

ThreadStep ==
  ThreadCheck \/ ThreadWait \/ ThreadNotified \/ ThreadTimeout \/ ThreadDrained
    \/ ThreadPop \/ ThreadSend \/ ThreadSent

IoStep ==
  IoCallback \/ StatusStored \/ StatusFlagged \/ NothingDelivered \/ IoRead \/ IoWrite
    \/ IoEnd

Next == CallBegins \/ CallStep \/ ThreadStep \/ IoStep

IoReturns == StatusFlagged \/ NothingDelivered

(* A call once begun goes on, a callback returns, and the device takes     *)
(* what is written.  The wait times out 10 ms after it began, however      *)
(* often it is notified before (the deadline is fixed when it begins).     *)
(* Who waits for the mutex gets it, and the io thread serves writes        *)
(* although reads keep it busy.                                            *)
Fairness ==
  /\ SF_vars(CallStep)
  /\ SF_vars(ThreadTimeout)
  /\ SF_vars(ThreadStep)
  /\ SF_vars(IoCallback)
  /\ WF_vars(IoReturns)
  /\ SF_vars(IoWrite)
  /\ WF_vars(IoEnd)

Spec == Init /\ [][Next]_vars /\ Fairness

-----------------------------------------------------------------------------
(* The handlers keep their variables to their kinds. *)
TypeOK ==
  /\ CommandTypeOK
  /\ PortTypeOK(Packet)
  /\ cm \in {"unconfigured", "inactive", "opened", "wired", "active", "halting", "joining",
             "closing", "failed"}
  /\ protocol_decoder_ \in BOOLEAN
  /\ background_thread_ \in
       {"none", "checking", "tested", "waiting", "popping", "sending", "ended"}
  /\ halting_ \in BOOLEAN
  /\ notified \in BOOLEAN
  /\ status_box_ \in Packet
  /\ state_message_received_ \in BOOLEAN
  /\ copied \in Packet \union {NoPacket}
  /\ servo_state \in Packet
  /\ state \in Packet

(* The background thread finds the port open and the decoder there         *)
(* whenever it uses them, and the io thread that must complete its write   *)
(* runs: on_deactivate takes them away in the right order (cpp:211-226).   *)
PortOutlivesThread ==
  background_thread_ \in {"popping", "sending"} =>
    is_open /\ ~ stopped /\ io_thread_ # "none" /\ protocol_decoder_

(* No callback runs on a decoder that is not there (cpp:179-183).          *)
DecoderOutlivesCallback ==
  io_thread_ \in {"callback", "stored"} /\ receive_callback_ => protocol_decoder_

(* A component that is inactive has no thread and no open port, and an     *)
(* active one has both.                                                    *)
ThreadsFollowLifecycle ==
  /\ cm \in {"unconfigured", "inactive", "failed"} =>
       background_thread_ = "none" /\ io_thread_ = "none" /\ ~ is_open
  /\ cm = "active" =>
       background_thread_ \notin {"none", "ended"} /\ io_thread_ # "none" /\ is_open

(* Why these hold, as an inductive invariant.  What exists follows from    *)
(* where the controller manager's calls are,                               *)
LifecycleOrder ==
  /\ is_open <=> cm \in {"opened", "wired", "active", "halting", "joining", "closing"}
  /\ stopped <=> cm = "closing"
  /\ protocol_decoder_ <=> cm \in {"wired", "active", "halting", "joining", "closing"}
  /\ background_thread_ # "none" <=> cm \in {"active", "halting", "joining"}
  /\ copied # NoPacket => cm \in {"inactive", "active"}

(* the background thread ends only if it is told to, and it is sending     *)
(* while a call of send is under way,                                      *)
ThreadOrder ==
  /\ halting_ => cm # "active"
  /\ background_thread_ = "ended" => halting_
  /\ background_thread_ = "sending" <=> sender # "idle"
  /\ sending # NoPacket <=> sender # "idle"

(* the io thread runs until close stops it, and a port that was just       *)
(* opened has no callback,                                                 *)
IoOrder ==
  /\ io_thread_ = "none" => ~ is_open \/ stopped
  /\ io_thread_ # "none" => is_open
  /\ cm = "opened" => ~ receive_callback_

(* and the flag of a status is set after its box.                          *)
StatusOrder ==
  /\ state_message_received_ \/ io_thread_ = "stored" => status_box_ \in [Joint -> Position]
  /\ (\E j \in Joint : servo_state[j] \in Position) =>
       state_message_received_ /\ copied \in [Joint -> Position] \union {NoPacket}

HardwareInv == TypeOK /\ LifecycleOrder /\ ThreadOrder /\ IoOrder /\ StatusOrder

(* Once read has shown a position the servo reported, it never again shows *)
(* the 0.0 of a state nobody reported (cpp:232-259), also across           *)
(* deactivation and activation.                                            *)
StateStaysReported ==
  [][\A j \in Joint : servo_state[j] \in Position => servo_state'[j] \in Position]_vars

(* A packet that was taken from the queue and is being sent is pending     *)
(* until the device has it.                                                *)
Pending ==
  IF sender \in {"locking", "checked", "posted"} THEN <<sending>> \o command_queue_
                                                 ELSE command_queue_

Channel == INSTANCE CommandChannel WITH pending <- Pending

(* Commands leave in the order in which write accepted them, none twice    *)
(* and none that write did not accept, also across a deactivation, which   *)
(* leaves the queue as it is (cpp:295-299, 484-488).                       *)
ImplementsChannel ==
  /\ Channel!Spec
  /\ [][Len(Pending') > Len(Pending) => Write]_vars

(* on_deactivate returns: neither a notification that comes between the    *)
(* thread's test and its wait, and is lost, nor a send or a read in        *)
(* progress can keep it (cpp:206-230, 473-474, serial_port.cpp:63-125).    *)
DeactivateReturns == cm = "halting" ~> cm = "inactive"

(* What write queues is sent, unless the component is deactivated first    *)
(* (cpp:466-491).                                                          *)
QueueIsServed ==
  cm = "active" /\ command_queue_ # <<>> ~> sender # "idle" \/ cm # "active"
=============================================================================
