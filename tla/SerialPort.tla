----------------------------- MODULE SerialPort -----------------------------
(***************************************************************************)
(* The serial port of the host, servo_hardware/src/serial_port.cpp: an     *)
(* io_context run by a thread of its own, on which reads and writes        *)
(* complete, and a mutex that protects the receive callback.  send()       *)
(* blocks its caller until the io thread has written the packet.           *)
(***************************************************************************)
CONSTANT NoPacket      (* no packet                                          *)

VARIABLES
  is_open,
  stopped,             (* io_context_.stop() was called                      *)
  mutex_,              (* who holds it: "free", "io", "sender"               *)
  io_thread_,          (* what the io thread does                            *)
  receive_callback_,   (* it is set                                          *)
  sender,              (* how far send() is                                  *)
  sending,             (* packet given to send, or NoPacket                  *)
  transmitted          (* last packet written to the device                  *)

portVars == <<is_open, stopped, mutex_, io_thread_, receive_callback_,
              sender, sending, transmitted>>

PortInit ==
  /\ is_open = FALSE
  /\ stopped = FALSE
  /\ mutex_ = "free"
  /\ io_thread_ = "none"
  /\ receive_callback_ = FALSE
  /\ sender = "idle"
  /\ sending = NoPacket
  /\ transmitted = NoPacket

(* A new port is made and opened; opening the device may fail.  The io     *)
(* thread runs and reads from then on, before a callback is set.           *)
open(opens) ==
  /\ ~ is_open
  /\ is_open' = opens
  /\ io_thread_' = IF opens THEN "polling" ELSE "none"
  /\ receive_callback_' = FALSE
  /\ UNCHANGED <<stopped, mutex_, sender, sending, transmitted>>

setCallback ==
  /\ mutex_ = "free"
  /\ receive_callback_' = TRUE
  /\ UNCHANGED <<is_open, stopped, mutex_, io_thread_, sender, sending, transmitted>>

-----------------------------------------------------------------------------
(* The io thread: the handler of a read calls the callback under the mutex *)
(* and starts the next read.                                               *)

ReadCompletes ==
  /\ io_thread_ = "polling"
  /\ ~ stopped
  /\ io_thread_' = "handler"
  /\ UNCHANGED <<is_open, stopped, mutex_, receive_callback_, sender, sending, transmitted>>

EnterCallback ==
  /\ io_thread_ = "handler"
  /\ mutex_ = "free"
  /\ mutex_' = "io"
  /\ io_thread_' = "callback"
  /\ UNCHANGED <<is_open, stopped, receive_callback_, sender, sending, transmitted>>

(* from: where the callback is when it returns. *)
LeaveCallback(from) ==
  /\ io_thread_ = from
  /\ mutex_' = "free"
  /\ io_thread_' = "polling"
  /\ UNCHANGED <<is_open, stopped, receive_callback_, sender, sending, transmitted>>

(* The packet is written to the device, or the write fails. *)
WriteCompletes(succeeds) ==
  /\ io_thread_ = "polling"
  /\ ~ stopped
  /\ sender = "posted"
  /\ sender' = "written"
  /\ transmitted' = IF succeeds THEN sending ELSE transmitted
  /\ UNCHANGED <<is_open, stopped, mutex_, io_thread_, receive_callback_, sending>>

(* A stopped io_context lets the handler that runs return, and run returns. *)
IoThreadEnds ==
  /\ io_thread_ = "polling"
  /\ stopped
  /\ io_thread_' = "none"
  /\ UNCHANGED <<is_open, stopped, mutex_, receive_callback_, sender, sending, transmitted>>

-----------------------------------------------------------------------------
(* send: the mutex is held while the port is checked, not while the write  *)
(* is waited for.                                                          *)

SendCall(packet) ==
  /\ sender = "idle"
  /\ sender' = "locking"
  /\ sending' = packet
  /\ UNCHANGED <<is_open, stopped, mutex_, io_thread_, receive_callback_, transmitted>>

SendCheck ==
  /\ sender = "locking"
  /\ mutex_ = "free"
  /\ mutex_' = "sender"
  /\ sender' = "checked"
  /\ UNCHANGED <<is_open, stopped, io_thread_, receive_callback_, sending, transmitted>>

(* Slip: the mutex is held until send returns. *)
SendPostLocked ==
  /\ sender = "checked"
  /\ sender' = IF is_open THEN "posted" ELSE "written"
  /\ UNCHANGED <<is_open, stopped, mutex_, io_thread_, receive_callback_,
                 sending, transmitted>>

SendPost ==
  /\ sender = "checked"
  /\ mutex_' = "free"
  /\ sender' = IF is_open THEN "posted" ELSE "written"
  /\ UNCHANGED <<is_open, stopped, io_thread_, receive_callback_, sending, transmitted>>

SendReturn ==
  /\ sender = "written"
  /\ sender' = "idle"
  /\ sending' = NoPacket
  /\ UNCHANGED <<is_open, stopped, mutex_, io_thread_, receive_callback_, transmitted>>

-----------------------------------------------------------------------------
(* close: the io thread is told to stop, joined, and the port closed.      *)

CloseStop ==
  /\ stopped' = TRUE
  /\ UNCHANGED <<is_open, mutex_, io_thread_, receive_callback_, sender, sending, transmitted>>

(* Slip: the io thread is not waited for. *)
CloseDetached ==
  /\ stopped
  /\ is_open' = FALSE
  /\ stopped' = FALSE
  /\ UNCHANGED <<mutex_, io_thread_, receive_callback_, sender, sending, transmitted>>

CloseJoined ==
  /\ stopped
  /\ io_thread_ = "none"
  /\ is_open' = FALSE
  /\ stopped' = FALSE
  /\ UNCHANGED <<mutex_, io_thread_, receive_callback_, sender, sending, transmitted>>

(* The io thread and the caller of send, and what they hold. *)
PortTypeOK(packets) ==
  /\ is_open \in BOOLEAN
  /\ stopped \in BOOLEAN
  /\ mutex_ \in {"free", "io", "sender"}
  /\ io_thread_ \in {"none", "polling", "handler", "callback", "stored"}
  /\ receive_callback_ \in BOOLEAN
  /\ sender \in {"idle", "locking", "checked", "posted", "written"}
  /\ sending \in packets \union {NoPacket}
  /\ transmitted \in packets \union {NoPacket}
=============================================================================
