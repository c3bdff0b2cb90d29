--------------------------- MODULE MCServoHardware ---------------------------
(* Values of the constants of ServoHardware for TLC. *)
EXTENDS ServoHardware

MCDescriptions == { <<j>> : j \in Joint }
=============================================================================
