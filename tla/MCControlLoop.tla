---------------------------- MODULE MCControlLoop ----------------------------
(* Values of the constants of ControlLoop for TLC.  As in the demo, the     *)
(* robot description does not request every joint of the component.         *)
EXTENDS ControlLoop

(* 2 stands for the angles whose bytes hold a sync byte. *)
MCSyncFree == {packet \in Packet : \A j \in Joint : packet[j] # 2}

MCDescriptions == { <<CHOOSE j \in Joint : TRUE>> }
=============================================================================
