---------------------------- MODULE MCHostStream ----------------------------
(***************************************************************************)
(* Three bytes, the largest of them the sync byte, and packets of four     *)
(* bytes.  The checksum is one that other byte sequences share, so packets *)
(* appear by chance inside and across packets.                             *)
(***************************************************************************)
EXTENDS HostStream

MCCRC16(data) == << (data[1] + 2 * data[2]) % 3 >>

Packets == { <<SyncByte, type, value>> \o MCCRC16(<<type, value>>) :
             type \in PacketType, value \in Byte }

(* Any one or two bytes; and whole packets at once, so that a call finds   *)
(* one behind other bytes: after a byte, before a byte, after a packet.    *)
MCChunks == UNION { [1 .. n -> Byte] : n \in 0 .. 2 }
              \union { <<byte>> \o packet : byte \in Byte, packet \in Packets }
              \union { packet \o <<byte>> : byte \in Byte, packet \in Packets }
              \union { p \o q : p \in Packets, q \in Packets }
=============================================================================
