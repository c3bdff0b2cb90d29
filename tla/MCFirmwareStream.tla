-------------------------- MODULE MCFirmwareStream --------------------------
(***************************************************************************)
(* Three bytes, the largest the sync byte, and packets of five bytes with  *)
(* a checksum of two.                                                      *)
(***************************************************************************)
EXTENDS FirmwareStream

MCCRC16(data) == << (data[1] + 2 * data[2]) % 3, data[2] >>
=============================================================================
