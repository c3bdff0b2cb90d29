---------------------------------- MODULE Crc ----------------------------------
(***************************************************************************)
(* CRC-16/CCITT-FALSE, as calculateCRC16 of servo_embedded/src/main.cpp    *)
(* calculates it bit by bit; the host takes the same CRC from a library.   *)
(* A register of sixteen bits is the set of the places of its ones, so     *)
(* that exclusive or is the symmetric difference.                          *)
(***************************************************************************)
EXTENDS Integers, Sequences, FiniteSetsExt

Register == SUBSET (0 .. 15)

(* 0xFFFF. *)
InitialRegister == 0 .. 15

(* The places of the ones of a byte, and the byte with ones there.         *)
OnesOf(byte) == {place \in 0 .. 7 : (byte \div 2^place) % 2 = 1}

ByteOf(ones) ==
  LET highest[places \in 0 .. 8] ==
        IF places = 0 THEN 0
        ELSE 2 * highest[places - 1] + (IF 8 - places \in ones THEN 1 ELSE 0)
  IN  highest[8]

ShiftUp(ones, places) == {place + places : place \in ones}

(* 0x1021. *)
Polynomial == {0, 5, 12}

ShiftLeft(crc) == ShiftUp(crc \ {15}, 1)

(* Slip: the bit tested is the one that is on top after the shift. *)
ShiftBitLate(crc) ==
  IF 14 \in crc THEN SymDiff(ShiftLeft(crc), Polynomial) ELSE ShiftLeft(crc)

(* One bit: the polynomial is taken off if a one leaves the register. *)
ShiftBit(crc) ==
  IF 15 \in crc THEN SymDiff(ShiftLeft(crc), Polynomial) ELSE ShiftLeft(crc)

(* The byte enters at the high end, then its eight bits are shifted out. *)
AddByte(crc, byte) ==
  LET after[bits \in 0 .. 8] == IF bits = 0 THEN SymDiff(crc, ShiftUp(OnesOf(byte), 8))
                                            ELSE ShiftBit(after[bits - 1])
  IN  after[8]

(* The register after all bytes, sent high byte first. *)
calculateCRC16(data) ==
  LET after[bytes \in 0 .. Len(data)] == IF bytes = 0 THEN InitialRegister
                                         ELSE AddByte(after[bytes - 1], data[bytes])
      crc == after[Len(data)]
  IN  <<ByteOf({place \in 0 .. 7 : place + 8 \in crc}), ByteOf(crc)>>

-----------------------------------------------------------------------------
(* The algebra: a polynomial over bits is the set of its exponents.  What  *)
(* is left of one in the long division by x^16 + x^12 + x^5 + 1, from the  *)
(* exponent degree down.                                                   *)
Generator(place) == {place, place - 4, place - 11, place - 16}

Take(polynomial, place) ==
  IF place \in polynomial THEN SymDiff(polynomial, Generator(place)) ELSE polynomial

Remainder(dividend, degree) ==
  LET left[steps \in 0 .. degree - 15] ==
        IF steps = 0 THEN dividend ELSE Take(left[steps - 1], degree + 1 - steps)
  IN  left[degree - 15]

(* The bits of a sequence of bytes as a polynomial, the first bit at the   *)
(* highest exponent, and this with the first sixteen bits inverted, since  *)
(* the register starts with ones.                                          *)
BitsOf(bytes) ==
  UNION {ShiftUp(OnesOf(bytes[i]), 8 * (Len(bytes) - i)) : i \in DOMAIN bytes}

Codeword(bytes) ==
  SymDiff(8 * Len(bytes) - 16 .. 8 * Len(bytes) - 1, BitsOf(bytes))
=============================================================================
