------------------------------- MODULE Coeffs -------------------------------
(***************************************************************************)
(* How the drivers put the coefficients of a sensor together: bytes and    *)
(* halves of bytes to a raw value, and its sign (my_util.c).  Shifts are   *)
(* products and quotients; the parts that "|" puts together have no bit in *)
(* common.  Word and Byte are 2^32 and 2^8 in the program.                 *)
(***************************************************************************)
EXTENDS Integers

(* Conversions between int32_t and uint32_t.                               *)
Unsigned(x, Word) == x % Word
Signed(x, Word)   == IF x >= Word \div 2 THEN x - Word ELSE x

(* A value of the width of which half is the sign bit, 1 << (length - 1).  *)
(* The subtraction is one of unsigned numbers, its result made signed.     *)
getTwosComplement(raw, half, Word) ==
  IF (Unsigned(raw, Word) \div half) % 2 = 1
  THEN Signed((Unsigned(raw, Word) - 2 * half) % Word, Word)
  ELSE raw

(* The number that a sensor means: the reference.                          *)
Meant(raw, half) == IF raw >= half THEN raw - 2 * half ELSE raw

----------------------------------------------------------------------------
(* dps368.c: two coefficients that share the middle one of their bytes.    *)
C0(b0, b1) == b0 * 16 + b1 \div 16
C1(b1, b2) == (b1 % 16) * 256 + b2

(* Three bytes of which the last is shared, and its other half with two    *)
(* more bytes.                                                             *)
C00(b3, b4, b5) == b3 * 4096 + b4 * 16 + b5 \div 16
C10(b5, b6, b7) == (b5 % 16) * 65536 + b6 * 256 + b7

(* smpb.c: both coefficients take the upper half of the byte they share.   *)
B00(msb, lsb, shared) == msb * 4096 + lsb * 16 + shared \div 16
A0(msb, lsb, shared)  == msb * 4096 + lsb * 16 + shared \div 16

(* The bytes in which the two 12-bit values r and s, and the two 20-bit    *)
(* ones, are laid out.                                                     *)
Packed12(r, s) == <<r \div 16, (r % 16) * 16 + s \div 256, s % 256>>
Packed20(r, s) == <<r \div 4096, (r \div 16) % 256, (r % 16) * 16 + s \div 65536,
                    (s \div 256) % 256, s % 256>>
=============================================================================
