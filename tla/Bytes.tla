------------------------------- MODULE Bytes -------------------------------
(***************************************************************************)
(* The machine words of the emulator: uint8_t and uint16_t values, the     *)
(* bits of a byte as a set of bit positions, and the status flags of       *)
(* src/flags.h named by their position.                                    *)
(*                                                                         *)
(* A byte is a number, as in C.  The operators &, | and ^ of C go through  *)
(* the set of bits of their operands, so that they are intersection, union *)
(* and symmetric difference.                                               *)
(***************************************************************************)
EXTENDS Integers

UINT8_MAX  == 255
UINT16_MAX == 65535

Byte == 0 .. UINT8_MAX
Word == 0 .. UINT16_MAX
Bit  == 0 .. 7

\* Conversion of an arithmetic result to uint8_t, uint16_t and int8_t.
U8(n)  == n % 256
U16(n) == n % 65536
S8(b)  == IF b > 127 THEN b - 256 ELSE b

\* (hi << 8) | lo, and its two halves.
Address(lo, hi) == 256 * hi + lo
LoByte(w) == w % 256
HiByte(w) == w \div 256

SamePage(v, w) == HiByte(v) = HiByte(w)

-----------------------------------------------------------------------------

BitWeight == <<1, 2, 4, 8, 16, 32, 64, 128>>

BitsOf(b) == {i \in Bit : (b \div BitWeight[i + 1]) % 2 = 1}

ByteOf(bits) ==
  LET W(i) == IF i \in bits THEN BitWeight[i + 1] ELSE 0
  IN  W(0) + W(1) + W(2) + W(3) + W(4) + W(5) + W(6) + W(7)

ByteAnd(a, b) == ByteOf(BitsOf(a) \cap BitsOf(b))
ByteOr(a, b)  == ByteOf(BitsOf(a) \cup BitsOf(b))
ByteXor(a, b) == ByteOf((BitsOf(a) \cup BitsOf(b)) \ (BitsOf(a) \cap BitsOf(b)))
Negative(b)   == b > 127              \* (b & 0x80) != 0

-----------------------------------------------------------------------------

FLAG_CARRY             == 0
FLAG_ZERO              == 1
FLAG_INTERRUPT_DISABLE == 2
FLAG_DECIMAL_MODE      == 3
FLAG_BREAK             == 4
FLAG_UNUSED            == 5
FLAG_OVERFLOW          == 6
FLAG_NEGATIVE          == 7

=============================================================================
