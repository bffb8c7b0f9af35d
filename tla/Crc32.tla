------------------------------- MODULE Crc32 -------------------------------
(***************************************************************************)
(* AppPacket::calculateCrc32() (AppPacket.cpp 564-587): the bitwise       *)
(* reflected CRC-32 with polynomial 0xEDB88320, initial value 0xFFFFFFFF  *)
(* and final XOR 0xFFFFFFFF.  A uint32 is held as its two 16-bit halves, *)
(* because TLC's integers have 32 bits with a sign.                       *)
(*                                                                         *)
(* ReferenceCrc32 is CRC-32 as the standard defines it, independently of  *)
(* the shift register of the code: the remainder of a polynomial division *)
(* over GF(2) by the generator 0x104C11DB7, written most significant term *)
(* first, with the message bits in transmission order (each byte least    *)
(* significant bit first), the initial value entering as the complement  *)
(* of the first 32 coefficients, and the remainder reflected and          *)
(* complemented.                                                           *)
(***************************************************************************)
EXTENDS Integers, Sequences, Bitwise

Bytes == 0 .. 255

Half == 0 .. 2^16 - 1

\* A uint32 as its high and low 16-bit halves.
Word == [hi : Half, lo : Half]

WordOf(hi, lo) == [hi |-> hi, lo |-> lo]

\* x ^ y for two bytes, tabulated once.
ByteXor == [x \in Bytes |-> [y \in Bytes |-> x ^^ y]]

\* x ^ y for two 16-bit halves, a byte at a time.
HalfXor(x, y) ==
  ByteXor[x \div 256][y \div 256] * 256 + ByteXor[x % 256][y % 256]

\* a ^ b
XorW(a, b) == [hi |-> HalfXor(a.hi, b.hi), lo |-> HalfXor(a.lo, b.lo)]

\* a >> 1
ShiftRight(a) == [hi |-> a.hi \div 2, lo |-> a.lo \div 2 + (a.hi % 2) * 2^15]

\* a ^ static_cast<uint32_t>(byte)
XorByte(a, byte) == [a EXCEPT !.lo = HalfXor(@, byte)]

\* 0xFFFFFFFFU
AllOnes == WordOf(\hFFFF, \hFFFF)

\* CRC32_POLYNOMIAL = 0xEDB88320U
Polynomial == WordOf(\hEDB8, \h8320)

\* A plausible bug: the low bit tested after the shift instead of before.
RECURSIVE BitLoopLate(_, _)
BitLoopLate(crc, bit) ==
  IF bit = 8 THEN crc
  ELSE IF ShiftRight(crc).lo % 2 = 1
         THEN BitLoopLate(XorW(ShiftRight(crc), Polynomial), bit + 1)
         ELSE BitLoopLate(ShiftRight(crc), bit + 1)

\* The inner loop, for (bit = 0; bit < 8; ++bit): if (crc & 1) crc =
\* (crc >> 1) ^ POLY, else crc = crc >> 1.
RECURSIVE BitLoop(_, _)
BitLoop(crc, bit) ==
  IF bit = 8 THEN crc
  ELSE IF crc.lo % 2 = 1
         THEN BitLoop(XorW(ShiftRight(crc), Polynomial), bit + 1)
         ELSE BitLoop(ShiftRight(crc), bit + 1)

\* The outer loop, for (idx = 0; idx < length; ++idx): the byte is XORed
\* into the low bits, then the inner loop.
RECURSIVE ByteLoop(_, _, _)
ByteLoop(crc, data, idx) ==
  IF idx > Len(data) THEN crc
  ELSE ByteLoop(BitLoop(XorByte(crc, data[idx]), 0), data, idx + 1)

\* calculateCrc32(data, length): every byte in order from 0xFFFFFFFF, then
\* the final XOR.
CalculateCrc32(data) == XorW(ByteLoop(AllOnes, data, 1), AllOnes)

-----------------------------------------------------------------------------
(* The reference definition.                                               *)

\* The generator x^32 + x^26 + ... + 1 without its x^32 term: 0x04C11DB7.
Generator == WordOf(\h04C1, \h1DB7)

\* The message bits in transmission order: bytes in order, each least
\* significant bit first.
MessageBits(data) ==
  [j \in 1 .. 8 * Len(data) |-> (data[(j - 1) \div 8 + 1] \div 2^((j - 1) % 8)) % 2]

\* The coefficients of M(x) * x^32 + (x^31 + ... + 1) * x^n, highest degree
\* first, for the n message bits M.
Dividend(data) ==
  LET b == MessageBits(data)
      n == Len(b)
  IN  [k \in 1 .. n + 32 |->
         ((IF k <= n THEN b[k] ELSE 0) + (IF k <= 32 THEN 1 ELSE 0)) % 2]

\* Long division of the coefficients d[k .. last]: the partial remainder
\* shifted up by one with the next coefficient brought in, and the
\* generator subtracted when x^32 appears.
RECURSIVE DivBits(_, _, _, _)
DivBits(r, d, k, last) ==
  IF k > last THEN r
  ELSE LET s == [hi |-> ((r.hi * 2) % 2^16) + r.lo \div 2^15,
                 lo |-> ((r.lo * 2) % 2^16) + d[k]]
       IN  IF r.hi \div 2^15 = 1 THEN DivBits(XorW(s, Generator), d, k + 1, last)
                                 ELSE DivBits(s, d, k + 1, last)

\* The whole division, eight coefficients at a time.
RECURSIVE DivLoop(_, _, _)
DivLoop(r, d, j) ==
  IF j > Len(d) THEN r ELSE DivLoop(DivBits(r, d, j, j + 7), d, j + 8)

Remainder(data) == DivLoop(WordOf(0, 0), Dividend(data), 1)

\* The 16 bits of x in reverse order.
Reverse16(x) ==
  LET r[k \in 0 .. 16] == IF k = 0 THEN 0 ELSE r[k - 1] * 2 + ((x \div 2^(k - 1)) % 2)
  IN  r[16]

ReferenceCrc32(data) ==
  LET r == Remainder(data)
  IN  XorW(WordOf(Reverse16(r.lo), Reverse16(r.hi)), AllOnes)

\* The reference definition gives the check values the specification lists
\* for CRC-32 (IEEE 802.3): "", "a" and "123456789".
ASSUME ReferenceMatchesTestVectors ==
  /\ ReferenceCrc32(<<>>) = WordOf(0, 0)
  /\ ReferenceCrc32(<<97>>) = WordOf(\hE8B7, \hBE43)
  /\ ReferenceCrc32(<<49, 50, 51, 52, 53, 54, 55, 56, 57>>) = WordOf(\hCBF4, \h3926)
=============================================================================
