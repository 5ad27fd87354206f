------------------------------- MODULE BitVector -------------------------------
(***************************************************************************)
(* Reading a buffer bit by bit (livemedia/bit_vector.c).  A reader is a    *)
(* record: the bits, how many were consumed, and v, the value read last.   *)
(* Beyond the end every bit reads as zero.  Values are below 2^31, and 32  *)
(* bits are never asked for where nothing remains: there the C expression  *)
(* shifts a word by its whole width.                                       *)
(***************************************************************************)
EXTENDS Integers, SequencesExt

(* The bits of a buffer, the highest of each byte first. *)
ShiftBits(bytes) ==
  [i \in 1 .. 8 * Len(bytes) |-> (bytes[(i + 7) \div 8] \div 2 ^ ((8 * Len(bytes) - i) % 8)) % 2]

NewBitVector(bytes) == [bits |-> ShiftBits(bytes), cur |-> 0, v |-> 0]

Remaining(bv) == Len(bv.bits) - bv.cur

Number(bits) == FoldLeft(LAMBDA sum, bit : 2 * sum + bit, 0, bits)

SkipBits(bv, n) == [bv EXCEPT !.cur = IF n > Remaining(bv) THEN Len(bv.bits) ELSE @ + n]

(* The bits that are missing at the end are the low ones, and zero.          *)
GetBits(bv, n) ==
  LET after == SkipBits(bv, n)
      got   == after.cur - bv.cur
  IN  [after EXCEPT !.v = Number(SubSeq(bv.bits, bv.cur + 1, after.cur)) * 2 ^ (n - got)]

(* As many bits behind the first one as there are zeros before it.  Where no *)
(* one follows, the last bit is consumed and not counted.                    *)
GetExpGolomb(bv) ==
  LET rest  == SubSeq(bv.bits, bv.cur + 1, Len(bv.bits))
      first == SelectInSeq(rest, LAMBDA bit : bit = 1)
      zeros == IF first > 0 THEN first - 1 ELSE IF rest = << >> THEN 0 ELSE Len(rest) - 1
      code  == GetBits(SkipBits(bv, zeros + 1), zeros)
  IN  [code EXCEPT !.v = 2 ^ zeros - 1 + @]

GetExpGolombSigned(bv) ==
  LET code == GetExpGolomb(bv)
  IN  [code EXCEPT !.v = IF @ % 2 = 0 THEN -(@ \div 2) ELSE (@ + 1) \div 2]
===============================================================================
