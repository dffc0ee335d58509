------------------------------- MODULE Words -------------------------------
(***************************************************************************)
(* The bit arithmetic of BaseLibHost (BitField.c, the shifts and rotations *)
(* behind Math64.c, HighBitSet, SwapBytes, CheckSum.c, Unaligned.c).  A    *)
(* machine word is the set of the positions of its one bits, so that words *)
(* keep their real widths, 8 to 64.  The operand and data of an operation  *)
(* lie within its width, and bit positions satisfy the ASSERTs, start <=   *)
(* end < width: the process ends otherwise.                                *)
(***************************************************************************)
EXTENDS Integers, Sequences, FiniteSetsExt, SequencesExt

Bits(w) == 0..w - 1
Not(w, x) == Bits(w) \ x
Xor(x, y) == (x \ y) \union (y \ x)
Low(w, x) == x \intersect Bits(w)           \* the conversion to a w-bit type

----------------------------------------------------------------------------
(* Shifts by less than the width.  The rotations shift the other way by    *)
(* the rest of it, which for a count of 0 the processor takes modulo the   *)
(* width.                                                                  *)

Left(w, x, n) == {b + n : b \in x} \intersect Bits(w)
Right(x, n) == {b - n : b \in {c \in x : c >= n}}

InternalMathLShiftU64(x, n) == Left(64, x, n)
InternalMathRShiftU64(x, n) == Right(x, n)
InternalMathARShiftU64(x, n) ==
    Right(x, n) \union (IF 63 \in x THEN 64 - n..63 ELSE {})
InternalMathLRotU64(x, n) == Left(64, x, n) \union Right(x, (64 - n) % 64)
InternalMathRRotU64(x, n) == Right(x, n) \union Left(64, x, (64 - n) % 64)
LShiftU64(x, n) == InternalMathLShiftU64(x, n)
RShiftU64(x, n) == InternalMathRShiftU64(x, n)
ARShiftU64(x, n) == InternalMathARShiftU64(x, n)
LRotU64(x, n) == InternalMathLRotU64(x, n)
RRotU64(x, n) == InternalMathRRotU64(x, n)
LRotU32(x, n) == Left(32, x, n) \union Right(x, (32 - n) % 32)
RRotU32(x, n) == Right(x, n) \union Left(32, x, (32 - n) % 32)

SwapBytes16(x) == Left(16, x, 8) \union Right(x, 8)
SwapBytes32(x) ==
    LET lower == SwapBytes16(Low(16, x))
        higher == SwapBytes16(Low(16, Right(x, 16)))
    IN  Left(32, lower, 16) \union higher
InternalMathSwapBytes64(x) ==
    LET lower == SwapBytes32(Low(32, x))
        higher == SwapBytes32(Low(32, Right(x, 32)))
    IN  Left(64, lower, 32) \union higher
SwapBytes64(x) == InternalMathSwapBytes64(x)

\* Shift left until the sign bit is set.
HighBitSet32(x) ==
    IF x = {} THEN -1 ELSE 31 - Min({n \in 0..31 : 31 \in Left(32, x, n)})
HighBitSet64(x) ==
    IF x = Low(32, x) THEN HighBitSet32(Low(32, x))
    ELSE HighBitSet32(Low(32, RShiftU64(x, 32))) + 32
LowBitSet32(x) == IF x = {} THEN -1 ELSE Min({n \in 0..31 : 0 \in Right(x, n)})
LowBitSet64(x) ==
    IF x = {} THEN -1 ELSE Min({n \in 0..63 : 0 \in RShiftU64(x, n)})
GetPowerOfTwo32(x) == IF x = {} THEN {} ELSE Left(32, {0}, HighBitSet32(x))
GetPowerOfTwo64(x) == IF x = {} THEN {} ELSE LShiftU64({0}, HighBitSet64(x))

----------------------------------------------------------------------------
(* Bit fields.  Above(end) is (UINTN)-2 << EndBit.                         *)

Above(end) == Left(64, Bits(64) \ {0}, end)

InternalBaseLibBitFieldReadUint(x, start, end) ==
    Right(x \intersect Not(64, Above(end)), start)
InternalBaseLibBitFieldOrUint(x, start, end, data) ==
    x \union (Left(64, data, start) \intersect Not(64, Above(end)))
\* Mutant: the bits above the field are cleared too.
AndUintAbove(x, start, end, data) ==
    x \intersect Not(64, Left(64, Not(64, data), start))
InternalBaseLibBitFieldAndUint(x, start, end, data) ==
    x \intersect Not(64, Left(64, Not(64, data), start)
                         \intersect Not(64, Above(end)))

BitFieldRead8(x, start, end) ==
    Low(8, InternalBaseLibBitFieldReadUint(x, start, end))
BitFieldOr8(x, start, end, data) ==
    Low(8, InternalBaseLibBitFieldOrUint(x, start, end, data))
BitFieldAnd8(x, start, end, data) ==
    Low(8, InternalBaseLibBitFieldAndUint(x, start, end, data))
BitFieldAndThenOr8(x, start, end, and, or) ==
    BitFieldOr8(BitFieldAnd8(x, start, end, and), start, end, or)
BitFieldWrite8(x, start, end, value) ==
    BitFieldAndThenOr8(x, start, end, {}, value)

BitFieldRead16(x, start, end) ==
    Low(16, InternalBaseLibBitFieldReadUint(x, start, end))
BitFieldOr16(x, start, end, data) ==
    Low(16, InternalBaseLibBitFieldOrUint(x, start, end, data))
BitFieldAnd16(x, start, end, data) ==
    Low(16, InternalBaseLibBitFieldAndUint(x, start, end, data))
BitFieldAndThenOr16(x, start, end, and, or) ==
    BitFieldOr16(BitFieldAnd16(x, start, end, and), start, end, or)
BitFieldWrite16(x, start, end, value) ==
    BitFieldAndThenOr16(x, start, end, {}, value)

BitFieldRead32(x, start, end) ==
    Low(32, InternalBaseLibBitFieldReadUint(x, start, end))
BitFieldOr32(x, start, end, data) ==
    Low(32, InternalBaseLibBitFieldOrUint(x, start, end, data))
BitFieldAnd32(x, start, end, data) ==
    Low(32, InternalBaseLibBitFieldAndUint(x, start, end, data))
BitFieldAndThenOr32(x, start, end, and, or) ==
    BitFieldOr32(BitFieldAnd32(x, start, end, and), start, end, or)
BitFieldWrite32(x, start, end, value) ==
    BitFieldAndThenOr32(x, start, end, {}, value)

BitFieldRead64(x, start, end) ==
    RShiftU64(x \intersect Not(64, LShiftU64(Bits(64) \ {0}, end)), start)
BitFieldOr64(x, start, end, data) ==
    LET value1 == LShiftU64(data, start)
        value2 == LShiftU64(Bits(64) \ {0}, end)
    IN  x \union (value1 \intersect Not(64, value2))
BitFieldAnd64(x, start, end, data) ==
    LET value1 == LShiftU64(Not(64, data), start)
        value2 == LShiftU64(Bits(64) \ {0}, end)
    IN  x \intersect Not(64, value1 \intersect Not(64, value2))
BitFieldAndThenOr64(x, start, end, and, or) ==
    BitFieldOr64(BitFieldAnd64(x, start, end, and), start, end, or)
BitFieldWrite64(x, start, end, value) ==
    BitFieldAndThenOr64(x, start, end, {}, value)

----------------------------------------------------------------------------
(* Sums and products, modulo the width: a bit of a sum is set when one or  *)
(* three of the two bits and the carry are.                                *)

Plus(w, x, y) ==
    LET carry[b \in Bits(w)] ==
            /\ b > 0
            /\ \/ b - 1 \in x /\ b - 1 \in y
               \/ (b - 1 \in x \/ b - 1 \in y) /\ carry[b - 1]
    IN  Xor(Xor(Low(w, x), Low(w, y)), {b \in Bits(w) : carry[b]})

Minus(w, x, y) == Plus(w, Plus(w, x, Not(w, y)), {0})
Times(w, x, y) == FoldSet(LAMBDA b, sum : Plus(w, sum, Left(w, x, b)), {}, y)

\* The ones of a field, counted in parallel in fields of 2, 4, 8, ... bits.
Stripes(n) == {b \in Bits(32) : (b \div n) % 2 = 0}
BitFieldCountOnes32(x, start, end) ==
    LET c0 == BitFieldRead32(x, start, end)
        c1 == Minus(32, c0, Right(c0, 1) \intersect Stripes(1))
        c2 == Plus(32, c1 \intersect Stripes(2), Right(c1, 2) \intersect Stripes(2))
        c3 == Plus(32, c2, Right(c2, 4)) \intersect Stripes(4)
        c4 == Plus(32, c3, Right(c3, 8))
        c5 == Plus(32, c4, Right(c4, 16))
    IN  Low(8, c5) \intersect Bits(6)
BitFieldCountOnes64(x, start, end) ==
    LET field == BitFieldRead64(x, start, end)
    IN  Plus(8, BitFieldCountOnes32(Low(32, field), 0, 31),
                BitFieldCountOnes32(Low(32, RShiftU64(field, 32)), 0, 31))

InternalMathMultU64x32(x, y) == Times(64, x, y)
InternalMathMultU64x64(x, y) == Times(64, x, y)
MultU64x32(x, y) == InternalMathMultU64x32(x, y)
MultU64x64(x, y) == InternalMathMultU64x64(x, y)
MultS64x64(x, y) == MultU64x64(x, y)

\* A buffer is the sequence of its words.
Total(w, buffer) == FoldLeft(LAMBDA sum, word : Plus(w, sum, word), {}, buffer)
CalculateSum8(buffer) == Total(8, buffer)
CalculateSum16(buffer) == Total(16, buffer)
CalculateSum32(buffer) == Total(32, buffer)
CalculateSum64(buffer) == Total(64, buffer)
CalculateCheckSum8(buffer) == Low(8, Minus(9, {8}, CalculateSum8(buffer)))
CalculateCheckSum16(buffer) == Low(16, Minus(17, {16}, CalculateSum16(buffer)))
CalculateCheckSum32(buffer) ==
    Plus(32, Minus(32, Bits(32), CalculateSum32(buffer)), {0})
CalculateCheckSum64(buffer) ==
    Plus(64, Minus(64, Bits(64), CalculateSum64(buffer)), {0})

\* Entry x of the table is the remainder of x by the polynomial 04C11DB7,
\* bits reversed.
Polynomial == {0, 1, 2, 4, 5, 7, 8, 10, 11, 12, 16, 22, 23, 26}
mCrcTable(x) ==
    FoldLeft(LAMBDA r, i : IF 0 \in r
                           THEN Xor(Right(r, 1), {31 - b : b \in Polynomial})
                           ELSE Right(r, 1),
             x, [i \in 1..8 |-> i])
CalculateCrc32(buffer) ==
    Xor(FoldLeft(LAMBDA crc, byte :
                     Xor(Right(crc, 8), mCrcTable(Xor(Low(8, crc), byte))),
                 Bits(32), buffer),
        Bits(32))

----------------------------------------------------------------------------
(* Unaligned words in a buffer, the sequence of its bytes; p is the first  *)
(* byte.                                                                   *)

Bytes(x, n) == [i \in 1..n |-> Low(8, Right(x, 8 * (i - 1)))]
Gather(buffer, p, n) == UNION {Left(8 * n, buffer[p + i], 8 * i) : i \in 0..n - 1}
Store(buffer, p, bytes) ==
    [i \in DOMAIN buffer |-> IF i \in p..p + Len(bytes) - 1
                             THEN bytes[i - p + 1] ELSE buffer[i]]

ReadUnaligned16(buffer, p) == Gather(buffer, p, 2)
ReadUnaligned24(buffer, p) == Gather(buffer, p, 4) \intersect Bits(24)
ReadUnaligned32(buffer, p) == Gather(buffer, p, 4)
ReadUnaligned64(buffer, p) == Gather(buffer, p, 8)
WriteUnaligned16(buffer, p, x) == Store(buffer, p, Bytes(x, 2))
WriteUnaligned24(buffer, p, x) ==
    Store(buffer, p, Bytes(BitFieldWrite32(Gather(buffer, p, 4), 0, 23, x), 4))
WriteUnaligned32(buffer, p, x) == Store(buffer, p, Bytes(x, 4))
WriteUnaligned64(buffer, p, x) == Store(buffer, p, Bytes(x, 8))

----------------------------------------------------------------------------
(* Divisions, on numbers: the quotient is cut off towards zero.  A caller  *)
(* that gives no Remainder gets the quotient alone.                        *)

InternalMathDivU64x32(dividend, divisor) == dividend \div divisor
InternalMathModU64x32(dividend, divisor) == dividend % divisor
InternalMathDivRemU64x32(dividend, divisor) ==
    [quotient |-> dividend \div divisor, remainder |-> dividend % divisor]
InternalMathDivRemU64x64(dividend, divisor) ==
    [quotient |-> dividend \div divisor, remainder |-> dividend % divisor]
InternalMathDivRemS64x64(dividend, divisor) ==
    LET Magnitude(n) == IF n < 0 THEN -n ELSE n
        size == Magnitude(dividend) \div Magnitude(divisor)
        quotient == IF (dividend < 0) = (divisor < 0) THEN size ELSE -size
    IN  [quotient |-> quotient, remainder |-> dividend - quotient * divisor]
DivU64x32(dividend, divisor) == InternalMathDivU64x32(dividend, divisor)
ModU64x32(dividend, divisor) == InternalMathModU64x32(dividend, divisor)
DivU64x32Remainder(dividend, divisor) ==
    InternalMathDivRemU64x32(dividend, divisor)
DivU64x64Remainder(dividend, divisor) ==
    InternalMathDivRemU64x64(dividend, divisor)
DivS64x64Remainder(dividend, divisor) ==
    InternalMathDivRemS64x64(dividend, divisor)
=============================================================================
