----------------------------- MODULE MCLibraries -----------------------------
(***************************************************************************)
(* The libraries of the host build against what their callers rely on.  A  *)
(* behaviour calls one library: one call of a pure function with any of a  *)
(* set of arguments, its answer compared with a reference, or a sequence   *)
(* of list operations.                                                     *)
(***************************************************************************)
EXTENDS Strings, Words, LinkedList, DevicePaths, MCHii, PrintLib, TLC

CONSTANTS None

VARIABLES library, call, result

libraryVars == <<library, call, result>>
vars == <<libraryVars, listVars>>

----------------------------------------------------------------------------
(* Comparisons, searches and numbers.                                      *)

LetterA == 97       LetterB == 98       BigA == 65      Grave == 225
Needles == UNION {[1..n -> {LetterA, LetterB}] : n \in 0..3}
Texts == UNION {[1..n -> {LetterA, LetterB}] : n \in 0..4}
Mixed == UNION {[1..n -> {LetterA, BigA, LetterB, Grave}] : n \in 0..2}

Comparisons ==
    [f : {"StrCmp", "AsciiStrCmp", "AsciiStriCmp"}, s : Mixed, t : Mixed]
    \union [f : {"StrnCmp", "AsciiStrnCmp"}, s : Mixed, t : Mixed, n : 0..3]
    \union [f : {"StrStr", "AsciiStrStr"}, s : Texts, t : Needles]

\* What a number's text is put together from.
Digit(d) == IF d < 10 THEN Zero + d ELSE LowerA + d - 10
Decimals == {<<>>, <<7>>, <<2, 5, 5>>, <<2, 5, 6>>, <<9, 9, 9, 9>>, <<1, 0, 2, 4, 1>>}
Hexadecimals == {<<>>, <<10>>, <<15, 15>>, <<1, 0, 0>>, <<1, 2, 3>>, <<15, 15, 15, 15>>}
Pads == {<<>>, <<Space>>, <<Tab, Space>>}
Zeros == {<<>>, <<Zero>>, <<Zero, Zero>>}

Numbers ==
    [f : {"Decimal", "AsciiDecimal"}, wide : BOOLEAN, pad : Pads,
     zeros : Zeros, mark : {<<>>}, digits : Decimals,
     tail : {<<>>, <<Dot, Nine>>}, before : {0}]
    \union
    [f : {"Hex", "AsciiHex"}, wide : BOOLEAN, pad : Pads, zeros : Zeros,
     mark : {<<>>, <<UpperX>>}, digits : Hexadecimals,
     tail : {<<>>, <<Dot, Nine>>}, before : {0, Zero}]

NumberText(c) ==
    c.pad \o c.zeros \o c.mark \o [i \in DOMAIN c.digits |-> Digit(c.digits[i])]
    \o c.tail

ReadNumber(c) ==
    LET s == NumberText(c)
    IN  CASE c.f = "Decimal" /\ ~c.wide ->
                [old |-> StrDecimalToUintn(s)] @@ StrDecimalToUintnS(s)
          [] c.f = "Decimal" /\ c.wide ->
                [old |-> StrDecimalToUint64(s)] @@ StrDecimalToUint64S(s)
          [] c.f = "AsciiDecimal" /\ ~c.wide ->
                [old |-> AsciiStrDecimalToUintn(s)] @@ AsciiStrDecimalToUintnS(s)
          [] c.f = "AsciiDecimal" /\ c.wide ->
                [old |-> AsciiStrDecimalToUint64(s)] @@ AsciiStrDecimalToUint64S(s)
          [] c.f = "Hex" /\ ~c.wide ->
                [old |-> StrHexToUintn(s, c.before)] @@ StrHexToUintnS(s, c.before)
          [] c.f = "Hex" /\ c.wide ->
                [old |-> StrHexToUint64(s, c.before)] @@ StrHexToUint64S(s, c.before)
          [] c.f = "AsciiHex" /\ ~c.wide ->
                [old |-> AsciiStrHexToUintn(s, c.before)]
                @@ AsciiStrHexToUintnS(s, c.before)
          [] c.f = "AsciiHex" /\ c.wide ->
                [old |-> AsciiStrHexToUint64(s, c.before)]
                @@ AsciiStrHexToUint64S(s, c.before)

Compare(c) ==
    CASE c.f = "StrCmp" -> StrCmp(c.s, c.t)
      [] c.f = "AsciiStrCmp" -> AsciiStrCmp(c.s, c.t)
      [] c.f = "AsciiStriCmp" -> AsciiStriCmp(c.s, c.t)
      [] c.f = "StrnCmp" -> StrnCmp(c.s, c.t, c.n)
      [] c.f = "AsciiStrnCmp" -> AsciiStrnCmp(c.s, c.t, c.n)
      [] c.f = "StrStr" -> StrStr(c.s, c.t)
      [] c.f = "AsciiStrStr" -> AsciiStrStr(c.s, c.t)

\* Reference: the order of two strings by their first difference, an end
\* being less than any character; Sign(c) orders characters.
Sign(f, c) == IF f \in {"AsciiStrCmp", "AsciiStriCmp", "AsciiStrnCmp"}
              THEN Signed8(c) ELSE c
Order(f, s, t) ==
    IF s = t THEN 0
    ELSE LET p == CHOOSE q \in 1..Len(s) + 1 :
                        SubSeq(s, 1, q - 1) = SubSeq(t, 1, q - 1) /\ At(s, q) # At(t, q)
         IN  Sign(f, At(s, p)) - Sign(f, At(t, p))
FirstOf(s, n) == SubSeq(s, 1, Min({n, Len(s)}))
FoldCase(s) == [i \in DOMAIN s |-> IF s[i] = LetterA THEN BigA
                                   ELSE IF s[i] = LetterB THEN BigA + 1 ELSE s[i]]

(* What a comparison says is the order of the strings, in which a signed   *)
(* CHAR8 above 127 comes first, of their prefixes or of their upper case;  *)
(* what a search finds is the first occurrence, also behind a partial      *)
(* match of it (StrStr in String.c).                                       *)
ComparisonsAgree ==
    call # None /\ library = "Comparisons" =>
        CASE call.f \in {"StrCmp", "AsciiStrCmp"} ->
                result = Order(call.f, call.s, call.t)
          [] call.f = "AsciiStriCmp" ->
                result = Order(call.f, FoldCase(call.s), FoldCase(call.t))
          [] call.f \in {"StrnCmp", "AsciiStrnCmp"} ->
                result = Order(call.f, FirstOf(call.s, call.n), FirstOf(call.t, call.n))
          [] call.f \in {"StrStr", "AsciiStrStr"} ->
                LET found == {p \in 1..Len(call.s) + 1 :
                                /\ p + Len(call.t) - 1 <= Len(call.s)
                                /\ SubSeq(call.s, p, p + Len(call.t) - 1) = call.t}
                IN  result = IF found = {} THEN 0 ELSE Min(found)

\* Reference: the value of digits.
Value(digits, base) == FoldLeft(LAMBDA v, d : v * base + d, 0, digits)

(* A number is read back from its text, padding and zeros apart, and the   *)
(* scan stops behind it; one that does not fit is the maximum, reported,   *)
(* and the scan stops at the digit too many (SafeString.c and the older    *)
(* forms in String.c).  An 'x' counts behind a zero only.                  *)
NumbersRead ==
    call # None /\ library = "Numbers" =>
        LET base == IF call.f \in {"Decimal", "AsciiDecimal"} THEN 10 ELSE 16
            max == IF call.wide THEN MaxUint64 ELSE MaxUintn
            start == Len(call.pad \o call.zeros \o call.mark) + 1
            lone == call.mark # <<>> /\ call.zeros = <<>>
                    /\ ~(call.pad = <<>> /\ call.before = Zero)
            fits == {n \in 0..Len(call.digits) :
                        Value(SubSeq(call.digits, 1, n), base) <= max}
        IN  /\ result.old = result.data
            /\ IF lone
               THEN result.status = "SUCCESS" /\ result.data = 0 /\ result.end = 1
               ELSE IF Len(call.digits) \in fits
               THEN /\ result.status = "SUCCESS"
                    /\ result.data = Value(call.digits, base)
                    /\ result.end = start + Len(call.digits)
               ELSE /\ result.status = "UNSUPPORTED"
                    /\ result.data = max
                    /\ result.end = start + Max(fits)

----------------------------------------------------------------------------
(* Addresses and GUIDs.                                                    *)

RECURSIVE DigitsOf(_, _)
DigitsOf(n, base) ==
    IF n < base THEN <<Digit(n)>>
    ELSE Append(DigitsOf(n \div base, base), Digit(n % base))

RECURSIVE Joined(_, _)
Joined(parts, c) ==
    CASE parts = <<>> -> <<>>
      [] Len(parts) = 1 -> parts[1]
      [] Len(parts) > 1 -> parts[1] \o <<c>> \o Joined(Tail(parts), c)

Groups == {[i \in 1..8 |-> IF i \in ones THEN 1 ELSE IF i \in big THEN 43981 ELSE 0] :
              ones \in {{}, {1}, {8}, {1, 8}, {2, 7}, {1, 2, 3, 4, 6, 7, 8}, {4}},
              big \in {{}, {5}}}
PrefixLengths == {<<>>, <<0>>, <<64>>, <<128>>}
Tails == {<<>>, <<Space>>, <<Dot, Nine>>, <<Colon>>}

\* A run of zero groups that "::" stands for; 0, 0 for none.
Runs == {<<0, 0>>} \union {<<i, j>> \in (1..8) \X (1..8) : i <= j}

Addresses6 ==
    {c \in [f : {"Ipv6", "AsciiIpv6"}, groups : Groups, run : Runs,
            prefix : PrefixLengths, tail : Tails] :
        /\ c.run # <<0, 0>> => \A i \in c.run[1]..c.run[2] : c.groups[i] = 0
        \* what could be read on behind the address is not a tail
        /\ c.tail = <<Colon>> => c.prefix = <<>> /\ c.run = <<0, 0>>}
Addresses4 ==
    [f : {"Ipv4", "AsciiIpv4"}, bytes : [1..4 -> {0, 10, 255}],
     prefix : {<<>>, <<0>>, <<32>>}, tail : {<<>>, <<Space>>, <<Colon>>}]
Guids ==
    [f : {"Guid", "AsciiGuid"},
     guid : {[i \in 1..16 |-> (a * i + b) % 256] : a \in {0, 1, 17}, b \in {0, 240}},
     cut : 0..36]
HexBytes == [f : {"HexToBytes", "AsciiHexToBytes"}, bytes : {<<>>, <<171>>, <<1, 254>>},
             length : 0..5, size : 0..3]

Hex2(b) == <<Digit(b \div 16), Digit(b % 16)>>
HexText(bytes) == FlattenSeq([i \in DOMAIN bytes |-> Hex2(bytes[i])])

AddressText(c) ==
    LET Part(i, j) == [k \in 1..j - i + 1 |-> DigitsOf(c.groups[i + k - 1], 16)]
        prefix == IF c.prefix = <<>> THEN <<>>
                  ELSE <<Slash>> \o DigitsOf(c.prefix[1], 10)
        body == IF c.f \in {"Ipv4", "AsciiIpv4"}
                THEN Joined([i \in 1..4 |-> DigitsOf(c.bytes[i], 10)], Dot)
                ELSE IF c.run = <<0, 0>> THEN Joined(Part(1, 8), Colon)
                ELSE Joined(Part(1, c.run[1] - 1), Colon) \o <<Colon, Colon>>
                     \o Joined(Part(c.run[2] + 1, 8), Colon)
    IN  body \o prefix

GuidText(c) ==
    LET g == c.guid
    IN  Joined(<<HexText(Reverse(SubSeq(g, 1, 4))), HexText(Reverse(SubSeq(g, 5, 6))),
                 HexText(Reverse(SubSeq(g, 7, 8))), HexText(SubSeq(g, 9, 10)),
                 HexText(SubSeq(g, 11, 16))>>, Dash)

ReadAddress(c) ==
    CASE c.f = "Ipv6" -> StrToIpv6Address(AddressText(c) \o c.tail)
      [] c.f = "AsciiIpv6" -> AsciiStrToIpv6Address(AddressText(c) \o c.tail)
      [] c.f = "Ipv4" -> StrToIpv4Address(AddressText(c) \o c.tail)
      [] c.f = "AsciiIpv4" -> AsciiStrToIpv4Address(AddressText(c) \o c.tail)
      [] c.f = "Guid" -> StrToGuid(SubSeq(GuidText(c), 1, c.cut))
      [] c.f = "AsciiGuid" -> AsciiStrToGuid(SubSeq(GuidText(c), 1, c.cut))
      [] c.f = "HexToBytes" -> StrHexToBytes(HexText(c.bytes), c.length, c.size)
      [] c.f = "AsciiHexToBytes" ->
            AsciiStrHexToBytes(HexText(c.bytes), c.length, c.size)

(* Every address is read back from each of its texts: the run of zero      *)
(* groups written out or compressed at any place, with or without prefix,  *)
(* the scan stopping behind it; a GUID from its whole text and from no     *)
(* shorter one; bytes only when the text has as many digits as asked for   *)
(* and the buffer room for them (StrToIpv6Address to AsciiStrHexToBytes).  *)
AddressesRead ==
    call # None /\ library = "Addresses" =>
        CASE call.f \in {"Ipv6", "AsciiIpv6", "Ipv4", "AsciiIpv4"} ->
                /\ result.status = "SUCCESS"
                /\ result.address =
                     IF call.f \in {"Ipv4", "AsciiIpv4"} THEN call.bytes
                     ELSE [i \in 1..16 |->
                             LET g == call.groups[(i + 1) \div 2]
                             IN  IF i % 2 = 1 THEN g \div 256 ELSE g % 256]
                /\ result.prefix = IF call.prefix = <<>> THEN 255 ELSE call.prefix[1]
                /\ result.end = Len(AddressText(call)) + 1
          [] call.f \in {"Guid", "AsciiGuid"} ->
                IF call.cut = 36
                THEN result.status = "SUCCESS" /\ result.guid = call.guid
                ELSE result = Refused
          [] call.f \in {"HexToBytes", "AsciiHexToBytes"} ->
                LET n == call.length \div 2
                IN  (result.status = "SUCCESS") =
                       (call.length = 2 * n /\ n <= Len(call.bytes) /\ n <= call.size)
                    /\ result.status = "SUCCESS" =>
                            result.bytes = SubSeq(call.bytes, 1, n)

----------------------------------------------------------------------------
(* Copies.                                                                 *)

Wide == 353     \* a CHAR16 without ASCII form
Memory == 1..20
Widths(f) == CASE f \in {"StrCpyS", "StrnCpyS", "StrCatS", "StrnCatS"} -> <<2, 2>>
               [] f \in {"UnicodeStrToAsciiStrS", "UnicodeStrnToAsciiStrS"} -> <<1, 2>>
               [] f \in {"AsciiStrToUnicodeStrS", "AsciiStrnToUnicodeStrS"} -> <<2, 1>>
               [] OTHER -> <<1, 1>>
Bounded == {"StrnCpyS", "StrnCatS", "AsciiStrnCpyS", "AsciiStrnCatS",
            "UnicodeStrnToAsciiStrS", "AsciiStrnToUnicodeStrS"}
Catenating == {"StrCatS", "StrnCatS", "AsciiStrCatS", "AsciiStrnCatS"}
Plain == {"StrCpyS", "StrCatS", "AsciiStrCpyS", "AsciiStrCatS",
          "UnicodeStrToAsciiStrS", "AsciiStrToUnicodeStrS"}

Copies ==
    {c \in [f : Bounded \union Plain, dst : {NULL, 2, 4, 6, 8}, max : 0..4,
            src : {NULL, 2, 4, 6, 8, 10, 12}, n : 0..4,
            old : {<<>>, <<LetterB>>}, s : {<<>>, <<LetterA>>, <<LetterA, LetterB>>,
                                            <<Wide>>}] :
        /\ c.f \in Plain => c.n = 0
        /\ c.f \notin Catenating => c.old = <<>>
        /\ c.s = <<Wide>> => Widths(c.f)[2] = 2
        /\ c.src = NULL \/ c.dst = NULL => c.s = <<>> /\ c.old = <<>>}

\* The bytes of text at address a, and its NUL.
RECURSIVE Written(_, _, _, _)
Written(mem, w, a, s) ==
    IF s = <<>> THEN Put(mem, w, a, 0, 0)
    ELSE Written(Put(mem, w, a, 0, Head(s)), w, a + w, Tail(s))

Before(c) ==
    LET w == Widths(c.f)
        blank == [a \in Memory |-> 7]
        destination == IF c.dst = NULL THEN blank ELSE Written(blank, w[1], c.dst, c.old)
    IN  IF c.src = NULL THEN destination ELSE Written(destination, w[2], c.src, c.s)

CopyString(c) ==
    LET m == Before(c)
    IN  CASE c.f = "StrCpyS" -> StrCpyS(m, c.dst, c.max, c.src)
          [] c.f = "StrnCpyS" -> StrnCpyS(m, c.dst, c.max, c.src, c.n)
          [] c.f = "StrCatS" -> StrCatS(m, c.dst, c.max, c.src)
          [] c.f = "StrnCatS" -> StrnCatS(m, c.dst, c.max, c.src, c.n)
          [] c.f = "AsciiStrCpyS" -> AsciiStrCpyS(m, c.dst, c.max, c.src)
          [] c.f = "AsciiStrnCpyS" -> AsciiStrnCpyS(m, c.dst, c.max, c.src, c.n)
          [] c.f = "AsciiStrCatS" -> AsciiStrCatS(m, c.dst, c.max, c.src)
          [] c.f = "AsciiStrnCatS" -> AsciiStrnCatS(m, c.dst, c.max, c.src, c.n)
          [] c.f = "UnicodeStrToAsciiStrS" ->
                UnicodeStrToAsciiStrS(m, c.src, c.dst, c.max)
          [] c.f = "UnicodeStrnToAsciiStrS" ->
                UnicodeStrnToAsciiStrS(m, c.src, c.n, c.dst, c.max)
          [] c.f = "AsciiStrToUnicodeStrS" ->
                AsciiStrToUnicodeStrS(m, c.src, c.dst, c.max)
          [] c.f = "AsciiStrnToUnicodeStrS" ->
                AsciiStrnToUnicodeStrS(m, c.src, c.n, c.dst, c.max)

(* Where Source and the whole of Destination lie apart and the result with *)
(* its NUL fits, the copy is made, and only there: Destination then holds  *)
(* the characters asked for, Source what it held, and no byte behind the   *)
(* result has changed; a refused call changes nothing.  The two may lie    *)
(* anywhere, as characters of one or two bytes (SafeString.c).             *)
CopiesAsTold ==
    call # None /\ library = "Copies" =>
        LET c == call
            wd == Widths(c.f)[1]
            ws == Widths(c.f)[2]
            m == Before(c)
            taken == IF c.f \in Bounded THEN FirstOf(c.s, c.n) ELSE c.s
            kept == IF c.f \in Catenating THEN LengthWithin(m, wd, c.dst, c.max) ELSE 0
            after == result.mem
            Bytes2(a, n) == a..a + n - 1
            apart == Bytes2(c.dst, wd * c.max) \intersect
                        Bytes2(c.src, ws * (Len(taken) + 1)) = {}
        IN  /\ (result.status = "SUCCESS") =
                 /\ c.dst # NULL /\ c.src # NULL
                 /\ c.max \in 1..RSIZE_MAX /\ (c.f \in Bounded => c.n <= RSIZE_MAX)
                 /\ kept + Len(taken) < c.max
                 /\ apart
                 /\ taken # <<Wide>> \/ wd = 2
            /\ result.status # "SUCCESS" => after = m
            /\ result.status = "SUCCESS" =>
                 /\ \A i \in 0..kept - 1 : Char(after, wd, c.dst, i) = Char(m, wd, c.dst, i)
                 /\ \A i \in 1..Len(taken) : Char(after, wd, c.dst, kept + i - 1) = taken[i]
                 /\ Char(after, wd, c.dst, kept + Len(taken)) = 0
                 /\ \A a \in Memory \ Bytes2(c.dst, wd * (kept + Len(taken) + 1)) :
                        after[a] = m[a]

----------------------------------------------------------------------------
(* Words.                                                                  *)

Sizes == {8, 16, 32, 64}
Samples(w) == {{}, {0}, {w - 1}, Bits(w), {b \in Bits(w) : b % 3 = 0}, 2..w - 3}
Marks(w) == {0, 1, w \div 2, w - 2, w - 1}

Fields ==
    UNION {{c \in [f : {"Field"}, w : {w}, x : Samples(w), start : Marks(w),
                   end : Marks(w), data : {{}, {0}, {0, 2}}] :
                /\ c.start <= c.end
                /\ \A b \in c.data : b <= c.end - c.start} : w \in Sizes}
Turns == UNION {[f : {"Turn"}, w : {w}, x : Samples(w), n : Marks(w)] : w \in {32, 64}}
Buffers == UNION {[f : {"Sums"}, w : {w}, buffer : UNION {[1..n -> Samples(w)] : n \in 0..2}]
                    : w \in Sizes}
Unaligned == UNION {[f : {"Unaligned"}, w : {w}, x : Samples(w), p : 1..3] :
                        w \in {16, 24, 32, 64}}
Quotients == [f : {"Quotient"}, x : {-7, -6, -1, 0, 1, 6, 7}, y : {-3, -1, 1, 2, 7}]
WordCalls == Fields \union Turns \union Buffers \union Unaligned \union Quotients

OnField(c) ==
    LET x == c.x   s == c.start   e == c.end   d == c.data
        kept == Not(c.w, d)
    IN  CASE c.w = 8 -> [read |-> BitFieldRead8(x, s, e), or |-> BitFieldOr8(x, s, e, d),
                         and |-> BitFieldAnd8(x, s, e, d),
                         write |-> BitFieldWrite8(x, s, e, d), ones |-> {}]
          [] c.w = 16 -> [read |-> BitFieldRead16(x, s, e), or |-> BitFieldOr16(x, s, e, d),
                          and |-> BitFieldAnd16(x, s, e, d),
                          write |-> BitFieldWrite16(x, s, e, d), ones |-> {}]
          [] c.w = 32 -> [read |-> BitFieldRead32(x, s, e), or |-> BitFieldOr32(x, s, e, d),
                          and |-> BitFieldAnd32(x, s, e, d),
                          write |-> BitFieldWrite32(x, s, e, d),
                          ones |-> BitFieldCountOnes32(x, s, e)]
          [] c.w = 64 -> [read |-> BitFieldRead64(x, s, e), or |-> BitFieldOr64(x, s, e, d),
                          and |-> BitFieldAnd64(x, s, e, d),
                          write |-> BitFieldWrite64(x, s, e, d),
                          ones |-> BitFieldCountOnes64(x, s, e)]

OnTurn(c) ==
    IF c.w = 32
    THEN [back |-> RRotU32(LRotU32(c.x, c.n), c.n), left |-> LRotU32(c.x, c.n),
          swapped |-> SwapBytes32(c.x), high |-> HighBitSet32(c.x),
          low |-> LowBitSet32(c.x), power |-> GetPowerOfTwo32(c.x),
          sign |-> {}, product |-> {}]
    ELSE [back |-> RRotU64(LRotU64(c.x, c.n), c.n), left |-> LRotU64(c.x, c.n),
          swapped |-> SwapBytes64(c.x), high |-> HighBitSet64(c.x),
          low |-> LowBitSet64(c.x), power |-> GetPowerOfTwo64(c.x),
          sign |-> ARShiftU64(c.x, c.n), product |-> MultU64x64(c.x, {c.n})]

OnBuffer(c) ==
    CASE c.w = 8 -> [sum |-> CalculateSum8(Append(c.buffer, CalculateCheckSum8(c.buffer))),
                     crc |-> CalculateCrc32(c.buffer \o Bytes(CalculateCrc32(c.buffer), 4))]
      [] c.w = 16 -> [sum |-> CalculateSum16(Append(c.buffer, CalculateCheckSum16(c.buffer))),
                      crc |-> {}]
      [] c.w = 32 -> [sum |-> CalculateSum32(Append(c.buffer, CalculateCheckSum32(c.buffer))),
                      crc |-> {}]
      [] c.w = 64 -> [sum |-> CalculateSum64(Append(c.buffer, CalculateCheckSum64(c.buffer))),
                      crc |-> {}]

Filled == [i \in 1..12 |-> {i % 8}]
OnUnaligned(c) ==
    CASE c.w = 16 -> LET b == WriteUnaligned16(Filled, c.p, c.x)
                     IN  [buffer |-> b, read |-> ReadUnaligned16(b, c.p)]
      [] c.w = 24 -> LET b == WriteUnaligned24(Filled, c.p, c.x)
                     IN  [buffer |-> b, read |-> ReadUnaligned24(b, c.p)]
      [] c.w = 32 -> LET b == WriteUnaligned32(Filled, c.p, c.x)
                     IN  [buffer |-> b, read |-> ReadUnaligned32(b, c.p)]
      [] c.w = 64 -> LET b == WriteUnaligned64(Filled, c.p, c.x)
                     IN  [buffer |-> b, read |-> ReadUnaligned64(b, c.p)]

ComputeWord(c) ==
    CASE c.f = "Field" -> OnField(c)
      [] c.f = "Turn" -> OnTurn(c)
      [] c.f = "Sums" -> OnBuffer(c)
      [] c.f = "Unaligned" -> OnUnaligned(c)
      [] c.f = "Quotient" -> DivS64x64Remainder(c.x, c.y)

\* The residue of CRC-32: what a message followed by its own CRC gives.
Residue == {2, 3, 4, 8, 9, 10, 11, 12, 14, 15, 18, 22, 24, 29}

(* A field operation changes or reads the bits from start to end and no    *)
(* other, up to the top bit of every width; a rotation is undone by the    *)
(* other and swapping bytes by itself; the bits searched for are the       *)
(* highest and lowest; a checksum cancels its buffer, a CRC leaves the     *)
(* residue; an unaligned write is read back and touches no other byte; a   *)
(* quotient is cut off towards zero (BitField.c, CheckSum.c, Math64.c).    *)
WordsAsTold ==
    call # None /\ library = "Words" =>
        CASE call.f = "Field" ->
                LET c == call
                    field == c.start..c.end
                    moved == {b + c.start : b \in c.data}
                IN  /\ {b + c.start : b \in result.read} = c.x \intersect field
                    /\ result.or = c.x \union moved
                    /\ result.and = c.x \ (field \ moved)
                    /\ result.write = (c.x \ field) \union moved
                    /\ c.w >= 32 =>
                         {b \in Bits(8) : (Cardinality(result.read) \div 2^b) % 2 = 1}
                            = result.ones
          [] call.f = "Turn" ->
                LET c == call
                IN  /\ result.back = c.x
                    /\ Cardinality(result.left) = Cardinality(c.x)
                    /\ c.n \in result.left <=> 0 \in c.x
                    /\ \A b \in Bits(c.w) :
                         b \in result.swapped <=>
                            c.w - 8 - 8 * (b \div 8) + (b % 8) \in c.x
                    /\ c.x # {} => /\ result.high = Max(c.x)
                                   /\ result.low = Min(c.x)
                                   /\ result.power = {Max(c.x)}
                    /\ c.x = {} => result.high = -1 /\ result.low = -1 /\ result.power = {}
                    /\ c.w = 64 =>
                         /\ result.product = {b + c.n : b \in c.x} \intersect Bits(64)
                         /\ \A b \in Bits(64) :
                              b \in result.sign <=>
                                 IF b + c.n > 63 THEN 63 \in c.x ELSE b + c.n \in c.x
          [] call.f = "Sums" ->
                /\ result.sum = {}
                /\ call.w = 8 => result.crc = Residue
          [] call.f = "Unaligned" ->
                /\ result.read = call.x
                /\ \A i \in 1..12 \ (call.p..call.p + call.w \div 8 - 1) :
                        result.buffer[i] = Filled[i]
          [] call.f = "Quotient" ->
                LET Magnitude(n) == IF n < 0 THEN -n ELSE n
                IN  /\ call.x = result.quotient * call.y + result.remainder
                    /\ Magnitude(result.remainder) < Magnitude(call.y)
                    /\ result.remainder * call.x >= 0

----------------------------------------------------------------------------
(* Device paths.                                                           *)

Node(type, subtype, length, closed) ==
    [type |-> type, subtype |-> subtype, length |-> length, closed |-> closed]
Hardware == Node(1, 1, 6, FALSE)
NamedFile == Node(MediaType, FilePathSubType, 8, TRUE)
OpenFile == Node(MediaType, FilePathSubType, 8, FALSE)
ShortNode == Node(1, 1, 2, FALSE)
Divider == Node(EndType, InstanceEnd, 4, TRUE)
PathNodes == {Hardware, NamedFile, OpenFile, ShortNode, Divider}
PathsOf(nodes, length) ==
    {SetDevicePathEndNode(p) : p \in UNION {[1..n -> nodes] : n \in 0..length}}
AnyPath == PathsOf(PathNodes, 2) \union {NoPath}
GoodNodes == {Hardware, NamedFile, Divider}

PathCalls ==
    [f : {"Valid"}, path : AnyPath \union PathsOf(PathNodes, 3), max : 0..24]
    \union [f : {"Append", "AppendInstance"}, path : AnyPath, other : AnyPath,
             alloc : [1..1 -> BOOLEAN]]
    \union [f : {"AppendNode"}, path : AnyPath, other : PathNodes \union {NoPath},
             alloc : [1..2 -> BOOLEAN]]
    \union [f : {"File"}, path : AnyPath, characters : 1..3, alloc : [1..2 -> BOOLEAN]]
    \union [f : {"Create"}, length : 0..8, alloc : [1..1 -> BOOLEAN]]
    \union [f : {"Split"}, path : PathsOf(GoodNodes, 4), alloc : [1..5 -> BOOLEAN]]

\* The instances a caller gets in a loop until nothing is left.
RECURSIVE Split(_, _)
Split(path, alloc) ==
    LET r == GetNextDevicePathInstance(path, alloc)
    IN  IF r.rest = NoPath THEN <<r>> ELSE <<r>> \o Split(r.rest, Tail(alloc))

OnPath(c) ==
    CASE c.f = "Valid" -> IsDevicePathValid(c.path, c.max)
      [] c.f = "Append" -> AppendDevicePath(c.path, c.other, c.alloc)
      [] c.f = "AppendInstance" -> AppendDevicePathInstance(c.path, c.other, c.alloc)
      [] c.f = "AppendNode" -> AppendDevicePathNode(c.path, c.other, c.alloc)
      [] c.f = "File" -> FileDevicePath(c.path, c.characters, c.alloc)
      [] c.f = "Create" -> CreateDeviceNode(1, 1, c.length, c.alloc)
      [] c.f = "Split" -> Split(c.path, c.alloc)

Wellformed(path) ==
    path # NoPath /\ {path[n] : n \in DOMAIN path} \intersect {OpenFile, ShortNode} = {}
PathSize(path) == FoldLeft(LAMBDA size, node : size + node.length, 0, path)

(* A path is valid when its nodes are and it fits.  Two paths appended are *)
(* the nodes of both with one end, as two instances with a divider instead *)
(* of the first end; nothing is made of an invalid path or without memory. *)
(* The instances a caller gets one after the other, put together again,    *)
(* are the path, its memory is left as it was, and where memory lacked for *)
(* one of them the others still come (DevicePathUtilities.c).              *)
PathsHold ==
    call # None /\ library = "Paths" =>
        LET c == call
            Whole(path) == IF path = NoPath THEN SetDevicePathEndNode(<<>>) ELSE path
        IN  CASE c.f = "Valid" ->
                    result <=> /\ Wellformed(c.path) /\ c.max \notin 1..3
                               /\ c.max = 0 \/ PathSize(c.path) <= c.max
              [] c.f = "Append" ->
                    result = IF /\ c.alloc[1]
                                /\ Wellformed(Whole(c.path)) /\ Wellformed(Whole(c.other))
                             THEN Front(Whole(c.path)) \o Whole(c.other)
                             ELSE NoPath
              [] c.f = "AppendInstance" ->
                    result = IF /\ c.alloc[1] /\ Wellformed(c.other)
                                /\ Wellformed(Whole(c.path))
                             THEN IF c.path = NoPath THEN c.other
                                  ELSE Front(c.path) \o <<Divider>> \o c.other
                             ELSE NoPath
              [] c.f \in {"AppendNode", "File"} ->
                    LET node == IF c.f = "AppendNode" THEN c.other
                                ELSE Node(MediaType, FilePathSubType,
                                          4 + 2 * c.characters, TRUE)
                        good == c.path = NoPath \/ Wellformed(c.path)
                    IN  result = IF \/ ~good \/ ~c.alloc[1]
                                    \/ node # NoPath /\ ~c.alloc[2]
                                    \/ node \in {OpenFile, ShortNode}
                                 THEN NoPath
                                 ELSE IF node = NoPath THEN Whole(c.path)
                                 ELSE Front(Whole(c.path))
                                      \o SetDevicePathEndNode(<<node>>)
              [] c.f = "Create" ->
                    result # NoPath <=> c.length >= 4 /\ c.alloc[1]
              [] c.f = "Split" ->
                    LET n == Len(result)
                        whole == Split(c.path, <<TRUE, TRUE, TRUE, TRUE, TRUE>>)
                        Rejoined[i \in 1..n] ==
                            IF i = 1 THEN whole[1].instance
                            ELSE AppendDevicePathInstance(Rejoined[i - 1],
                                                          whole[i].instance, <<TRUE>>)
                    IN  /\ n = Len(whole)
                        /\ n > 1 <=> IsDevicePathMultiInstance(c.path)
                        /\ \A i \in 1..n :
                              /\ result[i].instance =
                                   IF c.alloc[i] THEN whole[i].instance ELSE NoPath
                              /\ ~IsDevicePathMultiInstance(whole[i].instance)
                              /\ result[i].size = GetDevicePathSize(whole[i].instance)
                              /\ result[i].left =
                                   IF i = 1 THEN c.path ELSE result[i - 1].rest
                        /\ Rejoined[n] = c.path

----------------------------------------------------------------------------
(* What is printed, and what it should be.                                 *)

Mark(f) == [sign |-> f, n |-> 0]
Size(n) == [sign |-> "number", n |-> n]
ZeroSize(n) == [sign |-> "0", n |-> n]
Dotted(n) == <<Mark("."), Size(n)>>

Given1(n) == [n |-> n, text |-> NoText]
Pointed(text) == [n |-> 1, text |-> text]
There == [buffer |-> TRUE, format |-> TRUE, short |-> TRUE]

NumberFlags ==
    {<<>>, <<Size(2)>>, <<Size(7)>>, <<ZeroSize(7)>>, <<Mark("-"), Size(7)>>,
     <<Mark("-"), ZeroSize(7)>>, <<Mark("+")>>, <<Mark("+"), ZeroSize(6)>>,
     <<Mark(" ")>>, <<Mark(" "), Size(6)>>, <<Mark(",")>>, <<Mark(","), ZeroSize(9)>>,
     <<Mark(","), Mark("+"), Size(9)>>, Dotted(0), Dotted(3), <<Size(6)>> \o Dotted(4),
     <<ZeroSize(6)>> \o Dotted(3), <<Mark("-"), Size(6)>> \o Dotted(2), <<Mark("+")>> \o Dotted(0)}
TextFlags == {<<>>, <<Size(1)>>, <<Size(5)>>, <<Mark("-"), Size(5)>>, Dotted(1), Dotted(4),
              <<Size(5)>> \o Dotted(2)}
StarFlags == {<<Mark("*")>>, <<Mark("-"), Mark("*")>>, <<Mark("."), Mark("*")>>}
Long(flags) == Append(flags, Mark("L"))

Conversion(type, flags) == [type |-> type, char |-> Slash, flags |-> flags, percent |-> TRUE]

Ints == {0, 7, -7, 123, -123, 1234, 2047, -2048}
Longs == {0, -1, 32767, -32767, 12345}

\* A format with the arguments that its directives take.
Numbered ==
    [items : {<<Conversion(t, f)>> : t \in {"d", "u", "x", "X"}, f \in NumberFlags},
     args : {<<Given1(n)>> : n \in Ints}]
    \union
    [items : {<<Conversion(t, Long(f))>> : t \in {"d", "u", "x", "X", "p"}, f \in NumberFlags},
     args : {<<Given1(n)>> : n \in Longs}]
Texts1 ==
    [items : {<<Conversion(t, f)>> : t \in {"s", "a"}, f \in TextFlags},
     args : {<<Pointed(s)>> : s \in {<<>>, <<Zero, LowerA>>, <<1, 2, 3>>, NoText}}]
    \union [items : {<<Conversion("c", f)>> : f \in TextFlags}, args : {<<Given1(LowerZ)>>, <<Given1(0)>>}]
    \union [items : {<<Conversion("r", f)>> : f \in TextFlags},
            args : {<<Given1(n)>> : n \in {0, 7, 8, 2 - 2^(LongBits - 1), 36 - 2^(LongBits - 1)}}]
    \union [items : {<<Conversion("t", f)>> : f \in TextFlags},
            args : {<<Pointed(s)>> : s \in {<<1, 31, 2024, 9, 5>>, NoText}}]
    \union [items : {<<Conversion("g", f)>> : f \in TextFlags},
            args : {<<Pointed(s)>> : s \in {<<4660, 17, 18, 1, 2, 3, 4, 5, 6, 7, 255>>, NoText}}]
    \union [items : {<<Conversion(t, f)>> : t \in {"line", "end"}, f \in TextFlags}, args : {<<>>}]
Bare ==
    {<<Character(LowerA)>>, <<Conversion("%", <<>>)>>,
     <<[Character(0) EXCEPT !.type = "line"]>>, <<[Character(0) EXCEPT !.type = "return"]>>}
Starred ==
    {[items |-> <<Conversion("d", f)>>, args |-> <<Given1(w), Given1(n)>>] :
        f \in StarFlags, w \in {0, 2, 6}, n \in Ints}
    \union {[items |-> <<Conversion("s", f)>>, args |-> <<Given1(w), Pointed(<<1, 2, 3>>)>>] :
        f \in StarFlags, w \in {0, 2, 6}}
Single == Numbered \union Texts1 \union Starred \union [items : Bare, args : {<<>>}]
Some ==
    {[items |-> <<Conversion("d", f)>>, args |-> <<Given1(-123)>>] : f \in {<<>>, <<Size(2)>>, <<ZeroSize(7)>>}}
    \union {[items |-> <<Conversion("s", <<Size(5)>>)>>, args |-> <<Pointed(<<1, 2>>)>>],
            [items |-> <<Conversion("d", <<Mark("*")>>)>>, args |-> <<Given1(6), Given1(7)>>],
            [items |-> <<Conversion("end", <<Size(3)>>)>>, args |-> <<>>]}
    \union [items : Bare, args : {<<>>}]
Chain(parts) ==
    [items |-> FlattenSeq([i \in DOMAIN parts |-> parts[i].items]),
     args |-> FlattenSeq([i \in DOMAIN parts |-> parts[i].args])]

ValueFlags == SUBSET {"COMMA_TYPE", "PREFIX_ZERO", "RADIX_HEX"} \union {{"LONG_TYPE"}}
PrintCalls ==
    [f : {"Value"}, flags : ValueFlags, value : Ints \union Longs,
     width : {0, 1, 4, 7, MAXIMUM_VALUE_CHARACTERS}, size : 0..10, wide : BOOLEAN, there : BOOLEAN]
    \union [f : {"Print"}, parts : {<<c>> : c \in Single}, size : {0, 1, 4, 80}]
    \union [f : {"Print"}, parts : Some \X Some, size : {6, 80}]
    \union [f : {"Print"}, parts : Some \X Some \X Some, size : {80}]

\* Everything that can be asked of a format.
Full(c) == AsciiSPrint(There, 80, c.items, c.args)
OnPrint(c) ==
    IF c.f = "Value"
    THEN [safe |-> IF c.wide THEN UnicodeValueToStringS(c.there, c.size, c.flags, c.value, c.width)
                   ELSE AsciiValueToStringS(c.there, c.size, c.flags, c.value, c.width),
          all |-> ValueText(c.flags, c.value, c.width)]
    ELSE LET whole == Chain(c.parts) IN
         [ascii |-> AsciiSPrint(There, c.size, whole.items, whole.args),
          unicode |-> UnicodeSPrintAsciiFormat(There, 2 * c.size, whole.items, whole.args),
          parts |-> [i \in DOMAIN c.parts |-> Full(c.parts[i]).text],
          length |-> SPrintLength(There, whole.items, whole.args),
          debug |-> DebugPrint(whole.items, whole.args)]

----------------------------------------------------------------------------
(* References.                                                             *)

Lead(s) == Cardinality({i \in DOMAIN s : \A j \in 1..i : s[j] = Space})
Trail(s) == Cardinality({i \in DOMAIN s : \A j \in i..Len(s) : s[j] = Space})
HasFlag(item, sign) == \E i \in DOMAIN item.flags : item.flags[i].sign = sign
Numeral(digits) == SelectSeq(digits, LAMBDA c : c # CommaSign)
ValueOf(digits, base) ==
    FoldLeft(LAMBDA v, c : v * base + InternalHexCharToUintn(c), 0, Numeral(digits))
GroupsRight(digits, comma) ==
    \A i \in DOMAIN digits :
        (digits[i] = CommaSign) <=> comma /\ (Len(digits) - i) % 4 = 3

\* Width and precision as the flags and the arguments give them.
DotAt(item) == IF HasFlag(item, ".") THEN Min({i \in DOMAIN item.flags : item.flags[i].sign = "."})
             ELSE Len(item.flags) + 1
Asked1(c, from, to, default) ==
    LET item == c.items[1]
        at == {i \in from..to : item.flags[i].sign \in {"number", "0", "*"}}
    IN  IF at = {} THEN default
        ELSE IF item.flags[Max(at)].sign = "*" THEN c.args[1].n ELSE item.flags[Max(at)].n
Width(c) == Asked1(c, 1, DotAt(c.items[1]) - 1, 0)
Padded(c) == Asked1(c, 1, DotAt(c.items[1]) - 1, -1) >= 0
Precision(c) == Asked1(c, DotAt(c.items[1]) + 1, Len(c.items[1].flags), 1)

\* A field: the number can be read back and has its sign, its groups and as
\* many digits as asked; blanks only up to the width, on the right side.
NumberPrinted(c, out) ==
    LET item == c.items[1]
        hex == item.type \in {"x", "X", "p"}
        long == HasFlag(item, "L") \/ item.type = "p"
        n == c.args[Len(c.args)].n
        number == IF long THEN n ELSE AsInt(n)
        shown == IF hex \/ item.type = "u" THEN number % 2^(IF long THEN LongBits ELSE IntBits)
                 ELSE number
        blank == IF /\ HasFlag(item, " ") /\ ~HasFlag(item, "+") /\ item.type # "p" /\ shown >= 0
                 THEN 1 ELSE 0
        body == SubSeq(out, Lead(out) + 1, Len(out) - (IF Lead(out) = Len(out) THEN 0 ELSE Trail(out)))
        sign == IF body # <<>> /\ body[1] \in {Dash, PlusSign} THEN body[1] ELSE 0
        digits == IF sign = 0 THEN body ELSE Tail(body)
        comma == HasFlag(item, ",") /\ ~hex
        zero == (HasFlag(item, "0") \/ item.type \in {"X", "p"}) /\ ~HasFlag(item, "-")
                /\ ~comma /\ ~HasFlag(item, ".")
        least == IF comma THEN 1 ELSE Precision(c)
    IN  /\ ValueOf(digits, IF hex THEN 16 ELSE 10) = (IF shown < 0 THEN -shown ELSE shown)
        /\ digits = <<>> => shown = 0 /\ least = 0
        /\ (sign = Dash) <=> shown < 0
        /\ (sign = PlusSign) <=> /\ HasFlag(item, "+") /\ shown >= 0
                                 /\ item.type \in {"d", "x", "X"}
        /\ GroupsRight(digits, comma)
        /\ Len(Numeral(digits)) >= least
        /\ Len(out) >= Width(c)
        /\ (Len(digits) > 1 /\ digits[1] = Zero) =>
                Len(digits) = least \/ (zero /\ Len(out) = Width(c))
        /\ Lead(out) + Trail(out) > blank /\ body # <<>> =>
                Len(out) = Width(c) /\ ~zero
        /\ Lead(out) > blank /\ body # <<>> => ~HasFlag(item, "-")
        /\ Trail(out) > 0 /\ body # <<>> => HasFlag(item, "-")

\* The text that an argument stands for, in full.
TextMeant(c) ==
    LET item == c.items[1]
        arg == c.args[Len(c.args)]
        TwoDigits(n) == <<Zero + (n \div 10), Zero + (n % 10)>>
    IN  CASE item.type \in {"s", "a", "g", "t"} /\ arg.text = NoText -> <<Less, Greater>>
          [] item.type \in {"s", "a"} /\ arg.text # NoText -> arg.text
          [] item.type = "c" -> IF arg.n = 0 THEN <<>> ELSE <<arg.n>>
          [] item.type = "r" ->
                CASE arg.n = 8 -> [i \in 1..8 |-> IF i < 8 THEN Zero ELSE Zero + 8]
                  [] arg.n \in {0, 7} -> <<UpperW, Zero + arg.n>>
                  [] arg.n = 2 - 2^(LongBits - 1) -> <<UpperE, 2>>
                  [] OTHER -> [i \in 1..8 |-> IF i = 8 THEN Zero + 4 ELSE
                                              IF i = 7 THEN Zero + 2 ELSE Zero]
          [] item.type = "t" /\ arg.text # NoText ->
                TwoDigits(arg.text[1]) \o <<Slash>> \o TwoDigits(arg.text[2]) \o <<Slash>>
                \o TwoDigits(arg.text[3] \div 100) \o TwoDigits(arg.text[3] % 100)
                \o <<Space, Space>> \o TwoDigits(arg.text[4]) \o <<Colon>> \o TwoDigits(arg.text[5])
          [] item.type = "line" -> <<Return, LineFeed>>
          [] item.type = "return" -> <<Return>>
          [] item.type = "end" -> <<>>
          [] item.type \in {"char", "%"} -> <<item.char>>

\* A precision cuts a text, and what it asks for beyond is blank.
TextPrinted(c, out) ==
    LET item == c.items[1]
        cut == HasFlag(item, ".")
        text == IF cut THEN SubSeq(TextMeant(c), 1, Min({Precision(c), Len(TextMeant(c))})) ELSE TextMeant(c)
        blank == CASE item.type = "end" -> 0
                   [] item.type # "end" /\ cut -> Precision(c)
                   [] item.type # "end" /\ ~cut -> IF item.type = "c" THEN 1 ELSE 0
        wide == Max({blank, Len(text)})
        field == Max({Width(c), wide})
        left == HasFlag(item, "-")
        from == IF left THEN wide - Len(text) ELSE field - Len(text)
    IN  out = [i \in 1..field |-> IF i \in from + 1..from + Len(text) THEN text[i - from] ELSE Space]

Printed(c, out) ==
    IF c.items[1].type \in {"d", "u", "x", "X", "p"} THEN NumberPrinted(c, out)
    ELSE IF c.items[1].type = "g" /\ c.args[1].text # NoText THEN Len(out) >= Precision(c)
    ELSE TextPrinted(c, out)

\* The text of a value is cut at the width; what does not fit is refused.
ValuePrinted(c, r) ==
    LET hex == "RADIX_HEX" \in c.flags
        sign == c.value < 0 /\ ~hex
        digits == IF sign THEN Tail(r.all) ELSE r.all
        comma == "COMMA_TYPE" \in c.flags
        zero == "PREFIX_ZERO" \in c.flags /\ c.width # 0 /\ ~comma
        end == IF c.width = 0 THEN Len(r.all) ELSE Min({c.width, Len(r.all)})
        refused == \/ ~c.there \/ "LONG_TYPE" \in c.flags \/ (comma /\ hex)
                   \/ c.width = MAXIMUM_VALUE_CHARACTERS
        need == (end + 1) * (IF c.wide THEN 2 ELSE 1)
    IN  /\ r.safe = CASE refused -> [status |-> "INVALID_PARAMETER", text |-> NoText]
                      [] ~refused /\ c.size < need -> [status |-> "BUFFER_TOO_SMALL", text |-> NoText]
                      [] ~refused /\ c.size >= need ->
                            [status |-> "SUCCESS", text |-> SubSeq(r.all, 1, end)]
        /\ ~refused =>
              /\ sign => r.all[1] = Dash
              /\ GroupsRight(digits, comma)
              /\ ValueOf(digits, IF hex THEN 16 ELSE 10) =
                    IF hex THEN c.value % 2^LongBits ELSE IF sign THEN -c.value ELSE c.value
              /\ zero => Len(r.all) >= c.width
              /\ digits[1] = Zero => Len(digits) = 1 \/ (zero /\ Len(r.all) = c.width)

\* Every item prints what it prints alone, with the arguments behind those
\* of the items before, as far as the buffer goes.
FormatPrinted(c, r) ==
    LET full == FlattenSeq(r.parts)
        cut == SubSeq(full, 1, Min({Max({c.size - 1, 0}), Len(full)}))
        printed == IF c.size = 0 THEN [count |-> 0, text |-> NoText]
                   ELSE [count |-> Len(cut), text |-> cut]
    IN  /\ \A i \in DOMAIN c.parts : Printed(c.parts[i], r.parts[i])
        /\ r.ascii = printed /\ r.unicode = printed

WithinWidth(c, r) ==
    \A i \in DOMAIN c.parts : Padded(c.parts[i]) => Len(r.parts[i]) <= Width(c.parts[i])
OneEach(c) ==
    \A i \in DOMAIN c.parts :
        Len(c.parts[i].args) = IF c.parts[i].items[1].type \in {"char", "line", "return", "%", "end"}
                               THEN 0 ELSE 1
LengthsAgree(c, r) == r.length = Len(FlattenSeq(r.parts))
ArgumentsPassed(c, r) == r.debug = FlattenSeq(r.parts)

----------------------------------------------------------------------------
(* Forms, settings and package lists (MCHii).                              *)

(* An update changes the items of the form it names and nothing else: not  *)
(* another form, package or form set, and the scopes stay closed; it does  *)
(* so wholly or not at all (HiiUpdateForm).  What the builders leave in a  *)
(* buffer, however often it grew, is each question with what it holds in   *)
(* its scope (HiiCreateEndOpCode to HiiCreateTimeOpCode).                  *)
FormsUpdated ==
    call # None /\ library = "Forms" =>
        CASE call.f = "Update" -> EndsInForm(call) => FormUpdated(call, result)
          [] call.f = "Build" -> BuiltWhole(call, result)

(* Settings are accepted when every question whose bytes the blocks give,  *)
(* or whose name is there, has a value that the question allows, in bytes  *)
(* or in bits, one of its options or signed; the blocks, in any order and  *)
(* overlapping, become their union.  Of all headers in a string each one   *)
(* is validated, or its default routed, up to the first that fails         *)
(* (ValidateQuestionFromVfr, GetBlockDataInfo, InternalHiiIfrValueAction). *)
SettingsChecked ==
    call # None /\ library = "Settings" =>
        IF call.f = "Act" THEN ActedOnAll(call, result)
        ELSE SettingValidated(call, result)

(* A string in a name-value store is accepted when it has no more than the *)
(* characters allowed: "Check current string length is less than maxsize   *)
(* e.g Config String: "0041004200430044", Unicode String: "ABCD". Unicode  *)
(* String length = Config String length / 4" (HiiLib.c:1773-1774).         *)
StringsMeasured ==
    call # None /\ library = "Settings" =>
        (call.f = "Names" => NamesValidated(call, result))

(* The handles of a GUID are found in order, and the form set of every     *)
(* package.  A string set in languages is read back from each of them, one *)
(* that fails leaves those before it set and the rest as they were; what   *)
(* was sent to the browser comes back; a header is read back from its text *)
(* and matches its own GUID and name only (HiiGetHiiHandles, HiiSetString, *)
(* HiiConstructConfigHdr, HiiSetBrowserData).                              *)
PackagesServed ==
    call # None /\ library = "Packages" => PackageServed(call, result)

(* A value is read back from its printed text, cut only at the width, and  *)
(* refused when the buffer would not hold it.  A field has the sign, the   *)
(* digits and the blanks that its flags ask for, and each directive of a   *)
(* format prints its own argument, up to the end of the buffer; where no   *)
(* field is narrower than its text the length is told beforehand, and with *)
(* one argument to a directive DEBUG prints the same                       *)
(* (BasePrintLibSPrintMarker, BasePrintLibConvertValueToStringS,           *)
(* DebugPrint).                                                            *)
PrintedAsTold ==
    call # None /\ library = "Print" =>
        IF call.f = "Value" THEN ValuePrinted(call, result)
        ELSE /\ FormatPrinted(call, result)
             /\ WithinWidth(call, result) => LengthsAgree(call, result)
             /\ OneEach(call) => ArgumentsPassed(call, result)

(* "Returns the number of characters that would be produced by if the      *)
(* formatted output were produced not including the Null-terminator"       *)
(* (PrintLib.c:803-804).                                                   *)
LengthTold ==
    call # None /\ library = "Print" =>
        (call.f = "Print" => LengthsAgree(call, result))

(* "Each non-literal '%' consumes one UINTN-sized argument from the        *)
(* va_list" (DebugLibHost.c:181): every directive of a message prints the  *)
(* argument that its caller passed for it.                                 *)
MessagesComplete ==
    call # None /\ library = "Print" =>
        (call.f = "Print" => ArgumentsPassed(call, result))

----------------------------------------------------------------------------
(* Texts: what String.c and SafeString.c read, compare and copy.           *)
TextsAsTold == ComparisonsAgree /\ NumbersRead /\ AddressesRead /\ CopiesAsTold

(* Lists and device paths: LinkedList.c, DevicePathUtilities.c.            *)
ChainsHold == ListsHold /\ PathsHold

(* Packages, forms and settings: HiiString.c, HiiLib.c.                    *)
HiiServed == PackagesServed /\ FormsUpdated /\ SettingsChecked

----------------------------------------------------------------------------
Pure == {"Comparisons", "Numbers", "Addresses", "Copies", "Words", "Paths",
         "Forms", "Settings", "Packages", "Print"}

Init ==
    /\ library \in Pure \union {"LinkedList"}
    /\ call = None
    /\ result = None
    /\ LinkedListInit

Called(c, answer) ==
    /\ call' = c
    /\ result' = answer
    /\ UNCHANGED <<library, listVars>>

CallString ==
    /\ library = "Comparisons" /\ call = None
    /\ \E c \in Comparisons : Called(c, Compare(c))
CallNumber ==
    /\ library = "Numbers" /\ call = None
    /\ \E c \in Numbers : Called(c, ReadNumber(c))
CallAddress ==
    /\ library = "Addresses" /\ call = None
    /\ \E c \in Addresses6 \union Addresses4 \union Guids \union HexBytes :
            Called(c, ReadAddress(c))
CallCopy ==
    /\ library = "Copies" /\ call = None
    /\ \E c \in Copies : Called(c, CopyString(c))
CallWord ==
    /\ library = "Words" /\ call = None
    /\ \E c \in WordCalls : Called(c, ComputeWord(c))
CallPath ==
    /\ library = "Paths" /\ call = None
    /\ \E c \in PathCalls : Called(c, OnPath(c))
CallForm ==
    /\ library = "Forms" /\ call = None
    /\ \/ \E c \in Updates : Called(c, Update(c))
       \/ \E c \in Builds : Called(c, Build(c))
CallSetting ==
    /\ library = "Settings" /\ call = None
    /\ \/ \E c \in Validations : Called(c, Validate(c))
       \/ \E c \in Actions : Called(c, Act(c))
CallPackage ==
    /\ library = "Packages" /\ call = None
    /\ \E c \in PackageCalls : Called(c, OnPackage(c))
CallPrint ==
    /\ library = "Print" /\ call = None
    /\ \E c \in PrintCalls : Called(c, OnPrint(c))
CallList ==
    /\ library = "LinkedList"
    /\ LinkedListNext
    /\ UNCHANGED libraryVars

Next == CallString \/ CallNumber \/ CallAddress \/ CallCopy \/ CallWord \/ CallPath
        \/ CallForm \/ CallSetting \/ CallPackage \/ CallPrint \/ CallList

Spec == Init /\ [][Next]_vars
=============================================================================
