------------------------------ MODULE Strings ------------------------------
(***************************************************************************)
(* The string functions of BaseLibHost: lengths, comparisons and searches  *)
(* (String.c) and the readers of numbers, addresses and GUIDs that         *)
(* SafeString.c adds.  A character is its code and a string the sequence   *)
(* of its characters before the terminating NUL; a pointer into a string   *)
(* is the position of the character it points to, 1 at the beginning, and  *)
(* 0 where the code returns NULL.  The Unicode and ASCII forms of a        *)
(* function have the same body, and here the same definition, unless the   *)
(* sign of CHAR8 tells them apart.                                         *)
(***************************************************************************)
EXTENDS Integers, Sequences, FiniteSetsExt, SequencesExt

CONSTANTS
    MaxUintn,   \* MAX_UINTN, scaled down
    MaxUint64,  \* MAX_UINT64, scaled down
    RSIZE_MAX   \* the longest string in characters of SafeString.c, scaled down

ASSUME WidthAssumption == MaxUintn \in Nat /\ MaxUint64 \in Nat
ASSUME RsizeAssumption == RSIZE_MAX \in Nat \ {0}

Tab == 9        Space == 32     Dash == 45      Dot == 46
Slash == 47     Zero == 48      Nine == 57      Colon == 58
UpperA == 65    UpperF == 70    UpperX == 88
LowerA == 97    LowerF == 102   LowerZ == 122

\* The character p points to; behind the last one lies the NUL.
At(s, p) == IF p \in 1..Len(s) THEN s[p] ELSE 0

\* The first position from p on whose character is none of those in C.
PastAll(s, p, C) == Min({q \in p..Len(s) + 1 : At(s, q) \notin C})

\* A CHAR8 is signed.
Signed8(c) == IF c >= 128 THEN c - 256 ELSE c

----------------------------------------------------------------------------
(* String.c *)

StrLen(s) == Min({n \in 0..Len(s) : At(s, n + 1) = 0})
StrSize(s) == (StrLen(s) + 1) * 2

\* Where two strings part: the first ends, or the characters differ.
Parting(s, t) ==
    Min({p \in 1..Len(s) + 1 : At(s, p) = 0 \/ At(s, p) # At(t, p)})

StrCmp(s, t) == At(s, Parting(s, t)) - At(t, Parting(s, t))

StrnCmp(s, t, n) ==
    IF n = 0 THEN 0
    ELSE LET p == Min({Parting(s, t), n}) IN At(s, p) - At(t, p)

\* The search starts again behind the first character of a partial match,
\* and gives up when the string ends inside one.
StrStr(s, t) ==
    LET Matched(p) == Parting(t, SubSeq(s, p, Len(s))) - 1
        search[p \in 1..Len(s) + 1] ==
            IF At(s, p) = 0 THEN 0
            ELSE LET k == Matched(p)
                 IN  IF At(t, k + 1) = 0 THEN p
                     ELSE IF At(s, p + k) = 0 THEN 0
                     ELSE search[p + 1]
    IN  IF At(t, 1) = 0 THEN 1 ELSE search[1]

InternalIsDecimalDigitCharacter(c) == c >= Zero /\ c <= Nine

InternalCharToUpper(c) ==
    IF c >= LowerA /\ c <= LowerZ THEN c - (LowerA - UpperA) ELSE c

InternalHexCharToUintn(c) ==
    IF InternalIsDecimalDigitCharacter(c)
    THEN c - Zero
    ELSE 10 + InternalCharToUpper(c) - UpperA

InternalIsHexaDecimalDigitCharacter(c) ==
    \/ InternalIsDecimalDigitCharacter(c)
    \/ c >= UpperA /\ c <= UpperF
    \/ c >= LowerA /\ c <= LowerF

AsciiStrLen(s) == StrLen(s)
AsciiStrSize(s) == AsciiStrLen(s) + 1

AsciiStrCmp(s, t) ==
    Signed8(At(s, Parting(s, t))) - Signed8(At(t, Parting(s, t)))

AsciiStrnCmp(s, t, n) ==
    IF n = 0 THEN 0
    ELSE LET p == Min({Parting(s, t), n})
         IN  Signed8(At(s, p)) - Signed8(At(t, p))

InternalBaseLibAsciiToUpper(c) == InternalCharToUpper(c)
AsciiCharToUpper(c) == InternalCharToUpper(c)
InternalAsciiIsDecimalDigitCharacter(c) == InternalIsDecimalDigitCharacter(c)
InternalAsciiIsHexaDecimalDigitCharacter(c) ==
    InternalIsHexaDecimalDigitCharacter(c)
InternalAsciiHexCharToUintn(c) == InternalHexCharToUintn(c)

AsciiStriCmp(s, t) ==
    LET Upper(r) == [i \in DOMAIN r |-> InternalBaseLibAsciiToUpper(r[i])]
    IN  AsciiStrCmp(Upper(s), Upper(t))

AsciiStrStr(s, t) == StrStr(s, t)

DecimalToBcd8(v) == (v \div 10) * 16 + (v % 10)
BcdToDecimal8(v) == (v \div 16) * 10 + (v % 16)

----------------------------------------------------------------------------
(* Numbers.  A reader returns its status, what it stores in Data and where *)
(* *EndPointer points.                                                     *)

\* The digits from p on, accumulated until one would not fit below max.
Accumulate(s, p, base, max) ==
    LET IsDigit(c) == IF base = 10 THEN InternalIsDecimalDigitCharacter(c)
                      ELSE InternalIsHexaDecimalDigitCharacter(c)
        last == Min({q \in p..Len(s) + 1 : ~IsDigit(At(s, q))})
        Value(q) == InternalHexCharToUintn(At(s, q))
        data[q \in p..last] ==
            IF q = p THEN 0 ELSE data[q - 1] * base + Value(q - 1)
        full == {q \in p..last - 1 : data[q] > (max - Value(q)) \div base}
    IN  IF full = {}
        THEN [status |-> "SUCCESS", data |-> data[last], end |-> last]
        ELSE [status |-> "UNSUPPORTED", data |-> max, end |-> Min(full)]

\* Padding and leading zeros are passed over.
PastZeros(s, p) == PastAll(s, PastAll(s, p, {Space, Tab}), {Zero})

DecimalFrom(s, p, max) ==
    Accumulate(s, PastZeros(s, p), 10, max)

\* Mutant: any 'x' is passed over.
HexFromAnyX(s, p, before, max) ==
    LET q == PastZeros(s, p)
    IN  Accumulate(s, IF InternalCharToUpper(At(s, q)) = UpperX THEN q + 1 ELSE q, 16, max)

\* An 'x' needs the zero before it.  At the beginning of the string the
\* code reads the character in front of it: any, here `before'.  Without
\* the zero *EndPointer keeps the beginning.
HexFrom(s, p, before, max) ==
    LET q == PastZeros(s, p)
        marked == InternalCharToUpper(At(s, q)) = UpperX
        previous == IF q = 1 THEN before ELSE At(s, q - 1)
    IN  IF marked /\ previous # Zero
        THEN [status |-> "SUCCESS", data |-> 0, end |-> p]
        ELSE Accumulate(s, IF marked THEN q + 1 ELSE q, 16, max)

StrDecimalToUintnS(s) == DecimalFrom(s, 1, MaxUintn)
StrDecimalToUint64S(s) == DecimalFrom(s, 1, MaxUint64)
StrHexToUintnS(s, before) == HexFrom(s, 1, before, MaxUintn)
StrHexToUint64S(s, before) == HexFrom(s, 1, before, MaxUint64)
AsciiStrDecimalToUintnS(s) == DecimalFrom(s, 1, MaxUintn)
AsciiStrDecimalToUint64S(s) == DecimalFrom(s, 1, MaxUint64)
AsciiStrHexToUintnS(s, before) == HexFrom(s, 1, before, MaxUintn)
AsciiStrHexToUint64S(s, before) == HexFrom(s, 1, before, MaxUint64)

\* The older forms drop the status: what does not fit reads as the maximum.
StrDecimalToUintn(s) == StrDecimalToUintnS(s).data
StrDecimalToUint64(s) == StrDecimalToUint64S(s).data
StrHexToUintn(s, before) == StrHexToUintnS(s, before).data
StrHexToUint64(s, before) == StrHexToUint64S(s, before).data
AsciiStrDecimalToUintn(s) == AsciiStrDecimalToUintnS(s).data
AsciiStrDecimalToUint64(s) == AsciiStrDecimalToUint64S(s).data
AsciiStrHexToUintn(s, before) == AsciiStrHexToUintnS(s, before).data
AsciiStrHexToUint64(s, before) == AsciiStrHexToUint64S(s, before).data

----------------------------------------------------------------------------
(* Addresses.  w is the reader's progress: position, bytes so far, where   *)
(* the compressed run starts, whether a prefix is due and its value.       *)

Ipv6Bytes == 16
Ipv4Bytes == 4
NoPrefix == 255     \* MAX_UINT8

Refused == [status |-> "UNSUPPORTED"]

Bad(w) == [w EXCEPT !.state = "bad"]
Stop(w) == [w EXCEPT !.state = "stop"]

\* What follows a number: the prefix, another group, or the end.
Ipv6Next(s, w) ==
    CASE At(s, w.p) = Slash -> [w EXCEPT !.p = @ + 1, !.expect = TRUE]
      [] At(s, w.p) = Colon /\ Len(w.bytes) < Ipv6Bytes -> [w EXCEPT !.p = @ + 1]
      [] OTHER -> Stop(w)

\* Where a number is due a ':' opens the compressed run, once; at the
\* beginning of the string it must be followed by a second one.
Ipv6Compress(s, w) ==
    IF \/ At(s, w.p) # Colon
       \/ w.expect
       \/ w.compress # Ipv6Bytes
       \/ Len(w.bytes) = Ipv6Bytes
       \/ w.bytes = <<>> /\ At(s, w.p + 1) # Colon
    THEN Bad(w)
    ELSE [w EXCEPT !.compress = Len(w.bytes),
                   !.p = IF w.bytes = <<>> THEN @ + 2 ELSE @ + 1]

Ipv6Group(s, w) ==
    LET r == HexFrom(s, w.p, 0, MaxUintn)
    IN  IF r.status # "SUCCESS" \/ r.end - w.p > 4
        THEN Bad(w)
        ELSE Ipv6Next(s, [w EXCEPT !.p = r.end,
                                   !.bytes = @ \o <<(r.data \div 256) % 256,
                                                    r.data % 256>>])

Ipv6Prefix(s, w) ==
    LET r == DecimalFrom(s, w.p, MaxUintn)
    IN  IF r.status # "SUCCESS" \/ r.end = w.p \/ r.data > 128
        THEN Bad(w)
        ELSE Stop([w EXCEPT !.p = r.end, !.prefix = r.data])

Ipv6Step(s, v) ==
    LET Hex(p) == InternalIsHexaDecimalDigitCharacter(At(s, p))
        w == IF Hex(v.p) THEN v ELSE Ipv6Compress(s, v)
    IN  CASE w.state = "bad" -> w
          [] w.state # "bad" /\ Hex(w.p) /\ ~w.expect -> Ipv6Group(s, w)
          [] w.state # "bad" /\ Hex(w.p) /\ w.expect -> Ipv6Prefix(s, w)
          [] w.state # "bad" /\ ~Hex(w.p) ->
                IF At(s, w.p) = Slash THEN Ipv6Next(s, w) ELSE Stop(w)

RECURSIVE Ipv6Read(_, _)
Ipv6Read(s, w) == IF w.state = "go" THEN Ipv6Read(s, Ipv6Step(s, w)) ELSE w

\* The bytes behind the compressed run move to the end of the address.
StrToIpv6Address(s) ==
    LET w == Ipv6Read(s, [state |-> "go", p |-> 1, bytes |-> <<>>,
                          compress |-> Ipv6Bytes, expect |-> FALSE,
                          prefix |-> NoPrefix])
        n == Len(w.bytes)
    IN  IF w.state = "bad" \/ (n = Ipv6Bytes) # (w.compress = Ipv6Bytes)
        THEN Refused
        ELSE [status |-> "SUCCESS",
              address |-> SubSeq(w.bytes, 1, w.compress)
                          \o [i \in 1..Ipv6Bytes - n |-> 0]
                          \o SubSeq(w.bytes, w.compress + 1, n),
              prefix |-> w.prefix, end |-> w.p]

Ipv4Step(s, w) ==
    LET r == DecimalFrom(s, w.p, MaxUintn)
        whole == Len(w.bytes) = Ipv4Bytes
        v == IF whole THEN [w EXCEPT !.p = r.end, !.prefix = r.data]
             ELSE [w EXCEPT !.p = r.end, !.bytes = Append(@, r.data)]
        mark == IF Len(v.bytes) = Ipv4Bytes THEN Slash ELSE Dot
    IN  CASE ~InternalIsDecimalDigitCharacter(At(s, w.p)) -> Stop(w)
          [] InternalIsDecimalDigitCharacter(At(s, w.p)) ->
                IF r.status # "SUCCESS" \/ r.data > (IF whole THEN 32 ELSE 255)
                THEN Bad(w)
                ELSE IF At(s, v.p) = mark THEN [v EXCEPT !.p = @ + 1]
                ELSE IF mark = Slash THEN Stop(v) ELSE Bad(v)

RECURSIVE Ipv4Read(_, _)
Ipv4Read(s, w) == IF w.state = "go" THEN Ipv4Read(s, Ipv4Step(s, w)) ELSE w

StrToIpv4Address(s) ==
    LET w == Ipv4Read(s, [state |-> "go", p |-> 1, bytes |-> <<>>,
                          prefix |-> NoPrefix])
    IN  IF w.state = "bad" \/ Len(w.bytes) < Ipv4Bytes
        THEN Refused
        ELSE [status |-> "SUCCESS", address |-> w.bytes,
              prefix |-> w.prefix, end |-> w.p]

\* Pairs of hexadecimal digits, all of which are looked at before the first
\* byte is stored.
StrHexToBytes(s, length, size) ==
    CASE length % 2 # 0 -> [status |-> "INVALID_PARAMETER"]
      [] length % 2 = 0 /\ size < length \div 2 -> [status |-> "BUFFER_TOO_SMALL"]
      [] length % 2 = 0 /\ size >= length \div 2 ->
            IF \E i \in 1..length :
                    ~InternalIsHexaDecimalDigitCharacter(At(s, i))
            THEN Refused
            ELSE [status |-> "SUCCESS",
                  bytes |-> [i \in 1..length \div 2 |->
                                InternalHexCharToUintn(s[2 * i - 1]) * 16
                                + InternalHexCharToUintn(s[2 * i])]]

\* Fields of 4, 2, 2, 2 and 6 bytes; the first three are turned round into
\* the byte order of the machine.
GuidFields == <<[at |-> 1, bytes |-> 4], [at |-> 10, bytes |-> 2],
                [at |-> 15, bytes |-> 2], [at |-> 20, bytes |-> 2],
                [at |-> 25, bytes |-> 6]>>

StrToGuid(s) ==
    LET Field(i) == StrHexToBytes(SubSeq(s, GuidFields[i].at, Len(s)),
                                  2 * GuidFields[i].bytes, GuidFields[i].bytes)
        Dashed(i) == At(s, GuidFields[i].at + 2 * GuidFields[i].bytes) = Dash
    IN  IF \/ \E i \in 1..5 : Field(i).status # "SUCCESS"
           \/ \E i \in 1..4 : ~Dashed(i)
        THEN Refused
        ELSE [status |-> "SUCCESS",
              guid |-> Reverse(Field(1).bytes) \o Reverse(Field(2).bytes)
                       \o Reverse(Field(3).bytes) \o Field(4).bytes
                       \o Field(5).bytes]

AsciiStrToIpv6Address(s) == StrToIpv6Address(s)
AsciiStrToIpv4Address(s) == StrToIpv4Address(s)
AsciiStrHexToBytes(s, length, size) == StrHexToBytes(s, length, size)
AsciiStrToGuid(s) == StrToGuid(s)

-----------------------------------------------------------------------------
(***************************************************************************)
(* The copying functions of SafeString.c on one memory: a function from    *)
(* addresses to bytes, in which Source and Destination may lie anywhere.   *)
(* A character is w bytes wide, 1 for CHAR8 and 2 for CHAR16.  Every       *)
(* function returns its status and the memory it leaves.  In the host      *)
(* build a refused call also ends the process in SAFE_STRING_CONSTRAINT_   *)
(* CHECK's ASSERT; the status is what a build without assertions returns.  *)
(* A character that has no ASCII form ends the process: status ASSERT.     *)
(***************************************************************************)
NULL == 0

\* The character i places behind address a, and memory with it replaced.
Char(mem, w, a, i) ==
    IF w = 1 THEN mem[a + i] ELSE mem[a + 2 * i] + 256 * mem[a + 2 * i + 1]

Put(mem, w, a, i, c) ==
    IF w = 1 THEN [mem EXCEPT ![a + i] = c]
    ELSE [mem EXCEPT ![a + 2 * i] = c % 256, ![a + 2 * i + 1] = c \div 256]

\* Characters before the NUL, of which no more than max are looked at.
LengthWithin(mem, w, a, max) ==
    IF a = NULL \/ max = 0 THEN 0
    ELSE Min({n \in 0..max : n = max \/ Char(mem, w, a, n) = 0})

StrnLenS(mem, a, max) == LengthWithin(mem, 2, a, max)
AsciiStrnLenS(mem, a, max) == LengthWithin(mem, 1, a, max)

StrnSizeS(mem, a, max) ==
    IF a = NULL THEN 0 ELSE (StrnLenS(mem, a, max) + 1) * 2
AsciiStrnSizeS(mem, a, max) ==
    IF a = NULL THEN 0 ELSE AsciiStrnLenS(mem, a, max) + 1

InternalSafeStringIsOverlap(base1, size1, base2, size2) ==
    \/ base1 >= base2 /\ base1 < base2 + size2
    \/ base2 >= base1 /\ base2 < base1 + size1

InternalSafeStringNoStrOverlap(str1, size1, str2, size2) ==
    ~InternalSafeStringIsOverlap(str1, size1 * 2, str2, size2 * 2)

InternalSafeStringNoAsciiStrOverlap(str1, size1, str2, size2) ==
    ~InternalSafeStringIsOverlap(str1, size1, str2, size2)

Apart(wd, dst, max, ws, src, n) ==
    CASE wd = 2 /\ ws = 2 -> InternalSafeStringNoStrOverlap(dst, max, src, n)
      [] wd = 1 /\ ws = 1 -> InternalSafeStringNoAsciiStrOverlap(dst, max, src, n)
      [] wd # ws -> ~InternalSafeStringIsOverlap(dst, wd * max, src, ws * n)

\* The body the functions share.  At most n characters of Source go behind
\* the first `kept' ones of Destination; looked says how many characters of
\* Source are looked at to find its length.
Transfer(mem, wd, dst, max, kept, ws, src, n, looked) ==
    LET room == max - kept
        len == LengthWithin(mem, ws, src, looked)
        count == Min({len, n})
        Fails(status) == [status |-> status, mem |-> mem, length |-> 0]
        copied == FoldLeft(LAMBDA m, i :
                               Put(m, wd, dst, kept + i - 1, Char(m, ws, src, i - 1)),
                           mem, [i \in 1..count |-> i])
    IN  CASE \/ dst = NULL \/ src = NULL
             \/ max > RSIZE_MAX \/ n > RSIZE_MAX \/ max = 0 ->
                Fails("INVALID_PARAMETER")
          [] OTHER ->
             IF room = 0 THEN Fails("BAD_BUFFER_SIZE")
             ELSE IF n >= room /\ room <= len THEN Fails("BUFFER_TOO_SMALL")
             ELSE IF ~Apart(wd, dst, max, ws, src, count + 1)
             THEN Fails("ACCESS_DENIED")
             ELSE IF wd < ws /\ \E i \in 0..count - 1 : Char(mem, ws, src, i) >= 256
             THEN Fails("ASSERT")
             ELSE [status |-> "SUCCESS", length |-> count,
                   mem |-> Put(copied, wd, dst, kept + count, 0)]

Copy(mem, w, dst, max, src, n) ==
    Transfer(mem, w, dst, max, 0, w, src, n, Min({max, n}))

Concatenate(mem, w, dst, max, src, n) ==
    LET kept == LengthWithin(mem, w, dst, max)
    IN  Transfer(mem, w, dst, max, kept, w, src, n, Min({max - kept, n}))

StrCpyS(mem, dst, max, src) == Copy(mem, 2, dst, max, src, max)
StrnCpyS(mem, dst, max, src, n) == Copy(mem, 2, dst, max, src, n)
StrCatS(mem, dst, max, src) == Concatenate(mem, 2, dst, max, src, max)
StrnCatS(mem, dst, max, src, n) == Concatenate(mem, 2, dst, max, src, n)
AsciiStrCpyS(mem, dst, max, src) == Copy(mem, 1, dst, max, src, max)
AsciiStrnCpyS(mem, dst, max, src, n) == Copy(mem, 1, dst, max, src, n)
AsciiStrCatS(mem, dst, max, src) == Concatenate(mem, 1, dst, max, src, max)
AsciiStrnCatS(mem, dst, max, src, n) == Concatenate(mem, 1, dst, max, src, n)

UnicodeStrToAsciiStrS(mem, src, dst, max) ==
    Transfer(mem, 1, dst, max, 0, 2, src, max, max)
UnicodeStrnToAsciiStrS(mem, src, n, dst, max) ==
    Transfer(mem, 1, dst, max, 0, 2, src, n, max)
AsciiStrToUnicodeStrS(mem, src, dst, max) ==
    Transfer(mem, 2, dst, max, 0, 1, src, max, max)
AsciiStrnToUnicodeStrS(mem, src, n, dst, max) ==
    Transfer(mem, 2, dst, max, 0, 1, src, n, max)
=============================================================================
