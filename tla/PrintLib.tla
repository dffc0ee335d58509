------------------------------ MODULE PrintLib ------------------------------
(***************************************************************************)
(* PrintLibHost, the formatter behind DEBUG and UnicodeSPrint, and the     *)
(* part of DebugLibHost.c that hands it the arguments.  A format is a      *)
(* sequence of items: a character, a line end however it is written, or a  *)
(* directive, which has flags and a type.  An argument is one UINTN: the   *)
(* number n and, for a pointer, what it points to, characters or numbers.  *)
(* Output is counted in characters, whether they have one byte or two.     *)
(***************************************************************************)
EXTENDS Strings

CONSTANTS
    IntBits, LongBits,          \* widths of int and UINTN, scaled down
    PrintLimit,                 \* RSIZE_MAX and ASCII_RSIZE_MAX, 0 for none
    MAXIMUM_VALUE_CHARACTERS,
    MAX_DEBUG_MESSAGE_LENGTH,
    MAX_FORMAT_ARGS,
    NoText                      \* where a NULL pointer points to

ASSUME PrintAssumption ==
    /\ IntBits \in Nat \ {0} /\ LongBits \in Nat /\ IntBits <= LongBits
    /\ PrintLimit \in Nat /\ MAX_FORMAT_ARGS \in Nat
    /\ MAXIMUM_VALUE_CHARACTERS \in Nat \ {0} /\ MAX_DEBUG_MESSAGE_LENGTH \in Nat

LineFeed == 10      Return == 13        PlusSign == 43      CommaSign == 44
UpperE == 69        UpperW == 87        Less == 60          Greater == 62

----------------------------------------------------------------------------
(* One value.                                                              *)

HexStr(d) == IF d < 10 THEN Zero + d ELSE UpperA + d - 10

BasePrintLibValueToString(value, radix) ==
    LET text[v \in Nat] ==
            IF v < radix THEN <<HexStr(v)>>
            ELSE Append(text[v \div radix], HexStr(v % radix))
    IN  text[value % 2^LongBits]

\* Characters go up to the end of the buffer and no further.
BasePrintLibFillBuffer(buffer, end, length, character) ==
    buffer \o [i \in 1..Min({Max({length, 0}), end - Len(buffer)}) |-> character]

Grouped(digits, comma) ==
    FlattenSeq([i \in DOMAIN digits |->
        IF comma /\ i < Len(digits) /\ (Len(digits) - i) % 3 = 0
        THEN <<digits[i], CommaSign>> ELSE <<digits[i]>>])

\* All of the text of a value, of which a width takes the beginning.
ValueText(flags, value, width) ==
    LET hex == "RADIX_HEX" \in flags
        comma == "COMMA_TYPE" \in flags
        minus == IF value < 0 /\ ~hex THEN <<Dash>> ELSE <<>>
        digits == BasePrintLibValueToString(IF minus = <<>> THEN value ELSE -value,
                                            IF hex THEN 16 ELSE 10)
        zeros == IF "PREFIX_ZERO" \in flags /\ width # 0 /\ ~comma
                 THEN Max({width - Len(minus) - Len(digits), 0}) ELSE 0
    IN  minus \o [i \in 1..zeros |-> Zero] \o Grouped(digits, comma)

WidthOf(width) == IF width = 0 THEN MAXIMUM_VALUE_CHARACTERS - 1 ELSE width

BasePrintLibConvertValueToString(flags, value, width) ==
    LET text == ValueText(flags, value, width)
        end == Min({WidthOf(width), Len(text)})
    IN  [count |-> end, text |-> SubSeq(text, 1, end)]

BasePrintLibConvertValueToStringS(buffer, size, flags, value, width, increment) ==
    LET text == ValueText(flags, value, width)
        end == Min({WidthOf(width), Len(text)})
        limit == IF increment = 1 THEN PrintLimit ELSE PrintLimit * 2 + 1
    IN  IF \/ ~buffer
           \/ PrintLimit # 0 /\ size > limit
           \/ ~(flags \subseteq {"LEFT_JUSTIFY", "COMMA_TYPE", "PREFIX_ZERO", "RADIX_HEX"})
           \/ {"COMMA_TYPE", "RADIX_HEX"} \subseteq flags
           \/ width >= MAXIMUM_VALUE_CHARACTERS
        THEN [status |-> "INVALID_PARAMETER", text |-> NoText]
        ELSE IF size < (end + 1) * increment
        THEN [status |-> "BUFFER_TOO_SMALL", text |-> NoText]
        ELSE [status |-> "SUCCESS", text |-> SubSeq(text, 1, end)]

UnicodeValueToStringS(buffer, size, flags, value, width) ==
    BasePrintLibConvertValueToStringS(buffer, size, flags, value, width, 2)
AsciiValueToStringS(buffer, size, flags, value, width) ==
    BasePrintLibConvertValueToStringS(buffer, size, flags, value, width, 1)

----------------------------------------------------------------------------
(* A directive.  Its flags are read one after the other; a number is a     *)
(* width or, behind a dot, a precision, and a star takes an argument.      *)

Flag(d, f) ==
    LET dot == "PRECISION" \in d.flags
        Set(name) == [d EXCEPT !.flags = @ \union {name}]
    IN  CASE f.sign = "." -> Set("PRECISION")
          [] f.sign = "-" -> Set("LEFT_JUSTIFY")
          [] f.sign = "+" -> Set("PREFIX_SIGN")
          [] f.sign = " " -> Set("PREFIX_BLANK")
          [] f.sign = "," -> Set("COMMA_TYPE")
          [] f.sign = "L" -> Set("LONG_TYPE")
          [] f.sign = "*" /\ dot ->
                [d EXCEPT !.precision = Head(d.args).n, !.args = Tail(@)]
          [] f.sign = "*" /\ ~dot ->
                [Set("PAD_TO_WIDTH") EXCEPT !.width = Head(d.args).n, !.args = Tail(@)]
          [] f.sign \in {"number", "0"} /\ dot -> [d EXCEPT !.precision = f.n]
          [] f.sign \in {"number", "0"} /\ ~dot ->
                [(IF f.sign = "0" THEN Set("PREFIX_ZERO") ELSE d) EXCEPT
                    !.flags = @ \union {"PAD_TO_WIDTH"}, !.width = f.n]

Directive(item, args) ==
    LET d == FoldLeft(Flag, [flags |-> {}, width |-> 0, precision |-> 1, args |-> args],
                      item.flags)
    IN  IF item.type = "end" THEN [d EXCEPT !.precision = 0] ELSE d

TypeFlags(type, flags) ==
    CASE type = "p" -> (flags \ {"PREFIX_BLANK", "PREFIX_SIGN"})
                       \union {"LONG_TYPE", "PREFIX_ZERO", "RADIX_HEX"}
      [] type = "X" -> flags \union {"PREFIX_ZERO", "RADIX_HEX"}
      [] type = "x" -> flags \union {"RADIX_HEX"}
      [] type = "u" -> (flags \ {"PREFIX_SIGN"}) \union {"UNSIGNED_TYPE"}
      [] type = "d" -> flags

AsInt(n) == LET low == n % 2^IntBits
            IN  IF low < 2^(IntBits - 1) THEN low ELSE low - 2^IntBits

\* What a number's directive asks for: long or int, what goes before it, the
\* digits behind that, and the field around both.
Comma(d) == "COMMA_TYPE" \in d.flags /\ "RADIX_HEX" \notin d.flags
LeastDigits(d) == IF Comma(d) THEN 1 ELSE d.precision
NumberGiven(d) == IF "LONG_TYPE" \in d.flags THEN Head(d.args).n ELSE AsInt(Head(d.args).n)
Negative(d, given) == given < 0 /\ {"RADIX_HEX", "UNSIGNED_TYPE"} \intersect d.flags = {}
Prefix(d, minus) ==
    CASE minus -> <<Dash>>
      [] ~minus /\ "PREFIX_SIGN" \in d.flags -> <<PlusSign>>
      [] ~minus /\ "PREFIX_SIGN" \notin d.flags /\ "PREFIX_BLANK" \in d.flags -> <<Space>>
      [] OTHER -> <<>>
ShownDigits(d, value) ==
    IF value = 0 /\ LeastDigits(d) = 0 THEN <<>>
    ELSE BasePrintLibValueToString(value, IF "RADIX_HEX" \in d.flags THEN 16 ELSE 10)
ShownValue(d, given) ==
    CASE Negative(d, given) -> -given
      [] ~Negative(d, given) /\ "LONG_TYPE" \notin d.flags -> given % 2^IntBits
      [] ~Negative(d, given) /\ "LONG_TYPE" \in d.flags -> given
FilledWithZeros(d) ==
    /\ {"PREFIX_ZERO", "PAD_TO_WIDTH"} \subseteq d.flags /\ ~Comma(d)
    /\ {"LEFT_JUSTIFY", "PRECISION"} \intersect d.flags = {}

FieldOf(d, prefix, text) ==
    [args |-> Tail(d.args), flags |-> d.flags, width |-> d.width, prefix |-> prefix,
     filler |-> Zero, text |-> text, count |-> Len(prefix) + Len(text),
     precision |-> IF FilledWithZeros(d) THEN d.width ELSE LeastDigits(d) + Len(prefix)]
GivenField(d, given) ==
    FieldOf(d, Prefix(d, Negative(d, given)),
            Grouped(ShownDigits(d, ShownValue(d, given)), Comma(d)))
TypedField(d) == GivenField(d, NumberGiven(d))
NumberField(item, args) ==
    TypedField([Directive(item, args) EXCEPT !.flags = TypeFlags(item.type, @)])

----------------------------------------------------------------------------
(* Printing.  While only counting, nothing is put anywhere.                *)

Emit(p, length, character) ==
    [p EXCEPT !.length = @ + length,
              !.out = IF p.counting THEN @
                      ELSE BasePrintLibFillBuffer(@, p.end, length, character)]

EmitText(p, text) == FoldLeft(LAMBDA q, c : Emit(q, 1, c), p, text)

\* Mutant: what is wider than the field still gets a blank.
PutFieldApart(p, f) ==
    LET precision == Max({f.precision, f.count})
        pad == Max({f.width - precision, 1})
        left == "LEFT_JUSTIFY" \in f.flags
        wide == "PAD_TO_WIDTH" \in f.flags
        before == IF wide /\ ~left THEN Emit(p, pad, Space) ELSE p
        zeros == precision - f.count
        filled == IF f.filler = Zero
                  THEN Emit(EmitText(before, f.prefix), zeros, Zero)
                  ELSE Emit(before, zeros, Space)
        written == EmitText(filled, f.text)
    IN  [(IF wide /\ left THEN Emit(written, pad, Space) ELSE written)
            EXCEPT !.args = f.args]

PutField(p, f) ==
    LET precision == Max({f.precision, f.count})
        pad == f.width - precision
        left == "LEFT_JUSTIFY" \in f.flags
        wide == "PAD_TO_WIDTH" \in f.flags
        before == IF wide /\ ~left THEN Emit(p, pad, Space) ELSE p
        zeros == precision - f.count
        filled == IF f.filler = Zero
                  THEN Emit(EmitText(before, f.prefix), zeros, Zero)
                  ELSE Emit(before, zeros, Space)
        written == EmitText(filled, f.text)
    IN  [(IF wide /\ left THEN Emit(written, pad, Space) ELSE written)
            EXCEPT !.args = f.args]

\* A full buffer ends the format.
Begun(end, counting, args) ==
    [out |-> <<>>, length |-> 0, end |-> end, counting |-> counting, args |-> args]
NoRoom(p) == ~p.counting /\ Len(p.out) >= p.end

\* The prints into ValueBuffer have characters and numbers only.
PlainField(item, args) ==
    IF item.type = "char"
    THEN [args |-> args, flags |-> {}, width |-> 0, prefix |-> <<>>, filler |-> Space,
          text |-> <<item.char>>, count |-> 1, precision |-> 1]
    ELSE NumberField(item, args)

BasePrintLibSPrint(format, numbers) ==
    LET args == [i \in DOMAIN numbers |-> [n |-> numbers[i], text |-> NoText]]
    IN  FoldLeft(LAMBDA p, item : IF NoRoom(p) THEN p ELSE PutField(p, PlainField(item, p.args)),
                 Begun(MAXIMUM_VALUE_CHARACTERS - 1, FALSE, args), format).out

Character(c) == [type |-> "char", char |-> c, flags |-> <<>>, percent |-> FALSE]
Digits(n, type) ==
    [type |-> type, char |-> 0, percent |-> TRUE, flags |-> <<[sign |-> "0", n |-> n]>>]

GuidFormat ==
    <<Digits(8, "x"), Character(Dash), Digits(4, "x"), Character(Dash), Digits(4, "x"),
      Character(Dash), Digits(2, "x"), Digits(2, "x"), Character(Dash), Digits(2, "x"),
      Digits(2, "x"), Digits(2, "x"), Digits(2, "x"), Digits(2, "x"), Digits(2, "x")>>
TimeFormat ==
    <<Digits(2, "d"), Character(Slash), Digits(2, "d"), Character(Slash), Digits(4, "d"),
      Character(Space), Character(Space), Digits(2, "d"), Character(Colon), Digits(2, "d")>>

\* The words of the tables are abstracted to an initial and the index.
StatusText(status) ==
    LET index == status + 2^(LongBits - 1) IN
    CASE status < 0 /\ index \in 1..35 -> <<UpperE, index>>
      [] status \in 0..7 -> <<UpperW, Zero + status>>
      [] OTHER -> BasePrintLibSPrint(<<Digits(8, "X")>>, <<status>>)

\* "<null string>", "<null guid>" and "<null time>" are the brackets here.
NullText == <<Less, Greater>>

TextOf(item, arg) ==
    CASE item.type \in {"s", "S", "a"} -> IF arg.text = NoText THEN NullText ELSE arg.text
      [] item.type = "c" -> IF arg.n % 2^16 = 0 THEN <<>> ELSE <<arg.n % 2^16>>
      [] item.type = "g" -> IF arg.text = NoText THEN NullText
                            ELSE BasePrintLibSPrint(GuidFormat, arg.text)
      [] item.type = "t" -> IF arg.text = NoText THEN NullText
                            ELSE BasePrintLibSPrint(TimeFormat, arg.text)
      [] item.type = "r" -> StatusText(arg.n)

TakesArgument(item) == item.type \in {"s", "S", "a", "c", "g", "t", "r"}
TextHere(item, args) ==
    CASE TakesArgument(item) -> TextOf(item, Head(args))
      [] item.type = "line" -> <<Return, LineFeed>>
      [] item.type = "return" -> <<Return>>
      [] item.type \in {"char", "%"} -> <<item.char>>
      [] item.type = "end" -> <<>>
\* A precision cuts the text.
Shown(d, text) ==
    IF "PRECISION" \in d.flags THEN SubSeq(text, 1, Min({d.precision, Len(text)})) ELSE text
ShownField(item, d, shown) ==
    [args |-> IF TakesArgument(item) THEN Tail(d.args) ELSE d.args, flags |-> d.flags,
     width |-> d.width, prefix |-> <<>>, filler |-> Space, text |-> shown,
     count |-> Len(shown),
     precision |-> IF item.type \in {"s", "S", "a"} /\ "PRECISION" \notin d.flags
                   THEN 0 ELSE d.precision]
DirectedField(item, d) == ShownField(item, d, Shown(d, TextHere(item, d.args)))
TextField(item, args) == DirectedField(item, Directive(item, args))

Field(item, args) ==
    IF item.type \in {"p", "X", "x", "u", "d"} THEN NumberField(item, args)
    ELSE TextField(item, args)

Told(counting, p) ==
    IF counting THEN [count |-> p.length, text |-> NoText]
    ELSE [count |-> Len(p.out), text |-> p.out]

\* What is there: the Buffer, the Format, and a Format within the limit.
BasePrintLibSPrintMarker(there, size, counting, format, args) ==
    IF \/ size > 0 /\ ~counting /\ ~there.buffer
       \/ (size > 0 \/ counting) /\ ~there.format
       \/ PrintLimit # 0 /\ (size > PrintLimit \/ ~there.short)
       \/ size = 0 /\ ~counting
    THEN [count |-> 0, text |-> NoText]
    ELSE Told(counting,
                 FoldLeft(LAMBDA p, item : IF NoRoom(p) THEN p ELSE PutField(p, Field(item, p.args)),
                          Begun(size - 1, counting, args), format))

----------------------------------------------------------------------------
(* PrintLib.c: sizes of Unicode buffers are in bytes.                      *)

UnicodeVSPrint(there, size, format, args) ==
    BasePrintLibSPrintMarker(there, size \div 2, FALSE, format, args)
UnicodeBSPrint(there, size, format, args) == UnicodeVSPrint(there, size, format, args)
UnicodeSPrint(there, size, format, args) == UnicodeVSPrint(there, size, format, args)
UnicodeVSPrintAsciiFormat(there, size, format, args) ==
    BasePrintLibSPrintMarker(there, size \div 2, FALSE, format, args)
UnicodeBSPrintAsciiFormat(there, size, format, args) ==
    UnicodeVSPrintAsciiFormat(there, size, format, args)
UnicodeSPrintAsciiFormat(there, size, format, args) ==
    UnicodeVSPrintAsciiFormat(there, size, format, args)
AsciiVSPrint(there, size, format, args) ==
    BasePrintLibSPrintMarker(there, size, FALSE, format, args)
AsciiBSPrint(there, size, format, args) == AsciiVSPrint(there, size, format, args)
AsciiSPrint(there, size, format, args) == AsciiVSPrint(there, size, format, args)
AsciiVSPrintUnicodeFormat(there, size, format, args) ==
    BasePrintLibSPrintMarker(there, size, FALSE, format, args)
AsciiBSPrintUnicodeFormat(there, size, format, args) ==
    AsciiVSPrintUnicodeFormat(there, size, format, args)
AsciiSPrintUnicodeFormat(there, size, format, args) ==
    AsciiVSPrintUnicodeFormat(there, size, format, args)
SPrintLength(there, format, args) ==
    BasePrintLibSPrintMarker(there, 0, TRUE, format, args).count
SPrintLengthAsciiFormat(there, format, args) == SPrintLength(there, format, args)

----------------------------------------------------------------------------
(* DebugLibHost.c: one argument is taken from the caller for every '%'     *)
(* but "%%" and one that ends the format, and the rest of Args are zero.   *)
(* What is taken beyond what the caller passed no directive reads.         *)

CountFormatArgs(format) ==
    Len(SelectSeq(format, LAMBDA item :
            /\ item.percent /\ item.type # "%"
            /\ item.type = "end" => item.flags # <<>>))

DebugPrint(format, args) ==
    LET count == Min({CountFormatArgs(format), MAX_FORMAT_ARGS})
        Args == [i \in 1..MAX_FORMAT_ARGS |->
                    IF i <= count /\ i <= Len(args) THEN args[i] ELSE [n |-> 0, text |-> NoText]]
    IN  AsciiBSPrint([buffer |-> TRUE, format |-> TRUE, short |-> TRUE],
                     MAX_DEBUG_MESSAGE_LENGTH, format, Args).text
=============================================================================
