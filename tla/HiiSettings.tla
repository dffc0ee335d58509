---------------------------- MODULE HiiSettings ----------------------------
(***************************************************************************)
(* UefiHiiLibHost: configuration strings, the settings in them validated   *)
(* against the questions of a form set, set to their defaults, and         *)
(* exchanged with the form browser.                                        *)
(*                                                                         *)
(* A string is the sequence of its sections; a section has a header (GUID, *)
(* name and path), is current or an alternative (alt), and holds elements: *)
(* a block of a store's bytes or the value of a name.  Its hexadecimal     *)
(* digits are the numbers they stand for, a value of a block is its bytes  *)
(* in order and as long as its width, blocks lie within the 64 KB of a     *)
(* store, and no name contains another.                                    *)
(*                                                                         *)
(* settings is what a string says of one store: its elements, and for      *)
(* blocks their array and the bytes.  A question has a store and a place   *)
(* in it: the offset of bytes or, in a bit store, of bits, or a name.      *)
(***************************************************************************)
EXTENDS HiiPackages

CONSTANTS
    Current,      \* the alt of a section that is no alternative
    BitVarstore   \* gEdkiiIfrBitVarstoreGuid

----------------------------------------------------------------------------
(* Headers.  A header in text is what its three parts are in text: digits  *)
(* of half bytes, in a name of whole characters.                           *)

NibblesOf(n, count) == [i \in 1..count |-> (n \div 2^(4 * (count - i))) % 16]
InternalHiiLowerConfigString(text) == text     \* the digits' case is not kept

\* Bytes and characters as digits; driver the device path of a handle.
HiiConstructConfigHdr(guid, name, path, alloc) ==
    IF path = Absent \/ ~alloc THEN Absent
    ELSE InternalHiiLowerConfigString(
            [guid |-> FlattenSeq([i \in DOMAIN guid |-> NibblesOf(guid[i], 2)]),
             name |-> FlattenSeq([i \in DOMAIN name |-> NibblesOf(name[i], 4)]),
             path |-> FlattenSeq([i \in DOMAIN path |-> NibblesOf(path[i], 2)])])

\* Back again: the last byte of an odd number of digits is its only digit,
\* the last character what digits are left.
NumberOf(digits) == FoldLeft(LAMBDA n, d : 16 * n + d, 0, digits)
InternalHiiGetBufferFromString(digits, flag) ==
    LET size == IF flag = "NAME" THEN 4 ELSE 2
    IN  [i \in 1..(Len(digits) + size - 1) \div size |->
            NumberOf(SubSeq(digits, size * (i - 1) + 1,
                            Min({size * i, Len(digits)})))]

\* A part is compared when it is given, up to the next part's name.
InternalHiiCompareSubString(first, second, part) == first[part] = second[part]
HiiIsConfigHdrMatch(header, guid, name, alloc) ==
    LET own == HiiConstructConfigHdr(IF guid = Absent THEN <<>> ELSE guid,
                                     IF name = Absent THEN <<>> ELSE name, <<>>, alloc)
    IN  /\ own # Absent
        /\ guid # Absent => InternalHiiCompareSubString(header, own, "guid")
        /\ name # Absent => InternalHiiCompareSubString(header, own, "name")

----------------------------------------------------------------------------
(* Blocks: the ranges of a store that a string has values for.             *)

IsBlock(element) == element.kind = "BLOCK"
HasBlocks(elements) == \E n \in DOMAIN elements : IsBlock(elements[n])
\* Blocks are read from the first on as long as they follow each other.
BlocksOf(elements) ==
    LET first == Min({n \in DOMAIN elements : IsBlock(elements[n])})
        behind == {n \in first..Len(elements) : ~IsBlock(elements[n])}
    IN  SubSeq(elements, first, IF behind = {} THEN Len(elements) ELSE Min(behind) - 1)

EndOfBlock(block) == block.offset + block.width

\* Into its place by offset; of two with one offset the wider stays.
InsertBlock(array, block) ==
    LET same == {n \in DOMAIN array : array[n].offset = block.offset}
        behind == {n \in DOMAIN array : array[n].offset > block.offset}
        place == IF behind = {} THEN Len(array) + 1 ELSE Min(behind)
    IN  IF same = {} THEN InsertAt(array, place, block)
        ELSE [array EXCEPT ![Min(same)].width = Max({@, block.width})]
MergeShrinks(array, block) ==
    IF array # <<>> /\ block.offset <= EndOfBlock(Last(array))
    THEN [array EXCEPT ![Len(array)].width = EndOfBlock(block) - Last(array).offset]
    ELSE Append(array, block)
\* A block that begins in or at the end of the one before becomes part of it.
MergeBlock(array, block) ==
    IF array # <<>> /\ block.offset <= EndOfBlock(Last(array))
    THEN [array EXCEPT ![Len(array)].width =
            Max({@, EndOfBlock(block) - Last(array).offset})]
    ELSE Append(array, block)

\* The bytes of the store, zero where no value is given, a later one last.
GetBlockDataInfo(elements) ==
    LET blocks == BlocksOf(elements)
        array == FoldLeft(InsertBlock, <<>>,
                    [n \in DOMAIN blocks |-> [offset |-> blocks[n].offset,
                                              width |-> blocks[n].width]])
        Latest(a) == Max({0} \union {n \in DOMAIN blocks :
                            a \in blocks[n].offset..EndOfBlock(blocks[n]) - 1})
        limit == Max({EndOfBlock(blocks[n]) : n \in DOMAIN blocks})
    IN  IF \E n \in DOMAIN blocks : ~blocks[n].whole
        THEN [status |-> "INVALID_PARAMETER"]
        ELSE [status |-> "SUCCESS",
              array |-> FoldLeft(MergeBlock, <<>>, array),
              bytes |-> [a \in 0..limit |->
                            IF Latest(a) = 0 THEN 0
                            ELSE blocks[Latest(a)].value[a - blocks[Latest(a)].offset + 1]]]

BlockArrayCheck(array, offset, width) ==
    array = Absent \/ \E n \in DOMAIN array :
        /\ offset >= array[n].offset
        /\ offset + width <= EndOfBlock(array[n])

\* The value behind a name; the names that the string has.
InternalHiiGetValueOfNumber(element) == element.value
Named(elements, name) ==
    {n \in DOMAIN elements : ~IsBlock(elements[n]) /\ elements[n].name = name}
GetValueFromRequest(elements, name) ==
    InternalHiiGetValueOfNumber(elements[Min(Named(elements, name))])

----------------------------------------------------------------------------
(* Values.                                                                 *)

ByteAt(settings, a) == IF a \in DOMAIN settings.bytes THEN settings.bytes[a] ELSE 0
NumberAt(settings, offset, width) ==
    FoldLeft(LAMBDA n, i : n * 2^ByteBits + ByteAt(settings, offset + width - i),
             0, [i \in 1..width |-> i])
\* Where the characters of a string end: with the first of two zero bytes.
StringAt(settings, offset) ==
    Min({n \in 0..Max(DOMAIN settings.bytes) :
            /\ ByteAt(settings, offset + 2 * n) = 0
            /\ ByteAt(settings, offset + 2 * n + 1) = 0})
Signed(n, width) ==
    LET low == LowBytes(n, width)
    IN  IF low < 2^(ByteBits * width - 1) THEN low ELSE low - 2^(ByteBits * width)

----------------------------------------------------------------------------
(* ValidateQuestionFromVfr: opcode after opcode, v is where it is.  store  *)
(* and size are the store found (0 for none), value the last one read, op  *)
(* and scope the one-of question whose options are awaited, bit whether    *)
(* the next question lies in a bit store.                                  *)

Ready0 == [status |-> "RUNNING", store |-> 0, size |-> 0, value |-> 0,
           op |-> "", scope |-> 0, bit |-> FALSE]
Stopped(v, status) == [v EXCEPT !.status = status]

\* The first store with the GUID and name, a name-value store with the GUID.
OnVarstore(v, o, header) ==
    IF v.store = 0 /\ o.body.guid = header.guid /\ o.body.name = header.name
    THEN [v EXCEPT !.store = o.body.id, !.size = o.body.size] ELSE v
OnNameValueStore(v, o, header) ==
    IF v.store = 0 /\ o.body.guid = header.guid
    THEN [v EXCEPT !.store = o.body.id] ELSE v
\* The older form of this opcode is shorter and has no size.
OnEfiVarstore(v, o, header) ==
    IF o.length < 27 THEN v ELSE OnVarstore(v, o, header)
OnForm(v) == IF v.store = 0 THEN Stopped(v, "SUCCESS") ELSE v

\* Where a question's bytes lie, bits being those of a bit question.
RangeOf(v, place, width, bits) ==
    IF v.bit
    THEN [offset |-> place \div ByteBits,
          width |-> ((place % ByteBits) + bits + ByteBits - 1) \div ByteBits]
    ELSE [offset |-> place, width |-> width]

\* What a question asks for: a value, nothing when the string does not have
\* it, or an error when it lies outside of the store.
Asked(v, settings, body, width, bits) ==
    LET range == RangeOf(v, body.place, width, bits)
        all == NumberAt(settings, range.offset, range.width)
    IN  CASE v.store = 0 -> "INVALID"
          [] v.store # 0 /\ body.store # v.store -> "SKIP"
          [] v.store # 0 /\ body.store = v.store /\ settings.named ->
                IF Named(settings.elements, body.place) = {} THEN "SKIP"
                ELSE <<GetValueFromRequest(settings.elements, body.place)>>
          [] OTHER ->
                IF ~BlockArrayCheck(settings.array, range.offset, range.width)
                THEN "SKIP"
                ELSE IF range.offset + range.width > v.size THEN "INVALID"
                ELSE <<IF v.bit
                       THEN (all \div 2^(body.place % ByteBits)) % 2^bits
                       ELSE all>>

\* The outcome with a value, nothing else to do otherwise.
Answered(v, asked, outcome) ==
    CASE asked = "INVALID" -> Stopped(v, "INVALID_PARAMETER")
      [] asked = "SKIP" -> v
      [] OTHER -> outcome

OneOfValue(v, settings, o) ==
    Asked(v, settings, o.body, 2^o.body.size, o.body.bits)
OnOneOf(v, settings, o) ==
    LET asked == OneOfValue(v, settings, o)
    IN  Answered(v, asked, [v EXCEPT !.value = asked[1], !.op = "ONE_OF", !.scope = o.scope])

\* Bits are compared as four bytes that begin with zeros, others as many
\* bytes as the question has, signed unless they are shown unsigned.
NumericValue(v, settings, o) ==
    Asked(v, settings, o.body, 2^o.body.size, o.body.bits)
InRange(v, body, n) ==
    LET width == IF v.bit THEN 4 ELSE 2^body.size
        As(x) == IF body.signed THEN Signed(x, width) ELSE LowBytes(x, width)
    IN  As(n) >= As(body.min) /\ As(n) <= As(body.max)
OnNumeric(v, settings, o) ==
    LET asked == NumericValue(v, settings, o)
    IN  Answered(v, asked, IF InRange(v, o.body, asked[1]) THEN [v EXCEPT !.value = asked[1]]
                           ELSE Stopped(v, "INVALID_PARAMETER"))

OnCheckBox(v, settings, o) ==
    LET asked == Asked(v, settings, o.body, 1, 1)
    IN  Answered(v, asked, IF asked[1] <= 1 THEN [v EXCEPT !.value = asked[1]]
                           ELSE Stopped(v, "INVALID_PARAMETER"))

\* The text of a named string is taken to go on to the end of all elements.
TextLength(elements, n) ==
    FoldLeft(LAMBDA sum, e : sum + e.label + e.digits, elements[n].digits,
             SubSeq(elements, n + 1, Len(elements)))
StringLength(settings, body) ==
    IF settings.named
    THEN TextLength(settings.elements, Min(Named(settings.elements, body.place))) \div 4
    ELSE StringAt(settings, body.place)
OnString(v, settings, o) ==
    LET bytes == Asked([v EXCEPT !.bit = FALSE], settings, o.body, 2 * o.body.maxSize, 0)
    IN  Answered(v, bytes,
                 IF StringLength(settings, o.body) <= o.body.maxSize THEN v
                 ELSE Stopped(v, "INVALID_PARAMETER"))

\* An option with the value answers its question.
OnOption(v, o) ==
    IF v.scope # 0 /\ v.op = "ONE_OF" /\ v.value = o.body.value
    THEN [v EXCEPT !.op = ""] ELSE v
\* The end of a question without an answer is an error.
OnEnd(v) ==
    LET scope == Max({v.scope - 1, 0})
    IN  [v EXCEPT !.bit = FALSE, !.scope = scope,
                  !.status = IF scope = 0 /\ v.op = "ONE_OF"
                             THEN "INVALID_PARAMETER" ELSE @]
OnGuid(v, o) == IF o.body.guid = BitVarstore THEN [v EXCEPT !.bit = TRUE] ELSE v
OnOther(v, o) == IF v.scope > 0 THEN [v EXCEPT !.scope = @ + o.scope] ELSE v

OnOpCode(v, o, header, settings) ==
    CASE v.status # "RUNNING" -> v
      [] v.status = "RUNNING" /\ o.op = "VARSTORE" -> OnVarstore(v, o, header)
      [] v.status = "RUNNING" /\ o.op = "VARSTORE_NAME_VALUE" ->
            OnNameValueStore(v, o, header)
      [] v.status = "RUNNING" /\ o.op = "VARSTORE_EFI" -> OnEfiVarstore(v, o, header)
      [] v.status = "RUNNING" /\ o.op \in {"FORM", "FORM_MAP"} -> OnForm(v)
      [] v.status = "RUNNING" /\ o.op = "ONE_OF" -> OnOneOf(v, settings, o)
      [] v.status = "RUNNING" /\ o.op = "NUMERIC" -> OnNumeric(v, settings, o)
      [] v.status = "RUNNING" /\ o.op = "CHECKBOX" -> OnCheckBox(v, settings, o)
      [] v.status = "RUNNING" /\ o.op = "STRING" -> OnString(v, settings, o)
      [] v.status = "RUNNING" /\ o.op = "ONE_OF_OPTION" -> OnOption(v, o)
      [] v.status = "RUNNING" /\ o.op = "END" -> OnEnd(v)
      [] v.status = "RUNNING" /\ o.op = "GUID" -> OnGuid(v, o)
      [] OTHER -> OnOther(v, o)

\* Only the first package of forms counts.
ValidateQuestionFromVfr(packages, header, settings) ==
    LET forms == SelectSeq(packages, LAMBDA p : p.type = "FORMS")
        v == FoldLeft(LAMBDA w, o : OnOpCode(w, o, header, settings),
                      Ready0, forms[1].opcodes)
    IN  IF forms = <<>> \/ v.status = "RUNNING" THEN "SUCCESS" ELSE v.status

InternalHiiValidateCurrentSetting(packages, header, elements) ==
    LET info == GetBlockDataInfo(elements)
    IN  IF HasBlocks(elements)
        THEN IF info.status # "SUCCESS" THEN info.status
             ELSE ValidateQuestionFromVfr(packages, header,
                    [named |-> FALSE, elements |-> elements,
                     array |-> info.array, bytes |-> info.bytes])
        ELSE IF elements = <<>> THEN "SUCCESS"
        ELSE ValidateQuestionFromVfr(packages, header,
                [named |-> TRUE, elements |-> elements, array |-> Absent,
                 bytes |-> << >>])

----------------------------------------------------------------------------
(* All sections of a string, of every driver.  world is what lies outside: *)
(* the driver of a device path, whether there is memory, and what the      *)
(* drivers accept of the responses routed to them.                         *)

GetElementsFromRequest(section) == section.elements # <<>>
GetAltConfig(sections, header, alt) ==
    {n \in DOMAIN sections : sections[n].header = header /\ sections[n].alt = alt}

\* The first handle of the section's driver.
HandleFor(hii, world, section) ==
    LET device == world.devices[section.header.path]
        own == {n \in DOMAIN hii : hii[n].device = device}
    IN  IF own = {} THEN Absent ELSE hii[Min(own)].handle

\* One section: "SKIPPED" without a handle, a response or elements, the
\* response routed or validated otherwise.
Done(status, routed) == [status |-> status, routed |-> routed]
ActOnResponse(hii, world, handle, response, action) ==
    CASE ~GetElementsFromRequest(response) -> Done("SKIPPED", <<>>)
      [] GetElementsFromRequest(response) /\ action = "SET_DEFAULT" ->
            IF response.header \in world.accepts THEN Done("SUCCESS", <<response>>)
            ELSE Done("ERROR", <<>>)
      [] GetElementsFromRequest(response) /\ action = "VALIDATE" ->
            Done(InternalHiiValidateCurrentSetting(ListOf(hii, handle).packages,
                                                   response.header, response.elements),
                 <<>>)
ActOn(hii, world, sections, section, alt, action) ==
    LET handle == HandleFor(hii, world, section)
        responses == GetAltConfig(sections, section.header, alt)
    IN  CASE ~section.whole -> Done("INVALID_PARAMETER", <<>>)
          [] section.whole /\ (~world.memory \/ section.header.path \notin DOMAIN world.devices
                                 \/ hii = <<>>) -> Done("NOT_FOUND", <<>>)
          [] OTHER -> IF handle = Absent \/ responses = {} THEN Done("SKIPPED", <<>>)
                      ELSE ActOnResponse(hii, world, handle, sections[Min(responses)], action)

\* On to the section behind the last alternative with the same header.
NextSection(sections, k) ==
    1 + Max({k} \union {n \in k + 1..Len(sections) :
                            /\ sections[n].header = sections[k].header
                            /\ sections[n].alt # Current})

\* The section at which the string is now; those before it are passed over.
Progress(sections, progress, k, done) ==
    IF done.status \notin {"SUCCESS", "SKIPPED"} THEN [progress EXCEPT !.ok = FALSE]
    ELSE [progress EXCEPT !.next = NextSection(sections, k), !.routed = @ \o done.routed]
ActFrom(hii, world, sections, alt, action) ==
    FoldLeft(LAMBDA progress, k :
                IF ~progress.ok \/ k < progress.next THEN progress
                ELSE Progress(sections, progress, k,
                          ActOn(hii, world, sections, sections[k], alt, action)),
             [ok |-> TRUE, next |-> 1, routed |-> <<>>], [k \in DOMAIN sections |-> k])

\* sections is Absent when the configuration could not be extracted.
InternalHiiIfrValueAction(hii, world, sections, id, action) ==
    IF sections = Absent THEN [ok |-> FALSE, next |-> 1, routed |-> <<>>]
    ELSE ActFrom(hii, world, sections, IF action = "SET_DEFAULT" THEN id ELSE Current, action)
HiiValidateSettings(hii, world, sections) ==
    InternalHiiIfrValueAction(hii, world, sections, 0, "VALIDATE").ok
HiiSetToDefaults(hii, world, sections, id) ==
    InternalHiiIfrValueAction(hii, world, sections, id, "SET_DEFAULT")

----------------------------------------------------------------------------
(* The form browser, Absent when there is none, holds the settings on the  *)
(* screen as elements; BlockToConfig and ConfigToBlock are the routing     *)
(* protocol's.                                                             *)

BlockToConfig(ranges, block) ==
    IF \E n \in DOMAIN ranges : ranges[n].offset + ranges[n].width > Len(block)
    THEN Absent
    ELSE [n \in DOMAIN ranges |->
            [kind |-> "BLOCK", offset |-> ranges[n].offset, width |-> ranges[n].width,
             whole |-> TRUE,
             value |-> SubSeq(block, ranges[n].offset + 1,
                              ranges[n].offset + ranges[n].width)]]
ConfigToBlock(elements, block) ==
    LET Into(b, e) == [i \in DOMAIN b |->
                        IF i - 1 \in e.offset..e.offset + e.width - 1
                        THEN e.value[i - e.offset] ELSE b[i]]
    IN  IF \E n \in DOMAIN elements :
                elements[n].offset + elements[n].width > Len(block)
        THEN Absent ELSE FoldLeft(Into, block, elements)

InternalHiiBlockToConfig(ranges, block) == BlockToConfig(ranges, block)
InternalHiiBrowserCallback(browser, results, alloc) ==
    CASE browser = Absent -> [results |-> Absent, browser |-> browser]
      [] browser # Absent /\ results # Absent ->
            IF browser.accepts
            THEN [results |-> results, browser |-> [browser EXCEPT !.elements = results]]
            ELSE [results |-> Absent, browser |-> browser]
      [] browser # Absent /\ results = Absent ->
            [results |-> IF alloc THEN browser.elements ELSE Absent,
             browser |-> browser]

HiiGetBrowserData(browser, block, alloc) ==
    LET r == InternalHiiBrowserCallback(browser, Absent, alloc)
        b == ConfigToBlock(r.results, block)
    IN  IF r.results = Absent THEN [ok |-> FALSE, block |-> block]
        ELSE IF b = Absent THEN [ok |-> FALSE, block |-> block]
        ELSE [ok |-> TRUE, block |-> b]
\* Without a request the whole block is sent.
HiiSetBrowserData(browser, block, request, alloc) ==
    LET ranges == IF request = Absent THEN <<[offset |-> 0, width |-> Len(block)]>>
                  ELSE request
        elements == InternalHiiBlockToConfig(ranges, block)
        r == InternalHiiBrowserCallback(browser, elements, alloc)
    IN  IF ~alloc \/ elements = Absent THEN [ok |-> FALSE, browser |-> browser]
        ELSE [ok |-> r.results # Absent, browser |-> r.browser]
=============================================================================
