------------------------------- MODULE MCHii -------------------------------
(***************************************************************************)
(* Calls of the HII library, and what their answers are compared with: a   *)
(* form set written as its forms and items, settings as the questions they *)
(* answer.  MCLibraries makes the calls.                                   *)
(***************************************************************************)
EXTENDS HiiSettings

CONSTANTS FormSet1, FormSet2, Label1, Label2, Language1, Language2

Empty == HiiAllocateOpCodeHandle(<<TRUE, TRUE>>)
BuiltBy(step) == step.buffer
Fill(Step(_, _), steps) == FoldLeft(LAMBDA b, s : BuiltBy(Step(b, s)), Empty, steps)

----------------------------------------------------------------------------
(* Forms.  An item is a label or a text; forms have an ID and items.       *)

Item(b, i) ==
    IF i \in {Label1, Label2} THEN HiiCreateGuidOpCode(b, i, 22)
    ELSE HiiCreateTextOpCode(b, i)
ItemCodes(items) == Fill(Item, items).opcodes
Ending == HeaderOf("END", 2, 0, NoBody)
FormCodes(form) ==
    <<HeaderOf("FORM", 6, 1, [form |-> form.id])>> \o ItemCodes(form.items)
    \o <<Ending>>
PackageOf(set) ==
    [type |-> "FORMS",
     opcodes |-> <<HeaderOf("FORM_SET", 24, 1, [guid |-> set.guid])>>
                 \o FlattenSeq([n \in DOMAIN set.forms |-> FormCodes(set.forms[n])])
                 \o <<Ending>>]
PackageList(handle, guid, device, packages) ==
    [handle |-> handle, guid |-> guid, device |-> device,
     packages |-> Append(packages, mEndOfPakageList), strings |-> <<>>]

ItemLists == {<<>>, <<Label1>>, <<1, Label1, 2>>, <<Label1, 1, Label2>>,
              <<Label2, 1, Label1, 2, Label2, 3, Label2>>, <<Label1, Label1, Label2>>}
FormsOf(id1, id2) == {<<[id |-> id1, items |-> i], [id |-> id2, items |-> j]>> :
                        i \in ItemLists, j \in ItemLists}
FormSets == {<<[guid |-> FormSet1, forms |-> f], [guid |-> FormSet2, forms |-> g]>> :
                f \in FormsOf(1, 2), g \in {<<[id |-> 1, items |-> <<Label1, 4>>]>>}}

Updates == [f : {"Update"}, sets : FormSets, guid : {FormSet1, FormSet2, Absent},
            form : 1..2, added : {<<>>, <<7, 8>>}, end : {Label2, Absent},
            alloc : BOOLEAN, accepts : BOOLEAN, handle : {1, 2}]
Hii(c) == <<PackageList(1, FormSet1, 5, [n \in DOMAIN c.sets |-> PackageOf(c.sets[n])])>>
Update(c) ==
    HiiUpdateForm(Hii(c), c.handle, c.guid, c.form, Fill(Item, <<Label1>> \o c.added),
                  IF c.end = Absent THEN Absent ELSE Fill(Item, <<c.end>>),
                  c.alloc, c.accepts)

\* Reference: the items of the form meant, or Absent when it stays.
NewItems(items, added, end) ==
    LET starts == {n \in DOMAIN items : items[n] = Label1}
        ends == {n \in Min(starts) + 1..Len(items) : items[n] = end}
        cut == IF end = Absent THEN Min(starts) + 1 ELSE Min(ends)
    IN  IF starts = {} THEN Absent
        ELSE IF end # Absent /\ ends = {} THEN Absent
        ELSE SubSeq(items, 1, Min(starts)) \o added \o SubSeq(items, cut, Len(items))
Meant(c, set) == {n \in DOMAIN set.forms : set.forms[n].id = c.form
                                           /\ c.guid \in {Absent, set.guid}}
NewSet(c, set) ==
    LET new == [n \in Meant(c, set) |->
                    NewItems(set.forms[n].items, c.added, c.end)]
    IN  [set EXCEPT !.forms = [n \in DOMAIN @ |->
            IF n \in Meant(c, set) /\ new[n] # Absent
            THEN [@[n] EXCEPT !.items = new[n]] ELSE @[n]]]
\* A label that ends the replaced part comes in the form or not behind it.
EndsInForm(c) ==
    \A s \in DOMAIN c.sets : \A n \in Meant(c, c.sets[s]) :
        \/ c.end = Absent
        \/ ~Contains(c.sets[s].forms[n].items, Label1)
        \/ NewItems(c.sets[s].forms[n].items, c.added, c.end) # Absent
        \/ \A m \in n + 1..Len(c.sets[s].forms) :
                ~Contains(c.sets[s].forms[m].items, c.end)
FormUpdated(c, result) ==
    LET new == [n \in DOMAIN c.sets |-> NewSet(c, c.sets[n])]
        changes == \E s \in DOMAIN c.sets : \E n \in Meant(c, c.sets[s]) :
                     NewItems(c.sets[s].forms[n].items, c.added, c.end) # Absent
        done == c.handle = 1 /\ c.alloc /\ c.accepts /\ changes
    IN  /\ (result.status = "SUCCESS") = done
        /\ result.hii = IF done THEN Hii([c EXCEPT !.sets = new]) ELSE Hii(c)

\* Builders: three in a row, with what they hold.
Two == Fill(LAMBDA b, n : HiiCreateOneOfOptionOpCode(b, n, 0), <<5, 6>>)
One == Fill(LAMBDA b, n : HiiCreateDefaultOpCode(b, n, 3), <<5>>)
Body == [store |-> 1, place |-> 0, size |-> 1, bits |-> 0, signed |-> FALSE,
         min |-> 3, max |-> 20, maxSize |-> 1]
Builders == [op : {"ACTION", "GOTO", "GOTO_EX", "SUBTITLE", "TEXT", "GUID"},
             held : {<<>>}]
            \union [op : {"CHECKBOX", "NUMERIC", "STRING", "DATE", "TIME"},
                    held : {<<>>, One.opcodes}]
            \union [op : {"ONE_OF", "ORDERED_LIST"},
                    held : {Two.opcodes, Two.opcodes \o One.opcodes}]
Builds == [f : {"Build"}, steps : UNION {[1..n -> Builders] : n \in 1..2}]
BuildStep(b, s) ==
    LET defaults == IF s.held = <<>> THEN Absent ELSE One
        also == IF Len(s.held) = 3 THEN One ELSE Absent
    IN  CASE s.op = "ACTION" -> HiiCreateActionOpCode(b, 1)
          [] s.op = "GOTO" -> HiiCreateGotoOpCode(b, 1)
          [] s.op = "GOTO_EX" -> HiiCreateGotoExOpCode(b, 1, TRUE, TRUE, FALSE)
          [] s.op = "SUBTITLE" -> HiiCreateSubTitleOpCode(b, 1, 0)
          [] s.op = "TEXT" -> HiiCreateTextOpCode(b, 1)
          [] s.op = "GUID" -> HiiCreateGuidOpCode(b, Label1, 18)
          [] s.op = "CHECKBOX" -> HiiCreateCheckBoxOpCode(b, Body, defaults)
          [] s.op = "NUMERIC" -> HiiCreateNumericOpCode(b, Body, defaults)
          [] s.op = "STRING" -> HiiCreateStringOpCode(b, Body, defaults)
          [] s.op = "DATE" -> HiiCreateDateOpCode(b, Body, defaults)
          [] s.op = "TIME" -> HiiCreateTimeOpCode(b, Body, defaults)
          [] s.op = "ONE_OF" -> HiiCreateOneOfOpCode(b, Body, Two, also)
          [] s.op = "ORDERED_LIST" -> HiiCreateOrderedListOpCode(b, Body, Two, also)
Build(c) == Fill(BuildStep, c.steps)

\* Reference: each step is its opcode, what it holds, and an end if it does.
OpName(step) == IF step.op \in {"GOTO", "GOTO_EX"} THEN "REF" ELSE step.op
OpcodesOf(step, o) ==
    IF step.held = <<>> THEN <<[o EXCEPT !.op = OpName(step), !.scope = 0]>>
    ELSE <<[o EXCEPT !.op = OpName(step), !.scope = 1]>> \o step.held \o <<Ending>>
OwnOpcode(first) == first.buffer.opcodes[first.at]
Opcodes(step) == OpcodesOf(step, OwnOpcode(BuildStep(Empty, step)))
BuiltWhole(c, result) ==
    /\ result.opcodes = FlattenSeq([n \in DOMAIN c.steps |-> Opcodes(c.steps[n])])
    /\ InternalHiiOpCodeHandlePosition(result) <= result.size
    /\ \A o \in Range(result.opcodes) : o.length \in 2..MaxOpCodeSize

----------------------------------------------------------------------------
(* Settings.  A question is its kind, its place and what it accepts, in    *)
(* the store 1 of four bytes; blocks are ranges and the bytes in them.     *)

StoreSize == 4
Header1 == [guid |-> FormSet1, name |-> 1, path |-> 1]
AskFor(kind, bit, place, size, bits, signed, min, max, options) ==
    [kind |-> kind, bit |-> bit, place |-> place, size |-> size, bits |-> bits,
     signed |-> signed, min |-> min, max |-> max, options |-> options,
     store |-> 1, maxSize |-> 1]
BlockQuestions ==
    {AskFor("NUMERIC", FALSE, 1, 0, 0, FALSE, 1, 2, {}),
     AskFor("NUMERIC", FALSE, 0, 0, 0, TRUE, 3, 1, {}),        \* -1 to 1
     AskFor("NUMERIC", FALSE, 1, 1, 0, FALSE, 2, 9, {}),
     AskFor("NUMERIC", FALSE, 3, 1, 0, FALSE, 0, 15, {}),      \* past the store
     AskFor("NUMERIC", TRUE, 1, 2, 2, FALSE, 1, 2, {}),
     AskFor("ONE_OF", FALSE, 2, 0, 0, FALSE, 0, 0, {1, 3}),
     AskFor("ONE_OF", TRUE, 3, 2, 2, FALSE, 0, 0, {0, 2}),
     AskFor("CHECKBOX", FALSE, 0, 0, 0, FALSE, 0, 1, {}),
     AskFor("CHECKBOX", TRUE, 2, 0, 1, FALSE, 0, 1, {}),
     AskFor("STRING", FALSE, 0, 0, 0, FALSE, 0, 0, {})}
NamedQuestions ==
    {AskFor("NUMERIC", FALSE, "n", 0, 0, FALSE, 1, 2, {}),
     AskFor("ONE_OF", FALSE, "o", 0, 0, FALSE, 0, 0, {1, 3}),
     AskFor("CHECKBOX", FALSE, "c", 0, 0, FALSE, 0, 1, {}),
     AskFor("STRING", FALSE, "s", 0, 0, FALSE, 0, 0, {})}

Condition == HeaderOf("SUPPRESS_IF", 2, 1, NoBody)
QuestionIn(b, q) ==
    LET \* the first option in the scope of a condition
        options == Fill(LAMBDA o, n : CASE n = -2 -> HiiCreateRawOpCodes(o, <<Condition>>)
                                        [] n = -1 -> HiiCreateEndOpCode(o)
                                        [] n >= 0 -> HiiCreateOneOfOptionOpCode(o, n, 0),
                        <<-2, Min(q.options), -1, Max(q.options)>>)
    IN  CASE q.kind = "NUMERIC" -> HiiCreateNumericOpCode(b, q, One)
          [] q.kind = "ONE_OF" -> HiiCreateOneOfOpCode(b, q, options, One)
          [] q.kind = "CHECKBOX" -> HiiCreateCheckBoxOpCode(b, q, Absent)
          [] q.kind = "STRING" -> HiiCreateStringOpCode(b, q, Absent)
\* A bit question lies in the scope of the opcode that says so.
AskIn(b, q) ==
    IF q.bit
    THEN LET opened == InternalHiiCreateOpCodeExtended(
                            b, [guid |-> BitVarstore], "GUID", 18, 0, 1)
         IN  HiiCreateEndOpCode(QuestionIn(opened.buffer, q).buffer)
    ELSE QuestionIn(b, q)

Varstore(kind, id, guid) ==
    HeaderOf(kind, 30, 0, [guid |-> guid, name |-> 1, id |-> id, size |-> StoreSize])
FormOf(stores, questions) ==
    [type |-> "FORMS",
     opcodes |-> <<HeaderOf("FORM_SET", 24, 1, [guid |-> FormSet1])>> \o stores
                 \o <<HeaderOf("FORM", 6, 1, [form |-> 1])>>
                 \o Fill(AskIn, questions).opcodes \o <<Ending, Ending>>]

Bytes4 == {<<0, 1, 2, 3>>, <<3, 2, 1, 0>>, <<1, 0, 3, 1>>, <<2, 3, 0, 0>>}
BlockFrom(bytes, offset, width) ==
    [kind |-> "BLOCK", offset |-> offset, width |-> width, whole |-> TRUE,
     value |-> [i \in 1..width |-> bytes[((offset + i - 1) % 4) + 1]]]
Ranges == {<<0, 1>>, <<0, 2>>, <<0, 4>>, <<1, 1>>, <<1, 2>>, <<2, 1>>, <<2, 3>>, <<3, 1>>}
Torn == [kind |-> "BLOCK", offset |-> 0, width |-> 1, whole |-> FALSE, value |-> <<0>>]
Blocks(bytes, ranges) ==
    [n \in DOMAIN ranges |-> BlockFrom(bytes, ranges[n][1], ranges[n][2])]
NamedElement(name, value, digits) ==
    [kind |-> "NAMED", name |-> name, value |-> value, label |-> 3, digits |-> digits]

Validations ==
    [f : {"Blocks"}, questions : {<<q>> : q \in BlockQuestions}, bytes : Bytes4,
     ranges : UNION {[1..n -> Ranges] : n \in 1..2}, torn : {FALSE},
     store : {"VARSTORE"}, guid : {FormSet1}]
    \union
    [f : {"Blocks"}, questions : {<<q, r>> : q \in BlockQuestions, r \in BlockQuestions},
     bytes : Bytes4, ranges : {<< <<0, 4>> >>}, torn : BOOLEAN,
     store : {"VARSTORE", "VARSTORE_EFI"}, guid : {FormSet1, FormSet2}]
    \union
    [f : {"Blocks"}, questions : {<<>>}, bytes : {<<3, 2, 1, 0>>},
     ranges : [1..3 -> Ranges], torn : {FALSE}, store : {"VARSTORE"}, guid : {FormSet1}]
    \union
    [f : {"Names"}, questions : {<<q, r>> : q \in NamedQuestions, r \in NamedQuestions},
     n : {0, 1, 5}, o : {Absent, 2, 3}, c : {Absent, 1, 2}, s : {4, 8}, ahead : BOOLEAN]

ElementsOf(c) ==
    CASE c.f = "Blocks" ->
            Blocks(c.bytes, c.ranges) \o (IF c.torn THEN <<Torn>> ELSE <<>>)
      [] c.f = "Names" ->
            (IF c.ahead THEN <<NamedElement("s", 0, c.s)>> ELSE <<>>)
            \o <<NamedElement("n", c.n, 2)>>
            \o (IF c.o = Absent THEN <<>> ELSE <<NamedElement("o", c.o, 2)>>)
            \o (IF c.c = Absent THEN <<>> ELSE <<NamedElement("c", c.c, 2)>>)
            \o (IF c.ahead THEN <<>> ELSE <<NamedElement("s", 0, c.s)>>)
FormFor(c) ==
    FormOf(IF c.f = "Names" THEN <<Varstore("VARSTORE_NAME_VALUE", 1, FormSet1)>>
           ELSE <<Varstore("VARSTORE", 2, FormSet2), Varstore(c.store, 1, c.guid)>>,
           c.questions)
Validate(c) ==
    [status |-> InternalHiiValidateCurrentSetting(<<FormFor(c)>>, Header1, ElementsOf(c)),
     array |-> IF c.f = "Names" THEN <<>>
               ELSE IF c.torn THEN <<>> ELSE GetBlockDataInfo(ElementsOf(c)).array]

\* Reference: the bytes that the blocks give, and the bytes of a question.
CoveredBy(c) == UNION {r[1]..r[1] + r[2] - 1 : r \in Range(c.ranges)}
BytesOf(q) ==
    IF q.bit THEN q.place \div ByteBits..(q.place + q.bits - 1) \div ByteBits
    ELSE q.place..q.place + (CASE q.kind = "CHECKBOX" -> 1
                               [] q.kind = "STRING" -> 2
                               [] OTHER -> 2^q.size) - 1
SumOf(bytes, q) ==
    LET At(a) == bytes[(a % 4) + 1]
        low == Min(BytesOf(q))
        all == FoldSet(LAMBDA a, n : n + At(a) * 2^(ByteBits * (a - low)), 0, BytesOf(q))
    IN  IF q.bit THEN (all \div 2^(q.place % ByteBits)) % 2^q.bits ELSE all
AcceptsValue(q, n) ==
    CASE q.kind = "NUMERIC" /\ q.signed -> (n + 1) % 4 \in 0..2
      [] q.kind = "NUMERIC" /\ ~q.signed -> n \in q.min..q.max
      [] q.kind = "ONE_OF" -> n \in q.options
      [] q.kind = "CHECKBOX" -> n \in 0..1
\* A string of one character: the next is not one, or lies behind the blocks.
AcceptsText(c) == \/ 2 \notin CoveredBy(c) /\ 3 \notin CoveredBy(c)
                  \/ c.bytes[1] = 0 /\ c.bytes[2] = 0
                  \/ /\ 2 \in CoveredBy(c) => c.bytes[3] = 0
                     /\ 3 \in CoveredBy(c) => c.bytes[4] = 0
AcceptedBlock(c, q) ==
    BytesOf(q) \subseteq CoveredBy(c) =>
        /\ BytesOf(q) \subseteq 0..StoreSize - 1
        /\ IF q.kind = "STRING" THEN AcceptsText(c) ELSE AcceptsValue(q, SumOf(c.bytes, q))
AcceptedName(c, q) ==
    CASE q.kind = "NUMERIC" -> LowBytes(c.n, 1) \in q.min..q.max
      [] q.kind = "ONE_OF" -> c.o # Absent => c.o \in q.options
      [] q.kind = "CHECKBOX" -> c.c # Absent => c.c \in 0..1
      [] q.kind = "STRING" -> c.s <= 4

NamesValidated(c, result) ==
    result.status = "SUCCESS" <=>
        \A n \in DOMAIN c.questions : AcceptedName(c, c.questions[n])
AsksForText(c) == \E n \in DOMAIN c.questions : c.questions[n].kind = "STRING"

\* Without the store before the first form nothing is there to validate.  A
\* string that other elements follow is left to StringsMeasured.
SettingValidated(c, result) ==
    CASE c.f = "Names" -> (AsksForText(c) /\ c.ahead) \/ NamesValidated(c, result)
      [] c.f = "Blocks" /\ c.torn -> result.status = "INVALID_PARAMETER"
      [] c.f = "Blocks" /\ ~c.torn ->
            LET array == result.array
            IN  /\ result.status = "SUCCESS" <=>
                     \/ c.guid # FormSet1
                     \/ \A n \in DOMAIN c.questions : AcceptedBlock(c, c.questions[n])
                /\ UNION {array[n].offset..EndOfBlock(array[n]) - 1 : n \in DOMAIN array}
                    = CoveredBy(c)
                /\ \A n \in 1..Len(array) - 1 : EndOfBlock(array[n]) < array[n + 1].offset

----------------------------------------------------------------------------
(* Sections: a string with up to three headers, each with its alternatives *)
(* behind it, of drivers with and without a HII handle.                    *)

HeaderNo(n) == [guid |-> FormSet1, name |-> n, path |-> n]
SectionOf(n, alt, elements) ==
    [header |-> HeaderNo(n), alt |-> alt, elements |-> elements, whole |-> TRUE]
Good == Blocks(<<1, 0, 0, 0>>, << <<0, 1>> >>)
Wrong == Blocks(<<3, 0, 0, 0>>, << <<0, 1>> >>)
SectionSets == {{}, {"current"}, {"current", "alt"}, {"wrong", "alt"}, {"empty", "alt"}}
SectionsFor(n, kinds) ==
    (IF "current" \in kinds THEN <<SectionOf(n, Current, Good)>> ELSE <<>>)
    \o (IF "wrong" \in kinds THEN <<SectionOf(n, Current, Wrong)>> ELSE <<>>)
    \o (IF "empty" \in kinds THEN <<SectionOf(n, Current, <<>>)>> ELSE <<>>)
    \o (IF "alt" \in kinds THEN <<SectionOf(n, 0, Good), SectionOf(n, 1, Wrong)>> ELSE <<>>)
Actions == [f : {"Act"}, kinds : [1..3 -> SectionSets], action : {"SET_DEFAULT", "VALIDATE"},
            id : 0..2, accepts : SUBSET (1..3) \ {{1}, {3}}, unknown : {0, 3}, memory : BOOLEAN]
WorldOf(c) == [devices |-> [p \in 1..3 \ {c.unknown} |-> p], memory |-> c.memory,
               accepts |-> {HeaderNo(n) : n \in c.accepts}]
StringOf(c) == SectionsFor(1, c.kinds[1]) \o SectionsFor(2, c.kinds[2])
               \o SectionsFor(3, c.kinds[3])
\* Driver 2 has no handle; the question accepts 0 and 1.
HandlesFor(c) ==
    [n \in 1..2 |->
        LET d == 2 * n - 1
        IN  PackageList(d, FormSet1, d,
              <<FormOf(<<HeaderOf("VARSTORE", 30, 0,
                                  [guid |-> FormSet1, name |-> d, id |-> 1,
                                   size |-> StoreSize])>>,
                       <<AskFor("CHECKBOX", FALSE, 0, 0, 0, FALSE, 0, 1, {})>>)>>)]
ActIn(c, hii, world, sections) ==
    IF c.action = "VALIDATE"
    THEN [ok |-> HiiValidateSettings(hii, world, sections), routed |-> <<>>]
    ELSE HiiSetToDefaults(hii, world, sections, c.id)
Act(c) == ActIn(c, HandlesFor(c), WorldOf(c), StringOf(c))

\* Reference: what becomes of the header n.
Outcome(c, n) ==
    LET k == c.kinds[n]
        device == n # c.unknown /\ c.memory
    IN  CASE k = {} -> "NOTHING"
          [] k # {} /\ ~device -> "FAILS"
          [] k # {} /\ device /\ n = 2 -> "NOTHING"
          [] OTHER ->
                IF c.action = "VALIDATE"
                THEN IF "wrong" \in k THEN "FAILS" ELSE "NOTHING"
                ELSE IF "alt" \notin k \/ c.id = 2 THEN "NOTHING"
                ELSE IF n \in c.accepts THEN "ROUTED" ELSE "FAILS"
ActedOnAll(c, result) ==
    LET fails == {n \in 1..3 : Outcome(c, n) = "FAILS"}
        routed == SelectSeq(<<1, 2, 3>>, LAMBDA n :
                    Outcome(c, n) = "ROUTED" /\ \A m \in fails : n < m)
    IN  /\ result.ok = (fails = {})
        /\ result.routed = [i \in DOMAIN routed |->
                SectionOf(routed[i], c.id, IF c.id = 0 THEN Good ELSE Wrong)]

----------------------------------------------------------------------------
(* Package lists, strings, headers and the browser.                        *)

GuidLists == UNION {[1..n -> {FormSet1, FormSet2}] : n \in 0..3}
FormSetsIn == {<<>>, <<FormSet1>>, <<FormSet1, FormSet2>>}
PackagesIn(sets) ==
    [n \in DOMAIN sets |->
        PackageOf([guid |-> sets[n], forms |-> <<[id |-> 1, items |-> <<>>]>>])]
Languages == <<Language1, ConfigLanguage, Language2>>
Served(c) ==
    [n \in DOMAIN c.guids |->
        [PackageList(n, c.guids[n], n, <<>>) EXCEPT !.strings =
            [m \in 1..c.known |-> [language |-> Languages[m], texts |-> <<"old">>]]]]
PackageCalls ==
    [f : {"Handles"}, guids : GuidLists, guid : {FormSet1, Absent}, alloc : BOOLEAN,
     known : {0}, adds : BOOLEAN, room : BOOLEAN]
    \union
    [f : {"FormSet"}, sets : FormSetsIn, alloc : [1..3 -> BOOLEAN]]
    \union
    [f : {"String"}, guids : {<<FormSet2, FormSet1>>}, known : 0..3, id : 0..2,
     languages : {Absent, <<Language1>>, <<Language2, Language1>>},
     refuses : {{}, {Language1}, {Language2}}, alloc : BOOLEAN,
     read : {Absent, Language1, Language2}, platform : {Absent, Language2},
     best : BOOLEAN]
    \union
    [f : {"Header"}, guid : {<<1, 171>>, <<255, 0>>}, name : {<<>>, <<65, 353>>},
     path : {<<>>, <<127, 255, 4, 0>>, Absent}, other : {Absent, <<1, 171>>},
     otherName : {Absent, <<65, 353>>, <<65>>}, alloc : BOOLEAN]
    \union
    [f : {"Browser"}, block : Bytes4, accepts : BOOLEAN, there : BOOLEAN,
     alloc : BOOLEAN,
     request : {Absent, <<[offset |-> 1, width |-> 2]>>,
                <<[offset |-> 3, width |-> 1], [offset |-> 0, width |-> 2]>>,
                <<[offset |-> 3, width |-> 2]>>}]

OnPackage(c) ==
    CASE c.f = "Handles" ->
            LET hii == IF c.adds
                       THEN HiiAddPackages(Served(c), FormSet1, 9,
                                PackagesIn(<<FormSet1>>), 9, c.alloc, c.room).hii
                       ELSE HiiRemovePackages(Served(c), 1)
            IN  HiiGetHiiHandles(hii, c.guid, c.alloc)
      [] c.f = "FormSet" ->
            HiiGetFormSetFromHiiHandle(
                <<PackageList(1, FormSet1, 1, PackagesIn(c.sets))>>, 1, c.alloc)
      [] c.f = "String" ->
            LET r == HiiSetString(Served(c), 2, c.id, "new", c.languages, c.refuses,
                                  c.alloc)
                id == IF r.id = 0 THEN 1 ELSE r.id
            IN  [id |-> r.id, hii |-> r.hii,
                 read |-> IF c.best
                          THEN HiiGetPackageString(r.hii, FormSet1, id, c.read,
                                    c.platform, <<TRUE, TRUE, TRUE>>)
                          ELSE IF c.read = Absent THEN Absent
                          ELSE HiiGetStringEx(r.hii, 2, id, c.read, FALSE,
                                    c.platform, <<TRUE, TRUE>>)]
      [] c.f = "Header" ->
            LET header == HiiConstructConfigHdr(c.guid, c.name, c.path, c.alloc)
            IN  IF header = Absent THEN Absent
                ELSE [guid |-> InternalHiiGetBufferFromString(header.guid, "GUID"),
                      name |-> InternalHiiGetBufferFromString(header.name, "NAME"),
                      path |-> InternalHiiGetBufferFromString(header.path, "PATH"),
                      match |-> HiiIsConfigHdrMatch(header, c.other, c.otherName, TRUE)]
      [] c.f = "Browser" ->
            LET browser == IF c.there THEN [accepts |-> c.accepts, elements |-> <<>>]
                           ELSE Absent
                set == HiiSetBrowserData(browser, c.block, c.request, c.alloc)
            IN  [set |-> set.ok,
                 got |-> HiiGetBrowserData(set.browser, <<9, 9, 9, 9>>, TRUE)]

\* The languages set, in order, until one fails.
SetUntil(c) ==
    LET wanted == IF c.languages # Absent THEN c.languages
                  ELSE SelectSeq(SubSeq(Languages, 1, c.known),
                                 LAMBDA l : l # ConfigLanguage)
        known == {Languages[n] : n \in 1..c.known}
        fails == {n \in DOMAIN wanted :
                    \/ wanted[n] \in c.refuses
                    \/ c.id # 0 /\ (wanted[n] \notin known \/ c.id # 1)
                    \* a new language is only added by the string's first
                    \/ c.id = 0 /\ n > 1 /\ wanted[n] \notin known}
    IN  [wanted |-> wanted, ok |-> c.alloc /\ wanted # <<>> /\ fails = {},
         set |-> IF ~c.alloc THEN <<>>
                 ELSE SubSeq(wanted, 1, IF fails = {} THEN Len(wanted)
                                        ELSE Min(fails) - 1)]

PackageServed(c, result) ==
    CASE c.f = "Handles" ->
            LET kept == IF c.adds THEN DOMAIN c.guids ELSE DOMAIN c.guids \ {1}
                mine == SetToSortSeq({n \in kept : c.guid \in {Absent, c.guids[n]}}, <)
                        \o IF c.adds /\ c.alloc /\ c.room THEN <<9>> ELSE <<>>
            IN  result = IF mine = <<>> \/ ~c.alloc THEN Absent ELSE mine
      [] c.f = "FormSet" ->
            LET given == [n \in DOMAIN result.sets |-> result.sets[n].body.guid]
            IN  /\ given = SubSeq(c.sets, 1, Len(given))
                /\ (result.status = "SUCCESS") =
                      (c.sets # <<>> /\ \A n \in 1..Len(c.sets) + 1 : c.alloc[n])
                /\ result.status = "SUCCESS" => given = c.sets
      [] c.f = "String" ->
            LET s == SetUntil(c)
                id == IF c.id = 0 THEN IF c.known = 0 THEN 1 ELSE 2 ELSE c.id
            IN  /\ (result.id # 0) = s.ok
                /\ result.id # 0 => result.id = id
                /\ \A l \in Range(s.set) : GetString(result.hii, 2, id, l) = "new"
                /\ \A l \in {Languages[n] : n \in 1..c.known} :
                     id = 1 /\ l \notin Range(s.set) =>
                            GetString(result.hii, 2, 1, l) = "old"
                /\ result.hii[1] = Served(c)[1]
                /\ result.id # 0 /\ c.read \in Range(s.set) => result.read = "new"
                /\ result.id # 0 /\ c.read = Absent /\ c.best
                    /\ c.platform \in Range(s.set) => result.read = "new"
      [] c.f = "Header" ->
            IF c.path = Absent \/ ~c.alloc THEN result = Absent
            ELSE /\ result.guid = c.guid /\ result.name = c.name /\ result.path = c.path
                 /\ result.match = (c.other \in {Absent, c.guid}
                                    /\ c.otherName \in {Absent, c.name})
      [] c.f = "Browser" ->
            LET fits == c.request = Absent
                        \/ \A n \in DOMAIN c.request :
                              c.request[n].offset + c.request[n].width <= 4
                sent == IF c.request = Absent THEN 0..3
                        ELSE UNION {r.offset..r.offset + r.width - 1 : r \in Range(c.request)}
            IN  /\ result.set = (c.there /\ c.accepts /\ c.alloc /\ fits)
                /\ result.got.ok = c.there
                /\ result.got.block = [i \in 1..4 |-> IF result.set /\ i - 1 \in sent
                                                      THEN c.block[i] ELSE 9]
=============================================================================
