---------------------------- MODULE HiiPackages ----------------------------
(***************************************************************************)
(* UefiHiiLibHost: the packages of a HII handle, their form sets, their    *)
(* strings and languages.  The HII database and string protocols belong to *)
(* a driver outside the repository: hii is what it holds, the sequence of  *)
(* its package lists, each with its handle, GUID, driver, packages, and    *)
(* strings (per language, in order, the texts by string ID).  alloc tells, *)
(* of the allocations of a call in order, which succeed; buffers that are  *)
(* freed before the call returns are left out.                             *)
(***************************************************************************)
EXTENDS Integers, Sequences, FiniteSetsExt, SequencesExt, Functions

CONSTANTS
    Absent,         \* a NULL pointer or handle
    ConfigLanguage, \* UEFI_CONFIG_LANG, "x-UEFI" and whatever begins with it
    AllocationSize, \* HII_LIB_OPCODE_ALLOCATION_SIZE
    ByteBits        \* the bits of a byte of a question's value, scaled down

mEndOfPakageList == [type |-> "END", opcodes |-> <<>>]

----------------------------------------------------------------------------
(* The protocols of the HII database.                                      *)

PlaceOf(hii, handle) == {n \in DOMAIN hii : hii[n].handle = handle}
Has(hii, handle) == PlaceOf(hii, handle) # {}
ListOf(hii, handle) == hii[CHOOSE n \in PlaceOf(hii, handle) : TRUE]
ListPackageLists(hii) == [n \in DOMAIN hii |-> hii[n].handle]
NewPackageList(hii, list, room) ==
    IF room THEN [hii |-> Append(hii, list), handle |-> list.handle]
    ELSE [hii |-> hii, handle |-> Absent]
RemovePackageList(hii, handle) == SelectSeq(hii, LAMBDA l : l.handle # handle)
WithList(hii, list) ==
    [n \in DOMAIN hii |-> IF hii[n].handle = list.handle THEN list ELSE hii[n]]

\* A new string gets one ID in every language of the list, and is empty in
\* the others until it is set; refuses is the languages out of resources.
NewString(hii, handle, language, text, refuses) ==
    LET list == ListOf(hii, handle)
        known == \E n \in DOMAIN list.strings : list.strings[n].language = language
        id == 1 + Max({0} \union {Len(s.texts) : s \in Range(list.strings)})
        strings == IF known THEN list.strings
                   ELSE Append(list.strings, [language |-> language,
                                              texts |-> [i \in 1..id - 1 |-> ""]])
        Add(s) == [s EXCEPT !.texts =
                      Append(@, IF s.language = language THEN text ELSE "")]
    IN  IF ~Has(hii, handle) \/ language \in refuses
        THEN [hii |-> hii, id |-> 0, status |-> "ERROR"]
        ELSE [hii |-> WithList(hii, [list EXCEPT !.strings =
                        [n \in DOMAIN strings |-> Add(strings[n])]]),
              id |-> id, status |-> "SUCCESS"]
TextsIn(list, language) ==
    {n \in DOMAIN list.strings : list.strings[n].language = language}
SetString(hii, handle, id, language, text, refuses) ==
    LET list == ListOf(hii, handle)
        n == CHOOSE m \in TextsIn(list, language) : TRUE
    IN  IF \/ ~Has(hii, handle) \/ language \in refuses
           \/ TextsIn(list, language) = {} \/ id \notin DOMAIN list.strings[n].texts
        THEN [hii |-> hii, id |-> id, status |-> "ERROR"]
        ELSE [hii |-> WithList(hii, [list EXCEPT !.strings[n].texts[id] = text]),
              id |-> id, status |-> "SUCCESS"]
GetString(hii, handle, id, language) ==
    LET list == ListOf(hii, handle)
        n == CHOOSE m \in TextsIn(list, language) : TRUE
    IN  IF \/ ~Has(hii, handle) \/ TextsIn(list, language) = {}
           \/ id \notin DOMAIN list.strings[n].texts
        THEN Absent ELSE list.strings[n].texts[id]
GetLanguages(hii, handle) ==
    IF ~Has(hii, handle) THEN Absent
    ELSE [n \in DOMAIN ListOf(hii, handle).strings |->
            ListOf(hii, handle).strings[n].language]
\* The first language wanted that there is; what it begins with is not tried.
GetBestLanguage(supported, wanted) ==
    LET served == {n \in DOMAIN wanted : Contains(supported, wanted[n])}
    IN  IF served = {} THEN Absent ELSE wanted[Min(served)]

----------------------------------------------------------------------------
(* HiiLib.c: packages.                                                     *)

InternalHiiExtractGuidFromHiiHandle(hii, handle, alloc) ==
    IF Has(hii, handle) /\ alloc THEN ListOf(hii, handle).guid ELSE Absent

\* Packages without any content make no list; fresh is the handle the
\* database would give out.
HiiAddPackages(hii, guid, device, packages, fresh, alloc, room) ==
    IF packages = <<>> \/ ~alloc THEN [hii |-> hii, handle |-> Absent]
    ELSE NewPackageList(hii,
            [handle |-> fresh, guid |-> guid, device |-> device,
             packages |-> Append(packages, mEndOfPakageList),
             strings |-> <<>>], room)

HiiRemovePackages(hii, handle) == RemovePackageList(hii, handle)

\* The handles of a GUID move to the front of the buffer they are read from,
\* which then ends behind them.
HiiGetHiiHandles(hii, guid, alloc) ==
    LET all == ListPackageLists(hii)
        Keep(kept, handle) ==
            IF InternalHiiExtractGuidFromHiiHandle(hii, handle, TRUE) = guid
            THEN Append(kept, handle) ELSE kept
        matching == FoldLeft(Keep, <<>>, all)
    IN  CASE all = <<>> \/ ~alloc -> Absent
          [] all # <<>> /\ alloc /\ guid = Absent -> all
          [] all # <<>> /\ alloc /\ guid # Absent ->
                IF matching = <<>> THEN Absent ELSE matching

\* The first form set of every forms package; one for which memory lacks
\* ends the search, and those before it are handed out with the error.
FormSetOf(package) ==
    LET sets == SelectSeq(package.opcodes, LAMBDA o : o.op = "FORM_SET")
    IN  IF package.type # "FORMS" THEN <<>> ELSE SubSeq(sets, 1, 1)
HiiGetFormSetFromHiiHandle(hii, handle, alloc) ==
    LET sets == FlattenSeq([n \in DOMAIN ListOf(hii, handle).packages |->
                                FormSetOf(ListOf(hii, handle).packages[n])])
        short == {n \in DOMAIN sets : ~alloc[n + 1]}
    IN  CASE ~Has(hii, handle) -> [status |-> "NOT_FOUND", sets |-> <<>>]
          [] Has(hii, handle) /\ ~alloc[1] ->
                [status |-> "OUT_OF_RESOURCES", sets |-> <<>>]
          [] Has(hii, handle) /\ alloc[1] ->
                IF short # {}
                THEN [status |-> "OUT_OF_RESOURCES",
                      sets |-> SubSeq(sets, 1, Min(short) - 1)]
                ELSE [status |-> IF sets = <<>> THEN "NOT_FOUND" ELSE "SUCCESS",
                      sets |-> sets]

----------------------------------------------------------------------------
(* HiiLanguage.c and HiiString.c.                                          *)

HiiGetSupportedLanguages(hii, handle, alloc) ==
    IF alloc THEN GetLanguages(hii, handle) ELSE Absent

\* One language after the other, until one fails: the first gives a new
\* string its ID, the others get the same.
SetIn(done, handle, text, language, refuses) ==
    IF done.id = 0 THEN NewString(done.hii, handle, language, text, refuses)
    ELSE SetString(done.hii, handle, done.id, language, text, refuses)

HiiSetString(hii, handle, id, text, languages, refuses, alloc) ==
    LET chosen == IF languages = Absent
                  THEN HiiGetSupportedLanguages(hii, handle, alloc)
                  ELSE IF alloc THEN languages ELSE Absent
        Step(done, language) ==
            IF \/ done.stopped
               \/ languages = Absent /\ language = ConfigLanguage
            THEN done
            ELSE LET r == SetIn(done, handle, text, language, refuses)
                 IN  [hii |-> r.hii, status |-> r.status,
                      id |-> IF r.status = "SUCCESS" THEN r.id ELSE done.id,
                      stopped |-> r.status # "SUCCESS"]
        done == FoldLeft(Step, [hii |-> hii, status |-> "INVALID_PARAMETER",
                                id |-> id, stopped |-> FALSE], chosen)
    IN  IF chosen = Absent THEN [hii |-> hii, id |-> 0]
        ELSE [hii |-> done.hii, id |-> IF done.status = "SUCCESS" THEN done.id ELSE 0]

\* platform is the variable PlatformLang, Absent when there is none.
HiiGetStringEx(hii, handle, id, language, best, platform, alloc) ==
    LET supported == HiiGetSupportedLanguages(hii, handle, alloc[1])
        wanted == SelectSeq(<<language, platform>>, LAMBDA l : l # Absent)
        chosen == IF best THEN GetBestLanguage(supported, wanted \o supported)
                  ELSE language
    IN  IF supported = Absent THEN Absent
        ELSE IF chosen = Absent \/ ~alloc[2] THEN Absent
        ELSE GetString(hii, handle, id, chosen)
HiiGetString(hii, handle, id, language, platform, alloc) ==
    HiiGetStringEx(hii, handle, id, language, TRUE, platform, alloc)
HiiGetPackageString(hii, guid, id, language, platform, alloc) ==
    LET handles == HiiGetHiiHandles(hii, guid, alloc[1])
    IN  IF handles = Absent THEN Absent
        ELSE HiiGetString(hii, handles[1], id, language, platform, Tail(alloc))

-----------------------------------------------------------------------------
(***************************************************************************)
(* The opcodes of forms, built in a growing buffer, and the update of a    *)
(* form in the HII database.  An opcode has an op, a length, a scope (1    *)
(* opens one, which an END closes) and a body, of which only what          *)
(* validation reads is kept: a question's store, place and limits, an      *)
(* option's value.  Prompts, help, IDs and flags are its tag.  A builder   *)
(* returns the buffer and the place of the opcode in it.                   *)
(***************************************************************************)
MaxOpCodeSize == 127        \* what the length field of a header can hold
HeaderOf(op, length, scope, body) ==
    [op |-> op, length |-> length, scope |-> scope, body |-> body]
LengthOf(opcodes) == FoldLeft(LAMBDA n, o : n + o.length, 0, opcodes)

\* The bytes of a value by its type, EFI_IFR_TYPE_NUM_SIZE_8 to _STRING.
mHiiDefaultTypeToWidth == <<1, 2, 4, 8, 1, 3, 4, 2>>

----------------------------------------------------------------------------
(* The buffer: what it can hold and the opcodes in it.                     *)

HiiAllocateOpCodeHandle(alloc) ==
    IF alloc[1] /\ alloc[2] THEN [size |-> AllocationSize, opcodes |-> <<>>]
    ELSE Absent
InternalHiiOpCodeHandlePosition(buffer) == LengthOf(buffer.opcodes)
InternalHiiOpCodeHandleBuffer(buffer) == buffer.opcodes

InternalHiiGrowOpCodeHandle(buffer, opcodes) ==
    LET size == LengthOf(opcodes)
    IN  [size |-> IF InternalHiiOpCodeHandlePosition(buffer) + size > buffer.size
                  THEN buffer.size + size + AllocationSize ELSE buffer.size,
         opcodes |-> buffer.opcodes \o opcodes]

\* No opcode is longer than its length field tells, which is asserted.
InternalHiiCreateOpCodeExtended(buffer, body, op, size, extension, scope) ==
    LET grown == InternalHiiGrowOpCodeHandle(buffer,
                    <<HeaderOf(op, size + extension, scope, body)>>)
    IN  [buffer |-> grown, at |-> Len(grown.opcodes)]
InternalHiiCreateOpCode(buffer, body, op, size) ==
    InternalHiiCreateOpCodeExtended(buffer, body, op, size, 0, 0)
HiiCreateRawOpCodes(buffer, opcodes) ==
    [buffer |-> InternalHiiGrowOpCodeHandle(buffer, opcodes),
     at |-> Len(buffer.opcodes) + 1]
InternalHiiAppendOpCodes(buffer, raw) == HiiCreateRawOpCodes(buffer, raw.opcodes)

----------------------------------------------------------------------------
(* Opcodes without a scope.                                                *)

NoBody == [tag |-> 0]
LowBytes(n, width) == n % 2^(ByteBits * width)

HiiCreateEndOpCode(buffer) == InternalHiiCreateOpCode(buffer, NoBody, "END", 2)
HiiCreateOneOfOptionOpCode(buffer, value, type) ==
    LET width == mHiiDefaultTypeToWidth[type + 1]
    IN  InternalHiiCreateOpCode(buffer, [value |-> LowBytes(value, width)],
                                "ONE_OF_OPTION", 6 + width)
HiiCreateDefaultOpCode(buffer, value, type) ==
    LET width == mHiiDefaultTypeToWidth[type + 1]
    IN  InternalHiiCreateOpCode(buffer, [value |-> LowBytes(value, width)],
                                "DEFAULT", 5 + width)
HiiCreateGuidOpCode(buffer, guid, size) ==
    InternalHiiCreateOpCodeExtended(buffer, [guid |-> guid], "GUID", 18, size - 18, 0)
HiiCreateActionOpCode(buffer, tag) ==
    InternalHiiCreateOpCode(buffer, [tag |-> tag], "ACTION", 15)
HiiCreateSubTitleOpCode(buffer, tag, scope) ==
    InternalHiiCreateOpCodeExtended(buffer, [tag |-> tag], "SUBTITLE", 7, 0, scope)
HiiCreateTextOpCode(buffer, tag) ==
    InternalHiiCreateOpCode(buffer, [tag |-> tag], "TEXT", 8)
HiiCreateGotoOpCode(buffer, tag) ==
    InternalHiiCreateOpCode(buffer, [tag |-> tag], "REF", 15)

\* A reference is as long as the last of its optional parts that is there.
HiiCreateGotoExOpCode(buffer, tag, question, formset, path) ==
    InternalHiiCreateOpCode(buffer, [tag |-> tag], "REF",
        CASE path -> 35
          [] ~path /\ formset -> 33
          [] ~path /\ ~formset /\ question -> 17
          [] OTHER -> 15)

----------------------------------------------------------------------------
(* Questions.  With defaults or options the question opens a scope, which  *)
(* holds them and is closed behind them.                                   *)

InScope(buffer, body, op, size, raws) ==
    LET opened == InternalHiiCreateOpCodeExtended(buffer, body, op, size, 0, 1)
        filled == FoldLeft(LAMBDA b, raw : InternalHiiAppendOpCodes(b, raw).buffer,
                           opened.buffer, raws)
    IN  [buffer |-> HiiCreateEndOpCode(filled).buffer, at |-> opened.at]
Given(raws) == SelectSeq(raws, LAMBDA raw : raw # Absent)
Question(buffer, body, op, size, defaults) ==
    IF defaults = Absent THEN InternalHiiCreateOpCode(buffer, body, op, size)
    ELSE InScope(buffer, body, op, size, <<defaults>>)

HiiCreateCheckBoxOpCode(buffer, body, defaults) ==
    Question(buffer, body, "CHECKBOX", 14, defaults)
HiiCreateStringOpCode(buffer, body, defaults) ==
    Question(buffer, body, "STRING", 16, defaults)
HiiCreateDateOpCode(buffer, body, defaults) ==
    Question(buffer, body, "DATE", 14, defaults)
HiiCreateTimeOpCode(buffer, body, defaults) ==
    Question(buffer, body, "TIME", 14, defaults)

\* body.size is the size flag: a number is 2^size bytes.
HiiCreateNumericOpCode(buffer, body, defaults) ==
    LET width == 2^body.size
    IN  Question(buffer, [body EXCEPT !.min = LowBytes(@, width),
                                      !.max = LowBytes(@, width)],
                 "NUMERIC", 14 + 3 * width, defaults)
HiiCreateOneOfOpCode(buffer, body, options, defaults) ==
    InScope(buffer, body, "ONE_OF", 14 + 3 * 2^body.size, Given(<<options, defaults>>))
HiiCreateOrderedListOpCode(buffer, body, options, defaults) ==
    InScope(buffer, body, "ORDERED_LIST", 15, Given(<<options, defaults>>))

----------------------------------------------------------------------------
(* Updating a form.                                                        *)

\* Whether opcode n of a forms package lies in the form wanted: the last
\* form set before it has the GUID, and the last form before it the ID.
LastBefore(opcodes, n, ops) ==
    Max({0} \union {m \in 1..n : opcodes[m].op \in ops})
InFormSet(opcodes, n, guid) ==
    LET m == LastBefore(opcodes, n, {"FORM_SET"})
    IN  guid = Absent \/ (m # 0 /\ opcodes[m].body.guid = guid)
InForm(opcodes, n, form) ==
    LET m == LastBefore(opcodes, n, {"FORM", "FORM_MAP"})
    IN  m # 0 /\ opcodes[m].body.form = form

\* The opcodes behind the first of start go behind the first opcode equal to
\* it; what follows is cut off up to the next one equal to the first of end,
\* wherever that is.
InternalHiiUpdateFormPackageData(guid, form, package, start, end) ==
    LET old == package.opcodes
        starts == {n \in DOMAIN old : /\ InFormSet(old, n, guid)
                                      /\ InForm(old, n, form)
                                      /\ old[n] = start.opcodes[1]}
        first == Min(starts)
        ends == {n \in first + 1..Len(old) : old[n] = end.opcodes[1]}
        rest == IF end = Absent THEN first + 1 ELSE Min(ends)
    IN  IF starts = {} \/ (end # Absent /\ ends = {}) THEN Absent
        ELSE [package EXCEPT !.opcodes =
                SubSeq(old, 1, first) \o Tail(start.opcodes)
                \o SubSeq(old, rest, Len(old))]

\* Every forms package with the form is updated, in one new list.
HiiUpdateForm(hii, handle, guid, form, start, end, alloc, accepts) ==
    LET list == ListOf(hii, handle)
        updates == [n \in DOMAIN list.packages |->
                      IF list.packages[n].type = "FORMS"
                      THEN InternalHiiUpdateFormPackageData(
                                guid, form, list.packages[n], start, end)
                      ELSE Absent]
        new == [list EXCEPT !.packages =
                  [n \in DOMAIN @ |-> IF updates[n] = Absent THEN @[n]
                                      ELSE updates[n]]]
        updated == {n \in DOMAIN updates : updates[n] # Absent} # {}
    IN  CASE ~Has(hii, handle) -> [status |-> "NOT_FOUND", hii |-> hii]
          [] Has(hii, handle) /\ ~alloc -> [status |-> "OUT_OF_RESOURCES", hii |-> hii]
          [] Has(hii, handle) /\ alloc /\ ~updated ->
                [status |-> "NOT_FOUND", hii |-> hii]
          [] Has(hii, handle) /\ alloc /\ updated ->
                IF accepts THEN [status |-> "SUCCESS", hii |-> WithList(hii, new)]
                ELSE [status |-> "ERROR", hii |-> hii]
=============================================================================
