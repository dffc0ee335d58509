----------------------------- MODULE VariableStore -----------------------------
(***************************************************************************)
(* The variable services of OsVariable.c: a list of variables that is set, *)
(* read and enumerated.  There is one thread, but calls that enumerate are *)
(* interleaved with calls that set, which notification functions make.     *)
(*                                                                         *)
(* Signatures are not verified (the code is disabled), and the variables   *)
(* stay from one input of the fuzzer to the next.  The contents of a       *)
(* signature database are a sequence of lists with a type and signatures,  *)
(* those of other variables a sequence of bytes; a time is a number.       *)
(* Failures of the allocator are left out.                                 *)
(***************************************************************************)
EXTENDS Integers, Sequences, FiniteSets, Lists

CONSTANTS
    Keys, Databases, AttributeSets, APPEND_WRITE, Bytes, SignatureTypes, Signatures, Absent,
    TIME_BASED,                \* EFI_VARIABLE_TIME_BASED_AUTHENTICATED_WRITE_ACCESS
    MaxBytes,                  \* the bytes of one call
    Times,                     \* the timestamps in the descriptors of callers
    NULL,
    Payloads(_),               \* the contents that callers pass for a key
    MaxSetCalls                \* bound: calls of SetVariable

SignatureLists == Seq([type : SignatureTypes, signatures : Seq(Signatures)])
Blobs == UNION {[1 .. n -> Bytes] : n \in 0 .. MaxBytes}

ASSUME VariableAssumption ==
    /\ Databases \subseteq Keys
    /\ {"Start", "Done", "Lost"} \cap Keys = {}
    /\ Times \subseteq Nat /\ Times # {} /\ MaxBytes \in Nat
    /\ \A key \in Keys : Payloads(key) \subseteq IF key \in Databases THEN SignatureLists ELSE Blobs
    /\ Absent \notin [key : Keys, attributes : AttributeSets, stamp : Times \cup {NULL},
                      contents : SignatureLists \cup Seq(Bytes)]
    /\ Absent \notin [attributes : AttributeSets, stamp : Times \cup {NULL},
                      contents : (SUBSET (SignatureTypes \X Signatures)) \cup Seq(Bytes)]

VARIABLES
    mVarListEntry,             \* the list of variables
    running,                   \* FALSE when an ASSERT has ended the program
    name,                      \* the enumerating caller's VariableName: a key, or "Start";
                               \* "Done" after EFI_NOT_FOUND, "Lost" after EFI_INVALID_PARAMETER
    returned,                  \* the keys it got
    owed,                      \* keys that were there at its start and ever since; none
                               \* when the key it continues from was deleted in between
    setCalls

variableVars == <<mVarListEntry, running, name, returned, owed, setCalls>>

VariableInit ==
    /\ mVarListEntry = <<>>
    /\ running = TRUE
    /\ name = "Start" /\ returned = {} /\ owed = {}
    /\ setCalls = 0

-----------------------------------------------------------------------------
Set == {mVarListEntry[i].key : i \in 1 .. Len(mVarListEntry)}

CompareTimeStamp(first, second) == first <= second

FindVariableList(key) == {i \in 1 .. Len(mVarListEntry) : mVarListEntry[i].key = key}

(* FindVariableInfoPtr *)
FindVariableInfoPtr(key) ==
    IF FindVariableList(key) = {} THEN Absent
    ELSE mVarListEntry[CHOOSE i \in FindVariableList(key) : TRUE]

(* Whether a signature is in one of the lists of its type.                 *)
HasSignature(lists, type, signature) ==
    \E i \in 1 .. Len(lists) :
        /\ lists[i].type = type
        /\ \E j \in 1 .. Len(lists[i].signatures) : lists[i].signatures[j] = signature

(* mutant: the old lists are not carried over. *)
FilterForgetsOld(lists, new) ==
    Without(new, {new[i] : i \in {i \in 1 .. Len(new) :
        \E j \in 1 .. Len(new[i].signatures) : HasSignature(lists, new[i].type, new[i].signatures[j])}})

(* What of each new list is not yet in the old ones, is added at the end.  *)
FilterSignatureList(lists, new) ==
    LET kept == [i \in 1 .. Len(new) |->
            [type |-> new[i].type,
             signatures |-> Without(new[i].signatures,
                 {signature \in Signatures : HasSignature(lists, new[i].type, signature)})]]
    IN  lists \o Without(kept, [type : SignatureTypes, signatures : {<<>>}])

(* The timestamp after an update: an append keeps a later one.  One that   *)
(* was never set may compare either way.                                   *)
Restamped(old, attributes, stamp, append) ==
    IF TIME_BASED \notin attributes THEN {old}
    ELSE IF ~append THEN {stamp}
    ELSE IF old = NULL THEN {old, stamp}
    ELSE {IF CompareTimeStamp(old, stamp) THEN stamp ELSE old}

(* mutant: a variable that is set again moves to the tail. *)
UpdateAtTail(i, attributes, stamp, payload, append) ==
    mVarListEntry' = Without(mVarListEntry, {mVarListEntry[i]})
        \o <<[mVarListEntry[i] EXCEPT !.attributes = attributes, !.contents = payload]>>

UpdateVariableList(i, attributes, stamp, payload, append) ==
    \E new \in Restamped(mVarListEntry[i].stamp, attributes, stamp, append) :
        mVarListEntry' = [mVarListEntry EXCEPT
            ![i].attributes = attributes,
            ![i].stamp = new,
            ![i].contents =
                IF ~append THEN payload
                ELSE IF mVarListEntry[i].key \in Databases THEN FilterSignatureList(@, payload)
                ELSE @ \o payload]

CreateVariableList(key, attributes, stamp, payload) ==
    mVarListEntry' = Append(mVarListEntry,
        [key |-> key, attributes |-> attributes,
         stamp |-> IF TIME_BASED \in attributes THEN stamp ELSE NULL,
         contents |-> payload])

(* A variable that is created must have contents (ASSERT).                 *)
EnrollVar(key, attributes, data, append) ==
    IF FindVariableList(key) # {}
    THEN /\ \E i \in FindVariableList(key) :
               UpdateVariableList(i, attributes, data.stamp, data.payload, append)
         /\ UNCHANGED <<running, owed>>
    ELSE IF data.payload = <<>>
    THEN /\ running' = FALSE
         /\ UNCHANGED <<mVarListEntry, owed>>
    ELSE /\ CreateVariableList(key, attributes, data.stamp, data.payload)
         /\ UNCHANGED <<running, owed>>

DeleteVar(key) ==
    /\ mVarListEntry' = Without(mVarListEntry, {mVarListEntry[i] : i \in FindVariableList(key)})
    /\ owed' = IF key = name THEN {} ELSE owed \ {key}
    /\ UNCHANGED running

(* Data is NULL (and its size 0), or what it holds: a payload, and in      *)
(* front of it the descriptor of a time-based variable.                    *)
ProcessVar(key, attributes, data) ==
    IF attributes = {} \/ data = NULL
    THEN DeleteVar(key)
    ELSE EnrollVar(key, attributes, data, APPEND_WRITE \in attributes)

CoreSetVariable(key, attributes, data) ==
    /\ running /\ setCalls < MaxSetCalls
    /\ setCalls' = setCalls + 1
    /\ ProcessVar(key, attributes, data)
    /\ UNCHANGED <<name, returned>>

(* What GetVariable answers for a buffer of the size.                      *)
CoreGetVariable(key, size) ==
    LET variable == FindVariableInfoPtr(key)
    IN  IF variable = Absent \/ variable.contents = <<>> THEN [status |-> "EFI_NOT_FOUND"]
        ELSE IF size < Len(variable.contents)
        THEN [status |-> "EFI_BUFFER_TOO_SMALL", size |-> Len(variable.contents)]
        ELSE [status |-> "EFI_SUCCESS", size |-> Len(variable.contents),
              attributes |-> variable.attributes, data |-> variable.contents]

ReturnName(key) ==
    /\ name' = key
    /\ returned' = returned \cup {key}

(* The first key, or the one after the caller's.  A caller whose buffer is *)
(* too small for it calls again with a larger one.                            *)
CoreGetNextVariableName ==
    LET n == Len(mVarListEntry)
        found == FindVariableList(name)
    IN  /\ running /\ name \in Keys \cup {"Start"}
        /\ CASE n = 0 -> name' = "Done" /\ UNCHANGED returned
             [] n > 0 /\ name = "Start" -> ReturnName(mVarListEntry[1].key)
             [] n > 0 /\ name # "Start" /\ found = {} -> name' = "Lost" /\ UNCHANGED returned
             [] found # {} -> \E i \in found :
                    IF i = n THEN name' = "Done" /\ UNCHANGED returned
                    ELSE ReturnName(mVarListEntry[i + 1].key)
        /\ owed' = IF name = "Start" THEN Set ELSE owed
        /\ UNCHANGED <<mVarListEntry, running, setCalls>>

(* A caller starts a new enumeration.                                      *)
Restart ==
    /\ name \in {"Done", "Lost"}
    /\ name' = "Start" /\ returned' = {} /\ owed' = {}
    /\ UNCHANGED <<mVarListEntry, running, setCalls>>

(* Only a time-based variable has a descriptor.                            *)
Data(key, attributes) ==
    [stamp : IF TIME_BASED \in attributes THEN Times ELSE {NULL}, payload : Payloads(key)]

VariableNext ==
    \/ \E key \in Keys, attributes \in AttributeSets \cup {{}} :
          \E data \in Data(key, attributes) \cup {NULL} : CoreSetVariable(key, attributes, data)
    \/ CoreGetNextVariableName
    \/ Restart

VariableSpec == VariableInit /\ [][VariableNext]_variableVars /\ WF_variableVars(CoreGetNextVariableName)

-----------------------------------------------------------------------------
(***************************************************************************)
(* An enumeration that ends has returned every variable that was there all *)
(* the time, whatever was set, created and deleted in between, unless the  *)
(* very name it continued from was deleted.                                *)
(***************************************************************************)
EnumerationComplete == name = "Done" => owed \subseteq returned

(***************************************************************************)
(* Such an enumeration returns no name twice.                              *)
(***************************************************************************)
NoNameTwice == [][name' # name /\ name' \in owed => name' \notin returned]_variableVars

(***************************************************************************)
(* An enumeration ends: its caller goes on until it gets an error, and     *)
(* variables are not set for ever.                                         *)
(***************************************************************************)
EnumerationEnds == name \in Keys ~> name \in {"Done", "Lost"} \/ ~running

(***************************************************************************)
(* An enumeration by GetNextVariableName, interleaved with SetVariable,    *)
(* ends, has returned what was there all the time, and that once.          *)
(***************************************************************************)
EnumerationServes ==
    [][EnumerationComplete']_variableVars /\ NoNameTwice /\ EnumerationEnds

(***************************************************************************)
(* A variable that is enumerated can be read: one without contents is gone *)
(* (OsVariable.c:757, "If Attributes is 0 or DataSize is 0, the variable   *)
(* is deleted.").                                                          *)
(***************************************************************************)
NoEmptyVariable == \A key \in Set : CoreGetVariable(key, 0).status # "EFI_NOT_FOUND"

(***************************************************************************)
(* The list implements a value for each name: see Variables.               *)
(***************************************************************************)
SignaturesIn(lists) ==
    UNION {{<<lists[i].type, lists[i].signatures[j]>> : j \in 1 .. Len(lists[i].signatures)} :
              i \in 1 .. Len(lists)}

Value(key) ==
    LET variable == FindVariableInfoPtr(key)
    IN  IF variable = Absent THEN Absent
        ELSE [attributes |-> variable.attributes, stamp |-> variable.stamp,
              contents |-> IF key \in Databases THEN SignaturesIn(variable.contents)
                           ELSE variable.contents]

Abstract == INSTANCE Variables WITH values <- [key \in Keys |-> Value(key)]
ImplementsVariables == Abstract!Spec
=============================================================================
