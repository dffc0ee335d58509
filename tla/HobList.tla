-------------------------------- MODULE HobList --------------------------------
(***************************************************************************)
(* The hand-off blocks of HobLibHost.c: an arena of fixed size with the    *)
(* blocks one behind the other, each with its type and length, and an end  *)
(* marker that every creation moves.  The first block, the hand-off table, *)
(* holds the address of the end.  Addresses count from the arena.          *)
(***************************************************************************)
EXTENDS Integers, Sequences, SequencesExt, FiniteSets

CONSTANTS
    ArenaSize,                 \* SIZE_64KB
    HeaderSize,                \* sizeof (EFI_HOB_GENERIC_HEADER)
    TableSize,                 \* sizeof (EFI_HOB_HANDOFF_INFO_TABLE)
    Size,                      \* the size of the fixed part of each type of block
    HobGuids, HobAddresses,    \* the names that callers give, the base addresses
    GuidDataLengths,           \* the lengths of the data of GUID blocks
    NoName                     \* the zero GUID

ASSUME HobAssumption ==
    /\ HeaderSize \in Nat \ {0} /\ TableSize > HeaderSize
    /\ TableSize + HeaderSize <= ArenaSize
    /\ \A type \in DOMAIN Size : Size[type] > HeaderSize

VARIABLES
    memory,                    \* the headers and contents written, by address
    EfiEndOfHobList,           \* the field of the hand-off table
    built                      \* history: the addresses of the blocks built, in order

hobVars == <<memory, EfiEndOfHobList, built>>

Header(type, length) == [HobType |-> type, HobLength |-> length, name |-> NoName, base |-> 0]
EndMarker == Header("END_OF_HOB_LIST", HeaderSize)

(* InitHobPointer                                                          *)
HobInit ==
    /\ memory = (0 :> Header("HANDOFF", TableSize)) @@ (TableSize :> EndMarker)
    /\ EfiEndOfHobList = TableSize
    /\ built = <<>>

-----------------------------------------------------------------------------
(* Walking: an address of -1 is NULL.                                      *)
NULL_HOB == -1

GetNextHob(type, start) ==
    LET walk[at \in DOMAIN memory] ==
            IF memory[at].HobType = "END_OF_HOB_LIST" THEN NULL_HOB
            ELSE IF memory[at].HobType = type THEN at
            ELSE walk[at + memory[at].HobLength]
    IN  walk[start]

(* GetNextGuidHob and GetNextMemoryAllocationGuidHob                       *)
NextNamed(type, guid, start) ==
    LET walk[at \in DOMAIN memory] ==
            LET found == GetNextHob(type, at) IN
            IF found = NULL_HOB \/ memory[found].name = guid THEN found
            ELSE walk[found + memory[found].HobLength]
    IN  walk[start]

-----------------------------------------------------------------------------
(* mutant: the room for the end marker is forgotten.                       *)
TightFits(length) == EfiEndOfHobList + length <= ArenaSize

Fits(length) == EfiEndOfHobList + HeaderSize + length <= ArenaSize

(* InternalPeiCreateHob, and what its caller fills in.                     *)
InternalPeiCreateHob(type, length, name, base) ==
    /\ memory' = [memory EXCEPT ![EfiEndOfHobList] =
                     [Header(type, length) EXCEPT !.name = name, !.base = base]]
                 @@ (EfiEndOfHobList + length :> EndMarker)
    /\ EfiEndOfHobList' = EfiEndOfHobList + length
    /\ built' = Append(built, EfiEndOfHobList)

Build(type, length, name, base) ==
    IF Fits(length) THEN InternalPeiCreateHob(type, length, name, base) ELSE UNCHANGED hobVars

BuildGuidHob ==
    \E guid \in HobGuids, length \in GuidDataLengths :
        Build("GUID_EXTENSION", Size["GUID_EXTENSION"] + length, guid, 0)

(* BuildModuleHob, BuildStackHob and BuildBspStoreHob name the block, as   *)
(* BuildMemoryAllocationHob does not.                                      *)
BuildMemoryAllocationHob ==
    \E guid \in HobGuids \cup {NoName}, base \in HobAddresses :
        Build("MEMORY_ALLOCATION", Size["MEMORY_ALLOCATION"], guid, base)

(* The blocks of the other types.                                          *)
BuildHob ==
    \E type \in DOMAIN Size \ {"GUID_EXTENSION", "MEMORY_ALLOCATION"} :
        Build(type, Size[type], NoName, 0)

(* The first allocation with the address.                                  *)
TagMemoryAllocationHobWithGuid ==
    \E base \in HobAddresses, guid \in HobGuids :
        LET find[at \in DOMAIN memory] ==
                LET found == GetNextHob("MEMORY_ALLOCATION", at) IN
                IF found = NULL_HOB \/ memory[found].base = base THEN found
                ELSE find[found + memory[found].HobLength]
        IN  /\ find[0] # NULL_HOB
            /\ memory' = [memory EXCEPT ![find[0]].name = guid]
            /\ UNCHANGED <<EfiEndOfHobList, built>>

HobNext == BuildGuidHob \/ BuildMemoryAllocationHob \/ BuildHob \/ TagMemoryAllocationHobWithGuid

-----------------------------------------------------------------------------
(* Walking by lengths from the hand-off table visits exactly the blocks    *)
(* that were built, in their order, and ends at the end marker, inside the *)
(* arena even when it is full; so repeating GetNextGuidHob behind the      *)
(* block it found yields every block of that name once, in that order, and *)
(* likewise for memory allocations, those tagged later included.           *)
WalksFindBuilt ==
    LET all[at \in DOMAIN memory] ==
            IF memory[at].HobType = "END_OF_HOB_LIST" THEN <<>>
            ELSE <<at>> \o all[at + memory[at].HobLength]
        Each(type, guid) ==
            LET each[at \in DOMAIN memory] ==
                    LET found == NextNamed(type, guid, at) IN
                    IF found = NULL_HOB THEN <<>> ELSE <<found>> \o each[found + memory[found].HobLength]
            IN  each[0]
    IN  /\ all[0] = <<0>> \o built
        /\ memory[EfiEndOfHobList] = EndMarker
        /\ EfiEndOfHobList + HeaderSize <= ArenaSize
        /\ \A type \in {"GUID_EXTENSION", "MEMORY_ALLOCATION"}, guid \in HobGuids :
              Each(type, guid) = SelectSeq(built, LAMBDA at : memory[at].HobType = type /\ memory[at].name = guid)
=============================================================================
