-------------------------------- MODULE GcdMap --------------------------------
(***************************************************************************)
(* The global coherency domain of Gcd.c: the memory and the I/O space are  *)
(* lists of entries that cover all addresses.  A service finds the entries *)
(* of a range, splits the outer two, changes those inside, and merges what *)
(* has become equal.                                                       *)
(*                                                                         *)
(* Addresses and lengths are numbers below Width, and sums wrap around.    *)
(* Attributes are sets of bits.  gCpu is null in the host, so attributes   *)
(* of the CPU cannot be set.  An owner stands for an image handle and the  *)
(* device handle given with it.  Calls that fail change nothing, and       *)
(* failures of the allocator are left out.                                 *)
(***************************************************************************)
EXTENDS Integers, FiniteSets, SequencesExt

CONSTANTS
    Width,                     \* 2^64
    MemorySize, IoSize,        \* 2^48 and 2^36
    PageSize,
    MemoryKinds, IoKinds,
    BitSets,                   \* the capabilities and attributes that callers pass
    CpuBits, RuntimeBit, PortIoBit,
    Owners, CoreOwner, NoOwner,
    MaxAlignment,              \* bound: Alignment
    MaxGcdCalls                \* bound: calls that succeed

ASSUME GcdAssumption ==
    /\ Width \in Nat /\ PageSize \in Nat \ {0}
    /\ MemorySize \in 1 .. Width \div 2 /\ IoSize \in 1 .. Width \div 2
    /\ MemorySize % PageSize = 0 /\ Width % PageSize = 0
    /\ NoOwner \notin Owners \cup {CoreOwner}
    /\ {RuntimeBit, PortIoBit} \cap CpuBits = {}
    /\ MaxAlignment \in Nat /\ \A n \in 0 .. MaxAlignment : 2 ^ n \in 1 .. Width \div 2

VARIABLES mGcdMemorySpaceMap, mGcdIoSpaceMap, gcdCalls
gcdVars == <<mGcdMemorySpaceMap, mGcdIoSpaceMap, gcdCalls>>

NonExistent == "NonExistent"

(* CoreInitializeGcdServices *)
Template(size) ==
    [base |-> 0, end |-> size - 1, kind |-> NonExistent,
     capabilities |-> {}, attributes |-> {}, owner |-> NoOwner]

GcdInit ==
    /\ mGcdMemorySpaceMap = <<Template(MemorySize)>>
    /\ mGcdIoSpaceMap = <<Template(IoSize)>>
    /\ gcdCalls = 0

-----------------------------------------------------------------------------
AlignDown(value, unit) == value - (value % unit)
AlignUp(value, unit) == AlignDown((value + unit - 1) % Width, unit)

LastOf(base, length) == (base + length - 1) % Width
Covers(entry, a) == entry.base <= a /\ a <= entry.end

(* The first and the last entry of a range, or nothing.                    *)
CoreSearchGcdMapEntry(map, base, length) ==
    LET last == LastOf(base, length)
        ends == {i \in 1 .. Len(map) :
                    Covers(map[i], last) /\ \E j \in 1 .. i : Covers(map[j], base)}
    IN  IF length = 0 \/ ends = {}
        THEN <<>>
        ELSE <<Max({j \in 1 .. Min(ends) : Covers(map[j], base)}), Min(ends)>>

(* The part of an entry above a range in it.                               *)
Above(entry, base, length) ==
    IF LastOf(base, length) < entry.end THEN <<[entry EXCEPT !.base = (base + length) % Width]>> ELSE <<>>

(* What an operation makes of an entry: the fields of change get their new *)
(* values, but attributes of the CPU stay.                                 *)
Changed(entry, change) ==
    [field \in DOMAIN entry |->
        CASE field \notin DOMAIN change -> entry[field]
          [] field \in DOMAIN change /\ field = "attributes" ->
                 change.attributes \cup (entry.attributes \cap CpuBits)
          [] field \in DOMAIN change /\ field # "attributes" -> change[field]]

(* The parts of an entry below, inside and above the range, the one inside *)
(* changed.                                                                *)
CoreInsertGcdMapEntry(entry, base, length, change) ==
    LET below == IF base > entry.base THEN <<[entry EXCEPT !.end = base - 1]>> ELSE <<>>
        inside == [entry EXCEPT !.base = Max({base, @}), !.end = Min({LastOf(base, length), @})]
    IN  below \o <<Changed(inside, change)>> \o Above(entry, base, length)

(* What CoreMergeGcdMapEntry compares.                                     *)
SameState(e, f) ==
    /\ e.kind = f.kind /\ e.owner = f.owner
    /\ e.capabilities = f.capabilities /\ e.attributes = f.attributes

(* The entries up to here, with the next one merged into the last of them  *)
(* if their states are equal.                                              *)
CoreMergeGcdMapEntry(done, entry) ==
    IF done # <<>> /\ SameState(Last(done), entry)
    THEN [done EXCEPT ![Len(done)].end = entry.end]
    ELSE Append(done, entry)

(* mutant: the entry after the range is not looked at. *)
CleanupBackOnly(map, s, e) ==
    LET done[i \in s - 1 .. e] ==
            IF i < s THEN SubSeq(map, 1, i) ELSE CoreMergeGcdMapEntry(done[i - 1], map[i])
    IN  done[e] \o SubSeq(map, e + 1, Len(map))

(* Entries s to e are merged with those before them, the last also with    *)
(* the one after it.                                                       *)
CoreCleanupGcdMapEntry(map, s, e) ==
    LET high == Min({e + 1, Len(map)})
        done[i \in s - 1 .. high] ==
            IF i < s THEN SubSeq(map, 1, i) ELSE CoreMergeGcdMapEntry(done[i - 1], map[i])
    IN  done[high] \o SubSeq(map, high + 1, Len(map))

(* Entries s to e, each with its parts in its place.                       *)
Split(map, s, e, base, length, change) ==
    LET parts[i \in s - 1 .. e] ==
            IF i < s THEN SubSeq(map, 1, i)
            ELSE parts[i - 1] \o CoreInsertGcdMapEntry(map[i], base, length, change)
    IN  parts[e] \o SubSeq(map, e + 1, Len(map))

(* Changes the range, whose entries are s to e.                            *)
Converted(map, base, length, change) ==
    LET range == CoreSearchGcdMapEntry(map, base, length)
        s == range[1]
        e == range[2]
        first == IF base > map[s].base THEN s + 1 ELSE s
    IN  CoreCleanupGcdMapEntry(Split(map, s, e, base, length, change), first, first + (e - s))

(* mutant: only the first entry is checked. *)
FirstEntry(map, base, length) ==
    LET range == CoreSearchGcdMapEntry(map, base, length)
    IN  IF range = <<>> THEN {} ELSE {map[range[1]]}

EntriesOf(map, base, length) ==
    LET range == CoreSearchGcdMapEntry(map, base, length)
    IN  IF range = <<>> THEN {} ELSE {map[i] : i \in range[1] .. range[2]}

(* The checks of CoreConvertSpace: the range lies in the map, and all of   *)
(* its entries allow the operation.                                        *)
Convertible(map, base, length, allowed) ==
    /\ EntriesOf(map, base, length) # {}
    /\ EntriesOf(map, base, length) \subseteq allowed

Vacant(map) == {entry \in Range(map) : entry.kind = NonExistent /\ entry.owner = NoOwner}
Present(map) == {entry \in Range(map) : entry.kind # NonExistent /\ entry.owner = NoOwner}
Owned(map) == {entry \in Range(map) : entry.owner # NoOwner}

-----------------------------------------------------------------------------
(***************************************************************************)
(* The base that CoreAllocateSpace finds for a request, or NotFound.  The  *)
(* fields of a request: type, kind, base, length, unit (the alignment).    *)
(***************************************************************************)
NotFound == -1
TopDown(request) == request.type \in {"MaxTopDown", "AnyTopDown"}
AllocateTypes == {"Address", "MaxBottomUp", "MaxTopDown", "AnyBottomUp", "AnyTopDown"}

CoreAllocateSpaceCheckEntry(entry, kind) == entry.owner = NoOwner /\ entry.kind = kind

MaxAddress(map, request) ==
    IF request.type \in {"MaxBottomUp", "MaxTopDown"} THEN request.base ELSE Last(map).end

Misfits(map, base, request) ==
    LET range == CoreSearchGcdMapEntry(map, base, request.length)
    IN  {i \in range[1] .. range[2] : ~CoreAllocateSpaceCheckEntry(map[i], request.kind)}

FindAddress(map, request) ==
    IF /\ request.base % request.unit = 0
       /\ CoreSearchGcdMapEntry(map, request.base, request.length) # <<>>
       /\ Misfits(map, request.base, request) = {}
    THEN request.base ELSE NotFound

(* Tries the entries upwards; after a misfit the search goes on from it.   *)
FindBottomUp(map, request) ==
    LET up[i \in 1 .. Len(map) + 1] ==
            IF i > Len(map) THEN NotFound
            ELSE IF ~CoreAllocateSpaceCheckEntry(map[i], request.kind) THEN up[i + 1]
            ELSE LET base == AlignUp(map[i].base, request.unit)
                 IN  IF \/ LastOf(base, request.length) > MaxAddress(map, request)
                        \/ CoreSearchGcdMapEntry(map, base, request.length) = <<>>
                     THEN NotFound
                     ELSE IF Misfits(map, base, request) = {} THEN base
                     ELSE up[Min(Misfits(map, base, request))]
    IN  up[1]

FindTopDown(map, request) ==
    LET max == MaxAddress(map, request)
        down[i \in 0 .. Len(map)] ==
            IF i = 0 THEN NotFound
            ELSE IF \/ ~CoreAllocateSpaceCheckEntry(map[i], request.kind)
                    \/ (map[i].base + request.length) % Width > max
                 THEN down[i - 1]
            ELSE IF request.length > map[i].end + 1 THEN NotFound
            ELSE LET base == AlignDown((Min({max, map[i].end}) + 1 - request.length) % Width, request.unit)
                 IN  IF CoreSearchGcdMapEntry(map, base, request.length) = <<>> THEN NotFound
                     ELSE IF Misfits(map, base, request) = {} THEN base
                     ELSE down[Min(Misfits(map, base, request))]
    IN  down[Len(map)]

FindSpace(map, request) ==
    IF request.type = "Address" THEN FindAddress(map, request)
    ELSE IF TopDown(request) THEN FindTopDown(map, request)
    ELSE FindBottomUp(map, request)

Own(map, base, length, owner) ==
    Converted(map, base, length, [owner |-> owner])

-----------------------------------------------------------------------------
Call ==
    /\ gcdCalls < MaxGcdCalls
    /\ gcdCalls' = gcdCalls + 1

MemoryCall == Call /\ UNCHANGED mGcdIoSpaceMap
IoCall == Call /\ UNCHANGED mGcdMemorySpaceMap

(* Non-empty ranges that start in a space and do not wrap around.          *)
Ranges(size) == (0 .. size - 1) \X (1 .. size)

(* The base of a request is read as an address or as a limit.              *)
Requests(size, kinds) ==
    {request \in [type : AllocateTypes, kind : kinds, base : 0 .. size - 1,
                  length : 1 .. size, unit : {2 ^ n : n \in 0 .. MaxAlignment}] :
        request.type \in {"AnyBottomUp", "AnyTopDown"} => request.base = 0}

WholePages(base, length) == base % PageSize = 0 /\ length % PageSize = 0

(* The rest of CoreAddMemorySpace for system memory.  The loop over single *)
(* pages is for pages that somebody owns, and the memory was just added.   *)
TakeWholePages(map, base, length) ==
    LET pageBase == AlignUp(base, PageSize)
        pageLength == AlignDown((base + length - pageBase) % Width, PageSize)
    IN  IF pageLength = 0 THEN map ELSE Own(map, pageBase, pageLength, CoreOwner)

(* A range of system memory inside one page, for which the length of its   *)
(* pages is computed below zero, is not given.                             *)
CoreAddMemorySpace(kind, base, length, capabilities) ==
    LET added == Converted(mGcdMemorySpaceMap, base, length,
                     [kind |-> kind,
                      capabilities |-> capabilities \cup {RuntimeBit}
                          \cup (IF kind = "MemoryMappedIo" THEN {PortIoBit} ELSE {})])
    IN  /\ MemoryCall
        /\ kind = "SystemMemory" => base + length >= AlignUp(base, PageSize)
        /\ Convertible(mGcdMemorySpaceMap, base, length, Vacant(mGcdMemorySpaceMap))
        /\ mGcdMemorySpaceMap' =
               IF kind = "SystemMemory" THEN TakeWholePages(added, base, length) ELSE added

CoreAllocateMemorySpace(request, owner) ==
    LET base == FindSpace(mGcdMemorySpaceMap, request)
    IN  /\ MemoryCall
        /\ base # NotFound
        /\ mGcdMemorySpaceMap' = Own(mGcdMemorySpaceMap, base, request.length, owner)

CoreFreeMemorySpace(base, length) ==
    /\ MemoryCall
    /\ Convertible(mGcdMemorySpaceMap, base, length, Owned(mGcdMemorySpaceMap))
    /\ mGcdMemorySpaceMap' = Own(mGcdMemorySpaceMap, base, length, NoOwner)

CoreRemoveMemorySpace(base, length) ==
    /\ MemoryCall
    /\ Convertible(mGcdMemorySpaceMap, base, length, Present(mGcdMemorySpaceMap))
    /\ mGcdMemorySpaceMap' =
           Converted(mGcdMemorySpaceMap, base, length,
                     [kind |-> NonExistent, capabilities |-> {}])

(* The bits among attributes that are for the CPU (of the exclusive ones   *)
(* the first only).                                                        *)
ConverToCpuArchAttributes(attributes) == attributes \cap CpuBits

CoreSetMemorySpaceAttributes(base, length, attributes) ==
    /\ MemoryCall
    /\ RuntimeBit \in attributes => WholePages(base, length)
    /\ Convertible(mGcdMemorySpaceMap, base, length,
           {entry \in Range(mGcdMemorySpaceMap) : attributes \subseteq entry.capabilities})
    /\ ConverToCpuArchAttributes(attributes) = {}
    /\ mGcdMemorySpaceMap' =
           Converted(mGcdMemorySpaceMap, base, length, [attributes |-> attributes])

CoreSetMemorySpaceCapabilities(base, length, capabilities) ==
    /\ MemoryCall
    /\ WholePages(base, length)
    /\ Convertible(mGcdMemorySpaceMap, base, length,
           {entry \in Range(mGcdMemorySpaceMap) : entry.attributes \subseteq capabilities})
    /\ mGcdMemorySpaceMap' =
           Converted(mGcdMemorySpaceMap, base, length, [capabilities |-> capabilities])

CoreAddIoSpace(kind, base, length) ==
    /\ IoCall
    /\ Convertible(mGcdIoSpaceMap, base, length, Vacant(mGcdIoSpaceMap))
    /\ mGcdIoSpaceMap' = Converted(mGcdIoSpaceMap, base, length, [kind |-> kind])

CoreAllocateIoSpace(request, owner) ==
    LET base == FindSpace(mGcdIoSpaceMap, request)
    IN  /\ IoCall
        /\ base # NotFound
        /\ mGcdIoSpaceMap' = Own(mGcdIoSpaceMap, base, request.length, owner)

CoreFreeIoSpace(base, length) ==
    /\ IoCall
    /\ Convertible(mGcdIoSpaceMap, base, length, Owned(mGcdIoSpaceMap))
    /\ mGcdIoSpaceMap' = Own(mGcdIoSpaceMap, base, length, NoOwner)

CoreRemoveIoSpace(base, length) ==
    /\ IoCall
    /\ Convertible(mGcdIoSpaceMap, base, length, Present(mGcdIoSpaceMap))
    /\ mGcdIoSpaceMap' =
           Converted(mGcdIoSpaceMap, base, length, [kind |-> NonExistent])

MemoryNext ==
    \/ \E range \in Ranges(MemorySize) :
          \/ \E kind \in MemoryKinds, capabilities \in BitSets :
                CoreAddMemorySpace(kind, range[1], range[2], capabilities)
          \/ CoreFreeMemorySpace(range[1], range[2])
          \/ CoreRemoveMemorySpace(range[1], range[2])
          \/ \E bits \in BitSets :
                \/ CoreSetMemorySpaceAttributes(range[1], range[2], bits)
                \/ CoreSetMemorySpaceCapabilities(range[1], range[2], bits)
    \/ \E request \in Requests(MemorySize, MemoryKinds \cup {NonExistent}), owner \in Owners :
          CoreAllocateMemorySpace(request, owner)

IoNext ==
    \/ \E range \in Ranges(IoSize) :
          \/ \E kind \in IoKinds : CoreAddIoSpace(kind, range[1], range[2])
          \/ CoreFreeIoSpace(range[1], range[2])
          \/ CoreRemoveIoSpace(range[1], range[2])
    \/ \E request \in Requests(IoSize, IoKinds \cup {NonExistent}), owner \in Owners :
          CoreAllocateIoSpace(request, owner)

GcdNext == MemoryNext \/ IoNext

GcdSpec == GcdInit /\ [][GcdNext]_gcdVars

-----------------------------------------------------------------------------
(* BuildMemoryDescriptor, BuildIoDescriptor *)
Descriptor(entry) == [base |-> entry.base, length |-> entry.end - entry.base + 1]

(* CoreGetMemorySpaceMap and CoreGetIoSpaceMap return one for each entry.  *)
SpaceMap(map) == [i \in 1 .. Len(map) |-> Descriptor(map[i])]

(* CoreGetMemorySpaceDescriptor and CoreGetIoSpaceDescriptor *)
SpaceDescriptor(map, a) == map[CoreSearchGcdMapEntry(map, a, 1)[1]]

(***************************************************************************)
(* The maps that GetMemorySpaceMap and GetIoSpaceMap return tile their     *)
(* space after any sequence of calls: descriptors are not empty, follow    *)
(* each other without gap or overlap, and cover the space.                 *)
(***************************************************************************)
Tiles(map, size) ==
    /\ SpaceMap(map)[1].base = 0
    /\ \A i \in 1 .. Len(map) :
          /\ SpaceMap(map)[i].length > 0
          /\ SpaceMap(map)[i].base + SpaceMap(map)[i].length =
                 IF i = Len(map) THEN size ELSE SpaceMap(map)[i + 1].base

MapsTile == Tiles(mGcdMemorySpaceMap, MemorySize) /\ Tiles(mGcdIoSpaceMap, IoSize)

(***************************************************************************)
(* The maps are as short as they can be: neighbours that a call made equal *)
(* were merged.                                                            *)
(***************************************************************************)
Merged(map) == \A i \in 1 .. Len(map) - 1 : ~SameState(map[i], map[i + 1])
MapsMerged == Merged(mGcdMemorySpaceMap) /\ Merged(mGcdIoSpaceMap)

(* The addresses that an allocation of the kind may take, one by one.      *)
Free(map, kind) ==
    {a \in 0 .. Last(map).end : CoreAllocateSpaceCheckEntry(SpaceDescriptor(map, a), kind)}

(* The bases at which a request could be granted, given the free addresses. *)
Fits(map, request, free) ==
    {base \in free :
        /\ base % request.unit = 0
        /\ request.type = "Address" => base = request.base
        /\ base + request.length - 1 <= MaxAddress(map, request)
        /\ base .. base + request.length - 1 \subseteq free}

(***************************************************************************)
(* Whatever the map looks like, a search upwards, or for an address, finds *)
(* the lowest space that fits, and fails only when there is none; what a   *)
(* search downwards finds fits.                                            *)
(***************************************************************************)
SearchFits ==
    \A kind \in MemoryKinds \cup {NonExistent} :
        LET map == mGcdMemorySpaceMap
            free == Free(map, kind)
        IN  \A request \in Requests(MemorySize, {kind}) :
                LET base == FindSpace(map, request)
                    fits == Fits(map, request, free)
                IN  IF TopDown(request)
                    THEN base \in fits \cup {NotFound}
                    ELSE base = IF fits = {} THEN NotFound ELSE Min(fits)

(***************************************************************************)
(* The maps hold after any calls: they stay tiled and merged, and searches *)
(* find in them what there is (CoreConvertSpace, CoreAllocateSpace); there *)
(* is nothing to find before the first call.                               *)
(***************************************************************************)
MapsHold == MapsTile /\ MapsMerged /\ (gcdCalls > 0 => SearchFits)

(***************************************************************************)
(* A search fails only if no space fits (Gcd.c:1085, "EFI_NOT_FOUND No     *)
(* descriptor for the desired space exists").                              *)
(***************************************************************************)
SearchFindsSpace ==
    \A request \in Requests(MemorySize, MemoryKinds \cup {NonExistent}) :
        FindSpace(mGcdMemorySpaceMap, request) = NotFound =>
            Fits(mGcdMemorySpaceMap, request, Free(mGcdMemorySpaceMap, request.kind)) = {}

(***************************************************************************)
(* The lists implement a description of every address: see AddressSpace.   *)
(***************************************************************************)
Cells(map, size) ==
    [a \in 0 .. size - 1 |->
        LET entry == map[Max({i \in 1 .. Len(map) : map[i].base <= a})]
        IN  [kind |-> entry.kind, capabilities |-> entry.capabilities,
             attributes |-> entry.attributes, owner |-> entry.owner]]

Space == INSTANCE AddressSpace WITH
    memory <- Cells(mGcdMemorySpaceMap, MemorySize),
    io <- Cells(mGcdIoSpaceMap, IoSize)

ImplementsAddressSpace == Space!Spec
=============================================================================
