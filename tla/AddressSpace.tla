----------------------------- MODULE AddressSpace -----------------------------
(***************************************************************************)
(* What the GCD services promise: every address has one description, and a *)
(* service changes the addresses of the range it was given, all of them or *)
(* none, and no other address.  GcdMap.tla implements it with a list of    *)
(* entries that are split and merged.                                      *)
(***************************************************************************)
EXTENDS Integers

CONSTANTS
    MemorySize, IoSize,        \* addresses of memory and I/O space
    PageSize,
    MemoryKinds, IoKinds,      \* kinds that can be added
    BitSets,                   \* the capabilities and attributes that callers pass
    CpuBits,                   \* those that only the CPU protocol can set
    RuntimeBit, PortIoBit,
    Owners,                    \* image and device handles
    CoreOwner, NoOwner

VARIABLES memory, io

NonExistent == "NonExistent"
Unused == [kind |-> NonExistent, capabilities |-> {}, attributes |-> {}, owner |-> NoOwner]

Init ==
    /\ memory = [a \in 0 .. MemorySize - 1 |-> Unused]
    /\ io = [a \in 0 .. IoSize - 1 |-> Unused]

Whole(S) == \A a \in S : {b \in a - (a % PageSize) .. a - (a % PageSize) + PageSize - 1 : b \notin S} = {}
InWholePage(S, a) == a - (a % PageSize) .. a - (a % PageSize) + PageSize - 1 \subseteq S

(* Before becomes after by a change of the cells of the non-empty range S, *)
(* which all allow it.                                                     *)
Changes(before, after, S, Allowed(_), New(_, _)) ==
    /\ S # {} /\ S \subseteq DOMAIN before
    /\ \A a \in DOMAIN before \ S : after[a] = before[a]
    /\ \A a \in S : Allowed(before[a]) /\ after[a] = New(a, before[a])

Vacant(cell) == cell.kind = NonExistent /\ cell.owner = NoOwner
Present(cell) == cell.kind # NonExistent /\ cell.owner = NoOwner
Owned(cell) == cell.owner # NoOwner

(* The core takes the whole pages of system memory that is added.          *)
AddMemory(before, after, S, kind, capabilities) ==
    Changes(before, after, S, Vacant,
        LAMBDA a, cell : [cell EXCEPT
            !.kind = kind,
            !.capabilities = capabilities \cup {RuntimeBit}
                                \cup (IF kind = "MemoryMappedIo" THEN {PortIoBit} ELSE {}),
            !.owner = IF kind = "SystemMemory" /\ InWholePage(S, a) THEN CoreOwner ELSE NoOwner])

AllocateMemory(before, after, S, kind, owner) ==
    Changes(before, after, S, LAMBDA cell : cell.kind = kind /\ cell.owner = NoOwner,
            LAMBDA a, cell : [cell EXCEPT !.owner = owner])

FreeMemory(before, after, S) == Changes(before, after, S, Owned, LAMBDA a, cell : [cell EXCEPT !.owner = NoOwner])

RemoveMemory(before, after, S) ==
    Changes(before, after, S, Present, LAMBDA a, cell : [cell EXCEPT !.kind = NonExistent, !.capabilities = {}])

SetAttributes(before, after, S, attributes) ==
    /\ attributes \cap CpuBits = {}
    /\ RuntimeBit \in attributes => Whole(S)
    /\ Changes(before, after, S, LAMBDA cell : attributes \subseteq cell.capabilities,
               LAMBDA a, cell : [cell EXCEPT !.attributes = attributes])

SetCapabilities(before, after, S, capabilities) ==
    /\ Whole(S)
    /\ Changes(before, after, S, LAMBDA cell : cell.attributes \subseteq capabilities,
               LAMBDA a, cell : [cell EXCEPT !.capabilities = capabilities])

AddIo(before, after, S, kind) == Changes(before, after, S, Vacant, LAMBDA a, cell : [cell EXCEPT !.kind = kind])
AllocateIo(before, after, S, kind, owner) ==
    Changes(before, after, S, LAMBDA cell : cell.kind = kind /\ cell.owner = NoOwner,
            LAMBDA a, cell : [cell EXCEPT !.owner = owner])
FreeIo(before, after, S) == Changes(before, after, S, Owned, LAMBDA a, cell : [cell EXCEPT !.owner = NoOwner])
RemoveIo(before, after, S) == Changes(before, after, S, Present, LAMBDA a, cell : [cell EXCEPT !.kind = NonExistent])

MemoryStep(before, after) ==
    \E low, high \in 0 .. MemorySize - 1 :
        \/ \E kind \in MemoryKinds, capabilities \in BitSets : AddMemory(before, after, low .. high, kind, capabilities)
        \/ \E kind \in MemoryKinds \cup {NonExistent}, owner \in Owners : AllocateMemory(before, after, low .. high, kind, owner)
        \/ FreeMemory(before, after, low .. high)
        \/ RemoveMemory(before, after, low .. high)
        \/ \E bits \in BitSets : SetAttributes(before, after, low .. high, bits) \/ SetCapabilities(before, after, low .. high, bits)

IoStep(before, after) ==
    \E low, high \in 0 .. IoSize - 1 :
        \/ \E kind \in IoKinds : AddIo(before, after, low .. high, kind)
        \/ \E kind \in IoKinds \cup {NonExistent}, owner \in Owners : AllocateIo(before, after, low .. high, kind, owner)
        \/ FreeIo(before, after, low .. high)
        \/ RemoveIo(before, after, low .. high)

Next ==
    \/ \E before \in {memory}, after \in {memory'} : MemoryStep(before, after) /\ UNCHANGED io
    \/ \E before \in {io}, after \in {io'} : IoStep(before, after) /\ UNCHANGED memory

Spec == Init /\ [][Next]_<<memory, io>>
=============================================================================
