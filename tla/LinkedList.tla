----------------------------- MODULE LinkedList -----------------------------
(***************************************************************************)
(* The doubly linked lists of BaseLibHost/LinkedList.c, on which the event *)
(* queues, the protocol database and the mocks are built.  A head is a     *)
(* node like any other: a list is the ring of nodes through its head.  An  *)
(* entry that was removed keeps its links.  lists is the history of what   *)
(* the calls promise: the entries of every initialized list in order.      *)
(***************************************************************************)
EXTENDS Integers, Sequences, FiniteSets, SequencesExt

CONSTANTS Heads, Entries, Unset

Nodes == Heads \union Entries

VARIABLES
    links,      \* the ForwardLink and BackLink of every node
    lists       \* history: head -> entries in order, Unset before it is set up

listVars == <<links, lists>>

LinkedListInit ==
    /\ links = [n \in Nodes |-> [forward |-> Unset, back |-> Unset]]
    /\ lists = [h \in Heads |-> Unset]

----------------------------------------------------------------------------
(* What the functions do to the links.                                     *)

SetForward(l, n, m) == [l EXCEPT ![n].forward = m]
SetBack(l, n, m) == [l EXCEPT ![n].back = m]

InitializeListHead(l, h) == SetBack(SetForward(l, h, h), h, h)

InsertHeadList(l, h, e) ==
    LET l1 == SetBack(SetForward(l, e, l[h].forward), e, h)
    IN  SetForward(SetBack(l1, l1[e].forward, e), h, e)

InsertTailList(l, h, e) ==
    LET l1 == SetBack(SetForward(l, e, h), e, l[h].back)
    IN  SetBack(SetForward(l1, l1[e].back, e), h, e)

RemoveEntryList(l, e) ==
    SetForward(SetBack(l, l[e].forward, l[e].back), l[e].back, l[e].forward)

\* Mutant: neighbours are not told apart.
SwapApart(l, first, second) ==
    LET p == l[first].forward
        removed == RemoveEntryList(l, first)
        inserted == InsertHeadList(removed, second, first)
    IN  IF first = second THEN l
        ELSE InsertTailList(RemoveEntryList(inserted, second), p, second)

\* Two neighbours change places in one insertion; the general case moves
\* each entry to the other's place.
SwapListEntries(l, first, second) ==
    LET p == l[first].forward
        removed == RemoveEntryList(l, first)
        inserted == InsertHeadList(removed, second, first)
    IN  IF first = second THEN l
        ELSE IF removed[p].back = second
        THEN InsertTailList(removed, second, first)
        ELSE IF p = second
        THEN inserted
        ELSE InsertTailList(RemoveEntryList(inserted, second), p, second)

----------------------------------------------------------------------------
(* The functions that only look.                                           *)

InternalBaseLibIsListValid(l, n) == l[n].forward # Unset /\ l[n].back # Unset
GetFirstNode(l, h) == l[h].forward
GetNextNode(l, n) == l[n].forward
GetPreviousNode(l, n) == l[n].back
IsListEmpty(l, h) == l[h].forward = h
IsNull(h, n) == n = h
IsNodeAtEnd(l, h, n) == ~IsNull(h, n) /\ l[h].back = n

\* The nodes met from n on, walked no further than once around.
Ring(l, n) ==
    LET met[k \in 0..Cardinality(Nodes)] ==
            IF k = 0 THEN n ELSE l[met[k - 1]].forward
    IN  {met[k] : k \in 1..Cardinality(Nodes)}
IsNodeInList(l, n, m) == m \in Ring(l, n)

----------------------------------------------------------------------------
(* The calls.  A caller links an entry that is in no list, and removes and *)
(* swaps entries that are in one.                                          *)

Ready == {h \in Heads : lists[h] # Unset}
Linked == UNION {Range(lists[h]) : h \in Ready}

Initialize(h) ==
    /\ links' = InitializeListHead(links, h)
    /\ lists' = [lists EXCEPT ![h] = <<>>]

InsertHead(h, e) ==
    /\ h \in Ready /\ e \notin Linked
    /\ links' = InsertHeadList(links, h, e)
    /\ lists' = [lists EXCEPT ![h] = <<e>> \o @]

InsertTail(h, e) ==
    /\ h \in Ready /\ e \notin Linked
    /\ links' = InsertTailList(links, h, e)
    /\ lists' = [lists EXCEPT ![h] = Append(@, e)]

RemoveEntry(h, e) ==
    /\ h \in Ready /\ e \in Range(lists[h])
    /\ links' = RemoveEntryList(links, e)
    /\ lists' = [lists EXCEPT ![h] = SelectSeq(@, LAMBDA f : f # e)]

Swap(h, e, f) ==
    LET Other(g) == CASE g = e -> f [] g = f -> e [] OTHER -> g
    IN  /\ h \in Ready /\ {e, f} \subseteq Range(lists[h])
        /\ links' = SwapListEntries(links, e, f)
        /\ lists' = [lists EXCEPT ![h] = [i \in DOMAIN @ |-> Other(@[i])]]
    
LinkedListNext ==
    \/ \E h \in Heads : Initialize(h)
    \/ \E h \in Heads, e \in Entries :
            InsertHead(h, e) \/ InsertTail(h, e) \/ RemoveEntry(h, e)
    \/ \E h \in Heads, e, f \in Entries : Swap(h, e, f)

----------------------------------------------------------------------------
(* Every list is the ring its calls have built: forward from the head and  *)
(* backward to it one meets its entries in order, and the functions that   *)
(* look tell just these entries, the first, the last and the neighbours.   *)
(* A wrong order of the four assignments of an insertion, or a swap of     *)
(* neighbours treated like any other, breaks one direction only.           *)
ListsHold ==
    \A h \in Ready :
        LET ring == <<h>> \o lists[h]
            n == Len(ring)
        IN  /\ \A i \in 1..n :
                    /\ GetNextNode(links, ring[i]) = ring[IF i = n THEN 1 ELSE i + 1]
                    /\ GetPreviousNode(links, ring[i]) = ring[IF i = 1 THEN n ELSE i - 1]
                    /\ IsNodeAtEnd(links, h, ring[i]) <=> i = n /\ i > 1
            /\ InternalBaseLibIsListValid(links, h)
            /\ IsListEmpty(links, h) <=> lists[h] = <<>>
            /\ {e \in Entries : IsNodeInList(links, h, e)} = Range(lists[h])
=============================================================================
