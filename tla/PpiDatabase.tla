------------------------------ MODULE PpiDatabase ------------------------------
(***************************************************************************)
(* Ppi.c: the PEI database of PPIs and of the notifications on them.       *)
(* Notify functions run inside the service that matches them and may call  *)
(* every service again, so calls of ProcessNotify nest.  Callback          *)
(* notifications are matched where a PPI or a notification is installed,   *)
(* dispatch notifications when the PEI dispatcher drains them.             *)
(***************************************************************************)
EXTENDS Integers, Sequences, SequencesExt, FiniteSets

CONSTANTS
    Guid,                      \* the GUID of each PPI descriptor and notify descriptor
    NotaPpi,                   \* the descriptors without the flag of their kind
    Dispatched,                \* the notify descriptors of dispatch level
    PpiLists, NotifyLists,     \* the descriptor lists that PEIMs install
    Reinstalls,                \* the pairs <<OldPpi, NewPpi>> of PEIMs
    MaxPeiCalls                \* bound: calls of the services

ASSUME PpiAssumption ==
    /\ <<>> \notin PpiLists \cup NotifyLists
    /\ \A list \in PpiLists \cup NotifyLists : Range(list) \subseteq DOMAIN Guid
    /\ \A pair \in Reinstalls : Range(pair) \subseteq DOMAIN Guid

VARIABLES
    ppis,                      \* PpiList: PpiPtrs up to CurrentCount
    callbacks, dispatches,     \* CallbackNotifyList and DispatchNotifyList, likewise
    ppiDone, dispatchDone,     \* LastDispatchedCount of PpiList and of DispatchNotifyList
    draining,                  \* where ProcessDispatchNotifyList is: "no", "notifies", "ppis"
    walks,                     \* the running calls of ProcessNotify, the innermost first
    peiCalls,                  \* the calls made
    told,                      \* the descriptors each notification was told of, by index
    versions, renewed          \* how often each index was (re)installed; from inside a notification

ppiVars == <<ppis, callbacks, dispatches, ppiDone, dispatchDone, draining, walks, peiCalls,
             told, versions, renewed>>

PpiInit ==
    /\ ppis = <<>> /\ callbacks = <<>> /\ dispatches = <<>>
    /\ ppiDone = 0 /\ dispatchDone = 0 /\ draining = "no"
    /\ walks = <<>> /\ peiCalls = 0
    /\ told = <<>> /\ versions = <<>> /\ renewed = {}

(* mutant: a walk starts at the first notification.                        *)
WalkFromFirst(type, pFrom, pTo, nFrom, nTo, settle) ==
    [type |-> type, pFrom |-> pFrom, pTo |-> pTo, nTo |-> nTo, at |-> <<1, pFrom>>, settle |-> settle]

(* A call of ProcessNotify: the notifications after nFrom up to nTo, each  *)
(* with the PPIs after pFrom up to pTo; at is the pair whose notify        *)
(* function runs, settle the LastDispatchedCount it leaves behind.         *)
Walk(type, pFrom, pTo, nFrom, nTo, settle) ==
    [type |-> type, pFrom |-> pFrom, pTo |-> pTo, nTo |-> nTo, at |-> <<nFrom + 1, pFrom>>,
     settle |-> settle]

Notifies(type) == IF type = "callback" THEN callbacks ELSE dispatches

Before(a, b) == a[1] < b[1] \/ (a[1] = b[1] /\ a[2] < b[2])

(* The pairs that a walk has yet to call, with the lists as they are now.  *)
Matching(walk, list, notifies) ==
    {pair \in (walk.at[1] .. walk.nTo) \X (walk.pFrom + 1 .. walk.pTo) :
        /\ Before(walk.at, pair)
        /\ Guid[notifies[pair[1]]] = Guid[list[pair[2]]]}

First(pairs) == CHOOSE a \in pairs : \A b \in pairs : a = b \/ Before(a, b)

Tell(type, pair, descriptor) ==
    LET key == <<type, pair[1], pair[2]>>
        earlier == IF key \in DOMAIN told THEN told[key] ELSE <<>>
    IN  [k \in DOMAIN told \cup {key} |-> IF k = key THEN Append(earlier, descriptor) ELSE told[k]]

Settle(settle) ==
    /\ ppiDone' = IF settle[1] = "ppis" THEN settle[2] ELSE ppiDone
    /\ dispatchDone' = IF settle[1] = "notifies" THEN settle[2] ELSE dispatchDone

(* ProcessNotify calls the next notify function with the PPI that its      *)
(* index holds now, or ends.                                               *)
ProcessNotify(walk, under, list, notifies) ==
    LET pairs == Matching(walk, list, notifies) IN
    IF pairs = {} THEN
        walks' = under /\ Settle(walk.settle) /\ UNCHANGED told
    ELSE
        /\ walks' = <<[walk EXCEPT !.at = First(pairs)]>> \o under
        /\ told' = Tell(walk.type, First(pairs), list[First(pairs)[2]])
        /\ UNCHANGED <<ppiDone, dispatchDone>>

(* The descriptors of a list up to the one that ends it, or none when one  *)
(* of them is no good: CurrentCount goes back to where it was.             *)
Good(list) == Range(list) \cap NotaPpi = {}

(* PEIMs call the services from the dispatcher and from notify functions.  *)
Call ==
    /\ draining = "no" \/ walks # <<>>
    /\ peiCalls < MaxPeiCalls
    /\ peiCalls' = peiCalls + 1

InstallPpi ==
    \E list \in PpiLists :
        /\ Call
        /\ IF Good(list) THEN
               /\ ppis' = ppis \o list
               /\ versions' = versions \o [i \in 1 .. Len(list) |-> 1]
               /\ ProcessNotify(Walk("callback", Len(ppis), Len(ppis'), 0, Len(callbacks), <<"none">>),
                                walks, ppis', callbacks)
           ELSE UNCHANGED <<ppis, versions, walks, told, ppiDone, dispatchDone>>
        /\ UNCHANGED <<callbacks, dispatches, draining, renewed>>

(* The first index that holds OldPpi.                                      *)
ReInstallPpi ==
    \E pair \in Reinstalls :
        /\ Call
        /\ IF pair[2] \notin NotaPpi /\ Contains(ppis, pair[1]) THEN
               LET index == SelectInSeq(ppis, LAMBDA d : d = pair[1]) IN
               /\ ppis' = [ppis EXCEPT ![index] = pair[2]]
               /\ versions' = [versions EXCEPT ![index] = @ + 1]
               /\ renewed' = IF walks = <<>> THEN renewed ELSE renewed \cup {index}
               /\ ProcessNotify(Walk("callback", index - 1, index, 0, Len(callbacks), <<"none">>),
                                walks, ppis', callbacks)
           ELSE UNCHANGED <<ppis, versions, renewed, walks, told, ppiDone, dispatchDone>>
        /\ UNCHANGED <<callbacks, dispatches, draining>>

(* A list may mix both levels; only the new callbacks are matched at once. *)
NotifyPpi ==
    \E list \in NotifyLists :
        /\ Call
        /\ IF Good(list) THEN
               /\ callbacks' = callbacks \o SelectSeq(list, LAMBDA d : d \notin Dispatched)
               /\ dispatches' = dispatches \o SelectSeq(list, LAMBDA d : d \in Dispatched)
               /\ ProcessNotify(Walk("callback", 0, Len(ppis), Len(callbacks), Len(callbacks'), <<"none">>),
                                walks, ppis, callbacks')
           ELSE UNCHANGED <<callbacks, dispatches, walks, told, ppiDone, dispatchDone>>
        /\ UNCHANGED <<ppis, draining, versions, renewed>>

NotifyReturns ==
    /\ walks # <<>>
    /\ ProcessNotify(Head(walks), Tail(walks), ppis, Notifies(Head(walks).type))
    /\ UNCHANGED <<ppis, callbacks, dispatches, draining, peiCalls, versions, renewed>>

(* ProcessDispatchNotifyList: new notifications with the old PPIs until    *)
(* there is none, then new PPIs with all of them, until neither is left.   *)
StartDraining ==
    /\ walks = <<>> /\ draining = "no" /\ Call
    /\ draining' = "notifies"
    /\ UNCHANGED <<ppis, callbacks, dispatches, ppiDone, dispatchDone, walks, told, versions, renewed>>

DrainNotifies ==
    /\ walks = <<>> /\ draining = "notifies"
    /\ IF dispatchDone # Len(dispatches) THEN
           /\ ProcessNotify(Walk("dispatch", 0, ppiDone, dispatchDone, Len(dispatches),
                                 <<"notifies", Len(dispatches)>>), <<>>, ppis, dispatches)
           /\ UNCHANGED draining
       ELSE draining' = "ppis" /\ UNCHANGED <<walks, told, ppiDone, dispatchDone>>
    /\ UNCHANGED <<ppis, callbacks, dispatches, peiCalls, versions, renewed>>

DrainPpis ==
    /\ walks = <<>> /\ draining = "ppis"
    /\ IF ppiDone # Len(ppis) THEN
           /\ ProcessNotify(Walk("dispatch", ppiDone, Len(ppis), 0, dispatchDone,
                                 <<"ppis", Len(ppis)>>), <<>>, ppis, dispatches)
           /\ UNCHANGED draining
       ELSE /\ draining' = IF dispatchDone = Len(dispatches) THEN "no" ELSE "notifies"
            /\ UNCHANGED <<walks, told, ppiDone, dispatchDone>>
    /\ UNCHANGED <<ppis, callbacks, dispatches, peiCalls, versions, renewed>>

(* PeiLocatePpi: counts the instances down while it scans the list; 0 is   *)
(* EFI_NOT_FOUND.                                                          *)
LocatePpi(guid, instance) ==
    LET scan[i \in 1 .. Len(ppis) + 1, left \in 0 .. instance] ==
            IF i > Len(ppis) THEN 0
            ELSE IF Guid[ppis[i]] # guid THEN scan[i + 1, left]
            ELSE IF left = 0 THEN i ELSE scan[i + 1, left - 1]
    IN  scan[1, instance]

PpiNext ==
    \/ InstallPpi \/ ReInstallPpi \/ NotifyPpi \/ NotifyReturns
    \/ StartDraining \/ DrainNotifies \/ DrainPpis

-----------------------------------------------------------------------------

Told(type, n, i) == IF <<type, n, i>> \in DOMAIN told THEN told[<<type, n, i>>] ELSE <<>>

(* Counting Instance up until EFI_NOT_FOUND.                               *)
Instances(guid) == {LocatePpi(guid, k) : k \in 0 .. Len(ppis)} \ {0}

(* Whatever PEIMs install inside notify functions: once none of them runs, *)
(* each callback notification has been told of every PPI of its GUID that  *)
(* PeiLocatePpi finds, which are all that are installed now; and none is   *)
(* told of the same installation twice, as the ranges of the nested and    *)
(* the interrupted walks are disjoint.  Only a PPI that is reinstalled     *)
(* inside a notify function may be told again, by the walk under way.      *)
EveryMatchToldOnce ==
    /\ walks = <<>> =>
          \A n \in DOMAIN callbacks :
              LET found == Instances(Guid[callbacks[n]]) IN
              /\ found = {i \in DOMAIN ppis : Guid[ppis[i]] = Guid[callbacks[n]]}
              /\ \A i \in found : Contains(Told("callback", n, i), ppis[i])
    /\ \A key \in DOMAIN told :
          key[3] \notin renewed => Len(told[key]) <= versions[key[3]]

(* ProcessDispatchNotifyList leaves no dispatch notification untold of a  *)
(* PPI of its GUID, what its notify functions installed included.          *)
DrainTellsAll ==
    [][draining # "no" /\ draining' = "no" =>
          \A n \in DOMAIN dispatches, i \in DOMAIN ppis :
              Guid[dispatches[n]] = Guid[ppis[i]] => Told("dispatch", n, i) # <<>>]_ppiVars

(* Both kinds of notifications are told of every PPI.                      *)
PpisTold == [][EveryMatchToldOnce']_ppiVars /\ DrainTellsAll

=============================================================================
