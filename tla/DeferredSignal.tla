--------------------------- MODULE DeferredSignal ---------------------------
(***************************************************************************)
(* The deferred completion of network tokens, MockDeferredSignal.c, on top *)
(* of the DPC queue.  Receive and Transmit of the protocol mocks schedule  *)
(* a token: a timer of 100 ns, whose notification function at TPL_CALLBACK *)
(* signals the token's event, dispatches the DPCs and frees its entry.     *)
(* The driver under test cancels tokens, from procedures too.              *)
(*                                                                         *)
(* The event services (EventCore) appear as far as they order these calls: *)
(* `queue` is the FIFO of notifications at TPL_CALLBACK and `now` the      *)
(* simulated time.  A token's event queues the token's DPC, as those of    *)
(* UdpIoLib and Ip6Dxe do; at TPL_NOTIFY it does so before SignalEvent     *)
(* returns.  Calls come from TPL_CALLBACK or below.                        *)
(***************************************************************************)
EXTENDS Dpc, FiniteSetsExt, Lists

CONSTANTS
    Tokens,       \* completion tokens, with their events
    NotifyTokens, \* those whose event notifies at TPL_NOTIFY
    DpcOf,        \* the procedure that the event of a token queues
    Entries,      \* blocks of the heap, each holds a MOCK_DEFERRED_ENTRY
    NoEntry,
    MaxTime       \* bound: the simulated time

ASSUME DeferredAssumption ==
    /\ NotifyTokens \subseteq Tokens
    /\ DpcOf \in [Tokens -> Dpcs]
    /\ NoEntry \notin Entries
    /\ Entries \cap Tokens = {}
    /\ MaxTime \in Nat

VARIABLES
    advanceContext, \* whether gMockEventAdvanceContext is set
    PendingList,
    entry,          \* contents of the blocks
    queue,          \* notifications at TPL_CALLBACK: entries and tokens
    now,            \* mEfiSystemTime
    delivery,       \* the DeliverCallback under way, and its stack depth
    undefined       \* freed memory has been used

deferredVars == <<advanceContext, PendingList, entry, queue, now, delivery, undefined>>
allVars == <<vars, deferredVars>>

(* A block is free, or its timer is armed, or the notification of its      *)
(* timer is queued or running.                                             *)
Free == [timer |-> "free", token |-> CHOOSE t \in Tokens : TRUE, trigger |-> 0]
NoDelivery == [entry |-> NoEntry, depth |-> 0]

DeferredInit ==
    /\ Init
    /\ advanceContext \in BOOLEAN
    /\ PendingList = <<>>
    /\ entry = [e \in Entries |-> Free]
    /\ queue = <<>>
    /\ now = 0
    /\ delivery = NoDelivery
    /\ undefined = FALSE

(* DeliverCallback has returned from DispatchDpc. *)
AtFinish == delivery # NoDelivery /\ Len(frames) = delivery.depth

Runs == ~AtFinish /\ ~undefined
Calls == Runs /\ Call

-----------------------------------------------------------------------------
(* CoreSignalEvent on the event of token t, with q queued at TPL_CALLBACK.  *)
SignalToken(t, q) ==
    IF t \in NotifyTokens
    THEN Enqueue(DpcOf[t]) /\ queue' = q
    ELSE queue' = (IF t \in Range(q) THEN q ELSE Append(q, t)) /\ UNCHANGED ringVars

(* The driver hands in token t.  Without an advance context the token is   *)
(* completed at once, otherwise in a block of the heap.                    *)
MockDeferredSchedule(t) ==
    /\ Calls
    /\ IF advanceContext
       THEN /\ \E e \in Entries \ {delivery.entry} :
                  /\ entry[e].timer = "free"
                  /\ entry' = [entry EXCEPT ![e] =
                                  [timer |-> "armed", token |-> t, trigger |-> now + 1]]
                  /\ PendingList' = Append(PendingList, e)
            /\ UNCHANGED <<ringVars, mInsideDispatch, frames, queue>>
       ELSE /\ SignalToken(t, queue)
            /\ StartDrain
            /\ UNCHANGED <<PendingList, entry>>
    /\ UNCHANGED <<advanceContext, now, delivery, undefined>>

(* mutant: the timer events are not closed. *)
ReleaseOpen(es) ==
    /\ PendingList' = Without(PendingList, es)
    /\ entry' = [e \in Entries |-> IF e \in es THEN Free ELSE entry[e]]
    /\ UNCHANGED queue

(* Cancels the timers of the entries es, closes their events, unlinks and  *)
(* frees them.  Closing an event takes it off the queue.                   *)
Release(es) ==
    /\ PendingList' = Without(PendingList, es)
    /\ entry' = [e \in Entries |-> IF e \in es THEN Free ELSE entry[e]]
    /\ queue' = Without(queue, es)

(* Cancel: the first entry with the token. *)
MockDeferredCancel(t) ==
    /\ Calls
    /\ LET found == {i \in 1 .. Len(PendingList) : entry[PendingList[i]].token = t}
       IN  Release(IF found = {} THEN {} ELSE {PendingList[Min(found)]})
    /\ UNCHANGED <<ringVars, mInsideDispatch, frames, advanceContext, now, delivery, undefined>>

(* Cancel without a token and Configure without data. *)
MockDeferredCancelAll ==
    /\ Calls
    /\ Release(Range(PendingList))
    /\ UNCHANGED <<ringVars, mInsideDispatch, frames, advanceContext, now, delivery, undefined>>

(* MockProtocolResetAll, from FuzzDriverStop: the reset functions of the   *)
(* mocks, which end in MockDeferredReset.                                  *)
MockProtocolResetAll ==
    /\ Runs /\ delivery = NoDelivery
    /\ ResetState
    /\ Release(Range(PendingList))
    /\ UNCHANGED <<advanceContext, now, delivery, undefined>>

(* The simulated clock advances, and the timers that expire queue their    *)
(* notifications in the order they were armed.                             *)
AdvanceTime ==
    /\ Calls /\ now < MaxTime
    /\ now' = now + 1
    /\ LET due == {e \in Entries : entry[e].timer = "armed" /\ entry[e].trigger <= now + 1}
       IN  /\ queue' = queue \o Without(PendingList, Entries \ due)
           /\ entry' = [e \in Entries |-> IF e \in due THEN [entry[e] EXCEPT !.timer = "queued"] ELSE entry[e]]
    /\ UNCHANGED <<ringVars, mInsideDispatch, frames, advanceContext, PendingList, delivery, undefined>>

(* The notification function of the timer of entry e signals the token. *)
Deliver(e) ==
    /\ entry' = [entry EXCEPT ![e].timer = "running"]
    /\ delivery' = [entry |-> e, depth |-> Len(frames)]
    /\ SignalToken(entry[e].token, Tail(queue))
    /\ UNCHANGED <<calls, advanceContext, PendingList, now, undefined>>

NotifyNext == Runs /\ delivery = NoDelivery /\ queue # <<>>

(* mutant: a drain under way is left to finish the work, as in             *)
(* MockDpcDrainQueue.                                                      *)
DeliverCallbackGivesWay ==
    /\ NotifyNext /\ Head(queue) \in Entries
    /\ Deliver(Head(queue))
    /\ IF mInsideDispatch THEN UNCHANGED <<mInsideDispatch, frames>> ELSE StartDrain

(* mutant: the delivery is put off while DPCs are pending. *)
DeliverCallbackPutsOff ==
    /\ NotifyNext /\ Head(queue) \in Entries
    /\ IF mDpcCount > 0
       THEN /\ queue' = Append(Tail(queue), Head(queue))
            /\ UNCHANGED <<vars, advanceContext, PendingList, entry, now, delivery, undefined>>
       ELSE Deliver(Head(queue)) /\ StartDrain

(***************************************************************************)
(* DeliverCallback signals the token's event and dispatches the DPCs.  It  *)
(* may interrupt code below TPL_CALLBACK anywhere, a drain included, but   *)
(* no other notification at TPL_CALLBACK.                                  *)
(***************************************************************************)
DeliverCallback ==
    /\ NotifyNext /\ Head(queue) \in Entries
    /\ Deliver(Head(queue))
    /\ StartDrain

(* Its end: the entry is unlinked and freed and its timer event closed,    *)
(* all of which a Cancel or CancelAll in a procedure has done already if   *)
(* the entry is no longer the running one.                                 *)
DeliverFinish ==
    /\ AtFinish /\ ~undefined
    /\ IF entry[delivery.entry].timer = "running"
       THEN Release({delivery.entry}) /\ UNCHANGED undefined
       ELSE undefined' = TRUE /\ UNCHANGED <<PendingList, entry, queue>>
    /\ delivery' = NoDelivery
    /\ UNCHANGED <<vars, advanceContext, now>>

(* The notification function of a token's event at TPL_CALLBACK. *)
TokenNotify ==
    /\ NotifyNext /\ Head(queue) \in Tokens
    /\ Enqueue(DpcOf[Head(queue)])
    /\ queue' = Tail(queue)
    /\ UNCHANGED <<mInsideDispatch, frames, calls, advanceContext, PendingList, entry, now, delivery,
                   undefined>>

(* Notifications run when the task priority falls below TPL_CALLBACK. *)
Notify == DeliverCallback \/ TokenNotify

DeferredService ==
    \/ DeliverFinish
    \/ Runs /\ Service /\ UNCHANGED deferredVars

DeferredNext ==
    \/ \E t \in Tokens : MockDeferredSchedule(t) \/ MockDeferredCancel(t)
    \/ MockDeferredCancelAll
    \/ MockProtocolResetAll
    \/ AdvanceTime
    \/ Notify
    \/ DeferredService
    \/ Runs /\ MockDpcDispatchDpc /\ UNCHANGED deferredVars

DeferredSpec == DeferredInit /\ [][DeferredNext]_allVars

(* The driver lowers the task priority in the end, and notifications and   *)
(* procedures run to their end.                                            *)
DeferredFairSpec == DeferredSpec /\ WF_allVars(Notify) /\ WF_allVars(DeferredService)

-----------------------------------------------------------------------------
(***************************************************************************)
(* The list, the heap and the event queue agree: an allocated entry is     *)
(* linked once and its timer is armed, or its notification is queued once, *)
(* or it is the one being delivered; no notification refers to a freed     *)
(* entry.  Cancel, CancelAll and the delivery itself each undo all three.  *)
(***************************************************************************)
PendingOwned ==
    ~undefined =>
        /\ IsInjective(PendingList)
        /\ Range(PendingList) = {e \in Entries : entry[e].timer # "free"}
        /\ IsInjective(queue)
        /\ Range(queue) \cap Entries = {e \in Entries : entry[e].timer = "queued"}
        /\ \A e \in Entries : entry[e].timer = "running" => delivery.entry = e

(***************************************************************************)
(* When a delivery ends no DPC is pending, so the completion it signalled  *)
(* has been processed, though it may have interrupted a drain.             *)
(***************************************************************************)
DeliveryDispatches == [][DeliverFinish => mDpcCount = 0]_allVars

(***************************************************************************)
(* Every notification at TPL_CALLBACK that is queued runs or is cancelled, *)
(* whatever the procedures it interrupts or starts do.                     *)
(***************************************************************************)
QueuedRuns ==
    \A n \in Entries \cup Tokens :
        (\E i \in 1 .. Len(queue) : queue[i] = n) /\ ~undefined
            ~> (\A i \in 1 .. Len(queue) : queue[i] # n) \/ undefined

(***************************************************************************)
(* An entry is freed once, by its delivery or by a cancellation            *)
(* (MockDeferredSignal.h:55, "freed on delivery or cancellation").         *)
(***************************************************************************)
FreedOnce == ~undefined
=============================================================================
