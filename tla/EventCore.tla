------------------------------ MODULE EventCore ------------------------------
(***************************************************************************)
(* Events, timers, task priority levels and the simulated clock of the     *)
(* host boot services (TplDxeCore.c, EventDxeCore.c, TimerDxeCore.c,       *)
(* Library.c, MockTimerHost.c).                                            *)
(*                                                                         *)
(* There is one thread.  Interleaving comes from notification functions,   *)
(* which run whenever a call lowers the task priority level, releasing a   *)
(* lock included, and which may call any service themselves.  `stack` is   *)
(* the C call stack, cut at the points where such a callback can run: a    *)
(* frame is a piece of code still to be executed.                          *)
(***************************************************************************)
EXTENDS Integers, Sequences, FiniteSets, SequencesExt

CONSTANTS
    UserEvents,     \* event objects that clients may create
    CheckTimer,     \* mEfiCheckTimerEvent
    Idle,           \* gIdleLoopEvent
    NoEvent,        \* the absence of an event
    NoGroup,        \* the absence of an EventGroup
    IdleGroup,      \* gIdleLoopEventGuid
    Requests,       \* arguments CreateEventEx is called with
    WaitLists,      \* arrays WaitForEvent is called with
    Delays,         \* TriggerTime arguments SetTimer is called with
    Durations,      \* durations MockTimerAdvance100ns is called with
    DefaultPeriod,  \* DEFAULT_TIMER_TICK_DURATION
    PollTick,       \* what CheckEvent advances the clock by
    MaxIterations,  \* passes WaitForEvent makes over its array
    MaxCalls        \* bound: service calls clients make in one iteration

Events == UserEvents \cup {CheckTimer, Idle}

APPLICATION == 4
CALLBACK    == 8
NOTIFY      == 16
TIMER       == 30   \* mEfiTimerLock and the check-timer event
HIGH        == 31

UserTpls  == {APPLICATION, CALLBACK, NOTIFY, HIGH}
NotifyTpls == {CALLBACK, NOTIFY, TIMER}
Tpls      == UserTpls \cup {TIMER}

(***************************************************************************)
(* mEventTable: the types CreateEvent accepts.  EVT_RUNTIME and the list   *)
(* of runtime events it feeds are left out.                                *)
(***************************************************************************)
mEventTable == { {"TIMER", "SIGNAL"}, {"TIMER"}, {"WAIT"}, {"SIGNAL"}, {},
                 {"TIMER", "WAIT"} }

NeedsNotify(r) == r.type \cap {"WAIT", "SIGNAL"} # {}

Groups == {NoGroup, IdleGroup} \cup {r.group : r \in Requests}
Attribute == { a \in [type : mEventTable, tpl : NotifyTpls \cup {0}, group : Groups] :
                  NeedsNotify(a) => a.tpl # 0 }

ASSUME EventCoreAssumption ==
    /\ CheckTimer \notin UserEvents /\ Idle \notin UserEvents /\ CheckTimer # Idle
    /\ NoEvent \notin Events
    /\ NoGroup # IdleGroup
    /\ \A r \in Requests : r.fn \in BOOLEAN
    /\ Delays \subseteq Nat /\ Durations \subseteq Nat \ {0}
    /\ DefaultPeriod \in Nat \ {0} /\ PollTick \in Nat \ {0}
    /\ MaxIterations \in Nat \ {0} /\ MaxCalls \in Nat
    /\ WaitLists \subseteq Seq(UserEvents) \ {<<>>}

VARIABLES
    tpl,         \* gEfiCurrentTpl
    pending,     \* gEventPending, as the set of bits that are 1
    queue,       \* gEventQueue
    signalList,  \* gEventSignalQueue
    live,        \* the events that exist (Signature = EVENT_SIGNATURE)
    attr,        \* what an event was created with
    signalCount, \* IEVENT.SignalCount
    timerList,   \* mEfiTimerList
    trigger,     \* IEVENT.Timer.TriggerTime
    period,      \* IEVENT.Timer.Period
    now,         \* mEfiSystemTime
    masked,      \* gPendingTimerDuration
    stack,       \* the call stack, innermost frame last
    wait,        \* the locals of WaitForEvent, idx its *UserIndex, and its status
    calls        \* calls left to clients in this iteration

eventVars == <<pending, queue, signalCount>>
dbVars    == <<signalList, live, attr>>
timerVars == <<timerList, trigger, period>>
clockVars == <<now, masked>>
vars == <<tpl, eventVars, dbVars, timerVars, clockVars, stack, wait, calls>>

-----------------------------------------------------------------------------
(* The call stack. *)

(***************************************************************************)
(* pc says what the frame does next, tpl the level at which it was entered *)
(* or to which it returns, ev the event it works on, n a local variable.   *)
(*   client      harness code, or the notification function of ev          *)
(*   restore     CoreRestoreTpl (tpl)                                      *)
(*   dispatch    the loop of CoreDispatchEventNotifies (tpl)               *)
(*   start       about to call ev's NotifyFunction                         *)
(*   empty       EfiEventEmptyFunction                                     *)
(*   checkTimers the loop of CoreCheckTimers, n the SystemTime it sampled  *)
(*   rearm       CoreCheckTimers after it signalled ev                     *)
(*   group       CoreSignalEvent of a group member; n = 0: the lock is     *)
(*               free, n > 0: CoreNotifySignalList is at link n            *)
(*   check       CoreCheckEvent after the wait notification                *)
(*   checkReturn CoreCheckEvent returning, n = 1 for EFI_SUCCESS           *)
(*   wait        the loops of CoreWaitForEvent                             *)
(*   unlink      CoreCloseEvent after the timer was cancelled              *)
(*   free        CoreCloseEvent after the event was unlinked               *)
(*   force       MockTimerAdvance100ns after the tick                      *)
(***************************************************************************)
Pcs == { "client", "restore", "dispatch", "start", "empty", "checkTimers",
         "rearm", "group", "check", "checkReturn", "wait", "unlink", "free",
         "force" }

Frame(pc, t, e, n) == [pc |-> pc, tpl |-> t, ev |-> e, n |-> n]
FrameType == [pc : Pcs, tpl : Tpls, ev : Events \cup {NoEvent}, n : Nat]

Top    == Last(stack)
Below  == Front(stack)
At(pc) == Top.pc = pc
Restore(s, t) == Append(s, Frame("restore", t, NoEvent, 0))

-----------------------------------------------------------------------------
(* The event queue and the timer list. *)

Quiet(t) == \A p \in pending : p <= t

(* CoreNotifyEvent: the event moves to the tail of its level's queue. *)
NotifyQueue(e) == [queue EXCEPT ![attr[e].tpl] = Append(RemoveFirst(@, e), e)]
CoreNotifyEvent(e) ==
    /\ queue' = NotifyQueue(e)
    /\ pending' = pending \cup {attr[e].tpl}

(* CoreSignalEvent (mEfiCheckTimerEvent), called at TIMER or HIGH, where   *)
(* releasing the queue lock unmasks no level.                              *)
SignalCheckTimer ==
    /\ signalCount' = [signalCount EXCEPT ![CheckTimer] = 1]
    /\ IF signalCount[CheckTimer] = 0
       THEN CoreNotifyEvent(CheckTimer)
       ELSE UNCHANGED <<pending, queue>>

(* CoreSignalEvent (e) on behalf of the code in s, which runs at level t.  *)
CoreSignalEvent(s, t, e) ==
    /\ tpl' = HIGH
    /\ signalCount' = [signalCount EXCEPT ![e] = 1]
    /\ \/ /\ signalCount[e] = 0 /\ "SIGNAL" \in attr[e].type /\ attr[e].group = NoGroup
          /\ CoreNotifyEvent(e)
          /\ stack' = Restore(s, t)
       \/ /\ signalCount[e] = 0 /\ "SIGNAL" \in attr[e].type /\ attr[e].group # NoGroup
          /\ stack' = Restore(Append(s, Frame("group", t, e, 0)), t)
          /\ UNCHANGED <<pending, queue>>
       \/ /\ signalCount[e] # 0 \/ "SIGNAL" \notin attr[e].type
          /\ stack' = Restore(s, t)
          /\ UNCHANGED <<pending, queue>>

(* CoreInsertEventTimer: before the first timer that triggers later. *)
InsertPosition(l, time) ==
    CHOOSE i \in 1 .. Len(l) + 1 :
        /\ i <= Len(l) => trigger[l[i]] > time
        /\ \A j \in 1 .. i - 1 : trigger[l[j]] <= time
CoreInsertEventTimer(l, e, time) == InsertAt(l, InsertPosition(l, time), e)

Expired(time) == timerList # <<>> /\ trigger[Head(timerList)] <= time

(* CoreTimerTick: the check-timer event is signalled when the head of the  *)
(* timer list has expired.                                                 *)
CoreTimerTick(d) ==
    /\ now' = now + d
    /\ IF Expired(now + d)
       THEN SignalCheckTimer
       ELSE UNCHANGED eventVars

-----------------------------------------------------------------------------
(* Task priority levels and dispatch. *)

(* mutant: the masked time is forgotten. *)
RestoreForget ==
    /\ At("restore") /\ tpl = HIGH /\ Top.tpl < HIGH /\ masked > 0
    /\ masked' = 0
    /\ CoreTimerTick(0)
    /\ UNCHANGED <<tpl, dbVars, timerVars, stack, wait, calls>>

(* CoreRestoreTpl, on leaving HIGH: time that passed while interrupts were *)
(* masked is delivered before anything is dispatched.                      *)
RestoreConsume ==
    /\ At("restore") /\ tpl = HIGH /\ Top.tpl < HIGH /\ masked > 0
    /\ masked' = 0
    /\ CoreTimerTick(masked)
    /\ UNCHANGED <<tpl, dbVars, timerVars, stack, wait, calls>>

MaskedDelivered == tpl = HIGH /\ Top.tpl < HIGH => masked = 0

(* mutant: the level is restored with higher levels still pending. *)
RestoreEarly ==
    /\ At("restore") /\ MaskedDelivered
    /\ tpl' = Top.tpl
    /\ stack' = Below
    /\ UNCHANGED <<eventVars, dbVars, timerVars, clockVars, wait, calls>>

(* One turn of CoreRestoreTpl's loop: the highest pending level above the  *)
(* level to restore is dispatched at that level.                           *)
RestoreDispatch ==
    /\ At("restore") /\ MaskedDelivered
    /\ \E p \in pending :
          /\ p > Top.tpl /\ Quiet(p)
          /\ tpl' = p
          /\ stack' = Append(stack, Frame("dispatch", p, NoEvent, 0))
    /\ UNCHANGED <<eventVars, dbVars, timerVars, clockVars, wait, calls>>

RestoreDone ==
    /\ At("restore") /\ MaskedDelivered
    /\ Quiet(Top.tpl)
    /\ tpl' = Top.tpl
    /\ stack' = Below
    /\ UNCHANGED <<eventVars, dbVars, timerVars, clockVars, wait, calls>>

(* mutant: the signaled state survives the dispatch. *)
DispatchStaysSignaled ==
    /\ At("dispatch") /\ queue[Top.tpl] # <<>>
    /\ LET e == Head(queue[Top.tpl]) IN
          /\ queue' = [queue EXCEPT ![Top.tpl] = Tail(@)]
          /\ stack' = Restore(Append(stack, Frame("start", Top.tpl, e, 0)), Top.tpl)
    /\ tpl' = HIGH
    /\ UNCHANGED <<signalCount, pending, dbVars, timerVars, clockVars, wait, calls>>

(* mutant: the event queued last is dispatched first. *)
DispatchLast ==
    /\ At("dispatch") /\ queue[Top.tpl] # <<>>
    /\ LET q == queue[Top.tpl]
           e == q[Len(q)]
       IN /\ queue' = [queue EXCEPT ![Top.tpl] = SubSeq(q, 1, Len(q) - 1)]
          /\ signalCount' = IF "SIGNAL" \in attr[e].type
                            THEN [signalCount EXCEPT ![e] = 0] ELSE signalCount
          /\ stack' = Restore(Append(stack, Frame("start", Top.tpl, e, 0)), Top.tpl)
    /\ tpl' = HIGH
    /\ UNCHANGED <<pending, dbVars, timerVars, clockVars, wait, calls>>

(* One turn of CoreDispatchEventNotifies' loop, up to the release of the   *)
(* queue lock.  Only signal events lose their signaled state here.         *)
DispatchNext ==
    /\ At("dispatch") /\ queue[Top.tpl] # <<>>
    /\ LET e == Head(queue[Top.tpl]) IN
          /\ queue' = [queue EXCEPT ![Top.tpl] = Tail(@)]
          /\ signalCount' = IF "SIGNAL" \in attr[e].type
                            THEN [signalCount EXCEPT ![e] = 0] ELSE signalCount
          /\ stack' = Restore(Append(stack, Frame("start", Top.tpl, e, 0)), Top.tpl)
    /\ tpl' = HIGH
    /\ UNCHANGED <<pending, dbVars, timerVars, clockVars, wait, calls>>

(* mutant: the dispatcher may leave its loop early. *)
DispatchLeave ==
    /\ At("dispatch")
    /\ pending' = pending \ {Top.tpl}
    /\ stack' = Restore(Below, Top.tpl)
    /\ tpl' = HIGH
    /\ UNCHANGED <<queue, signalCount, dbVars, timerVars, clockVars, wait, calls>>

DispatchDone ==
    /\ At("dispatch") /\ queue[Top.tpl] = <<>>
    /\ pending' = pending \ {Top.tpl}
    /\ stack' = Restore(Below, Top.tpl)
    /\ tpl' = HIGH
    /\ UNCHANGED <<queue, signalCount, dbVars, timerVars, clockVars, wait, calls>>

(* Event->NotifyFunction (Event, Event->NotifyContext).  CoreCheckTimers   *)
(* takes mEfiTimerLock and samples the time; a client runs its own code.   *)
NotifyFunction ==
    /\ At("start")
    /\ stack' = Append(Below,
          CASE Top.ev = CheckTimer -> [Top EXCEPT !.pc = "checkTimers", !.n = now]
            [] Top.ev = Idle       -> [Top EXCEPT !.pc = "empty"]
            [] OTHER               -> [Top EXCEPT !.pc = "client"])
    /\ UNCHANGED <<tpl, eventVars, dbVars, timerVars, clockVars, wait, calls>>

(* A notification function returns.  Like the code, this relies on it      *)
(* having restored the level it was called at.                             *)
NotifyReturn ==
    /\ At("client") \/ At("empty")
    /\ Len(stack) > 1 /\ tpl = Top.tpl
    /\ stack' = Below
    /\ UNCHANGED <<tpl, eventVars, dbVars, timerVars, clockVars, wait, calls>>

-----------------------------------------------------------------------------
(* CoreCheckTimers, at TIMER and with mEfiTimerLock held. *)

CheckTimersSignal ==
    /\ At("checkTimers") /\ Expired(Top.n)
    /\ LET e == Head(timerList) IN
          CoreSignalEvent(Append(stack, Frame("rearm", TIMER, e, Top.n)), TIMER, e)
    /\ timerList' = Tail(timerList)
    /\ UNCHANGED <<dbVars, trigger, period, clockVars, wait, calls>>

(* The next trigger time of a periodic timer: one period on, or now when   *)
(* that has passed too.                                                    *)
NextTrigger(e, time) ==
    LET t == trigger[e] + period[e] IN IF t <= time THEN time ELSE t

(* mutant: a periodic timer that is late again is not put back. *)
CheckTimersRearmOnTime ==
    /\ At("rearm")
    /\ LET e == Top.ev
           t == NextTrigger(e, Top.n)
       IN  IF period[e] # 0
           THEN /\ trigger' = [trigger EXCEPT ![e] = t]
                /\ IF trigger[e] + period[e] <= Top.n
                   THEN SignalCheckTimer /\ UNCHANGED timerList
                   ELSE /\ timerList' = CoreInsertEventTimer(timerList, e, t)
                        /\ UNCHANGED eventVars
           ELSE UNCHANGED <<eventVars, trigger, timerList>>
    /\ stack' = Below
    /\ UNCHANGED <<tpl, dbVars, period, clockVars, wait, calls>>

CheckTimersRearm ==
    /\ At("rearm")
    /\ LET e == Top.ev
           t == NextTrigger(e, Top.n)
       IN  IF period[e] # 0
           THEN /\ trigger' = [trigger EXCEPT ![e] = t]
                /\ timerList' = CoreInsertEventTimer(timerList, e, t)
                /\ IF trigger[e] + period[e] <= Top.n
                   THEN SignalCheckTimer ELSE UNCHANGED eventVars
           ELSE UNCHANGED <<eventVars, trigger, timerList>>
    /\ stack' = Below
    /\ UNCHANGED <<tpl, dbVars, period, clockVars, wait, calls>>

CheckTimersDone ==
    /\ At("checkTimers") /\ ~Expired(Top.n)
    /\ stack' = Restore(Below, TIMER)
    /\ UNCHANGED <<tpl, eventVars, dbVars, timerVars, clockVars, wait, calls>>

-----------------------------------------------------------------------------
(* CoreNotifySignalList, between two uses of the queue lock by             *)
(* CoreSignalEvent.                                                        *)

GroupAcquire ==
    /\ At("group") /\ Top.n = 0
    /\ tpl' = HIGH
    /\ stack' = Append(Below, [Top EXCEPT !.n = 1])
    /\ UNCHANGED <<eventVars, dbVars, timerVars, clockVars, wait, calls>>

GroupNotify ==
    /\ At("group") /\ Top.n \in 1 .. Len(signalList)
    /\ LET e == signalList[Top.n] IN
          IF attr[e].group = attr[Top.ev].group
          THEN CoreNotifyEvent(e) ELSE UNCHANGED <<pending, queue>>
    /\ stack' = Append(Below, [Top EXCEPT !.n = @ + 1])
    /\ UNCHANGED <<tpl, signalCount, dbVars, timerVars, clockVars, wait, calls>>

(* The list's release, then the acquire and release that end               *)
(* CoreSignalEvent.                                                        *)
GroupDone ==
    /\ At("group") /\ Top.n > Len(signalList)
    /\ stack' = Restore(Restore(Below, Top.tpl), Top.tpl)
    /\ UNCHANGED <<tpl, eventVars, dbVars, timerVars, clockVars, wait, calls>>

-----------------------------------------------------------------------------
(* CoreCheckEvent and CoreWaitForEvent. *)

(* CoreCheckEvent (e) up to the point where it looks at SignalCount again, *)
(* for an event that is not of a signal type.                              *)
CheckCall(s, e) ==
    IF signalCount[e] = 0 /\ "WAIT" \in attr[e].type
    THEN /\ CoreNotifyEvent(e)
         /\ stack' = Restore(Append(s, Frame("check", tpl, e, 0)), tpl)
         /\ tpl' = HIGH
    ELSE /\ stack' = Append(s, Frame("check", tpl, e, 0))
         /\ UNCHANGED <<tpl, pending, queue>>

CheckDecide ==
    /\ At("check")
    /\ LET e == Top.ev
           returning(n) == Append(Below, [Top EXCEPT !.pc = "checkReturn", !.n = n])
       IN  \/ /\ signalCount[e] # 0
              /\ signalCount' = [signalCount EXCEPT ![e] = 0]
              /\ stack' = Restore(returning(1), tpl)
              /\ tpl' = HIGH
              /\ UNCHANGED <<pending, queue, now>>
           \/ /\ signalCount[e] = 0 /\ "TIMER" \in attr[e].type
              /\ CoreTimerTick(PollTick)
              /\ stack' = Restore(returning(0), tpl)
              /\ tpl' = HIGH
           \/ /\ signalCount[e] = 0 /\ "TIMER" \notin attr[e].type
              /\ stack' = returning(0)
              /\ UNCHANGED <<tpl, eventVars, now>>
    /\ UNCHANGED <<dbVars, timerVars, masked, wait, calls>>

InWait == Len(stack) > 1 /\ stack[Len(stack) - 1].pc = "wait"

CheckReturn ==
    /\ At("checkReturn") /\ ~InWait
    /\ stack' = Below
    /\ UNCHANGED <<tpl, eventVars, dbVars, timerVars, clockVars, wait, calls>>

(* CheckEvent's status reaches the loop of CoreWaitForEvent. *)
WaitChecked ==
    /\ At("checkReturn") /\ InWait
    /\ IF Top.n = 1
       THEN /\ stack' = SubSeq(stack, 1, Len(stack) - 2)
            /\ wait' = [wait EXCEPT !.status = "SUCCESS"]
       ELSE /\ stack' = Below
            /\ wait' = [wait EXCEPT !.idx = @ + 1]
    /\ UNCHANGED <<tpl, eventVars, dbVars, timerVars, clockVars, calls>>

WaitCheck ==
    /\ At("wait") /\ wait.iter < MaxIterations /\ wait.idx <= Len(wait.evs)
    /\ LET e == wait.evs[wait.idx] IN
          IF "SIGNAL" \in attr[e].type
          THEN /\ stack' = Below
               /\ wait' = [wait EXCEPT !.status = "INVALID_PARAMETER"]
               /\ UNCHANGED <<tpl, pending, queue>>
          ELSE CheckCall(stack, e) /\ UNCHANGED wait
    /\ UNCHANGED <<signalCount, dbVars, timerVars, clockVars, calls>>

(* mutant: the passes are not counted. *)
WaitIdleForever ==
    /\ At("wait") /\ wait.iter < MaxIterations /\ wait.idx > Len(wait.evs)
    /\ wait' = [wait EXCEPT !.idx = 1]
    /\ CoreSignalEvent(stack, tpl, Idle)
    /\ UNCHANGED <<dbVars, timerVars, clockVars, calls>>

(* A pass over the array found nothing: gIdleLoopEvent is signalled. *)
WaitIdle ==
    /\ At("wait") /\ wait.iter < MaxIterations /\ wait.idx > Len(wait.evs)
    /\ wait' = [wait EXCEPT !.iter = @ + 1, !.idx = 1]
    /\ CoreSignalEvent(stack, tpl, Idle)
    /\ UNCHANGED <<dbVars, timerVars, clockVars, calls>>

(* The host's bound on the passes is reached. *)
WaitGiveUp ==
    /\ At("wait") /\ wait.iter = MaxIterations
    /\ stack' = Below
    /\ wait' = [wait EXCEPT !.status = "SUCCESS", !.idx = 1]
    /\ UNCHANGED <<tpl, eventVars, dbVars, timerVars, clockVars, calls>>

-----------------------------------------------------------------------------
(* CoreCloseEvent. *)

(* The event leaves the queue, whose pending bit stays, and the signal     *)
(* list.                                                                   *)
CloseUnlink ==
    /\ At("unlink")
    /\ LET e == Top.ev IN
          /\ queue' = [p \in NotifyTpls |-> RemoveFirst(queue[p], e)]
          /\ signalList' = RemoveFirst(signalList, e)
    /\ stack' = Restore(Append(Below, [Top EXCEPT !.pc = "free"]), tpl)
    /\ tpl' = HIGH
    /\ UNCHANGED <<pending, signalCount, live, attr, timerVars, clockVars, wait, calls>>

CloseFree ==
    /\ At("free")
    /\ live' = live \ {Top.ev}
    /\ stack' = Below
    /\ UNCHANGED <<tpl, eventVars, signalList, attr, timerVars, clockVars, wait, calls>>

(* MockTimerAdvance100ns raises to HIGH and restores once more when        *)
(* anything is pending.                                                    *)
AdvanceForce ==
    /\ At("force")
    /\ IF pending # {}
       THEN stack' = Restore(Below, tpl) /\ tpl' = HIGH
       ELSE stack' = Below /\ UNCHANGED tpl
    /\ UNCHANGED <<eventVars, dbVars, timerVars, clockVars, wait, calls>>

-----------------------------------------------------------------------------
(* Calls that clients make: the harness at the bottom of the stack, and    *)
(* every notification function.                                            *)

Call == At("client") /\ calls > 0 /\ calls' = calls - 1

RaiseTpl(t) ==
    /\ Call /\ t > tpl
    /\ tpl' = t
    /\ UNCHANGED <<eventVars, dbVars, timerVars, clockVars, stack, wait>>

(* A client lowers the level no further than where it was called. *)
RestoreTpl(t) ==
    /\ At("client") /\ Top.tpl <= t /\ t < tpl
    /\ stack' = Restore(stack, t)
    /\ UNCHANGED <<tpl, eventVars, dbVars, timerVars, clockVars, wait, calls>>

(* mutant: a notification may have any level. *)
ValidRequestAnyTpl(r) ==
    /\ r.type \in mEventTable
    /\ NeedsNotify(r) => r.fn

(* The parameter checks of CreateEventEx and CreateEventInternal. *)
ValidRequest(r) ==
    /\ r.type \in mEventTable
    /\ NeedsNotify(r) => r.tpl \in {CALLBACK, NOTIFY} /\ r.fn

CoreCreateEvent(e, r) ==
    /\ Call /\ e \in UserEvents \ live
    /\ IF ValidRequest(r)
       THEN /\ live' = live \cup {e}
            /\ attr' = [attr EXCEPT ![e] =
                  [type |-> r.type, group |-> r.group,
                   tpl |-> IF NeedsNotify(r) THEN r.tpl ELSE 0]]
            /\ signalCount' = [signalCount EXCEPT ![e] = 0]
            /\ trigger' = [trigger EXCEPT ![e] = 0]
            /\ period' = [period EXCEPT ![e] = 0]
            /\ IF "SIGNAL" \in r.type
               THEN /\ signalList' = <<e>> \o signalList
                    /\ stack' = Restore(stack, tpl)
                    /\ tpl' = HIGH
               ELSE UNCHANGED <<signalList, stack, tpl>>
       ELSE UNCHANGED <<live, attr, signalCount, trigger, period, signalList, stack, tpl>>
    /\ UNCHANGED <<pending, queue, timerList, clockVars, wait>>

SignalEvent(e) ==
    /\ Call /\ e \in live \cap UserEvents
    /\ CoreSignalEvent(stack, tpl, e)
    /\ UNCHANGED <<dbVars, timerVars, clockVars, wait>>

CheckEvent(e) ==
    /\ Call /\ e \in live \cap UserEvents
    /\ IF "SIGNAL" \in attr[e].type
       THEN UNCHANGED <<tpl, stack, pending, queue>>
       ELSE CheckCall(stack, e)
    /\ UNCHANGED <<signalCount, dbVars, timerVars, clockVars, wait>>

(* Only the harness runs at APPLICATION, so at most one wait is active. *)
WaitForEvent(l) ==
    /\ Call /\ \A i \in 1 .. Len(l) : l[i] \in live
    /\ IF tpl = APPLICATION
       THEN /\ wait' = [evs |-> l, iter |-> 0, idx |-> 1, status |-> "waiting"]
            /\ stack' = Append(stack, Frame("wait", tpl, NoEvent, 0))
       ELSE UNCHANGED <<wait, stack>>
    /\ UNCHANGED <<tpl, eventVars, dbVars, timerVars, clockVars>>

(* SetTimer takes mEfiTimerLock, whose acquisition asserts that the level  *)
(* is not above TIMER.  kind is TimerCancel, TimerRelative, TimerPeriodic. *)
Unarmed(e) == RemoveFirst(timerList, e)
SetTimer(e, kind, delay) ==
    /\ Call /\ e \in live \cap UserEvents /\ tpl <= TIMER
    /\ LET d == IF kind = "periodic" /\ delay = 0 THEN DefaultPeriod ELSE delay IN
       IF "TIMER" \notin attr[e].type
       THEN UNCHANGED <<eventVars, timerVars, stack, tpl>>
       ELSE /\ period' = [period EXCEPT ![e] = IF kind = "periodic" THEN d ELSE 0]
            /\ IF kind = "cancel"
               THEN /\ trigger' = [trigger EXCEPT ![e] = 0]
                    /\ timerList' = Unarmed(e)
                    /\ UNCHANGED eventVars
               ELSE /\ trigger' = [trigger EXCEPT ![e] = now + d]
                    /\ timerList' = CoreInsertEventTimer(Unarmed(e), e, now + d)
                    /\ IF d = 0 THEN SignalCheckTimer ELSE UNCHANGED eventVars
            /\ stack' = Restore(stack, tpl)
            /\ tpl' = TIMER
    /\ UNCHANGED <<dbVars, clockVars, wait>>

(* A caller does not close an event that a call below it still works on.   *)
InUse(e) ==
    \/ \E i \in 1 .. Len(stack) : stack[i].pc \in {"check", "checkReturn", "unlink", "free"} /\ stack[i].ev = e
    \/ wait.status = "waiting" /\ \E i \in 1 .. Len(wait.evs) : wait.evs[i] = e

CoreCloseEvent(e) ==
    /\ Call /\ e \in live \cap UserEvents /\ ~InUse(e)
    /\ IF "TIMER" \in attr[e].type
       THEN /\ tpl <= TIMER
            /\ timerList' = Unarmed(e)
            /\ trigger' = [trigger EXCEPT ![e] = 0]
            /\ period' = [period EXCEPT ![e] = 0]
            /\ stack' = Restore(Append(stack, Frame("unlink", tpl, e, 0)), tpl)
            /\ tpl' = TIMER
       ELSE /\ stack' = Append(stack, Frame("unlink", tpl, e, 0))
            /\ UNCHANGED <<timerVars, tpl>>
    /\ UNCHANGED <<eventVars, dbVars, clockVars, wait>>

(* Below HIGH the tick happens at once; at HIGH the timer interrupt pends. *)
MockTimerAdvance(d) ==
    /\ Call
    /\ IF tpl >= HIGH
       THEN /\ masked' = masked + d
            /\ UNCHANGED <<now, eventVars, stack, tpl>>
       ELSE /\ CoreTimerTick(d)
            /\ stack' = Restore(Append(stack, Frame("force", tpl, NoEvent, 0)), tpl)
            /\ tpl' = HIGH
            /\ UNCHANGED masked
    /\ UNCHANGED <<dbVars, timerVars, wait>>

-----------------------------------------------------------------------------
(* Iterations. *)

InternalAttr(e) ==
    CASE e = CheckTimer -> [type |-> {"SIGNAL"}, tpl |-> TIMER, group |-> NoGroup]
      [] e = Idle       -> [type |-> {"SIGNAL"}, tpl |-> NOTIFY, group |-> IdleGroup]
      [] OTHER          -> [type |-> {}, tpl |-> 0, group |-> NoGroup]

(* MockTimerInit and MockEventResetState end in the same state: empty      *)
(* queues, and the two internal events created afresh.  Client events of   *)
(* an earlier iteration are forgotten.                                     *)
Init ==
    /\ tpl = APPLICATION
    /\ pending = {} /\ queue = [p \in NotifyTpls |-> <<>>]
    /\ signalList = <<Idle>> \o <<CheckTimer>>
    /\ live = {CheckTimer, Idle}
    /\ attr = [e \in Events |-> InternalAttr(e)]
    /\ signalCount = [e \in Events |-> 0]
    /\ timerList = <<>>
    /\ trigger = [e \in Events |-> 0] /\ period = [e \in Events |-> 0]
    /\ now = 0 /\ masked = 0
    /\ stack = <<Frame("client", APPLICATION, NoEvent, 0)>>
    /\ wait = [evs |-> <<>>, iter |-> 0, idx |-> 1, status |-> "none"]
    /\ calls = MaxCalls

MockEventResetState ==
    /\ Len(stack) = 1 /\ At("client")
    /\ tpl' = APPLICATION
    /\ pending' = {} /\ queue' = [p \in NotifyTpls |-> <<>>]
    /\ signalList' = <<Idle>> \o <<CheckTimer>>
    /\ live' = {CheckTimer, Idle}
    /\ attr' = [e \in Events |-> InternalAttr(e)]
    /\ signalCount' = [e \in Events |-> 0]
    /\ timerList' = <<>>
    /\ trigger' = [e \in Events |-> 0] /\ period' = [e \in Events |-> 0]
    /\ now' = 0 /\ masked' = 0
    /\ wait' = [evs |-> <<>>, iter |-> 0, idx |-> 1, status |-> "none"]
    /\ calls' = MaxCalls
    /\ UNCHANGED stack

-----------------------------------------------------------------------------
Kernel ==
    \/ RestoreConsume \/ RestoreDispatch \/ RestoreDone
    \/ DispatchNext \/ DispatchDone \/ NotifyFunction \/ NotifyReturn
    \/ CheckTimersSignal \/ CheckTimersRearm \/ CheckTimersDone
    \/ GroupAcquire \/ GroupNotify \/ GroupDone
    \/ CheckDecide \/ CheckReturn
    \/ WaitChecked \/ WaitCheck \/ WaitIdle \/ WaitGiveUp
    \/ CloseUnlink \/ CloseFree \/ AdvanceForce

Client ==
    \/ \E t \in UserTpls : RaiseTpl(t) \/ RestoreTpl(t)
    \/ \E e \in UserEvents :
          \/ \E r \in Requests : CoreCreateEvent(e, r)
          \/ SignalEvent(e)
          \/ CheckEvent(e)
          \/ \E k \in {"cancel", "relative", "periodic"}, d \in Delays : SetTimer(e, k, d)
          \/ CoreCloseEvent(e)
    \/ \E l \in WaitLists : WaitForEvent(l)
    \/ \E d \in Durations : MockTimerAdvance(d)

Next == Kernel \/ Client \/ MockEventResetState

Spec == Init /\ [][Next]_vars

(***************************************************************************)
(* The kernel's own code always proceeds, notification functions return    *)
(* (they make finitely many calls: MaxCalls), and whoever raised the level *)
(* restores it.  Nothing obliges the harness to make calls or to reset.    *)
(***************************************************************************)
FairSpec == Spec /\ WF_vars(Kernel) /\ WF_vars(\E t \in UserTpls : RestoreTpl(t))

-----------------------------------------------------------------------------
(* Properties. *)

IsQueued(e) == \E p \in NotifyTpls : Contains(queue[p], e)
OnStack(pcs, e) == \E i \in 1 .. Len(stack) : stack[i].pc \in pcs /\ stack[i].ev = e

(* Every variable has its type. *)
TypeOK ==
    /\ tpl \in Tpls
    /\ pending \subseteq NotifyTpls
    /\ queue \in [NotifyTpls -> Seq(Events)]
    /\ signalList \in Seq(Events)
    /\ live \subseteq Events
    /\ attr \in [Events -> Attribute]
    /\ signalCount \in [Events -> {0, 1}]
    /\ timerList \in Seq(Events)
    /\ trigger \in [Events -> Nat] /\ period \in [Events -> Nat]
    /\ now \in Nat /\ masked \in Nat
    /\ stack \in Seq(FrameType) /\ stack # <<>>
    /\ wait \in [evs : Seq(UserEvents), iter : Nat, idx : Nat \ {0},
                  status : {"none", "waiting", "SUCCESS", "INVALID_PARAMETER"}]
    /\ calls \in Nat

(***************************************************************************)
(* No code runs while a notification of a higher level than its own is     *)
(* pending, whichever of the many implicit dispatch points it came         *)
(* through.  CoreDispatchEventNotifies' ASSERT (OwnerTpl == Priority) is   *)
(* the second conjunct.  MockTimerAdvance100ns' forced dispatch would be   *)
(* needed only if this failed.                                             *)
(***************************************************************************)
NoPriorityInversion ==
    /\ ~At("restore") => Quiet(tpl)
    /\ At("dispatch") => tpl = Top.tpl

(***************************************************************************)
(* Dispatch only nests at strictly rising levels: a notification function  *)
(* is never interrupted by one of its own level or below, so the depth of  *)
(* nesting is bounded by the number of levels.                             *)
(***************************************************************************)
NestingRises ==
    \A i, j \in 1 .. Len(stack) :
        i < j /\ stack[j].pc = "dispatch" =>
            stack[i].tpl < stack[j].tpl

(***************************************************************************)
(* Both: RestoreTpl dispatches what it must before the code below runs,    *)
(* and no more than may interrupt it.                                      *)
(***************************************************************************)
LevelsRespected == NoPriorityInversion /\ NestingRises

(***************************************************************************)
(* Notifications are where the dispatcher looks for them: a queued event   *)
(* is live, is in its own level's queue exactly once, and that level's     *)
(* pending bit is set (the converse fails after CoreCloseEvent).           *)
(***************************************************************************)
QueueConsistent ==
    \A p \in NotifyTpls :
        /\ queue[p] # <<>> => p \in pending
        /\ \A i \in 1 .. Len(queue[p]) :
              /\ queue[p][i] \in live
              /\ attr[queue[p][i]].tpl = p
              /\ \A j \in 1 .. i - 1 : queue[p][j] # queue[p][i]

(***************************************************************************)
(* A signal is not lost: while the SignalCount of a live signal event is   *)
(* set, which makes CoreSignalEvent ignore further signals, its            *)
(* notification is queued or the signalling call is about to queue it.     *)
(***************************************************************************)
NoLostNotification ==
    \A e \in live :
        "SIGNAL" \in attr[e].type /\ signalCount[e] = 1 =>
            IsQueued(e) \/ OnStack({"group", "free"}, e)

(***************************************************************************)
(* No call is left holding an event that a nested callback freed: between  *)
(* the unlock and the use of the event in the dispatcher, in the group     *)
(* path of CoreSignalEvent, in CoreCheckTimers and in CoreCloseEvent       *)
(* nothing else runs.                                                      *)
(***************************************************************************)
NoStaleEvent ==
    \A i \in 1 .. Len(stack) :
        stack[i].pc \in {"start", "rearm", "group", "check", "checkReturn", "unlink", "free"}
            => stack[i].ev \in live

(***************************************************************************)
(* What is signalled is kept until it is dispatched, and what is closed is *)
(* forgotten everywhere (CoreNotifyEvent, CoreDispatchEventNotifies,       *)
(* CoreCloseEvent), whatever callbacks do in between.                      *)
(***************************************************************************)
NotificationsKept == QueueConsistent /\ NoLostNotification /\ NoStaleEvent

(***************************************************************************)
(* CoreAcquireLock's ASSERT (Lock == EfiLockReleased): nothing is          *)
(* dispatched while mEfiTimerLock (CoreCheckTimers) or the queue lock      *)
(* (CoreNotifySignalList) is held, so neither is acquired twice.           *)
(***************************************************************************)
NoDispatchUnderLock ==
    \A i, j \in 1 .. Len(stack) :
        /\ i < j
        /\ stack[i].pc \in {"checkTimers", "rearm"} \/ (stack[i].pc = "group" /\ stack[i].n > 0)
        => stack[j].pc \notin {"dispatch", "client"}

(***************************************************************************)
(* The timer list is sorted, holds live timer events once each, and an     *)
(* armed timer is the one whose period was set.                            *)
(***************************************************************************)
TimerListSorted ==
    \A i \in 1 .. Len(timerList) :
        /\ timerList[i] \in live /\ "TIMER" \in attr[timerList[i]].type
        /\ \A j \in 1 .. i - 1 : /\ timerList[j] # timerList[i]
                                  /\ trigger[timerList[j]] <= trigger[timerList[i]]

(***************************************************************************)
(* An expired timer is always about to be noticed: CoreCheckTimers is      *)
(* queued, or running with a time at which the timer has expired.          *)
(***************************************************************************)
ExpiryNoticed ==
    Expired(now) =>
        \/ IsQueued(CheckTimer)
        \/ OnStack({"start", "checkTimers", "rearm"}, CheckTimer)
        \/ \E i \in 1 .. Len(stack) : stack[i].pc = "rearm" /\ stack[i].n = now

(* A periodic timer stays armed until it is cancelled, re-set or closed.   *)
PeriodicStaysArmed ==
    \A e \in live : period[e] # 0 => Contains(timerList, e) \/ OnStack({"rearm"}, e)

(***************************************************************************)
(* Timers are served whatever the functions they notify do: those that     *)
(* expire are noticed, also while CoreCheckTimers runs, periodic ones stay *)
(* armed, and no function runs under the lock.                             *)
(***************************************************************************)
TimersServed ==
    NoDispatchUnderLock /\ TimerListSorted /\ ExpiryNoticed /\ PeriodicStaysArmed

(***************************************************************************)
(* Time that passes at HIGH is delivered, once, before any code runs below *)
(* HIGH: it is masked only while the level is HIGH...                      *)
(***************************************************************************)
MaskedOnlyAtHigh == masked > 0 => tpl = HIGH

(* ... and no step but a client's advance, a poll or a reset changes the   *)
(* sum of the time shown and the time masked.                              *)
TimeConserved ==
    /\ []MaskedOnlyAtHigh
    /\ [][ \/ now' + masked' = now + masked
           \/ At("client") \/ At("check") ]_vars

(***************************************************************************)
(* Every queued notification is eventually run or withdrawn, once clients  *)
(* stop making calls and return.                                           *)
(***************************************************************************)
Drained == \A e \in Events : IsQueued(e) ~> ~IsQueued(e)

(* Every wait returns: the host bounds WaitForEvent's passes.              *)
WaitReturns == wait.status = "waiting" ~> wait.status # "waiting"

(***************************************************************************)
(* "EFI_SUCCESS: The event indicated by Index was signaled."               *)
(* (EventDxeCore.c:665): CoreWaitForEvent succeeds only when CheckEvent    *)
(* has just consumed a signal of the event it names.                       *)
(***************************************************************************)
WaitSuccessMeansSignaled ==
    [][ wait.status = "waiting" /\ wait'.status = "SUCCESS" =>
            At("checkReturn") /\ Top.n = 1 /\ wait'.evs[wait'.idx] = Top.ev ]_vars

(***************************************************************************)
(* The event services implement NotifyScheduler: its queues are            *)
(* gEventQueue, and the running notifications are the frames of the        *)
(* notification functions on the call stack.                               *)
(***************************************************************************)
Running ==
    { [ev |-> stack[i].ev, level |-> stack[i].tpl] :
        i \in { j \in 1 .. Len(stack) :
                  /\ stack[j].pc \in {"start", "client", "checkTimers", "empty"}
                  /\ stack[j].ev # NoEvent } }

Scheduler == INSTANCE NotifyScheduler
    WITH post <- queue, running <- Running, Levels <- NotifyTpls

ImplementsScheduler == Scheduler!Spec
=============================================================================
