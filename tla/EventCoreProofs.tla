--------------------------- MODULE EventCoreProofs ---------------------------
(***************************************************************************)
(* The event services keep their types, never run code below a pending     *)
(* notification and nest dispatches at rising levels, for every set of     *)
(* events, every argument and every number of calls.                       *)
(***************************************************************************)
EXTENDS EventCore, ListLemmas

-----------------------------------------------------------------------------
(* The inductive invariant. *)

(* What a frame may hold, depending on what it is about to do.             *)
FrameOK(f) ==
    /\ f.pc \notin {"client", "restore", "dispatch", "wait", "force"} => f.ev \in Events
    /\ f.pc = "dispatch" => f.tpl \in NotifyTpls
    /\ f.pc \in {"checkTimers", "rearm"} => f.tpl = TIMER
    /\ f.pc = "start" /\ f.ev = CheckTimer => f.tpl = TIMER

(* When g lies on f: g gives the level of f back to f, unless f is a       *)
(* client, which may have raised it, or is restoring a level itself; and   *)
(* only a dispatch above the level to restore lies on a restore.           *)
Fits(f, g) ==
    /\ f.tpl <= g.tpl
    /\ f.pc \notin {"client", "restore"} => f.tpl = g.tpl
    /\ g.pc = "dispatch" => f.tpl < g.tpl
    /\ f.pc = "group" => f.n = 0

Bottom == Frame("client", APPLICATION, NoEvent, 0)

StackOK(s) ==
    /\ s \in Seq(FrameType) /\ s # <<>>
    /\ s[1] = Bottom
    /\ \A i \in 1 .. Len(s) : FrameOK(s[i])
    /\ \A i \in 1 .. Len(s) - 1 : Fits(s[i], s[i + 1])
    /\ \A i, j \in 1 .. Len(s) : i <= j => s[i].tpl <= s[j].tpl

(* The level at which the innermost frame runs.                            *)
LevelOK(f, t) ==
    IF f.pc \in {"client", "restore"} THEN f.tpl <= t
    ELSE IF f.pc = "group" /\ f.n > 0 THEN t = HIGH
    ELSE t = f.tpl

(* The check-timer and idle events stay what they were created as...       *)
InternalOK == \A e \in {CheckTimer, Idle} : attr[e] = InternalAttr(e)

(* ... and the check-timer event is queued nowhere but at its own level.   *)
QueueOK(q) ==
    \A p \in NotifyTpls \ {TIMER} : \A i \in 1 .. Len(q[p]) : q[p][i] # CheckTimer

(* gEventSignalQueue links live signal events, once each.                  *)
SignalListOK ==
    /\ Distinct(signalList)
    /\ \A i \in 1 .. Len(signalList) :
          signalList[i] \in live /\ "SIGNAL" \in attr[signalList[i]].type

(* An event is being closed at most once, is live until it is freed and    *)
(* leaves gEventSignalQueue before.                                        *)
Closing == {"unlink", "free"}
CloseOK(s) ==
    /\ \A i \in 1 .. Len(s) : s[i].pc \in Closing =>
          /\ s[i].ev \in live \cap UserEvents
          /\ s[i].pc = "free" => \A k \in 1 .. Len(signalList) : signalList[k] # s[i].ev
    /\ \A i, j \in 1 .. Len(s) :
          s[i].pc \in Closing /\ s[j].pc \in Closing /\ s[i].ev = s[j].ev => i = j

IInv ==
    /\ TypeOK
    /\ StackOK(stack)
    /\ LevelOK(Top, tpl)
    /\ ~At("restore") => Quiet(tpl)
    /\ InternalOK
    /\ QueueOK(queue)
    /\ SignalListOK
    /\ CloseOK(stack)

-----------------------------------------------------------------------------
(* The call stack. *)

(* A frame that fits on the innermost one may be pushed.                   *)
LEMMA Push ==
    ASSUME NEW s, StackOK(s), NEW f \in FrameType, FrameOK(f), Fits(s[Len(s)], f)
    PROVE  /\ StackOK(Append(s, f))
           /\ Len(Append(s, f)) = Len(s) + 1
           /\ Len(s) + 1 > 1
           /\ Append(s, f)[Len(s) + 1] = f
           /\ Append(s, f)[Len(Append(s, f))] = f
           /\ \A i \in 1 .. Len(s) : Append(s, f)[i] = s[i]
<1> DEFINE t == Append(s, f)
<1>1. s \in Seq(FrameType) /\ s # <<>> /\ Len(s) \in Nat /\ Len(s) > 0
  BY EmptySeq, LenProperties DEF StackOK
<1>2. /\ t \in Seq(FrameType) /\ Len(t) = Len(s) + 1
      /\ \A i \in 1 .. Len(s) : t[i] = s[i]
      /\ t[Len(s) + 1] = f
  BY <1>1, AppendProperties
<1>3. \A i \in 1 .. Len(s) : s[i] \in FrameType
  BY <1>1, ElementOfSeq
<1> HIDE DEF t
<1>4. t # <<>> /\ t[1] = Bottom
  BY <1>1, <1>2 DEF StackOK
<1>5. \A i \in 1 .. Len(t) : FrameOK(t[i])
  BY <1>1, <1>2 DEF StackOK
<1>6. \A i \in 1 .. Len(t) - 1 : Fits(t[i], t[i + 1])
  BY <1>1, <1>2 DEF StackOK
<1>7. \A i, j \in 1 .. Len(t) : i <= j => t[i].tpl <= t[j].tpl
  <2> SUFFICES ASSUME NEW i \in 1 .. Len(t), NEW j \in 1 .. Len(t), i <= j
               PROVE  t[i].tpl <= t[j].tpl
    OBVIOUS
  <2>1. CASE j \in 1 .. Len(s)
    BY <1>1, <1>2, <2>1 DEF StackOK
  <2>2. CASE i \in 1 .. Len(s) /\ j = Len(s) + 1
    <3>1. s[i].tpl <= s[Len(s)].tpl /\ s[Len(s)].tpl <= f.tpl
      BY <1>1, <2>2 DEF StackOK, Fits
    <3>2. s[i].tpl \in Int /\ s[Len(s)].tpl \in Int /\ f.tpl \in Int
      BY <1>1, <1>3, <2>2 DEF FrameType, Tpls, UserTpls, APPLICATION, CALLBACK, NOTIFY, TIMER, HIGH
    <3> QED
      BY <1>2, <2>2, <3>1, <3>2
  <2>3. CASE i = Len(s) + 1 /\ j = Len(s) + 1
    <3>1. f.tpl \in Int
      BY DEF FrameType, Tpls, UserTpls, APPLICATION, CALLBACK, NOTIFY, TIMER, HIGH
    <3> QED
      BY <1>2, <2>3, <3>1
  <2> QED
    BY <1>1, <1>2, <2>1, <2>2, <2>3
<1>8. StackOK(t)
  BY <1>2, <1>4, <1>5, <1>6, <1>7 DEF StackOK
<1> QED
  BY <1>1, <1>2, <1>8 DEF t

(* The innermost frame, unless it is the last, may be popped.              *)
LEMMA Pop ==
    ASSUME NEW s, StackOK(s), Len(s) > 1
    PROVE  /\ StackOK(Front(s))
           /\ Len(Front(s)) = Len(s) - 1
           /\ Front(s)[Len(Front(s))] = s[Len(s) - 1]
           /\ Fits(s[Len(s) - 1], s[Len(s)])
           /\ \A i \in 1 .. Len(s) - 1 : Front(s)[i] = s[i]
<1> DEFINE t == Front(s)
<1>1. s \in Seq(FrameType) /\ Len(s) \in Nat /\ \A i \in 1 .. Len(s) : s[i] \in FrameType
  BY LenProperties DEF StackOK
<1>2. /\ t \in Seq(FrameType) /\ Len(t) = Len(s) - 1
      /\ \A i \in 1 .. Len(s) - 1 : t[i] = s[i]
  BY <1>1, SubSeqProperties DEF Front
<1> HIDE DEF t
<1>3. t # <<>> /\ t[1] = Bottom
  BY <1>1, <1>2, EmptySeq DEF StackOK
<1>4. StackOK(t)
  BY <1>1, <1>2, <1>3 DEF StackOK
<1>5. Fits(s[Len(s) - 1], s[Len(s)])
  BY <1>1 DEF StackOK
<1> QED
  BY <1>1, <1>2, <1>4, <1>5 DEF t

(* Only the harness' own frame is alone on the stack.                      *)
LEMMA Deep ==
    ASSUME NEW s, StackOK(s), s[Len(s)].pc # "client"
    PROVE  Len(s) > 1
<1>1. Len(s) \in Nat /\ Len(s) > 0
  BY EmptySeq, LenProperties DEF StackOK
<1>2. s[1].pc = "client"
  BY DEF StackOK, Bottom, Frame
<1> QED
  BY <1>1, <1>2

(* Every event that is being closed in s2 was being closed in s.           *)
Keeps(s, s2) ==
    \A i \in 1 .. Len(s2) : s2[i].pc \in Closing =>
        i \in 1 .. Len(s) /\ s2[i].pc = s[i].pc /\ s2[i].ev = s[i].ev

LEMMA KeepsTwice ==
    ASSUME NEW s, NEW s1, NEW s2, Keeps(s, s1), Keeps(s1, s2)
    PROVE  Keeps(s, s2)
BY DEF Keeps

LEMMA Enter ==
    ASSUME NEW s, StackOK(s), NEW f \in FrameType, FrameOK(f), Fits(Last(s), f),
           f.pc \notin Closing
    PROVE  /\ StackOK(Append(s, f))
           /\ Last(Append(s, f)) = f
           /\ Keeps(s, Append(s, f))
<1> DEFINE t == Append(s, f)
<1>1. /\ StackOK(t) /\ Len(t) = Len(s) + 1 /\ t[Len(s) + 1] = f /\ t[Len(t)] = f
      /\ \A i \in 1 .. Len(s) : t[i] = s[i]
  BY Push DEF Last
<1>2. Len(s) \in Nat
  BY LenProperties DEF StackOK
<1> HIDE DEF t
<1>3. Keeps(s, t)
  BY <1>1, <1>2 DEF Keeps
<1> QED
  BY <1>1, <1>3 DEF t, Last

(* The innermost frame returns at its own level.                           *)
LEMMA Return ==
    ASSUME NEW s, StackOK(s), Len(s) > 1
    PROVE  /\ StackOK(Front(s))
           /\ Len(Front(s)) = Len(s) - 1
           /\ Last(Front(s)) = s[Len(s) - 1]
           /\ Fits(Last(Front(s)), Last(s))
           /\ LevelOK(Last(Front(s)), Last(s).tpl)
           /\ Keeps(s, Front(s))
<1> DEFINE t == Front(s)
<1>1. /\ StackOK(t) /\ Len(t) = Len(s) - 1 /\ t[Len(t)] = s[Len(s) - 1]
      /\ Fits(s[Len(s) - 1], s[Len(s)])
      /\ \A i \in 1 .. Len(s) - 1 : t[i] = s[i]
  BY Pop
<1>2. s \in Seq(FrameType) /\ Len(s) \in Nat
  BY LenProperties DEF StackOK
<1> HIDE DEF t
<1>3. Keeps(s, t)
  BY <1>1, <1>2 DEF Keeps
<1>4. LevelOK(t[Len(t)], s[Len(s)].tpl)
  BY <1>1 DEF Fits, LevelOK
<1> QED
  BY <1>1, <1>3, <1>4 DEF t, Last

(* The innermost frame goes on to something else at the same level.        *)
LEMMA Continue ==
    ASSUME NEW s, StackOK(s), Len(s) > 1, NEW g \in FrameType, FrameOK(g),
           g.tpl = Last(s).tpl, g.pc # "dispatch", g.pc \notin Closing
    PROVE  /\ StackOK(Append(Front(s), g))
           /\ Last(Append(Front(s), g)) = g
           /\ Keeps(s, Append(Front(s), g))
<1>1. /\ StackOK(Front(s)) /\ Fits(Last(Front(s)), Last(s)) /\ Keeps(s, Front(s))
  BY Return
<1>2. Fits(Last(Front(s)), g)
  BY <1>1 DEF Fits
<1> HIDE DEF Closing
<1> QED
  BY <1>1, <1>2, Enter, KeepsTwice

(* What the levels are.                                                    *)
LEMMA Levels ==
    /\ Tpls \subseteq Nat /\ NotifyTpls \subseteq Tpls /\ UserTpls \subseteq Tpls
    /\ APPLICATION \in Tpls /\ TIMER \in NotifyTpls /\ NOTIFY \in NotifyTpls /\ HIGH \in Tpls
    /\ TIMER < HIGH
    /\ \A t \in Tpls : APPLICATION <= t /\ t <= HIGH
    /\ \A p \in NotifyTpls : APPLICATION < p /\ p <= TIMER
BY DEF Tpls, NotifyTpls, UserTpls, APPLICATION, CALLBACK, NOTIFY, TIMER, HIGH

(* The level a call made by frame f may return to.                         *)
MayCall(f, t) ==
    /\ f.pc \in {"client", "restore"} => f.tpl <= t
    /\ f.pc \notin {"client", "restore"} => f.tpl = t
    /\ f.pc = "group" => f.n = 0

(* Releasing a lock that was acquired at level t.                          *)
LEMMA Release ==
    ASSUME NEW s, StackOK(s), NEW t \in Tpls, MayCall(Last(s), t)
    PROVE  /\ StackOK(Restore(s, t))
           /\ Last(Restore(s, t)) = Frame("restore", t, NoEvent, 0)
           /\ Keeps(s, Restore(s, t))
<1> DEFINE f == Frame("restore", t, NoEvent, 0)
<1>1. f \in FrameType /\ FrameOK(f) /\ f.pc \notin Closing
  BY DEF Frame, FrameType, FrameOK, Pcs, Closing
<1>2. Last(s) \in FrameType
  BY EmptySeq, LenProperties, ElementOfSeq DEF StackOK, Last
<1>3. Fits(Last(s), f)
  BY <1>2, Levels DEF MayCall, Fits, Frame, FrameType
<1> HIDE DEF f
<1> QED
  BY <1>1, <1>3, Enter DEF Restore, f

-----------------------------------------------------------------------------
(* The data. *)

EventTypes ==
    /\ pending \subseteq NotifyTpls
    /\ queue \in [NotifyTpls -> Seq(Events)]
    /\ QueueOK(queue)
    /\ signalCount \in [Events -> {0, 1}]

TimerTypes ==
    /\ timerList \in Seq(Events)
    /\ trigger \in [Events -> Nat] /\ period \in [Events -> Nat]

WaitTypes ==
    wait \in [evs : Seq(UserEvents), iter : Nat, idx : Nat \ {0},
              status : {"none", "waiting", "SUCCESS", "INVALID_PARAMETER"}]

(* What remains to be shown of a step that leaves the event database alone *)
(* and closes nothing.                                                     *)
LEMMA Assemble ==
    ASSUME IInv, StackOK(stack'), LevelOK(Last(stack'), tpl'), Keeps(stack, stack'),
           tpl' \in Tpls, EventTypes', UNCHANGED dbVars, TimerTypes',
           now' \in Nat, masked' \in Nat, WaitTypes', calls' \in Nat,
           Last(stack').pc # "restore" => \A p \in pending' : p <= tpl'
    PROVE  IInv'
<1>1. TypeOK'
  BY DEF IInv, TypeOK, EventTypes, TimerTypes, WaitTypes, StackOK, dbVars
<1>2. InternalOK' /\ SignalListOK'
  BY DEF IInv, InternalOK, SignalListOK, dbVars, Distinct
<1>3. CloseOK(stack)'
  <2>1. CloseOK(stack)
    BY DEF IInv
  <2> QED
    BY <2>1 DEF CloseOK, Keeps, dbVars
<1>4. (~At("restore") => Quiet(tpl))' /\ LevelOK(Top, tpl)'
  BY DEF At, Top, Quiet
<1> QED
  BY <1>1, <1>2, <1>3, <1>4 DEF IInv, EventTypes

LEMMA NotifyEvent ==
    ASSUME IInv, NEW e \in Events, NeedsNotify(attr[e]), CoreNotifyEvent(e)
    PROVE  /\ pending' \subseteq NotifyTpls
           /\ queue' \in [NotifyTpls -> Seq(Events)]
           /\ QueueOK(queue')
<1> DEFINE l == attr[e].tpl
           q == RemoveFirst(queue[l], e)
<1>1. l \in NotifyTpls
  BY DEF IInv, TypeOK, Attribute
<1>2. pending' = pending \cup {l} /\ queue' = [queue EXCEPT ![l] = Append(q, e)]
  BY DEF CoreNotifyEvent, NotifyQueue
<1>3. queue \in [NotifyTpls -> Seq(Events)] /\ pending \subseteq NotifyTpls /\ QueueOK(queue)
  BY DEF IInv, TypeOK
<1>4. /\ q \in Seq(Events)
      /\ \A i \in 1 .. Len(q) : \E j \in 1 .. Len(queue[l]) : q[i] = queue[l][j]
  BY <1>1, <1>3, RemoveFirstProperties
<1>5. e = CheckTimer => l = TIMER
  BY EventCoreAssumption DEF IInv, InternalOK, InternalAttr
<1> HIDE DEF l, q
<1>6. /\ Append(q, e) \in Seq(Events) /\ Len(Append(q, e)) = Len(q) + 1
      /\ \A i \in 1 .. Len(q) : Append(q, e)[i] = q[i]
      /\ Append(q, e)[Len(q) + 1] = e
  BY <1>4, AppendProperties
<1>7. l # TIMER => \A i \in 1 .. Len(Append(q, e)) : Append(q, e)[i] # CheckTimer
  <2>1. Len(q) \in Nat
    BY <1>4, LenProperties
  <2> QED
    BY <1>1, <1>3, <1>4, <1>5, <1>6, <2>1 DEF QueueOK
<1>8. QueueOK(queue')
  BY <1>1, <1>2, <1>3, <1>7 DEF QueueOK
<1> QED
  BY <1>1, <1>2, <1>3, <1>6, <1>8

LEMMA SignalCheck ==
    ASSUME IInv, SignalCheckTimer
    PROVE  EventTypes'
<1>1. CheckTimer \in Events /\ NeedsNotify(attr[CheckTimer])
  BY DEF IInv, InternalOK, InternalAttr, NeedsNotify, Events
<1>2. signalCount' \in [Events -> {0, 1}]
  BY DEF SignalCheckTimer, IInv, TypeOK
<1>3. CASE CoreNotifyEvent(CheckTimer)
  BY <1>1, <1>2, <1>3, NotifyEvent DEF EventTypes
<1>4. CASE UNCHANGED <<pending, queue>>
  BY <1>2, <1>4 DEF EventTypes, IInv, TypeOK, QueueOK
<1> QED
  BY <1>3, <1>4 DEF SignalCheckTimer

LEMMA SameEvents ==
    ASSUME IInv, UNCHANGED eventVars
    PROVE  EventTypes'
BY DEF EventTypes, IInv, TypeOK, QueueOK, eventVars

LEMMA Tick ==
    ASSUME IInv, NEW d \in Nat, CoreTimerTick(d)
    PROVE  EventTypes' /\ now' \in Nat
<1>1. now' \in Nat
  BY DEF CoreTimerTick, IInv, TypeOK
<1>2. SignalCheckTimer \/ UNCHANGED eventVars
  BY DEF CoreTimerTick
<1> QED
  BY <1>1, <1>2, SignalCheck, SameEvents

(* The place CoreInsertEventTimer looks for exists.                        *)
LEMMA InsertTimer ==
    ASSUME IInv, NEW l \in Seq(Events), NEW e \in Events, NEW time \in Nat
    PROVE  CoreInsertEventTimer(l, e, time) \in Seq(Events)
<1> DEFINE later == { i \in 1 .. Len(l) : trigger[l[i]] > time }
           Place(i) == /\ i <= Len(l) => trigger[l[i]] > time
                       /\ \A j \in 1 .. i - 1 : trigger[l[j]] <= time
<1>1. Len(l) \in Nat /\ \A i \in 1 .. Len(l) : trigger[l[i]] \in Nat
  BY LenProperties DEF IInv, TypeOK
<1>2. \E i \in 1 .. Len(l) + 1 : Place(i)
  <2>1. CASE later = {}
    <3>1. Place(Len(l) + 1)
      BY <1>1, <2>1
    <3> QED
      BY <1>1, <3>1
  <2>2. CASE later # {}
    <3> later \subseteq Nat
      BY <1>1
    <3>1. PICK i \in later : \A j \in later : i <= j
      <4> HIDE DEF later
      <4> QED
        BY <2>2, Minimum
    <3>2. Place(i)
      BY <1>1, <3>1
    <3> QED
      BY <1>1, <3>1, <3>2
  <2> QED
    BY <2>1, <2>2
<1>3. InsertPosition(l, time) \in 1 .. Len(l) + 1
  BY <1>2 DEF InsertPosition
<1> QED
  BY <1>3, InsertAtProperties DEF CoreInsertEventTimer

-----------------------------------------------------------------------------
(* The services. *)

(* CoreSignalEvent leaves a restore of the caller's level on the stack.    *)
LEMMA SignalStep ==
    ASSUME IInv, NEW s, StackOK(s), NEW t \in Tpls, MayCall(Last(s), t),
           NEW e \in Events, CoreSignalEvent(s, t, e)
    PROVE  /\ EventTypes'
           /\ StackOK(stack') /\ Keeps(s, stack')
           /\ Last(stack').pc = "restore" /\ LevelOK(Last(stack'), tpl')
           /\ tpl' \in Tpls
<1>1. signalCount' \in [Events -> {0, 1}] /\ tpl' = HIGH
  BY DEF CoreSignalEvent, IInv, TypeOK
<1>2. ASSUME CoreNotifyEvent(e), "SIGNAL" \in attr[e].type
      PROVE  EventTypes'
  BY <1>1, <1>2, NotifyEvent DEF EventTypes, NeedsNotify
<1>3. ASSUME UNCHANGED <<pending, queue>>
      PROVE  EventTypes'
  BY <1>1, <1>3 DEF EventTypes, IInv, TypeOK, QueueOK
<1>4. EventTypes'
  BY <1>2, <1>3 DEF CoreSignalEvent
<1>5. CASE stack' = Restore(s, t)
  <2>1. /\ StackOK(stack') /\ Keeps(s, stack')
        /\ Last(stack') = Frame("restore", t, NoEvent, 0)
    BY <1>5, Release
  <2> QED
    BY <1>1, <1>4, <2>1, Levels DEF LevelOK, Frame
<1>6. CASE stack' = Restore(Append(s, Frame("group", t, e, 0)), t)
  <2> DEFINE f == Frame("group", t, e, 0)
             s1 == Append(s, f)
  <2>1. f \in FrameType /\ FrameOK(f) /\ f.pc \notin Closing
    BY DEF Frame, FrameType, Pcs, FrameOK, Closing
  <2>2. Last(s) \in FrameType
    BY EmptySeq, LenProperties, ElementOfSeq DEF StackOK, Last
  <2>3. Fits(Last(s), f)
    BY <2>2, Levels DEF MayCall, Fits, Frame, FrameType
  <2>4. MayCall(f, t)
    BY Levels DEF MayCall, Frame
  <2> HIDE DEF f
  <2>5. StackOK(s1) /\ Last(s1) = f /\ Keeps(s, s1)
    BY <2>1, <2>3, Enter
  <2> HIDE DEF s1
  <2>6. /\ StackOK(stack') /\ Keeps(s1, stack')
        /\ Last(stack') = Frame("restore", t, NoEvent, 0)
    BY <1>6, <2>4, <2>5, Release DEF f, s1
  <2>7. Keeps(s, stack')
    BY <2>5, <2>6, KeepsTwice
  <2> QED
    BY <1>1, <1>4, <2>6, <2>7, Levels DEF LevelOK, Frame
<1> QED
  BY <1>5, <1>6 DEF CoreSignalEvent

(* CoreCheckEvent queues the wait notification of a wait event only.       *)
LEMMA CheckStep ==
    ASSUME IInv, MayCall(Top, tpl), NEW e \in Events, CheckCall(stack, e),
           UNCHANGED signalCount, ~At("restore")
    PROVE  /\ EventTypes'
           /\ StackOK(stack') /\ Keeps(stack, stack')
           /\ LevelOK(Last(stack'), tpl') /\ tpl' \in Tpls
           /\ Last(stack').pc # "restore" => \A p \in pending' : p <= tpl'
<1> DEFINE f == Frame("check", tpl, e, 0)
           s1 == Append(stack, f)
<1>1. tpl \in Tpls /\ StackOK(stack) /\ Quiet(tpl)
  BY DEF IInv, TypeOK
<1>2. f \in FrameType /\ FrameOK(f) /\ f.pc \notin Closing
  BY <1>1 DEF Frame, FrameType, Pcs, FrameOK, Closing
<1>3. Last(stack) \in FrameType
  BY <1>1, EmptySeq, LenProperties, ElementOfSeq DEF StackOK, Last
<1>4. Fits(Last(stack), f)
  BY <1>1, <1>3, Levels DEF MayCall, Fits, Frame, FrameType, Top
<1>5. MayCall(f, tpl) /\ LevelOK(f, tpl) /\ f.pc # "restore"
  BY <1>1, Levels DEF MayCall, LevelOK, Frame
<1> HIDE DEF f
<1>6. StackOK(s1) /\ Last(s1) = f /\ Keeps(stack, s1)
  BY <1>1, <1>2, <1>4, Enter
<1> HIDE DEF s1
<1>7. CASE stack' = Restore(s1, tpl) /\ tpl' = HIGH /\ CoreNotifyEvent(e) /\ "WAIT" \in attr[e].type
  <2>1. EventTypes'
    BY <1>7, NotifyEvent DEF EventTypes, NeedsNotify, IInv, TypeOK
  <2>2. /\ StackOK(stack') /\ Keeps(s1, stack')
        /\ Last(stack') = Frame("restore", tpl, NoEvent, 0)
    BY <1>1, <1>5, <1>6, <1>7, Release
  <2>3. Keeps(stack, stack')
    BY <1>6, <2>2, KeepsTwice
  <2> QED
    BY <1>1, <1>7, <2>1, <2>2, <2>3, Levels DEF LevelOK, Frame
<1>8. CASE stack' = s1 /\ UNCHANGED <<tpl, pending, queue>>
  <2>1. EventTypes'
    BY <1>8, SameEvents DEF eventVars
  <2> QED
    BY <1>1, <1>5, <1>6, <1>8, <2>1 DEF Quiet
<1> QED
  BY <1>7, <1>8 DEF CheckCall, f, s1

-----------------------------------------------------------------------------
(* Steps that create and close no event. *)

(* What a step that leaves a group of variables alone need not show.       *)
LEMMA Untouched ==
    ASSUME IInv
    PROVE  /\ UNCHANGED eventVars => EventTypes'
           /\ UNCHANGED timerVars => TimerTypes'
           /\ UNCHANGED clockVars => now' \in Nat /\ masked' \in Nat
           /\ UNCHANGED wait => WaitTypes'
           /\ UNCHANGED calls => calls' \in Nat
           /\ Keeps(stack, stack)
<1>1. UNCHANGED eventVars => EventTypes'
  BY SameEvents
<1>2. UNCHANGED timerVars => TimerTypes'
  BY DEF IInv, TypeOK, TimerTypes, timerVars
<1>3. UNCHANGED clockVars => now' \in Nat /\ masked' \in Nat
  BY DEF IInv, TypeOK, clockVars
<1>4. UNCHANGED wait => WaitTypes'
  BY DEF IInv, TypeOK, WaitTypes
<1>5. UNCHANGED calls => calls' \in Nat
  BY DEF IInv, TypeOK
<1>6. Keeps(stack, stack)
  BY DEF Keeps
<1> QED
  BY <1>1, <1>2, <1>3, <1>4, <1>5, <1>6

(* What is known of the innermost frame.                                   *)
LEMMA Innermost ==
    ASSUME IInv
    PROVE  /\ StackOK(stack) /\ Top = Last(stack) /\ Top \in FrameType /\ FrameOK(Top)
           /\ tpl \in Tpls /\ LevelOK(Top, tpl)
           /\ Top.pc # "client" => Len(stack) > 1
           /\ Top.pc # "restore" => Quiet(tpl)
           /\ Top.pc # "restore" /\ ~(Top.pc = "group" /\ Top.n > 0) => MayCall(Top, tpl)
           /\ Len(stack) > 1 => MayCall(Last(Below), Top.tpl)
<1>1. StackOK(stack) /\ Top = Last(stack) /\ tpl \in Tpls /\ LevelOK(Top, tpl)
  BY DEF IInv, TypeOK, Top
<1>2. stack \in Seq(FrameType) /\ Len(stack) \in Nat /\ Len(stack) > 0
  BY <1>1, EmptySeq, LenProperties DEF StackOK
<1>3. Top \in FrameType /\ FrameOK(Top)
  BY <1>1, <1>2, ElementOfSeq DEF StackOK, Last
<1>4. Top.pc # "client" => Len(stack) > 1
  BY <1>1, Deep DEF Last
<1>5. Top.pc # "restore" => Quiet(tpl)
  BY DEF IInv, At
<1>6. Top.pc # "restore" /\ ~(Top.pc = "group" /\ Top.n > 0) => MayCall(Top, tpl)
  BY <1>1, <1>3 DEF LevelOK, MayCall, FrameType
<1>7. Len(stack) > 1 => MayCall(Last(Below), Top.tpl)
  BY <1>1, Return DEF Fits, MayCall, Below
<1> QED
  BY <1>1, <1>3, <1>4, <1>5, <1>6, <1>7

LEMMA RestoreConsumeStep == ASSUME IInv, RestoreConsume PROVE IInv'
<1>1. EventTypes' /\ now' \in Nat /\ masked' \in Nat
  <2>1. masked \in Nat /\ CoreTimerTick(masked) /\ masked' = 0
    BY DEF RestoreConsume, IInv, TypeOK
  <2> QED
    BY <2>1, Tick
<1>2. UNCHANGED <<stack, tpl>> /\ Top.pc = "restore"
  BY DEF RestoreConsume, At
<1>3. UNCHANGED dbVars /\ UNCHANGED timerVars /\ UNCHANGED wait /\ UNCHANGED calls
  BY DEF RestoreConsume
<1> QED
  BY <1>1, <1>2, <1>3, Untouched, Innermost, Assemble

LEMMA RestoreDispatchStep == ASSUME IInv, RestoreDispatch PROVE IInv'
<1>1. PICK p \in pending : /\ p > Top.tpl /\ Quiet(p) /\ tpl' = p
                          /\ stack' = Append(stack, Frame("dispatch", p, NoEvent, 0))
  BY DEF RestoreDispatch
<1>2. Top.pc = "restore" /\ UNCHANGED <<eventVars, dbVars, timerVars, clockVars, wait, calls>>
  BY DEF RestoreDispatch, At
<1>3. p \in NotifyTpls /\ p \in Tpls
  BY Levels DEF IInv, TypeOK
<1> DEFINE f == Frame("dispatch", p, NoEvent, 0)
<1>4. f \in FrameType /\ FrameOK(f) /\ f.pc \notin Closing /\ Fits(Top, f) /\ LevelOK(f, p)
  <2>1. f \in FrameType /\ FrameOK(f) /\ f.pc \notin Closing /\ LevelOK(f, p)
    BY <1>3, Levels DEF Frame, FrameType, Pcs, FrameOK, Closing, LevelOK
  <2>2. Fits(Top, f)
    <3>1. Top.tpl \in Nat /\ p \in Nat
      BY <1>3, Levels, Innermost DEF FrameType
    <3> QED
      BY <1>1, <1>2, <3>1 DEF Fits, Frame
  <2> QED
    BY <2>1, <2>2
<1>5. f.pc # "restore"
  BY DEF Frame
<1> HIDE DEF f
<1>6. StackOK(stack') /\ Last(stack') = f /\ Keeps(stack, stack')
  BY <1>1, <1>4, Innermost, Enter DEF f
<1>7. \A q \in pending' : q <= tpl'
  BY <1>1, <1>2 DEF Quiet, eventVars
<1> QED
  BY <1>1, <1>2, <1>3, <1>4, <1>6, <1>7, Untouched, Assemble

LEMMA RestoreDoneStep == ASSUME IInv, RestoreDone PROVE IInv'
<1>1. /\ Top.pc = "restore" /\ Quiet(Top.tpl) /\ tpl' = Top.tpl /\ stack' = Front(stack)
      /\ UNCHANGED <<eventVars, dbVars, timerVars, clockVars, wait, calls>>
  BY DEF RestoreDone, At, Below
<1>2. StackOK(stack') /\ LevelOK(Last(stack'), tpl') /\ Keeps(stack, stack')
  BY <1>1, Innermost, Return
<1>3. tpl' \in Tpls /\ \A p \in pending' : p <= tpl'
  BY <1>1, Innermost DEF FrameType, Quiet, eventVars
<1> QED
  BY <1>1, <1>2, <1>3, Untouched, Assemble

LEMMA DispatchNextStep == ASSUME IInv, DispatchNext PROVE IInv'
<1> DEFINE l == Top.tpl
           e == Head(queue[l])
           f == Frame("start", l, e, 0)
<1>1. /\ Top.pc = "dispatch" /\ queue[l] # <<>>
      /\ queue' = [queue EXCEPT ![l] = Tail(@)]
      /\ signalCount' = IF "SIGNAL" \in attr[e].type
                        THEN [signalCount EXCEPT ![e] = 0] ELSE signalCount
      /\ stack' = Restore(Append(stack, f), l)
      /\ tpl' = HIGH
      /\ UNCHANGED <<pending, dbVars, timerVars, clockVars, wait, calls>>
  BY DEF DispatchNext, At
<1>2. /\ queue \in [NotifyTpls -> Seq(Events)] /\ QueueOK(queue) /\ pending \subseteq NotifyTpls
      /\ signalCount \in [Events -> {0, 1}]
  BY DEF IInv, TypeOK
<1>3. l \in NotifyTpls /\ l \in Tpls
  BY <1>1, Innermost, Levels DEF FrameOK
<1>4. /\ queue[l] \in Seq(Events) /\ e \in Events /\ Tail(queue[l]) \in Seq(Events)
      /\ Len(Tail(queue[l])) = Len(queue[l]) - 1
      /\ \A i \in 1 .. Len(Tail(queue[l])) : Tail(queue[l])[i] = queue[l][i + 1]
      /\ e = queue[l][1] /\ Len(queue[l]) \in Nat \ {0}
  BY <1>1, <1>2, <1>3, HeadTailProperties, EmptySeq
<1> HIDE DEF l, e
<1>5. QueueOK(queue')
  <2> SUFFICES ASSUME NEW p \in NotifyTpls \ {TIMER}, NEW i \in 1 .. Len(queue'[p])
               PROVE  queue'[p][i] # CheckTimer
    BY DEF QueueOK
  <2>1. CASE p = l
    <3>1. queue'[p] = Tail(queue[l])
      BY <1>1, <1>2, <1>3, <2>1
    <3>2. i + 1 \in 1 .. Len(queue[l]) /\ queue'[p][i] = queue[l][i + 1]
      BY <1>4, <3>1
    <3> QED
      BY <1>2, <2>1, <3>2 DEF QueueOK
  <2>2. CASE p # l
    BY <1>1, <1>2, <2>2 DEF QueueOK
  <2> QED
    BY <2>1, <2>2
<1>6. EventTypes'
  BY <1>1, <1>2, <1>3, <1>4, <1>5 DEF EventTypes
<1>7. e = CheckTimer => l = TIMER
  <2>1. 1 \in 1 .. Len(queue[l])
    BY <1>4
  <2> QED
    BY <1>2, <1>3, <1>4, <2>1 DEF QueueOK
<1>8. f \in FrameType /\ FrameOK(f) /\ f.pc \notin Closing /\ f.tpl = l /\ f.pc = "start"
  BY <1>3, <1>4, <1>7 DEF Frame, FrameType, Pcs, FrameOK, Closing
<1> HIDE DEF f
<1>9. StackOK(Append(stack, f)) /\ Last(Append(stack, f)) = f /\ Keeps(stack, Append(stack, f))
  <2>1. Fits(Top, f)
    <3>1. l \in Nat /\ Top.tpl = l
      BY <1>3, Levels DEF l
    <3> QED
      BY <1>1, <1>8, <3>1 DEF Fits
  <2> QED
    BY <1>8, <2>1, Innermost, Enter
<1>10. /\ StackOK(stack') /\ Keeps(Append(stack, f), stack')
       /\ Last(stack') = Frame("restore", l, NoEvent, 0)
  <2>1. MayCall(f, l)
    BY <1>8 DEF MayCall
  <2> QED
    BY <1>1, <1>3, <1>9, <2>1, Release
<1>11. LevelOK(Last(stack'), tpl') /\ Last(stack').pc = "restore" /\ tpl' \in Tpls
  BY <1>1, <1>3, <1>10, Levels DEF LevelOK, Frame
<1>12. Keeps(stack, stack')
  BY <1>9, <1>10, KeepsTwice
<1> QED
  BY <1>1, <1>6, <1>10, <1>11, <1>12, Untouched, Assemble

(* A frame returns at level t and releases a lock it held.                 *)
LEMMA ReturnRelease ==
    ASSUME IInv, Len(stack) > 1, stack' = Restore(Below, Top.tpl), tpl' \in Tpls, Top.tpl <= tpl'
    PROVE  /\ StackOK(stack') /\ Keeps(stack, stack')
           /\ Last(stack').pc = "restore" /\ LevelOK(Last(stack'), tpl')
<1>1. StackOK(Below) /\ Keeps(stack, Below)
  BY Innermost, Return DEF Below
<1>2. MayCall(Last(Below), Top.tpl) /\ Top.tpl \in Tpls
  BY Innermost DEF FrameType
<1>3. /\ StackOK(stack') /\ Keeps(Below, stack')
      /\ Last(stack') = Frame("restore", Top.tpl, NoEvent, 0)
  BY <1>1, <1>2, Release
<1>4. Keeps(stack, stack')
  BY <1>1, <1>3, KeepsTwice
<1> QED
  BY <1>3, <1>4 DEF LevelOK, Frame

LEMMA DispatchDoneStep == ASSUME IInv, DispatchDone PROVE IInv'
<1>1. /\ Top.pc = "dispatch" /\ pending' = pending \ {Top.tpl}
      /\ stack' = Restore(Below, Top.tpl) /\ tpl' = HIGH
      /\ UNCHANGED <<queue, signalCount, dbVars, timerVars, clockVars, wait, calls>>
  BY DEF DispatchDone, At
<1>2. EventTypes'
  BY <1>1 DEF EventTypes, IInv, TypeOK, QueueOK
<1>3. tpl' \in Tpls /\ Top.tpl <= tpl'
  BY <1>1, Levels, Innermost DEF FrameType
<1>4. /\ StackOK(stack') /\ Keeps(stack, stack')
      /\ Last(stack').pc = "restore" /\ LevelOK(Last(stack'), tpl')
  BY <1>1, <1>3, Innermost, ReturnRelease
<1> QED
  BY <1>1, <1>2, <1>3, <1>4, Untouched, Assemble

LEMMA NotifyFunctionStep == ASSUME IInv, NotifyFunction PROVE IInv'
<1>1. Top.pc = "start" /\ UNCHANGED <<tpl, eventVars, dbVars, timerVars, clockVars, wait, calls>>
  BY DEF NotifyFunction, At
<1>2. PICK g : /\ stack' = Append(Front(stack), g)
               /\ \/ Top.ev = CheckTimer /\ g = [Top EXCEPT !.pc = "checkTimers", !.n = now]
                  \/ g = [Top EXCEPT !.pc = "empty"]
                  \/ g = [Top EXCEPT !.pc = "client"]
  BY DEF NotifyFunction, Below
<1>3. now \in Nat
  BY DEF IInv, TypeOK
<1>4. Top \in FrameType /\ FrameOK(Top) /\ LevelOK(Top, tpl) /\ StackOK(stack) /\ Len(stack) > 1
      /\ tpl \in Tpls /\ Quiet(tpl) /\ Top = Last(stack)
  BY <1>1, Innermost
<1>5. /\ g \in FrameType /\ FrameOK(g) /\ g.tpl = Top.tpl
      /\ g.pc \in {"checkTimers", "empty", "client"}
  BY <1>1, <1>2, <1>3, <1>4 DEF FrameType, FrameOK, Pcs
<1>6. tpl = Top.tpl
  BY <1>1, <1>4 DEF LevelOK
<1>7. LevelOK(g, tpl)
  BY <1>4, <1>5, <1>6, Levels DEF LevelOK
<1>8. StackOK(stack') /\ Last(stack') = g /\ Keeps(stack, stack')
  <2>1. g.pc # "dispatch" /\ g.pc \notin Closing
    BY <1>5 DEF Closing
  <2> QED
    BY <1>2, <1>4, <1>5, <2>1, Continue
<1>9. tpl' \in Tpls /\ \A p \in pending' : p <= tpl'
  BY <1>1, <1>4 DEF Quiet, eventVars
<1> QED
  BY <1>1, <1>7, <1>8, <1>9, Untouched, Assemble

LEMMA NotifyReturnStep == ASSUME IInv, NotifyReturn PROVE IInv'
<1>1. /\ Top.pc \in {"client", "empty"} /\ Len(stack) > 1 /\ tpl = Top.tpl /\ stack' = Front(stack)
      /\ UNCHANGED <<tpl, eventVars, dbVars, timerVars, clockVars, wait, calls>>
  BY DEF NotifyReturn, At, Below
<1>2. StackOK(stack') /\ LevelOK(Last(stack'), tpl') /\ Keeps(stack, stack')
  BY <1>1, Innermost, Return
<1>3. tpl' \in Tpls /\ \A p \in pending' : p <= tpl'
  BY <1>1, Innermost DEF Quiet, eventVars
<1> QED
  BY <1>1, <1>2, <1>3, Untouched, Assemble

LEMMA CheckTimersSignalStep == ASSUME IInv, CheckTimersSignal PROVE IInv'
<1> DEFINE e == Head(timerList)
           f == Frame("rearm", TIMER, e, Top.n)
           s == Append(stack, f)
<1>1. /\ Top.pc = "checkTimers" /\ timerList # <<>> /\ timerList' = Tail(timerList)
      /\ CoreSignalEvent(s, TIMER, e)
      /\ UNCHANGED <<dbVars, trigger, period, clockVars, wait, calls>>
  BY DEF CheckTimersSignal, At, Expired
<1>2. timerList \in Seq(Events) /\ trigger \in [Events -> Nat] /\ period \in [Events -> Nat]
  BY DEF IInv, TypeOK
<1>3. e \in Events /\ Tail(timerList) \in Seq(Events)
  BY <1>1, <1>2, HeadTailProperties
<1>4. TimerTypes'
  BY <1>1, <1>2, <1>3 DEF TimerTypes
<1> HIDE DEF e
<1>5. Top.tpl = TIMER /\ TIMER \in Nat /\ TIMER \in Tpls /\ Top.n \in Nat
  BY <1>1, Innermost, Levels DEF FrameOK, FrameType
<1>6. f \in FrameType /\ FrameOK(f) /\ f.pc = "rearm" /\ f.tpl = TIMER
  BY <1>3, <1>5 DEF Frame, FrameType, Pcs, FrameOK
<1> HIDE DEF f
<1>7. Fits(Top, f) /\ f.pc \notin Closing
  BY <1>1, <1>5, <1>6 DEF Fits, Closing
<1>8. StackOK(s) /\ Last(s) = f /\ Keeps(stack, s)
  BY <1>6, <1>7, Innermost, Enter
<1>9. MayCall(f, TIMER)
  BY <1>6 DEF MayCall
<1> HIDE DEF s
<1>10. /\ EventTypes' /\ StackOK(stack') /\ Keeps(s, stack')
       /\ Last(stack').pc = "restore" /\ LevelOK(Last(stack'), tpl') /\ tpl' \in Tpls
  BY <1>1, <1>3, <1>5, <1>8, <1>9, SignalStep
<1>11. Keeps(stack, stack')
  BY <1>8, <1>10, KeepsTwice
<1> QED
  BY <1>1, <1>4, <1>10, <1>11, Untouched, Assemble

LEMMA CheckTimersRearmStep == ASSUME IInv, CheckTimersRearm PROVE IInv'
<1> DEFINE e == Top.ev
           t == NextTrigger(e, Top.n)
<1>1. /\ Top.pc = "rearm" /\ stack' = Front(stack)
      /\ UNCHANGED <<tpl, dbVars, period, clockVars, wait, calls>>
  BY DEF CheckTimersRearm, At, Below
<1>2. /\ \/ trigger' = [trigger EXCEPT ![e] = t] /\ timerList' = CoreInsertEventTimer(timerList, e, t)
         \/ UNCHANGED <<trigger, timerList>>
      /\ SignalCheckTimer \/ UNCHANGED eventVars
  BY DEF CheckTimersRearm
<1>3. /\ timerList \in Seq(Events) /\ trigger \in [Events -> Nat] /\ period \in [Events -> Nat]
      /\ pending \subseteq NotifyTpls
  BY DEF IInv, TypeOK
<1>4. e \in Events /\ Top.n \in Nat /\ Top.tpl = TIMER /\ tpl = TIMER
  BY <1>1, Innermost DEF FrameOK, FrameType, LevelOK
<1>5. t \in Nat
  BY <1>3, <1>4 DEF NextTrigger
<1> HIDE DEF e, t
<1>6. CoreInsertEventTimer(timerList, e, t) \in Seq(Events)
  BY <1>3, <1>4, <1>5, InsertTimer
<1>7. TimerTypes'
  BY <1>1, <1>2, <1>3, <1>4, <1>5, <1>6 DEF TimerTypes
<1>8. EventTypes'
  BY <1>2, SignalCheck, SameEvents
<1>9. StackOK(stack') /\ LevelOK(Last(stack'), tpl') /\ Keeps(stack, stack')
  BY <1>1, <1>4, Innermost, Return
<1>10. tpl' \in Tpls /\ \A p \in pending' : p <= tpl'
  BY <1>1, <1>4, <1>8, Innermost, Levels DEF EventTypes
<1> QED
  BY <1>1, <1>7, <1>8, <1>9, <1>10, Untouched, Assemble

LEMMA CheckTimersDoneStep == ASSUME IInv, CheckTimersDone PROVE IInv'
<1>1. /\ Top.pc = "checkTimers" /\ stack' = Restore(Below, TIMER)
      /\ UNCHANGED <<tpl, eventVars, dbVars, timerVars, clockVars, wait, calls>>
  BY DEF CheckTimersDone, At
<1>2. Top.tpl = TIMER /\ tpl' = TIMER /\ TIMER \in Tpls /\ TIMER \in Nat
  BY <1>1, Innermost, Levels DEF FrameOK, LevelOK
<1>3. /\ StackOK(stack') /\ Keeps(stack, stack')
      /\ Last(stack').pc = "restore" /\ LevelOK(Last(stack'), tpl')
  BY <1>1, <1>2, Innermost, ReturnRelease
<1> QED
  BY <1>1, <1>2, <1>3, Untouched, Assemble

(* The innermost frame goes on as g at the same level, runs at level t.    *)
LEMMA GoOn ==
    ASSUME IInv, NEW g \in FrameType, FrameOK(g), g.tpl = Top.tpl, g.pc # "dispatch",
           g.pc \notin Closing, Top.pc # "client"
    PROVE  /\ StackOK(Append(Below, g))
           /\ Last(Append(Below, g)) = g
           /\ Keeps(stack, Append(Below, g))
BY Innermost, Continue DEF Below

LEMMA GroupAcquireStep == ASSUME IInv, GroupAcquire PROVE IInv'
<1> DEFINE g == [Top EXCEPT !.n = 1]
<1>1. /\ Top.pc = "group" /\ tpl' = HIGH /\ stack' = Append(Below, g)
      /\ UNCHANGED <<eventVars, dbVars, timerVars, clockVars, wait, calls>>
  BY DEF GroupAcquire, At
<1>2. g \in FrameType /\ FrameOK(g) /\ g.tpl = Top.tpl /\ g.pc = "group" /\ g.n = 1
  BY <1>1, Innermost DEF FrameType, FrameOK
<1> HIDE DEF g
<1>3. StackOK(stack') /\ Last(stack') = g /\ Keeps(stack, stack')
  BY <1>1, <1>2, GoOn DEF Closing
<1>4. LevelOK(g, tpl') /\ tpl' \in Tpls
  BY <1>1, <1>2, Levels DEF LevelOK
<1>5. \A p \in pending' : p <= tpl'
  BY <1>1, Levels DEF IInv, TypeOK, eventVars
<1> QED
  BY <1>1, <1>3, <1>4, <1>5, Untouched, Assemble

LEMMA GroupNotifyStep == ASSUME IInv, GroupNotify PROVE IInv'
<1> DEFINE e == signalList[Top.n]
           g == [Top EXCEPT !.n = @ + 1]
<1>1. /\ Top.pc = "group" /\ Top.n \in 1 .. Len(signalList) /\ stack' = Append(Below, g)
      /\ CoreNotifyEvent(e) \/ UNCHANGED <<pending, queue>>
      /\ UNCHANGED <<tpl, signalCount, dbVars, timerVars, clockVars, wait, calls>>
  BY DEF GroupNotify, At
<1>2. e \in Events /\ NeedsNotify(attr[e])
  <2>1. signalList \in Seq(Events) /\ SignalListOK
    BY DEF IInv, TypeOK
  <2> QED
    BY <1>1, <2>1, ElementOfSeq DEF SignalListOK, NeedsNotify
<1> HIDE DEF e
<1>3. EventTypes'
  BY <1>1, <1>2, NotifyEvent DEF EventTypes, IInv, TypeOK, QueueOK
<1>4. /\ g \in FrameType /\ FrameOK(g) /\ g.tpl = Top.tpl /\ g.pc = "group" /\ g.n > 0
      /\ tpl = HIGH
  BY <1>1, Innermost DEF FrameType, FrameOK, LevelOK
<1> HIDE DEF g
<1>5. StackOK(stack') /\ Last(stack') = g /\ Keeps(stack, stack')
  BY <1>1, <1>4, GoOn DEF Closing
<1>6. LevelOK(g, tpl') /\ tpl' \in Tpls
  BY <1>1, <1>4, Levels DEF LevelOK
<1>7. \A p \in pending' : p <= tpl'
  BY <1>1, <1>3, <1>4, Levels DEF EventTypes
<1> QED
  BY <1>1, <1>3, <1>5, <1>6, <1>7, Untouched, Assemble

LEMMA GroupDoneStep == ASSUME IInv, GroupDone PROVE IInv'
<1> DEFINE l == Top.tpl
           s == Restore(Below, l)
           f == Frame("restore", l, NoEvent, 0)
<1>1. /\ Top.pc = "group" /\ Top.n > Len(signalList) /\ stack' = Restore(s, l)
      /\ UNCHANGED <<tpl, eventVars, dbVars, timerVars, clockVars, wait, calls>>
  BY DEF GroupDone, At
<1>2. signalList \in Seq(Events)
  BY DEF IInv, TypeOK
<1>3. tpl = HIGH /\ Len(stack) > 1 /\ l \in Tpls /\ MayCall(Last(Below), l) /\ StackOK(stack)
  BY <1>1, <1>2, LenProperties, Innermost DEF LevelOK, FrameType
<1> HIDE DEF l
<1>4. StackOK(Below) /\ Keeps(stack, Below)
  BY <1>3, Return DEF Below
<1>5. StackOK(s) /\ Keeps(Below, s) /\ Last(s) = f
  BY <1>3, <1>4, Release
<1>6. MayCall(f, l) /\ LevelOK(f, HIGH) /\ HIGH \in Tpls /\ f.pc = "restore"
  <2>1. l \in Nat /\ l <= HIGH /\ HIGH \in Tpls
    BY <1>3, Levels
  <2> QED
    BY <2>1 DEF MayCall, LevelOK, Frame
<1> HIDE DEF s
<1>7. StackOK(stack') /\ Keeps(s, stack') /\ Last(stack') = f
  BY <1>1, <1>3, <1>5, <1>6, Release
<1>8. Keeps(stack, stack')
  BY <1>4, <1>5, <1>7, KeepsTwice
<1> HIDE DEF f
<1> QED
  BY <1>1, <1>3, <1>6, <1>7, <1>8, Untouched, Assemble

(* CoreCheckEvent has decided what it returns; g is its frame then.        *)
LEMMA CheckDecideStep == ASSUME IInv, CheckDecide PROVE IInv'
<1> DEFINE g(n) == [Top EXCEPT !.pc = "checkReturn", !.n = n]
           s(n) == Append(Below, g(n))
<1>1. Top.pc = "check" /\ UNCHANGED <<dbVars, timerVars, masked, wait, calls>>
  BY DEF CheckDecide, At
<1>2. Top.tpl = tpl /\ tpl \in Tpls /\ Top.ev \in Events /\ Quiet(tpl)
  BY <1>1, Innermost DEF LevelOK, FrameOK
<1>3. ASSUME NEW n \in Nat
      PROVE  /\ StackOK(s(n)) /\ Last(s(n)) = g(n) /\ Keeps(stack, s(n))
             /\ LevelOK(g(n), tpl) /\ MayCall(g(n), tpl)
             /\ g(n).pc = "checkReturn"
  <2>1. g(n) \in FrameType /\ FrameOK(g(n)) /\ g(n).tpl = Top.tpl /\ g(n).pc = "checkReturn"
    BY <1>1, <1>2, Innermost DEF FrameType, FrameOK, Pcs
  <2> HIDE DEF g
  <2>2. StackOK(s(n)) /\ Last(s(n)) = g(n) /\ Keeps(stack, s(n))
    BY <1>1, <2>1, GoOn DEF Closing
  <2>3. LevelOK(g(n), tpl) /\ MayCall(g(n), tpl)
    BY <1>2, <2>1 DEF LevelOK, MayCall
  <2> QED
    BY <2>1, <2>2, <2>3
<1> HIDE DEF g, s
<1>4. ASSUME NEW n \in Nat, stack' = Restore(s(n), tpl), tpl' = HIGH, EventTypes', now' \in Nat
      PROVE  IInv'
  <2>1. /\ StackOK(stack') /\ Keeps(s(n), stack')
        /\ Last(stack') = Frame("restore", tpl, NoEvent, 0)
    BY <1>2, <1>3, <1>4, Release
  <2>2. Keeps(stack, stack')
    BY <1>3, <2>1, KeepsTwice
  <2>3. LevelOK(Last(stack'), tpl') /\ tpl' \in Tpls /\ Last(stack').pc = "restore"
    BY <1>2, <1>4, <2>1, Levels DEF LevelOK, Frame
  <2>4. masked' \in Nat
    BY <1>1 DEF IInv, TypeOK
  <2> QED
    BY <1>1, <1>4, <2>1, <2>2, <2>3, <2>4, Untouched, Assemble
<1>5. CASE /\ signalCount' = [signalCount EXCEPT ![Top.ev] = 0]
           /\ stack' = Restore(s(1), tpl) /\ tpl' = HIGH /\ UNCHANGED <<pending, queue, now>>
  <2>1. EventTypes' /\ now' \in Nat
    BY <1>5 DEF EventTypes, IInv, TypeOK, QueueOK
  <2> QED
    BY <1>4, <1>5, <2>1
<1>6. CASE CoreTimerTick(PollTick) /\ stack' = Restore(s(0), tpl) /\ tpl' = HIGH
  <2>1. EventTypes' /\ now' \in Nat
    BY <1>6, Tick, EventCoreAssumption
  <2> QED
    BY <1>4, <1>6, <2>1
<1>7. CASE stack' = s(0) /\ UNCHANGED <<tpl, eventVars, now>>
  <2>1. EventTypes' /\ now' \in Nat /\ masked' \in Nat
    BY <1>1, <1>7, SameEvents DEF IInv, TypeOK
  <2>2. tpl' \in Tpls /\ \A p \in pending' : p <= tpl'
    BY <1>2, <1>7 DEF Quiet, eventVars
  <2>3. StackOK(stack') /\ Keeps(stack, stack') /\ LevelOK(Last(stack'), tpl')
    BY <1>3, <1>7
  <2> QED
    BY <1>1, <2>1, <2>2, <2>3, Untouched, Assemble
<1> QED
  BY <1>5, <1>6, <1>7 DEF CheckDecide, s, g

(* A frame at the current level returns and changes nothing else but wait. *)
LEMMA ReturnStep ==
    ASSUME IInv, Len(stack) > 1, Top.tpl = tpl, Top.pc # "restore", stack' = Below,
           UNCHANGED <<tpl, eventVars, dbVars, timerVars, clockVars, calls>>, WaitTypes'
    PROVE  IInv'
<1>1. StackOK(stack') /\ LevelOK(Last(stack'), tpl') /\ Keeps(stack, stack')
  BY Innermost, Return DEF Below
<1>2. tpl' \in Tpls /\ \A p \in pending' : p <= tpl'
  BY Innermost DEF Quiet, eventVars
<1> QED
  BY <1>1, <1>2, Untouched, Assemble

LEMMA CheckReturnStep == ASSUME IInv, CheckReturn PROVE IInv'
<1>1. Top.pc = "checkReturn" /\ Top.tpl = tpl /\ Len(stack) > 1
  BY Innermost DEF CheckReturn, At, LevelOK
<1> QED
  BY <1>1, ReturnStep, Untouched DEF CheckReturn

LEMMA WaitCheckedStep == ASSUME IInv, WaitChecked PROVE IInv'
<1>1. /\ Top.pc = "checkReturn" /\ Top.tpl = tpl /\ Len(stack) > 1
      /\ stack[Len(stack) - 1].pc = "wait"
      /\ UNCHANGED <<tpl, eventVars, dbVars, timerVars, clockVars, calls>>
  BY Innermost DEF WaitChecked, InWait, At, LevelOK
<1>2. wait' = [wait EXCEPT !.status = "SUCCESS"] \/ wait' = [wait EXCEPT !.idx = @ + 1]
  BY DEF WaitChecked
<1>3. WaitTypes'
  <2>1. WaitTypes
    BY DEF IInv, TypeOK, WaitTypes
  <2> QED
    BY <1>2, <2>1 DEF WaitTypes
<1>4. CASE stack' = Below
  BY <1>1, <1>3, <1>4, ReturnStep
<1>5. CASE stack' = SubSeq(stack, 1, Len(stack) - 2)
  <2>1. /\ StackOK(Below) /\ Len(Below) = Len(stack) - 1 /\ Last(Below).pc = "wait"
        /\ Last(Below).tpl = tpl /\ Keeps(stack, Below)
    BY <1>1, Innermost, Return DEF Below, Fits
  <2>2. Len(Below) > 1
    BY <2>1, Deep DEF Last
  <2>3. stack \in Seq(FrameType) /\ Len(stack) \in Nat
    BY Innermost, LenProperties DEF StackOK
  <2>4. stack' = Front(Below)
    <3> DEFINE n == Len(stack)
    <3>1. \A i \in 1 .. n - 2 : Below[i] = stack[i]
      BY <1>1, <2>3, SubSeqProperties DEF Below, Front
    <3>2. /\ stack' \in Seq(FrameType) /\ Len(stack') = n - 2
          /\ \A i \in 1 .. n - 2 : stack'[i] = stack[i]
      BY <1>5, <2>1, <2>2, <2>3, SubSeqProperties
    <3>3. /\ Front(Below) \in Seq(FrameType) /\ Len(Front(Below)) = n - 2
          /\ \A i \in 1 .. n - 2 : Front(Below)[i] = Below[i]
      BY <2>1, <2>2, Pop, SMTT(30) DEF StackOK
    <3> HIDE DEF n
    <3> QED
      BY <3>1, <3>2, <3>3, SeqEqual
  <2>5. StackOK(stack') /\ LevelOK(Last(stack'), tpl') /\ Keeps(Below, stack')
    BY <1>1, <2>1, <2>2, <2>4, Return
  <2>6. Keeps(stack, stack')
    BY <2>1, <2>5, KeepsTwice
  <2>7. tpl' \in Tpls /\ \A p \in pending' : p <= tpl'
    BY <1>1, Innermost DEF Quiet, eventVars
  <2> QED
    BY <1>1, <1>3, <2>5, <2>6, <2>7, Untouched, Assemble
<1> QED
  BY <1>4, <1>5 DEF WaitChecked

LEMMA WaitCheckStep == ASSUME IInv, WaitCheck PROVE IInv'
<1> DEFINE e == wait.evs[wait.idx]
<1>1. /\ Top.pc = "wait" /\ Top.tpl = tpl /\ MayCall(Top, tpl) /\ wait.idx <= Len(wait.evs)
      /\ Len(stack) > 1
      /\ UNCHANGED <<signalCount, dbVars, timerVars, clockVars, calls>>
  BY Innermost DEF WaitCheck, At, LevelOK
<1>2. WaitTypes
  BY DEF IInv, TypeOK, WaitTypes
<1>3. e \in Events
  <2>1. wait.evs \in Seq(UserEvents) /\ wait.idx \in 1 .. Len(wait.evs)
    BY <1>1, <1>2, LenProperties DEF WaitTypes
  <2> QED
    BY <2>1, ElementOfSeq DEF Events
<1> HIDE DEF e
<1>4. CASE /\ stack' = Below /\ wait' = [wait EXCEPT !.status = "INVALID_PARAMETER"]
           /\ UNCHANGED <<tpl, pending, queue>>
  <2>1. WaitTypes'
    BY <1>2, <1>4 DEF WaitTypes
  <2>2. UNCHANGED eventVars
    BY <1>1, <1>4 DEF eventVars
  <2> QED
    BY <1>1, <1>4, <2>1, <2>2, ReturnStep
<1>5. CASE CheckCall(stack, e) /\ UNCHANGED wait
  <2>1. /\ EventTypes' /\ StackOK(stack') /\ Keeps(stack, stack')
        /\ LevelOK(Last(stack'), tpl') /\ tpl' \in Tpls
        /\ Last(stack').pc # "restore" => \A p \in pending' : p <= tpl'
    BY <1>1, <1>3, <1>5, CheckStep DEF At
  <2> QED
    BY <1>1, <1>5, <2>1, Untouched, Assemble
<1> QED
  BY <1>4, <1>5 DEF WaitCheck, e

LEMMA WaitIdleStep == ASSUME IInv, WaitIdle PROVE IInv'
<1>1. /\ Top.pc = "wait" /\ MayCall(Top, tpl) /\ tpl \in Tpls /\ CoreSignalEvent(stack, tpl, Idle)
      /\ wait' = [wait EXCEPT !.iter = @ + 1, !.idx = 1]
      /\ UNCHANGED <<dbVars, timerVars, clockVars, calls>>
  BY Innermost DEF WaitIdle, At
<1>2. WaitTypes'
  <2>1. WaitTypes
    BY DEF IInv, TypeOK, WaitTypes
  <2>2. wait' = [wait EXCEPT !.iter = @ + 1, !.idx = 1]
    BY <1>1
  <2>3. 1 \in Nat \ {0} /\ wait.iter + 1 \in Nat
    BY <2>1 DEF WaitTypes
  <2> QED
    BY <2>1, <2>2, <2>3 DEF WaitTypes
<1>3. /\ EventTypes' /\ StackOK(stack') /\ Keeps(stack, stack')
      /\ Last(stack').pc = "restore" /\ LevelOK(Last(stack'), tpl') /\ tpl' \in Tpls
  BY <1>1, Innermost, SignalStep DEF Events
<1> QED
  BY <1>1, <1>2, <1>3, Untouched, Assemble

LEMMA WaitGiveUpStep == ASSUME IInv, WaitGiveUp PROVE IInv'
<1>1. /\ Top.pc = "wait" /\ Top.tpl = tpl /\ Len(stack) > 1
      /\ wait' = [wait EXCEPT !.status = "SUCCESS", !.idx = 1]
      /\ stack' = Below
      /\ UNCHANGED <<tpl, eventVars, dbVars, timerVars, clockVars, calls>>
  BY Innermost DEF WaitGiveUp, At, LevelOK
<1>2. WaitTypes'
  <2>1. WaitTypes
    BY DEF IInv, TypeOK, WaitTypes
  <2>2. wait' = [wait EXCEPT !.status = "SUCCESS", !.idx = 1]
    BY <1>1
  <2>3. 1 \in Nat \ {0} /\ wait.iter + 1 \in Nat
    BY <2>1 DEF WaitTypes
  <2> QED
    BY <2>1, <2>2, <2>3 DEF WaitTypes
<1> QED
  BY <1>1, <1>2, ReturnStep

LEMMA AdvanceForceStep == ASSUME IInv, AdvanceForce PROVE IInv'
<1>1. /\ Top.pc = "force" /\ Top.tpl = tpl /\ Len(stack) > 1
      /\ UNCHANGED <<eventVars, dbVars, timerVars, clockVars, wait, calls>>
  BY Innermost DEF AdvanceForce, At, LevelOK
<1>2. CASE stack' = Restore(Below, tpl) /\ tpl' = HIGH
  <2>1. tpl' \in Tpls /\ Top.tpl <= tpl'
    BY <1>2, Levels, Innermost DEF FrameType
  <2>2. /\ StackOK(stack') /\ Keeps(stack, stack')
        /\ Last(stack').pc = "restore" /\ LevelOK(Last(stack'), tpl')
    BY <1>1, <1>2, <2>1, ReturnRelease
  <2> QED
    BY <1>1, <2>1, <2>2, Untouched, Assemble
<1>3. CASE stack' = Below /\ UNCHANGED tpl
  BY <1>1, <1>3, ReturnStep, Untouched
<1> QED
  BY <1>2, <1>3 DEF AdvanceForce

-----------------------------------------------------------------------------
(* Calls of clients that create and close no event. *)

LEMMA Caller ==
    ASSUME IInv, At("client")
    PROVE  /\ StackOK(stack) /\ Top = Last(stack) /\ Top.pc = "client"
           /\ tpl \in Tpls /\ Quiet(tpl) /\ MayCall(Top, tpl)
           /\ Call => calls' \in Nat
<1>1. Top.pc = "client"
  BY DEF At
<1>2. calls \in Nat
  BY DEF IInv, TypeOK
<1>3. Call => calls' \in Nat
  BY <1>2 DEF Call
<1> QED
  BY <1>1, <1>3, Innermost

LEMMA RaiseTplStep == ASSUME IInv, NEW t \in UserTpls, RaiseTpl(t) PROVE IInv'
<1>1. /\ At("client") /\ Call /\ t > tpl /\ tpl' = t
      /\ UNCHANGED <<eventVars, dbVars, timerVars, clockVars, stack, wait>>
  BY DEF RaiseTpl, Call
<1>2. t \in Tpls /\ t \in Nat /\ tpl \in Nat /\ NotifyTpls \subseteq Nat
  BY Levels, Innermost
<1>3. LevelOK(Top, tpl')
  <2>1. Top.tpl <= tpl /\ Top.tpl \in Nat
    BY <1>1, Caller, Innermost, Levels DEF MayCall, FrameType
  <2> QED
    BY <1>1, <1>2, <2>1, Caller DEF LevelOK
<1>4. \A p \in pending' : p <= tpl'
  <2>1. \A p \in pending : p \in Nat /\ p <= tpl
    BY <1>1, <1>2, Caller DEF Quiet, IInv, TypeOK
  <2> QED
    BY <1>1, <1>2, <2>1 DEF eventVars
<1>5. calls' \in Nat /\ Last(stack') = Top /\ StackOK(stack') /\ Keeps(stack, stack')
  BY <1>1, Caller, Untouched
<1> QED
  BY <1>1, <1>2, <1>3, <1>4, <1>5, Untouched, Assemble

(* A call that ends by releasing a lock it acquired, at level t.           *)
LEMMA LockedCall ==
    ASSUME IInv, At("client"), NEW t \in Tpls, stack' = Restore(stack, t),
           Top.tpl <= t, tpl' \in Tpls, t <= tpl',
           UNCHANGED dbVars, EventTypes', TimerTypes', now' \in Nat, masked' \in Nat,
           WaitTypes', calls' \in Nat
    PROVE  IInv'
<1>1. MayCall(Top, t)
  BY Caller DEF MayCall
<1>2. /\ StackOK(stack') /\ Keeps(stack, stack')
      /\ Last(stack') = Frame("restore", t, NoEvent, 0)
  BY <1>1, Caller, Release
<1>3. LevelOK(Last(stack'), tpl') /\ Last(stack').pc = "restore"
  BY <1>2 DEF LevelOK, Frame
<1> QED
  BY <1>2, <1>3, Assemble

LEMMA RestoreTplStep == ASSUME IInv, NEW t \in UserTpls, RestoreTpl(t) PROVE IInv'
<1>1. /\ At("client") /\ Top.tpl <= t /\ t < tpl /\ stack' = Restore(stack, t)
      /\ UNCHANGED <<tpl, eventVars, dbVars, timerVars, clockVars, wait, calls>>
  BY DEF RestoreTpl
<1>2. t \in Tpls /\ t \in Nat /\ tpl \in Nat /\ tpl' \in Tpls
  BY <1>1, Levels, Innermost
<1>3. t <= tpl'
  BY <1>1, <1>2
<1> QED
  BY <1>1, <1>2, <1>3, Untouched, LockedCall

LEMMA SignalEventStep == ASSUME IInv, NEW e \in UserEvents, SignalEvent(e) PROVE IInv'
<1>1. /\ At("client") /\ Call /\ e \in Events /\ CoreSignalEvent(stack, tpl, e)
      /\ UNCHANGED <<dbVars, timerVars, clockVars, wait>>
  BY DEF SignalEvent, Call, Events
<1>2. /\ EventTypes' /\ StackOK(stack') /\ Keeps(stack, stack')
      /\ Last(stack').pc = "restore" /\ LevelOK(Last(stack'), tpl') /\ tpl' \in Tpls
  BY <1>1, Caller, SignalStep
<1> QED
  BY <1>1, <1>2, Caller, Untouched, Assemble

(* Nothing but calls changes.                                              *)
LEMMA IdleCall ==
    ASSUME IInv, Call, UNCHANGED <<tpl, eventVars, dbVars, timerVars, stack>>,
           now' \in Nat, masked' \in Nat, UNCHANGED wait
    PROVE  IInv'
<1>1. At("client") /\ stack' = stack
  BY DEF Call
<1>2. \A p \in pending' : p <= tpl'
  BY <1>1, Caller DEF Quiet, eventVars
<1>3. LevelOK(Last(stack'), tpl') /\ StackOK(stack') /\ Keeps(stack, stack') /\ tpl' \in Tpls
  BY <1>1, Innermost, Untouched
<1> QED
  BY <1>1, <1>2, <1>3, Caller, Untouched, Assemble

LEMMA CheckEventStep == ASSUME IInv, NEW e \in UserEvents, CheckEvent(e) PROVE IInv'
<1>1. /\ At("client") /\ Call /\ e \in Events /\ UNCHANGED <<signalCount, dbVars, timerVars, clockVars, wait>>
  BY DEF CheckEvent, Call, Events
<1>2. CASE UNCHANGED <<tpl, stack, pending, queue>>
  <2>1. UNCHANGED eventVars /\ now' \in Nat /\ masked' \in Nat
    BY <1>1, <1>2, Untouched DEF eventVars
  <2> QED
    BY <1>1, <1>2, <2>1, IdleCall
<1>3. CASE CheckCall(stack, e)
  <2>1. ~At("restore")
    BY <1>1 DEF At
  <2>2. /\ EventTypes' /\ StackOK(stack') /\ Keeps(stack, stack')
        /\ LevelOK(Last(stack'), tpl') /\ tpl' \in Tpls
        /\ Last(stack').pc # "restore" => \A p \in pending' : p <= tpl'
    BY <1>1, <1>3, <2>1, Caller, CheckStep
  <2> QED
    BY <1>1, <2>2, Caller, Untouched, Assemble
<1> QED
  BY <1>2, <1>3 DEF CheckEvent

LEMMA WaitForEventStep == ASSUME IInv, NEW l \in WaitLists, WaitForEvent(l) PROVE IInv'
<1>1. At("client") /\ Call /\ UNCHANGED <<tpl, eventVars, dbVars, timerVars, clockVars>>
  BY DEF WaitForEvent, Call
<1>2. CASE UNCHANGED <<wait, stack>>
  BY <1>1, <1>2, Untouched, IdleCall
<1>3. CASE /\ wait' = [evs |-> l, iter |-> 0, idx |-> 1, status |-> "waiting"]
           /\ stack' = Append(stack, Frame("wait", tpl, NoEvent, 0))
  <2> DEFINE f == Frame("wait", tpl, NoEvent, 0)
  <2>1. l \in Seq(UserEvents)
    BY EventCoreAssumption
  <2>2. WaitTypes'
    BY <1>3, <2>1 DEF WaitTypes
  <2>3. /\ f \in FrameType /\ FrameOK(f) /\ f.pc \notin Closing /\ f.pc = "wait" /\ f.tpl = tpl
        /\ tpl \in Nat
    BY <1>1, Caller, Levels DEF Frame, FrameType, Pcs, FrameOK, Closing
  <2> HIDE DEF f
  <2>4. Fits(Top, f) /\ LevelOK(f, tpl)
    BY <1>1, <2>3, Caller DEF MayCall, Fits, LevelOK
  <2>5. StackOK(stack') /\ Last(stack') = f /\ Keeps(stack, stack')
    BY <1>1, <1>3, <2>3, <2>4, Caller, Enter DEF f
  <2>6. tpl' \in Tpls /\ \A p \in pending' : p <= tpl'
    BY <1>1, Caller DEF Quiet, eventVars
  <2> QED
    BY <1>1, <2>2, <2>4, <2>5, <2>6, Caller, Untouched, Assemble
<1> QED
  BY <1>2, <1>3 DEF WaitForEvent

LEMMA SetTimerStep ==
    ASSUME IInv, NEW e \in UserEvents, NEW k \in {"cancel", "relative", "periodic"},
           NEW d \in Delays, SetTimer(e, k, d)
    PROVE  IInv'
<1> DEFINE q == IF k = "periodic" /\ d = 0 THEN DefaultPeriod ELSE d
           l == Unarmed(e)
<1>1. At("client") /\ Call /\ e \in Events /\ tpl <= TIMER /\ UNCHANGED <<dbVars, clockVars, wait>>
  BY DEF SetTimer, Call, Events
<1>2. q \in Nat
  BY EventCoreAssumption
<1>3. /\ timerList \in Seq(Events) /\ trigger \in [Events -> Nat] /\ period \in [Events -> Nat]
      /\ now \in Nat
  BY DEF IInv, TypeOK
<1>4. l \in Seq(Events)
  BY <1>3, RemoveFirstProperties DEF Unarmed
<1> HIDE DEF q, l
<1>5. now + q \in Nat /\ CoreInsertEventTimer(l, e, now + q) \in Seq(Events)
  BY <1>1, <1>2, <1>3, <1>4, InsertTimer
<1>6. CASE UNCHANGED <<eventVars, timerVars, stack, tpl>>
  BY <1>1, <1>6, Untouched, IdleCall
<1>7. CASE /\ period' = [period EXCEPT ![e] = IF k = "periodic" THEN q ELSE 0]
           /\ \/ /\ trigger' = [trigger EXCEPT ![e] = 0] /\ timerList' = l
                 /\ UNCHANGED eventVars
              \/ /\ trigger' = [trigger EXCEPT ![e] = now + q]
                 /\ timerList' = CoreInsertEventTimer(l, e, now + q)
                 /\ SignalCheckTimer \/ UNCHANGED eventVars
           /\ stack' = Restore(stack, tpl) /\ tpl' = TIMER
  <2>1. TimerTypes'
    <3>1. period' \in [Events -> Nat]
      BY <1>2, <1>3, <1>7
    <3>2. trigger' \in [Events -> Nat] /\ timerList' \in Seq(Events)
      BY <1>3, <1>4, <1>5, <1>7
    <3> QED
      BY <3>1, <3>2 DEF TimerTypes
  <2>2. EventTypes'
    BY <1>7, SignalCheck, SameEvents
  <2>3. Top.tpl <= tpl /\ tpl' \in Tpls /\ tpl <= tpl' /\ tpl \in Tpls
    BY <1>1, <1>7, Caller, Levels DEF MayCall
  <2> QED
    BY <1>1, <1>7, <2>1, <2>2, <2>3, Caller, Untouched, LockedCall
<1> QED
  BY <1>6, <1>7 DEF SetTimer, q, l

LEMMA MockTimerAdvanceStep == ASSUME IInv, NEW d \in Durations, MockTimerAdvance(d) PROVE IInv'
<1>1. /\ At("client") /\ Call /\ UNCHANGED <<dbVars, timerVars, wait>> /\ d \in Nat
      /\ now \in Nat /\ masked \in Nat
  BY EventCoreAssumption DEF MockTimerAdvance, Call, IInv, TypeOK
<1>2. CASE masked' = masked + d /\ UNCHANGED <<now, eventVars, stack, tpl>>
  <2>1. now' \in Nat /\ masked' \in Nat
    BY <1>1, <1>2
  <2> QED
    BY <1>1, <1>2, <2>1, IdleCall
<1>3. CASE /\ CoreTimerTick(d) /\ UNCHANGED masked /\ tpl' = HIGH
           /\ stack' = Restore(Append(stack, Frame("force", tpl, NoEvent, 0)), tpl)
  <2> DEFINE f == Frame("force", tpl, NoEvent, 0)
             s == Append(stack, f)
  <2>1. /\ f \in FrameType /\ FrameOK(f) /\ f.pc \notin Closing /\ f.pc = "force" /\ f.tpl = tpl
        /\ tpl \in Nat /\ tpl \in Tpls
    BY <1>1, Caller, Levels DEF Frame, FrameType, Pcs, FrameOK, Closing
  <2> HIDE DEF f
  <2>2. Fits(Top, f) /\ MayCall(f, tpl)
    BY <1>1, <2>1, Caller DEF MayCall, Fits
  <2>3. StackOK(s) /\ Last(s) = f /\ Keeps(stack, s)
    BY <1>1, <2>1, <2>2, Caller, Enter
  <2> HIDE DEF s
  <2>4. /\ StackOK(stack') /\ Keeps(s, stack')
        /\ Last(stack') = Frame("restore", tpl, NoEvent, 0)
    BY <1>3, <2>1, <2>2, <2>3, Release DEF s, f
  <2>5. Keeps(stack, stack')
    BY <2>3, <2>4, KeepsTwice
  <2>6. LevelOK(Last(stack'), tpl') /\ Last(stack').pc = "restore" /\ tpl' \in Tpls
    <3>1. tpl <= HIGH /\ HIGH \in Tpls
      BY <2>1, Levels
    <3> QED
      BY <1>3, <2>4, <3>1 DEF LevelOK, Frame
  <2>7. EventTypes' /\ now' \in Nat /\ masked' \in Nat
    BY <1>1, <1>3, Tick
  <2> QED
    BY <1>1, <2>4, <2>5, <2>6, <2>7, Caller, Untouched, Assemble
<1> QED
  BY <1>2, <1>3 DEF MockTimerAdvance

-----------------------------------------------------------------------------
(* Steps that create or close an event, and iterations. *)

LEMMA AssembleDatabase ==
    ASSUME IInv, StackOK(stack'), LevelOK(Last(stack'), tpl'), tpl' \in Tpls,
           EventTypes', TimerTypes', now' \in Nat, masked' \in Nat, WaitTypes', calls' \in Nat,
           Last(stack').pc # "restore" => \A p \in pending' : p <= tpl',
           live' \subseteq Events, attr' \in [Events -> Attribute], signalList' \in Seq(Events),
           InternalOK', SignalListOK', CloseOK(stack)'
    PROVE  IInv'
<1>1. TypeOK'
  BY DEF TypeOK, EventTypes, TimerTypes, WaitTypes, StackOK
<1>2. (~At("restore") => Quiet(tpl))' /\ LevelOK(Top, tpl)'
  BY DEF At, Top, Quiet
<1> QED
  BY <1>1, <1>2 DEF IInv, EventTypes

(* Pushing a restore closes nothing, whatever happens to the database.     *)
LEMMA CloseKept ==
    ASSUME NEW s, NEW s2, CloseOK(s)', Keeps(s, s2)'
    PROVE  CloseOK(s2)'
BY DEF CloseOK, Keeps

LEMMA CoreCreateEventStep ==
    ASSUME IInv, NEW e \in UserEvents, NEW r \in Requests, CoreCreateEvent(e, r)
    PROVE  IInv'
<1> DEFINE a == [type |-> r.type, group |-> r.group,
                 tpl |-> IF NeedsNotify(r) THEN r.tpl ELSE 0]
<1>1. /\ At("client") /\ Call /\ e \in Events /\ e \notin live
      /\ UNCHANGED <<pending, queue, timerList, clockVars, wait>>
  BY DEF CoreCreateEvent, Call, Events
<1>2. CASE ~ValidRequest(r)
  <2>1. UNCHANGED <<live, attr, signalCount, trigger, period, signalList, stack, tpl>>
    BY <1>2 DEF CoreCreateEvent
  <2>2. UNCHANGED <<tpl, eventVars, dbVars, timerVars, stack>>
    BY <1>1, <2>1 DEF eventVars, dbVars, timerVars
  <2> QED
    BY <1>1, <2>2, Untouched, IdleCall
<1>3. CASE ValidRequest(r)
  <2>1. /\ live' = live \cup {e} /\ attr' = [attr EXCEPT ![e] = a]
        /\ signalCount' = [signalCount EXCEPT ![e] = 0]
        /\ trigger' = [trigger EXCEPT ![e] = 0] /\ period' = [period EXCEPT ![e] = 0]
        /\ \/ /\ "SIGNAL" \in r.type /\ signalList' = <<e>> \o signalList
              /\ stack' = Restore(stack, tpl) /\ tpl' = HIGH
           \/ UNCHANGED <<signalList, stack, tpl>>
    BY <1>3 DEF CoreCreateEvent
  <2>2. a \in Attribute /\ a.type = r.type
    <3>1. a.type = r.type /\ a.group = r.group /\ a.type \in mEventTable /\ a.group \in Groups
      BY <1>3 DEF ValidRequest, Groups
    <3>2. a.tpl \in NotifyTpls \cup {0} /\ (NeedsNotify(a) => a.tpl # 0)
      BY <1>3 DEF ValidRequest, NeedsNotify, NotifyTpls, CALLBACK, NOTIFY, TIMER
    <3> QED
      BY <3>1, <3>2 DEF Attribute
  <2> HIDE DEF a
  <2>3. /\ live \subseteq Events /\ attr \in [Events -> Attribute] /\ signalList \in Seq(Events)
        /\ signalCount \in [Events -> {0, 1}] /\ timerList \in Seq(Events)
        /\ trigger \in [Events -> Nat] /\ period \in [Events -> Nat]
    BY DEF IInv, TypeOK
  <2>4. live' \subseteq Events /\ attr' \in [Events -> Attribute]
    BY <1>1, <2>1, <2>2, <2>3
  <2>5. EventTypes' /\ TimerTypes'
    <3>1. TimerTypes'
      BY <1>1, <2>1, <2>3 DEF TimerTypes
    <3>2. signalCount' \in [Events -> {0, 1}]
      BY <1>1, <2>1, <2>3
    <3>3. EventTypes'
      BY <1>1, <3>2 DEF EventTypes, IInv, TypeOK, QueueOK
    <3> QED
      BY <3>1, <3>3
  <2>6. InternalOK'
    <3>1. \A c \in {CheckTimer, Idle} : attr'[c] = attr[c]
      BY <1>1, <2>1, <2>3, EventCoreAssumption DEF Events
    <3> QED
      BY <3>1 DEF IInv, InternalOK
  <2>7. SignalListOK
    BY DEF IInv
  <2>8. /\ signalList' \in Seq(Events)
        /\ SignalListOK'
        /\ \A k \in 1 .. Len(signalList') :
              signalList'[k] = e \/ \E j \in 1 .. Len(signalList) : signalList'[k] = signalList[j]
    <3>1. CASE UNCHANGED signalList
      BY <1>1, <2>1, <2>3, <2>7, <3>1 DEF SignalListOK, Distinct
    <3>2. CASE "SIGNAL" \in r.type /\ signalList' = <<e>> \o signalList
      <4>1. <<e>> \in Seq(Events) /\ Len(<<e>>) = 1 /\ <<e>>[1] = e /\ Len(signalList) \in Nat
        BY <1>1, <2>3, LenProperties
      <4>2. /\ signalList' \in Seq(Events) /\ Len(signalList') = Len(signalList) + 1
            /\ \A k \in 1 .. Len(signalList') :
                  signalList'[k] = IF k = 1 THEN e ELSE signalList[k - 1]
        <5> DEFINE one == <<e>>
        <5>1. one \in Seq(Events) /\ Len(one) = 1 /\ one[1] = e
          BY <4>1
        <5> HIDE DEF one
        <5>2. /\ one \o signalList \in Seq(Events) /\ Len(one \o signalList) = Len(one) + Len(signalList)
              /\ \A k \in 1 .. Len(one) + Len(signalList) :
                    (one \o signalList)[k] = IF k <= Len(one) THEN one[k] ELSE signalList[k - Len(one)]
          BY <2>3, <5>1, ConcatProperties
        <5> QED
          BY <3>2, <4>1, <5>1, <5>2 DEF one
      <4>3. Distinct(signalList')
        BY <1>1, <2>7, <4>1, <4>2 DEF SignalListOK, Distinct
      <4>4. \A k \in 1 .. Len(signalList') :
               signalList'[k] \in live' /\ "SIGNAL" \in attr'[signalList'[k]].type
        BY <1>1, <2>1, <2>2, <2>3, <2>7, <3>2, <4>1, <4>2 DEF SignalListOK
      <4>5. \A k \in 1 .. Len(signalList') :
               signalList'[k] = e \/ \E j \in 1 .. Len(signalList) : signalList'[k] = signalList[j]
        BY <4>1, <4>2
      <4>6. SignalListOK'
        BY <4>3, <4>4 DEF SignalListOK
      <4> QED
        BY <4>2, <4>5, <4>6
    <3> QED
      BY <2>1, <3>1, <3>2
  <2>9. CloseOK(stack)
    BY DEF IInv
  <2>10. ASSUME NEW s, Keeps(stack, s)
         PROVE  /\ \A i \in 1 .. Len(s) : s[i].pc \in Closing =>
                      /\ s[i].ev \in live' \cap UserEvents
                      /\ s[i].pc = "free" => \A k \in 1 .. Len(signalList') : signalList'[k] # s[i].ev
                /\ \A i, j \in 1 .. Len(s) :
                      s[i].pc \in Closing /\ s[j].pc \in Closing /\ s[i].ev = s[j].ev => i = j
    <3>1. /\ live \subseteq live' /\ e \notin live
      BY <1>1, <2>1
    <3>2. ASSUME NEW i \in 1 .. Len(s), s[i].pc \in Closing
          PROVE  /\ i \in 1 .. Len(stack) /\ stack[i].pc \in Closing
                 /\ stack[i].pc = s[i].pc /\ stack[i].ev = s[i].ev
      BY <2>10, <3>2 DEF Keeps
    <3>3. ASSUME NEW i \in 1 .. Len(s), s[i].pc \in Closing
          PROVE  /\ s[i].ev \in live' \cap UserEvents
                 /\ s[i].pc = "free" => \A k \in 1 .. Len(signalList') : signalList'[k] # s[i].ev
      <4>1. /\ s[i].ev \in live \cap UserEvents
            /\ s[i].pc = "free" => \A k \in 1 .. Len(signalList) : signalList[k] # s[i].ev
        BY <2>9, <3>2, <3>3 DEF CloseOK
      <4>2. s[i].pc = "free" => \A k \in 1 .. Len(signalList') : signalList'[k] # s[i].ev
        BY <2>8, <3>1, <4>1
      <4> QED
        BY <3>1, <4>1, <4>2
    <3>4. ASSUME NEW i \in 1 .. Len(s), NEW j \in 1 .. Len(s), s[i].pc \in Closing,
                 s[j].pc \in Closing, s[i].ev = s[j].ev
          PROVE  i = j
      <4>1. /\ i \in 1 .. Len(stack) /\ stack[i].pc \in Closing /\ stack[i].ev = s[i].ev
            /\ j \in 1 .. Len(stack) /\ stack[j].pc \in Closing /\ stack[j].ev = s[j].ev
        BY <3>2, <3>4
      <4> QED
        BY <2>9, <3>4, <4>1 DEF CloseOK
    <3> QED
      BY <3>3, <3>4
  <2>11. /\ StackOK(stack') /\ Keeps(stack, stack') /\ LevelOK(Last(stack'), tpl')
         /\ tpl' \in Tpls
         /\ Last(stack').pc # "restore" => \A p \in pending' : p <= tpl'
    <3>1. CASE UNCHANGED <<stack, tpl>>
      BY <1>1, <3>1, Innermost, Untouched DEF Quiet
    <3>2. CASE stack' = Restore(stack, tpl) /\ tpl' = HIGH
      <4>1. /\ StackOK(stack') /\ Keeps(stack, stack')
            /\ Last(stack') = Frame("restore", tpl, NoEvent, 0)
        BY <1>1, <3>2, Caller, Release
      <4>2. tpl \in Nat /\ tpl <= HIGH /\ HIGH \in Tpls
        BY <1>1, Caller, Levels
      <4>3. LevelOK(Last(stack'), tpl') /\ Last(stack').pc = "restore"
        BY <3>2, <4>1, <4>2 DEF LevelOK, Frame
      <4> QED
        BY <3>2, <4>1, <4>2, <4>3
    <3> QED
      BY <2>1, <3>1, <3>2
  <2>12. CloseOK(stack)'
    BY <2>10, <2>11 DEF CloseOK
  <2> QED
    BY <1>1, <2>4, <2>5, <2>6, <2>8, <2>11, <2>12, Caller, Untouched, AssembleDatabase
<1> QED
  BY <1>2, <1>3

LEMMA CoreCloseEventStep == ASSUME IInv, NEW e \in UserEvents, CoreCloseEvent(e) PROVE IInv'
<1> DEFINE f == Frame("unlink", tpl, e, 0)
           s == Append(stack, f)
<1>1. /\ At("client") /\ Call /\ e \in Events /\ e \in live /\ ~InUse(e)
      /\ UNCHANGED <<eventVars, dbVars, clockVars, wait>>
  BY DEF CoreCloseEvent, Call, Events
<1>2. /\ f \in FrameType /\ FrameOK(f) /\ f.pc = "unlink" /\ f.tpl = tpl /\ f.ev = e
      /\ tpl \in Tpls /\ tpl \in Nat
  BY <1>1, Caller, Levels DEF Frame, FrameType, Pcs, FrameOK
<1> HIDE DEF f
<1>3. Fits(Top, f) /\ MayCall(f, tpl) /\ LevelOK(f, tpl)
  BY <1>1, <1>2, Caller DEF MayCall, Fits, LevelOK
<1>4. /\ StackOK(s) /\ Len(s) = Len(stack) + 1 /\ Last(s) = f
      /\ s[Len(stack) + 1] = f /\ \A i \in 1 .. Len(stack) : s[i] = stack[i]
  BY <1>1, <1>2, <1>3, Caller, Push DEF Last
<1> HIDE DEF s
<1>5. CloseOK(s)
  <2>1. CloseOK(stack) /\ Len(stack) \in Nat
    BY LenProperties DEF IInv, StackOK
  <2>2. \A i \in 1 .. Len(stack) : stack[i].pc \in Closing => stack[i].ev # e
    BY <1>1 DEF InUse, Closing
  <2>3. e \in live \cap UserEvents /\ f.pc # "free" /\ f.pc # "restore"
    BY <1>1, <1>2
  <2>4. \A i \in 1 .. Len(s) :
            (i \in 1 .. Len(stack) /\ s[i] = stack[i]) \/ (i = Len(stack) + 1 /\ s[i] = f)
    <3>1. \A i \in 1 .. Len(s) : i \in 1 .. Len(stack) \/ i = Len(stack) + 1
      BY <1>4, <2>1
    <3> QED
      BY <1>4, <3>1
  <2>5. \A i \in 1 .. Len(s) : s[i].pc \in Closing =>
            /\ s[i].ev \in live \cap UserEvents
            /\ s[i].pc = "free" => \A k \in 1 .. Len(signalList) : signalList[k] # s[i].ev
    BY <1>2, <2>1, <2>3, <2>4 DEF CloseOK
  <2>6. \A i, j \in 1 .. Len(s) :
            s[i].pc \in Closing /\ s[j].pc \in Closing /\ s[i].ev = s[j].ev => i = j
    BY <1>2, <2>1, <2>2, <2>4 DEF CloseOK
  <2> QED
    BY <2>5, <2>6 DEF CloseOK
<1>6. /\ timerList \in Seq(Events) /\ trigger \in [Events -> Nat] /\ period \in [Events -> Nat]
  BY DEF IInv, TypeOK
<1>7. /\ StackOK(stack') /\ LevelOK(Last(stack'), tpl') /\ CloseOK(stack)' /\ tpl' \in Tpls
      /\ TimerTypes'
      /\ Last(stack').pc # "restore" => \A p \in pending' : p <= tpl'
  <2>1. CASE stack' = s /\ UNCHANGED <<timerVars, tpl>>
    <3>1. CloseOK(stack)'
      BY <1>1, <1>5, <2>1 DEF CloseOK, dbVars
    <3>2. \A p \in pending' : p <= tpl'
      BY <1>1, <2>1, Caller DEF Quiet, eventVars
    <3> QED
      BY <1>2, <1>3, <1>4, <2>1, <3>1, <3>2, Untouched
  <2>2. CASE /\ timerList' = Unarmed(e) /\ trigger' = [trigger EXCEPT ![e] = 0]
             /\ period' = [period EXCEPT ![e] = 0] /\ tpl <= TIMER
             /\ stack' = Restore(s, tpl) /\ tpl' = TIMER
    <3>1. TimerTypes'
      BY <1>6, <2>2, RemoveFirstProperties DEF Unarmed, TimerTypes
    <3>2. /\ StackOK(stack') /\ Keeps(s, stack')
          /\ Last(stack') = Frame("restore", tpl, NoEvent, 0)
      BY <1>2, <1>3, <1>4, <2>2, Release
    <3>3. CloseOK(stack)'
      <4> DEFINE z == stack'
      <4>1. Keeps(s, z) /\ CloseOK(s)
        BY <1>5, <3>2
      <4> QED
        BY <1>1, <3>2, <1>5 DEF Keeps, CloseOK, dbVars
    <3>4. LevelOK(Last(stack'), tpl') /\ Last(stack').pc = "restore" /\ tpl' \in Tpls
      BY <2>2, <3>2, Levels DEF LevelOK, Frame
    <3> QED
      BY <3>1, <3>2, <3>3, <3>4
  <2> QED
    BY <2>1, <2>2 DEF CoreCloseEvent, s, f
<1>8. /\ live' \subseteq Events /\ attr' \in [Events -> Attribute] /\ signalList' \in Seq(Events)
      /\ InternalOK' /\ SignalListOK'
  BY <1>1 DEF IInv, TypeOK, InternalOK, SignalListOK, Distinct, dbVars
<1> QED
  BY <1>1, <1>7, <1>8, Caller, Untouched, AssembleDatabase

LEMMA CloseUnlinkStep == ASSUME IInv, CloseUnlink PROVE IInv'
<1> DEFINE e == Top.ev
           g == [Top EXCEPT !.pc = "free"]
           s == Append(Below, g)
<1>1. /\ Top.pc = "unlink" /\ tpl' = HIGH /\ stack' = Restore(s, tpl)
      /\ queue' = [p \in NotifyTpls |-> RemoveFirst(queue[p], e)]
      /\ signalList' = RemoveFirst(signalList, e)
      /\ UNCHANGED <<pending, signalCount, live, attr, timerVars, clockVars, wait, calls>>
  BY DEF CloseUnlink, At
<1>2. /\ queue \in [NotifyTpls -> Seq(Events)] /\ QueueOK(queue) /\ CloseOK(stack) /\ SignalListOK
      /\ signalList \in Seq(Events)
  BY DEF IInv, TypeOK
<1>3. EventTypes'
  <2>1. \A p \in NotifyTpls :
           /\ queue'[p] \in Seq(Events)
           /\ \A i \in 1 .. Len(queue'[p]) : \E j \in 1 .. Len(queue[p]) : queue'[p][i] = queue[p][j]
    BY <1>1, <1>2, RemoveFirstProperties
  <2>2. queue' \in [NotifyTpls -> Seq(Events)]
    BY <1>1, <2>1
  <2>3. QueueOK(queue')
    BY <1>2, <2>1, SMTT(30) DEF QueueOK
  <2> QED
    BY <1>1, <2>2, <2>3 DEF EventTypes, IInv, TypeOK
<1>4. /\ signalList' \in Seq(Events) /\ Distinct(signalList')
      /\ \A k \in 1 .. Len(signalList') :
            signalList'[k] # e /\ \E j \in 1 .. Len(signalList) : signalList'[k] = signalList[j]
  BY <1>1, <1>2, RemoveFirstProperties DEF SignalListOK
<1>5. SignalListOK' /\ InternalOK'
  BY <1>1, <1>2, <1>4 DEF SignalListOK, IInv, InternalOK
<1>6. /\ g \in FrameType /\ FrameOK(g) /\ g.pc = "free" /\ g.tpl = tpl /\ g.ev = e /\ Top.tpl = tpl
      /\ StackOK(stack) /\ Len(stack) > 1 /\ Len(stack) \in Nat /\ Top = stack[Len(stack)]
      /\ tpl \in Tpls
  BY <1>1, Innermost, LenProperties DEF FrameType, FrameOK, Pcs, LevelOK, StackOK, Last
<1> HIDE DEF g, e
<1>7. /\ StackOK(Below) /\ Len(Below) = Len(stack) - 1
      /\ Fits(Last(Below), Top) /\ \A i \in 1 .. Len(stack) - 1 : Below[i] = stack[i]
  BY <1>6, Pop DEF Below, Last
<1>8. Fits(Last(Below), g)
  BY <1>6, <1>7 DEF Fits
<1>9. /\ StackOK(s) /\ Len(s) = Len(stack) /\ Last(s) = g /\ s[Len(stack)] = g
      /\ \A i \in 1 .. Len(stack) - 1 : s[i] = stack[i]
  BY <1>6, <1>7, <1>8, Push DEF Last
<1> HIDE DEF s
<1>10. MayCall(g, tpl)
  BY <1>6 DEF MayCall
<1>11. /\ StackOK(stack') /\ Keeps(s, stack')
       /\ Last(stack') = Frame("restore", tpl, NoEvent, 0)
  BY <1>1, <1>6, <1>9, <1>10, Release
<1>12. LevelOK(Last(stack'), tpl') /\ Last(stack').pc = "restore" /\ tpl' \in Tpls
  <2>1. tpl \in Nat /\ tpl <= HIGH /\ HIGH \in Tpls
    BY <1>6, Levels
  <2> QED
    BY <1>1, <1>11, <2>1 DEF LevelOK, Frame
<1>13. CloseOK(stack)'
  <2>1. \A i \in 1 .. Len(s) : s[i].pc \in Closing <=> stack[i].pc \in Closing
    BY <1>1, <1>6, <1>9 DEF Closing
  <2>2. \A i \in 1 .. Len(s) : s[i].ev = stack[i].ev
    BY <1>6, <1>9 DEF e
  <2>3. \A i \in 1 .. Len(s) : s[i].pc \in Closing =>
           /\ s[i].ev \in live' \cap UserEvents
           /\ s[i].pc = "free" => \A k \in 1 .. Len(signalList') : signalList'[k] # s[i].ev
    <3> SUFFICES ASSUME NEW i \in 1 .. Len(s), s[i].pc \in Closing
                 PROVE  /\ s[i].ev \in live' \cap UserEvents
                        /\ s[i].pc = "free" =>
                              \A k \in 1 .. Len(signalList') : signalList'[k] # s[i].ev
      OBVIOUS
    <3>1. s[i].ev \in live' \cap UserEvents
      BY <1>1, <1>2, <1>9, <2>1, <2>2 DEF CloseOK
    <3>2. CASE i = Len(stack)
      BY <1>4, <1>6, <1>9, <3>1, <3>2
    <3>3. CASE i # Len(stack)
      <4>1. s[i] = stack[i] /\ i \in 1 .. Len(stack)
        BY <1>6, <1>9, <3>3
      <4> QED
        BY <1>2, <1>4, <3>1, <4>1 DEF CloseOK
    <3> QED
      BY <3>2, <3>3
  <2>4. \A i, j \in 1 .. Len(s) :
           s[i].pc \in Closing /\ s[j].pc \in Closing /\ s[i].ev = s[j].ev => i = j
    BY <1>2, <1>9, <2>1, <2>2 DEF CloseOK
  <2> QED
    BY <1>11, <2>3, <2>4 DEF CloseOK, Keeps
<1>14. live' \subseteq Events /\ attr' \in [Events -> Attribute]
  BY <1>1 DEF IInv, TypeOK
<1> QED
  BY <1>1, <1>3, <1>4, <1>5, <1>11, <1>12, <1>13, <1>14, Untouched, AssembleDatabase

LEMMA CloseFreeStep == ASSUME IInv, CloseFree PROVE IInv'
<1> DEFINE e == Top.ev
<1>1. /\ Top.pc = "free" /\ live' = live \ {e} /\ stack' = Front(stack)
      /\ UNCHANGED <<tpl, eventVars, signalList, attr, timerVars, clockVars, wait, calls>>
  BY DEF CloseFree, At, Below
<1>2. /\ StackOK(stack) /\ Len(stack) > 1 /\ Len(stack) \in Nat /\ Top = stack[Len(stack)]
      /\ Top.tpl = tpl /\ tpl \in Tpls /\ Quiet(tpl)
  BY <1>1, Innermost, LenProperties DEF StackOK, Last, LevelOK
<1>3. /\ StackOK(stack') /\ LevelOK(Last(stack'), tpl') /\ Keeps(stack, stack')
      /\ Len(stack') = Len(stack) - 1
  BY <1>1, <1>2, Innermost, Return
<1>4. CloseOK(stack) /\ SignalListOK /\ live \subseteq Events /\ attr \in [Events -> Attribute]
      /\ signalList \in Seq(Events) /\ InternalOK
  BY DEF IInv, TypeOK
<1>5. \A k \in 1 .. Len(signalList) : signalList[k] # e
  BY <1>1, <1>2, <1>4 DEF CloseOK, Closing
<1>6. SignalListOK' /\ InternalOK'
  BY <1>1, <1>4, <1>5 DEF SignalListOK, InternalOK
<1>7. CloseOK(stack)'
  <2>1. \A i \in 1 .. Len(stack') : stack'[i].pc \in Closing => stack'[i].ev # e
    BY <1>1, <1>2, <1>3, <1>4 DEF CloseOK, Keeps, Closing
  <2> HIDE DEF e
  <2> QED
    BY <1>1, <1>3, <1>4, <2>1, SMTT(30) DEF CloseOK, Keeps
<1>8. \A p \in pending' : p <= tpl'
  BY <1>1, <1>2 DEF Quiet, eventVars
<1> QED
  BY <1>1, <1>2, <1>3, <1>4, <1>6, <1>7, <1>8, Untouched, AssembleDatabase

(* The state an iteration starts in. *)
LEMMA InitInv == Init => IInv
<1> SUFFICES ASSUME Init PROVE IInv
  OBVIOUS
<1> DEFINE b == Bottom
<1>1. b \in FrameType /\ FrameOK(b) /\ b.pc = "client" /\ b.tpl = APPLICATION /\ b.tpl \in Int
  BY DEF Bottom, Frame, FrameType, Pcs, FrameOK, Tpls, UserTpls, APPLICATION
<1>2. stack = <<b>>
  BY DEF Init, Bottom
<1> HIDE DEF b
<1>3. /\ stack \in Seq(FrameType) /\ Len(stack) = 1 /\ stack[1] = b /\ stack # <<>>
  BY <1>1, <1>2
<1>4. StackOK(stack)
  BY <1>1, <1>3 DEF StackOK, b
<1>5. Top = b
  BY <1>3 DEF Top, Last
<1>6. LevelOK(Top, tpl) /\ Quiet(tpl)
  BY <1>1, <1>5 DEF LevelOK, Quiet, Init
<1>7. CloseOK(stack)
  BY <1>1, <1>3 DEF CloseOK, Closing
<1>8. \A e \in Events : InternalAttr(e) \in Attribute
  <2> TAKE e \in Events
  <2>1. CASE e = CheckTimer
    <3>1. InternalAttr(e) = [type |-> {"SIGNAL"}, tpl |-> TIMER, group |-> NoGroup]
      BY <2>1, EventCoreAssumption DEF InternalAttr
    <3> QED
      BY <3>1 DEF Attribute, mEventTable, NotifyTpls, Groups, NeedsNotify, TIMER
  <2>2. CASE e = Idle
    <3>1. InternalAttr(e) = [type |-> {"SIGNAL"}, tpl |-> NOTIFY, group |-> IdleGroup]
      BY <2>2, EventCoreAssumption DEF InternalAttr
    <3> QED
      BY <3>1 DEF Attribute, mEventTable, NotifyTpls, Groups, NeedsNotify, NOTIFY
  <2>3. CASE e \notin {CheckTimer, Idle}
    <3>1. InternalAttr(e) = [type |-> {}, tpl |-> 0, group |-> NoGroup]
      BY <2>3 DEF InternalAttr
    <3> QED
      BY <3>1 DEF Attribute, mEventTable, NotifyTpls, Groups, NeedsNotify
  <2> QED
    BY <2>1, <2>2, <2>3
<1>9. InternalOK /\ attr \in [Events -> Attribute]
  BY <1>8 DEF Init, InternalOK, Events
<1>10. QueueOK(queue) /\ queue \in [NotifyTpls -> Seq(Events)]
  BY DEF Init, QueueOK
<1>11. signalList \in Seq(Events) /\ SignalListOK
  <2> DEFINE x == <<Idle>>
             y == <<CheckTimer>>
  <2>1. x \in Seq(Events) /\ Len(x) = 1 /\ x[1] = Idle /\ y \in Seq(Events) /\ Len(y) = 1 /\ y[1] = CheckTimer
    BY DEF Events
  <2>2. signalList = x \o y
    BY DEF Init
  <2> HIDE DEF x, y
  <2>3. /\ signalList \in Seq(Events) /\ Len(signalList) = 2
        /\ signalList[1] = Idle /\ signalList[2] = CheckTimer
    BY <2>1, <2>2, ConcatProperties
  <2>4. Distinct(signalList)
    BY <2>3, EventCoreAssumption DEF Distinct
  <2>5. \A c \in {CheckTimer, Idle} : c \in live /\ "SIGNAL" \in attr[c].type
    BY <1>9, EventCoreAssumption DEF InternalOK, InternalAttr, Init
  <2> QED
    BY <2>3, <2>4, <2>5 DEF SignalListOK
<1>12. wait \in [evs : Seq(UserEvents), iter : Nat, idx : Nat \ {0},
                 status : {"none", "waiting", "SUCCESS", "INVALID_PARAMETER"}]
  BY DEF Init
<1>13. TypeOK
  BY <1>3, <1>9, <1>10, <1>11, <1>12, Levels, EventCoreAssumption DEF Init, TypeOK, Events
<1> QED
  BY <1>4, <1>6, <1>7, <1>9, <1>10, <1>11, <1>13 DEF IInv

LEMMA InitNext == Init' => IInv'
BY InitInv, PTL

(* An iteration starts over in an initial state.                           *)
LEMMA ResetInit == ASSUME IInv, MockEventResetState PROVE Init'
<1>1. StackOK(stack) /\ Len(stack) = 1 /\ stack' = stack
  BY DEF IInv, MockEventResetState
<1>2. stack = <<Bottom>>
  <2> DEFINE z == <<Bottom>>
             b == Bottom
  <2>1. b \in FrameType
    BY DEF Bottom, Frame, FrameType, Pcs, Tpls, UserTpls, APPLICATION
  <2> HIDE DEF b
  <2>2. <<b>> \in Seq(FrameType) /\ Len(<<b>>) = 1 /\ <<b>>[1] = b
    BY <2>1
  <2>3. stack \in Seq(FrameType) /\ stack[1] = b
    BY <1>1 DEF StackOK, b
  <2>4. stack = <<b>>
    BY <1>1, <2>2, <2>3, SeqEqual
  <2> QED
    BY <2>4 DEF b
<1> QED
  BY <1>1, <1>2 DEF MockEventResetState, Init, Bottom

LEMMA MockEventResetStateStep == ASSUME IInv, MockEventResetState PROVE IInv'
BY ResetInit, InitNext

-----------------------------------------------------------------------------
(* IInv is an inductive invariant. *)

LEMMA KernelStep == ASSUME IInv, Kernel PROVE IInv'
BY RestoreConsumeStep, RestoreDispatchStep, RestoreDoneStep, DispatchNextStep, DispatchDoneStep,
   NotifyFunctionStep, NotifyReturnStep, CheckTimersSignalStep, CheckTimersRearmStep,
   CheckTimersDoneStep, GroupAcquireStep, GroupNotifyStep, GroupDoneStep, CheckDecideStep,
   CheckReturnStep, WaitCheckedStep, WaitCheckStep, WaitIdleStep, WaitGiveUpStep,
   CloseUnlinkStep, CloseFreeStep, AdvanceForceStep DEF Kernel

LEMMA ClientStep == ASSUME IInv, Client PROVE IInv'
BY RaiseTplStep, RestoreTplStep, CoreCreateEventStep, SignalEventStep, CheckEventStep,
   SetTimerStep, CoreCloseEventStep, WaitForEventStep, MockTimerAdvanceStep DEF Client

LEMMA NextInv == ASSUME IInv, [Next]_vars PROVE IInv'
<1>1. CASE Next
  BY <1>1, KernelStep, ClientStep, MockEventResetStateStep DEF Next
<1>2. CASE UNCHANGED vars
  <2>1. UNCHANGED <<tpl, eventVars, dbVars, timerVars, clockVars, stack, wait, calls>>
    BY <1>2 DEF vars
  <2>2. tpl' \in Tpls /\ Keeps(stack, stack') /\ StackOK(stack') /\ LevelOK(Last(stack'), tpl')
    BY <2>1, Innermost, Untouched
  <2>3. Last(stack').pc # "restore" => \A p \in pending' : p <= tpl'
    BY <2>1, Innermost DEF Quiet, eventVars
  <2> QED
    BY <2>1, <2>2, <2>3, Untouched, Assemble
<1> QED
  BY <1>1, <1>2

(* The stack, the levels and the database keep the relations above.        *)
THEOREM Invariance == Spec => []IInv
BY InitInv, NextInv, PTL DEF Spec

(* Every variable has its type, for every set of events, requests, delays  *)
(* and arrays to wait for, and however many calls clients make.            *)
THEOREM TypeCorrect == Spec => []TypeOK
<1>1. IInv => TypeOK
  BY DEF IInv
<1> QED
  BY <1>1, Invariance, PTL

(* No code of EventDxeCore.c, TimerDxeCore.c or of a client runs while a   *)
(* notification of a higher level is pending, and                          *)
(* CoreDispatchEventNotifies runs at the level it dispatches.              *)
THEOREM PriorityRespected == Spec => []NoPriorityInversion
<1>1. IInv => NoPriorityInversion
  BY DEF IInv, NoPriorityInversion, At, LevelOK
<1> QED
  BY <1>1, Invariance, PTL

(* The stack rises at every dispatch, as adjacent frames fit.              *)
LEMMA RisingLevels == ASSUME IInv PROVE NestingRises
<1> SUFFICES ASSUME NEW i \in 1 .. Len(stack), NEW j \in 1 .. Len(stack), i < j,
                    stack[j].pc = "dispatch"
             PROVE  stack[i].tpl < stack[j].tpl
  BY DEF NestingRises
<1>1. StackOK(stack) /\ Len(stack) \in Nat /\ \A k \in 1 .. Len(stack) : stack[k] \in FrameType
  BY LenProperties, ElementOfSeq DEF IInv, StackOK
<1>2. j - 1 \in 1 .. Len(stack) - 1 /\ j - 1 \in 1 .. Len(stack) /\ i <= j - 1 /\ j - 1 + 1 = j
  BY <1>1
<1>3. Fits(stack[j - 1], stack[j])
  BY <1>1, <1>2 DEF StackOK
<1>4. stack[j - 1].tpl < stack[j].tpl
  BY <1>3 DEF Fits
<1>5. stack[i].tpl <= stack[j - 1].tpl
  BY <1>1, <1>2 DEF StackOK
<1>6. stack[i].tpl \in Nat /\ stack[j].tpl \in Nat /\ stack[j - 1].tpl \in Nat
  BY <1>1, <1>2, Levels DEF FrameType
<1> QED
  BY <1>4, <1>5, <1>6

(* Dispatches on the call stack are at strictly rising levels.             *)
THEOREM DispatchNests == Spec => []NestingRises
BY RisingLevels, Invariance, PTL

(* Both: what RestoreTpl leaves pending, and what it may nest, is right at  *)
(* every step, for every set of events and clients.                        *)
THEOREM LevelsHold == Spec => []LevelsRespected
<1>1. NoPriorityInversion /\ NestingRises => LevelsRespected
  BY DEF LevelsRespected
<1> QED
  BY <1>1, PriorityRespected, DispatchNests, PTL

=============================================================================
