--------------------------- MODULE EventCoreSafety ---------------------------
(***************************************************************************)
(* The event services keep what is signalled until it is dispatched, forget *)
(* what is closed, serve their timers, conserve simulated time, and        *)
(* implement NotifyScheduler: NotificationsKept, TimersServed,             *)
(* TimeConserved and ImplementsScheduler, for every set of events and      *)
(* every number of calls.                                                  *)
(***************************************************************************)
EXTENDS EventCoreProofs
-----------------------------------------------------------------------------
(* The inductive invariant. *)

(* The code that works on an event it does not protect, or holds a lock.   *)
Fragile == {"start", "group", "unlink", "free", "checkTimers", "rearm"}
Plain(f) == f.pc \notin Fragile

(* A fragile frame that waits for a lock's release, or for what it called. *)
Waits(f) == Plain(f) = FALSE /\ ~(f.pc = "group" /\ f.n > 0)

(* The frames on the stack, in relation to each other: only the release of *)
(* a lock, or the rest of the same service, lies on a fragile frame; an    *)
(* event that is being checked is not being closed; notification functions *)
(* run at notification levels and waits are the harness' own.              *)
PairsOK(s) ==
    /\ \A i, j \in 1 .. Len(s) : i < j /\ s[i].pc \in Fragile =>
          \/ s[j].pc = "restore"
          \/ s[j].pc = "group" /\ s[i].pc \in {"rearm", "checkTimers"}
          \/ s[j].pc = "rearm" /\ s[i].pc = "checkTimers"
    /\ \A i, j \in 1 .. Len(s) :
          s[i].pc \in {"check", "checkReturn"} /\ s[j].pc \in Closing => s[i].ev # s[j].ev
    /\ \A i \in 1 .. Len(s) :
          /\ s[i].pc = "start" => s[i].tpl \in NotifyTpls
          /\ s[i].pc = "client" /\ i > 1 => s[i].tpl \in NotifyTpls
          /\ s[i].pc = "wait" => i = 2
          /\ s[i].pc = "rearm" => i > 1 /\ s[i - 1].pc = "checkTimers"

(* What each frame relies on: nothing above its level is pending while it  *)
(* waits, no time is masked then, and its event is where it left it.       *)
FrameSafe(f) ==
    /\ Waits(f) => Quiet(f.tpl) /\ (masked > 0 => f.tpl = HIGH)
    /\ f.pc \in {"start", "rearm", "group", "check", "checkReturn", "unlink", "free"} => f.ev \in live
    /\ f.pc = "wait" => wait.status = "waiting"
    /\ f.pc \in Closing /\ wait.status = "waiting" =>
          \A k \in 1 .. Len(wait.evs) : wait.evs[k] # f.ev
    /\ f.pc \in Closing \cup {"rearm"} => \A k \in 1 .. Len(timerList) : timerList[k] # f.ev
    /\ f.pc = "rearm" => "TIMER" \in attr[f.ev].type
    /\ f.pc = "checkTimers" => f.ev = CheckTimer /\ f.n = now
    /\ f.pc = "free" => ~IsQueued(f.ev)
    /\ f.pc = "group" => "SIGNAL" \in attr[f.ev].type /\ attr[f.ev].group # NoGroup

FramesSafe == \A i \in 1 .. Len(stack) : FrameSafe(stack[i])

(* The internal events are never closed, nor is one that is waited for.    *)
Present ==
    /\ CheckTimer \in live /\ Idle \in live
    /\ wait.status = "waiting" => \A k \in 1 .. Len(wait.evs) : wait.evs[k] \in live

(* gEventSignalQueue links every signal event until it is closed.          *)
Listed ==
    \A e \in live : "SIGNAL" \in attr[e].type =>
        (\E k \in 1 .. Len(signalList) : signalList[k] = e) \/ OnStack({"free"}, e)

(* CoreNotifySignalList has queued the signalled event once it passed it.  *)
Passed ==
    At("group") => \A k \in 1 .. Len(signalList) :
        k < Top.n /\ signalList[k] = Top.ev => IsQueued(Top.ev)

(* ExpiryNoticed, without the case that a re-armed timer is late again.    *)
Noticed ==
    Expired(now) => IsQueued(CheckTimer) \/ OnStack({"start", "checkTimers"}, CheckTimer)

Safe ==
    /\ PairsOK(stack)
    /\ FramesSafe
    /\ MaskedOnlyAtHigh
    /\ Present
    /\ QueueConsistent
    /\ Listed
    /\ NoLostNotification
    /\ Passed
    /\ TimerListSorted
    /\ Noticed
    /\ PeriodicStaysArmed

KInv == IInv /\ Safe

-----------------------------------------------------------------------------
(* How a step changes the stack. *)

(* The innermost frames of s give way to restores: m frames stay.          *)
CutTo(s, z, m) ==
    /\ m \in 0 .. Len(s) /\ m <= Len(z) /\ Len(z) \in Nat
    /\ \A i \in 1 .. m : z[i] = s[i]
    /\ \A i \in m + 1 .. Len(z) : z[i].pc = "restore"

(* Those above the m frames that stay give way to f and restores.          *)
Grows(s, z, m, f) ==
    /\ m \in 0 .. Len(s) /\ m < Len(z) /\ Len(z) \in Nat
    /\ \A i \in 1 .. m : z[i] = s[i]
    /\ z[m + 1] = f
    /\ \A i \in m + 2 .. Len(z) : z[i].pc = "restore"

LEMMA CutShapes ==
    ASSUME NEW s \in Seq(FrameType), s # <<>>, NEW t \in Tpls
    PROVE  /\ Len(s) \in Nat /\ Len(s) > 0
           /\ CutTo(s, s, Len(s))
           /\ CutTo(s, Restore(s, t), Len(s))
           /\ CutTo(s, Front(s), Len(s) - 1)
           /\ CutTo(s, Restore(Front(s), t), Len(s) - 1)
           /\ CutTo(s, Restore(Restore(Front(s), t), t), Len(s) - 1)
           /\ Front(s) \in Seq(FrameType) /\ Len(Front(s)) = Len(s) - 1
           /\ \A i \in 1 .. Len(s) - 1 : Front(s)[i] = s[i]
<1> DEFINE r == Frame("restore", t, NoEvent, 0)
           f == Front(s)
<1>1. r \in FrameType /\ r.pc = "restore"
  BY DEF Frame, FrameType, Pcs
<1>2. Len(s) \in Nat /\ Len(s) > 0
  BY EmptySeq, LenProperties
<1>3. /\ f \in Seq(FrameType) /\ Len(f) = Len(s) - 1
      /\ \A i \in 1 .. Len(s) - 1 : f[i] = s[i]
  <2>1. \A i \in 1 .. Len(s) - 1 : s[i] \in FrameType
    BY <1>2, ElementOfSeq
  <2> DEFINE n == Len(s) - 1
  <2>2. n \in Int /\ 1 \in Int /\ n >= 0
    BY <1>2
  <2> HIDE DEF n
  <2>3. /\ SubSeq(s, 1, n) \in Seq(FrameType)
        /\ Len(SubSeq(s, 1, n)) = IF 1 <= n THEN n - 1 + 1 ELSE 0
        /\ \A i \in 1 .. n - 1 + 1 : SubSeq(s, 1, n)[i] = s[1 + i - 1]
    BY <2>1, <2>2, SubSeqProperties DEF n
  <2>4. /\ SubSeq(s, 1, n) \in Seq(FrameType)
        /\ Len(SubSeq(s, 1, n)) = n
        /\ \A i \in 1 .. n : SubSeq(s, 1, n)[i] = s[i]
    BY <2>2, <2>3
  <2> QED
    BY <2>4 DEF Front, n
<1> HIDE DEF r, f
<1>4. ASSUME NEW z \in Seq(FrameType)
      PROVE  /\ Append(z, r) \in Seq(FrameType) /\ Len(Append(z, r)) = Len(z) + 1
             /\ Len(z) \in Nat
             /\ \A i \in 1 .. Len(z) : Append(z, r)[i] = z[i]
             /\ Append(z, r)[Len(z) + 1] = r
  BY <1>1, AppendProperties, LenProperties
<1>5. /\ Append(s, r) \in Seq(FrameType) /\ Append(f, r) \in Seq(FrameType)
      /\ Append(Append(f, r), r) \in Seq(FrameType)
  BY <1>3, <1>4
<1>6. CutTo(s, s, Len(s))
  BY <1>2 DEF CutTo
<1>7. CutTo(s, Append(s, r), Len(s))
  BY <1>1, <1>2, <1>4 DEF CutTo
<1>8. CutTo(s, f, Len(s) - 1)
  BY <1>2, <1>3 DEF CutTo
<1>9. CutTo(s, Append(f, r), Len(s) - 1)
  BY <1>1, <1>2, <1>3, <1>4 DEF CutTo
<1>10. CutTo(s, Append(Append(f, r), r), Len(s) - 1)
  <2>1. /\ Len(Append(Append(f, r), r)) = Len(s) + 1
        /\ \A i \in 1 .. Len(s) - 1 : Append(Append(f, r), r)[i] = s[i]
        /\ Append(Append(f, r), r)[Len(s)] = r
        /\ Append(Append(f, r), r)[Len(s) + 1] = r
    BY <1>2, <1>3, <1>4, <1>5
  <2> QED
    BY <1>1, <1>2, <2>1 DEF CutTo
<1> QED
  BY <1>2, <1>3, <1>6, <1>7, <1>8, <1>9, <1>10 DEF Restore, r, f

LEMMA GrowShapes ==
    ASSUME NEW s \in Seq(FrameType), s # <<>>, NEW t \in Tpls, NEW g \in FrameType
    PROVE  /\ Grows(s, Append(s, g), Len(s), g)
           /\ Grows(s, Restore(Append(s, g), t), Len(s), g)
           /\ Grows(s, Append(Front(s), g), Len(s) - 1, g)
           /\ Grows(s, Restore(Append(Front(s), g), t), Len(s) - 1, g)
           /\ Append(s, g) \in Seq(FrameType) /\ Append(s, g) # <<>>
           /\ Len(Append(s, g)) = Len(s) + 1
<1> DEFINE r == Frame("restore", t, NoEvent, 0)
           f == Front(s)
<1>1. r \in FrameType /\ r.pc = "restore"
  BY DEF Frame, FrameType, Pcs
<1>2. Len(s) \in Nat /\ Len(s) > 0
  BY EmptySeq, LenProperties
<1>3. /\ f \in Seq(FrameType) /\ Len(f) = Len(s) - 1
      /\ \A i \in 1 .. Len(s) - 1 : f[i] = s[i]
  <2>1. \A i \in 1 .. Len(s) - 1 : s[i] \in FrameType
    BY <1>2, ElementOfSeq
  <2> DEFINE n == Len(s) - 1
  <2>2. n \in Int /\ 1 \in Int /\ n >= 0
    BY <1>2
  <2> HIDE DEF n
  <2>3. /\ SubSeq(s, 1, n) \in Seq(FrameType)
        /\ Len(SubSeq(s, 1, n)) = IF 1 <= n THEN n - 1 + 1 ELSE 0
        /\ \A i \in 1 .. n - 1 + 1 : SubSeq(s, 1, n)[i] = s[1 + i - 1]
    BY <2>1, <2>2, SubSeqProperties DEF n
  <2>4. /\ SubSeq(s, 1, n) \in Seq(FrameType)
        /\ Len(SubSeq(s, 1, n)) = n
        /\ \A i \in 1 .. n : SubSeq(s, 1, n)[i] = s[i]
    BY <2>2, <2>3
  <2> QED
    BY <2>4 DEF Front, n
<1> HIDE DEF r, f
<1>4. ASSUME NEW z \in Seq(FrameType), NEW x \in FrameType
      PROVE  /\ Append(z, x) \in Seq(FrameType) /\ Len(Append(z, x)) = Len(z) + 1
             /\ Len(z) \in Nat
             /\ \A i \in 1 .. Len(z) : Append(z, x)[i] = z[i]
             /\ Append(z, x)[Len(z) + 1] = x
  BY AppendProperties, LenProperties
<1>5. Append(s, g) \in Seq(FrameType) /\ Append(f, g) \in Seq(FrameType)
  BY <1>3, <1>4
<1>6. Append(s, g) # <<>> /\ Len(Append(s, g)) = Len(s) + 1
  BY <1>2, <1>4, <1>5, EmptySeq
<1>7. Grows(s, Append(s, g), Len(s), g)
  BY <1>2, <1>4 DEF Grows
<1>8. Grows(s, Append(Append(s, g), r), Len(s), g)
  BY <1>1, <1>2, <1>4, <1>5 DEF Grows
<1>9. Grows(s, Append(f, g), Len(s) - 1, g)
  BY <1>2, <1>3, <1>4 DEF Grows
<1>10. Grows(s, Append(Append(f, g), r), Len(s) - 1, g)
  BY <1>1, <1>2, <1>3, <1>4, <1>5 DEF Grows
<1> QED
  BY <1>5, <1>6, <1>7, <1>8, <1>9, <1>10 DEF Restore, r, f

LEMMA LastRestore ==
    ASSUME NEW s \in Seq(FrameType), NEW t \in Tpls
    PROVE  Last(Restore(s, t)).pc = "restore"
<1> DEFINE r == Frame("restore", t, NoEvent, 0)
<1>1. r \in FrameType /\ r.pc = "restore"
  BY DEF Frame, FrameType, Pcs
<1> HIDE DEF r
<1>2. Len(Append(s, r)) = Len(s) + 1 /\ Append(s, r)[Len(s) + 1] = r
  BY <1>1, AppendProperties
<1> QED
  BY <1>1, <1>2 DEF Restore, Last, r

(* Cutting the stack disturbs no relation between frames.                  *)
LEMMA PairsCut ==
    ASSUME NEW s, NEW z, NEW m, PairsOK(s), CutTo(s, z, m), Len(s) \in Nat
    PROVE  PairsOK(z)
<1> USE DEF CutTo, Fragile, Closing
<1>1. \A i, j \in 1 .. Len(z) : i < j /\ z[i].pc \in Fragile =>
          \/ z[j].pc = "restore"
          \/ z[j].pc = "group" /\ z[i].pc \in {"rearm", "checkTimers"}
          \/ z[j].pc = "rearm" /\ z[i].pc = "checkTimers"
  <2> TAKE i, j \in 1 .. Len(z)
  <2> HAVE i < j /\ z[i].pc \in Fragile
  <2>1. CASE j \in 1 .. m
    <3>1. i \in 1 .. Len(s) /\ j \in 1 .. Len(s) /\ z[i] = s[i] /\ z[j] = s[j]
      BY <2>1
    <3> QED
      BY <3>1 DEF PairsOK
  <2>2. CASE j \in m + 1 .. Len(z)
    BY <2>2
  <2> QED
    BY <2>1, <2>2
<1>2. \A i, j \in 1 .. Len(z) :
          z[i].pc \in {"check", "checkReturn"} /\ z[j].pc \in Closing => z[i].ev # z[j].ev
  BY DEF PairsOK
<1>3. \A i \in 1 .. Len(z) :
          /\ z[i].pc = "start" => z[i].tpl \in NotifyTpls
          /\ z[i].pc = "client" /\ i > 1 => z[i].tpl \in NotifyTpls
          /\ z[i].pc = "wait" => i = 2
          /\ z[i].pc = "rearm" => i > 1 /\ z[i - 1].pc = "checkTimers"
  BY DEF PairsOK
<1> QED
  BY <1>1, <1>2, <1>3 DEF PairsOK

(* Nor does a new frame that may lie on the others.                        *)
LEMMA PairsGrow ==
    ASSUME NEW s, NEW z, NEW m, NEW f, PairsOK(s), Grows(s, z, m, f), Len(s) \in Nat,
           \A i \in 1 .. m : \/ Plain(s[i])
                             \/ f.pc = "group" /\ s[i].pc \in {"rearm", "checkTimers"}
                             \/ f.pc = "rearm" /\ s[i].pc = "checkTimers",
           f.pc = "start" => f.tpl \in NotifyTpls,
           f.pc = "client" => f.tpl \in NotifyTpls,
           f.pc = "wait" => m = 1,
           f.pc = "rearm" => m > 0 /\ s[m].pc = "checkTimers",
           f.pc \in Closing => \A i \in 1 .. m : s[i].pc \in {"check", "checkReturn"} => s[i].ev # f.ev,
           f.pc \in {"check", "checkReturn"} => \A i \in 1 .. m : s[i].pc \in Closing => s[i].ev # f.ev
    PROVE  PairsOK(z)
<1> USE DEF Grows, Fragile, Closing, Plain
<1>0. \A i \in 1 .. Len(z) : i \in 1 .. m \/ i = m + 1 \/ (i \in m + 2 .. Len(z) /\ z[i].pc = "restore")
  OBVIOUS
<1>1. \A i, j \in 1 .. Len(z) : i < j /\ z[i].pc \in Fragile =>
          \/ z[j].pc = "restore"
          \/ z[j].pc = "group" /\ z[i].pc \in {"rearm", "checkTimers"}
          \/ z[j].pc = "rearm" /\ z[i].pc = "checkTimers"
  <2> TAKE i, j \in 1 .. Len(z)
  <2> HAVE i < j /\ z[i].pc \in Fragile
  <2>1. CASE j \in 1 .. m
    <3>1. i \in 1 .. Len(s) /\ j \in 1 .. Len(s) /\ z[i] = s[i] /\ z[j] = s[j]
      BY <2>1
    <3> QED
      BY <3>1 DEF PairsOK
  <2>2. CASE j = m + 1
    <3>1. i \in 1 .. m /\ z[i] = s[i] /\ z[j] = f
      BY <2>2
    <3> QED
      BY <3>1
  <2>3. CASE z[j].pc = "restore"
    BY <2>3
  <2> QED
    BY <1>0, <2>1, <2>2, <2>3
<1>2. \A i, j \in 1 .. Len(z) :
          z[i].pc \in {"check", "checkReturn"} /\ z[j].pc \in Closing => z[i].ev # z[j].ev
  BY <1>0 DEF PairsOK
<1>3. \A i \in 1 .. Len(z) :
          /\ z[i].pc = "start" => z[i].tpl \in NotifyTpls
          /\ z[i].pc = "client" /\ i > 1 => z[i].tpl \in NotifyTpls
          /\ z[i].pc = "wait" => i = 2
          /\ z[i].pc = "rearm" => i > 1 /\ z[i - 1].pc = "checkTimers"
  BY <1>0 DEF PairsOK
<1> QED
  BY <1>1, <1>2, <1>3 DEF PairsOK

(* The frames that stay on the stack, in either case.                      *)
Stays(s, z, m) ==
    /\ m \in 0 .. Len(s) /\ m <= Len(z) /\ Len(z) \in Nat
    /\ \A i \in 1 .. m : z[i] = s[i]

LEMMA StaysCut ==
    ASSUME NEW s, NEW z, NEW m, CutTo(s, z, m)
    PROVE  Stays(s, z, m)
BY DEF CutTo, Stays

LEMMA StaysGrow ==
    ASSUME NEW s, NEW z, NEW m, NEW f, Len(s) \in Nat, Grows(s, z, m, f)
    PROVE  Stays(s, z, m)
<1>1. m \in Nat /\ m < Len(z) /\ Len(z) \in Nat
  BY DEF Grows
<1>2. m <= Len(z)
  BY <1>1
<1> QED
  BY <1>2 DEF Grows, Stays

-----------------------------------------------------------------------------
(* What the invariant says of the frames. *)

LEMMA Stacked ==
    ASSUME IInv
    PROVE  /\ stack \in Seq(FrameType) /\ stack # <<>> /\ Len(stack) \in Nat /\ Len(stack) > 0
           /\ \A i \in 1 .. Len(stack) : stack[i] \in FrameType
           /\ Top = stack[Len(stack)] /\ Top \in FrameType
           /\ \A i \in 1 .. Len(stack) - 1 : stack[i].pc = "group" => stack[i].n = 0
           /\ \A i \in 1 .. Len(stack) : stack[i].tpl <= Top.tpl /\ stack[i].tpl \in Nat
<1>1. StackOK(stack)
  BY DEF IInv
<1>2. /\ stack \in Seq(FrameType) /\ stack # <<>> /\ Len(stack) \in Nat /\ Len(stack) > 0
      /\ \A i \in 1 .. Len(stack) : stack[i] \in FrameType
  BY <1>1, EmptySeq, LenProperties, ElementOfSeq DEF StackOK
<1>3. Top = stack[Len(stack)] /\ Top \in FrameType
  BY <1>2 DEF Top, Last
<1>4. \A i \in 1 .. Len(stack) - 1 : stack[i].pc = "group" => stack[i].n = 0
  BY <1>1, <1>2 DEF StackOK, Fits
<1>5. \A i \in 1 .. Len(stack) : stack[i].tpl <= Top.tpl /\ stack[i].tpl \in Nat
  <2> TAKE i \in 1 .. Len(stack)
  <2>1. stack[i].tpl <= stack[Len(stack)].tpl
    BY <1>1, <1>2 DEF StackOK
  <2>2. stack[i].tpl \in Nat
    BY <1>2, Levels DEF FrameType
  <2> QED
    BY <1>3, <2>1, <2>2
<1> QED
  BY <1>2, <1>3, <1>4, <1>5

(* Only plain frames are under code that calls out.                        *)
LEMMA Underneath ==
    ASSUME KInv
    PROVE  /\ Top.pc \notin {"restore", "group", "rearm"} =>
                 \A i \in 1 .. Len(stack) - 1 : Plain(stack[i])
           /\ Top.pc \notin Fragile \cup {"restore"} =>
                 \A i \in 1 .. Len(stack) : Plain(stack[i])
<1>1. PairsOK(stack) /\ IInv
  BY DEF KInv, Safe
<1>2. Top.pc \notin {"restore", "group", "rearm"} => \A i \in 1 .. Len(stack) - 1 : Plain(stack[i])
  BY <1>1, Stacked DEF PairsOK, Plain, Fragile
<1> QED
  BY <1>1, <1>2, Stacked DEF Plain, Fragile

(* So is every frame that is restoring a level, when it lets time pass or  *)
(* dispatches.                                                             *)
LEMMA Interrupted ==
    ASSUME KInv, At("restore"),
           \/ masked > 0 /\ Top.tpl < HIGH
           \/ \E p \in pending : p > Top.tpl
    PROVE  \A i \in 1 .. Len(stack) : Plain(stack[i])
<1> SUFFICES ASSUME NEW i \in 1 .. Len(stack), ~Plain(stack[i])
             PROVE  FALSE
  OBVIOUS
<1>1. IInv /\ FrameSafe(stack[i]) /\ pending \subseteq Nat
  BY Levels DEF KInv, Safe, FramesSafe, IInv, TypeOK
<1>2. Top.pc = "restore" /\ i \in 1 .. Len(stack) - 1
  BY <1>1, Stacked DEF At, Plain, Fragile
<1>3. Waits(stack[i])
  BY <1>1, <1>2, Stacked DEF Waits, Plain
<1>4. Quiet(stack[i].tpl) /\ (masked > 0 => stack[i].tpl = HIGH)
  BY <1>1, <1>3 DEF FrameSafe
<1>5. stack[i].tpl <= Top.tpl /\ stack[i].tpl \in Nat /\ Top.tpl \in Nat
  BY <1>1, Stacked
<1> QED
  BY <1>1, <1>4, <1>5 DEF Quiet, HIGH

LEMMA FramesCut ==
    ASSUME NEW s, NEW m, CutTo(s, stack', m), Len(s) \in Nat,
           \A x : (\E i \in 1 .. m : s[i] = x) => FrameSafe(x)'
    PROVE  FramesSafe'
<1> SUFFICES ASSUME NEW i \in 1 .. Len(stack') PROVE FrameSafe(stack[i])'
  BY DEF FramesSafe
<1>1. CASE i \in 1 .. m
  <2>1. stack'[i] = s[i]
    BY <1>1 DEF CutTo
  <2> QED
    BY <1>1, <2>1
<1>2. CASE stack'[i].pc = "restore"
  BY <1>2 DEF FrameSafe, Waits, Plain, Fragile, Closing
<1> QED
  BY <1>1, <1>2 DEF CutTo

LEMMA FramesGrow ==
    ASSUME NEW s, NEW m, NEW g, Grows(s, stack', m, g), Len(s) \in Nat,
           \A x : (\E i \in 1 .. m : s[i] = x) => FrameSafe(x)', FrameSafe(g)'
    PROVE  FramesSafe'
<1> SUFFICES ASSUME NEW i \in 1 .. Len(stack') PROVE FrameSafe(stack[i])'
  BY DEF FramesSafe
<1>1. CASE i \in 1 .. m
  <2>1. stack'[i] = s[i]
    BY <1>1 DEF Grows
  <2> QED
    BY <1>1, <2>1
<1>2. CASE i = m + 1
  BY <1>2 DEF Grows
<1>3. CASE stack'[i].pc = "restore"
  BY <1>3 DEF FrameSafe, Waits, Plain, Fragile, Closing
<1> QED
  BY <1>1, <1>2, <1>3 DEF Grows

(* A plain frame relies on nothing but its event and its wait.             *)
LEMMA PlainSafe ==
    ASSUME NEW f, Plain(f), FrameSafe(f), live \subseteq live',
           f.pc = "wait" => wait'.status = "waiting"
    PROVE  FrameSafe(f)'
BY DEF FrameSafe, Plain, Waits, Fragile, Closing

(* While nothing changes but what is pending and who waits, no frame loses *)
(* what it relies on.                                                      *)
LEMMA SameSafe ==
    ASSUME NEW f, FrameSafe(f), UNCHANGED <<queue, live, attr, timerList, now>>,
           pending' \subseteq pending, masked' = masked \/ masked' = 0,
           wait'.status = "waiting" => wait.status = "waiting" /\ wait'.evs = wait.evs,
           f.pc = "wait" => wait'.status = "waiting"
    PROVE  FrameSafe(f)'
<1> QED
  BY DEF FrameSafe, Plain, Waits, Fragile, Closing, Quiet, IsQueued

(* An event that a frame which stays works on is still worked on.          *)
LEMMA StillOn ==
    ASSUME NEW m, Stays(stack, stack', m), Len(stack) \in Nat, NEW pcs,
           \A i \in m + 1 .. Len(stack) : stack[i].pc \notin pcs
    PROVE  \A e : OnStack(pcs, e) => OnStack(pcs, e)'
<1> SUFFICES ASSUME NEW e, OnStack(pcs, e) PROVE OnStack(pcs, e)'
  OBVIOUS
<1>1. PICK i \in 1 .. Len(stack) : stack[i].pc \in pcs /\ stack[i].ev = e
  BY DEF OnStack
<1>2. i \in 1 .. m /\ i \in 1 .. Len(stack')
  BY <1>1 DEF Stays
<1>3. stack'[i] = stack[i]
  BY <1>2 DEF Stays
<1> QED
  BY <1>1, <1>2, <1>3 DEF OnStack

(* Nor is anything forgotten by going on to another step of the same work. *)
LEMMA Replaced ==
    ASSUME NEW g, Grows(stack, stack', Len(stack) - 1, g), Len(stack) \in Nat, Len(stack) > 0,
           g.pc = stack[Len(stack)].pc, g.ev = stack[Len(stack)].ev
    PROVE  \A pcs, e : OnStack(pcs, e) => OnStack(pcs, e)'
<1> SUFFICES ASSUME NEW pcs, NEW e, OnStack(pcs, e) PROVE OnStack(pcs, e)'
  OBVIOUS
<1>1. PICK i \in 1 .. Len(stack) : stack[i].pc \in pcs /\ stack[i].ev = e
  BY DEF OnStack
<1>2. i \in 1 .. Len(stack') /\ stack'[i].pc = stack[i].pc /\ stack'[i].ev = stack[i].ev
  BY <1>1 DEF Grows
<1> QED
  BY <1>1, <1>2 DEF OnStack

LEMMA GrownTop ==
    ASSUME NEW s \in Seq(FrameType), NEW g \in FrameType
    PROVE  Last(Append(s, g)) = g
BY AppendProperties, LenProperties DEF Last

(* No signal is lost and no signal event is unlisted by a step that keeps  *)
(* queued what is queued, and accounts for what it signals.                *)
LEMMA SignalsKept ==
    ASSUME KInv, UNCHANGED dbVars,
           \A e : OnStack({"group", "free"}, e) => OnStack({"group", "free"}, e)',
           \A e : OnStack({"free"}, e) => OnStack({"free"}, e)',
           \A x \in live : "SIGNAL" \in attr[x].type /\ signalCount'[x] = 1 /\ IsQueued(x) =>
               IsQueued(x)',
           \A e \in live : "SIGNAL" \in attr[e].type /\ signalCount'[e] = 1 /\ signalCount[e] # 1 =>
               IsQueued(e)' \/ OnStack({"group", "free"}, e)'
    PROVE  NoLostNotification' /\ Listed'
<1>1. NoLostNotification /\ Listed
  BY DEF KInv, Safe
<1>2. NoLostNotification'
  <2> SUFFICES ASSUME NEW e \in live', "SIGNAL" \in attr'[e].type /\ signalCount'[e] = 1
               PROVE  IsQueued(e)' \/ OnStack({"group", "free"}, e)'
    BY DEF NoLostNotification
  <2>1. e \in live /\ "SIGNAL" \in attr[e].type
    BY <1>1 DEF dbVars
  <2>2. CASE signalCount[e] = 1
    BY <1>1, <2>1, <2>2 DEF NoLostNotification
  <2> QED
    BY <2>1, <2>2
<1>3. Listed'
  BY <1>1 DEF Listed, dbVars
<1> QED
  BY <1>2, <1>3

LEMMA SignalsStay ==
    ASSUME KInv, UNCHANGED dbVars, NEW m, Stays(stack, stack', m),
           \A i \in m + 1 .. Len(stack) : stack[i].pc \notin {"group", "free"},
           \A x \in live : "SIGNAL" \in attr[x].type /\ signalCount'[x] = 1 /\ IsQueued(x) =>
               IsQueued(x)',
           \A e \in live : "SIGNAL" \in attr[e].type /\ signalCount'[e] = 1 /\ signalCount[e] # 1 =>
               IsQueued(e)' \/ OnStack({"group", "free"}, e)'
    PROVE  NoLostNotification' /\ Listed'
<1>1. Len(stack) \in Nat
  BY Stacked DEF KInv
<1>2. \A e : OnStack({"group", "free"}, e) => OnStack({"group", "free"}, e)'
  BY <1>1, StillOn
<1>3. \A i \in m + 1 .. Len(stack) : stack[i].pc \notin {"free"}
  OBVIOUS
<1>4. \A e : OnStack({"free"}, e) => OnStack({"free"}, e)'
  BY <1>1, <1>3, StillOn
<1> QED
  BY <1>2, <1>4, SignalsKept

LEMMA SameQueues ==
    ASSUME KInv, UNCHANGED <<queue, live, attr>>, pending \subseteq pending'
    PROVE  QueueConsistent' /\ \A x : IsQueued(x) <=> IsQueued(x)'
BY DEF KInv, Safe, QueueConsistent, IsQueued

LEMMA SameSignals ==
    ASSUME KInv, UNCHANGED <<queue, signalCount, dbVars>>, NEW m, Stays(stack, stack', m),
           \A p \in pending : p \in pending' \/ queue[p] = <<>>,
           \A i \in m + 1 .. Len(stack) : stack[i].pc \notin {"group", "free"}
    PROVE  QueueConsistent' /\ NoLostNotification' /\ Listed'
<1>1. QueueConsistent'
  BY DEF KInv, Safe, QueueConsistent, dbVars
<1>2. \A x : IsQueued(x) => IsQueued(x)'
  BY DEF IsQueued
<1> QED
  BY <1>1, <1>2, SignalsStay

LEMMA SameTimers ==
    ASSUME KInv, UNCHANGED <<timerVars, live, attr, now>>, NEW m, Stays(stack, stack', m),
           IsQueued(CheckTimer) => IsQueued(CheckTimer)',
           \A i \in m + 1 .. Len(stack) : stack[i].pc \notin {"start", "checkTimers", "rearm"}
    PROVE  TimerListSorted' /\ Noticed' /\ PeriodicStaysArmed'
<1>1. TimerListSorted /\ Noticed /\ PeriodicStaysArmed /\ Len(stack) \in Nat
  BY Stacked DEF KInv, Safe
<1>2. TimerListSorted'
  BY <1>1 DEF TimerListSorted, timerVars
<1>3. Noticed'
  <2>1. \A i \in m + 1 .. Len(stack) : stack[i].pc \notin {"start", "checkTimers"}
    OBVIOUS
  <2>2. \A e : OnStack({"start", "checkTimers"}, e) => OnStack({"start", "checkTimers"}, e)'
    BY <1>1, <2>1, StillOn
  <2> QED
    BY <1>1, <2>2 DEF Noticed, Expired, timerVars
<1>4. PeriodicStaysArmed'
  <2>1. \A i \in m + 1 .. Len(stack) : stack[i].pc \notin {"rearm"}
    OBVIOUS
  <2>2. \A e : OnStack({"rearm"}, e) => OnStack({"rearm"}, e)'
    BY <1>1, <2>1, StillOn
  <2> QED
    BY <1>1, <2>2 DEF PeriodicStaysArmed, timerVars
<1> QED
  BY <1>2, <1>3, <1>4

(* Between two steps of CoreNotifySignalList nothing is checked.           *)
LEMMA PassedCut ==
    ASSUME KInv, NEW m, CutTo(stack, stack', m), Len(stack') > 0,
           m = Len(stack) => Top.pc # "group"
    PROVE  Passed'
<1> SUFFICES ASSUME stack'[Len(stack')].pc = "group" PROVE stack'[Len(stack')].n = 0
  BY DEF Passed, At, Top, Last
<1>1. Len(stack') = m /\ m \in 1 .. Len(stack) /\ stack'[m] = stack[m]
  BY DEF CutTo
<1>2. IInv
  BY DEF KInv
<1> QED
  BY <1>1, <1>2, Stacked

LEMMA PassedGrow ==
    ASSUME NEW s, NEW m, NEW f, Grows(s, stack', m, f), Len(s) \in Nat,
           f.pc = "group" => f.n \in {0, 1}
    PROVE  Passed'
<1>1. At("group")' => Top'.n \in {0, 1}
  BY DEF Grows, At, Top, Last
<1> QED
  BY <1>1 DEF Passed

-----------------------------------------------------------------------------
(* What queueing an event does. *)

LEMMA NotifyQueues ==
    ASSUME KInv, NEW e \in live, NeedsNotify(attr[e]), CoreNotifyEvent(e), UNCHANGED <<live, attr>>
    PROVE  /\ QueueConsistent'
           /\ IsQueued(e)'
           /\ \A x : IsQueued(x) => IsQueued(x)'
           /\ \A x : IsQueued(x)' => x = e \/ IsQueued(x)
           /\ pending' = pending \cup {attr[e].tpl} /\ attr[e].tpl \in NotifyTpls
<1> DEFINE l == attr[e].tpl
           r == RemoveFirst(queue[l], e)
           q == Append(r, e)
<1>1. /\ l \in NotifyTpls /\ e \in Events
      /\ queue \in [NotifyTpls -> Seq(Events)] /\ QueueConsistent
  BY DEF KInv, Safe, IInv, TypeOK, Attribute
<1>2. pending' = pending \cup {l} /\ queue' = [queue EXCEPT ![l] = q]
  BY DEF CoreNotifyEvent, NotifyQueue
<1>3. Distinct(queue[l]) /\ queue[l] \in Seq(Events) /\ Len(queue[l]) \in Nat
  <2>1. queue[l] \in Seq(Events) /\ Len(queue[l]) \in Nat
    BY <1>1, LenProperties
  <2>2. \A i \in 1 .. Len(queue[l]) : \A j \in 1 .. i - 1 : queue[l][j] # queue[l][i]
    BY <1>1 DEF QueueConsistent
  <2> HIDE DEF l
  <2>3. \A i, j \in 1 .. Len(queue[l]) : i = j \/ i \in 1 .. j - 1 \/ j \in 1 .. i - 1
    BY <2>1
  <2> QED
    BY <2>1, <2>2, <2>3 DEF Distinct
<1>4. /\ r \in Seq(Events) /\ Distinct(r)
      /\ \A i \in 1 .. Len(r) : r[i] # e /\ \E j \in 1 .. Len(queue[l]) : r[i] = queue[l][j]
      /\ \A i \in 1 .. Len(queue[l]) : queue[l][i] # e => \E j \in 1 .. Len(r) : r[j] = queue[l][i]
  <2> DEFINE ql == queue[l]
  <2> HIDE DEF ql
  <2>1. ql \in Seq(Events) /\ Distinct(ql)
    BY <1>3 DEF ql
  <2>2. /\ RemoveFirst(ql, e) \in Seq(Events) /\ Distinct(RemoveFirst(ql, e))
        /\ \A i \in 1 .. Len(RemoveFirst(ql, e)) :
              RemoveFirst(ql, e)[i] # e /\ \E j \in 1 .. Len(ql) : RemoveFirst(ql, e)[i] = ql[j]
    BY <2>1, RemoveFirstProperties
  <2>3. \A i \in 1 .. Len(ql) : ql[i] # e =>
           \E j \in 1 .. Len(RemoveFirst(ql, e)) : RemoveFirst(ql, e)[j] = ql[i]
    BY <2>1, RemoveFirstKeeps
  <2> QED
    BY <2>2, <2>3 DEF ql
<1> HIDE DEF r
<1>5. /\ Len(r) \in Nat /\ Len(q) = Len(r) + 1 /\ q[Len(r) + 1] = e
      /\ \A i \in 1 .. Len(r) : q[i] = r[i]
  BY <1>1, <1>4, AppendProperties, LenProperties
<1> HIDE DEF q, l
<1>6. queue'[l] = q /\ \A p \in NotifyTpls \ {l} : queue'[p] = queue[p]
  BY <1>1, <1>2
<1>7. QueueConsistent'
  <2> SUFFICES ASSUME NEW p \in NotifyTpls
               PROVE  /\ queue'[p] # <<>> => p \in pending'
                      /\ \A i \in 1 .. Len(queue'[p]) :
                            /\ queue'[p][i] \in live'
                            /\ attr'[queue'[p][i]].tpl = p
                            /\ \A j \in 1 .. i - 1 : queue'[p][j] # queue'[p][i]
    BY DEF QueueConsistent
  <2>1. CASE p # l
    BY <1>1, <1>2, <1>6, <2>1 DEF QueueConsistent
  <2>2. CASE p = l
    <3> SUFFICES ASSUME NEW i \in 1 .. Len(q)
                 PROVE  /\ q[i] \in live /\ attr[q[i]].tpl = l
                        /\ \A j \in 1 .. i - 1 : q[j] # q[i]
      BY <1>2, <1>6, <2>2
    <3>1. CASE i \in 1 .. Len(r)
      <4>1. q[i] \in live /\ attr[q[i]].tpl = l
        BY <1>1, <1>4, <1>5, <3>1 DEF QueueConsistent
      <4>2. ASSUME NEW j \in 1 .. i - 1 PROVE q[j] # q[i]
        <5>1. j \in 1 .. Len(r) /\ j # i
          BY <1>5, <3>1, <4>2
        <5> QED
          BY <1>4, <1>5, <3>1, <5>1 DEF Distinct
      <4> QED
        BY <4>1, <4>2
    <3>2. CASE i = Len(r) + 1
      <4>1. q[i] = e /\ \A j \in 1 .. i - 1 : j \in 1 .. Len(r)
        BY <1>5, <3>2
      <4>2. \A j \in 1 .. i - 1 : q[j] # q[i]
        BY <1>4, <1>5, <4>1
      <4> QED
        BY <4>1, <4>2 DEF l
    <3> QED
      BY <1>5, <3>1, <3>2
  <2> QED
    BY <2>1, <2>2
<1>8. IsQueued(e)'
  <2>1. Len(r) + 1 \in 1 .. Len(q)
    BY <1>5
  <2> QED
    BY <1>1, <1>5, <1>6, <2>1 DEF IsQueued, Contains
<1>9. ASSUME NEW x, IsQueued(x) PROVE IsQueued(x)'
  <2>1. PICK p \in NotifyTpls : \E i \in 1 .. Len(queue[p]) : queue[p][i] = x
    BY <1>9 DEF IsQueued, Contains
  <2>2. CASE p # l
    BY <1>6, <2>1, <2>2 DEF IsQueued, Contains
  <2>3. CASE p = l /\ x # e
    <3>1. \E j \in 1 .. Len(r) : r[j] = x
      BY <1>4, <2>1, <2>3
    <3>2. \E j \in 1 .. Len(q) : q[j] = x
      BY <1>5, <3>1
    <3> QED
      BY <1>1, <1>6, <3>2 DEF IsQueued, Contains
  <2> QED
    BY <1>8, <2>2, <2>3
<1>10. ASSUME NEW x, IsQueued(x)' PROVE x = e \/ IsQueued(x)
  <2>1. PICK p \in NotifyTpls : \E i \in 1 .. Len(queue'[p]) : queue'[p][i] = x
    BY <1>10 DEF IsQueued, Contains
  <2>2. CASE p # l
    BY <1>6, <2>1, <2>2 DEF IsQueued, Contains
  <2>3. CASE p = l
    <3>1. PICK i \in 1 .. Len(q) : q[i] = x
      BY <1>6, <2>1, <2>3
    <3>2. i = Len(r) + 1 \/ \E j \in 1 .. Len(queue[l]) : x = queue[l][j]
      <4>1. i = Len(r) + 1 \/ (i \in 1 .. Len(r) /\ r[i] = x)
        BY <1>5, <3>1
      <4> QED
        BY <1>4, <4>1
    <3> QED
      BY <1>1, <1>5, <3>1, <3>2 DEF IsQueued, Contains
  <2> QED
    BY <2>2, <2>3
<1> QED
  BY <1>1, <1>2, <1>7, <1>8, <1>9, <1>10 DEF l

(* The check-timer event is in no group and never closed, so that its      *)
(* SignalCount is set only while it is queued.                             *)
LEMMA CheckTimerQueued ==
    ASSUME KInv, signalCount[CheckTimer] = 1
    PROVE  IsQueued(CheckTimer)
<1>1. /\ CheckTimer \in live /\ InternalOK /\ CloseOK(stack) /\ NoLostNotification /\ FramesSafe
  BY DEF KInv, Safe, IInv, Present
<1>2. attr[CheckTimer] = [type |-> {"SIGNAL"}, tpl |-> TIMER, group |-> NoGroup]
  BY <1>1, EventCoreAssumption DEF InternalOK, InternalAttr
<1>3. IsQueued(CheckTimer) \/ OnStack({"group", "free"}, CheckTimer)
  BY <1>1, <1>2 DEF NoLostNotification
<1>4. ASSUME NEW i \in 1 .. Len(stack), stack[i].pc \in {"group", "free"}, stack[i].ev = CheckTimer
      PROVE  FALSE
  <2>1. CASE stack[i].pc = "group"
    BY <1>1, <1>2, <1>4, <2>1 DEF FramesSafe, FrameSafe
  <2>2. CASE stack[i].pc = "free"
    BY <1>1, <1>4, <2>2, EventCoreAssumption DEF CloseOK, Closing
  <2> QED
    BY <1>4, <2>1, <2>2
<1> QED
  BY <1>3, <1>4 DEF OnStack

LEMMA CheckTimerQueues ==
    ASSUME KInv, SignalCheckTimer, UNCHANGED <<live, attr>>
    PROVE  /\ QueueConsistent'
           /\ IsQueued(CheckTimer)'
           /\ \A x : IsQueued(x) => IsQueued(x)'
           /\ \A x : IsQueued(x)' => x = CheckTimer \/ IsQueued(x)
           /\ \A e \in Events : signalCount'[e] = 1 /\ signalCount[e] # 1 => IsQueued(e)'
           /\ pending \subseteq pending' /\ pending' \subseteq pending \cup {TIMER}
<1>1. /\ CheckTimer \in live /\ InternalOK /\ signalCount \in [Events -> {0, 1}] /\ CheckTimer \in Events
  BY DEF KInv, Safe, IInv, TypeOK, Present, Events
<1>2. attr[CheckTimer].tpl = TIMER /\ NeedsNotify(attr[CheckTimer])
  <2>1. attr[CheckTimer] = [type |-> {"SIGNAL"}, tpl |-> TIMER, group |-> NoGroup]
    BY <1>1, EventCoreAssumption DEF InternalOK, InternalAttr
  <2> QED
    BY <2>1 DEF NeedsNotify
<1>3. \A e \in Events : signalCount'[e] = 1 /\ signalCount[e] # 1 => e = CheckTimer
  BY <1>1 DEF SignalCheckTimer
<1>4. CASE CoreNotifyEvent(CheckTimer)
  BY <1>1, <1>2, <1>3, <1>4, NotifyQueues
<1>5. CASE signalCount[CheckTimer] # 0 /\ UNCHANGED <<pending, queue>>
  <2>1. signalCount[CheckTimer] = 1
    BY <1>1, <1>5
  <2>2. IsQueued(CheckTimer)
    BY <2>1, CheckTimerQueued
  <2> QED
    BY <1>3, <1>5, <2>2, SameQueues
<1> QED
  BY <1>4, <1>5 DEF SignalCheckTimer

(* Time that passes is noticed when it makes a timer expire.               *)
LEMMA TickQueues ==
    ASSUME KInv, NEW d \in Nat, CoreTimerTick(d), UNCHANGED <<live, attr, timerVars>>
    PROVE  /\ QueueConsistent'
           /\ Noticed'
           /\ \A x : IsQueued(x) => IsQueued(x)'
           /\ \A x : IsQueued(x)' => x = CheckTimer \/ IsQueued(x)
           /\ \A e \in Events : signalCount'[e] = 1 /\ signalCount[e] # 1 => IsQueued(e)'
           /\ pending \subseteq pending'
           /\ now' = now + d
<1>1. now' = now + d
  BY DEF CoreTimerTick
<1>2. CASE Expired(now + d) /\ SignalCheckTimer
  BY <1>1, <1>2, CheckTimerQueues DEF Noticed
<1>3. CASE ~Expired(now + d) /\ UNCHANGED eventVars
  <2>1. ~Expired(now)'
    BY <1>1, <1>3 DEF Expired, timerVars
  <2>2. Noticed'
    BY <2>1 DEF Noticed
  <2> QED
    BY <1>1, <1>3, <2>2, SameQueues DEF eventVars
<1> QED
  BY <1>2, <1>3 DEF CoreTimerTick

(* A signal is queued at once, or by the group's members' notification.    *)
LEMMA SignalQueues ==
    ASSUME KInv, NEW s \in Seq(FrameType), s # <<>>, NEW t \in Tpls, NEW e \in live,
           CoreSignalEvent(s, t, e), UNCHANGED <<live, attr>>
    PROVE  /\ QueueConsistent'
           /\ \A x : IsQueued(x) => IsQueued(x)'
           /\ \A x : IsQueued(x)' => x = e \/ IsQueued(x)
           /\ \A x \in Events : "SIGNAL" \in attr[x].type /\ signalCount'[x] = 1 /\ signalCount[x] # 1 =>
                 IsQueued(x)' \/ OnStack({"group", "free"}, x)'
           /\ tpl' = HIGH /\ Len(stack') > 0 /\ At("restore")'
           /\ \/ CutTo(s, stack', Len(s))
              \/ /\ Grows(s, stack', Len(s), Frame("group", t, e, 0))
                 /\ "SIGNAL" \in attr[e].type /\ attr[e].group # NoGroup /\ pending' = pending
<1>1. /\ e \in Events /\ signalCount \in [Events -> {0, 1}] /\ tpl' = HIGH
      /\ signalCount' = [signalCount EXCEPT ![e] = 1]
  BY DEF KInv, IInv, TypeOK, CoreSignalEvent
<1>2. \A x \in Events : signalCount'[x] = 1 /\ signalCount[x] # 1 => x = e
  BY <1>1
<1>3. /\ CutTo(s, Restore(s, t), Len(s)) /\ Len(s) > 0 /\ Len(s) \in Nat
      /\ Last(Restore(s, t)).pc = "restore"
  <2>1. CutTo(s, Restore(s, t), Len(s)) /\ Len(s) > 0 /\ Len(s) \in Nat
    BY CutShapes
  <2> QED
    BY <2>1, LastRestore
<1>4. CASE /\ signalCount[e] = 0 /\ "SIGNAL" \in attr[e].type /\ CoreNotifyEvent(e)
           /\ stack' = Restore(s, t)
  <2>1. NeedsNotify(attr[e])
    BY <1>4 DEF NeedsNotify
  <2>2. /\ QueueConsistent' /\ IsQueued(e)'
        /\ \A x : IsQueued(x) => IsQueued(x)'
        /\ \A x : IsQueued(x)' => x = e \/ IsQueued(x)
    BY <1>4, <2>1, NotifyQueues
  <2> QED
    BY <1>1, <1>2, <1>3, <1>4, <2>2 DEF CutTo, At, Top
<1>5. CASE /\ "SIGNAL" \in attr[e].type /\ attr[e].group # NoGroup
           /\ stack' = Restore(Append(s, Frame("group", t, e, 0)), t)
           /\ UNCHANGED <<pending, queue>>
  <2> DEFINE f == Frame("group", t, e, 0)
  <2>1. f \in FrameType /\ f.pc = "group" /\ f.ev = e
    BY <1>1 DEF Frame, FrameType, Pcs
  <2> HIDE DEF f
  <2>2. Grows(s, stack', Len(s), f)
    BY <1>5, <2>1, GrowShapes DEF f
  <2>3. OnStack({"group", "free"}, e)'
    <3>1. Len(s) + 1 \in 1 .. Len(stack') /\ stack'[Len(s) + 1] = f
      BY <1>3, <2>2 DEF Grows
    <3> QED
      BY <2>1, <3>1 DEF OnStack
  <2>4. Len(stack') > 0 /\ Last(stack').pc = "restore"
    <3>1. Append(s, f) \in Seq(FrameType)
      BY <2>1, GrowShapes
    <3>2. stack' = Restore(Append(s, f), t)
      BY <1>5 DEF f
    <3>3. Last(Restore(Append(s, f), t)).pc = "restore"
      BY <3>1, LastRestore
    <3> QED
      BY <1>3, <2>2, <3>2, <3>3 DEF Grows
  <2>5. /\ QueueConsistent'
        /\ \A x : IsQueued(x) <=> IsQueued(x)'
    BY <1>5, SameQueues
  <2> QED
    BY <1>1, <1>2, <1>5, <2>2, <2>3, <2>4, <2>5 DEF f, At, Top
<1>6. CASE /\ signalCount[e] # 0 \/ "SIGNAL" \notin attr[e].type
           /\ stack' = Restore(s, t) /\ UNCHANGED <<pending, queue>>
  <2>1. /\ QueueConsistent'
        /\ \A x : IsQueued(x) <=> IsQueued(x)'
    BY <1>6, SameQueues
  <2>2. signalCount[e] # 0 => signalCount[e] = 1
    BY <1>1
  <2> QED
    BY <1>1, <1>2, <1>3, <1>6, <2>1, <2>2 DEF CutTo, At, Top
<1> QED
  BY <1>4, <1>5, <1>6 DEF CoreSignalEvent

-----------------------------------------------------------------------------
(* Steps of code that lies on plain frames only. *)

LEMMA SamePresent ==
    ASSUME KInv, live \subseteq live',
           wait'.status = "waiting" => wait.status = "waiting" /\ wait'.evs = wait.evs
    PROVE  Present'
BY DEF KInv, Safe, Present

LEMMA PlainCut ==
    ASSUME KInv, NEW m, CutTo(stack, stack', m), Len(stack') > 0,
           \A i \in 1 .. m : Plain(stack[i]), live \subseteq live',
           \A i \in 1 .. m : stack[i].pc = "wait" => wait'.status = "waiting"
    PROVE  PairsOK(stack)' /\ FramesSafe' /\ Passed'
<1>1. IInv /\ PairsOK(stack) /\ FramesSafe /\ Len(stack) \in Nat /\ m \in 0 .. Len(stack)
  BY Stacked DEF KInv, Safe, CutTo
<1>2. PairsOK(stack')
  BY <1>1, PairsCut
<1>3. FramesSafe'
  <2>1. \A i \in 1 .. m : FrameSafe(stack[i])
    BY <1>1 DEF FramesSafe
  <2>2. \A x : (\E i \in 1 .. m : stack[i] = x) => FrameSafe(x)'
    BY <2>1, PlainSafe
  <2> QED
    BY <1>1, <2>2, FramesCut
<1>4. Passed'
  <2>1. m = Len(stack) => Top.pc # "group"
    BY <1>1, Stacked DEF Plain, Fragile
  <2> QED
    BY <2>1, PassedCut
<1> QED
  BY <1>2, <1>3, <1>4

LEMMA PlainGrow ==
    ASSUME KInv, NEW m, NEW f, Grows(stack, stack', m, f),
           \A i \in 1 .. m : Plain(stack[i]), live \subseteq live',
           \A i \in 1 .. m : stack[i].pc = "wait" => wait'.status = "waiting",
           f.pc = "start" => f.tpl \in NotifyTpls,
           f.pc = "client" => f.tpl \in NotifyTpls,
           f.pc = "wait" => m = 1,
           f.pc # "rearm",
           f.pc \in Closing => \A i \in 1 .. m : stack[i].pc \in {"check", "checkReturn"} => stack[i].ev # f.ev,
           f.pc = "group" => f.n \in {0, 1},
           FrameSafe(f)'
    PROVE  PairsOK(stack)' /\ FramesSafe' /\ Passed'
<1>1. IInv /\ PairsOK(stack) /\ FramesSafe /\ Len(stack) \in Nat /\ m \in 0 .. Len(stack)
  BY Stacked DEF KInv, Safe, Grows
<1>2. PairsOK(stack')
  <2>1. \A i \in 1 .. m : stack[i].pc \notin Closing
    BY DEF Plain, Fragile, Closing
  <2> QED
    BY <1>1, <2>1, PairsGrow
<1>3. FramesSafe'
  <2>1. \A i \in 1 .. m : FrameSafe(stack[i])
    BY <1>1 DEF FramesSafe
  <2>2. \A x : (\E i \in 1 .. m : stack[i] = x) => FrameSafe(x)'
    BY <2>1, PlainSafe
  <2> QED
    BY <1>1, <2>2, FramesGrow
<1>4. Passed'
  BY <1>1, PassedGrow
<1> QED
  BY <1>2, <1>3, <1>4

(* A step that only takes frames from the stack, or waits for less.        *)
LEMMA CutStep ==
    ASSUME KInv, NEW m, CutTo(stack, stack', m), Len(stack') > 0,
           UNCHANGED <<queue, signalCount, dbVars, timerVars, now, masked>>,
           pending' \subseteq pending, \A p \in pending : p \in pending' \/ queue[p] = <<>>,
           MaskedOnlyAtHigh',
           wait'.status = "waiting" => wait.status = "waiting" /\ wait'.evs = wait.evs,
           \A i \in 1 .. m : stack[i].pc = "wait" => wait'.status = "waiting",
           m = Len(stack) => Top.pc # "group",
           \A i \in m + 1 .. Len(stack) : stack[i].pc \notin {"group", "free", "start", "checkTimers", "rearm"}
    PROVE  Safe'
<1>1. IInv /\ PairsOK(stack) /\ FramesSafe /\ Len(stack) \in Nat
  BY Stacked DEF KInv, Safe
<1>2. PairsOK(stack')
  BY <1>1, PairsCut
<1>3. FramesSafe'
  <2>1. \A i \in 1 .. m : FrameSafe(stack[i])
    BY <1>1 DEF FramesSafe, CutTo
  <2>2. \A x : (\E i \in 1 .. m : stack[i] = x) => FrameSafe(x)'
    BY <2>1, SameSafe DEF dbVars, timerVars
  <2> QED
    BY <1>1, <2>2, FramesCut
<1>4. Present'
  BY SamePresent DEF dbVars
<1>5. Stays(stack, stack', m)
  BY StaysCut
<1>6. QueueConsistent' /\ NoLostNotification' /\ Listed'
  BY <1>5, SameSignals
<1>7. Passed'
  BY PassedCut
<1>8. TimerListSorted' /\ Noticed' /\ PeriodicStaysArmed'
  <2>1. IsQueued(CheckTimer) => IsQueued(CheckTimer)'
    BY DEF IsQueued
  <2> QED
    BY <1>5, <2>1, SameTimers DEF dbVars
<1> QED
  BY <1>2, <1>3, <1>4, <1>6, <1>7, <1>8 DEF Safe

(* One that puts a new frame on plain ones.                                *)
LEMMA GrowStep ==
    ASSUME KInv, NEW m, NEW f, Grows(stack, stack', m, f),
           UNCHANGED <<eventVars, dbVars, timerVars, now, masked>>,
           MaskedOnlyAtHigh',
           wait'.status = "waiting" => Present',
           \A i \in 1 .. m : Plain(stack[i]),
           \A i \in 1 .. m : stack[i].pc = "wait" => wait'.status = "waiting",
           \A i \in m + 1 .. Len(stack) : stack[i].pc \notin {"group", "free", "start", "checkTimers", "rearm"},
           f.pc = "start" => f.tpl \in NotifyTpls,
           f.pc = "client" => f.tpl \in NotifyTpls,
           f.pc = "wait" => m = 1,
           f.pc # "rearm",
           f.pc \in Closing => \A i \in 1 .. m : stack[i].pc \in {"check", "checkReturn"} => stack[i].ev # f.ev,
           f.pc = "group" => f.n \in {0, 1},
           FrameSafe(f)'
    PROVE  Safe'
<1>1. live \subseteq live' /\ Len(stack) \in Nat
  BY Stacked DEF dbVars, KInv
<1>2. PairsOK(stack)' /\ FramesSafe' /\ Passed'
  BY <1>1, PlainGrow
<1>3. Present'
  BY DEF dbVars, KInv, Safe, Present
<1>4. Stays(stack, stack', m)
  BY <1>1, StaysGrow
<1>5. QueueConsistent' /\ NoLostNotification' /\ Listed'
  BY <1>4, SameSignals DEF eventVars
<1>6. TimerListSorted' /\ Noticed' /\ PeriodicStaysArmed'
  <2>1. IsQueued(CheckTimer) => IsQueued(CheckTimer)'
    BY DEF IsQueued, eventVars
  <2> QED
    BY <1>4, <2>1, SameTimers DEF dbVars
<1> QED
  BY <1>2, <1>3, <1>5, <1>6 DEF Safe

(* The list of armed timers, and what is about to be armed again.          *)
LEMMA SameArmed ==
    ASSUME KInv, UNCHANGED <<timerList, trigger, period, live, attr>>, NEW m, Stays(stack, stack', m),
           \A i \in m + 1 .. Len(stack) : stack[i].pc # "rearm"
    PROVE  TimerListSorted' /\ PeriodicStaysArmed'
<1>1. TimerListSorted /\ PeriodicStaysArmed /\ Len(stack) \in Nat
  BY Stacked DEF KInv, Safe
<1>2. TimerListSorted'
  BY <1>1 DEF TimerListSorted
<1>3. \A i \in m + 1 .. Len(stack) : stack[i].pc \notin {"rearm"}
  OBVIOUS
<1>4. \A e : OnStack({"rearm"}, e) => OnStack({"rearm"}, e)'
  BY <1>1, <1>3, StillOn
<1>5. PeriodicStaysArmed'
  BY <1>1, <1>4 DEF PeriodicStaysArmed
<1> QED
  BY <1>2, <1>5

(* What is known of every state.                                           *)
LEMMA Given ==
    ASSUME KInv
    PROVE  /\ IInv /\ TypeOK /\ PairsOK(stack) /\ FramesSafe
           /\ stack \in Seq(FrameType) /\ stack # <<>> /\ Len(stack) \in Nat /\ Len(stack) > 0
           /\ \A i \in 1 .. Len(stack) : stack[i] \in FrameType /\ FrameSafe(stack[i])
           /\ \A i \in 1 .. Len(stack) : stack[i].pc = "wait" => wait.status = "waiting"
           /\ Top = stack[Len(stack)] /\ Top = Last(stack) /\ Top \in FrameType /\ FrameSafe(Top) /\ FrameOK(Top)
           /\ Top.pc # "client" => Len(stack) > 1
           /\ LevelOK(Top, tpl) /\ (Top.pc # "restore" => Quiet(tpl))
           /\ Top.tpl \in Tpls /\ Top.tpl \in Nat /\ tpl \in Tpls /\ tpl \in Nat
<1>1. IInv /\ PairsOK(stack) /\ FramesSafe
  BY DEF KInv, Safe
<1>2. TypeOK /\ StackOK(stack) /\ tpl \in Tpls
  BY <1>1 DEF IInv, TypeOK
<1>3. /\ stack \in Seq(FrameType) /\ stack # <<>> /\ Len(stack) \in Nat /\ Len(stack) > 0
      /\ \A i \in 1 .. Len(stack) : stack[i] \in FrameType
      /\ Top = stack[Len(stack)] /\ Top \in FrameType
  BY <1>1, Stacked
<1>4. \A i \in 1 .. Len(stack) : FrameSafe(stack[i])
  BY <1>1 DEF FramesSafe
<1>5. \A i \in 1 .. Len(stack) : stack[i].pc = "wait" => wait.status = "waiting"
  BY <1>4 DEF FrameSafe
<1>6. Top.pc # "client" => Len(stack) > 1
  BY <1>2, <1>3, Deep
<1>7. FrameSafe(Top) /\ FrameOK(Top)
  BY <1>2, <1>3, <1>4 DEF StackOK
<1>8. LevelOK(Top, tpl) /\ (Top.pc # "restore" => Quiet(tpl))
  BY <1>1 DEF IInv, At
<1>9. Top.tpl \in Tpls /\ Top.tpl \in Nat /\ tpl \in Nat
  BY <1>2, <1>3, Levels DEF FrameType
<1> QED
  BY <1>1, <1>2, <1>3, <1>4, <1>5, <1>6, <1>7, <1>8, <1>9 DEF Top

-----------------------------------------------------------------------------
(* Every action of the kernel. *)

LEMMA MaskedBelow ==
    ASSUME IInv, MaskedOnlyAtHigh, tpl # HIGH
    PROVE  masked = 0
BY DEF IInv, TypeOK, MaskedOnlyAtHigh

LEMMA RestoreConsumeSafe == ASSUME KInv, RestoreConsume PROVE Safe'
<1>1. /\ At("restore") /\ Top.tpl < HIGH /\ masked > 0 /\ masked' = 0 /\ tpl = HIGH
      /\ CoreTimerTick(masked) /\ UNCHANGED <<tpl, dbVars, timerVars, stack, wait, calls>>
  BY DEF RestoreConsume
<1>2. IInv /\ masked \in Nat /\ stack \in Seq(FrameType) /\ stack # <<>>
  BY DEF KInv, IInv, TypeOK
<1>3. \A i \in 1 .. Len(stack) : Plain(stack[i])
  BY <1>1, Interrupted
<1>4. CutTo(stack, stack', Len(stack)) /\ Len(stack) \in Nat /\ Len(stack') > 0
  BY <1>1, <1>2, CutShapes, Levels
<1>5. UNCHANGED <<live, attr, timerVars>>
  BY <1>1 DEF dbVars
<1>6. /\ QueueConsistent' /\ Noticed'
      /\ \A x : IsQueued(x) => IsQueued(x)'
      /\ \A e \in Events : signalCount'[e] = 1 /\ signalCount[e] # 1 => IsQueued(e)'
  BY <1>1, <1>2, <1>5, TickQueues
<1>7. PairsOK(stack)' /\ FramesSafe' /\ Passed'
  <2>1. \A i \in 1 .. Len(stack) : stack[i].pc = "wait" => wait'.status = "waiting"
    BY <1>1 DEF KInv, Safe, FramesSafe, FrameSafe
  <2> QED
    BY <1>3, <1>4, <1>5, <2>1, PlainCut
<1>8. Present'
  BY <1>1, <1>5, SamePresent
<1>9. NoLostNotification' /\ Listed'
  <2>1. live \subseteq Events
    BY <1>2 DEF IInv, TypeOK
  <2>2. Stays(stack, stack', Len(stack))
    BY <1>4, StaysCut
  <2>3. \A i \in Len(stack) + 1 .. Len(stack) : FALSE
    BY <1>4
  <2> QED
    BY <1>1, <1>6, <2>1, <2>2, <2>3, SignalsStay
<1>10. TimerListSorted' /\ PeriodicStaysArmed'
  <2>1. TimerListSorted /\ PeriodicStaysArmed
    BY DEF KInv, Safe
  <2> QED
    BY <1>1, <1>5, <2>1 DEF TimerListSorted, PeriodicStaysArmed, timerVars, OnStack
<1>11. MaskedOnlyAtHigh'
  BY <1>1 DEF MaskedOnlyAtHigh
<1> QED
  BY <1>6, <1>7, <1>8, <1>9, <1>10, <1>11 DEF Safe

LEMMA RestoreDoneSafe == ASSUME KInv, RestoreDone PROVE Safe'
<1>1. /\ At("restore") /\ MaskedDelivered /\ tpl' = Top.tpl /\ stack' = Front(stack)
      /\ UNCHANGED <<eventVars, dbVars, timerVars, clockVars, wait, calls>>
  BY DEF RestoreDone, Below
<1>2. IInv /\ stack \in Seq(FrameType) /\ stack # <<>> /\ Top.pc = "restore" /\ Top = stack[Len(stack)]
      /\ Top.tpl \in Nat /\ Len(stack) \in Nat /\ Len(stack) > 1
  <2>1. IInv /\ StackOK(stack)
    BY DEF KInv, IInv
  <2>2. stack[Len(stack)].pc = "restore"
    BY <1>1, <2>1, Stacked DEF At
  <2> QED
    BY <1>1, <2>1, <2>2, Stacked, Deep DEF At
<1>3. CutTo(stack, stack', Len(stack) - 1) /\ Len(stack') > 0
  BY <1>1, <1>2, CutShapes, Levels
<1>4. MaskedOnlyAtHigh'
  <2>1. MaskedOnlyAtHigh /\ masked \in Nat /\ Top.tpl <= HIGH
    BY <1>2, Levels, Stacked DEF KInv, Safe, IInv, TypeOK, FrameType
  <2> QED
    BY <1>1, <1>2, <2>1 DEF MaskedOnlyAtHigh, MaskedDelivered, HIGH, clockVars
<1>5. \A i \in Len(stack) - 1 + 1 .. Len(stack) : stack[i].pc = "restore"
  BY <1>2
<1>6. \A i \in 1 .. Len(stack) - 1 : stack[i].pc = "wait" => wait.status = "waiting"
  BY <1>2 DEF KInv, Safe, FramesSafe, FrameSafe
<1> QED
  BY <1>1, <1>2, <1>3, <1>4, <1>5, <1>6, CutStep DEF eventVars, clockVars

LEMMA RestoreDispatchSafe == ASSUME KInv, RestoreDispatch PROVE Safe'
<1>1. /\ At("restore") /\ MaskedDelivered
      /\ UNCHANGED <<eventVars, dbVars, timerVars, clockVars, wait, calls>>
  BY DEF RestoreDispatch
<1>2. PICK p \in pending : /\ p > Top.tpl /\ tpl' = p
                          /\ stack' = Append(stack, Frame("dispatch", p, NoEvent, 0))
  BY DEF RestoreDispatch
<1>3. PICK f : f = Frame("dispatch", p, NoEvent, 0)
  OBVIOUS
<1>4. IInv /\ stack \in Seq(FrameType) /\ stack # <<>> /\ Len(stack) \in Nat /\ p \in NotifyTpls
  BY Given DEF TypeOK
<1>5. f \in FrameType /\ f.pc = "dispatch"
  BY <1>3, <1>4, Levels DEF Frame, FrameType, Pcs
<1>6. Grows(stack, stack', Len(stack), f)
  BY <1>2, <1>3, <1>4, <1>5, GrowShapes, Levels
<1>7. \A i \in 1 .. Len(stack) : Plain(stack[i])
  BY <1>1, <1>2, Interrupted
<1>8. \A i \in 1 .. Len(stack) : stack[i].pc = "wait" => wait'.status = "waiting"
  BY <1>1 DEF KInv, Safe, FramesSafe, FrameSafe
<1>9. MaskedOnlyAtHigh'
  <2>1. MaskedOnlyAtHigh /\ masked \in Nat /\ Top.tpl \in Nat /\ p <= HIGH /\ p < HIGH /\ p \in Nat
    <3>1. MaskedOnlyAtHigh /\ masked \in Nat
      BY Given DEF KInv, Safe, TypeOK
    <3> QED
      BY <1>4, <3>1, Levels, Given DEF HIGH, TIMER
  <2>2. masked = 0
    BY <1>1, <1>2, <2>1 DEF MaskedOnlyAtHigh, MaskedDelivered, HIGH
  <2> QED
    BY <1>1, <2>2 DEF MaskedOnlyAtHigh, clockVars
<1>10. FrameSafe(f)'
  BY <1>5 DEF FrameSafe, Plain, Waits, Fragile, Closing
<1>11. Present'
  BY <1>1 DEF KInv, Safe, Present, dbVars
<1>12. \A i \in Len(stack) + 1 .. Len(stack) : FALSE
  BY <1>4
<1> QED
  BY <1>1, <1>5, <1>6, <1>7, <1>8, <1>9, <1>10, <1>11, <1>12, GrowStep DEF clockVars, Closing

LEMMA DispatchNextSafe == ASSUME KInv, DispatchNext PROVE Safe'
<1>0. PICK l, e : l = Top.tpl /\ e = Head(queue[l])
  OBVIOUS
<1>1. /\ At("dispatch") /\ queue[l] # <<>> /\ queue' = [queue EXCEPT ![l] = Tail(@)]
      /\ signalCount' = IF "SIGNAL" \in attr[e].type THEN [signalCount EXCEPT ![e] = 0] ELSE signalCount
      /\ stack' = Restore(Append(stack, Frame("start", l, e, 0)), l)
      /\ tpl' = HIGH
      /\ UNCHANGED <<pending, dbVars, timerVars, clockVars, wait, calls>>
  BY <1>0 DEF DispatchNext
<1>2. /\ Top.pc = "dispatch" /\ l \in NotifyTpls /\ tpl = l /\ Quiet(l) /\ l \in Tpls
  BY <1>0, <1>1, Given DEF At, FrameOK, LevelOK
<1>3. /\ queue \in [NotifyTpls -> Seq(Events)] /\ signalCount \in [Events -> {0, 1}] /\ QueueConsistent
      /\ live \subseteq Events /\ masked \in Nat /\ MaskedOnlyAtHigh
  BY Given DEF TypeOK, KInv, Safe
<1>4. masked = 0
  BY <1>2, <1>3, Levels DEF MaskedOnlyAtHigh, TIMER, HIGH
<1>5. /\ Len(queue[l]) \in Nat /\ Len(queue[l]) > 0 /\ e = queue[l][1]
      /\ Len(Tail(queue[l])) = Len(queue[l]) - 1
      /\ \A i \in 1 .. Len(queue[l]) - 1 : Tail(queue[l])[i] = queue[l][i + 1]
  BY <1>0, <1>1, <1>2, <1>3, EmptySeq, LenProperties, HeadTailProperties
<1>6. e \in live /\ e \in Events
  BY <1>2, <1>3, <1>5 DEF QueueConsistent
<1>7. queue'[l] = Tail(queue[l]) /\ \A p \in NotifyTpls \ {l} : queue'[p] = queue[p]
  BY <1>1, <1>2, <1>3
<1>8. QueueConsistent'
  <2> SUFFICES ASSUME NEW p \in NotifyTpls
               PROVE  /\ queue'[p] # <<>> => p \in pending'
                      /\ \A i \in 1 .. Len(queue'[p]) :
                            /\ queue'[p][i] \in live'
                            /\ attr'[queue'[p][i]].tpl = p
                            /\ \A j \in 1 .. i - 1 : queue'[p][j] # queue'[p][i]
    BY DEF QueueConsistent
  <2>1. CASE p # l
    BY <1>1, <1>3, <1>7, <2>1 DEF QueueConsistent, dbVars
  <2>2. CASE p = l
    <3>1. l \in pending
      BY <1>1, <1>2, <1>3 DEF QueueConsistent
    <3>2. ASSUME NEW i \in 1 .. Len(queue[l]) - 1
          PROVE  /\ queue[l][i + 1] \in live /\ attr[queue[l][i + 1]].tpl = l
                 /\ \A j \in 1 .. i - 1 : queue[l][j + 1] # queue[l][i + 1]
      BY <1>2, <1>3, <1>5 DEF QueueConsistent
    <3>3. /\ queue'[p] = Tail(queue[l]) /\ l \in pending' /\ live' = live /\ attr' = attr
      BY <1>1, <1>7, <2>2, <3>1 DEF dbVars
    <3>4. ASSUME NEW i \in 1 .. Len(Tail(queue[l]))
          PROVE  /\ Tail(queue[l])[i] \in live /\ attr[Tail(queue[l])[i]].tpl = l
                 /\ \A j \in 1 .. i - 1 : Tail(queue[l])[j] # Tail(queue[l])[i]
      BY <1>5, <3>2
    <3> QED
      BY <2>2, <3>3, <3>4
  <2> QED
    BY <2>1, <2>2
<1>9. ASSUME NEW x, x # e, IsQueued(x) PROVE IsQueued(x)'
  <2>0. PICK p \in NotifyTpls : \E i \in 1 .. Len(queue[p]) : queue[p][i] = x
    BY <1>9 DEF IsQueued, Contains
  <2>1. PICK i \in 1 .. Len(queue[p]) : queue[p][i] = x
    BY <2>0
  <2>2. CASE p # l
    BY <1>7, <2>1, <2>2 DEF IsQueued, Contains
  <2>3. CASE p = l
    <3>1. i - 1 \in 1 .. Len(Tail(queue[l])) /\ Tail(queue[l])[i - 1] = x
      BY <1>5, <1>9, <2>1, <2>3
    <3> QED
      BY <1>2, <1>7, <3>1 DEF IsQueued, Contains
  <2> QED
    BY <2>2, <2>3
<1>10. PICK f : f = Frame("start", l, e, 0)
  OBVIOUS
<1>11. f \in FrameType /\ f.pc = "start" /\ f.tpl = l /\ f.ev = e
  BY <1>2, <1>6, <1>10 DEF Frame, FrameType, Pcs
<1>12. Grows(stack, stack', Len(stack), f)
  BY <1>1, <1>2, <1>10, <1>11, Given, GrowShapes
<1>13. PairsOK(stack)' /\ FramesSafe' /\ Passed'
  <2>1. \A i \in 1 .. Len(stack) : Plain(stack[i])
    BY <1>2, Underneath DEF Fragile
  <2>2. FrameSafe(f)'
    BY <1>1, <1>2, <1>4, <1>6, <1>11 DEF FrameSafe, Waits, Quiet, Closing, dbVars, clockVars
  <2>3. \A i \in 1 .. Len(stack) : stack[i].pc = "wait" => wait'.status = "waiting"
    BY <1>1, Given
  <2> QED
    BY <1>1, <1>2, <1>11, <1>12, <2>1, <2>2, <2>3, PlainGrow DEF dbVars, Closing
<1>14. Stays(stack, stack', Len(stack)) /\ \A i \in Len(stack) + 1 .. Len(stack) : FALSE
  BY <1>12, StaysGrow, Given
<1>15. NoLostNotification' /\ Listed'
  BY <1>1, <1>3, <1>6, <1>9, <1>14, SignalsStay
<1>16. TimerListSorted' /\ PeriodicStaysArmed'
  BY <1>1, <1>14, SameArmed DEF dbVars, timerVars
<1>17. Noticed'
  <2>1. \A x : OnStack({"start", "checkTimers"}, x) => OnStack({"start", "checkTimers"}, x)'
    BY <1>14, StillOn, Given
  <2>2. OnStack({"start", "checkTimers"}, e)'
    <3>1. Len(stack) + 1 \in 1 .. Len(stack') /\ stack'[Len(stack) + 1] = f
      BY <1>12, Given DEF Grows
    <3> QED
      BY <1>11, <3>1 DEF OnStack
  <2>3. Noticed /\ (Expired(now)' => Expired(now))
    BY <1>1 DEF KInv, Safe, Expired, timerVars, clockVars
  <2> QED
    BY <1>9, <2>1, <2>2, <2>3 DEF Noticed
<1>18. Present'
  BY <1>1, SamePresent DEF dbVars
<1>19. MaskedOnlyAtHigh'
  BY <1>1 DEF MaskedOnlyAtHigh
<1> QED
  BY <1>8, <1>13, <1>15, <1>16, <1>17, <1>18, <1>19 DEF Safe

LEMMA DispatchDoneSafe == ASSUME KInv, DispatchDone PROVE Safe'
<1>1. /\ At("dispatch") /\ queue[Top.tpl] = <<>> /\ pending' = pending \ {Top.tpl}
      /\ stack' = Restore(Front(stack), Top.tpl) /\ tpl' = HIGH
      /\ UNCHANGED <<queue, signalCount, dbVars, timerVars, clockVars, wait, calls>>
  BY DEF DispatchDone, Below
<1>2. CutTo(stack, stack', Len(stack) - 1) /\ Len(stack') > 0
  <2>1. CutTo(stack, stack', Len(stack) - 1) /\ Len(stack) > 1
    BY <1>1, CutShapes, Given DEF At
  <2> QED
    BY <2>1, Given DEF CutTo
<1>3. MaskedOnlyAtHigh'
  BY <1>1 DEF MaskedOnlyAtHigh
<1>4. \A i \in Len(stack) - 1 + 1 .. Len(stack) : stack[i].pc = "dispatch"
  BY <1>1, Given DEF At
<1>5. \A i \in 1 .. Len(stack) - 1 : stack[i].pc = "wait" => wait.status = "waiting"
  BY Given
<1>6. /\ pending' \subseteq pending /\ \A p \in pending : p \in pending' \/ queue[p] = <<>>
      /\ Len(stack) - 1 # Len(stack) /\ UNCHANGED <<now, masked>>
  BY <1>1, Given DEF clockVars
<1> QED
  BY <1>1, <1>2, <1>3, <1>4, <1>5, <1>6, CutStep

LEMMA NotifyFunctionSafe == ASSUME KInv, NotifyFunction PROVE Safe'
<1>1. /\ At("start") /\ UNCHANGED <<tpl, eventVars, dbVars, timerVars, clockVars, wait, calls>>
  BY DEF NotifyFunction
<1>2. PICK g : /\ stack' = Append(Front(stack), g)
               /\ \/ Top.ev = CheckTimer /\ g = [Top EXCEPT !.pc = "checkTimers", !.n = now]
                  \/ Top.ev # CheckTimer /\ g = [Top EXCEPT !.pc = "empty"]
                  \/ Top.ev # CheckTimer /\ g = [Top EXCEPT !.pc = "client"]
  <2>1. CASE Top.ev = CheckTimer
    <3>1. stack' = Append(Front(stack), [Top EXCEPT !.pc = "checkTimers", !.n = now])
      BY <2>1, EventCoreAssumption DEF NotifyFunction, Below
    <3>2. PICK g : g = [Top EXCEPT !.pc = "checkTimers", !.n = now]
      OBVIOUS
    <3> QED
      BY <2>1, <3>1, <3>2
  <2>2. CASE Top.ev # CheckTimer /\ Top.ev = Idle
    BY <2>2 DEF NotifyFunction, Below
  <2>3. CASE Top.ev # CheckTimer /\ Top.ev # Idle
    BY <2>3 DEF NotifyFunction, Below
  <2> QED
    BY <2>1, <2>2, <2>3
<1>3. now \in Nat /\ masked \in Nat
  BY Given DEF TypeOK
<1>4. /\ g \in FrameType /\ g.pc \in {"checkTimers", "empty", "client"} /\ g.tpl = Top.tpl /\ g.ev = Top.ev
      /\ g.pc = "checkTimers" => g.n = now /\ g.ev = CheckTimer
      /\ g.ev = CheckTimer => g.pc = "checkTimers"
  BY <1>2, <1>3, Given DEF FrameType, Pcs
<1>5. Grows(stack, stack', Len(stack) - 1, g)
  BY <1>2, <1>4, Given, GrowShapes
<1>6. \A i \in 1 .. Len(stack) - 1 : Plain(stack[i])
  BY <1>1, Underneath DEF At
<1>7. FrameSafe(g)'
  <2>1. Waits(Top) /\ FrameSafe(Top)
    BY <1>1, Given DEF Waits, Plain, Fragile, At
  <2>2. Quiet(g.tpl)' /\ (masked' > 0 => g.tpl = HIGH)
    BY <1>1, <1>4, <2>1 DEF FrameSafe, Quiet, clockVars, eventVars
  <2> QED
    BY <1>1, <1>4, <2>2 DEF FrameSafe, Closing, clockVars
<1>8. PairsOK(stack)' /\ FramesSafe' /\ Passed'
  <2>1. g.pc = "client" => g.tpl \in NotifyTpls
    BY <1>1, <1>4, Given DEF PairsOK, At
  <2>2. \A i \in 1 .. Len(stack) - 1 : stack[i].pc = "wait" => wait'.status = "waiting"
    BY <1>1, Given
  <2> QED
    BY <1>1, <1>4, <1>5, <1>6, <1>7, <2>1, <2>2, PlainGrow DEF dbVars, Closing
<1>9. Stays(stack, stack', Len(stack) - 1) /\ \A i \in Len(stack) - 1 + 1 .. Len(stack) : stack[i].pc = "start"
  BY <1>1, <1>5, StaysGrow, Given DEF At
<1>10. QueueConsistent' /\ NoLostNotification' /\ Listed'
  BY <1>1, <1>9, SameSignals DEF eventVars
<1>11. TimerListSorted' /\ PeriodicStaysArmed'
  BY <1>1, <1>9, SameArmed DEF dbVars, timerVars
<1>12. Noticed'
  <2>1. ASSUME OnStack({"start", "checkTimers"}, CheckTimer)
        PROVE  OnStack({"start", "checkTimers"}, CheckTimer)'
    <3>1. PICK i \in 1 .. Len(stack) : stack[i].pc \in {"start", "checkTimers"} /\ stack[i].ev = CheckTimer
      BY <2>1 DEF OnStack
    <3>2. CASE i \in 1 .. Len(stack) - 1
      BY <1>9, <3>1, <3>2, Given DEF Stays, OnStack
    <3>3. CASE i = Len(stack)
      <4>1. g.pc = "checkTimers" /\ g.ev = CheckTimer
        BY <1>4, <3>1, <3>3, Given
      <4>2. Len(stack) \in 1 .. Len(stack') /\ stack'[Len(stack)] = g
        BY <1>5, Given DEF Grows
      <4> QED
        BY <4>1, <4>2 DEF OnStack
    <3> QED
      BY <3>1, <3>2, <3>3, Given
  <2>2. Noticed /\ (Expired(now)' => Expired(now)) /\ (IsQueued(CheckTimer) => IsQueued(CheckTimer)')
    BY <1>1 DEF KInv, Safe, Expired, timerVars, clockVars, eventVars, IsQueued
  <2> QED
    BY <2>1, <2>2 DEF Noticed
<1>13. Present'
  BY <1>1, SamePresent DEF dbVars
<1>14. MaskedOnlyAtHigh'
  BY <1>1 DEF KInv, Safe, MaskedOnlyAtHigh, clockVars
<1> QED
  BY <1>8, <1>10, <1>11, <1>12, <1>13, <1>14 DEF Safe

(* A frame returns, or releases a lock.                                    *)
LEMMA PopSafe ==
    ASSUME KInv, Len(stack) > 1,
           stack' = Front(stack) \/ \E t \in Tpls : stack' = Restore(Front(stack), t),
           UNCHANGED <<eventVars, dbVars, timerVars, clockVars>>, tpl' = tpl \/ tpl' = HIGH,
           Top.pc \notin {"group", "free", "start", "checkTimers", "rearm"},
           wait'.status = "waiting" => wait.status = "waiting" /\ wait'.evs = wait.evs,
           \A i \in 1 .. Len(stack) - 1 : stack[i].pc = "wait" => wait'.status = "waiting"
    PROVE  Safe'
<1>1. CutTo(stack, stack', Len(stack) - 1) /\ Len(stack') > 0
  <2>1. CutTo(stack, stack', Len(stack) - 1)
    BY CutShapes, Given
  <2> QED
    BY <2>1, Given DEF CutTo
<1>2. MaskedOnlyAtHigh'
  BY DEF KInv, Safe, MaskedOnlyAtHigh, clockVars
<1>3. \A i \in Len(stack) - 1 + 1 .. Len(stack) : stack[i] = Top
  BY Given
<1>4. /\ pending' \subseteq pending /\ \A p \in pending : p \in pending' \/ queue[p] = <<>>
      /\ Len(stack) - 1 # Len(stack) /\ UNCHANGED <<queue, signalCount, dbVars, timerVars, now, masked>>
  BY Given DEF clockVars, eventVars
<1> QED
  BY <1>1, <1>2, <1>3, <1>4, CutStep

LEMMA NotifyReturnSafe == ASSUME KInv, NotifyReturn PROVE Safe'
<1>1. /\ Top.pc \in {"client", "empty"} /\ Len(stack) > 1 /\ stack' = Front(stack)
      /\ UNCHANGED <<tpl, eventVars, dbVars, timerVars, clockVars, wait, calls>>
  BY DEF NotifyReturn, At, Below
<1> QED
  BY <1>1, PopSafe, Given

LEMMA CheckTimersDoneSafe == ASSUME KInv, CheckTimersDone PROVE Safe'
<1>1. /\ Top.pc = "checkTimers" /\ ~Expired(Top.n) /\ stack' = Restore(Front(stack), TIMER)
      /\ UNCHANGED <<tpl, eventVars, dbVars, timerVars, clockVars, wait, calls>>
  BY DEF CheckTimersDone, Below, At
<1>2. CutTo(stack, stack', Len(stack) - 1) /\ Len(stack') > 0
  <2>1. CutTo(stack, stack', Len(stack) - 1)
    BY <1>1, CutShapes, Given, Levels
  <2> QED
    BY <1>1, <2>1, Given DEF CutTo
<1>3. \A i \in 1 .. Len(stack) - 1 : Plain(stack[i])
  BY <1>1, Underneath
<1>4. \A i \in Len(stack) - 1 + 1 .. Len(stack) : stack[i].pc = "checkTimers"
  BY <1>1, Given
<1>5. PairsOK(stack)' /\ FramesSafe' /\ Passed'
  <2>1. \A i \in 1 .. Len(stack) - 1 : stack[i].pc = "wait" => wait'.status = "waiting"
    BY <1>1, Given
  <2> QED
    BY <1>1, <1>2, <1>3, <2>1, PlainCut DEF dbVars
<1>6. Stays(stack, stack', Len(stack) - 1)
  BY <1>2, StaysCut
<1>7. QueueConsistent' /\ NoLostNotification' /\ Listed'
  BY <1>1, <1>4, <1>6, SameSignals DEF eventVars
<1>8. TimerListSorted' /\ PeriodicStaysArmed'
  BY <1>1, <1>4, <1>6, SameArmed DEF dbVars, timerVars
<1>9. Noticed'
  <2>1. Top.n = now
    BY <1>1, Given DEF FrameSafe
  <2> QED
    BY <1>1, <2>1 DEF Noticed, Expired, timerVars, clockVars
<1>10. Present'
  BY <1>1, SamePresent DEF dbVars
<1>11. MaskedOnlyAtHigh'
  BY <1>1 DEF KInv, Safe, MaskedOnlyAtHigh, clockVars
<1> QED
  BY <1>5, <1>7, <1>8, <1>9, <1>10, <1>11 DEF Safe

(* CoreNotifySignalList and CoreCheckTimers lie on nothing but plain code  *)
(* and CoreCheckTimers, which waits at its own level.                      *)
LEMMA Locked ==
    ASSUME KInv, Top.pc \in {"group", "rearm"}
    PROVE  \A i \in 1 .. Len(stack) - 1 :
              /\ Plain(stack[i]) \/ stack[i].pc \in {"rearm", "checkTimers"}
              /\ Top.pc = "rearm" => Plain(stack[i]) \/ stack[i].pc = "checkTimers"
              /\ stack[i].pc \in {"rearm", "checkTimers"} => stack[i].tpl = TIMER
<1>1. \A i \in 1 .. Len(stack) - 1 : stack[i].pc \in Fragile =>
          /\ stack[i].pc \in {"rearm", "checkTimers"}
          /\ Top.pc = "rearm" => stack[i].pc = "checkTimers"
  <2> TAKE i \in 1 .. Len(stack) - 1
  <2>1. i \in 1 .. Len(stack) /\ Len(stack) \in 1 .. Len(stack) /\ i < Len(stack) /\ Top = stack[Len(stack)]
    BY Given
  <2> QED
    BY <2>1, Given DEF PairsOK
<1>2. \A i \in 1 .. Len(stack) : FrameOK(stack[i])
  BY Given DEF IInv, StackOK
<1> QED
  BY <1>1, <1>2, Given DEF Plain, FrameOK

(* It relies on nothing that a notification, or arming another timer, may  *)
(* change.                                                                 *)
LEMMA LockedSafe ==
    ASSUME NEW f, FrameSafe(f), f.pc \in {"rearm", "checkTimers"}, f.tpl = TIMER,
           pending' \subseteq NotifyTpls, UNCHANGED <<live, attr, now, masked>>,
           f.pc = "rearm" => \A k \in 1 .. Len(timerList') : timerList'[k] # f.ev
    PROVE  FrameSafe(f)'
<1>1. Quiet(TIMER)'
  BY Levels DEF Quiet
<1>2. masked' > 0 => f.tpl = HIGH
  BY DEF FrameSafe, Waits, Plain, Fragile
<1> QED
  BY <1>1, <1>2 DEF FrameSafe, Waits, Plain, Closing

LEMMA GroupAcquireSafe == ASSUME KInv, GroupAcquire PROVE Safe'
<1>1. /\ Top.pc = "group" /\ Top.n = 0 /\ tpl' = HIGH
      /\ stack' = Append(Front(stack), [Top EXCEPT !.n = 1])
      /\ UNCHANGED <<eventVars, dbVars, timerVars, clockVars, wait, calls>>
  BY DEF GroupAcquire, Below, At
<1>2. PICK g : g = [Top EXCEPT !.n = 1]
  OBVIOUS
<1>3. g \in FrameType /\ g.pc = "group" /\ g.ev = Top.ev /\ g.tpl = Top.tpl /\ g.n = 1
  BY <1>1, <1>2, Given DEF FrameType
<1>4. Grows(stack, stack', Len(stack) - 1, g)
  BY <1>1, <1>2, <1>3, GrowShapes, Given
<1>5. PairsOK(stack')
  BY <1>1, <1>3, <1>4, Given, Locked, PairsGrow DEF Closing
<1>6. FramesSafe'
  <2>1. \A i \in 1 .. Len(stack) - 1 : FrameSafe(stack[i]) /\ (stack[i].pc = "wait" => wait.status = "waiting")
    BY Given
  <2>2. \A x : (\E i \in 1 .. Len(stack) - 1 : stack[i] = x) => FrameSafe(x)'
    BY <1>1, <2>1, SameSafe DEF eventVars, dbVars, timerVars, clockVars
  <2>3. FrameSafe(g)'
    BY <1>1, <1>3, Given DEF FrameSafe, Waits, Closing, dbVars
  <2> QED
    BY <1>4, <2>2, <2>3, Given, FramesGrow
<1>7. \A pcs, e : OnStack(pcs, e) => OnStack(pcs, e)'
  BY <1>1, <1>3, <1>4, Given, Replaced
<1>8. Passed'
  BY <1>3, <1>4, Given, PassedGrow
<1>9. QueueConsistent' /\ \A x : IsQueued(x) <=> IsQueued(x)'
  BY <1>1, SameQueues DEF eventVars, dbVars
<1>10. NoLostNotification' /\ Listed'
  BY <1>1, <1>7, <1>9, SignalsKept DEF eventVars
<1>11. TimerListSorted' /\ Noticed' /\ PeriodicStaysArmed'
  BY <1>1, <1>7, <1>9 DEF KInv, Safe, TimerListSorted, Noticed, Expired, PeriodicStaysArmed,
                          timerVars, clockVars, dbVars
<1>12. Present'
  BY <1>1, SamePresent DEF dbVars
<1>13. MaskedOnlyAtHigh'
  BY <1>1 DEF MaskedOnlyAtHigh
<1> QED
  BY <1>5, <1>6, <1>8, <1>9, <1>10, <1>11, <1>12, <1>13 DEF Safe

LEMMA GroupNotifySafe == ASSUME KInv, GroupNotify PROVE Safe'
<1>1. /\ Top.pc = "group" /\ Top.n \in 1 .. Len(signalList)
      /\ stack' = Append(Front(stack), [Top EXCEPT !.n = @ + 1])
      /\ UNCHANGED <<tpl, signalCount, dbVars, timerVars, clockVars, wait, calls>>
  BY DEF GroupNotify, Below, At
<1>2. PICK g : g = [Top EXCEPT !.n = @ + 1]
  OBVIOUS
<1>3. g \in FrameType /\ g.pc = "group" /\ g.ev = Top.ev /\ g.tpl = Top.tpl /\ g.n = Top.n + 1 /\ Top.n \in Nat
  <2>1. Top.n \in Nat /\ Top.n + 1 \in Nat /\ Top \in FrameType
    BY Given DEF FrameType
  <2> QED
    BY <1>1, <1>2, <2>1 DEF FrameType
<1>4. PICK e : e = signalList[Top.n]
  OBVIOUS
<1>5. e \in live /\ "SIGNAL" \in attr[e].type /\ NeedsNotify(attr[e])
  BY <1>1, <1>4, Given DEF IInv, SignalListOK, NeedsNotify
<1>6. \/ CoreNotifyEvent(e)
      \/ attr[e].group # attr[Top.ev].group /\ UNCHANGED <<pending, queue>>
  BY <1>4 DEF GroupNotify
<1>7. /\ QueueConsistent' /\ \A x : IsQueued(x) => IsQueued(x)'
      /\ e = Top.ev => IsQueued(e)'
  <2>1. CASE CoreNotifyEvent(e)
    BY <1>1, <1>5, <2>1, NotifyQueues DEF dbVars
  <2>2. CASE attr[e].group # attr[Top.ev].group /\ UNCHANGED <<pending, queue>>
    BY <1>1, <2>2, SameQueues DEF dbVars
  <2> QED
    BY <1>6, <2>1, <2>2
<1>8. Grows(stack, stack', Len(stack) - 1, g)
  BY <1>1, <1>2, <1>3, GrowShapes, Given
<1>9. PairsOK(stack')
  <2>1. \A i \in 1 .. Len(stack) - 1 :
           Plain(stack[i]) \/ stack[i].pc \in {"rearm", "checkTimers"}
    BY <1>1, Locked
  <2>2. PairsOK(stack) /\ Len(stack) \in Nat
    BY Given
  <2> QED
    BY <1>3, <1>8, <2>1, <2>2, PairsGrow DEF Closing
<1>10. pending' \subseteq NotifyTpls
  <2>1. IInv'
    BY Given, GroupNotifyStep DEF GroupNotify
  <2> QED
    BY <2>1 DEF IInv, TypeOK
<1>11. FramesSafe'
  <2>1. ASSUME NEW i \in 1 .. Len(stack) - 1
        PROVE  \A x : stack[i] = x => FrameSafe(x)'
    <3> TAKE x
    <3> HAVE stack[i] = x
    <3>1. FrameSafe(x) /\ (x.pc = "wait" => wait.status = "waiting")
      BY Given
    <3>2. CASE Plain(x)
      BY <1>1, <3>1, <3>2, PlainSafe DEF dbVars
    <3>3. CASE x.pc \in {"rearm", "checkTimers"}
      <4>1. x.tpl = TIMER
        BY <1>1, <3>3, Locked
      <4>2. x.pc = "rearm" => \A k \in 1 .. Len(timerList') : timerList'[k] # x.ev
        BY <1>1, <3>1 DEF FrameSafe, timerVars
      <4> QED
        BY <1>1, <1>10, <3>1, <3>3, <4>1, <4>2, LockedSafe DEF dbVars, clockVars
    <3> QED
      BY <1>1, <3>2, <3>3, Locked
  <2>2. FrameSafe(g)'
    BY <1>1, <1>3, Given DEF FrameSafe, Waits, Closing, dbVars
  <2> QED
    BY <1>8, <2>1, <2>2, Given, FramesGrow
<1>12. \A pcs, x : OnStack(pcs, x) => OnStack(pcs, x)'
  BY <1>1, <1>3, <1>8, Given, Replaced
<1>13. Passed'
  <2>1. Top' = g
    <3>1. Front(stack) \in Seq(FrameType)
      BY Given, CutShapes, Levels
    <3> QED
      BY <1>1, <1>2, <1>3, <3>1, GrownTop DEF Top
  <2> SUFFICES ASSUME NEW k \in 1 .. Len(signalList), k < g.n, signalList[k] = g.ev
               PROVE  IsQueued(g.ev)'
    BY <1>1, <2>1 DEF Passed, dbVars
  <2>2. CASE k < Top.n
    <3>1. IsQueued(Top.ev)
      BY <1>1, <1>3, <2>2 DEF KInv, Safe, Passed, At
    <3> QED
      BY <1>3, <1>7, <3>1
  <2>3. CASE k = Top.n
    BY <1>3, <1>4, <1>7, <2>3
  <2> QED
    BY <1>3, <2>2, <2>3
<1>14. NoLostNotification' /\ Listed'
  BY <1>1, <1>7, <1>12, SignalsKept
<1>15. TimerListSorted' /\ Noticed' /\ PeriodicStaysArmed'
  BY <1>1, <1>7, <1>12 DEF KInv, Safe, TimerListSorted, Noticed, Expired, PeriodicStaysArmed,
                          timerVars, clockVars, dbVars
<1>16. Present'
  BY <1>1, SamePresent DEF dbVars
<1>17. MaskedOnlyAtHigh'
  BY <1>1 DEF KInv, Safe, MaskedOnlyAtHigh, clockVars
<1> QED
  BY <1>7, <1>9, <1>11, <1>13, <1>14, <1>15, <1>16, <1>17 DEF Safe

LEMMA GroupDoneSafe == ASSUME KInv, GroupDone PROVE Safe'
<1>1. /\ Top.pc = "group" /\ Top.n > Len(signalList)
      /\ stack' = Restore(Restore(Front(stack), Top.tpl), Top.tpl)
      /\ UNCHANGED <<tpl, eventVars, dbVars, timerVars, clockVars, wait, calls>>
  BY DEF GroupDone, Below, At
<1>2. CutTo(stack, stack', Len(stack) - 1) /\ Len(stack') > 0 /\ Len(stack) > 1
  <2>1. CutTo(stack, stack', Len(stack) - 1) /\ Len(stack) > 1
    BY <1>1, CutShapes, Given
  <2> QED
    BY <2>1, Given DEF CutTo
<1>3. PairsOK(stack')
  BY <1>2, Given, PairsCut
<1>4. FramesSafe'
  <2>1. \A i \in 1 .. Len(stack) - 1 : FrameSafe(stack[i]) /\ (stack[i].pc = "wait" => wait.status = "waiting")
    BY Given
  <2>2. \A x : (\E i \in 1 .. Len(stack) - 1 : stack[i] = x) => FrameSafe(x)'
    BY <1>1, <2>1, SameSafe DEF eventVars, dbVars, timerVars, clockVars
  <2> QED
    BY <1>2, <2>2, Given, FramesCut
<1>5. Passed'
  <2>1. Len(stack) - 1 # Len(stack)
    BY Given
  <2> QED
    BY <1>2, <2>1, PassedCut
<1>6. Stays(stack, stack', Len(stack) - 1) /\ \A i \in Len(stack) - 1 + 1 .. Len(stack) : stack[i].pc = "group"
  BY <1>1, <1>2, StaysCut, Given
<1>7. QueueConsistent' /\ \A x : IsQueued(x) <=> IsQueued(x)'
  BY <1>1, SameQueues DEF eventVars, dbVars
<1>8. \A e : OnStack({"free"}, e) => OnStack({"free"}, e)'
  <2>1. \A i \in Len(stack) - 1 + 1 .. Len(stack) : stack[i].pc \notin {"free"}
    BY <1>6
  <2> QED
    BY <1>6, <2>1, StillOn, Given
<1>9. Listed'
  BY <1>1, <1>8 DEF KInv, Safe, Listed, dbVars
<1>10. NoLostNotification'
  <2> SUFFICES ASSUME NEW e \in live, "SIGNAL" \in attr[e].type, signalCount[e] = 1
               PROVE  IsQueued(e)
    BY <1>1, <1>7 DEF NoLostNotification, eventVars, dbVars
  <2> SUFFICES ASSUME ~IsQueued(e)
               PROVE  FALSE
    OBVIOUS
  <2>1. PICK i \in 1 .. Len(stack) : stack[i].pc \in {"group", "free"} /\ stack[i].ev = e
    BY DEF KInv, Safe, NoLostNotification, OnStack
  <2>2. i \notin 1 .. Len(stack) - 1
    BY <1>1, <2>1, Locked DEF Plain, Fragile
  <2>3. Top.ev = e
    BY <2>1, <2>2, Given
  <2>4. ~OnStack({"free"}, e)
    BY <1>1, Locked, Given DEF OnStack, Plain, Fragile
  <2>5. PICK k \in 1 .. Len(signalList) : signalList[k] = e
    BY <2>4 DEF KInv, Safe, Listed
  <2>6. k < Top.n
    <3>1. Len(signalList) \in Nat /\ Top.n \in Nat
      BY Given, LenProperties DEF TypeOK, FrameType
    <3> QED
      BY <1>1, <3>1
  <2> QED
    BY <1>1, <2>3, <2>5, <2>6 DEF KInv, Safe, Passed, At
<1>11. TimerListSorted' /\ Noticed' /\ PeriodicStaysArmed'
  BY <1>1, <1>6, <1>7, SameTimers DEF dbVars, clockVars
<1>12. Present'
  BY <1>1, SamePresent DEF dbVars
<1>13. MaskedOnlyAtHigh'
  BY <1>1 DEF KInv, Safe, MaskedOnlyAtHigh, clockVars
<1> QED
  BY <1>3, <1>4, <1>5, <1>7, <1>9, <1>10, <1>11, <1>12, <1>13 DEF Safe

-----------------------------------------------------------------------------
(* The timer list. *)

Sorted(l) ==
    \A i \in 1 .. Len(l) : \A j \in 1 .. i - 1 : l[j] # l[i] /\ trigger[l[j]] <= trigger[l[i]]

(* The list stays sorted when an event is armed with the time it is        *)
(* inserted for.                                                           *)
LEMMA InsertSorted ==
    ASSUME TypeOK, NEW l \in Seq(Events), NEW e \in Events, NEW time \in Nat, Sorted(l),
           \A i \in 1 .. Len(l) : l[i] # e,
           trigger' = [trigger EXCEPT ![e] = time],
           timerList' = CoreInsertEventTimer(l, e, time)
    PROVE  /\ Sorted(timerList)'
           /\ timerList' \in Seq(Events)
           /\ \E i \in 1 .. Len(timerList') : timerList'[i] = e
           /\ \A j \in 1 .. Len(l) : \E i \in 1 .. Len(timerList') : timerList'[i] = l[j]
           /\ \A i \in 1 .. Len(timerList') :
                 timerList'[i] = e \/ \E j \in 1 .. Len(l) : timerList'[i] = l[j]
<1> DEFINE later == { i \in 1 .. Len(l) : trigger[l[i]] > time }
           Place(i) == /\ i <= Len(l) => trigger[l[i]] > time
                       /\ \A j \in 1 .. i - 1 : trigger[l[j]] <= time
<1>1. /\ Len(l) \in Nat /\ \A i \in 1 .. Len(l) : l[i] \in Events /\ trigger[l[i]] \in Nat
      /\ trigger \in [Events -> Nat]
  BY LenProperties DEF TypeOK
<1>2. \E i \in 1 .. Len(l) + 1 : Place(i)
  <2>1. CASE later = {}
    <3>1. Place(Len(l) + 1)
      BY <1>1, <2>1
    <3> QED
      BY <1>1, <3>1
  <2>2. CASE later # {}
    <3> later \subseteq Nat
      BY <1>1
    <3>1. PICK i \in later : \A j \in later : i <= j
      <4> HIDE DEF later
      <4> QED
        BY <2>2, Minimum
    <3>2. Place(i)
      BY <1>1, <3>1
    <3> QED
      BY <1>1, <3>1, <3>2
  <2> QED
    BY <2>1, <2>2
<1>3. PICK k : k = InsertPosition(l, time)
  OBVIOUS
<1>4. k \in 1 .. Len(l) + 1 /\ Place(k)
  BY <1>2, <1>3 DEF InsertPosition
<1>5. PICK z : z = InsertAt(l, k, e)
  OBVIOUS
<1>6. /\ z \in Seq(Events) /\ Len(z) = Len(l) + 1 /\ z[k] = e
      /\ \A i \in 1 .. Len(z) : i < k => i \in 1 .. Len(l) /\ z[i] = l[i]
      /\ \A i \in 1 .. Len(z) : k < i => i - 1 \in 1 .. Len(l) /\ z[i] = l[i - 1]
      /\ \A j \in 1 .. Len(l) : j < k => j \in 1 .. Len(z) /\ z[j] = l[j]
      /\ \A j \in 1 .. Len(l) : k <= j => j + 1 \in 1 .. Len(z) /\ z[j + 1] = l[j]
  <2>1. k \in 1 .. Len(l) + 1
    BY <1>4
  <2>2. /\ z \in Seq(Events) /\ Len(z) = Len(l) + 1
        /\ \A i \in 1 .. Len(l) + 1 : z[i] = IF i < k THEN l[i] ELSE IF i = k THEN e ELSE l[i - 1]
    <3>1. \A s \in Seq(Events) : \A i \in 1 .. Len(s) + 1 :
             /\ InsertAt(s, i, e) \in Seq(Events) /\ Len(InsertAt(s, i, e)) = Len(s) + 1
             /\ \A j \in 1 .. Len(s) + 1 :
                   InsertAt(s, i, e)[j] = IF j < i THEN s[j] ELSE IF j = i THEN e ELSE s[j - 1]
      BY InsertAtProperties
    <3>2. /\ InsertAt(l, k, e) \in Seq(Events) /\ Len(InsertAt(l, k, e)) = Len(l) + 1
          /\ \A i \in 1 .. Len(l) + 1 :
                InsertAt(l, k, e)[i] = IF i < k THEN l[i] ELSE IF i = k THEN e ELSE l[i - 1]
      BY <2>1, <3>1
    <3> QED
      BY <1>5, <3>2
  <2>3. Len(l) \in Nat
    BY <1>1
  <2>4. z[k] = e
    BY <2>1, <2>2
  <2>5. \A i \in 1 .. Len(z) : i < k => i \in 1 .. Len(l) /\ z[i] = l[i]
    BY <2>1, <2>2, <2>3
  <2>6. \A i \in 1 .. Len(z) : k < i => i - 1 \in 1 .. Len(l) /\ z[i] = l[i - 1]
    BY <2>1, <2>2, <2>3
  <2>7. \A j \in 1 .. Len(l) : j < k => j \in 1 .. Len(z) /\ z[j] = l[j]
    BY <2>1, <2>2, <2>3
  <2>8. ASSUME NEW j \in 1 .. Len(l), k <= j PROVE j + 1 \in 1 .. Len(z) /\ z[j + 1] = l[j]
    <3>1. j + 1 \in 1 .. Len(l) + 1 /\ ~(j + 1 < k) /\ j + 1 # k /\ j + 1 - 1 = j
      BY <2>1, <2>3, <2>8
    <3> QED
      BY <2>2, <3>1
  <2> QED
    BY <2>2, <2>4, <2>5, <2>6, <2>7, <2>8
<1>7. timerList' = z
  BY <1>3, <1>5 DEF CoreInsertEventTimer
<1>8. /\ trigger'[e] = time /\ \A x \in Events : x # e => trigger'[x] = trigger[x]
  BY <1>1
<1>9. \A i \in 1 .. Len(l) : k <= i => trigger[l[i]] > time
  <2> TAKE i \in 1 .. Len(l)
  <2> HAVE k <= i
  <2>1. trigger[l[k]] > time /\ k \in 1 .. Len(l)
    BY <1>1, <1>4
  <2>2. k = i \/ trigger[l[k]] <= trigger[l[i]]
    BY <1>1, <2>1 DEF Sorted
  <2>3. trigger[l[k]] \in Nat /\ trigger[l[i]] \in Nat
    BY <1>1, <2>1
  <2> QED
    BY <2>1, <2>2, <2>3
<1>10. \A i \in 1 .. Len(l) : i < k => trigger[l[i]] <= time
  BY <1>1, <1>4
<1> HIDE DEF Place, later
<1> HIDE <1>2, <1>3, <1>5
<1>11. ASSUME NEW i \in 1 .. Len(z), NEW j \in 1 .. i - 1
       PROVE  z[j] # z[i] /\ trigger'[z[j]] <= trigger'[z[i]]
  <2>0. k \in Int /\ i \in Int /\ j \in Int /\ j < i /\ j \in 1 .. Len(z) /\ Len(l) \in Nat
    BY <1>1, <1>4, <1>6
  <2>1. CASE i < k
    <3>1. i \in 1 .. Len(l) /\ j \in 1 .. Len(l) /\ j < i /\ z[i] = l[i] /\ z[j] = l[j]
      BY <1>6, <2>0, <2>1
    <3> QED
      BY <1>1, <1>8, <3>1 DEF Sorted
  <2>2. CASE i = k
    <3>1. j \in 1 .. Len(l) /\ j < k /\ z[i] = e /\ z[j] = l[j]
      BY <1>6, <2>0, <2>2
    <3> QED
      BY <1>1, <1>8, <1>10, <3>1
  <2>3. CASE k < i
    <3>1. i - 1 \in 1 .. Len(l) /\ z[i] = l[i - 1]
      BY <1>6, <2>0, <2>3
    <3>2. CASE j = k
      <4>1. z[j] = e /\ trigger[l[i - 1]] > time /\ trigger[l[i - 1]] \in Nat
        BY <1>1, <1>6, <1>9, <2>0, <2>3, <3>1, <3>2
      <4> QED
        BY <1>1, <1>8, <3>1, <4>1
    <3>3. CASE j < k
      <4>1. z[j] = l[j] /\ j \in 1 .. i - 2 /\ j \in 1 .. Len(l)
        BY <1>6, <2>0, <2>3, <3>3
      <4>2. l[j] # l[i - 1] /\ trigger[l[j]] <= trigger[l[i - 1]]
        BY <2>0, <3>1, <4>1 DEF Sorted
      <4> QED
        BY <1>1, <1>8, <3>1, <4>1, <4>2
    <3>4. CASE k < j
      <4>1. z[j] = l[j - 1] /\ j - 1 \in 1 .. (i - 1) - 1 /\ j - 1 \in 1 .. Len(l)
        BY <1>6, <2>0, <2>3, <3>4
      <4>2. l[j - 1] # l[i - 1] /\ trigger[l[j - 1]] <= trigger[l[i - 1]]
        BY <2>0, <3>1, <4>1 DEF Sorted
      <4> QED
        BY <1>1, <1>8, <3>1, <4>1, <4>2
    <3> QED
      BY <2>0, <3>2, <3>3, <3>4
  <2> QED
    BY <2>0, <2>1, <2>2, <2>3
<1>12. \A j \in 1 .. Len(l) : \E i \in 1 .. Len(z) : z[i] = l[j]
  <2> TAKE j \in 1 .. Len(l)
  <2>1. j < k \/ k <= j
    BY <1>4
  <2> QED
    BY <1>6, <2>1
<1>13. \E i \in 1 .. Len(z) : z[i] = e
  BY <1>4, <1>6
<1>14. \A i \in 1 .. Len(z) : z[i] = e \/ \E j \in 1 .. Len(l) : z[i] = l[j]
  <2> TAKE i \in 1 .. Len(z)
  <2>1. i < k \/ i = k \/ k < i
    BY <1>4
  <2> QED
    BY <1>6, <2>1
<1>15. Sorted(timerList)'
  BY <1>7, <1>11 DEF Sorted
<1> DEFINE Holds(t) ==
        /\ t \in Seq(Events)
        /\ \E i \in 1 .. Len(t) : t[i] = e
        /\ \A j \in 1 .. Len(l) : \E i \in 1 .. Len(t) : t[i] = l[j]
        /\ \A i \in 1 .. Len(t) : t[i] = e \/ \E j \in 1 .. Len(l) : t[i] = l[j]
<1>16. Holds(z)
  BY <1>6, <1>12, <1>13, <1>14
<1> HIDE DEF Holds
<1>17. Holds(timerList')
  BY <1>7, <1>16
<1> QED
  BY <1>15, <1>17 DEF Holds

(* What the invariant says of the list, and what it must say of it.        *)
LEMMA ListSorted ==
    TimerListSorted <=>
        /\ Sorted(timerList)
        /\ \A i \in 1 .. Len(timerList) : timerList[i] \in live /\ "TIMER" \in attr[timerList[i]].type
BY DEF TimerListSorted, Sorted

LEMMA CheckTimersRearmSafe == ASSUME KInv, CheckTimersRearm PROVE Safe'
<1>1. PICK e, t : e = Top.ev /\ t = NextTrigger(e, Top.n)
  OBVIOUS
<1>2. /\ Top.pc = "rearm" /\ stack' = Front(stack)
      /\ UNCHANGED <<tpl, dbVars, period, clockVars, wait, calls>>
      /\ \/ /\ trigger' = [trigger EXCEPT ![e] = t]
            /\ timerList' = CoreInsertEventTimer(timerList, e, t)
         \/ period[e] = 0 /\ UNCHANGED <<trigger, timerList>>
      /\ SignalCheckTimer \/ UNCHANGED eventVars
  BY <1>1 DEF CheckTimersRearm, Below, At
<1>3. /\ e \in live /\ e \in Events /\ "TIMER" \in attr[e].type
      /\ \A k \in 1 .. Len(timerList) : timerList[k] # e
  BY <1>1, <1>2, Given DEF FrameSafe, TypeOK
<1>4. t \in Nat
  BY <1>1, <1>2, <1>3, Given DEF NextTrigger, TypeOK, FrameType
<1>5. TimerListSorted /\ timerList \in Seq(Events) /\ Sorted(timerList) /\ TypeOK
  BY Given, ListSorted DEF KInv, Safe, TypeOK
<1>6. /\ Sorted(timerList)'
      /\ \A x : Contains(timerList, x) => Contains(timerList', x)
      /\ period[e] # 0 => Contains(timerList', e)
      /\ \A i \in 1 .. Len(timerList') :
            timerList'[i] = e \/ \E j \in 1 .. Len(timerList) : timerList'[i] = timerList[j]
  <2>1. CASE /\ trigger' = [trigger EXCEPT ![e] = t]
             /\ timerList' = CoreInsertEventTimer(timerList, e, t)
    <3>1. /\ Sorted(timerList)'
          /\ \E i \in 1 .. Len(timerList') : timerList'[i] = e
          /\ \A j \in 1 .. Len(timerList) : \E i \in 1 .. Len(timerList') : timerList'[i] = timerList[j]
          /\ \A i \in 1 .. Len(timerList') :
                timerList'[i] = e \/ \E j \in 1 .. Len(timerList) : timerList'[i] = timerList[j]
      BY <1>3, <1>4, <1>5, <2>1, InsertSorted
    <3> QED
      BY <3>1 DEF Contains
  <2>2. CASE period[e] = 0 /\ UNCHANGED <<trigger, timerList>>
    BY <1>5, <2>2 DEF Sorted
  <2> QED
    BY <1>2, <2>1, <2>2
<1>7. TimerListSorted'
  <2>1. \A i \in 1 .. Len(timerList') : timerList'[i] \in live /\ "TIMER" \in attr[timerList'[i]].type
    BY <1>3, <1>5, <1>6 DEF TimerListSorted
  <2>2. live' = live /\ attr' = attr
    BY <1>2 DEF dbVars
  <2> QED
    BY <1>6, <2>1, <2>2 DEF TimerListSorted, Sorted
<1>8. /\ QueueConsistent' /\ \A x : IsQueued(x) => IsQueued(x)'
      /\ \A x \in Events : signalCount'[x] = 1 /\ signalCount[x] # 1 => IsQueued(x)'
  <2>1. CASE SignalCheckTimer
    BY <1>2, <2>1, CheckTimerQueues DEF dbVars
  <2>2. CASE UNCHANGED eventVars
    BY <1>2, <2>2, SameQueues DEF dbVars, eventVars
  <2> QED
    BY <1>2, <2>1, <2>2
<1>9. CutTo(stack, stack', Len(stack) - 1) /\ Len(stack') > 0 /\ Len(stack) > 1
  <2>1. CutTo(stack, stack', Len(stack) - 1) /\ Len(stack) > 1 /\ Len(stack') = Len(stack) - 1
    BY <1>2, CutShapes, Given
  <2> QED
    BY <2>1, Given
<1>10. /\ Stays(stack, stack', Len(stack) - 1)
       /\ \A i \in Len(stack) - 1 + 1 .. Len(stack) : stack[i].pc = "rearm" /\ stack[i].ev = e
  BY <1>1, <1>2, <1>9, StaysCut, Given
<1>11. PairsOK(stack')
  BY <1>9, Given, PairsCut
<1>12. pending' \subseteq NotifyTpls
  <2>1. IInv'
    BY Given, CheckTimersRearmStep
  <2> QED
    BY <2>1 DEF IInv, TypeOK
<1>13. FramesSafe'
  <2>1. ASSUME NEW i \in 1 .. Len(stack) - 1
        PROVE  \A x : stack[i] = x => FrameSafe(x)'
    <3> TAKE x
    <3> HAVE stack[i] = x
    <3>1. FrameSafe(x) /\ (x.pc = "wait" => wait.status = "waiting")
      BY Given
    <3>2. CASE Plain(x)
      BY <1>2, <3>1, <3>2, PlainSafe DEF dbVars
    <3>3. CASE x.pc = "checkTimers"
      <4>1. x.tpl = TIMER
        BY <1>2, <3>3, Locked
      <4> QED
        BY <1>2, <1>12, <3>1, <3>3, <4>1, LockedSafe DEF dbVars, clockVars
    <3> QED
      BY <1>2, <3>2, <3>3, Locked
  <2> QED
    BY <1>9, <2>1, Given, FramesCut
<1>14. Passed'
  BY <1>2, <1>9, PassedCut
<1>15. NoLostNotification' /\ Listed'
  BY <1>2, <1>8, <1>10, Given, SignalsStay DEF TypeOK
<1>16. Noticed'
  <2>1. PICK i \in 1 .. Len(stack) - 1 : i = Len(stack) - 1 /\ stack[i].pc = "checkTimers"
    BY <1>2, Given DEF PairsOK
  <2>2. stack[i].ev = CheckTimer
    BY <2>1, Given DEF FrameSafe
  <2>3. i \in 1 .. Len(stack') /\ stack'[i] = stack[i]
    BY <1>9, <2>1 DEF CutTo
  <2> QED
    BY <2>1, <2>2, <2>3 DEF Noticed, OnStack
<1>17. PeriodicStaysArmed'
  <2> SUFFICES ASSUME NEW x \in live, period[x] # 0
               PROVE  Contains(timerList', x) \/ OnStack({"rearm"}, x)'
    BY <1>2 DEF PeriodicStaysArmed, dbVars
  <2>1. Contains(timerList, x) \/ OnStack({"rearm"}, x)
    BY DEF KInv, Safe, PeriodicStaysArmed
  <2>2. OnStack({"rearm"}, x) => x = e
    <3> SUFFICES ASSUME NEW i \in 1 .. Len(stack), stack[i].pc = "rearm", stack[i].ev = x, i # Len(stack)
                 PROVE  FALSE
      BY <1>1, Given DEF OnStack
    <3> QED
      BY <1>2, Locked, Given DEF Plain, Fragile
  <2> QED
    BY <1>6, <2>1, <2>2
<1>18. Present'
  BY <1>2, SamePresent DEF dbVars
<1>19. MaskedOnlyAtHigh'
  BY <1>2 DEF KInv, Safe, MaskedOnlyAtHigh, clockVars
<1> QED
  BY <1>7, <1>8, <1>11, <1>13, <1>14, <1>15, <1>16, <1>17, <1>18, <1>19 DEF Safe

LEMMA CheckTimersSignalSafe == ASSUME KInv, CheckTimersSignal PROVE Safe'
<1>1. PICK e, r, s : /\ e = Head(timerList) /\ r = Frame("rearm", TIMER, e, Top.n) /\ s = Append(stack, r)
  OBVIOUS
<1>2. /\ Top.pc = "checkTimers" /\ timerList # <<>> /\ CoreSignalEvent(s, TIMER, e)
      /\ timerList' = Tail(timerList)
      /\ UNCHANGED <<dbVars, trigger, period, clockVars, wait, calls>>
  BY <1>1 DEF CheckTimersSignal, At, Expired
<1>3. /\ timerList \in Seq(Events) /\ TimerListSorted /\ Len(timerList) \in Nat /\ Len(timerList) > 0
      /\ e = timerList[1]
      /\ timerList' \in Seq(Events) /\ Len(timerList') = Len(timerList) - 1
      /\ \A i \in 1 .. Len(timerList) - 1 : timerList'[i] = timerList[i + 1]
  <2>1. timerList \in Seq(Events) /\ TimerListSorted
    BY Given DEF KInv, Safe, TypeOK
  <2> QED
    BY <1>1, <1>2, <2>1, EmptySeq, LenProperties, HeadTailProperties
<1>4. e \in live /\ e \in Events /\ "TIMER" \in attr[e].type /\ \A i \in 1 .. Len(timerList') : timerList'[i] # e
  <2>1. e \in live /\ "TIMER" \in attr[e].type
    BY <1>3 DEF TimerListSorted
  <2>2. \A i \in 1 .. Len(timerList) - 1 : timerList[i + 1] # e
    BY <1>3 DEF TimerListSorted
  <2> QED
    BY <1>3, <2>1, <2>2, Given DEF TypeOK
<1>5. Top.tpl = TIMER /\ tpl = TIMER /\ masked = 0 /\ Top.n \in Nat /\ Top.ev = CheckTimer /\ Top.n = now
  <2>1. Top.tpl = TIMER /\ tpl = TIMER
    BY <1>2, Given DEF FrameOK, LevelOK
  <2>2. MaskedOnlyAtHigh /\ IInv
    BY DEF KInv, Safe
  <2> QED
    BY <1>2, <2>1, <2>2, Given, MaskedBelow DEF FrameSafe, FrameType, TIMER, HIGH
<1>6. r \in FrameType /\ r.pc = "rearm" /\ r.tpl = TIMER /\ r.ev = e
  BY <1>1, <1>4, <1>5, Levels DEF Frame, FrameType, Pcs
<1>7. /\ s \in Seq(FrameType) /\ s # <<>> /\ Len(s) = Len(stack) + 1 /\ Len(s) \in Nat
      /\ Grows(stack, s, Len(stack), r)
  <2>1. s \in Seq(FrameType) /\ s # <<>> /\ Len(s) = Len(stack) + 1 /\ Grows(stack, s, Len(stack), r)
    BY <1>1, <1>6, Given, GrowShapes, Levels
  <2> QED
    BY <2>1, Given
<1>8. /\ QueueConsistent'
      /\ \A x : IsQueued(x) => IsQueued(x)'
      /\ \A x \in Events : "SIGNAL" \in attr[x].type /\ signalCount'[x] = 1 /\ signalCount[x] # 1 =>
            IsQueued(x)' \/ OnStack({"group", "free"}, x)'
      /\ tpl' = HIGH /\ Len(stack') > 0 /\ At("restore")'
      /\ \/ CutTo(s, stack', Len(s))
         \/ /\ Grows(s, stack', Len(s), Frame("group", TIMER, e, 0))
            /\ "SIGNAL" \in attr[e].type /\ attr[e].group # NoGroup /\ pending' = pending
  <2>1. UNCHANGED <<live, attr>> /\ TIMER \in Tpls
    BY <1>2, Levels DEF dbVars
  <2> QED
    BY <1>2, <1>4, <1>7, <2>1, SignalQueues
<1>9. PICK g : g = Frame("group", TIMER, e, 0)
  OBVIOUS
<1>10. g.pc = "group" /\ g.tpl = TIMER /\ g.ev = e /\ g.n = 0
  BY <1>9 DEF Frame
<1>11. /\ \A i \in 1 .. Len(stack) - 1 : Plain(stack[i])
       /\ s[Len(stack)] = Top /\ s[Len(s)] = r
       /\ \A i \in 1 .. Len(stack) : s[i] = stack[i]
       /\ Stays(s, stack', Len(s)) /\ Stays(stack, stack', Len(stack))
  <2>1. \A i \in 1 .. Len(stack) - 1 : Plain(stack[i])
    BY <1>2, Underneath
  <2>2. s[Len(stack)] = Top /\ s[Len(s)] = r /\ \A i \in 1 .. Len(stack) : s[i] = stack[i]
    BY <1>7, Given DEF Grows
  <2>3. Stays(s, stack', Len(s))
    BY <1>7, <1>8, <1>9, StaysCut, StaysGrow
  <2>4. Stays(stack, stack', Len(stack))
    BY <1>7, <2>2, <2>3, Given DEF Stays
  <2> QED
    BY <2>1, <2>2, <2>3, <2>4
<1>12. PairsOK(stack')
  <2>1. PairsOK(s)
    <3>1. \A i \in 1 .. Len(stack) : Plain(stack[i]) \/ stack[i].pc = "checkTimers"
      BY <1>2, <1>11, Given
    <3> QED
      BY <1>2, <1>6, <1>7, <3>1, Given, PairsGrow DEF Closing
  <2>2. CASE CutTo(s, stack', Len(s))
    BY <1>7, <2>1, <2>2, PairsCut
  <2>3. CASE Grows(s, stack', Len(s), g)
    <3>1. \A i \in 1 .. Len(s) : Plain(s[i]) \/ s[i].pc \in {"rearm", "checkTimers"}
      <4> TAKE i \in 1 .. Len(s)
      <4>1. i \in 1 .. Len(stack) - 1 \/ i = Len(stack) \/ i = Len(s)
        BY <1>7, Given
      <4>2. i \in 1 .. Len(stack) - 1 => s[i] = stack[i] /\ Plain(stack[i])
        BY <1>11, Given
      <4> QED
        BY <1>2, <1>6, <1>11, <4>1, <4>2
    <3> QED
      BY <1>7, <1>10, <2>1, <2>3, <3>1, PairsGrow DEF Closing
  <2> QED
    BY <1>8, <1>9, <2>2, <2>3
<1>13. pending' \subseteq NotifyTpls /\ masked' = 0 /\ Quiet(TIMER)'
  <2>1. IInv'
    BY Given, CheckTimersSignalStep
  <2>2. pending' \subseteq NotifyTpls
    BY <2>1 DEF IInv, TypeOK
  <2> QED
    BY <1>2, <1>5, <2>2, Levels DEF Quiet, clockVars
<1>14. FramesSafe'
  <2>1. ASSUME NEW i \in 1 .. Len(s)
        PROVE  \A x : s[i] = x => FrameSafe(x)'
    <3> TAKE x
    <3> HAVE s[i] = x
    <3>1. CASE i \in 1 .. Len(stack) - 1
      <4>1. Plain(x) /\ FrameSafe(x) /\ (x.pc = "wait" => wait.status = "waiting")
        BY <1>11, <3>1, Given
      <4> QED
        BY <1>2, <4>1, PlainSafe DEF dbVars
    <3>2. CASE i = Len(stack)
      <4>1. x = Top /\ FrameSafe(x)
        BY <1>11, <3>2, Given
      <4> QED
        BY <1>2, <1>5, <1>13, <4>1, Given, LockedSafe DEF dbVars, clockVars
    <3>3. CASE i = Len(s)
      <4>1. x = r
        BY <1>11, <3>3
      <4> QED
        BY <1>2, <1>4, <1>6, <1>13, <4>1 DEF FrameSafe, Closing, dbVars
    <3> QED
      BY <1>7, <3>1, <3>2, <3>3
  <2>2. CASE CutTo(s, stack', Len(s))
    BY <1>7, <2>1, <2>2, FramesCut
  <2>3. CASE Grows(s, stack', Len(s), g) /\ "SIGNAL" \in attr[e].type /\ attr[e].group # NoGroup
    <3>1. FrameSafe(g)'
      BY <1>2, <1>4, <1>10, <1>13, <2>3 DEF FrameSafe, Closing, dbVars
    <3> QED
      BY <1>7, <2>1, <2>3, <3>1, FramesGrow
  <2> QED
    BY <1>8, <1>9, <2>2, <2>3
<1>15. Passed'
  BY <1>8 DEF Passed, At
<1>16. \A i \in Len(stack) + 1 .. Len(stack) : FALSE
  BY Given
<1>17. NoLostNotification' /\ Listed'
  BY <1>2, <1>8, <1>11, <1>16, Given, SignalsStay DEF TypeOK
<1>18. TimerListSorted'
  <2>1. ASSUME NEW i \in 1 .. Len(timerList) - 1
        PROVE  /\ timerList[i + 1] \in live /\ "TIMER" \in attr[timerList[i + 1]].type
               /\ \A j \in 1 .. i - 1 : /\ timerList[j + 1] # timerList[i + 1]
                                         /\ trigger[timerList[j + 1]] <= trigger[timerList[i + 1]]
    BY <1>3 DEF TimerListSorted
  <2>2. ASSUME NEW i \in 1 .. Len(timerList')
        PROVE  /\ timerList'[i] \in live /\ "TIMER" \in attr[timerList'[i]].type
               /\ \A j \in 1 .. i - 1 : /\ timerList'[j] # timerList'[i]
                                         /\ trigger[timerList'[j]] <= trigger[timerList'[i]]
    <3>1. /\ i \in 1 .. Len(timerList) - 1 /\ timerList'[i] = timerList[i + 1]
          /\ \A j \in 1 .. i - 1 : timerList'[j] = timerList[j + 1]
      BY <1>3
    <3> QED
      BY <2>1, <3>1
  <2>3. live' = live /\ attr' = attr /\ trigger' = trigger
    BY <1>2 DEF dbVars
  <2> QED
    BY <2>2, <2>3 DEF TimerListSorted
<1>19. Noticed'
  <2>1. Len(stack) \in 1 .. Len(stack') /\ stack'[Len(stack)] = Top
    BY <1>11, Given DEF Stays
  <2> QED
    BY <1>2, <1>5, <2>1 DEF Noticed, OnStack
<1>20. PeriodicStaysArmed'
  <2> SUFFICES ASSUME NEW x \in live, period[x] # 0
               PROVE  Contains(timerList', x) \/ OnStack({"rearm"}, x)'
    BY <1>2 DEF PeriodicStaysArmed, dbVars
  <2>1. Contains(timerList, x) \/ OnStack({"rearm"}, x)
    BY DEF KInv, Safe, PeriodicStaysArmed
  <2>2. OnStack({"rearm"}, x) => OnStack({"rearm"}, x)'
    BY <1>11, <1>16, Given, StillOn
  <2>3. Contains(timerList, x) => x = e \/ Contains(timerList', x)
    <3> SUFFICES ASSUME NEW i \in 1 .. Len(timerList), timerList[i] = x, x # e
                 PROVE  \E j \in 1 .. Len(timerList') : timerList'[j] = x
      BY DEF Contains
    <3>1. i - 1 \in 1 .. Len(timerList') /\ timerList'[i - 1] = timerList[i]
      BY <1>3
    <3> QED
      BY <3>1
  <2>4. OnStack({"rearm"}, e)'
    <3>1. Len(s) \in 1 .. Len(stack') /\ stack'[Len(s)] = r
      BY <1>7, <1>11 DEF Stays
    <3> QED
      BY <1>6, <3>1 DEF OnStack
  <2> QED
    BY <2>1, <2>2, <2>3, <2>4
<1>21. Present'
  BY <1>2, SamePresent DEF dbVars
<1>22. MaskedOnlyAtHigh'
  BY <1>8 DEF MaskedOnlyAtHigh
<1> QED
  BY <1>8, <1>12, <1>14, <1>15, <1>17, <1>18, <1>19, <1>20, <1>21, <1>22 DEF Safe

-----------------------------------------------------------------------------
(* The services. *)

(* A service that signals, lets time pass or calls out.                    *)
LEMMA ServiceSafe ==
    ASSUME KInv, NEW m, Stays(stack, stack', m), PairsOK(stack)', FramesSafe', Passed',
           UNCHANGED <<dbVars, timerVars>>,
           \A i \in m + 1 .. Len(stack) :
               stack[i].pc \notin {"group", "free", "start", "checkTimers", "rearm"},
           QueueConsistent', \A x : IsQueued(x) => IsQueued(x)',
           \A x \in Events : "SIGNAL" \in attr[x].type /\ signalCount'[x] = 1 /\ signalCount[x] # 1 =>
               IsQueued(x)' \/ OnStack({"group", "free"}, x)',
           now' = now \/ Noticed',
           wait'.status = "waiting" => wait.status = "waiting" /\ wait'.evs = wait.evs,
           MaskedOnlyAtHigh'
    PROVE  Safe'
<1>1. NoLostNotification' /\ Listed'
  <2>1. live \subseteq Events
    BY Given DEF TypeOK
  <2> QED
    BY <2>1, SignalsStay
<1>2. TimerListSorted' /\ PeriodicStaysArmed'
  BY SameArmed DEF dbVars, timerVars
<1>3. Noticed'
  <2>1. CASE now' = now
    BY <2>1, SameTimers DEF dbVars
  <2> QED
    BY <2>1
<1>4. Present'
  BY SamePresent DEF dbVars
<1> QED
  BY <1>1, <1>2, <1>3, <1>4 DEF Safe

LEMMA CheckDecideSafe == ASSUME KInv, CheckDecide PROVE Safe'
<1>1. PICK e : e = Top.ev
  OBVIOUS
<1>2. PICK n \in {0, 1} : \E f :
        /\ f = [Top EXCEPT !.pc = "checkReturn", !.n = n]
        /\ stack' = Append(Front(stack), f) \/ stack' = Restore(Append(Front(stack), f), tpl)
        /\ tpl' = HIGH \/ tpl' = tpl
        /\ \/ /\ signalCount' = [signalCount EXCEPT ![e] = 0]
              /\ UNCHANGED <<pending, queue, now>>
           \/ CoreTimerTick(PollTick)
           \/ UNCHANGED <<eventVars, now>>
  BY <1>1 DEF CheckDecide, Below
<1>2a. PICK f :
        /\ f = [Top EXCEPT !.pc = "checkReturn", !.n = n]
        /\ stack' = Append(Front(stack), f) \/ stack' = Restore(Append(Front(stack), f), tpl)
        /\ tpl' = HIGH \/ tpl' = tpl
        /\ \/ /\ signalCount' = [signalCount EXCEPT ![e] = 0]
              /\ UNCHANGED <<pending, queue, now>>
           \/ CoreTimerTick(PollTick)
           \/ UNCHANGED <<eventVars, now>>
  BY <1>2
<1>3. Top.pc = "check" /\ UNCHANGED <<dbVars, timerVars, masked, wait, calls>>
  BY DEF CheckDecide, At
<1>4. f \in FrameType /\ f.pc = "checkReturn" /\ f.ev = e /\ f.tpl = Top.tpl /\ e \in live
  <2>1. Top \in FrameType /\ n \in Nat /\ FrameSafe(Top)
    BY Given
  <2>2. f \in FrameType /\ f.pc = "checkReturn" /\ f.ev = Top.ev /\ f.tpl = Top.tpl
    BY <1>2a, <2>1 DEF FrameType, Pcs
  <2> QED
    BY <1>1, <1>3, <2>1, <2>2 DEF FrameSafe
<1>5. Grows(stack, stack', Len(stack) - 1, f)
  BY <1>2a, <1>4, GrowShapes, Given
<1>6. PairsOK(stack)' /\ FramesSafe' /\ Passed'
  <2>1. \A i \in 1 .. Len(stack) - 1 : Plain(stack[i])
    BY <1>3, Underneath
  <2>2. \A i \in 1 .. Len(stack) - 1 : stack[i].pc = "wait" => wait'.status = "waiting"
    BY <1>3, Given
  <2>3. FrameSafe(f)'
    BY <1>3, <1>4 DEF FrameSafe, Waits, Plain, Fragile, Closing, dbVars
  <2> QED
    BY <1>3, <1>4, <1>5, <2>1, <2>2, <2>3, PlainGrow DEF dbVars, Closing
<1>7. /\ Stays(stack, stack', Len(stack) - 1)
      /\ \A i \in Len(stack) - 1 + 1 .. Len(stack) : stack[i].pc = "check"
  BY <1>3, <1>5, StaysGrow, Given
<1>8. /\ QueueConsistent' /\ \A x : IsQueued(x) => IsQueued(x)'
      /\ \A x \in Events : signalCount'[x] = 1 /\ signalCount[x] # 1 => IsQueued(x)'
      /\ now' = now \/ Noticed'
  <2>1. CASE signalCount' = [signalCount EXCEPT ![e] = 0] /\ UNCHANGED <<pending, queue, now>>
    <3>1. \A x \in Events : signalCount'[x] = 1 /\ signalCount[x] # 1 => FALSE
      BY <2>1, Given DEF TypeOK
    <3> QED
      BY <1>3, <2>1, <3>1, SameQueues DEF dbVars
  <2>2. CASE CoreTimerTick(PollTick)
    <3>1. PollTick \in Nat /\ UNCHANGED <<live, attr, timerVars>>
      BY <1>3, EventCoreAssumption DEF dbVars
    <3> QED
      BY <2>2, <3>1, TickQueues
  <2>3. CASE UNCHANGED <<eventVars, now>>
    BY <1>3, <2>3, SameQueues DEF dbVars, eventVars
  <2> QED
    BY <1>2a, <2>1, <2>2, <2>3
<1>9. MaskedOnlyAtHigh'
  BY <1>2a, <1>3 DEF KInv, Safe, MaskedOnlyAtHigh
<1> QED
  BY <1>3, <1>6, <1>7, <1>8, <1>9, ServiceSafe

LEMMA CheckReturnSafe == ASSUME KInv, CheckReturn PROVE Safe'
<1>1. /\ Top.pc = "checkReturn" /\ stack' = Front(stack)
      /\ UNCHANGED <<tpl, eventVars, dbVars, timerVars, clockVars, wait, calls>>
  BY DEF CheckReturn, At, Below
<1> QED
  BY <1>1, PopSafe, Given

(* The frame of a wait lies on the harness' own.                           *)
LEMMA OneWait ==
    ASSUME KInv, NEW k \in 1 .. Len(stack), stack[k].pc = "wait"
    PROVE  k = 2 /\ \A i \in 1 .. Len(stack) : i # k => stack[i].pc # "wait"
BY Given DEF PairsOK

LEMMA WaitCheckedSafe == ASSUME KInv, WaitChecked PROVE Safe'
<1>1. /\ Top.pc = "checkReturn" /\ Len(stack) > 1 /\ stack[Len(stack) - 1].pc = "wait"
      /\ UNCHANGED <<tpl, eventVars, dbVars, timerVars, clockVars, calls>>
  BY DEF WaitChecked, InWait, At
<1>2. Len(stack) = 3 /\ \A i \in 1 .. Len(stack) : i # Len(stack) - 1 => stack[i].pc # "wait"
  <2>1. PICK k \in 1 .. Len(stack) : k = Len(stack) - 1 /\ stack[k].pc = "wait"
    BY <1>1, Given
  <2>2. k = 2 /\ \A i \in 1 .. Len(stack) : i # k => stack[i].pc # "wait"
    BY <2>1, OneWait
  <2> QED
    BY <2>1, <2>2, Given
<1>3. CASE stack' = Front(stack) /\ wait' = [wait EXCEPT !.idx = @ + 1]
  <2>1. wait'.status = wait.status /\ wait'.evs = wait.evs
    BY <1>3, Given DEF TypeOK
  <2> QED
    BY <1>1, <1>3, <2>1, PopSafe, Given
<1>4. CASE stack' = SubSeq(stack, 1, Len(stack) - 2) /\ wait' = [wait EXCEPT !.status = "SUCCESS"]
  <2>1. wait'.status = "SUCCESS"
    BY <1>4, Given DEF TypeOK
  <2>2. Len(stack') = 1 /\ stack'[1] = stack[1]
    <3>1. stack' = SubSeq(stack, 1, 1) /\ stack[1] \in FrameType
      BY <1>2, <1>4, Given
    <3> QED
      BY <3>1, SubSeqProperties, Given
  <2>3. CutTo(stack, stack', 1)
    BY <1>2, <2>2 DEF CutTo
  <2>4. \A i \in 1 .. 1 : stack[i].pc = "wait" => wait'.status = "waiting"
    BY <1>2
  <2>5. \A i \in 1 + 1 .. Len(stack) : stack[i].pc \notin {"group", "free", "start", "checkTimers", "rearm"}
    BY <1>1, <1>2, Given
  <2>6. MaskedOnlyAtHigh'
    BY <1>1 DEF KInv, Safe, MaskedOnlyAtHigh, clockVars
  <2>7. /\ UNCHANGED <<queue, signalCount, dbVars, timerVars, now, masked>>
        /\ pending' \subseteq pending /\ \A p \in pending : p \in pending' \/ queue[p] = <<>>
        /\ 1 # Len(stack) /\ Len(stack') > 0
    BY <1>1, <1>2, <2>2 DEF eventVars, clockVars
  <2> QED
    BY <2>1, <2>3, <2>4, <2>5, <2>6, <2>7, CutStep
<1> QED
  BY <1>3, <1>4 DEF WaitChecked, Below

(* CoreCheckEvent, called by plain code.                                   *)
LEMMA CheckCallSafe ==
    ASSUME KInv, \A i \in 1 .. Len(stack) : Plain(stack[i]), Top.pc # "restore", NEW e \in live,
           CheckCall(stack, e), UNCHANGED <<signalCount, dbVars, timerVars, clockVars, wait>>
    PROVE  Safe'
<1>1. PICK f : f = Frame("check", tpl, e, 0)
  OBVIOUS
<1>2. f \in FrameType /\ f.pc = "check" /\ f.ev = e
  BY <1>1, Given DEF Frame, FrameType, Pcs, TypeOK
<1>3. /\ stack' = Append(stack, f) \/ stack' = Restore(Append(stack, f), tpl)
      /\ tpl' = HIGH \/ tpl' = tpl
      /\ \/ CoreNotifyEvent(e) /\ "WAIT" \in attr[e].type
         \/ UNCHANGED <<pending, queue>>
  BY <1>1 DEF CheckCall
<1>4. Grows(stack, stack', Len(stack), f)
  BY <1>2, <1>3, GrowShapes, Given
<1>5. PairsOK(stack)' /\ FramesSafe' /\ Passed'
  <2>1. \A i \in 1 .. Len(stack) : stack[i].pc = "wait" => wait'.status = "waiting"
    BY Given
  <2>2. FrameSafe(f)'
    BY <1>2 DEF FrameSafe, Waits, Plain, Fragile, Closing, dbVars
  <2> QED
    BY <1>2, <1>4, <2>1, <2>2, PlainGrow DEF dbVars, Closing
<1>6. Stays(stack, stack', Len(stack)) /\ \A i \in Len(stack) + 1 .. Len(stack) : FALSE
  BY <1>4, StaysGrow, Given
<1>7. QueueConsistent' /\ \A x : IsQueued(x) => IsQueued(x)'
  <2>1. CASE CoreNotifyEvent(e) /\ "WAIT" \in attr[e].type
    <3>1. NeedsNotify(attr[e])
      BY <2>1 DEF NeedsNotify
    <3> QED
      BY <2>1, <3>1, NotifyQueues DEF dbVars
  <2>2. CASE UNCHANGED <<pending, queue>>
    BY <2>2, SameQueues DEF dbVars
  <2> QED
    BY <1>3, <2>1, <2>2
<1>8. MaskedOnlyAtHigh'
  BY <1>3 DEF KInv, Safe, MaskedOnlyAtHigh, clockVars
<1> QED
  BY <1>5, <1>6, <1>7, <1>8, ServiceSafe DEF clockVars

(* CoreSignalEvent, called by plain code.                                  *)
LEMMA SignalSafe ==
    ASSUME KInv, \A i \in 1 .. Len(stack) : Plain(stack[i]), Top.pc # "restore", NEW e \in live,
           CoreSignalEvent(stack, tpl, e), UNCHANGED <<dbVars, timerVars, clockVars>>,
           wait'.status = wait.status, wait'.evs = wait.evs
    PROVE  Safe'
<1>1. PICK f : f = Frame("group", tpl, e, 0)
  OBVIOUS
<1>2. f \in FrameType /\ f.pc = "group" /\ f.ev = e /\ f.tpl = tpl /\ f.n = 0
  BY <1>1, Given DEF Frame, FrameType, Pcs, TypeOK
<1>3. /\ QueueConsistent'
      /\ \A x : IsQueued(x) => IsQueued(x)'
      /\ \A x \in Events : "SIGNAL" \in attr[x].type /\ signalCount'[x] = 1 /\ signalCount[x] # 1 =>
            IsQueued(x)' \/ OnStack({"group", "free"}, x)'
      /\ tpl' = HIGH /\ Len(stack') > 0
      /\ \/ CutTo(stack, stack', Len(stack))
         \/ /\ Grows(stack, stack', Len(stack), f)
            /\ "SIGNAL" \in attr[e].type /\ attr[e].group # NoGroup /\ pending' = pending
  <2>1. UNCHANGED <<live, attr>>
    BY DEF dbVars
  <2> QED
    BY <1>1, <2>1, Given, SignalQueues
<1>4. \A i \in 1 .. Len(stack) : stack[i].pc = "wait" => wait'.status = "waiting"
  BY Given
<1>5. PairsOK(stack)' /\ FramesSafe' /\ Passed' /\ Stays(stack, stack', Len(stack))
  <2>1. CASE CutTo(stack, stack', Len(stack))
    BY <1>3, <1>4, <2>1, PlainCut, StaysCut DEF dbVars
  <2>2. CASE /\ Grows(stack, stack', Len(stack), f)
             /\ "SIGNAL" \in attr[e].type /\ attr[e].group # NoGroup /\ pending' = pending
    <3>1. Quiet(tpl) /\ MaskedOnlyAtHigh
      BY Given DEF KInv, Safe
    <3>2. FrameSafe(f)'
      BY <1>2, <2>2, <3>1 DEF FrameSafe, Closing, dbVars, clockVars, MaskedOnlyAtHigh, Quiet
    <3> QED
      BY <1>2, <1>4, <2>2, <3>2, PlainGrow, StaysGrow, Given DEF dbVars, Closing
  <2> QED
    BY <1>3, <2>1, <2>2
<1>6. MaskedOnlyAtHigh'
  BY <1>3 DEF MaskedOnlyAtHigh
<1>7. \A i \in Len(stack) + 1 .. Len(stack) : FALSE
  BY Given
<1> QED
  BY <1>3, <1>5, <1>6, <1>7, ServiceSafe DEF clockVars

LEMMA WaitCheckSafe == ASSUME KInv, WaitCheck PROVE Safe'
<1>1. /\ Top.pc = "wait" /\ wait.idx <= Len(wait.evs)
      /\ UNCHANGED <<signalCount, dbVars, timerVars, clockVars, calls>>
  BY DEF WaitCheck, At
<1>2. PICK e : e = wait.evs[wait.idx]
  OBVIOUS
<1>3. wait.status = "waiting" /\ wait.idx \in 1 .. Len(wait.evs)
  <2>1. wait.idx \in Nat \ {0} /\ wait.evs \in Seq(UserEvents)
    BY Given DEF TypeOK
  <2> QED
    BY <1>1, <2>1, Given, LenProperties DEF FrameSafe
<1>4. e \in live
  BY <1>2, <1>3 DEF KInv, Safe, Present
<1>5. CASE /\ stack' = Front(stack) /\ wait' = [wait EXCEPT !.status = "INVALID_PARAMETER"]
           /\ UNCHANGED <<tpl, pending, queue>>
  <2>1. wait'.status = "INVALID_PARAMETER"
    BY <1>5, Given DEF TypeOK
  <2>2. \A i \in 1 .. Len(stack) - 1 : stack[i].pc # "wait"
    BY <1>1, OneWait, Given
  <2> QED
    BY <1>1, <1>5, <2>1, <2>2, PopSafe, Given DEF eventVars
<1>6. CASE CheckCall(stack, e) /\ UNCHANGED wait
  <2>1. \A i \in 1 .. Len(stack) : Plain(stack[i])
    BY <1>1, Underneath DEF Fragile
  <2> QED
    BY <1>1, <1>4, <1>6, <2>1, CheckCallSafe
<1> QED
  BY <1>2, <1>5, <1>6 DEF WaitCheck, Below

LEMMA WaitIdleSafe == ASSUME KInv, WaitIdle PROVE Safe'
<1>1. /\ Top.pc = "wait" /\ wait' = [wait EXCEPT !.iter = @ + 1, !.idx = 1]
      /\ CoreSignalEvent(stack, tpl, Idle) /\ UNCHANGED <<dbVars, timerVars, clockVars, calls>>
  BY DEF WaitIdle, At
<1>2. \A i \in 1 .. Len(stack) : Plain(stack[i])
  BY <1>1, Underneath DEF Fragile
<1>3. Idle \in live
  BY DEF KInv, Safe, Present
<1>4. wait'.status = wait.status /\ wait'.evs = wait.evs
  BY <1>1, Given DEF TypeOK
<1> QED
  BY <1>1, <1>2, <1>3, <1>4, SignalSafe

LEMMA WaitGiveUpSafe == ASSUME KInv, WaitGiveUp PROVE Safe'
<1>1. /\ Top.pc = "wait" /\ stack' = Front(stack) /\ wait' = [wait EXCEPT !.status = "SUCCESS", !.idx = 1]
      /\ UNCHANGED <<tpl, eventVars, dbVars, timerVars, clockVars, calls>>
  BY DEF WaitGiveUp, At, Below
<1>2. wait'.status = "SUCCESS"
  BY <1>1, Given DEF TypeOK
<1>3. \A i \in 1 .. Len(stack) - 1 : stack[i].pc # "wait"
  BY <1>1, OneWait, Given
<1> QED
  BY <1>1, <1>2, <1>3, PopSafe, Given

LEMMA AdvanceForceSafe == ASSUME KInv, AdvanceForce PROVE Safe'
<1>1. /\ Top.pc = "force" /\ UNCHANGED <<eventVars, dbVars, timerVars, clockVars, wait, calls>>
      /\ stack' = Front(stack) \/ \E t \in Tpls : stack' = Restore(Front(stack), t)
      /\ tpl' = tpl \/ tpl' = HIGH
  BY Given DEF AdvanceForce, At, Below
<1> QED
  BY <1>1, PopSafe, Given

-----------------------------------------------------------------------------
(* CoreCloseEvent. *)

LEMMA CloseUnlinkSafe == ASSUME KInv, CloseUnlink PROVE Safe'
<1>1. PICK e, f : e = Top.ev /\ f = [Top EXCEPT !.pc = "free"]
  OBVIOUS
<1>2. /\ Top.pc = "unlink"
      /\ queue' = [p \in NotifyTpls |-> RemoveFirst(queue[p], e)]
      /\ signalList' = RemoveFirst(signalList, e)
      /\ stack' = Restore(Append(Front(stack), f), tpl) /\ tpl' = HIGH
      /\ UNCHANGED <<pending, signalCount, live, attr, timerVars, clockVars, wait, calls>>
  BY <1>1 DEF CloseUnlink, At, Below
<1>3. /\ e \in live /\ e \in UserEvents /\ e # CheckTimer /\ e \in Events
      /\ f \in FrameType /\ f.pc = "free" /\ f.ev = e /\ f.tpl = Top.tpl
  <2>1. e \in live \cap UserEvents
    BY <1>1, <1>2, Given DEF IInv, CloseOK, Closing
  <2>2. f \in FrameType /\ f.pc = "free" /\ f.ev = e /\ f.tpl = Top.tpl
    BY <1>1, Given DEF FrameType, Pcs
  <2> QED
    BY <2>1, <2>2, EventCoreAssumption DEF Events
<1>4. Grows(stack, stack', Len(stack) - 1, f)
  BY <1>2, <1>3, GrowShapes, Given
<1>5. /\ queue \in [NotifyTpls -> Seq(Events)] /\ signalList \in Seq(Events) /\ QueueConsistent
  BY Given DEF TypeOK, KInv, Safe
<1>6. ASSUME NEW p \in NotifyTpls
      PROVE  /\ Distinct(queue'[p]) /\ queue'[p] \in Seq(Events) /\ Len(queue'[p]) \in Nat
             /\ \A i \in 1 .. Len(queue'[p]) :
                   queue'[p][i] # e /\ \E j \in 1 .. Len(queue[p]) : queue'[p][i] = queue[p][j]
             /\ \A i \in 1 .. Len(queue[p]) : queue[p][i] # e =>
                   \E j \in 1 .. Len(queue'[p]) : queue'[p][j] = queue[p][i]
  <2>1. PICK q : q = queue[p]
    OBVIOUS
  <2>2. q \in Seq(Events) /\ Len(q) \in Nat /\ queue'[p] = RemoveFirst(q, e)
    BY <1>2, <1>5, <2>1, LenProperties
  <2>3. \A i \in 1 .. Len(q) : \A j \in 1 .. i - 1 : q[j] # q[i]
    BY <1>5, <2>1 DEF QueueConsistent
  <2>4. \A i, j \in 1 .. Len(q) : i = j \/ i \in 1 .. j - 1 \/ j \in 1 .. i - 1
    BY <2>2
  <2>5. Distinct(q)
    BY <2>3, <2>4 DEF Distinct
  <2>6. /\ RemoveFirst(q, e) \in Seq(Events) /\ Distinct(RemoveFirst(q, e))
        /\ \A i \in 1 .. Len(RemoveFirst(q, e)) :
              RemoveFirst(q, e)[i] # e /\ \E j \in 1 .. Len(q) : RemoveFirst(q, e)[i] = q[j]
    BY <2>2, <2>5, RemoveFirstProperties
  <2>7. \A i \in 1 .. Len(q) : q[i] # e =>
           \E j \in 1 .. Len(RemoveFirst(q, e)) : RemoveFirst(q, e)[j] = q[i]
    BY <2>2, RemoveFirstKeeps
  <2>8. Len(RemoveFirst(q, e)) \in Nat
    BY <2>6, LenProperties
  <2> DEFINE Pruned(r, o) ==
        /\ Distinct(r) /\ r \in Seq(Events) /\ Len(r) \in Nat
        /\ \A i \in 1 .. Len(r) : r[i] # e /\ \E j \in 1 .. Len(o) : r[i] = o[j]
        /\ \A i \in 1 .. Len(o) : o[i] # e => \E j \in 1 .. Len(r) : r[j] = o[i]
  <2>9. Pruned(RemoveFirst(q, e), q)
    BY <2>6, <2>7, <2>8
  <2> HIDE DEF Pruned
  <2>10. Pruned(queue'[p], queue[p])
    BY <2>1, <2>2, <2>9
  <2> QED
    BY <2>10 DEF Pruned
<1>7. QueueConsistent'
  <2>0. pending' = pending /\ live' = live /\ attr' = attr
    BY <1>2
  <2> SUFFICES ASSUME NEW p \in NotifyTpls
               PROVE  /\ queue'[p] # <<>> => p \in pending'
                      /\ \A i \in 1 .. Len(queue'[p]) :
                            /\ queue'[p][i] \in live'
                            /\ attr'[queue'[p][i]].tpl = p
                            /\ \A j \in 1 .. i - 1 : queue'[p][j] # queue'[p][i]
    BY DEF QueueConsistent
  <2>1. queue'[p] # <<>> => p \in pending
    <3> SUFFICES ASSUME queue'[p] # <<>> PROVE p \in pending
      OBVIOUS
    <3>1. 1 \in 1 .. Len(queue'[p])
      BY <1>6, EmptySeq
    <3>2. \E j \in 1 .. Len(queue[p]) : TRUE
      BY <1>6, <3>1
    <3>3. queue[p] # <<>>
      BY <1>5, <3>2
    <3> QED
      BY <1>5, <3>3 DEF QueueConsistent
  <2>2. \A i \in 1 .. Len(queue'[p]) : queue'[p][i] \in live /\ attr[queue'[p][i]].tpl = p
    BY <1>5, <1>6 DEF QueueConsistent
  <2>3. ASSUME NEW i \in 1 .. Len(queue'[p]), NEW j \in 1 .. i - 1 PROVE queue'[p][j] # queue'[p][i]
    <3>1. j \in 1 .. Len(queue'[p]) /\ j # i
      BY <1>6, <2>3
    <3> QED
      BY <1>6, <3>1 DEF Distinct
  <2> QED
    BY <2>0, <2>1, <2>2, <2>3
<1>8. \A x : x # e /\ IsQueued(x) => IsQueued(x)'
  <2> TAKE x
  <2> HAVE x # e /\ IsQueued(x)
  <2>1. PICK p \in NotifyTpls : \E i \in 1 .. Len(queue[p]) : queue[p][i] = x
    BY DEF IsQueued, Contains
  <2>2. PICK i \in 1 .. Len(queue[p]) : queue[p][i] = x
    BY <2>1
  <2>3. queue[p][i] # e
    BY <2>2
  <2>4. \E j \in 1 .. Len(queue'[p]) : queue'[p][j] = queue[p][i]
    BY <1>6, <2>1, <2>3
  <2> QED
    BY <2>2, <2>4 DEF IsQueued, Contains
<1>9. ~IsQueued(e)'
  BY <1>6 DEF IsQueued, Contains
<1>10. /\ \A i \in 1 .. Len(stack) - 1 : Plain(stack[i])
       /\ Stays(stack, stack', Len(stack) - 1)
       /\ \A i \in Len(stack) - 1 + 1 .. Len(stack) : stack[i].pc = "unlink"
       /\ Len(stack) \in 1 .. Len(stack') /\ stack'[Len(stack)] = f
  <2>1. \A i \in 1 .. Len(stack) - 1 : Plain(stack[i])
    BY <1>2, Underneath
  <2>2. Len(stack) \in 1 .. Len(stack') /\ stack'[Len(stack)] = f
    BY <1>4, Given DEF Grows
  <2> QED
    BY <1>2, <1>4, <2>1, <2>2, Given, StaysGrow
<1>11. PairsOK(stack)' /\ FramesSafe' /\ Passed'
  <2>1. FrameSafe(f)'
    <3>1. FrameSafe(Top) /\ Waits(Top)
      BY <1>2, Given DEF Waits, Plain, Fragile
    <3> QED
      BY <1>1, <1>2, <1>3, <1>9, <3>1 DEF FrameSafe, Waits, Closing, Quiet, clockVars, timerVars
  <2>2. \A i \in 1 .. Len(stack) - 1 : stack[i].pc \in {"check", "checkReturn"} => stack[i].ev # f.ev
    <3>1. Top.pc \in Closing /\ Len(stack) \in 1 .. Len(stack)
      BY <1>2, Given DEF Closing
    <3> QED
      BY <1>1, <1>3, <3>1, Given DEF PairsOK
  <2>3. \A i \in 1 .. Len(stack) - 1 : stack[i].pc = "wait" => wait'.status = "waiting"
    BY <1>2, Given
  <2> QED
    BY <1>2, <1>3, <1>4, <1>10, <2>1, <2>2, <2>3, PlainGrow
<1>12. /\ \A pcs : "unlink" \notin pcs => \A x : OnStack(pcs, x) => OnStack(pcs, x)'
       /\ OnStack({"group", "free"}, e)' /\ OnStack({"free"}, e)'
  <2>1. ASSUME NEW pcs, "unlink" \notin pcs PROVE \A x : OnStack(pcs, x) => OnStack(pcs, x)'
    BY <1>10, <2>1, Given, StillOn
  <2>2. OnStack({"group", "free"}, e)' /\ OnStack({"free"}, e)'
    BY <1>3, <1>10 DEF OnStack
  <2> QED
    BY <2>1, <2>2
<1>13. NoLostNotification'
  <2>1. \A x : OnStack({"group", "free"}, x) => OnStack({"group", "free"}, x)'
    BY <1>12
  <2> QED
    BY <1>2, <1>8, <1>12, <2>1 DEF KInv, Safe, NoLostNotification
<1>14. Listed'
  <2>1. \A x : OnStack({"free"}, x) => OnStack({"free"}, x)'
    BY <1>12
  <2>2. \A k \in 1 .. Len(signalList) : signalList[k] # e =>
           \E j \in 1 .. Len(signalList') : signalList'[j] = signalList[k]
    BY <1>2, <1>5, RemoveFirstKeeps
  <2> SUFFICES ASSUME NEW x \in live, "SIGNAL" \in attr[x].type
               PROVE  (\E k \in 1 .. Len(signalList') : signalList'[k] = x) \/ OnStack({"free"}, x)'
    BY <1>2 DEF Listed
  <2>3. (\E k \in 1 .. Len(signalList) : signalList[k] = x) \/ OnStack({"free"}, x)
    BY DEF KInv, Safe, Listed
  <2> QED
    BY <1>12, <2>1, <2>2, <2>3
<1>15. TimerListSorted' /\ Noticed' /\ PeriodicStaysArmed'
  <2>1. IsQueued(CheckTimer) => IsQueued(CheckTimer)'
    BY <1>3, <1>8
  <2> QED
    BY <1>2, <1>10, <2>1, SameTimers DEF clockVars
<1>16. Present'
  BY <1>2, SamePresent
<1>17. MaskedOnlyAtHigh'
  BY <1>2 DEF MaskedOnlyAtHigh
<1> QED
  BY <1>7, <1>11, <1>13, <1>14, <1>15, <1>16, <1>17 DEF Safe

LEMMA CloseFreeSafe == ASSUME KInv, CloseFree PROVE Safe'
<1>1. PICK e : e = Top.ev
  OBVIOUS
<1>2. /\ Top.pc = "free" /\ live' = live \ {e} /\ stack' = Front(stack)
      /\ UNCHANGED <<tpl, eventVars, signalList, attr, timerVars, clockVars, wait, calls>>
  BY <1>1 DEF CloseFree, At, Below
<1>3. /\ e \in UserEvents /\ ~IsQueued(e)
      /\ \A k \in 1 .. Len(timerList) : timerList[k] # e
      /\ wait.status = "waiting" => \A k \in 1 .. Len(wait.evs) : wait.evs[k] # e
  <2>1. e \in UserEvents
    BY <1>1, <1>2, Given DEF IInv, CloseOK, Closing
  <2> QED
    BY <1>1, <1>2, <2>1, Given DEF FrameSafe, Closing
<1>4. CutTo(stack, stack', Len(stack) - 1) /\ Len(stack') > 0 /\ Len(stack) > 1
  <2>1. CutTo(stack, stack', Len(stack) - 1) /\ Len(stack) > 1 /\ Len(stack') = Len(stack) - 1
    BY <1>2, CutShapes, Given
  <2> QED
    BY <2>1, Given
<1>5. /\ \A i \in 1 .. Len(stack) - 1 : Plain(stack[i])
      /\ Stays(stack, stack', Len(stack) - 1)
      /\ \A i \in Len(stack) - 1 + 1 .. Len(stack) : stack[i].pc = "free" /\ stack[i].ev = e
      /\ \A i \in 1 .. Len(stack) - 1 : stack[i].pc \in {"check", "checkReturn"} => stack[i].ev # e
  <2>1. \A i \in 1 .. Len(stack) - 1 : Plain(stack[i])
    BY <1>2, Underneath
  <2>2. Top.pc \in Closing /\ Len(stack) \in 1 .. Len(stack)
    BY <1>2, Given DEF Closing
  <2>3. \A i \in 1 .. Len(stack) - 1 : stack[i].pc \in {"check", "checkReturn"} => stack[i].ev # e
    BY <1>1, <2>2, Given DEF PairsOK
  <2> QED
    BY <1>1, <1>2, <1>4, <2>1, <2>3, Given, StaysCut
<1>6. PairsOK(stack')
  BY <1>4, Given, PairsCut
<1>7. FramesSafe'
  <2>1. ASSUME NEW i \in 1 .. Len(stack) - 1
        PROVE  \A x : stack[i] = x => FrameSafe(x)'
    <3> TAKE x
    <3> HAVE stack[i] = x
    <3>1. FrameSafe(x) /\ Plain(x) /\ (x.pc \in {"check", "checkReturn"} => x.ev # e)
      BY <1>5, Given
    <3> QED
      BY <1>2, <3>1 DEF FrameSafe, Plain, Waits, Fragile, Closing
  <2> QED
    BY <1>4, <2>1, Given, FramesCut
<1>8. Passed'
  <2>1. Len(stack) - 1 # Len(stack)
    BY Given
  <2> QED
    BY <1>4, <2>1, PassedCut
<1>9. QueueConsistent'
  <2>1. \A p \in NotifyTpls : \A i \in 1 .. Len(queue[p]) : queue[p][i] # e
    BY <1>3 DEF IsQueued, Contains
  <2> QED
    BY <1>2, <2>1 DEF KInv, Safe, QueueConsistent, eventVars
<1>10. ASSUME NEW pcs, NEW x, x # e, OnStack(pcs, x) PROVE OnStack(pcs, x)'
  <2>1. PICK i \in 1 .. Len(stack) : stack[i].pc \in pcs /\ stack[i].ev = x
    BY <1>10 DEF OnStack
  <2>2. i \in 1 .. Len(stack) - 1
    BY <1>5, <1>10, <2>1, Given
  <2>3. i \in 1 .. Len(stack') /\ stack'[i] = stack[i]
    BY <1>5, <2>2 DEF Stays
  <2> QED
    BY <2>1, <2>3 DEF OnStack
<1>11. \A x : IsQueued(x) => IsQueued(x)'
  BY <1>2 DEF IsQueued, eventVars
<1>12. NoLostNotification'
  BY <1>2, <1>10, <1>11 DEF KInv, Safe, NoLostNotification, eventVars
<1>13. Listed'
  BY <1>2, <1>10 DEF KInv, Safe, Listed
<1>14. TimerListSorted'
  BY <1>2, <1>3 DEF KInv, Safe, TimerListSorted, timerVars
<1>15. Noticed'
  <2>1. CheckTimer # e
    BY <1>3, EventCoreAssumption
  <2> QED
    BY <1>2, <1>10, <1>11, <2>1 DEF KInv, Safe, Noticed, Expired, timerVars, clockVars
<1>16. PeriodicStaysArmed'
  BY <1>2, <1>10 DEF KInv, Safe, PeriodicStaysArmed, timerVars
<1>17. Present'
  BY <1>2, <1>3, EventCoreAssumption DEF KInv, Safe, Present
<1>18. MaskedOnlyAtHigh'
  BY <1>2 DEF KInv, Safe, MaskedOnlyAtHigh, clockVars
<1> QED
  BY <1>6, <1>7, <1>8, <1>9, <1>12, <1>13, <1>14, <1>15, <1>16, <1>17, <1>18 DEF Safe

-----------------------------------------------------------------------------
(* Every call of a client. *)

(* A client that runs lies on plain code only.                             *)
LEMMA Clients ==
    ASSUME KInv, At("client")
    PROVE  /\ Top.pc = "client" /\ Quiet(tpl) /\ MaskedOnlyAtHigh /\ tpl <= HIGH
           /\ \A i \in 1 .. Len(stack) : Plain(stack[i])
           /\ CutTo(stack, stack, Len(stack))
           /\ \A t \in Tpls : CutTo(stack, Restore(stack, t), Len(stack)) /\ Len(Restore(stack, t)) > 0
           /\ \A i \in Len(stack) + 1 .. Len(stack) : FALSE
<1>1. Top.pc = "client"
  BY DEF At
<1>2. \A i \in 1 .. Len(stack) : Plain(stack[i])
  BY <1>1, Underneath DEF Fragile
<1>3. ASSUME NEW t \in Tpls PROVE CutTo(stack, Restore(stack, t), Len(stack)) /\ Len(Restore(stack, t)) > 0
  <2>1. CutTo(stack, Restore(stack, t), Len(stack))
    BY CutShapes, Given
  <2> QED
    BY <2>1, Given DEF CutTo
<1>4. CutTo(stack, stack, Len(stack))
  BY CutShapes, Given, Levels
<1>5. tpl <= HIGH /\ MaskedOnlyAtHigh
  BY Given, Levels DEF KInv, Safe
<1> QED
  BY <1>1, <1>2, <1>3, <1>4, <1>5, Given

(* A call that only changes the level, or takes and releases a lock.       *)
LEMMA IdleCallSafe ==
    ASSUME KInv, At("client"), stack' = stack \/ \E t \in Tpls : stack' = Restore(stack, t),
           UNCHANGED <<eventVars, dbVars, timerVars, clockVars, wait>>, MaskedOnlyAtHigh'
    PROVE  Safe'
<1>1. CutTo(stack, stack', Len(stack)) /\ Len(stack') > 0 /\ Top.pc # "group"
  BY Clients, Given
<1>2. /\ \A i \in Len(stack) + 1 .. Len(stack) :
            stack[i].pc \notin {"group", "free", "start", "checkTimers", "rearm"}
      /\ \A i \in 1 .. Len(stack) : stack[i].pc = "wait" => wait'.status = "waiting"
  BY Given
<1>3. /\ UNCHANGED <<queue, signalCount, dbVars, timerVars, now, masked>>
      /\ pending' \subseteq pending /\ \A p \in pending : p \in pending' \/ queue[p] = <<>>
  BY DEF eventVars, clockVars
<1> QED
  BY <1>1, <1>2, <1>3, CutStep

LEMMA RaiseTplSafe == ASSUME KInv, NEW t \in UserTpls, RaiseTpl(t) PROVE Safe'
<1>1. /\ At("client") /\ t > tpl /\ tpl' = t
      /\ UNCHANGED <<eventVars, dbVars, timerVars, clockVars, stack, wait>>
  BY DEF RaiseTpl, Call
<1>2. tpl < HIGH
  <2>1. t \in Nat /\ t <= HIGH
    BY Levels
  <2> QED
    BY <1>1, <2>1, Given DEF HIGH
<1>3. MaskedOnlyAtHigh'
  <2>1. ~(masked > 0)
    BY <1>2, Given DEF KInv, Safe, MaskedOnlyAtHigh, HIGH
  <2> QED
    BY <1>1, <2>1 DEF MaskedOnlyAtHigh, clockVars
<1> QED
  BY <1>1, <1>3, IdleCallSafe

LEMMA RestoreTplSafe == ASSUME KInv, NEW t \in UserTpls, RestoreTpl(t) PROVE Safe'
<1>1. /\ At("client") /\ stack' = Restore(stack, t) /\ t \in Tpls
      /\ UNCHANGED <<tpl, eventVars, dbVars, timerVars, clockVars, wait, calls>>
  BY Levels DEF RestoreTpl
<1>2. MaskedOnlyAtHigh'
  BY <1>1 DEF KInv, Safe, MaskedOnlyAtHigh, clockVars
<1> QED
  BY <1>1, <1>2, IdleCallSafe

LEMMA SignalEventSafe == ASSUME KInv, NEW e \in UserEvents, SignalEvent(e) PROVE Safe'
<1>1. /\ At("client") /\ e \in live /\ CoreSignalEvent(stack, tpl, e)
      /\ UNCHANGED <<dbVars, timerVars, clockVars, wait>>
  BY DEF SignalEvent, Call
<1> QED
  BY <1>1, Clients, SignalSafe

LEMMA CheckEventSafe == ASSUME KInv, NEW e \in UserEvents, CheckEvent(e) PROVE Safe'
<1>1. /\ At("client") /\ e \in live /\ UNCHANGED <<signalCount, dbVars, timerVars, clockVars, wait>>
  BY DEF CheckEvent, Call
<1>2. CASE UNCHANGED <<tpl, stack, pending, queue>>
  <2>1. MaskedOnlyAtHigh'
    BY <1>1, <1>2 DEF KInv, Safe, MaskedOnlyAtHigh, clockVars
  <2> QED
    BY <1>1, <1>2, <2>1, IdleCallSafe DEF eventVars
<1>3. CASE CheckCall(stack, e)
  BY <1>1, <1>3, Clients, CheckCallSafe
<1> QED
  BY <1>2, <1>3 DEF CheckEvent

LEMMA WaitForEventSafe == ASSUME KInv, NEW l \in WaitLists, WaitForEvent(l) PROVE Safe'
<1>1. /\ At("client") /\ \A i \in 1 .. Len(l) : l[i] \in live
      /\ UNCHANGED <<tpl, eventVars, dbVars, timerVars, clockVars>>
  BY DEF WaitForEvent, Call
<1>2. MaskedOnlyAtHigh'
  BY <1>1 DEF KInv, Safe, MaskedOnlyAtHigh, clockVars
<1>3. CASE UNCHANGED <<wait, stack>>
  BY <1>1, <1>2, <1>3, IdleCallSafe
<1>4. CASE /\ tpl = APPLICATION
           /\ wait' = [evs |-> l, iter |-> 0, idx |-> 1, status |-> "waiting"]
           /\ stack' = Append(stack, Frame("wait", tpl, NoEvent, 0))
  <2>1. PICK f : f = Frame("wait", tpl, NoEvent, 0)
    OBVIOUS
  <2>2. f \in FrameType /\ f.pc = "wait"
    BY <2>1, Given DEF Frame, FrameType, Pcs
  <2>3. Len(stack) = 1
    <3>0. PICK n \in Nat : n = Len(stack) /\ n > 0
      BY Given
    <3> SUFFICES ASSUME n > 1 PROVE FALSE
      BY <3>0
    <3>1. Top.tpl \in NotifyTpls
      <4>1. Top.pc = "client"
        BY <1>1, Clients
      <4>2. PairsOK(stack) /\ Top = stack[n]
        BY <3>0, Given
      <4> QED
        BY <3>0, <4>1, <4>2 DEF PairsOK
    <3>2. Top.tpl <= APPLICATION
      BY <1>1, <1>4, Clients, Given DEF LevelOK
    <3> QED
      BY <3>1, <3>2, Levels DEF NotifyTpls, APPLICATION, CALLBACK, NOTIFY, TIMER
  <2>4. Grows(stack, stack', Len(stack), f)
    BY <1>4, <2>1, <2>2, Given, GrowShapes
  <2>5. wait'.status = "waiting" /\ wait'.evs = l
    BY <1>4
  <2>6. Present'
    BY <1>1, <2>5 DEF KInv, Safe, Present, dbVars
  <2>7. FrameSafe(f)'
    BY <2>2, <2>5 DEF FrameSafe, Waits, Plain, Fragile, Closing
  <2>8. UNCHANGED <<now, masked>>
    BY <1>1 DEF clockVars
  <2> QED
    BY <1>1, <1>2, <2>2, <2>3, <2>4, <2>5, <2>6, <2>7, <2>8, Clients, GrowStep DEF Closing
<1> QED
  BY <1>3, <1>4 DEF WaitForEvent

LEMMA MockTimerAdvanceSafe == ASSUME KInv, NEW d \in Durations, MockTimerAdvance(d) PROVE Safe'
<1>1. At("client") /\ UNCHANGED <<dbVars, timerVars, wait>> /\ d \in Nat
  BY EventCoreAssumption DEF MockTimerAdvance, Call
<1>2. CASE tpl >= HIGH /\ masked' = masked + d /\ UNCHANGED <<now, eventVars, stack, tpl>>
  <2>1. tpl = HIGH
    BY <1>2, Given, Levels DEF HIGH
  <2>2. CutTo(stack, stack', Len(stack)) /\ Len(stack') > 0
    BY <1>1, <1>2, Clients, Given
  <2>3. \A i \in 1 .. Len(stack) : stack[i].pc = "wait" => wait'.status = "waiting"
    BY <1>1, Given
  <2>4. PairsOK(stack)' /\ FramesSafe' /\ Passed'
    BY <1>1, <2>2, <2>3, Clients, PlainCut DEF dbVars
  <2>5. QueueConsistent' /\ \A x : IsQueued(x) <=> IsQueued(x)'
    BY <1>1, <1>2, SameQueues DEF dbVars, eventVars
  <2>6. MaskedOnlyAtHigh'
    BY <1>2, <2>1 DEF MaskedOnlyAtHigh
  <2>7. \A x \in Events : signalCount'[x] = 1 /\ signalCount[x] # 1 => FALSE
    BY <1>2 DEF eventVars
  <2> QED
    BY <1>1, <1>2, <2>2, <2>4, <2>5, <2>6, <2>7, Clients, StaysCut, ServiceSafe
<1>3. CASE /\ CoreTimerTick(d) /\ stack' = Restore(Append(stack, Frame("force", tpl, NoEvent, 0)), tpl)
           /\ tpl' = HIGH /\ UNCHANGED masked
  <2>1. PICK f : f = Frame("force", tpl, NoEvent, 0)
    OBVIOUS
  <2>2. f \in FrameType /\ f.pc = "force"
    BY <2>1, Given DEF Frame, FrameType, Pcs
  <2>3. Grows(stack, stack', Len(stack), f)
    BY <1>3, <2>1, <2>2, Given, GrowShapes
  <2>4. FrameSafe(f)'
    BY <2>2 DEF FrameSafe, Waits, Plain, Fragile, Closing
  <2>5. \A i \in 1 .. Len(stack) : stack[i].pc = "wait" => wait'.status = "waiting"
    BY <1>1, Given
  <2>6. PairsOK(stack)' /\ FramesSafe' /\ Passed'
    BY <1>1, <2>2, <2>3, <2>4, <2>5, Clients, PlainGrow DEF dbVars, Closing
  <2>7. /\ QueueConsistent' /\ Noticed' /\ \A x : IsQueued(x) => IsQueued(x)'
        /\ \A x \in Events : signalCount'[x] = 1 /\ signalCount[x] # 1 => IsQueued(x)'
    BY <1>1, <1>3, TickQueues DEF dbVars
  <2>8. MaskedOnlyAtHigh'
    BY <1>3 DEF MaskedOnlyAtHigh
  <2>9. Stays(stack, stack', Len(stack))
    BY <2>3, StaysGrow, Given
  <2> QED
    BY <1>1, <2>6, <2>7, <2>8, <2>9, Clients, ServiceSafe
<1> QED
  BY <1>2, <1>3 DEF MockTimerAdvance

(* A list that takes an event out stays sorted.                            *)
LEMMA UnarmedSorted ==
    ASSUME TypeOK, Sorted(timerList), NEW e \in Events
    PROVE  /\ Unarmed(e) \in Seq(Events) /\ Sorted(Unarmed(e))
           /\ \A i \in 1 .. Len(Unarmed(e)) : Unarmed(e)[i] # e
           /\ \A i \in 1 .. Len(Unarmed(e)) : \E j \in 1 .. Len(timerList) : Unarmed(e)[i] = timerList[j]
           /\ \A j \in 1 .. Len(timerList) : timerList[j] # e =>
                 \E i \in 1 .. Len(Unarmed(e)) : Unarmed(e)[i] = timerList[j]
<1>1. PICK l, u : l = timerList /\ u = RemoveFirst(l, e)
  OBVIOUS
<1>2. l \in Seq(Events) /\ Sorted(l) /\ Len(l) \in Nat
  BY <1>1, LenProperties DEF TypeOK
<1>3. \A i, j \in 1 .. Len(l) : i < j => l[i] # l[j] /\ trigger[l[i]] <= trigger[l[j]]
  BY <1>2 DEF Sorted
<1>4. Distinct(l)
  <2>1. \A i, j \in 1 .. Len(l) : i = j \/ i < j \/ j < i
    BY <1>2
  <2> QED
    BY <1>3, <2>1 DEF Distinct
<1>5. /\ u \in Seq(Events)
      /\ \A i \in 1 .. Len(u) : u[i] # e
      /\ \A i \in 1 .. Len(u) : \E j \in 1 .. Len(l) : u[i] = l[j]
  BY <1>1, <1>2, <1>4, RemoveFirstProperties
<1>6. /\ \A i \in 1 .. Len(l) : l[i] # e => \E j \in 1 .. Len(u) : u[j] = l[i]
      /\ \A i, j \in 1 .. Len(u) : i < j =>
            \E a, b \in 1 .. Len(l) : a < b /\ u[i] = l[a] /\ u[j] = l[b]
  <2>1. \A s \in Seq(Events) :
           /\ \A i \in 1 .. Len(s) : s[i] # e =>
                 \E j \in 1 .. Len(RemoveFirst(s, e)) : RemoveFirst(s, e)[j] = s[i]
           /\ \A i, j \in 1 .. Len(RemoveFirst(s, e)) : i < j =>
                 \E a, b \in 1 .. Len(s) :
                    a < b /\ RemoveFirst(s, e)[i] = s[a] /\ RemoveFirst(s, e)[j] = s[b]
    BY RemoveFirstKeeps
  <2> DEFINE Kept(s, r) ==
        /\ \A i \in 1 .. Len(s) : s[i] # e => \E j \in 1 .. Len(r) : r[j] = s[i]
        /\ \A i, j \in 1 .. Len(r) : i < j =>
              \E a, b \in 1 .. Len(s) : a < b /\ r[i] = s[a] /\ r[j] = s[b]
  <2>2. \A s \in Seq(Events) : Kept(s, RemoveFirst(s, e))
    BY <2>1
  <2> HIDE DEF Kept
  <2>3. Kept(l, u)
    BY <1>1, <1>2, <2>2
  <2> QED
    BY <2>3 DEF Kept
<1>7. Sorted(u)
  <2> SUFFICES ASSUME NEW i \in 1 .. Len(u), NEW j \in 1 .. i - 1
               PROVE  u[j] # u[i] /\ trigger[u[j]] <= trigger[u[i]]
    BY DEF Sorted
  <2>1. Len(u) \in Nat
    BY <1>5, LenProperties
  <2>2. j \in 1 .. Len(u) /\ j < i
    BY <2>1
  <2>3. \E a, b \in 1 .. Len(l) : a < b /\ u[j] = l[a] /\ u[i] = l[b]
    BY <1>6, <2>2
  <2> QED
    BY <1>3, <2>3
<1>8. Unarmed(e) = u
  BY <1>1 DEF Unarmed
<1> QED
  BY <1>1, <1>5, <1>6, <1>7, <1>8

(* A timer that is due makes the head of the list due, and conversely.     *)
LEMMA Due ==
    ASSUME TypeOK, Sorted(timerList), NEW i \in 1 .. Len(timerList), trigger[timerList[i]] <= now
    PROVE  Expired(now)
<1>1. PICK l : l = timerList
  OBVIOUS
<1>2. l \in Seq(Events) /\ Len(l) \in Nat /\ trigger \in [Events -> Nat] /\ now \in Nat
  BY <1>1, LenProperties DEF TypeOK
<1>3. l # <<>> /\ Head(l) = l[1] /\ 1 \in 1 .. Len(l)
  BY <1>1, <1>2, EmptySeq, HeadTailProperties
<1>4. l[1] \in Events /\ l[i] \in Events
  BY <1>1, <1>2, <1>3, ElementOfSeq
<1>5. trigger[l[1]] <= trigger[l[i]]
  <2>1. CASE i = 1
    BY <1>2, <1>4, <2>1
  <2>2. CASE i # 1
    <3>1. 1 \in 1 .. i - 1
      BY <1>1, <1>2, <2>2
    <3> QED
      BY <1>1, <3>1 DEF Sorted
  <2> QED
    BY <2>1, <2>2
<1>6. trigger[l[1]] <= now
  BY <1>1, <1>2, <1>4, <1>5
<1> QED
  BY <1>1, <1>3, <1>6 DEF Expired

LEMMA FirstDue ==
    ASSUME timerList' \in Seq(Events), Expired(now)'
    PROVE  \E i \in 1 .. Len(timerList') : trigger'[timerList'[i]] <= now'
<1>1. PICK l : l = timerList'
  OBVIOUS
<1>2. l \in Seq(Events) /\ l # <<>> /\ trigger'[Head(l)] <= now'
  BY <1>1 DEF Expired
<1>3. Head(l) = l[1] /\ 1 \in 1 .. Len(l)
  BY <1>2, EmptySeq, LenProperties, HeadTailProperties
<1> QED
  BY <1>1, <1>2, <1>3

(* One event's timer is set, cancelled or lost.                            *)
LEMMA TimerChanged ==
    ASSUME KInv, NEW e \in live, "TIMER" \in attr[e].type,
           UNCHANGED <<live, attr, now>>, Sorted(timerList)', timerList' \in Seq(Events),
           \A i \in 1 .. Len(timerList') :
               timerList'[i] = e \/ \E j \in 1 .. Len(timerList) : timerList'[i] = timerList[j],
           \A j \in 1 .. Len(timerList) : timerList[j] # e =>
               \E i \in 1 .. Len(timerList') : timerList'[i] = timerList[j],
           \A x \in Events : x # e => trigger'[x] = trigger[x] /\ period'[x] = period[x],
           period'[e] # 0 => \E i \in 1 .. Len(timerList') : timerList'[i] = e,
           (\E i \in 1 .. Len(timerList') : timerList'[i] = e) /\ trigger'[e] <= now =>
               IsQueued(CheckTimer)',
           IsQueued(CheckTimer) => IsQueued(CheckTimer)',
           Stays(stack, stack', Len(stack))
    PROVE  TimerListSorted' /\ Noticed' /\ PeriodicStaysArmed'
<1>1. /\ TimerListSorted /\ Noticed /\ PeriodicStaysArmed /\ Sorted(timerList)
      /\ TypeOK /\ live \subseteq Events /\ Len(stack) \in Nat
  BY Given, ListSorted DEF KInv, Safe, TypeOK
<1>2. \A pcs, x : OnStack(pcs, x) => OnStack(pcs, x)'
  <2> TAKE pcs, x
  <2>1. \A i \in Len(stack) + 1 .. Len(stack) : stack[i].pc \notin pcs
    BY <1>1
  <2> QED
    BY <1>1, <2>1, StillOn
<1>3. TimerListSorted'
  <2>1. \A i \in 1 .. Len(timerList') : timerList'[i] \in live' /\ "TIMER" \in attr'[timerList'[i]].type
    BY <1>1 DEF TimerListSorted
  <2> QED
    BY <2>1 DEF TimerListSorted, Sorted
<1>4. Noticed'
  <2> SUFFICES ASSUME Expired(now)'
               PROVE  IsQueued(CheckTimer)' \/ OnStack({"start", "checkTimers"}, CheckTimer)'
    BY DEF Noticed
  <2>1. PICK i \in 1 .. Len(timerList') : trigger'[timerList'[i]] <= now
    BY FirstDue
  <2>2. CASE timerList'[i] = e
    BY <2>1, <2>2
  <2>3. CASE timerList'[i] # e
    <3>1. PICK j \in 1 .. Len(timerList) : timerList'[i] = timerList[j]
      BY <2>3
    <3>2. timerList[j] \in Events
      BY <1>1 DEF TimerListSorted
    <3>3. trigger[timerList[j]] <= now
      BY <2>1, <2>3, <3>1, <3>2
    <3>4. Expired(now)
      BY <1>1, <3>3, Due
    <3> QED
      BY <1>1, <1>2, <3>4 DEF Noticed
  <2> QED
    BY <2>2, <2>3
<1>5. PeriodicStaysArmed'
  <2> SUFFICES ASSUME NEW x \in live, period'[x] # 0
               PROVE  Contains(timerList', x) \/ OnStack({"rearm"}, x)'
    BY DEF PeriodicStaysArmed
  <2>1. CASE x = e
    BY <2>1 DEF Contains
  <2>2. CASE x # e
    <3>1. Contains(timerList, x) \/ OnStack({"rearm"}, x)
      BY <1>1, <2>2 DEF PeriodicStaysArmed
    <3> QED
      BY <1>2, <2>2, <3>1 DEF Contains
  <2> QED
    BY <2>1, <2>2
<1> QED
  BY <1>3, <1>4, <1>5


(* A call that takes mEfiTimerLock runs below HIGH, where no time is       *)
(* masked.                                                                 *)
LEMMA TimerCall ==
    ASSUME KInv, tpl <= TIMER, UNCHANGED clockVars
    PROVE  MaskedOnlyAtHigh'
<1>1. tpl # HIGH
  BY Given DEF TIMER, HIGH
<1>2. masked = 0
  BY <1>1, Given, MaskedBelow DEF KInv, Safe
<1> QED
  BY <1>2 DEF MaskedOnlyAtHigh, clockVars

LEMMA SetTimerSafe ==
    ASSUME KInv, NEW e \in UserEvents, NEW k \in {"cancel", "relative", "periodic"},
           NEW d \in Delays, SetTimer(e, k, d)
    PROVE  Safe'
<1>1. PICK q, u : q = (IF k = "periodic" /\ d = 0 THEN DefaultPeriod ELSE d) /\ u = Unarmed(e)
  OBVIOUS
<1>2. At("client") /\ e \in live /\ e \in Events /\ tpl <= TIMER /\ UNCHANGED <<dbVars, clockVars, wait>>
  BY DEF SetTimer, Call, Events
<1>3. MaskedOnlyAtHigh'
  BY <1>2, TimerCall
<1>4. CASE UNCHANGED <<eventVars, timerVars, stack, tpl>>
  BY <1>2, <1>3, <1>4, IdleCallSafe
<1>5. CASE /\ "TIMER" \in attr[e].type
           /\ period' = [period EXCEPT ![e] = IF k = "periodic" THEN q ELSE 0]
           /\ \/ /\ k = "cancel" /\ trigger' = [trigger EXCEPT ![e] = 0] /\ timerList' = u
                 /\ UNCHANGED eventVars
              \/ /\ trigger' = [trigger EXCEPT ![e] = now + q]
                 /\ timerList' = CoreInsertEventTimer(u, e, now + q)
                 /\ \/ q = 0 /\ SignalCheckTimer
                    \/ q # 0 /\ UNCHANGED eventVars
           /\ stack' = Restore(stack, tpl) /\ tpl' = TIMER
  <2>1. /\ TypeOK /\ Sorted(timerList) /\ q \in Nat /\ now \in Nat
        /\ trigger \in [Events -> Nat] /\ period \in [Events -> Nat]
    BY <1>1, Given, ListSorted, EventCoreAssumption DEF KInv, Safe, TypeOK
  <2>2. /\ u \in Seq(Events) /\ Sorted(u)
        /\ \A i \in 1 .. Len(u) : u[i] # e
        /\ \A i \in 1 .. Len(u) : \E j \in 1 .. Len(timerList) : u[i] = timerList[j]
        /\ \A j \in 1 .. Len(timerList) : timerList[j] # e =>
              \E i \in 1 .. Len(u) : u[i] = timerList[j]
    BY <1>1, <1>2, <2>1, UnarmedSorted
  <2>3. /\ CutTo(stack, stack', Len(stack)) /\ Len(stack') > 0 /\ Stays(stack, stack', Len(stack))
        /\ \A i \in 1 .. Len(stack) : Plain(stack[i])
        /\ \A i \in 1 .. Len(stack) : stack[i].pc = "wait" => wait'.status = "waiting"
        /\ \A i \in Len(stack) + 1 .. Len(stack) : stack[i].pc \notin {"group", "free"}
    <3>1. CutTo(stack, stack', Len(stack)) /\ Len(stack') > 0 /\ \A i \in 1 .. Len(stack) : Plain(stack[i])
      BY <1>2, <1>5, Clients, Given
    <3>2. \A i \in 1 .. Len(stack) : stack[i].pc = "wait" => wait'.status = "waiting"
      BY <1>2, Given
    <3>3. \A i \in Len(stack) + 1 .. Len(stack) : FALSE
      BY <1>2, Clients
    <3> QED
      BY <3>1, <3>2, <3>3, StaysCut
  <2>4. PairsOK(stack)' /\ FramesSafe' /\ Passed'
    BY <1>2, <2>3, PlainCut DEF dbVars
  <2>5. /\ QueueConsistent' /\ \A x : IsQueued(x) => IsQueued(x)'
        /\ \A x \in Events : signalCount'[x] = 1 /\ signalCount[x] # 1 => IsQueued(x)'
    <3>1. CASE SignalCheckTimer
      BY <1>2, <3>1, CheckTimerQueues DEF dbVars
    <3>2. CASE UNCHANGED eventVars
      BY <1>2, <3>2, SameQueues DEF dbVars, eventVars
    <3> QED
      BY <1>5, <3>1, <3>2
  <2>6. NoLostNotification' /\ Listed'
    BY <1>2, <2>3, <2>5, Given, SignalsStay DEF TypeOK
  <2>7. \A x \in Events : x # e => trigger'[x] = trigger[x] /\ period'[x] = period[x]
    BY <1>2, <1>5, <2>1
  <2>8. /\ Sorted(timerList)' /\ timerList' \in Seq(Events)
        /\ \A i \in 1 .. Len(timerList') :
              timerList'[i] = e \/ \E j \in 1 .. Len(timerList) : timerList'[i] = timerList[j]
        /\ \A j \in 1 .. Len(timerList) : timerList[j] # e =>
              \E i \in 1 .. Len(timerList') : timerList'[i] = timerList[j]
        /\ period'[e] # 0 => \E i \in 1 .. Len(timerList') : timerList'[i] = e
        /\ (\E i \in 1 .. Len(timerList') : timerList'[i] = e) /\ trigger'[e] <= now =>
               IsQueued(CheckTimer)'
    <3>1. CASE /\ k = "cancel" /\ trigger' = [trigger EXCEPT ![e] = 0] /\ timerList' = u
      <4>1. Sorted(timerList)'
        <5>1. \A i \in 1 .. Len(u) : u[i] \in Events
          BY <2>2, ElementOfSeq
        <5>2. \A i \in 1 .. Len(u) : trigger'[u[i]] = trigger[u[i]]
          BY <2>2, <2>7, <5>1
        <5>3. \A i \in 1 .. Len(u) : \A j \in 1 .. i - 1 : j \in 1 .. Len(u)
          BY <2>2, LenProperties
        <5> QED
          BY <2>2, <3>1, <5>2, <5>3 DEF Sorted
      <4>2. period'[e] = 0
        BY <1>2, <1>5, <2>1, <3>1
      <4> QED
        BY <2>2, <3>1, <4>1, <4>2
    <3>2. CASE /\ trigger' = [trigger EXCEPT ![e] = now + q]
               /\ timerList' = CoreInsertEventTimer(u, e, now + q)
               /\ \/ q = 0 /\ SignalCheckTimer
                  \/ q # 0 /\ UNCHANGED eventVars
      <4>1. now + q \in Nat
        BY <2>1
      <4>2. /\ Sorted(timerList)' /\ timerList' \in Seq(Events)
            /\ \E i \in 1 .. Len(timerList') : timerList'[i] = e
            /\ \A j \in 1 .. Len(u) : \E i \in 1 .. Len(timerList') : timerList'[i] = u[j]
            /\ \A i \in 1 .. Len(timerList') :
                  timerList'[i] = e \/ \E j \in 1 .. Len(u) : timerList'[i] = u[j]
        BY <1>2, <2>1, <2>2, <3>2, <4>1, InsertSorted
      <4>3. trigger'[e] <= now => IsQueued(CheckTimer)'
        <5>1. trigger'[e] = now + q
          BY <1>2, <2>1, <3>2
        <5>2. q = 0 => IsQueued(CheckTimer)'
          BY <1>2, <3>2, CheckTimerQueues DEF dbVars
        <5> QED
          BY <2>1, <5>1, <5>2
      <4>4. \A i \in 1 .. Len(timerList') :
               timerList'[i] = e \/ \E j \in 1 .. Len(timerList) : timerList'[i] = timerList[j]
        BY <2>2, <4>2
      <4>5. \A j \in 1 .. Len(timerList) : timerList[j] # e =>
               \E i \in 1 .. Len(timerList') : timerList'[i] = timerList[j]
        BY <2>2, <4>2
      <4> QED
        BY <4>2, <4>3, <4>4, <4>5
    <3> QED
      BY <1>5, <3>1, <3>2
  <2>9. TimerListSorted' /\ Noticed' /\ PeriodicStaysArmed'
    BY <1>2, <1>5, <2>3, <2>5, <2>7, <2>8, TimerChanged DEF dbVars, clockVars
  <2>10. Present'
    BY <1>2, SamePresent DEF dbVars
  <2> QED
    BY <1>3, <2>4, <2>5, <2>6, <2>9, <2>10 DEF Safe
<1> QED
  BY <1>1, <1>4, <1>5 DEF SetTimer

LEMMA CoreCloseEventSafe == ASSUME KInv, NEW e \in UserEvents, CoreCloseEvent(e) PROVE Safe'
<1>1. PICK f, u : f = Frame("unlink", tpl, e, 0) /\ u = Unarmed(e)
  OBVIOUS
<1>2. /\ At("client") /\ e \in live /\ e \in Events /\ ~InUse(e)
      /\ UNCHANGED <<eventVars, dbVars, clockVars, wait>>
  BY DEF CoreCloseEvent, Call, Events
<1>3. \/ /\ "TIMER" \in attr[e].type /\ tpl <= TIMER
         /\ timerList' = u
         /\ trigger' = [trigger EXCEPT ![e] = 0] /\ period' = [period EXCEPT ![e] = 0]
         /\ stack' = Restore(Append(stack, f), tpl)
      \/ /\ "TIMER" \notin attr[e].type
         /\ stack' = Append(stack, f) /\ UNCHANGED <<timerVars, tpl>>
  BY <1>1 DEF CoreCloseEvent
<1>4. f \in FrameType /\ f.pc = "unlink" /\ f.tpl = tpl /\ f.ev = e
  BY <1>1, <1>2, Given DEF Frame, FrameType, Pcs
<1>5. Grows(stack, stack', Len(stack), f)
  <2>1. stack \in Seq(FrameType) /\ stack # <<>> /\ tpl \in Tpls
    BY Given
  <2>2. /\ Grows(stack, Append(stack, f), Len(stack), f)
        /\ Grows(stack, Restore(Append(stack, f), tpl), Len(stack), f)
    BY <1>4, <2>1, GrowShapes
  <2> QED
    BY <1>3, <2>2
<1>6. /\ TypeOK /\ Sorted(timerList) /\ TimerListSorted
      /\ trigger \in [Events -> Nat] /\ period \in [Events -> Nat]
  BY Given, ListSorted DEF KInv, Safe, TypeOK
<1>7. /\ u \in Seq(Events) /\ Sorted(u)
      /\ \A i \in 1 .. Len(u) : u[i] # e
      /\ \A i \in 1 .. Len(u) : \E j \in 1 .. Len(timerList) : u[i] = timerList[j]
      /\ \A j \in 1 .. Len(timerList) : timerList[j] # e =>
            \E i \in 1 .. Len(u) : u[i] = timerList[j]
  BY <1>1, <1>2, <1>6, UnarmedSorted
<1>8. MaskedOnlyAtHigh'
  <2>1. CASE tpl <= TIMER
    BY <1>2, <2>1, TimerCall
  <2>2. CASE UNCHANGED tpl
    BY <1>2, <2>2 DEF KInv, Safe, MaskedOnlyAtHigh, clockVars
  <2> QED
    BY <1>3, <2>1, <2>2
<1>9. \A k \in 1 .. Len(timerList') : timerList'[k] # e
  <2>1. CASE timerList' = u
    BY <1>7, <2>1
  <2>2. CASE "TIMER" \notin attr[e].type /\ timerList' = timerList
    BY <1>6, <2>2 DEF TimerListSorted
  <2> QED
    BY <1>3, <2>1, <2>2 DEF timerVars
<1>10. FrameSafe(f)'
  <2>1. Quiet(f.tpl)' /\ (masked > 0 => f.tpl = HIGH)
    BY <1>2, <1>4, Clients DEF Quiet, eventVars, MaskedOnlyAtHigh
  <2>2. \A k \in 1 .. Len(wait.evs) : wait.status = "waiting" => wait.evs[k] # e
    BY <1>2 DEF InUse
  <2>3. masked' = masked /\ wait' = wait /\ live' = live
    BY <1>2 DEF clockVars, dbVars
  <2>4. Waits(f)' => Quiet(f.tpl)' /\ (masked' > 0 => f.tpl = HIGH)
    BY <2>1, <2>3
  <2>5. (f.pc \in Closing /\ wait.status = "waiting" => \A k \in 1 .. Len(wait.evs) : wait.evs[k] # f.ev)'
    BY <1>4, <2>2, <2>3
  <2>6. f.pc \notin {"wait", "rearm", "checkTimers", "free", "group"} /\ f.ev \in live'
    BY <1>2, <1>4, <2>3
  <2>7. \A k \in 1 .. Len(timerList') : timerList'[k] # f.ev
    BY <1>4, <1>9
  <2> QED
    BY <2>4, <2>5, <2>6, <2>7 DEF FrameSafe
<1>11. /\ \A i \in 1 .. Len(stack) : Plain(stack[i])
       /\ \A i \in 1 .. Len(stack) : stack[i].pc = "wait" => wait'.status = "waiting"
       /\ \A i \in 1 .. Len(stack) : stack[i].pc \in {"check", "checkReturn"} => stack[i].ev # f.ev
       /\ Stays(stack, stack', Len(stack))
       /\ \A pcs : \A i \in Len(stack) + 1 .. Len(stack) : stack[i].pc \notin pcs
  <2>1. \A i \in 1 .. Len(stack) : Plain(stack[i])
    BY <1>2, Clients
  <2>2. \A i \in 1 .. Len(stack) : stack[i].pc = "wait" => wait'.status = "waiting"
    BY <1>2, Given
  <2>3. \A i \in 1 .. Len(stack) : stack[i].pc \in {"check", "checkReturn"} => stack[i].ev # f.ev
    BY <1>2, <1>4 DEF InUse
  <2>4. \A i \in Len(stack) + 1 .. Len(stack) : FALSE
    BY <1>2, Clients
  <2>5. Stays(stack, stack', Len(stack))
    BY <1>5, Given, StaysGrow
  <2> QED
    BY <2>1, <2>2, <2>3, <2>4, <2>5
<1>12. PairsOK(stack)' /\ FramesSafe' /\ Passed'
  BY <1>2, <1>4, <1>5, <1>10, <1>11, PlainGrow DEF dbVars
<1>13. QueueConsistent' /\ NoLostNotification' /\ Listed'
  <2>1. UNCHANGED <<queue, signalCount, dbVars>> /\ pending' = pending
    BY <1>2 DEF eventVars
  <2> QED
    BY <1>11, <2>1, SameSignals
<1>14. \A x : IsQueued(x) => IsQueued(x)'
  BY <1>2 DEF IsQueued, eventVars
<1>15. TimerListSorted' /\ Noticed' /\ PeriodicStaysArmed'
  <2>1. UNCHANGED <<live, attr, now>>
    BY <1>2 DEF dbVars, clockVars
  <2>2. CASE /\ "TIMER" \in attr[e].type /\ timerList' = u
             /\ trigger' = [trigger EXCEPT ![e] = 0] /\ period' = [period EXCEPT ![e] = 0]
    <3>1. \A x \in Events : x # e => trigger'[x] = trigger[x] /\ period'[x] = period[x]
      BY <1>6, <2>2
    <3>2. period'[e] = 0
      BY <1>2, <1>6, <2>2
    <3>3. Sorted(timerList)'
      <4>1. \A i \in 1 .. Len(u) : u[i] \in Events
        BY <1>7, ElementOfSeq
      <4>2. \A i \in 1 .. Len(u) : trigger'[u[i]] = trigger[u[i]]
        BY <1>7, <3>1, <4>1
      <4>3. \A i \in 1 .. Len(u) : \A j \in 1 .. i - 1 : j \in 1 .. Len(u)
        BY <1>7, LenProperties
      <4> QED
        BY <1>7, <2>2, <4>2, <4>3 DEF Sorted
    <3>4. timerList' \in Seq(Events) /\ e \in live /\ Stays(stack, stack', Len(stack))
      BY <1>2, <1>7, <1>11, <2>2
    <3>5. \A i \in 1 .. Len(timerList') : \E j \in 1 .. Len(timerList) : timerList'[i] = timerList[j]
      BY <1>7, <2>2
    <3>6. \A j \in 1 .. Len(timerList) : timerList[j] # e =>
             \E i \in 1 .. Len(timerList') : timerList'[i] = timerList[j]
      BY <1>7, <2>2
    <3>7. \A i \in 1 .. Len(timerList') : timerList'[i] # e
      BY <1>9, <2>2
    <3>8. IsQueued(CheckTimer) => IsQueued(CheckTimer)'
      BY <1>14
    <3> QED
      BY <2>1, <2>2, <3>1, <3>2, <3>3, <3>4, <3>5, <3>6, <3>7, <3>8, TimerChanged
  <2>3. CASE UNCHANGED timerVars
    BY <1>11, <1>14, <2>1, <2>3, SameTimers
  <2> QED
    BY <1>3, <2>2, <2>3
<1>16. Present'
  BY <1>2, SamePresent DEF dbVars
<1> QED
  BY <1>8, <1>12, <1>13, <1>15, <1>16 DEF Safe

(* CoreCreateEvent appends to no list but the signal list, and an event    *)
(* that did not exist is nowhere yet.                                      *)
LEMMA CoreCreateEventSafe ==
    ASSUME KInv, NEW e \in UserEvents, NEW r \in Requests, CoreCreateEvent(e, r)
    PROVE  Safe'
<1>1. /\ At("client") /\ e \in Events /\ e \notin live
      /\ UNCHANGED <<pending, queue, timerList, clockVars, wait>>
  BY DEF CoreCreateEvent, Call, Events
<1>2. CASE ~ValidRequest(r)
  <2>1. UNCHANGED <<live, attr, signalCount, trigger, period, signalList, stack, tpl>>
    BY <1>2 DEF CoreCreateEvent
  <2>2. MaskedOnlyAtHigh'
    BY <1>1, <2>1 DEF KInv, Safe, MaskedOnlyAtHigh, clockVars
  <2> QED
    BY <1>1, <2>1, <2>2, IdleCallSafe DEF eventVars, dbVars, timerVars
<1>3. CASE ValidRequest(r)
  <2>1. PICK a : a = [type |-> r.type, group |-> r.group,
                      tpl |-> IF NeedsNotify(r) THEN r.tpl ELSE 0]
    OBVIOUS
  <2>2. /\ live' = live \cup {e} /\ attr' = [attr EXCEPT ![e] = a] /\ a.type = r.type
        /\ signalCount' = [signalCount EXCEPT ![e] = 0]
        /\ trigger' = [trigger EXCEPT ![e] = 0] /\ period' = [period EXCEPT ![e] = 0]
        /\ \/ /\ "SIGNAL" \in r.type /\ signalList' = <<e>> \o signalList
              /\ stack' = Restore(stack, tpl) /\ tpl' = HIGH
           \/ "SIGNAL" \notin r.type /\ UNCHANGED <<signalList, stack, tpl>>
    BY <1>3, <2>1 DEF CoreCreateEvent
  <2>3. /\ live \subseteq Events /\ attr \in [Events -> Attribute] /\ signalList \in Seq(Events)
        /\ signalCount \in [Events -> {0, 1}] /\ timerList \in Seq(Events)
        /\ trigger \in [Events -> Nat] /\ period \in [Events -> Nat]
    BY Given DEF TypeOK
  <2>4. /\ \A x \in live : /\ x # e /\ attr'[x] = attr[x] /\ signalCount'[x] = signalCount[x]
                           /\ trigger'[x] = trigger[x] /\ period'[x] = period[x]
        /\ attr'[e] = a /\ signalCount'[e] = 0 /\ period'[e] = 0
    BY <1>1, <2>2, <2>3
  <2>5. CutTo(stack, stack', Len(stack)) /\ Len(stack') > 0 /\ Stays(stack, stack', Len(stack))
    <3>1. CutTo(stack, stack', Len(stack)) /\ Len(stack') > 0
      BY <1>1, <2>2, Clients, Given
    <3> QED
      BY <3>1, StaysCut
  <2>6. \A pcs, x : OnStack(pcs, x) => OnStack(pcs, x)'
    <3> TAKE pcs, x
    <3>1. \A i \in Len(stack) + 1 .. Len(stack) : stack[i].pc \notin pcs
      BY <1>1, Clients
    <3> QED
      BY <2>5, <3>1, Given, StillOn
  <2>7. PairsOK(stack)' /\ FramesSafe' /\ Passed'
    <3>1. \A i \in 1 .. Len(stack) : stack[i].pc = "wait" => wait'.status = "waiting"
      BY <1>1, Given
    <3>2. \A i \in 1 .. Len(stack) : Plain(stack[i])
      BY <1>1, Clients
    <3> QED
      BY <2>2, <2>5, <3>1, <3>2, PlainCut
  <2>8. QueueConsistent'
    <3>1. QueueConsistent
      BY DEF KInv, Safe
    <3>2. \A p \in NotifyTpls : \A i \in 1 .. Len(queue[p]) :
             queue[p][i] \in live /\ attr'[queue[p][i]].tpl = p
      BY <2>4, <3>1 DEF QueueConsistent
    <3>3. \A p \in NotifyTpls : \A i \in 1 .. Len(queue[p]) : queue[p][i] \in live'
      BY <2>2, <3>2
    <3> QED
      BY <1>1, <3>1, <3>2, <3>3 DEF QueueConsistent
  <2>9. \A x : IsQueued(x) => IsQueued(x)'
    BY <1>1 DEF IsQueued
  <2>10. NoLostNotification'
    BY <2>2, <2>4, <2>6, <2>9 DEF KInv, Safe, NoLostNotification
  <2>11. \A x \in live : (\E k \in 1 .. Len(signalList) : signalList[k] = x) =>
                         (\E k \in 1 .. Len(signalList') : signalList'[k] = x)
    <3>1. CASE signalList' = <<e>> \o signalList
      <4>1. PICK one : one = <<e>>
        OBVIOUS
      <4>2. one \in Seq(Events) /\ Len(one) = 1 /\ Len(signalList) \in Nat
        BY <1>1, <2>3, <4>1, LenProperties
      <4>3. /\ Len(one \o signalList) = Len(one) + Len(signalList)
            /\ \A k \in 1 .. Len(one) + Len(signalList) :
                  (one \o signalList)[k] = IF k <= Len(one) THEN one[k] ELSE signalList[k - Len(one)]
        BY <2>3, <4>2, ConcatProperties
      <4>4. ASSUME NEW k \in 1 .. Len(signalList)
            PROVE  k + 1 \in 1 .. Len(signalList') /\ signalList'[k + 1] = signalList[k]
        BY <3>1, <4>1, <4>2, <4>3
      <4> QED
        BY <4>4
    <3> QED
      BY <2>2, <3>1
  <2>12. "SIGNAL" \in a.type => \E k \in 1 .. Len(signalList') : signalList'[k] = e
    <3> HAVE "SIGNAL" \in a.type
    <3>1. PICK one : one = <<e>>
      OBVIOUS
    <3>2. one \in Seq(Events) /\ Len(one) = 1 /\ one[1] = e /\ Len(signalList) \in Nat
      BY <1>1, <2>3, <3>1, LenProperties
    <3>3. /\ Len(one \o signalList) = Len(one) + Len(signalList)
          /\ \A k \in 1 .. Len(one) + Len(signalList) :
                (one \o signalList)[k] = IF k <= Len(one) THEN one[k] ELSE signalList[k - Len(one)]
      BY <2>3, <3>2, ConcatProperties
    <3>4. signalList' = one \o signalList
      BY <2>2, <3>1
    <3>5. 1 \in 1 .. Len(signalList') /\ signalList'[1] = e
      BY <3>2, <3>3, <3>4
    <3> QED
      BY <3>5
  <2>13. Listed'
    <3> SUFFICES ASSUME NEW x \in live', "SIGNAL" \in attr'[x].type
                 PROVE  (\E k \in 1 .. Len(signalList') : signalList'[k] = x) \/ OnStack({"free"}, x)'
      BY DEF Listed
    <3>1. CASE x = e
      BY <2>4, <2>12, <3>1
    <3>2. CASE x \in live
      BY <2>4, <2>6, <2>11, <3>2 DEF KInv, Safe, Listed
    <3> QED
      BY <2>2, <3>1, <3>2
  <2>14. TimerListSorted /\ \A i \in 1 .. Len(timerList) : timerList[i] \in live /\ timerList[i] \in Events
    BY <2>3 DEF KInv, Safe, TimerListSorted
  <2>15. TimerListSorted'
    <3>1. \A i \in 1 .. Len(timerList) : /\ timerList[i] \in live'
                                         /\ attr'[timerList[i]] = attr[timerList[i]]
                                         /\ trigger'[timerList[i]] = trigger[timerList[i]]
      BY <2>2, <2>4, <2>14
    <3>2. \A i \in 1 .. Len(timerList) : \A j \in 1 .. i - 1 : j \in 1 .. Len(timerList)
      BY <2>3, LenProperties
    <3> QED
      BY <1>1, <2>14, <3>1, <3>2 DEF TimerListSorted
  <2>16. Noticed'
    <3> SUFFICES ASSUME Expired(now)'
                 PROVE  IsQueued(CheckTimer)' \/ OnStack({"start", "checkTimers"}, CheckTimer)'
      BY DEF Noticed
    <3>1. PICK i \in 1 .. Len(timerList) : trigger'[timerList[i]] <= now
      BY <1>1, <2>3, FirstDue DEF clockVars
    <3>2. trigger[timerList[i]] <= now
      BY <2>4, <2>14, <3>1
    <3>3. Expired(now)
      BY <2>14, <3>2, Given, ListSorted, Due
    <3> QED
      BY <2>6, <2>9, <3>3 DEF KInv, Safe, Noticed
  <2>17. PeriodicStaysArmed'
    BY <1>1, <2>2, <2>4, <2>6 DEF KInv, Safe, PeriodicStaysArmed
  <2>18. Present'
    BY <1>1, <2>2, SamePresent
  <2>19. MaskedOnlyAtHigh'
    BY <1>1, <2>2 DEF KInv, Safe, MaskedOnlyAtHigh, clockVars
  <2> QED
    BY <2>7, <2>8, <2>10, <2>13, <2>15, <2>16, <2>17, <2>18, <2>19 DEF Safe
<1> QED
  BY <1>2, <1>3

-----------------------------------------------------------------------------
(* The invariant of the notifications and the timers is inductive. *)

LEMMA InitSafe == Init => Safe
<1> SUFFICES ASSUME Init PROVE Safe
  OBVIOUS
<1>1. PICK b : b = Bottom
  OBVIOUS
<1>2. b \in FrameType /\ b.pc = "client"
  BY <1>1 DEF Bottom, Frame, FrameType, Pcs, Tpls, UserTpls, APPLICATION
<1>3. stack = <<b>>
  BY <1>1 DEF Init, Bottom
<1>4. Len(stack) = 1 /\ stack[1] = b /\ Top = b
  BY <1>2, <1>3 DEF Top, Last
<1>5. \A i \in 1 .. Len(stack) : i = 1 /\ stack[i] = b
  BY <1>4
<1>6. PairsOK(stack) /\ FramesSafe /\ Passed
  <2>1. PairsOK(stack)
    BY <1>2, <1>5 DEF PairsOK, Fragile, Closing
  <2>2. FrameSafe(b)
    BY <1>2 DEF FrameSafe, Waits, Plain, Fragile, Closing
  <2>3. Passed
    BY <1>2, <1>4 DEF Passed, At
  <2> QED
    BY <1>5, <2>1, <2>2, <2>3 DEF FramesSafe
<1>7. /\ live = {CheckTimer, Idle} /\ wait.status = "none" /\ masked = 0
      /\ \A p \in NotifyTpls : queue[p] = <<>>
      /\ timerList = <<>>
      /\ \A e \in Events : signalCount[e] = 0 /\ period[e] = 0
  BY DEF Init
<1>8. Len(timerList) = 0 /\ \A p \in NotifyTpls : Len(queue[p]) = 0
  BY <1>7
<1>9. Present /\ MaskedOnlyAtHigh
  BY <1>7 DEF Present, MaskedOnlyAtHigh
<1>10. QueueConsistent
  BY <1>7, <1>8 DEF QueueConsistent
<1>11. NoLostNotification /\ PeriodicStaysArmed
  BY <1>7 DEF NoLostNotification, PeriodicStaysArmed, Events
<1>12. TimerListSorted /\ Noticed
  BY <1>7, <1>8 DEF TimerListSorted, Noticed, Expired
<1>13. Listed
  <2>1. PICK x, y : x = <<Idle>> /\ y = <<CheckTimer>>
    OBVIOUS
  <2>2. /\ x \in Seq(Events) /\ Len(x) = 1 /\ x[1] = Idle
        /\ y \in Seq(Events) /\ Len(y) = 1 /\ y[1] = CheckTimer
    BY <2>1 DEF Events
  <2>3. signalList = x \o y
    BY <2>1 DEF Init
  <2>4. Len(signalList) = 2 /\ signalList[1] = Idle /\ signalList[2] = CheckTimer
    BY <2>2, <2>3, ConcatProperties
  <2>5. 1 \in 1 .. Len(signalList) /\ 2 \in 1 .. Len(signalList)
    BY <2>4
  <2> QED
    BY <1>7, <2>4, <2>5 DEF Listed
<1> QED
  BY <1>6, <1>9, <1>10, <1>11, <1>12, <1>13 DEF Safe

LEMMA InitSafeNext == Init' => Safe'
BY InitSafe, PTL

LEMMA KernelSafe == ASSUME KInv, Kernel PROVE Safe'
BY RestoreConsumeSafe, RestoreDispatchSafe, RestoreDoneSafe, DispatchNextSafe, DispatchDoneSafe,
   NotifyFunctionSafe, NotifyReturnSafe, CheckTimersSignalSafe, CheckTimersRearmSafe,
   CheckTimersDoneSafe, GroupAcquireSafe, GroupNotifySafe, GroupDoneSafe, CheckDecideSafe,
   CheckReturnSafe, WaitCheckedSafe, WaitCheckSafe, WaitIdleSafe, WaitGiveUpSafe,
   CloseUnlinkSafe, CloseFreeSafe, AdvanceForceSafe DEF Kernel

LEMMA ClientSafe == ASSUME KInv, Client PROVE Safe'
BY RaiseTplSafe, RestoreTplSafe, CoreCreateEventSafe, SignalEventSafe, CheckEventSafe,
   SetTimerSafe, CoreCloseEventSafe, WaitForEventSafe, MockTimerAdvanceSafe DEF Client

LEMMA NextSafe == ASSUME KInv, [Next]_vars PROVE KInv'
<1>1. IInv'
  BY NextInv DEF KInv
<1>2. CASE Next
  <2>1. MockEventResetState => Safe'
    BY ResetInit, InitSafeNext DEF KInv
  <2>2. Safe'
    BY <1>2, <2>1, KernelSafe, ClientSafe DEF Next
  <2> QED
    BY <1>1, <2>2 DEF KInv
<1>3. CASE UNCHANGED vars
  <2>1. UNCHANGED <<tpl, eventVars, dbVars, timerVars, clockVars, stack, wait, calls>>
    BY <1>3 DEF vars
  <2>2. CutTo(stack, stack', Len(stack)) /\ Stays(stack, stack', Len(stack)) /\ Len(stack') > 0
    <3>1. CutTo(stack, stack, Len(stack)) /\ Len(stack) > 0
      BY Given, CutShapes
    <3> QED
      BY <2>1, <3>1, StaysCut
  <2>3. PairsOK(stack)' /\ FramesSafe' /\ Passed' /\ Listed' /\ MaskedOnlyAtHigh' /\ Present'
    <3>1. Safe
      BY DEF KInv
    <3>2. PairsOK(stack') /\ MaskedOnlyAtHigh' /\ Present'
      BY <2>1, <3>1 DEF Safe, MaskedOnlyAtHigh, Present, dbVars, clockVars
    <3>3. FramesSafe'
      <4>1. \A x : FrameSafe(x) => FrameSafe(x)'
        <5> TAKE x
        <5> HAVE FrameSafe(x)
        <5>1. /\ UNCHANGED <<queue, live, attr, timerList, now>>
              /\ pending' = pending /\ masked' = masked /\ wait' = wait
          BY <2>1 DEF eventVars, dbVars, timerVars, clockVars
        <5>2. x.pc = "wait" => wait.status = "waiting"
          BY DEF FrameSafe
        <5> QED
          BY <5>1, <5>2, SameSafe
      <4> QED
        BY <2>2, <4>1, Given, FramesCut
    <3>4. Passed'
      <4>1. Passed /\ Top' = Top /\ signalList' = signalList /\ \A x : IsQueued(x) => IsQueued(x)'
        BY <2>1, <3>1 DEF Safe, Top, IsQueued, eventVars, dbVars
      <4> QED
        BY <4>1 DEF Passed, At
    <3>5. Listed'
      <4>1. Listed /\ \A x : OnStack({"free"}, x) => OnStack({"free"}, x)'
        BY <2>1, <3>1 DEF Safe, OnStack
      <4> QED
        BY <2>1, <4>1 DEF Listed, dbVars
    <3> QED
      BY <3>2, <3>3, <3>4, <3>5
  <2>4. \A i \in Len(stack) + 1 .. Len(stack) : FALSE
    BY Given
  <2>5. QueueConsistent' /\ NoLostNotification'
    BY <2>1, <2>2, <2>4, SameSignals DEF eventVars
  <2>6. TimerListSorted' /\ Noticed' /\ PeriodicStaysArmed'
    <3>1. IsQueued(CheckTimer) => IsQueued(CheckTimer)'
      BY <2>1 DEF IsQueued, eventVars
    <3> QED
      BY <2>1, <2>2, <2>4, <3>1, SameTimers DEF dbVars, clockVars
  <2> QED
    BY <1>1, <2>3, <2>5, <2>6 DEF KInv, Safe
<1> QED
  BY <1>2, <1>3

(* The call stack, the queues and the timer list keep the relations Safe   *)
(* states, for every set of events and every number of calls.              *)
THEOREM SafeInvariance == Spec => []KInv
<1>1. Init => KInv
  BY InitInv, InitSafe DEF KInv
<1> QED
  BY <1>1, NextSafe, PTL DEF Spec

-----------------------------------------------------------------------------
(* What follows. *)

(* A notification that was queued stays queued until it is dispatched, a   *)
(* signal leads to one, and no code holds an event that was freed while a  *)
(* callback ran (CoreSignalEvent, CoreNotifySignalList, CoreCloseEvent,    *)
(* CoreDispatchEventNotifies).                                             *)
THEOREM NotificationsHold == Spec => []NotificationsKept
<1>1. ASSUME KInv PROVE NotificationsKept
  <2>1. NoStaleEvent
    BY <1>1 DEF KInv, Safe, FramesSafe, FrameSafe, NoStaleEvent
  <2> QED
    BY <1>1, <2>1 DEF KInv, Safe, NotificationsKept
<1> QED
  BY <1>1, SafeInvariance, PTL

(* The timer list stays sorted, an expired timer is about to be noticed, a *)
(* periodic one stays armed, and nothing is dispatched while mEfiTimerLock *)
(* or the queue lock is held (CoreCheckTimers, CoreSetTimer,               *)
(* CoreTimerTick).                                                         *)
THEOREM TimersHold == Spec => []TimersServed
<1>1. ASSUME KInv PROVE TimersServed
  <2>1. NoDispatchUnderLock
    <3>1. ASSUME NEW i \in 1 .. Len(stack), NEW j \in 1 .. Len(stack), i < j,
                 stack[i].pc \in Fragile
          PROVE  stack[j].pc \in {"restore", "group", "rearm"}
      <4>1. PairsOK(stack)
        BY <1>1, Given
      <4> QED
        BY <3>1, <4>1 DEF PairsOK
    <3> QED
      BY <3>1 DEF NoDispatchUnderLock, Fragile
  <2>2. ExpiryNoticed
    <3> SUFFICES ASSUME Expired(now)
                 PROVE  IsQueued(CheckTimer) \/ OnStack({"start", "checkTimers", "rearm"}, CheckTimer)
      BY DEF ExpiryNoticed
    <3>1. IsQueued(CheckTimer) \/ OnStack({"start", "checkTimers"}, CheckTimer)
      BY <1>1 DEF KInv, Safe, Noticed
    <3> QED
      BY <3>1 DEF OnStack
  <2> QED
    BY <1>1, <2>1, <2>2 DEF KInv, Safe, TimersServed
<1> QED
  BY <1>1, SafeInvariance, PTL

(* Time that passes at HIGH is masked there and delivered whole, once, by  *)
(* CoreRestoreTpl; nothing else changes the sum of the time shown and the  *)
(* time masked but a client's advance, a poll and a reset.                 *)
THEOREM TimeHolds == Spec => TimeConserved
<1> DEFINE Conserves == \/ now' + masked' = now + masked
                        \/ At("client") \/ At("check")
<1>1. KInv => MaskedOnlyAtHigh
  BY DEF KInv, Safe
<1>2. ASSUME KInv, [Next]_vars PROVE [Conserves]_vars
  <2>1. CASE RestoreConsume
    <3>1. masked' = 0 /\ now' = now + masked
      BY <2>1 DEF RestoreConsume, CoreTimerTick
    <3>2. now \in Nat /\ masked \in Nat
      BY <1>2, Given DEF TypeOK
    <3> QED
      BY <3>1, <3>2
  <2>2. CASE \/ RestoreDispatch \/ RestoreDone \/ DispatchNext \/ DispatchDone
             \/ NotifyFunction \/ NotifyReturn
             \/ CheckTimersSignal \/ CheckTimersRearm \/ CheckTimersDone
             \/ GroupAcquire \/ GroupNotify \/ GroupDone
             \/ CheckReturn
             \/ WaitChecked \/ WaitCheck \/ WaitIdle \/ WaitGiveUp
             \/ CloseUnlink \/ CloseFree \/ AdvanceForce
    <3>1. UNCHANGED clockVars
      BY <2>2 DEF RestoreDispatch, RestoreDone, DispatchNext, DispatchDone, NotifyFunction,
            NotifyReturn, CheckTimersSignal, CheckTimersRearm, CheckTimersDone, GroupAcquire,
            GroupNotify, GroupDone, CheckReturn, WaitChecked, WaitCheck, WaitIdle, WaitGiveUp,
            CloseUnlink, CloseFree, AdvanceForce
    <3> QED
      BY <3>1 DEF clockVars
  <2>3. CASE CheckDecide
    BY <2>3 DEF CheckDecide
  <2>4. CASE Client
    BY <2>4 DEF Client, RaiseTpl, RestoreTpl, CoreCreateEvent, SignalEvent, CheckEvent, SetTimer,
          CoreCloseEvent, WaitForEvent, MockTimerAdvance, Call
  <2>5. CASE MockEventResetState
    BY <2>5 DEF MockEventResetState
  <2>6. CASE UNCHANGED vars
    BY <2>6
  <2> QED
    BY <1>2, <2>1, <2>2, <2>3, <2>4, <2>5, <2>6 DEF Next, Kernel
<1>3. Spec => []MaskedOnlyAtHigh
  BY <1>1, SafeInvariance, PTL
<1>4. Spec => [][Conserves]_vars
  BY <1>2, SafeInvariance, PTL DEF Spec
<1> QED
  BY <1>3, <1>4 DEF TimeConserved

-----------------------------------------------------------------------------
(* The event services implement NotifyScheduler. *)

(* A frame in which a notification runs, and what NotifyScheduler sees.    *)
Runner(f) == f.pc \in {"start", "client", "checkTimers", "empty"} /\ f.ev # NoEvent
RunsOn(s) ==
    { [ev |-> s[i].ev, level |-> s[i].tpl] : i \in { j \in 1 .. Len(s) : Runner(s[j]) } }

(* A notification function runs on the dispatcher that called it.          *)
Dispatched(s) == \A i \in 1 .. Len(s) : Runner(s[i]) => i > 1 /\ s[i - 1].pc = "dispatch"

(* The same notifications run on both stacks.                              *)
Alike(s, z) ==
    Dispatched(s) => Dispatched(z) /\ RunsOn(z) = RunsOn(s)

LEMMA SameRuns ==
    ASSUME NEW s, NEW z, NEW m, Len(s) \in Nat, Stays(s, z, m),
           \A i \in m + 1 .. Len(s) : ~Runner(s[i]),
           \A i \in m + 1 .. Len(z) : ~Runner(z[i])
    PROVE  Alike(s, z)
<1>1. m \in Nat /\ m <= Len(s) /\ m <= Len(z) /\ Len(z) \in Nat
  BY DEF Stays
<1>2. \A i \in 1 .. Len(s) : Runner(s[i]) => i \in 1 .. m
  BY <1>1
<1>3. \A i \in 1 .. Len(z) : Runner(z[i]) => i \in 1 .. m
  BY <1>1
<1>4. \A i \in 1 .. m : z[i] = s[i]
  BY DEF Stays
<1>5. ASSUME Dispatched(s) PROVE Dispatched(z)
  BY <1>1, <1>3, <1>4, <1>5 DEF Dispatched
<1>6. { j \in 1 .. Len(z) : Runner(z[j]) } = { j \in 1 .. Len(s) : Runner(s[j]) }
  BY <1>1, <1>2, <1>3, <1>4
<1>7. \A j \in { k \in 1 .. Len(s) : Runner(s[k]) } : z[j] = s[j]
  BY <1>2, <1>4
<1>8. RunsOn(z) = RunsOn(s)
  BY <1>6, <1>7 DEF RunsOn
<1> QED
  BY <1>5, <1>8 DEF Alike

LEMMA AlikeTwice ==
    ASSUME NEW s, NEW y, NEW z, Alike(s, y), Alike(y, z)
    PROVE  Alike(s, z)
BY DEF Alike

(* Frames in which no notification runs come and go.                       *)
LEMMA Comings ==
    ASSUME NEW s, Len(s) \in Nat
    PROVE  /\ Alike(s, s)
           /\ \A t : Alike(s, Restore(s, t)) /\ Len(Restore(s, t)) = Len(s) + 1
           /\ \A f : ~Runner(f) => Alike(s, Append(s, f)) /\ Len(Append(s, f)) = Len(s) + 1
           /\ \A f, t : ~Runner(f) => Alike(s, Restore(Append(s, f), t))
<1>1. ASSUME NEW y, Len(y) \in Nat, NEW f, ~Runner(f)
      PROVE  Alike(y, Append(y, f)) /\ Len(Append(y, f)) = Len(y) + 1
  <2>1. /\ Len(Append(y, f)) = Len(y) + 1 /\ Append(y, f)[Len(y) + 1] = f
        /\ \A i \in 1 .. Len(y) : Append(y, f)[i] = y[i]
    BY <1>1
  <2>2. Stays(y, Append(y, f), Len(y))
    BY <1>1, <2>1 DEF Stays
  <2>3. \A i \in Len(y) + 1 .. Len(Append(y, f)) : ~Runner(Append(y, f)[i])
    BY <1>1, <2>1
  <2>4. \A i \in Len(y) + 1 .. Len(y) : ~Runner(y[i])
    BY <1>1
  <2>5. Alike(y, Append(y, f))
    BY <1>1, <2>2, <2>3, <2>4, SameRuns
  <2> QED
    BY <2>1, <2>5
<1>2. \A t : ~Runner(Frame("restore", t, NoEvent, 0))
  BY DEF Runner, Frame
<1>3. ASSUME NEW y, Len(y) \in Nat, NEW t
      PROVE  Alike(y, Restore(y, t)) /\ Len(Restore(y, t)) = Len(y) + 1
  BY <1>1, <1>2, <1>3 DEF Restore
<1>4. ASSUME NEW f, NEW t, ~Runner(f)
      PROVE  Alike(s, Restore(Append(s, f), t))
  <2>1. Alike(s, Append(s, f)) /\ Len(Append(s, f)) \in Nat
    BY <1>1, <1>4
  <2>2. Alike(Append(s, f), Restore(Append(s, f), t))
    BY <1>3, <2>1
  <2> QED
    BY <2>1, <2>2, AlikeTwice
<1>5. Alike(s, s)
  BY DEF Alike
<1> QED
  BY <1>1, <1>3, <1>4, <1>5

(* The innermost frame goes, restores and another frame may follow it.     *)
LEMMA Goings ==
    ASSUME NEW s \in Seq(FrameType), s # <<>>, ~Runner(s[Len(s)])
    PROVE  /\ Alike(s, Front(s))
           /\ \A t : Alike(s, Restore(Front(s), t)) /\ Alike(s, Restore(Restore(Front(s), t), t))
           /\ \A f : ~Runner(f) => Alike(s, Append(Front(s), f))
           /\ \A f, t : ~Runner(f) => Alike(s, Restore(Append(Front(s), f), t))
<1> PICK y : y = Front(s)
  OBVIOUS
<1>1. /\ Len(s) \in Nat /\ Len(s) > 0 /\ Len(y) = Len(s) - 1
      /\ \A i \in 1 .. Len(s) - 1 : y[i] = s[i]
  BY CutShapes, Levels
<1>2. Stays(s, y, Len(s) - 1)
  BY <1>1 DEF Stays
<1>3. /\ \A i \in (Len(s) - 1) + 1 .. Len(s) : ~Runner(s[i])
      /\ \A i \in (Len(s) - 1) + 1 .. Len(y) : ~Runner(y[i])
  BY <1>1
<1>4. Alike(s, y)
  BY <1>1, <1>2, <1>3, SameRuns
<1>5. ASSUME NEW t
      PROVE  Alike(s, Restore(y, t)) /\ Alike(s, Restore(Restore(y, t), t))
  <2> PICK x : x = Restore(y, t)
    OBVIOUS
  <2>1. Alike(y, x) /\ Len(x) \in Nat
    BY <1>1, Comings
  <2>2. Alike(x, Restore(x, t))
    BY <2>1, Comings
  <2> QED
    BY <1>4, <2>1, <2>2, AlikeTwice
<1>6. ASSUME NEW f, ~Runner(f)
      PROVE  Alike(s, Append(y, f)) /\ \A t : Alike(s, Restore(Append(y, f), t))
  <2>1. Alike(y, Append(y, f)) /\ \A t : Alike(y, Restore(Append(y, f), t))
    BY <1>1, <1>6, Comings
  <2> QED
    BY <1>4, <2>1, AlikeTwice
<1> QED
  BY <1>4, <1>5, <1>6

(* What a step does to the queues, unless it dispatches or drops.          *)
Posts ==
    \/ queue' = queue
    \/ \E e \in Events : attr[e].tpl \in NotifyTpls /\ queue' = NotifyQueue(e)

Calm == Posts /\ Alike(stack, stack')

LEMMA Needing ==
    ASSUME IInv, NEW e \in Events, attr[e].type \cap {"WAIT", "SIGNAL"} # {}
    PROVE  attr[e].tpl \in NotifyTpls
BY DEF IInv, TypeOK, Attribute, NeedsNotify

LEMMA CheckTimerPosts ==
    ASSUME IInv, SignalCheckTimer
    PROVE  Posts
<1>1. CheckTimer \in Events /\ attr[CheckTimer].type \cap {"WAIT", "SIGNAL"} # {}
  BY DEF IInv, InternalOK, InternalAttr, Events
<1>2. attr[CheckTimer].tpl \in NotifyTpls
  BY <1>1, Needing
<1> QED
  BY <1>1, <1>2 DEF SignalCheckTimer, CoreNotifyEvent, Posts

LEMMA TickPosts ==
    ASSUME IInv, NEW d, CoreTimerTick(d)
    PROVE  Posts
BY CheckTimerPosts DEF CoreTimerTick, eventVars, Posts

LEMMA SignalCalm ==
    ASSUME IInv, NEW s, Len(s) \in Nat, NEW t, NEW e \in Events, CoreSignalEvent(s, t, e)
    PROVE  Posts /\ Alike(s, stack')
<1>1. CASE /\ "SIGNAL" \in attr[e].type /\ CoreNotifyEvent(e) /\ stack' = Restore(s, t)
  <2>1. attr[e].tpl \in NotifyTpls
    BY <1>1, Needing
  <2> QED
    BY <1>1, <2>1, Comings DEF CoreNotifyEvent, Posts
<1>2. CASE stack' = Restore(s, t) /\ queue' = queue
  BY <1>2, Comings DEF Posts
<1>3. CASE stack' = Restore(Append(s, Frame("group", t, e, 0)), t) /\ queue' = queue
  <2>1. ~Runner(Frame("group", t, e, 0))
    BY DEF Runner, Frame
  <2> QED
    BY <1>3, <2>1, Comings DEF Posts
<1> QED
  BY <1>1, <1>2, <1>3 DEF CoreSignalEvent

LEMMA CheckCalm ==
    ASSUME IInv, NEW e \in Events, CheckCall(stack, e)
    PROVE  Calm
<1>1. Len(stack) \in Nat
  BY Stacked
<1>2. ~Runner(Frame("check", tpl, e, 0))
  BY DEF Runner, Frame
<1>3. CASE /\ "WAIT" \in attr[e].type /\ CoreNotifyEvent(e)
           /\ stack' = Restore(Append(stack, Frame("check", tpl, e, 0)), tpl)
  <2>1. attr[e].tpl \in NotifyTpls
    BY <1>3, Needing
  <2> QED
    BY <1>1, <1>2, <1>3, <2>1, Comings DEF CoreNotifyEvent, Posts, Calm
<1>4. CASE stack' = Append(stack, Frame("check", tpl, e, 0)) /\ queue' = queue
  BY <1>1, <1>2, <1>4, Comings DEF Posts, Calm
<1> QED
  BY <1>3, <1>4 DEF CheckCall

(* The steps of the kernel at which no notification begins or ends and     *)
(* nothing is withdrawn.                                                   *)
LEMMA KernelCalm ==
    ASSUME KInv,
           \/ RestoreConsume \/ RestoreDispatch \/ RestoreDone \/ DispatchDone
           \/ CheckTimersSignal \/ CheckTimersRearm
           \/ GroupAcquire \/ GroupNotify \/ GroupDone
           \/ CheckDecide \/ CheckReturn
           \/ WaitChecked \/ WaitCheck \/ WaitIdle \/ WaitGiveUp
           \/ CloseFree \/ AdvanceForce
    PROVE  Calm
<1>1. /\ IInv /\ stack \in Seq(FrameType) /\ stack # <<>> /\ Len(stack) \in Nat /\ Len(stack) > 0
      /\ Top = stack[Len(stack)] /\ Top \in FrameType /\ FrameOK(Top)
  BY Given
<1>2. Top.pc \notin {"start", "client", "checkTimers", "empty"} =>
        /\ Alike(stack, Below)
        /\ \A t : Alike(stack, Restore(Below, t)) /\ Alike(stack, Restore(Restore(Below, t), t))
        /\ \A f : f.pc \notin {"start", "client", "checkTimers", "empty"} =>
              Alike(stack, Append(Below, f)) /\ \A t : Alike(stack, Restore(Append(Below, f), t))
  BY <1>1, Goings DEF Runner, Below
<1>3. /\ Alike(stack, stack)
      /\ \A f : f.pc \notin {"start", "client", "checkTimers", "empty"} => Alike(stack, Append(stack, f))
  BY <1>1, Comings DEF Runner
<1>4. CASE RestoreConsume
  BY <1>1, <1>3, <1>4, TickPosts DEF RestoreConsume, Calm
<1>5. CASE RestoreDispatch
  BY <1>3, <1>5 DEF RestoreDispatch, Calm, Posts, eventVars, Frame
<1>6. CASE RestoreDone \/ DispatchDone \/ CheckReturn \/ WaitGiveUp \/ CloseFree \/ AdvanceForce
  BY <1>2, <1>6 DEF RestoreDone, DispatchDone, CheckReturn, WaitGiveUp, CloseFree, AdvanceForce,
     At, Calm, Posts, eventVars
<1>7. CASE CheckTimersSignal
  <2> PICK e, g, y : /\ e = Head(timerList) /\ g = Frame("rearm", TIMER, e, Top.n)
                     /\ y = Append(stack, g)
    OBVIOUS
  <2>1. e \in Events
    <3>1. timerList \in Seq(Events) /\ timerList # <<>>
      BY <1>1, <1>7 DEF IInv, TypeOK, CheckTimersSignal, Expired
    <3> QED
      BY <3>1, EmptySeq, LenProperties, ElementOfSeq
  <2>2. CoreSignalEvent(y, TIMER, e)
    BY <1>7 DEF CheckTimersSignal
  <2>3. Len(y) \in Nat /\ Alike(stack, y)
    BY <1>1, <1>3, Comings DEF Frame
  <2>4. Posts /\ Alike(y, stack')
    BY <1>1, <2>1, <2>2, <2>3, SignalCalm
  <2> QED
    BY <2>3, <2>4, AlikeTwice DEF Calm
<1>8. CASE CheckTimersRearm
  <2>1. Posts
    BY <1>1, <1>8, CheckTimerPosts DEF CheckTimersRearm, Posts, eventVars
  <2> QED
    BY <1>2, <1>8, <2>1 DEF CheckTimersRearm, At, Calm
<1>9. CASE GroupAcquire \/ GroupNotify \/ GroupDone
  <2> PICK f, g : f = [Top EXCEPT !.n = 1] /\ g = [Top EXCEPT !.n = @ + 1]
    OBVIOUS
  <2>1. Top.pc = "group" /\ f.pc = "group" /\ g.pc = "group"
    BY <1>1, <1>9 DEF GroupAcquire, GroupNotify, GroupDone, At, FrameType
  <2>2. Alike(stack, stack')
    BY <1>2, <1>9, <2>1 DEF GroupAcquire, GroupNotify, GroupDone
  <2>3. CASE GroupNotify
    <3>1. signalList \in Seq(Events) /\ SignalListOK
      BY <1>1 DEF IInv, TypeOK
    <3>2. Top.n \in 1 .. Len(signalList)
      BY <2>3 DEF GroupNotify
    <3>3. signalList[Top.n] \in Events /\ "SIGNAL" \in attr[signalList[Top.n]].type
      BY <3>1, <3>2, ElementOfSeq DEF SignalListOK
    <3>4. attr[signalList[Top.n]].tpl \in NotifyTpls
      BY <1>1, <3>3, Needing
    <3> QED
      BY <2>2, <2>3, <3>3, <3>4 DEF GroupNotify, CoreNotifyEvent, Posts, Calm
  <2> QED
    BY <1>9, <2>2, <2>3 DEF GroupAcquire, GroupDone, eventVars, Posts, Calm
<1>10. CASE CheckDecide
  <2> PICK f, g : /\ f = [[Top EXCEPT !.pc = "checkReturn"] EXCEPT !.n = 1]
                  /\ g = [[Top EXCEPT !.pc = "checkReturn"] EXCEPT !.n = 0]
    OBVIOUS
  <2>1. Top.pc = "check" /\ f.pc = "checkReturn" /\ g.pc = "checkReturn"
    BY <1>1, <1>10 DEF CheckDecide, At, FrameType
  <2>2. \/ stack' = Restore(Append(Below, f), tpl) \/ stack' = Restore(Append(Below, g), tpl)
        \/ stack' = Append(Below, g)
    BY <1>10 DEF CheckDecide
  <2>3. Posts
    BY <1>1, <1>10, TickPosts DEF CheckDecide, Posts, eventVars
  <2> QED
    BY <1>2, <2>1, <2>2, <2>3 DEF Calm
<1>11. CASE WaitChecked
  <2>1. Posts /\ Top.pc = "checkReturn" /\ InWait
    BY <1>11 DEF WaitChecked, Posts, eventVars, At
  <2>2. CASE stack' = Below
    BY <1>2, <2>1, <2>2 DEF Calm
  <2>3. CASE stack' = SubSeq(stack, 1, Len(stack) - 2)
    <3>1. Len(stack) > 1 /\ stack[Len(stack) - 1].pc = "wait"
      BY <2>1 DEF InWait
    <3>2. /\ Len(stack') = Len(stack) - 2
          /\ \A i \in 1 .. Len(stack) - 2 : stack'[i] = stack[i]
      <4> PICK n : n = Len(stack) - 2
        OBVIOUS
      <4>1. n \in Int /\ n >= 0 /\ n <= Len(stack)
        BY <1>1, <3>1
      <4>2. Len(SubSeq(stack, 1, n)) = n /\ \A i \in 1 .. n : SubSeq(stack, 1, n)[i] = stack[i]
        BY <1>1, <4>1
      <4> QED
        BY <2>3, <4>2
    <3>3. Stays(stack, stack', Len(stack) - 2)
      BY <1>1, <3>1, <3>2 DEF Stays
    <3>4. \A i \in (Len(stack) - 2) + 1 .. Len(stack) : ~Runner(stack[i])
      BY <1>1, <2>1, <3>1 DEF Runner
    <3>5. \A i \in (Len(stack) - 2) + 1 .. Len(stack') : ~Runner(stack'[i])
      BY <1>1, <3>2
    <3> QED
      BY <1>1, <2>1, <3>3, <3>4, <3>5, SameRuns DEF Calm
  <2> QED
    BY <1>11, <2>2, <2>3 DEF WaitChecked
<1>12. CASE WaitCheck
  <2> PICK e : e = wait.evs[wait.idx]
    OBVIOUS
  <2>1. e \in Events
    BY <1>1, <1>12, ElementOfSeq DEF IInv, TypeOK, WaitCheck, Events
  <2>2. Top.pc = "wait"
    BY <1>12 DEF WaitCheck, At
  <2>3. CheckCall(stack, e) => Calm
    BY <1>1, <2>1, CheckCalm
  <2> QED
    BY <1>2, <1>12, <2>2, <2>3 DEF WaitCheck, Calm, Posts
<1>13. CASE WaitIdle
  <2>1. Idle \in Events /\ CoreSignalEvent(stack, tpl, Idle)
    BY <1>13 DEF WaitIdle, Events
  <2> QED
    BY <1>1, <2>1, SignalCalm DEF Calm
<1> QED
  BY <1>4, <1>5, <1>6, <1>7, <1>8, <1>9, <1>10, <1>11, <1>12, <1>13

(* The calls of clients begin and end no notification either.              *)
LEMMA ClientCalm ==
    ASSUME KInv, Client
    PROVE  Calm
<1>1. IInv /\ Len(stack) \in Nat
  BY Given
<1>2. /\ Alike(stack, stack) /\ \A t : Alike(stack, Restore(stack, t))
      /\ \A f : ~Runner(f) =>
            Alike(stack, Append(stack, f)) /\ \A t : Alike(stack, Restore(Append(stack, f), t))
  BY <1>1, Comings
<1>3. ASSUME NEW p \in {"wait", "unlink", "force"}, NEW t, NEW e, NEW n
      PROVE  ~Runner(Frame(p, t, e, n))
  BY DEF Runner, Frame
<1>4. ASSUME NEW t \in UserTpls, RaiseTpl(t) \/ RestoreTpl(t) PROVE Calm
  BY <1>2, <1>4 DEF RaiseTpl, RestoreTpl, Calm, Posts, eventVars
<1>5. ASSUME NEW e \in UserEvents, NEW r \in Requests, CoreCreateEvent(e, r) PROVE Calm
  BY <1>2, <1>5 DEF CoreCreateEvent, Calm, Posts
<1>6. ASSUME NEW e \in UserEvents, SignalEvent(e) PROVE Calm
  <2>1. e \in Events /\ CoreSignalEvent(stack, tpl, e)
    BY <1>6 DEF SignalEvent, Events
  <2> QED
    BY <1>1, <2>1, SignalCalm DEF Calm
<1>7. ASSUME NEW e \in UserEvents, CheckEvent(e) PROVE Calm
  <2>1. e \in Events
    BY DEF Events
  <2>2. CheckCall(stack, e) => Calm
    BY <1>1, <2>1, CheckCalm
  <2> QED
    BY <1>2, <1>7, <2>2 DEF CheckEvent, Calm, Posts
<1>8. ASSUME NEW e \in UserEvents, NEW k, NEW d, SetTimer(e, k, d) PROVE Calm
  <2>1. SignalCheckTimer => Posts
    BY <1>1, CheckTimerPosts
  <2>2. Posts
    BY <1>8, <2>1 DEF SetTimer, Posts, eventVars
  <2>3. Alike(stack, stack')
    BY <1>2, <1>8 DEF SetTimer
  <2> QED
    BY <2>2, <2>3 DEF Calm
<1>9. ASSUME NEW e \in UserEvents, CoreCloseEvent(e) PROVE Calm
  BY <1>2, <1>3, <1>9 DEF CoreCloseEvent, Calm, Posts, eventVars
<1>10. ASSUME NEW l \in WaitLists, WaitForEvent(l) PROVE Calm
  BY <1>2, <1>3, <1>10 DEF WaitForEvent, Calm, Posts, eventVars
<1>11. ASSUME NEW d \in Durations, MockTimerAdvance(d) PROVE Calm
  <2>1. CoreTimerTick(d) => Posts
    BY <1>1, TickPosts
  <2> QED
    BY <1>2, <1>3, <1>11, <2>1 DEF MockTimerAdvance, Calm, Posts, eventVars
<1> QED
  BY <1>4, <1>5, <1>6, <1>7, <1>8, <1>9, <1>10, <1>11 DEF Client

LEMMA RunningRuns ==
    /\ Running = RunsOn(stack)
    /\ Running' = RunsOn(stack')
BY DEF Running, RunsOn, Runner

(* Both modules mean the same by these operators on lists.                 *)
LEMMA SameLists ==
    \A s, e : /\ Scheduler!RemoveFirst(s, e) = RemoveFirst(s, e)
             /\ Scheduler!Contains(s, e) = Contains(s, e)
BY DEF Scheduler!RemoveFirst, Scheduler!RemoveAt, Scheduler!SelectInSeq, Scheduler!Min, Scheduler!Contains,
       RemoveFirst, RemoveAt, SelectInSeq, Min, Contains

LEMMA CalmMaps ==
    ASSUME KInv, Dispatched(stack), Calm
    PROVE  Dispatched(stack') /\ [Scheduler!Next]_<<queue, Running>>
<1>1. Dispatched(stack') /\ Running' = Running
  BY RunningRuns DEF Calm, Alike
<1>2. CASE queue' = queue
  BY <1>1, <1>2
<1>3. ASSUME NEW e \in Events, attr[e].tpl \in NotifyTpls, queue' = NotifyQueue(e)
      PROVE  Scheduler!Post(e, attr[e].tpl)
  <2>1. \A k \in NotifyTpls \ {attr[e].tpl} : ~Contains(queue[k], e)
    BY DEF KInv, Safe, QueueConsistent, Contains
  <2> QED
    BY <1>1, <1>3, <2>1, SameLists DEF Scheduler!Post, NotifyQueue
<1> QED
  BY <1>1, <1>2, <1>3 DEF Calm, Posts, Scheduler!Next

(* The dispatcher begins the notification it was to begin next.            *)
LEMMA DispatchNextMaps ==
    ASSUME KInv, Dispatched(stack), DispatchNext
    PROVE  Dispatched(stack') /\ Scheduler!Next
<1> PICK l, e : l = Top.tpl /\ e = Head(queue[Top.tpl])
  OBVIOUS
<1>1. /\ IInv /\ Len(stack) \in Nat /\ Len(stack) > 0 /\ Top = stack[Len(stack)]
      /\ Top.pc = "dispatch" /\ FrameOK(Top) /\ LevelOK(Top, tpl) /\ Quiet(tpl)
  BY Given DEF DispatchNext, At
<1>2. l \in NotifyTpls /\ tpl = l /\ queue[l] # <<>>
  BY <1>1 DEF FrameOK, LevelOK, DispatchNext
<1>3. e \in Events /\ e # NoEvent
  <2>1. queue[l] \in Seq(Events)
    BY <1>1, <1>2 DEF IInv, TypeOK
  <2>2. e \in Events
    BY <1>2, <2>1, EmptySeq, LenProperties, ElementOfSeq
  <2> QED
    BY <2>2, EventCoreAssumption
<1>4. \A k \in NotifyTpls : k > l => queue[k] = <<>>
  <2>1. \A k \in NotifyTpls : queue[k] # <<>> => k <= l
    BY <1>1, <1>2 DEF KInv, Safe, QueueConsistent, Quiet
  <2> QED
    BY <1>2, <2>1, Levels DEF NotifyTpls, CALLBACK, NOTIFY, TIMER
<1> PICK y, f : f = Frame("start", l, e, 0) /\ y = Append(stack, f)
  OBVIOUS
<1>5. /\ Len(y) = Len(stack) + 1 /\ y[Len(stack) + 1] = f
      /\ \A i \in 1 .. Len(stack) : y[i] = stack[i]
  BY <1>1
<1>6. Runner(f) /\ f.ev = e /\ f.tpl = l
  BY <1>3 DEF Runner, Frame
<1>7. Dispatched(y)
  BY <1>1, <1>5, <1>6 DEF Dispatched
<1>8. RunsOn(y) = RunsOn(stack) \cup {[ev |-> e, level |-> l]}
  <2>1. { j \in 1 .. Len(y) : Runner(y[j]) } = { j \in 1 .. Len(stack) : Runner(stack[j]) } \cup {Len(stack) + 1}
    BY <1>1, <1>5, <1>6
  <2> QED
    BY <1>1, <1>5, <1>6, <2>1 DEF RunsOn
<1>9. /\ stack' = Restore(y, l) /\ queue' = [queue EXCEPT ![l] = Tail(@)]
  BY DEF DispatchNext
<1>10. Dispatched(stack') /\ RunsOn(stack') = RunsOn(y)
  BY <1>1, <1>5, <1>7, <1>9, Comings DEF Alike
<1>11. \A r \in RunsOn(stack) : r.level < l
  <2>1. \A i \in 1 .. Len(stack) : i < Len(stack) => stack[i].tpl < l
    <3>1. StackOK(stack)
      BY <1>1 DEF IInv
    <3> QED
      BY <1>1, <3>1, RisingLevels DEF NestingRises
  <2>2. ~Runner(stack[Len(stack)])
    BY <1>1 DEF Runner
  <2>3. \A i \in { j \in 1 .. Len(stack) : Runner(stack[j]) } : stack[i].tpl < l
    BY <1>1, <2>1, <2>2
  <2> QED
    BY <2>3 DEF RunsOn
<1>12. Scheduler!Begin(l)
  BY <1>2, <1>4, <1>8, <1>9, <1>10, <1>11, RunningRuns DEF Scheduler!Begin
<1> QED
  BY <1>2, <1>10, <1>12 DEF Scheduler!Next

(* Entering the notification function begins and ends nothing.             *)
LEMMA NotifyFunctionMaps ==
    ASSUME KInv, Dispatched(stack), NotifyFunction
    PROVE  Dispatched(stack') /\ UNCHANGED <<queue, Running>>
<1> PICK f : stack' = Append(Below, f) /\ f \in { [Top EXCEPT !.pc = "checkTimers", !.n = now],
             [Top EXCEPT !.pc = "empty"], [Top EXCEPT !.pc = "client"] }
  BY DEF NotifyFunction
<1>1. /\ Len(stack) \in Nat /\ Len(stack) > 0 /\ Top = stack[Len(stack)]
      /\ Top \in FrameType /\ Top.pc = "start" /\ FrameOK(Top)
  BY Given DEF NotifyFunction, At
<1>2. Top.ev \in Events /\ Top.ev # NoEvent
  BY <1>1, EventCoreAssumption DEF FrameOK
<1>3. Runner(f) /\ f.ev = Top.ev /\ f.tpl = Top.tpl
  BY <1>1, <1>2 DEF Runner, FrameType
<1>4. /\ Len(stack') = Len(stack) /\ stack'[Len(stack)] = f
      /\ \A i \in 1 .. Len(stack) - 1 : stack'[i] = stack[i]
  <2> PICK y : y = Front(stack)
    OBVIOUS
  <2>1. Len(y) = Len(stack) - 1 /\ \A i \in 1 .. Len(stack) - 1 : y[i] = stack[i]
    BY Given, CutShapes
  <2>2. /\ Len(Append(y, f)) = Len(y) + 1 /\ Append(y, f)[Len(y) + 1] = f
        /\ \A i \in 1 .. Len(y) : Append(y, f)[i] = y[i]
    BY <1>1, <2>1
  <2> QED
    BY <1>1, <2>1, <2>2 DEF Below
<1>5. Runner(stack[Len(stack)])
  BY <1>1, <1>2 DEF Runner
<1>6. Dispatched(stack')
  BY <1>1, <1>4, <1>5 DEF Dispatched
<1>7. { j \in 1 .. Len(stack') : Runner(stack'[j]) } = { j \in 1 .. Len(stack) : Runner(stack[j]) }
  BY <1>1, <1>3, <1>4, <1>5
<1>8. \A j \in 1 .. Len(stack) : stack'[j].ev = stack[j].ev /\ stack'[j].tpl = stack[j].tpl
  BY <1>1, <1>3, <1>4
<1>9. RunsOn(stack') = RunsOn(stack)
  BY <1>7, <1>8 DEF RunsOn
<1> QED
  BY <1>6, <1>9, RunningRuns DEF NotifyFunction, eventVars

(* The innermost notification ends when its function returns.              *)
LEMMA ReturnMaps ==
    ASSUME KInv, Dispatched(stack), NotifyReturn \/ CheckTimersDone
    PROVE  Dispatched(stack') /\ [Scheduler!Next]_<<queue, Running>>
<1>1. /\ IInv /\ stack \in Seq(FrameType) /\ stack # <<>> /\ Len(stack) \in Nat /\ Len(stack) > 0
      /\ Top = stack[Len(stack)]
      /\ \A i \in 1 .. Len(stack) : stack[i].tpl <= Top.tpl /\ stack[i].tpl \in Nat
  BY Given, Stacked
<1>2. queue' = queue /\ (stack' = Below \/ stack' = Restore(Below, TIMER))
  BY DEF NotifyReturn, CheckTimersDone, eventVars
<1>3. CASE ~Runner(Top)
  <2>1. Alike(stack, Below) /\ \A t : Alike(stack, Restore(Below, t))
    BY <1>1, <1>3, Goings DEF Below
  <2> QED
    BY <1>2, <2>1, RunningRuns DEF Alike
<1>4. CASE Runner(Top)
  <2> PICK y, r : y = Below /\ r = [ev |-> Top.ev, level |-> Top.tpl]
    OBVIOUS
  <2>1. Len(y) = Len(stack) - 1 /\ \A i \in 1 .. Len(stack) - 1 : y[i] = stack[i]
    BY <1>1, CutShapes, Levels DEF Below
  <2>2. Dispatched(y)
    BY <1>1, <2>1 DEF Dispatched
  <2>3. Dispatched(stack') /\ RunsOn(stack') = RunsOn(y)
    BY <1>1, <1>2, <2>1, <2>2, Comings DEF Alike
  <2>4. \A i \in 1 .. Len(stack) : i < Len(stack) /\ Runner(stack[i]) => stack[i].tpl < Top.tpl
    <3>1. Len(stack) > 1 /\ stack[Len(stack) - 1].pc = "dispatch"
      BY <1>1, <1>4 DEF Dispatched
    <3>2. \A i \in 1 .. Len(stack) : i < Len(stack) - 1 => stack[i].tpl < stack[Len(stack) - 1].tpl
      BY <1>1, <3>1, RisingLevels DEF NestingRises
    <3>3. stack[Len(stack) - 1].tpl <= Top.tpl /\ ~Runner(stack[Len(stack) - 1])
      BY <1>1, <3>1 DEF Runner
    <3>4. \A i \in 1 .. Len(stack) : i < Len(stack) => i < Len(stack) - 1 \/ i = Len(stack) - 1
      BY <1>1
    <3> QED
      BY <1>1, <3>1, <3>2, <3>3, <3>4
  <2>5. RunsOn(y) = RunsOn(stack) \ {r}
    <3>1. { j \in 1 .. Len(y) : Runner(y[j]) } = { j \in 1 .. Len(stack) : Runner(stack[j]) } \ {Len(stack)}
      BY <1>1, <2>1
    <3>2. \A j \in { k \in 1 .. Len(y) : Runner(y[k]) } : y[j] = stack[j] /\ stack[j].tpl # Top.tpl
      BY <1>1, <2>1, <2>4
    <3> QED
      BY <1>1, <1>4, <3>1, <3>2 DEF RunsOn
  <2>6. r \in RunsOn(stack)
    BY <1>1, <1>4 DEF RunsOn
  <2>7. \A q \in RunsOn(stack) : q.level <= r.level
    BY <1>1 DEF RunsOn
  <2>8. Scheduler!End(r) /\ r \in Running
    BY <1>2, <2>3, <2>5, <2>6, <2>7, RunningRuns DEF Scheduler!End
  <2> QED
    BY <2>3, <2>8 DEF Scheduler!Next
<1> QED
  BY <1>3, <1>4

(* Closing an event withdraws its notification.                            *)
LEMMA CloseUnlinkMaps ==
    ASSUME KInv, Dispatched(stack), CloseUnlink
    PROVE  Dispatched(stack') /\ Scheduler!Next
<1>1. /\ stack \in Seq(FrameType) /\ stack # <<>> /\ Top = stack[Len(stack)] /\ Top \in FrameType
      /\ Top.pc = "unlink" /\ FrameOK(Top)
  BY Given DEF CloseUnlink, At
<1> PICK f : f = [Top EXCEPT !.pc = "free"]
  OBVIOUS
<1>2. ~Runner(f) /\ ~Runner(stack[Len(stack)])
  BY <1>1 DEF Runner, FrameType
<1>3. stack' = Restore(Append(Below, f), tpl)
  BY DEF CloseUnlink
<1>4. Dispatched(stack') /\ Running' = Running
  BY <1>1, <1>2, <1>3, Goings, RunningRuns DEF Alike, Below
<1>5. Top.ev \in Events
  BY <1>1 DEF FrameOK
<1>6. Scheduler!Withdraw(Top.ev)
  BY <1>4, SameLists DEF CloseUnlink, Scheduler!Withdraw
<1> QED
  BY <1>4, <1>5, <1>6 DEF Scheduler!Next

LEMMA InitMaps == Init => Dispatched(stack) /\ Scheduler!Init
<1> SUFFICES ASSUME Init PROVE Dispatched(stack) /\ Scheduler!Init
  OBVIOUS
<1>1. Len(stack) = 1 /\ stack[1].ev = NoEvent
  BY DEF Init, Frame
<1>2. { j \in 1 .. Len(stack) : Runner(stack[j]) } = {}
  BY <1>1 DEF Runner
<1>3. Running = {} /\ Dispatched(stack)
  BY <1>2, RunningRuns DEF RunsOn, Dispatched
<1> QED
  BY <1>3 DEF Init, Scheduler!Init

(* Between two iterations everything that was posted is dropped.           *)
LEMMA ResetMaps ==
    ASSUME KInv, Dispatched(stack), MockEventResetState
    PROVE  Dispatched(stack') /\ Scheduler!Next
<1>1. StackOK(stack) /\ Len(stack) = 1
  BY DEF KInv, IInv, MockEventResetState
<1>2. { j \in 1 .. Len(stack) : Runner(stack[j]) } = {}
  BY <1>1 DEF Runner, StackOK, Bottom, Frame
<1>3. Running = {} /\ Running' = Running /\ Dispatched(stack')
  BY <1>2, RunningRuns DEF RunsOn, MockEventResetState
<1> QED
  BY <1>3 DEF MockEventResetState, Scheduler!Reset, Scheduler!Next

(* Events post, are withdrawn and run as NotifyScheduler allows: highest   *)
(* level first, in the order posted, nested only at rising levels, each    *)
(* once (CoreNotifyEvent, CoreDispatchEventNotifies, CoreRestoreTpl,       *)
(* CoreCloseEvent).                                                        *)
THEOREM EventsImplementScheduler == Spec => ImplementsScheduler
<1>1. Init => Dispatched(stack) /\ Scheduler!Init
  BY InitMaps
<1>2. ASSUME KInv, Dispatched(stack), [Next]_vars
      PROVE  Dispatched(stack)' /\ [Scheduler!Next]_<<queue, Running>>
  <2>1. Calm => Dispatched(stack') /\ [Scheduler!Next]_<<queue, Running>>
    BY <1>2, CalmMaps
  <2>2. CASE UNCHANGED vars
    BY <1>2, <2>2, RunningRuns DEF vars, eventVars
  <2>3. CASE Client
    BY <1>2, <2>1, <2>3, ClientCalm
  <2>4. CASE Kernel
    <3>1. CASE DispatchNext
      BY <1>2, <3>1, DispatchNextMaps
    <3>2. CASE NotifyFunction
      BY <1>2, <3>2, NotifyFunctionMaps
    <3>3. CASE NotifyReturn \/ CheckTimersDone
      BY <1>2, <3>3, ReturnMaps
    <3>4. CASE CloseUnlink
      BY <1>2, <3>4, CloseUnlinkMaps
    <3>5. CASE ~(DispatchNext \/ NotifyFunction \/ NotifyReturn \/ CheckTimersDone \/ CloseUnlink)
      BY <1>2, <2>1, <2>4, <3>5, KernelCalm DEF Kernel
    <3> QED
      BY <3>1, <3>2, <3>3, <3>4, <3>5
  <2>5. CASE MockEventResetState
    BY <1>2, <2>5, ResetMaps
  <2> QED
    BY <1>2, <2>2, <2>3, <2>4, <2>5 DEF Next
<1> QED
  BY <1>1, <1>2, SafeInvariance, PTL DEF Spec, ImplementsScheduler, Scheduler!Spec
=============================================================================
