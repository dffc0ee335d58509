--------------------------- MODULE NotifyScheduler ---------------------------
(***************************************************************************)
(* What the event services promise about notifications: posted events run  *)
(* one level at a time, the highest level first, in the order they were    *)
(* posted; a running notification is interrupted only by one of a higher   *)
(* level; each posted event runs once.                                     *)
(***************************************************************************)
EXTENDS Integers, Sequences, SequencesExt

CONSTANTS Events, Levels

VARIABLES
    post,     \* level -> the events waiting to be notified at that level
    running   \* the notifications begun and not ended: [ev, level]

Init == post = [l \in Levels |-> <<>>] /\ running = {}

(* An event waits at one level; posting it again moves it to the tail.     *)
Post(e, l) ==
    /\ \A k \in Levels \ {l} : ~Contains(post[k], e)
    /\ post' = [post EXCEPT ![l] = Append(RemoveFirst(@, e), e)]
    /\ UNCHANGED running

Withdraw(e) ==
    /\ post' = [l \in Levels |-> RemoveFirst(post[l], e)]
    /\ UNCHANGED running

Begin(l) ==
    /\ post[l] # <<>>
    /\ \A k \in Levels : k > l => post[k] = <<>>
    /\ \A r \in running : r.level < l
    /\ post' = [post EXCEPT ![l] = Tail(@)]
    /\ running' = running \cup {[ev |-> Head(post[l]), level |-> l]}

(* The innermost notification, the one of the highest level, returns.      *)
End(r) ==
    /\ \A q \in running : q.level <= r.level
    /\ running' = running \ {r}
    /\ UNCHANGED post

(* Everything that was posted is dropped between two iterations.           *)
Reset ==
    /\ running = {}
    /\ post' = [l \in Levels |-> <<>>]
    /\ UNCHANGED running

Next ==
    \/ \E e \in Events : Withdraw(e) \/ \E l \in Levels : Post(e, l)
    \/ \E l \in Levels : Begin(l)
    \/ \E r \in running : End(r)
    \/ Reset

Spec == Init /\ [][Next]_<<post, running>>
=============================================================================
