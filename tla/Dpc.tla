--------------------------------- MODULE Dpc ---------------------------------
(***************************************************************************)
(* The deferred procedure calls of MockgEfiDpcProtocolGuid.c: a ring of    *)
(* pending procedures, drained by DispatchDpc.  A procedure may itself     *)
(* queue and dispatch, so drains nest; `frames` is the call stack.         *)
(*                                                                         *)
(* QueueDpc ends in RestoreTPL, where notification functions run.  They    *)
(* run as part of the frame that called QueueDpc: nothing here depends on  *)
(* which of the two makes the next call.  NULL procedures and levels out   *)
(* of range, which QueueDpc rejects, and the counters of calls that only   *)
(* tests read are left out.                                                *)
(***************************************************************************)
EXTENDS Integers, Sequences, SequencesExt

CONSTANTS
    Dpcs,                \* pairs (Procedure, Context)
    NoDpc,               \* a cleared entry
    MOCK_DPC_MAX_QUEUE,  \* the size of the ring
    MaxCalls             \* bound: calls made between two resets

ASSUME DpcAssumption ==
    /\ NoDpc \notin Dpcs
    /\ MOCK_DPC_MAX_QUEUE \in Nat \ {0}
    /\ MaxCalls \in Nat

VARIABLES
    mDpcQueue,        \* the ring, indexed from 0
    mDpcHead,         \* the next entry to dispatch
    mDpcTail,         \* the next free slot
    mDpcCount,        \* the entries in use
    mInsideDispatch,
    frames,           \* the call stack, innermost frame last
    calls             \* calls left

ringVars == <<mDpcQueue, mDpcHead, mDpcTail, mDpcCount>>
vars == <<ringVars, mInsideDispatch, frames, calls>>

Slots == 0 .. MOCK_DPC_MAX_QUEUE - 1
After(i) == (i + 1) % MOCK_DPC_MAX_QUEUE

(***************************************************************************)
(* A frame is client code, a running procedure (dpc) or the loop of        *)
(* DispatchDpc or MockDpcDrainQueue, which returns mInsideDispatch to      *)
(* saved.                                                                  *)
(***************************************************************************)
FrameType ==
    [pc : {"client", "procedure", "drain"}, dpc : Dpcs \cup {NoDpc}, saved : BOOLEAN]
Client       == [pc |-> "client", dpc |-> NoDpc, saved |-> FALSE]
Procedure(d) == [pc |-> "procedure", dpc |-> d, saved |-> FALSE]
Drain(s)     == [pc |-> "drain", dpc |-> NoDpc, saved |-> s]

Top   == Last(frames)
Below == Front(frames)

(* The slot of the i-th pending entry, and whether d is pending.           *)
Slot(i) == (mDpcHead + i - 1) % MOCK_DPC_MAX_QUEUE
Pending(d) == \E i \in 1 .. mDpcCount : mDpcQueue[Slot(i)] = d

Init ==
    /\ mDpcQueue = [i \in Slots |-> NoDpc]
    /\ mDpcHead = 0 /\ mDpcTail = 0 /\ mDpcCount = 0
    /\ mInsideDispatch = FALSE
    /\ frames = <<Client>>
    /\ calls = MaxCalls

-----------------------------------------------------------------------------
Call == Top.pc # "drain" /\ calls > 0 /\ calls' = calls - 1

(* mutant: the scan for a duplicate is missing. *)
EnqueueTwice(d) ==
    IF mDpcCount >= MOCK_DPC_MAX_QUEUE
    THEN UNCHANGED ringVars
    ELSE /\ mDpcQueue' = [mDpcQueue EXCEPT ![mDpcTail] = d]
         /\ mDpcTail' = After(mDpcTail)
         /\ mDpcCount' = mDpcCount + 1
         /\ UNCHANGED mDpcHead

(* A full queue refuses even a pair that is pending; otherwise such a pair *)
(* is dropped.                                                             *)
Enqueue(d) ==
    IF mDpcCount >= MOCK_DPC_MAX_QUEUE \/ Pending(d)
    THEN UNCHANGED ringVars
    ELSE /\ mDpcQueue' = [mDpcQueue EXCEPT ![mDpcTail] = d]
         /\ mDpcTail' = After(mDpcTail)
         /\ mDpcCount' = mDpcCount + 1
         /\ UNCHANGED mDpcHead

MockDpcQueueDpc(d) == Call /\ Enqueue(d) /\ UNCHANGED <<mInsideDispatch, frames>>

(* DispatchDpc drains whether or not a drain is under way. *)
StartDrain ==
    /\ mInsideDispatch' = TRUE
    /\ frames' = Append(frames, Drain(mInsideDispatch))

MockDpcDispatchDpc ==
    /\ Call
    /\ StartDrain
    /\ UNCHANGED ringVars

(* MockDpcDispatchAll, through MockDpcDrainQueue, which does nothing       *)
(* inside a drain and ends by clearing the flag.                           *)
MockDpcDrainQueue ==
    /\ Call
    /\ IF mInsideDispatch
       THEN UNCHANGED <<mInsideDispatch, frames>>
       ELSE /\ mInsideDispatch' = TRUE
            /\ frames' = Append(frames, Drain(FALSE))
    /\ UNCHANGED ringVars

(* One turn of the loop, up to the call of the procedure. *)
DrainNext ==
    /\ Top.pc = "drain" /\ mDpcCount > 0
    /\ mDpcHead' = After(mDpcHead)
    /\ mDpcCount' = mDpcCount - 1
    /\ frames' = Append(frames, Procedure(mDpcQueue[mDpcHead]))
    /\ UNCHANGED <<mDpcQueue, mDpcTail, mInsideDispatch, calls>>

(* mutant: DispatchDpc ends like MockDpcDrainQueue. *)
DrainReturnClears ==
    /\ Top.pc = "drain" /\ mDpcCount = 0
    /\ mInsideDispatch' = FALSE
    /\ frames' = Below
    /\ UNCHANGED <<ringVars, calls>>

(* mutant: a nested DispatchDpc leaves the queue to the drain around it,   *)
(* and a drain stops after the DPCs of one pass.                           *)
DrainReturnEarly ==
    /\ Top.pc = "drain"
    /\ mInsideDispatch' = Top.saved
    /\ frames' = Below
    /\ UNCHANGED <<ringVars, calls>>

DrainReturn ==
    /\ Top.pc = "drain" /\ mDpcCount = 0
    /\ mInsideDispatch' = Top.saved
    /\ frames' = Below
    /\ UNCHANGED <<ringVars, calls>>

ProcedureReturn ==
    /\ Top.pc = "procedure"
    /\ frames' = Below
    /\ UNCHANGED <<ringVars, mInsideDispatch, calls>>

(* Called between iterations, with no procedure running. *)
ResetState ==
    /\ frames = <<Client>>
    /\ mDpcQueue' = [i \in Slots |-> NoDpc]
    /\ mDpcHead' = 0 /\ mDpcTail' = 0 /\ mDpcCount' = 0
    /\ mInsideDispatch' = FALSE
    /\ calls' = MaxCalls
    /\ UNCHANGED frames

Service == DrainNext \/ DrainReturn \/ ProcedureReturn

Next ==
    \/ \E d \in Dpcs : MockDpcQueueDpc(d)
    \/ MockDpcDispatchDpc
    \/ MockDpcDrainQueue
    \/ Service
    \/ ResetState

Spec == Init /\ [][Next]_vars

(* Drains proceed, and procedures make finitely many calls and return.     *)
FairSpec == Spec /\ WF_vars(Service)

-----------------------------------------------------------------------------
(* Every variable has its type, and the two indices and the count agree.   *)
RingOK ==
    /\ mDpcQueue \in [Slots -> Dpcs \cup {NoDpc}]
    /\ mDpcHead \in Slots /\ mDpcTail \in Slots
    /\ mDpcCount \in 0 .. MOCK_DPC_MAX_QUEUE
    /\ mDpcTail = (mDpcHead + mDpcCount) % MOCK_DPC_MAX_QUEUE
    /\ mInsideDispatch \in BOOLEAN
    /\ frames \in Seq(FrameType) /\ frames # <<>>
    /\ calls \in 0 .. MaxCalls

(***************************************************************************)
(* The flag that makes MockDpcDrainQueue give way is set exactly while a   *)
(* drain is on the stack, however drains nest.                             *)
(***************************************************************************)
InsideMeansDraining ==
    mInsideDispatch <=> \E i \in 1 .. Len(frames) : frames[i].pc = "drain"

(***************************************************************************)
(* The ring and the flag agree with what is pending and running, whatever *)
(* procedures queue and dispatch (QueueDpc, DispatchDpc, ResetState).      *)
(***************************************************************************)
RingKept == RingOK /\ InsideMeansDraining

(***************************************************************************)
(* A pending procedure is started once a drain is in progress, whoever     *)
(* queued it: UdpIo's Cancel and FreeIo rely on DispatchDpc to flush the   *)
(* queue before they free memory.                                          *)
(***************************************************************************)
DispatchServes ==
    \A d \in Dpcs : Pending(d) /\ mInsideDispatch ~> ~Pending(d)

(***************************************************************************)
(* The ring implements DpcFifo: pending procedures start in the order they *)
(* were queued and no pair is pending twice, which would run a procedure   *)
(* on a context that its first run freed.                                  *)
(***************************************************************************)
Fifo == [i \in 1 .. mDpcCount |-> mDpcQueue[Slot(i)]]
Abstract == INSTANCE DpcFifo WITH fifo <- Fifo
ImplementsFifo == Abstract!Spec
=============================================================================
