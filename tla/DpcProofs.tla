------------------------------ MODULE DpcProofs ------------------------------
(***************************************************************************)
(* Deferred procedure calls: the ring of pending DPCs implements DpcFifo   *)
(* for every size of the ring, every set of DPCs and any number of calls,  *)
(* and the re-entrancy flag tells whether a drain is on the stack.         *)
(*                                                                         *)
(* Deferred completion of tokens, on top of them: the list, the heap and   *)
(* the event queue agree, and a delivery dispatches what it signalled.     *)
(***************************************************************************)
EXTENDS DeferredSignal, ListLemmas

N == MOCK_DPC_MAX_QUEUE

-----------------------------------------------------------------------------
(* Indices of the ring. *)

(* An index below twice the size wraps by one subtraction.                 *)
LEMMA Wrap ==
    ASSUME NEW n \in Nat \ {0}, NEW i \in Nat, i < 2 * n
    PROVE  i % n = IF i < n THEN i ELSE i - n
OBVIOUS

LEMMA Size == N \in Nat \ {0} /\ N = MOCK_DPC_MAX_QUEUE
BY DpcAssumption DEF N

LEMMA AfterWraps ==
    ASSUME NEW i \in Slots
    PROVE  After(i) \in Slots /\ After(i) = IF i + 1 < N THEN i + 1 ELSE 0
<1>1. N \in Nat \ {0} /\ i \in 0 .. N - 1
  BY Size DEF Slots
<1> DEFINE k == i + 1
<1>2. k \in Nat /\ k < 2 * N
  BY <1>1
<1> HIDE DEF k
<1>3. k % N = IF k < N THEN k ELSE k - N
  BY <1>1, <1>2, Wrap
<1> QED
  BY <1>1, <1>3, Size DEF After, Slots, k

LEMMA WrapSum ==
    ASSUME NEW n \in Nat \ {0}, NEW h \in 0 .. n - 1, NEW c \in 0 .. n
    PROVE  (h + c) % n = IF h + c < n THEN h + c ELSE h + c - n
<1> DEFINE k == h + c
<1>1. k \in Nat /\ k < 2 * n
  OBVIOUS
<1> HIDE DEF k
<1>2. k % n = IF k < n THEN k ELSE k - n
  BY <1>1, Wrap
<1> QED
  BY <1>2 DEF k

LEMMA TailWraps ==
    ASSUME NEW h \in Slots, NEW c \in 0 .. N
    PROVE  (h + c) % N = IF h + c < N THEN h + c ELSE h + c - N
<1>1. N \in Nat \ {0} /\ h \in 0 .. N - 1
  BY Size DEF Slots
<1> QED
  BY <1>1, WrapSum

LEMMA SlotWraps ==
    ASSUME RingOK, NEW i \in 1 .. N
    PROVE  /\ Slot(i) \in Slots
           /\ Slot(i) = IF mDpcHead + i - 1 < N THEN mDpcHead + i - 1 ELSE mDpcHead + i - 1 - N
<1>1. N \in Nat \ {0} /\ mDpcHead \in 0 .. N - 1 /\ mDpcHead \in Slots
  BY Size DEF RingOK, Slots
<1> DEFINE c == i - 1
<1>2. c \in 0 .. N /\ mDpcHead + c = mDpcHead + i - 1
  BY <1>1
<1> HIDE DEF c
<1>3. (mDpcHead + c) % N = IF mDpcHead + c < N THEN mDpcHead + c ELSE mDpcHead + c - N
  BY <1>1, <1>2, WrapSum
<1>4. Slot(i) = (mDpcHead + c) % N
  BY <1>2, Size DEF Slot
<1>5. Slot(i) = IF mDpcHead + c < N THEN mDpcHead + c ELSE mDpcHead + c - N
  BY <1>3, <1>4
<1>6. c < N
  BY <1>1 DEF c
<1>7. Slot(i) \in 0 .. N - 1
  BY <1>1, <1>2, <1>5, <1>6
<1>8. Slot(i) \in Slots
  BY <1>7, Size DEF Slots
<1>9. Slot(i) = IF mDpcHead + i - 1 < N THEN mDpcHead + i - 1 ELSE mDpcHead + i - 1 - N
  BY <1>1, <1>5 DEF c
<1> QED
  BY <1>8, <1>9

-----------------------------------------------------------------------------
(* Types, and the agreement of the indices. *)

LEMMA RingInit == Init => RingOK
<1> SUFFICES ASSUME Init PROVE RingOK
  OBVIOUS
<1>1. 0 \in Slots /\ 0 \in 0 .. N
  BY Size DEF Slots
<1>2. (0 + 0) % N = 0
  BY <1>1, Size, TailWraps
<1>3. mDpcTail = (mDpcHead + mDpcCount) % MOCK_DPC_MAX_QUEUE
  BY <1>2, Size DEF Init
<1>4. frames \in Seq(FrameType) /\ frames # <<>>
  BY DEF Init, Client, FrameType
<1>5. calls \in 0 .. MaxCalls
  BY DpcAssumption DEF Init
<1>6. mDpcQueue \in [Slots -> Dpcs \cup {NoDpc}]
  BY DEF Init
<1>7. mDpcCount \in 0 .. MOCK_DPC_MAX_QUEUE
  BY <1>1, Size DEF Init
<1>8. mDpcHead \in Slots /\ mDpcTail \in Slots /\ mInsideDispatch \in BOOLEAN
  BY <1>1 DEF Init
<1> QED
  BY <1>3, <1>4, <1>5, <1>6, <1>7, <1>8 DEF RingOK

(* A frame may be pushed, and any but the last popped.                     *)
LEMMA PushPop ==
    ASSUME NEW s \in Seq(FrameType), s # <<>>
    PROVE  /\ \A f \in FrameType : /\ Append(s, f) \in Seq(FrameType) /\ Append(s, f) # <<>>
                                   /\ Len(Append(s, f)) = Len(s) + 1
                                   /\ Append(s, f)[Len(s) + 1] = f
                                   /\ \A i \in 1 .. Len(s) : Append(s, f)[i] = s[i]
           /\ Len(s) > 1 => /\ Front(s) \in Seq(FrameType) /\ Front(s) # <<>>
                            /\ Len(Front(s)) = Len(s) - 1
                            /\ \A i \in 1 .. Len(s) - 1 : Front(s)[i] = s[i]
           /\ Len(s) \in Nat \ {0}
           /\ Last(s) = s[Len(s)]
<1>1. Len(s) \in Nat \ {0}
  BY EmptySeq, LenProperties
<1>2. \A f \in FrameType : /\ Append(s, f) \in Seq(FrameType) /\ Append(s, f) # <<>>
                           /\ Len(Append(s, f)) = Len(s) + 1
                           /\ Append(s, f)[Len(s) + 1] = f
                           /\ \A i \in 1 .. Len(s) : Append(s, f)[i] = s[i]
  BY AppendProperties
<1>3. ASSUME Len(s) > 1
      PROVE  /\ Front(s) \in Seq(FrameType) /\ Front(s) # <<>>
             /\ Len(Front(s)) = Len(s) - 1
             /\ \A i \in 1 .. Len(s) - 1 : Front(s)[i] = s[i]
  <2> DEFINE t == Front(s)
  <2>1. t \in Seq(FrameType) /\ Len(t) = Len(s) - 1 /\ \A i \in 1 .. Len(s) - 1 : t[i] = s[i]
    BY <1>1, <1>3, SubSeqProperties, ElementOfSeq DEF Front
  <2> HIDE DEF t
  <2>2. t # <<>>
    BY <1>1, <1>3, <2>1, EmptySeq
  <2> QED
    BY <2>1, <2>2 DEF t
<1> QED
  BY <1>1, <1>2, <1>3 DEF Last

(* The bottom of the stack is client code and every drain frame returns    *)
(* the flag to whether there is a drain below it.                          *)
Draining(s, n) == \E i \in 1 .. n : s[i].pc = "drain"
FramesOK(s, b) ==
    /\ s[1] = Client
    /\ b <=> Draining(s, Len(s))
    /\ \A j \in 1 .. Len(s) :
          s[j].pc = "drain" => (s[j].saved <=> Draining(s, j - 1))

DInv == RingOK /\ FramesOK(frames, mInsideDispatch)

LEMMA Deep == ASSUME DInv, Top.pc # "client" PROVE Len(frames) > 1
<1>1. frames \in Seq(FrameType) /\ frames # <<>> /\ frames[1].pc = "client"
  BY DEF DInv, RingOK, FramesOK, Client
<1>2. Len(frames) \in Nat \ {0} /\ Top = frames[Len(frames)]
  BY <1>1, PushPop DEF Top
<1> QED
  BY <1>1, <1>2

(* What may happen to the ring and to the stack, by the calls of clients   *)
(* and by those of code that interrupts them.                              *)
RingMoves ==
    UNCHANGED ringVars \/ (\E d \in Dpcs : Enqueue(d)) \/ DrainNext \/ ResetState

FramesMove ==
    \/ UNCHANGED <<mInsideDispatch, frames>>
    \/ StartDrain
    \/ ~mInsideDispatch /\ mInsideDispatch' = TRUE /\ frames' = Append(frames, Drain(FALSE))
    \/ DrainNext \/ DrainReturn \/ ProcedureReturn \/ ResetState

CallsMove == calls' = calls \/ Call \/ calls' = MaxCalls

LEMMA NextMoves == ASSUME [Next]_vars PROVE RingMoves /\ FramesMove /\ CallsMove
BY DEF Next, Service, MockDpcQueueDpc, MockDpcDispatchDpc, MockDpcDrainQueue, StartDrain,
       DrainNext, DrainReturn, ProcedureReturn, ResetState, vars, RingMoves, FramesMove, CallsMove

(* A step that keeps the ring in order keeps its types.                    *)
LEMMA RingStep ==
    ASSUME DInv, RingMoves
    PROVE  /\ mDpcQueue' \in [Slots -> Dpcs \cup {NoDpc}]
           /\ mDpcHead' \in Slots /\ mDpcTail' \in Slots
           /\ mDpcCount' \in 0 .. N
           /\ mDpcTail' = (mDpcHead' + mDpcCount') % N
<1>1. /\ mDpcQueue \in [Slots -> Dpcs \cup {NoDpc}]
      /\ mDpcHead \in Slots /\ mDpcTail \in Slots
      /\ mDpcCount \in 0 .. N /\ N \in Nat \ {0}
      /\ mDpcTail = (mDpcHead + mDpcCount) % N
  BY Size DEF DInv, RingOK
<1>2. CASE UNCHANGED ringVars
  BY <1>1, <1>2 DEF ringVars
<1>3. CASE \E d \in Dpcs : Enqueue(d) /\ ~UNCHANGED ringVars
  <2>1. PICK d \in Dpcs :
           /\ mDpcCount < N
           /\ mDpcQueue' = [mDpcQueue EXCEPT ![mDpcTail] = d]
           /\ mDpcTail' = After(mDpcTail)
           /\ mDpcCount' = mDpcCount + 1
           /\ mDpcHead' = mDpcHead
    BY <1>1, <1>3, Size DEF Enqueue
  <2>2. mDpcQueue' \in [Slots -> Dpcs \cup {NoDpc}] /\ mDpcCount' \in 0 .. N
    BY <1>1, <2>1
  <2>3. mDpcTail' \in Slots /\ mDpcTail' = IF mDpcTail + 1 < N THEN mDpcTail + 1 ELSE 0
    BY <1>1, <2>1, AfterWraps
  <2>4. mDpcTail = IF mDpcHead + mDpcCount < N THEN mDpcHead + mDpcCount ELSE mDpcHead + mDpcCount - N
    BY <1>1, TailWraps
  <2>5. (mDpcHead + (mDpcCount + 1)) % N =
           IF mDpcHead + (mDpcCount + 1) < N THEN mDpcHead + (mDpcCount + 1)
           ELSE mDpcHead + (mDpcCount + 1) - N
    <3>1. mDpcCount + 1 \in 0 .. N
      BY <1>1, <2>1
    <3> QED
      BY <1>1, <3>1, TailWraps
  <2>6. mDpcTail' = (mDpcHead' + mDpcCount') % N
    BY <1>1, <2>1, <2>3, <2>4, <2>5 DEF Slots
  <2> QED
    BY <1>1, <2>1, <2>2, <2>3, <2>6
<1>4. CASE DrainNext
  <2>1. /\ mDpcCount > 0 /\ mDpcHead' = After(mDpcHead) /\ mDpcCount' = mDpcCount - 1
        /\ UNCHANGED <<mDpcQueue, mDpcTail>>
    BY <1>4 DEF DrainNext
  <2>2. mDpcHead' \in Slots /\ mDpcHead' = IF mDpcHead + 1 < N THEN mDpcHead + 1 ELSE 0
    BY <1>1, <2>1, AfterWraps
  <2>3. mDpcTail = IF mDpcHead + mDpcCount < N THEN mDpcHead + mDpcCount ELSE mDpcHead + mDpcCount - N
    BY <1>1, TailWraps
  <2>4. mDpcCount' \in 0 .. N
    BY <1>1, <2>1
  <2>5. (mDpcHead' + mDpcCount') % N =
           IF mDpcHead' + mDpcCount' < N THEN mDpcHead' + mDpcCount' ELSE mDpcHead' + mDpcCount' - N
    BY <2>2, <2>4, TailWraps
  <2>6. mDpcTail' = (mDpcHead' + mDpcCount') % N
    BY <1>1, <2>1, <2>2, <2>3, <2>5, Size DEF Slots
  <2> QED
    BY <1>1, <2>1, <2>2, <2>4, <2>6
<1>5. CASE ResetState
  <2>1. 0 \in Slots /\ 0 \in 0 .. N
    BY <1>1, Size DEF Slots
  <2>2. (0 + 0) % N = 0
    BY <1>1, <2>1, TailWraps
  <2> QED
    BY <1>1, <1>5, <2>1, <2>2 DEF ResetState
<1> QED
  BY <1>2, <1>3, <1>4, <1>5 DEF RingMoves

(* The steps on the stack: a push of a drain, a push of a procedure, a pop *)
(* that restores the flag, a pop of a procedure.                           *)
LEMMA FrameStep ==
    ASSUME DInv, FramesMove
    PROVE  /\ frames' \in Seq(FrameType) /\ frames' # <<>>
           /\ mInsideDispatch' \in BOOLEAN
           /\ FramesOK(frames', mInsideDispatch')
<1>1. /\ frames \in Seq(FrameType) /\ frames # <<>> /\ mInsideDispatch \in BOOLEAN
      /\ FramesOK(frames, mInsideDispatch)
  BY DEF DInv, RingOK
<1>2. Len(frames) \in Nat \ {0} /\ Top = frames[Len(frames)] /\ frames[1] = Client
  BY <1>1, PushPop DEF Top, FramesOK
<1>3. CASE UNCHANGED <<mInsideDispatch, frames>>
  BY <1>1, <1>3 DEF FramesOK, Draining
<1>4. CASE mInsideDispatch' = TRUE /\ frames' = Append(frames, Drain(mInsideDispatch))
  <2> DEFINE f == Drain(mInsideDispatch)
  <2>1. f \in FrameType /\ f.pc = "drain" /\ f.saved = mInsideDispatch
    BY <1>1 DEF Drain, FrameType
  <2> HIDE DEF f
  <2>2. /\ frames' \in Seq(FrameType) /\ frames' # <<>> /\ Len(frames') = Len(frames) + 1
        /\ frames'[Len(frames) + 1] = f
        /\ \A i \in 1 .. Len(frames) : frames'[i] = frames[i]
    BY <1>1, <1>4, <2>1, PushPop DEF f
  <2>3. \A j \in 1 .. Len(frames) + 1 : Draining(frames', j - 1) <=> Draining(frames, j - 1)
    BY <1>2, <2>2 DEF Draining
  <2>4. Draining(frames', Len(frames'))
    BY <1>2, <2>1, <2>2 DEF Draining
  <2>5. \A j \in 1 .. Len(frames') :
           frames'[j].pc = "drain" => (frames'[j].saved <=> Draining(frames', j - 1))
    <3> SUFFICES ASSUME NEW j \in 1 .. Len(frames'), frames'[j].pc = "drain"
                 PROVE  frames'[j].saved <=> Draining(frames', j - 1)
      OBVIOUS
    <3>1. CASE j \in 1 .. Len(frames)
      BY <1>1, <2>2, <2>3, <3>1 DEF FramesOK
    <3>2. CASE j = Len(frames) + 1
      <4>1. j - 1 = Len(frames) /\ j \in 1 .. Len(frames) + 1
        BY <1>2, <3>2
      <4> QED
        BY <1>1, <2>1, <2>2, <2>3, <3>2, <4>1 DEF FramesOK
    <3> QED
      BY <1>2, <2>2, <3>1, <3>2
  <2>6. frames'[1] = Client
    BY <1>2, <2>2
  <2> QED
    BY <1>4, <2>2, <2>4, <2>5, <2>6 DEF FramesOK
<1>5. CASE DrainNext
  <2> DEFINE f == Procedure(mDpcQueue[mDpcHead])
  <2>1. f \in FrameType /\ f.pc = "procedure"
    BY DEF DInv, RingOK, Procedure, FrameType
  <2> HIDE DEF f
  <2>2. /\ frames' \in Seq(FrameType) /\ frames' # <<>> /\ Len(frames') = Len(frames) + 1
        /\ frames'[Len(frames) + 1] = f
        /\ \A i \in 1 .. Len(frames) : frames'[i] = frames[i]
    BY <1>1, <1>5, <2>1, PushPop DEF DrainNext, f
  <2>3. \A j \in 1 .. Len(frames) + 1 : Draining(frames', j - 1) <=> Draining(frames, j - 1)
    BY <1>2, <2>2 DEF Draining
  <2>4. Draining(frames', Len(frames')) <=> Draining(frames, Len(frames))
    BY <1>2, <2>1, <2>2 DEF Draining
  <2>5. \A j \in 1 .. Len(frames') :
           frames'[j].pc = "drain" => (frames'[j].saved <=> Draining(frames', j - 1))
    BY <1>1, <1>2, <2>1, <2>2, <2>3 DEF FramesOK
  <2>6. frames'[1] = Client /\ mInsideDispatch' = mInsideDispatch
    BY <1>2, <1>5, <2>2 DEF DrainNext
  <2> QED
    BY <1>1, <2>2, <2>4, <2>5, <2>6 DEF FramesOK
<1>6. CASE /\ Len(frames) > 1 /\ frames' = Front(frames)
           /\ \/ Top.pc = "drain" /\ mInsideDispatch' = Top.saved
              \/ Top.pc = "procedure" /\ mInsideDispatch' = mInsideDispatch
  <2>1. /\ frames' \in Seq(FrameType) /\ frames' # <<>> /\ Len(frames') = Len(frames) - 1
        /\ \A i \in 1 .. Len(frames) - 1 : frames'[i] = frames[i]
    BY <1>1, <1>6, PushPop
  <2>2. \A j \in 1 .. Len(frames) : Draining(frames', j - 1) <=> Draining(frames, j - 1)
    BY <1>2, <2>1 DEF Draining
  <2>3. Draining(frames', Len(frames')) <=> Draining(frames, Len(frames) - 1)
    BY <1>2, <2>1, <2>2
  <2>4. mInsideDispatch' <=> Draining(frames, Len(frames) - 1)
    <3>1. CASE Top.pc = "drain" /\ mInsideDispatch' = Top.saved
      BY <1>1, <1>2, <3>1 DEF FramesOK
    <3>2. CASE Top.pc = "procedure" /\ mInsideDispatch' = mInsideDispatch
      BY <1>1, <1>2, <3>2 DEF FramesOK, Draining
    <3> QED
      BY <1>6, <3>1, <3>2
  <2>5. \A j \in 1 .. Len(frames') :
           frames'[j].pc = "drain" => (frames'[j].saved <=> Draining(frames', j - 1))
    BY <1>1, <1>2, <2>1, <2>2 DEF FramesOK
  <2>6. frames'[1] = Client
    BY <1>2, <1>6, <2>1
  <2>7. mInsideDispatch' \in BOOLEAN
    <3>1. Top \in FrameType
      BY <1>1, <1>2, ElementOfSeq
    <3>2. Top.saved \in BOOLEAN
      BY <3>1 DEF FrameType
    <3> QED
      BY <1>1, <1>6, <3>2
  <2> QED
    BY <2>1, <2>3, <2>4, <2>5, <2>6, <2>7 DEF FramesOK
<1>7. CASE ResetState
  <2>1. mInsideDispatch' = FALSE /\ frames' = <<Client>> /\ frames = <<Client>>
    BY <1>7 DEF ResetState
  <2>2. ~Draining(frames, Len(frames))
    BY <2>1 DEF Draining, Client
  <2> QED
    BY <1>1, <2>1, <2>2 DEF FramesOK
<1>8. CASE DrainReturn \/ ProcedureReturn
  <2>1. Len(frames) > 1
    BY <1>8, Deep DEF DrainReturn, ProcedureReturn
  <2> QED
    BY <1>6, <1>8, <2>1 DEF DrainReturn, ProcedureReturn, Below
<1>9. CASE ~mInsideDispatch /\ mInsideDispatch' = TRUE /\ frames' = Append(frames, Drain(FALSE))
  BY <1>1, <1>4, <1>9
<1> QED
  BY <1>3, <1>4, <1>5, <1>7, <1>8, <1>9 DEF FramesMove, StartDrain

LEMMA CallsStep == ASSUME DInv, CallsMove PROVE calls' \in 0 .. MaxCalls
<1>1. calls \in 0 .. MaxCalls /\ MaxCalls \in Nat
  BY DpcAssumption DEF DInv, RingOK
<1> QED
  BY <1>1 DEF Call, CallsMove

LEMMA DInvInit == Init => DInv
<1> SUFFICES ASSUME Init PROVE FramesOK(frames, mInsideDispatch)
  BY RingInit DEF DInv
<1>1. frames = <<Client>> /\ mInsideDispatch = FALSE
  BY DEF Init
<1>2. Len(frames) = 1 /\ frames[1] = Client /\ Client.pc = "client"
  BY <1>1 DEF Client
<1> QED
  BY <1>1, <1>2 DEF FramesOK, Draining

LEMMA DInvMoves == ASSUME DInv, RingMoves, FramesMove, CallsMove PROVE DInv'
BY RingStep, FrameStep, CallsStep, Size DEF DInv, RingOK

LEMMA DInvNext == ASSUME DInv, [Next]_vars PROVE DInv'
BY NextMoves, DInvMoves

LEMMA DInvHolds == Spec => []DInv
BY DInvInit, DInvNext, PTL DEF Spec

(* The indices, the count and the other variables keep their types and     *)
(* agree, for every size of the ring.                                      *)
THEOREM RingCorrect == Spec => []RingOK
<1>1. DInv => RingOK
  BY DEF DInv
<1> QED
  BY <1>1, DInvHolds, PTL

(* mInsideDispatch is set exactly while a drain is on the stack.           *)
THEOREM FlagCorrect == Spec => []InsideMeansDraining
<1>1. DInv => InsideMeansDraining
  BY DEF DInv, FramesOK, Draining, InsideMeansDraining
<1> QED
  BY <1>1, DInvHolds, PTL

(* Both: the ring and the flag agree with what is pending and running.     *)
THEOREM RingHolds == Spec => []RingKept
<1>1. RingOK /\ InsideMeansDraining => RingKept
  BY DEF RingKept
<1> QED
  BY <1>1, RingCorrect, FlagCorrect, PTL

-----------------------------------------------------------------------------
(* The ring implements the queue. *)

FifoIsSeq ==
    /\ Fifo \in Seq(Dpcs \cup {NoDpc})
    /\ Len(Fifo) = mDpcCount
    /\ \A i \in 1 .. mDpcCount : Fifo[i] = mDpcQueue[Slot(i)]

LEMMA FifoSeq == RingOK => FifoIsSeq
<1> SUFFICES ASSUME RingOK PROVE FifoIsSeq
  OBVIOUS
<1>1. mDpcCount \in 0 .. N /\ N \in Nat /\ mDpcQueue \in [Slots -> Dpcs \cup {NoDpc}]
  BY Size DEF RingOK
<1>2. \A i \in 1 .. mDpcCount : Slot(i) \in Slots
  <2> SUFFICES ASSUME NEW i \in 1 .. mDpcCount PROVE Slot(i) \in Slots
    OBVIOUS
  <2>1. i \in 1 .. N
    BY <1>1
  <2> QED
    BY <2>1, SlotWraps
<1>3. \A i \in 1 .. mDpcCount : mDpcQueue[Slot(i)] \in Dpcs \cup {NoDpc}
  BY <1>1, <1>2
<1>4. mDpcCount \in Nat
  BY <1>1
<1> QED
  BY <1>3, <1>4, IsASeq DEF Fifo, FifoIsSeq

LEMMA FifoSeqNext == RingOK' => FifoIsSeq'
BY FifoSeq, PTL

(* A pair that QueueDpc adds comes last.                                   *)
LEMMA QueueStep ==
    ASSUME RingOK, RingOK', NEW d \in Dpcs, MockDpcQueueDpc(d)
    PROVE  Abstract!Queue(d) \/ UNCHANGED Fifo
<1>1. CASE UNCHANGED ringVars
  BY <1>1 DEF ringVars, Fifo, Slot
<1>2. CASE ~UNCHANGED ringVars
  <2>1. /\ mDpcCount < N /\ ~Pending(d)
        /\ mDpcQueue' = [mDpcQueue EXCEPT ![mDpcTail] = d]
        /\ mDpcCount' = mDpcCount + 1 /\ mDpcHead' = mDpcHead
    BY <1>2, Size DEF MockDpcQueueDpc, Enqueue, RingOK
  <2>2. /\ mDpcCount \in 0 .. N /\ N \in Nat \ {0} /\ mDpcHead \in Slots /\ mDpcTail \in Slots
        /\ mDpcQueue \in [Slots -> Dpcs \cup {NoDpc}]
        /\ mDpcTail = (mDpcHead + mDpcCount) % N
    BY Size DEF RingOK
  <2>3. mDpcTail = IF mDpcHead + mDpcCount < N THEN mDpcHead + mDpcCount ELSE mDpcHead + mDpcCount - N
    BY <2>2, TailWraps
  <2>4. \A i \in 1 .. mDpcCount : Slot(i) \in Slots /\ Slot(i) # mDpcTail
    <3> SUFFICES ASSUME NEW i \in 1 .. mDpcCount PROVE Slot(i) \in Slots /\ Slot(i) # mDpcTail
      OBVIOUS
    <3>1. i \in 1 .. N
      BY <2>2
    <3>2. /\ Slot(i) \in Slots
          /\ Slot(i) = IF mDpcHead + i - 1 < N THEN mDpcHead + i - 1 ELSE mDpcHead + i - 1 - N
      BY <3>1, SlotWraps
    <3> QED
      BY <2>1, <2>2, <2>3, <3>2 DEF Slots
  <2>5. Slot(mDpcCount + 1) = mDpcTail
    BY <2>2, Size DEF Slot
  <2>6. \A i \in 1 .. mDpcCount : Slot(i)' = Slot(i)
    BY <2>1 DEF Slot
  <2>7. \A i \in 1 .. mDpcCount + 1 : i = mDpcCount + 1 => Slot(i)' = mDpcTail
    BY <2>1, <2>5 DEF Slot
  <2>8. /\ Fifo \in Seq(Dpcs \cup {NoDpc}) /\ Len(Fifo) = mDpcCount
        /\ \A i \in 1 .. mDpcCount : Fifo[i] = mDpcQueue[Slot(i)]
    BY FifoSeq DEF FifoIsSeq
  <2>9. /\ Fifo' \in Seq(Dpcs \cup {NoDpc}) /\ Len(Fifo') = mDpcCount + 1
        /\ \A i \in 1 .. mDpcCount + 1 : Fifo'[i] = mDpcQueue'[Slot(i)']
    BY <2>1, FifoSeqNext DEF FifoIsSeq
  <2>10. \A i \in 1 .. mDpcCount : Fifo'[i] = Fifo[i]
    BY <2>1, <2>2, <2>4, <2>6, <2>8, <2>9
  <2>11. Fifo'[mDpcCount + 1] = d
    <3>1. mDpcCount + 1 \in 1 .. mDpcCount + 1
      BY <2>2
    <3>2. Fifo'[mDpcCount + 1] = mDpcQueue'[mDpcTail]
      BY <2>7, <2>9, <3>1
    <3> QED
      BY <2>1, <2>2, <3>2
  <2> HIDE DEF Fifo
  <2>12. Fifo' = Append(Fifo, d)
    <3> DEFINE a == Append(Fifo, d)
    <3>1. /\ a \in Seq(Dpcs \cup {NoDpc}) /\ Len(a) = mDpcCount + 1
          /\ \A i \in 1 .. mDpcCount : a[i] = Fifo[i]
          /\ a[mDpcCount + 1] = d
      BY <2>8, AppendProperties
    <3> HIDE DEF a
    <3>2. ASSUME NEW i \in 1 .. mDpcCount + 1
          PROVE  a[i] = Fifo'[i]
      <4>1. i \in 1 .. mDpcCount \/ i = mDpcCount + 1
        BY <2>2
      <4> QED
        BY <2>10, <2>11, <3>1, <4>1
    <3>3. a = Fifo'
      BY <2>9, <3>1, <3>2, SeqEqual
    <3> QED
      BY <3>3 DEF a
  <2>13. \A i \in 1 .. Len(Fifo) : Fifo[i] # d
    BY <2>1, <2>8 DEF Pending
  <2> QED
    BY <2>12, <2>13 DEF Abstract!Queue
<1> QED
  BY <1>1, <1>2

(* The procedure that a drain starts is the first of the queue.            *)
LEMMA StartStep ==
    ASSUME RingOK, RingOK', DrainNext
    PROVE  Abstract!Start
<1>1. /\ mDpcCount > 0 /\ mDpcHead' = After(mDpcHead) /\ mDpcCount' = mDpcCount - 1
      /\ mDpcQueue' = mDpcQueue
  BY DEF DrainNext
<1>2. mDpcCount \in 0 .. N /\ N \in Nat \ {0} /\ mDpcHead \in Slots
  BY Size DEF RingOK
<1>3. mDpcHead' = (IF mDpcHead + 1 < N THEN mDpcHead + 1 ELSE 0) /\ mDpcHead' \in Slots
  BY <1>1, <1>2, AfterWraps
<1>4. \A i \in 1 .. mDpcCount - 1 : Slot(i)' = Slot(i + 1)
  <2> SUFFICES ASSUME NEW i \in 1 .. mDpcCount - 1 PROVE Slot(i)' = Slot(i + 1)
    OBVIOUS
  <2> DEFINE c == i - 1
  <2>1. c \in 0 .. N /\ mDpcHead' \in 0 .. N - 1 /\ c + 1 < N /\ mDpcHead \in 0 .. N - 1
    BY <1>2, <1>3, Size DEF Slots
  <2>2. Slot(i)' = (mDpcHead' + c) % N
    BY <1>2, <2>1, Size DEF Slot, Slots
  <2> HIDE DEF c
  <2>3. (mDpcHead' + c) % N = IF mDpcHead' + c < N THEN mDpcHead' + c ELSE mDpcHead' + c - N
    BY <1>2, <2>1, WrapSum
  <2>4. Slot(i + 1) = (mDpcHead + (c + 1)) % N
    BY <1>2, <2>1, Size DEF Slot, Slots, c
  <2>5. c + 1 \in 0 .. N
    BY <1>2, <2>1
  <2>6. (mDpcHead + (c + 1)) % N = IF mDpcHead + (c + 1) < N THEN mDpcHead + (c + 1) ELSE mDpcHead + (c + 1) - N
    BY <1>2, <2>1, <2>5, WrapSum
  <2>7. (mDpcHead' + c) % N = (mDpcHead + (c + 1)) % N
    BY <1>2, <1>3, <2>1, <2>3, <2>6
  <2> QED
    BY <2>2, <2>4, <2>7
<1>5. /\ Fifo \in Seq(Dpcs \cup {NoDpc}) /\ Len(Fifo) = mDpcCount
      /\ \A i \in 1 .. mDpcCount : Fifo[i] = mDpcQueue[Slot(i)]
  BY FifoSeq DEF FifoIsSeq
<1>6. /\ Fifo' \in Seq(Dpcs \cup {NoDpc}) /\ Len(Fifo') = mDpcCount - 1
      /\ \A i \in 1 .. mDpcCount - 1 : Fifo'[i] = mDpcQueue'[Slot(i)']
  BY <1>1, FifoSeqNext DEF FifoIsSeq
<1>7. \A i \in 1 .. mDpcCount - 1 : Fifo'[i] = Fifo[i + 1]
  BY <1>1, <1>2, <1>4, <1>5, <1>6
<1> HIDE DEF Fifo
<1>8. Fifo # <<>>
  BY <1>1, <1>2, <1>5, EmptySeq
<1>9. Fifo' = Tail(Fifo)
  <2> DEFINE t == Tail(Fifo)
  <2>1. /\ t \in Seq(Dpcs \cup {NoDpc}) /\ Len(t) = mDpcCount - 1
        /\ \A i \in 1 .. mDpcCount - 1 : t[i] = Fifo[i + 1]
    BY <1>5, <1>8, HeadTailProperties
  <2> HIDE DEF t
  <2>2. t = Fifo'
    BY <1>6, <1>7, <2>1, SeqEqual
  <2> QED
    BY <2>2 DEF t
<1> QED
  BY <1>8, <1>9 DEF Abstract!Start

(* Pending procedures start in the order they were queued and no pair is   *)
(* pending twice, for every size of the ring.                              *)
THEOREM RingImplementsFifo == Spec => ImplementsFifo
<1>1. Init => Abstract!Init
  <2> SUFFICES ASSUME Init PROVE Fifo = <<>>
    BY DEF Abstract!Init
  <2>1. Len(Fifo) = 0 /\ Fifo \in Seq(Dpcs \cup {NoDpc})
    BY RingInit, FifoSeq DEF Init, FifoIsSeq
  <2> QED
    BY <2>1, EmptySeq
<1>2. ASSUME DInv, DInv', [Next]_vars
      PROVE  [Abstract!Next]_Fifo
  <2>1. RingOK /\ RingOK'
    BY <1>2 DEF DInv
  <2>2. CASE \E d \in Dpcs : MockDpcQueueDpc(d)
    BY <2>1, <2>2, QueueStep DEF Abstract!Next
  <2>3. CASE DrainNext
    BY <2>1, <2>3, StartStep DEF Abstract!Next
  <2>4. CASE ResetState
    <3>1. mDpcCount' = 0
      BY <2>4 DEF ResetState
    <3>2. Len(Fifo') = 0 /\ Fifo' \in Seq(Dpcs \cup {NoDpc})
      BY <2>1, <3>1, FifoSeqNext DEF FifoIsSeq
    <3>3. Fifo' = <<>>
      BY <3>2, EmptySeq
    <3> QED
      BY <3>3 DEF Abstract!Next, Abstract!Reset
  <2>5. CASE UNCHANGED ringVars
    BY <2>5 DEF ringVars, Fifo, Slot
  <2> QED
    BY <1>2, <2>2, <2>3, <2>4, <2>5
       DEF Next, Service, MockDpcDispatchDpc, MockDpcDrainQueue, DrainReturn, ProcedureReturn, vars
<1> QED
  BY <1>1, <1>2, DInvHolds, PTL DEF Spec, ImplementsFifo, Abstract!Spec

-----------------------------------------------------------------------------
(* The inductive invariant. *)

Notices == Entries \cup Tokens
EntryType ==
    [timer : {"free", "armed", "queued", "running"}, token : Tokens \cup {Free.token}, trigger : Nat]

DeferredTypes ==
    /\ advanceContext \in BOOLEAN /\ undefined \in BOOLEAN
    /\ PendingList \in Seq(Entries)
    /\ queue \in Seq(Notices)
    /\ entry \in [Entries -> EntryType]
    /\ delivery \in [entry : Entries \cup {NoEntry}, depth : Nat]
    /\ now \in Nat

(* An entry in use has a token to signal. *)
Scheduled == \A e \in Entries : entry[e].timer # "free" => entry[e].token \in Tokens

(* The parts of PendingOwned: the list has the entries in use, the queue   *)
(* those whose timers have expired, and the one that runs is delivered.    *)
Linked ==
    /\ IsInjective(PendingList)
    /\ \A e : e \in Range(PendingList) <=> e \in Entries /\ entry[e].timer # "free"
Expired ==
    /\ IsInjective(queue)
    /\ \A e \in Entries : e \in Range(queue) <=> entry[e].timer = "queued"
RunningOne == \A e \in Entries : entry[e].timer = "running" => delivery.entry = e
Owned == Linked /\ Expired /\ RunningOne

(* Above the frame that the delivery under way interrupted lies the drain  *)
(* that it started, until that drain has emptied the ring.                 *)
DeliveryDrains ==
    delivery # NoDelivery =>
        /\ delivery.entry \in Entries
        /\ delivery.depth \in 1 .. Len(frames)
        /\ IF Len(frames) = delivery.depth THEN mDpcCount = 0
           ELSE frames[delivery.depth + 1].pc = "drain"

DeferredInv ==
    /\ DInv /\ DeferredTypes /\ Scheduled /\ DeliveryDrains
    /\ ~undefined => Owned

LEMMA OwnedIsPendingOwned == ASSUME DeferredTypes, Owned PROVE PendingOwned
<1>1. Range(PendingList) = {e \in Entries : entry[e].timer # "free"}
  BY DEF Owned, Linked
<1>2. Range(queue) \cap Entries = {e \in Entries : entry[e].timer = "queued"}
  BY DEF Owned, Expired
<1> QED
  BY <1>1, <1>2 DEF PendingOwned, Owned, Linked, Expired, RunningOne

LEMMA DeferredInvInit == DeferredInit => DeferredInv
<1> SUFFICES ASSUME DeferredInit PROVE DeferredInv
  OBVIOUS
<1>1. DInv
  BY DInvInit DEF DeferredInit
<1>2. Free \in EntryType /\ Free.timer = "free"
  BY DEF Free, EntryType
<1>3. DeferredTypes
  <2>1. <<>> \in Seq(Entries) /\ <<>> \in Seq(Notices)
    OBVIOUS
  <2>2. NoDelivery \in [entry : Entries \cup {NoEntry}, depth : Nat]
    BY DEF NoDelivery
  <2> QED
    BY <1>2, <2>1, <2>2 DEF DeferredInit, DeferredTypes
<1>4. \A e \in Entries : entry[e].timer = "free"
  BY <1>2 DEF DeferredInit
<1>5. /\ \A x : x \notin Range(PendingList) /\ x \notin Range(queue)
      /\ IsInjective(PendingList) /\ IsInjective(queue)
  BY DEF DeferredInit, Range, IsInjective
<1>6. Scheduled /\ Owned
  BY <1>4, <1>5 DEF Scheduled, Owned, Linked, Expired, RunningOne
<1>7. DeliveryDrains
  BY DEF DeferredInit, DeliveryDrains
<1> QED
  BY <1>1, <1>3, <1>6, <1>7 DEF DeferredInv

-----------------------------------------------------------------------------
(* The operators. *)

(* Signalling a token queues its notification or its DPC, and no entry.    *)
LEMMA Signalled ==
    ASSUME NEW t \in Tokens, NEW q \in Seq(Notices), IsInjective(q), SignalToken(t, q)
    PROVE  /\ queue' \in Seq(Notices) /\ IsInjective(queue')
           /\ \A e \in Entries : e \in Range(queue') <=> e \in Range(q)
           /\ RingMoves
<1>1. CASE queue' = q
  <2>1. RingMoves
    BY DeferredAssumption DEF SignalToken, RingMoves, ringVars
  <2> QED
    BY <1>1, <2>1
<1>2. CASE queue' # q
  <2>1. queue' = Append(q, t) /\ t \notin Range(q) /\ UNCHANGED ringVars
    BY <1>2 DEF SignalToken
  <2>2. t \in Notices
    BY DEF Notices
  <2>3. /\ queue' \in Seq(Notices) /\ Range(queue') = Range(q) \cup {t}
        /\ IsInjective(queue')
    BY <2>1, <2>2, AppendElements
  <2>4. \A e \in Entries : e # t
    BY DeferredAssumption
  <2> QED
    BY <2>1, <2>3, <2>4 DEF RingMoves
<1> QED
  BY <1>1, <1>2

(* What Release takes off the list it frees, and takes off the queue.      *)
LEMMA Released ==
    ASSUME NEW es, DeferredTypes, Scheduled, Owned, Release(es)
    PROVE  /\ PendingList' \in Seq(Entries) /\ queue' \in Seq(Notices)
           /\ entry' \in [Entries -> EntryType]
           /\ Scheduled' /\ Linked' /\ Expired'
           /\ \A e \in Entries : entry'[e].timer = "running" => entry[e].timer = "running" /\ e \notin es
<1>1. Free \in EntryType /\ Free.timer = "free"
  BY DEF Free, EntryType
<1>2. /\ PendingList \in Seq(Entries) /\ queue \in Seq(Notices) /\ entry \in [Entries -> EntryType]
      /\ IsInjective(PendingList) /\ IsInjective(queue)
  BY DEF DeferredTypes, Owned, Linked, Expired
<1>3. /\ PendingList' \in Seq(Entries) /\ IsInjective(PendingList')
      /\ Range(PendingList') = Range(PendingList) \ es
  BY <1>2, WithoutElements DEF Release
<1>4. /\ queue' \in Seq(Notices) /\ IsInjective(queue')
      /\ Range(queue') = Range(queue) \ es
  BY <1>2, WithoutElements DEF Release
<1>5. entry' \in [Entries -> EntryType]
  BY <1>1, <1>2 DEF Release
<1>6. \A e \in Entries : entry'[e] = IF e \in es THEN Free ELSE entry[e]
  BY DEF Release
<1>7. Scheduled'
  BY <1>1, <1>6 DEF Scheduled
<1>8. Linked'
  BY <1>1, <1>3, <1>6 DEF Owned, Linked
<1>9. Expired'
  BY <1>1, <1>4, <1>6 DEF Owned, Expired
<1> QED
  BY <1>1, <1>3, <1>4, <1>5, <1>6, <1>7, <1>8, <1>9

(* While the drain of a delivery runs, what it calls stays above it.       *)
LEMMA DrainStays ==
    ASSUME DInv, DeliveryDrains, ~AtFinish, UNCHANGED delivery,
           \/ UNCHANGED frames \/ StartDrain \/ DrainNext
           \/ DrainReturn \/ ProcedureReturn
    PROVE  DeliveryDrains'
<1> SUFFICES ASSUME delivery # NoDelivery
             PROVE  /\ delivery.depth \in 1 .. Len(frames')
                    /\ IF Len(frames') = delivery.depth THEN mDpcCount' = 0
                       ELSE frames'[delivery.depth + 1].pc = "drain"
  BY DEF DeliveryDrains
<1> PICK d, n : d = delivery.depth /\ n = Len(frames)
  OBVIOUS
<1>1. /\ frames \in Seq(FrameType) /\ frames # <<>>
      /\ mDpcQueue[mDpcHead] \in Dpcs \cup {NoDpc} /\ mInsideDispatch \in BOOLEAN
  BY DEF DInv, RingOK
<1>2. n \in Nat \ {0} /\ Top = frames[n]
  BY <1>1, PushPop DEF Top
<1>3. d \in 1 .. n /\ d # n /\ frames[d + 1].pc = "drain"
  BY DEF DeliveryDrains, AtFinish
<1>4. d + 1 \in 1 .. n /\ d \in Nat
  BY <1>2, <1>3
<1>5. CASE UNCHANGED frames
  BY <1>2, <1>3, <1>5
<1>6. ASSUME NEW f \in FrameType, frames' = Append(frames, f)
      PROVE  d \in 1 .. Len(frames') /\ Len(frames') # d /\ frames'[d + 1].pc = "drain"
  <2>1. Len(frames') = n + 1 /\ \A i \in 1 .. n : frames'[i] = frames[i]
    BY <1>1, <1>6, PushPop
  <2> QED
    BY <1>2, <1>3, <1>4, <2>1
<1>7. CASE StartDrain
  <2>1. Drain(mInsideDispatch) \in FrameType
    BY <1>1 DEF Drain, FrameType
  <2> QED
    BY <1>6, <1>7, <2>1 DEF StartDrain
<1>8. CASE DrainNext
  <2>1. Procedure(mDpcQueue[mDpcHead]) \in FrameType
    BY <1>1 DEF Procedure, FrameType
  <2> QED
    BY <1>6, <1>8, <2>1 DEF DrainNext
<1>9. CASE DrainReturn \/ ProcedureReturn
  <2>1. n > 1 /\ frames' = Front(frames)
    BY <1>9, Deep DEF DrainReturn, ProcedureReturn, Below
  <2>2. Len(frames') = n - 1 /\ \A i \in 1 .. n - 1 : frames'[i] = frames[i]
    BY <1>1, <2>1, PushPop
  <2>3. CASE d < n - 1
    <3>1. d + 1 \in 1 .. n - 1 /\ d \in 1 .. n - 1 /\ d # n - 1
      BY <1>2, <1>3, <2>3
    <3> QED
      BY <1>3, <2>2, <3>1
  <2>4. CASE d = n - 1
    <3>1. Top.pc = "drain"
      BY <1>2, <1>3, <2>4
    <3>2. mDpcCount' = 0
      BY <1>9, <3>1 DEF DrainReturn, ProcedureReturn, ringVars
    <3>3. d \in 1 .. n - 1
      BY <1>2, <1>3, <2>4
    <3> QED
      BY <2>2, <2>4, <3>2, <3>3
  <2> QED
    BY <1>2, <1>3, <2>3, <2>4
<1> QED
  BY <1>5, <1>7, <1>8, <1>9

-----------------------------------------------------------------------------
(* The actions. *)

(* What a step does to the ring, the stack and the number of calls.        *)
DpcMoves == RingMoves /\ FramesMove /\ CallsMove

LEMMA DpcKept == ASSUME DeferredInv, DpcMoves PROVE DInv'
BY DInvMoves DEF DeferredInv, DpcMoves

LEMMA ScheduleStep ==
    ASSUME DeferredInv, NEW t \in Tokens, MockDeferredSchedule(t)
    PROVE  DeferredInv'
<1>1. /\ DInv /\ DeferredTypes /\ Scheduled /\ DeliveryDrains /\ Owned
      /\ ~AtFinish /\ ~undefined /\ Call
      /\ UNCHANGED <<advanceContext, now, delivery, undefined>>
  BY DEF DeferredInv, MockDeferredSchedule, Calls, Runs
<1>2. CASE advanceContext
  <2>1. PICK e \in Entries \ {delivery.entry} :
            /\ entry[e].timer = "free"
            /\ entry' = [entry EXCEPT ![e] = [timer |-> "armed", token |-> t, trigger |-> now + 1]]
            /\ PendingList' = Append(PendingList, e)
    BY <1>2 DEF MockDeferredSchedule
  <2>2. UNCHANGED <<ringVars, mInsideDispatch, frames, queue>>
    BY <1>2 DEF MockDeferredSchedule
  <2>3. DInv'
    BY <1>1, <2>2, DpcKept DEF DpcMoves, RingMoves, FramesMove, CallsMove
  <2> PICK r : r = [timer |-> "armed", token |-> t, trigger |-> now + 1]
    OBVIOUS
  <2>4. r \in EntryType /\ r.timer = "armed" /\ r.token = t
    BY <1>1 DEF EntryType, DeferredTypes
  <2>5. /\ entry' \in [Entries -> EntryType]
        /\ \A f \in Entries : entry'[f] = IF f = e THEN r ELSE entry[f]
    BY <1>1, <2>1, <2>4 DEF DeferredTypes
  <2>6. /\ PendingList' \in Seq(Entries) /\ Range(PendingList') = Range(PendingList) \cup {e}
        /\ IsInjective(PendingList')
    <3>1. PendingList \in Seq(Entries) /\ IsInjective(PendingList) /\ e \notin Range(PendingList)
      BY <1>1, <2>1 DEF DeferredTypes, Owned, Linked
    <3> QED
      BY <2>1, <3>1, AppendElements
  <2>7. DeferredTypes'
    BY <1>1, <2>2, <2>5, <2>6 DEF DeferredTypes
  <2>8. Scheduled'
    BY <1>1, <2>4, <2>5 DEF Scheduled
  <2>9. Linked'
    BY <1>1, <2>4, <2>5, <2>6 DEF Owned, Linked
  <2>10. Expired'
    BY <1>1, <2>1, <2>2, <2>4, <2>5 DEF Owned, Expired
  <2>11. RunningOne'
    BY <1>1, <2>4, <2>5 DEF Owned, RunningOne
  <2>12. DeliveryDrains'
    BY <1>1, <2>2, DrainStays
  <2> QED
    BY <2>3, <2>7, <2>8, <2>9, <2>10, <2>11, <2>12 DEF DeferredInv, Owned
<1>3. CASE ~advanceContext
  <2>1. SignalToken(t, queue) /\ StartDrain /\ UNCHANGED <<PendingList, entry>>
    BY <1>3 DEF MockDeferredSchedule
  <2>2. /\ queue' \in Seq(Notices) /\ IsInjective(queue') /\ RingMoves
        /\ \A e \in Entries : e \in Range(queue') <=> e \in Range(queue)
    <3>1. queue \in Seq(Notices) /\ IsInjective(queue)
      BY <1>1 DEF DeferredTypes, Owned, Expired
    <3> QED
      BY <2>1, <3>1, Signalled
  <2>3. DInv'
    BY <1>1, <2>1, <2>2, DpcKept DEF DpcMoves, FramesMove, CallsMove
  <2>4. DeferredTypes' /\ Scheduled' /\ Linked' /\ RunningOne'
    BY <1>1, <2>1, <2>2 DEF DeferredTypes, Scheduled, Owned, Linked, RunningOne
  <2>5. Expired'
    BY <1>1, <2>1, <2>2 DEF Owned, Expired
  <2>6. DeliveryDrains'
    BY <1>1, <2>1, DrainStays
  <2> QED
    BY <2>3, <2>4, <2>5, <2>6 DEF DeferredInv, Owned
<1> QED
  BY <1>2, <1>3

(* Cancel and CancelAll, and the reset, which ends in CancelAll.           *)
LEMMA CancelStep ==
    ASSUME DeferredInv, NEW es, Release(es), Runs, UNCHANGED <<advanceContext, now, delivery, undefined>>,
           \/ Call /\ UNCHANGED <<ringVars, mInsideDispatch, frames>>
           \/ delivery = NoDelivery /\ ResetState
    PROVE  DeferredInv'
<1>1. DInv /\ DeferredTypes /\ Scheduled /\ DeliveryDrains /\ Owned /\ ~AtFinish
  BY DEF DeferredInv, Runs
<1>2. /\ PendingList' \in Seq(Entries) /\ queue' \in Seq(Notices)
      /\ entry' \in [Entries -> EntryType]
      /\ Scheduled' /\ Linked' /\ Expired'
      /\ \A e \in Entries : entry'[e].timer = "running" => entry[e].timer = "running"
  BY <1>1, Released
<1>3. DeferredTypes'
  BY <1>1, <1>2 DEF DeferredTypes
<1>4. RunningOne'
  BY <1>1, <1>2 DEF Owned, RunningOne
<1>5. DpcMoves
  BY DEF DpcMoves, RingMoves, FramesMove, CallsMove, ResetState
<1>6. DInv'
  BY <1>5, DpcKept
<1>7. DeliveryDrains'
  <2>1. CASE UNCHANGED frames /\ delivery # NoDelivery
    BY <1>1, <2>1, DrainStays
  <2>2. CASE delivery = NoDelivery
    BY <2>2 DEF DeliveryDrains
  <2> QED
    BY <2>1, <2>2
<1> QED
  BY <1>2, <1>3, <1>4, <1>6, <1>7 DEF DeferredInv, Owned

(* The entries whose timers expire were not on the queue.                  *)
LEMMA AdvanceStep == ASSUME DeferredInv, AdvanceTime PROVE DeferredInv'
<1>1. /\ DInv /\ DeferredTypes /\ Scheduled /\ DeliveryDrains /\ Owned
      /\ ~AtFinish /\ ~undefined /\ Call /\ now' = now + 1
      /\ UNCHANGED <<ringVars, mInsideDispatch, frames, advanceContext, PendingList, delivery, undefined>>
  BY DEF DeferredInv, AdvanceTime, Calls, Runs
<1> PICK due : due = {e \in Entries : entry[e].timer = "armed" /\ entry[e].trigger <= now + 1}
  OBVIOUS
<1>2. /\ queue' = queue \o Without(PendingList, Entries \ due)
      /\ entry' = [e \in Entries |-> IF e \in due THEN [entry[e] EXCEPT !.timer = "queued"] ELSE entry[e]]
  BY DEF AdvanceTime
<1>3. \A e \in due : e \in Entries /\ entry[e].timer = "armed"
  OBVIOUS
<1>4. /\ \A e \in Entries : entry'[e] \in EntryType
      /\ \A e \in due : entry'[e].timer = "queued" /\ entry'[e].token = entry[e].token
      /\ \A e \in Entries \ due : entry'[e] = entry[e]
  BY <1>1, <1>2, <1>3 DEF DeferredTypes, EntryType
<1>5. entry' \in [Entries -> EntryType]
  BY <1>2, <1>4
<1> PICK w : w = Without(PendingList, Entries \ due)
  OBVIOUS
<1>6. w \in Seq(Entries) /\ IsInjective(w) /\ Range(w) = Range(PendingList) \ (Entries \ due)
  <2>1. PendingList \in Seq(Entries) /\ IsInjective(PendingList)
    BY <1>1 DEF DeferredTypes, Owned, Linked
  <2> QED
    BY <2>1, WithoutElements
<1>7. \A e : e \in Range(w) <=> e \in due
  BY <1>1, <1>3, <1>6 DEF Owned, Linked
<1>8. /\ queue' \in Seq(Notices) /\ IsInjective(queue') /\ Range(queue') = Range(queue) \cup Range(w)
  <2>1. queue \in Seq(Notices) /\ IsInjective(queue)
    BY <1>1 DEF DeferredTypes, Owned, Expired
  <2>2. w \in Seq(Notices)
    BY <1>6 DEF Notices
  <2>3. Range(queue) \cap Range(w) = {}
    BY <1>1, <1>3, <1>7 DEF Owned, Expired
  <2>4. queue' = queue \o w
    BY <1>2
  <2>5. /\ queue \o w \in Seq(Notices) /\ IsInjective(queue \o w)
        /\ Range(queue \o w) = Range(queue) \cup Range(w)
    <3>1. IsInjective(w)
      BY <1>6
    <3>2. \A s, u \in Seq(Notices) :
             /\ s \o u \in Seq(Notices) /\ Range(s \o u) = Range(s) \cup Range(u)
             /\ IsInjective(s) /\ IsInjective(u) /\ Range(s) \cap Range(u) = {} => IsInjective(s \o u)
      BY ConcatElements
    <3> QED
      BY <2>1, <2>2, <2>3, <3>1, <3>2
  <2> QED
    BY <2>4, <2>5
<1>9. DeferredTypes'
  BY <1>1, <1>5, <1>8 DEF DeferredTypes
<1>10. Scheduled'
  BY <1>1, <1>3, <1>4 DEF Scheduled
<1>11. Linked'
  BY <1>1, <1>3, <1>4 DEF Owned, Linked
<1>12. Expired'
  BY <1>1, <1>4, <1>7, <1>8 DEF Owned, Expired
<1>13. RunningOne'
  BY <1>1, <1>4 DEF Owned, RunningOne
<1>14. DInv'
  BY <1>1, DpcKept DEF DpcMoves, RingMoves, FramesMove, CallsMove
<1>15. DeliveryDrains'
  BY <1>1, DrainStays
<1> QED
  BY <1>9, <1>10, <1>11, <1>12, <1>13, <1>14, <1>15 DEF DeferredInv, Owned

(* The delivery takes its entry off the queue and starts its drain.        *)
LEMMA DeliverStep == ASSUME DeferredInv, DeliverCallback PROVE DeferredInv'
<1> PICK e, q : e = Head(queue) /\ q = Tail(queue)
  OBVIOUS
<1>1. /\ DInv /\ DeferredTypes /\ Scheduled /\ Owned /\ ~undefined
      /\ delivery = NoDelivery /\ queue # <<>> /\ e \in Entries /\ StartDrain
      /\ SignalToken(entry[e].token, q)
      /\ UNCHANGED <<calls, advanceContext, PendingList, now, undefined>>
  BY DEF DeferredInv, DeliverCallback, NotifyNext, Runs, Deliver
<1>2. /\ entry' = [entry EXCEPT ![e].timer = "running"]
      /\ delivery' = [entry |-> e, depth |-> Len(frames)]
  BY DEF DeliverCallback, Deliver
<1>3. /\ q \in Seq(Notices) /\ IsInjective(q) /\ Range(q) = Range(queue) \ {e} /\ e \in Range(queue)
  <2>1. queue \in Seq(Notices) /\ IsInjective(queue)
    BY <1>1 DEF DeferredTypes, Owned, Expired
  <2> QED
    BY <1>1, <2>1, TailElements
<1>4. entry[e].timer = "queued" /\ entry[e].token \in Tokens
  BY <1>1, <1>3 DEF Owned, Expired, Scheduled
<1>5. /\ queue' \in Seq(Notices) /\ IsInjective(queue') /\ RingMoves
      /\ \A f \in Entries : f \in Range(queue') <=> f \in Range(q)
  BY <1>1, <1>3, <1>4, Signalled
<1>6. /\ entry' \in [Entries -> EntryType]
      /\ entry'[e].timer = "running" /\ entry'[e].token = entry[e].token
      /\ \A f \in Entries \ {e} : entry'[f] = entry[f]
  BY <1>1, <1>2 DEF DeferredTypes, EntryType
<1>7. frames \in Seq(FrameType) /\ frames # <<>> /\ mInsideDispatch \in BOOLEAN
  BY <1>1 DEF DInv, RingOK
<1>8. Len(frames) \in Nat \ {0}
  BY <1>7, PushPop
<1>9. delivery' \in [entry : Entries \cup {NoEntry}, depth : Nat] /\ delivery'.entry = e
      /\ delivery'.depth = Len(frames)
  BY <1>1, <1>2, <1>8
<1>10. DeferredTypes'
  BY <1>1, <1>5, <1>6, <1>9 DEF DeferredTypes
<1>11. Scheduled'
  BY <1>1, <1>4, <1>6 DEF Scheduled
<1>12. Linked'
  BY <1>1, <1>4, <1>6 DEF Owned, Linked
<1>13. Expired'
  BY <1>1, <1>3, <1>5, <1>6 DEF Owned, Expired
<1>14. RunningOne'
  <2>1. \A f \in Entries \ {e} : entry[f].timer # "running"
    BY <1>1, DeferredAssumption DEF Owned, RunningOne, NoDelivery
  <2> QED
    BY <1>6, <1>9, <2>1 DEF RunningOne
<1>15. DInv'
  BY <1>1, <1>5, DpcKept DEF DpcMoves, FramesMove, CallsMove
<1>16. DeliveryDrains'
  <2>1. Drain(mInsideDispatch) \in FrameType /\ Drain(mInsideDispatch).pc = "drain"
    BY <1>7 DEF Drain, FrameType
  <2>2. frames' = Append(frames, Drain(mInsideDispatch))
    BY <1>1 DEF StartDrain
  <2>3. Len(frames') = Len(frames) + 1 /\ frames'[Len(frames) + 1].pc = "drain"
    BY <1>7, <2>1, <2>2, PushPop
  <2> QED
    BY <1>1, <1>8, <1>9, <2>3 DEF DeliveryDrains
<1> QED
  BY <1>10, <1>11, <1>12, <1>13, <1>14, <1>15, <1>16 DEF DeferredInv, Owned

(* Its end frees the entry, unless that has been done.                     *)
LEMMA FinishStep == ASSUME DeferredInv, DeliverFinish PROVE DeferredInv' /\ mDpcCount = 0
<1>1. /\ DInv /\ DeferredTypes /\ Scheduled /\ Owned /\ DeliveryDrains /\ AtFinish
      /\ delivery' = NoDelivery /\ UNCHANGED <<vars, advanceContext, now>>
  BY DEF DeferredInv, DeliverFinish
<1>2. mDpcCount = 0
  BY <1>1 DEF AtFinish, DeliveryDrains
<1>3. NoDelivery \in [entry : Entries \cup {NoEntry}, depth : Nat]
  BY DEF NoDelivery
<1>4. DInv'
  BY <1>1, DpcKept DEF DpcMoves, RingMoves, FramesMove, CallsMove, vars
<1>5. DeliveryDrains'
  BY <1>1 DEF DeliveryDrains
<1>6. CASE entry[delivery.entry].timer = "running"
  <2>1. Release({delivery.entry}) /\ UNCHANGED undefined
    BY <1>6 DEF DeliverFinish
  <2>2. /\ PendingList' \in Seq(Entries) /\ queue' \in Seq(Notices)
        /\ entry' \in [Entries -> EntryType]
        /\ Scheduled' /\ Linked' /\ Expired'
        /\ \A e \in Entries : entry'[e].timer = "running" =>
              entry[e].timer = "running" /\ e \notin {delivery.entry}
    BY <1>1, <2>1, Released
  <2>3. RunningOne'
    BY <1>1, <2>2 DEF Owned, RunningOne
  <2>4. DeferredTypes'
    BY <1>1, <1>3, <2>1, <2>2 DEF DeferredTypes
  <2> QED
    BY <1>2, <1>4, <1>5, <2>2, <2>3, <2>4 DEF DeferredInv, Owned
<1>7. CASE entry[delivery.entry].timer # "running"
  <2>1. undefined' = TRUE /\ UNCHANGED <<PendingList, entry, queue>>
    BY <1>7 DEF DeliverFinish
  <2>2. DeferredTypes' /\ Scheduled'
    BY <1>1, <1>3, <2>1 DEF DeferredTypes, Scheduled
  <2> QED
    BY <1>2, <1>4, <1>5, <2>1, <2>2 DEF DeferredInv
<1> QED
  BY <1>6, <1>7

LEMMA TokenStep == ASSUME DeferredInv, TokenNotify PROVE DeferredInv'
<1>1. /\ DInv /\ DeferredTypes /\ Scheduled /\ Owned /\ DeliveryDrains
      /\ ~AtFinish /\ ~undefined /\ queue # <<>> /\ Head(queue) \in Tokens
      /\ Enqueue(DpcOf[Head(queue)]) /\ queue' = Tail(queue)
      /\ UNCHANGED <<mInsideDispatch, frames, calls, advanceContext, PendingList, entry, now,
                     delivery, undefined>>
  BY DEF DeferredInv, TokenNotify, NotifyNext, Runs
<1>2. /\ queue' \in Seq(Notices) /\ IsInjective(queue') /\ Range(queue') = Range(queue) \ {Head(queue)}
  <2>1. queue \in Seq(Notices) /\ IsInjective(queue)
    BY <1>1 DEF DeferredTypes, Owned, Expired
  <2> QED
    BY <1>1, <2>1, TailElements
<1>3. Head(queue) \notin Entries
  BY <1>1, DeferredAssumption
<1>4. DInv'
  BY <1>1, DpcKept, DeferredAssumption DEF DpcMoves, RingMoves, FramesMove, CallsMove
<1>5. DeferredTypes' /\ Scheduled' /\ Linked' /\ RunningOne'
  BY <1>1, <1>2 DEF DeferredTypes, Scheduled, Owned, Linked, RunningOne
<1>6. Expired'
  BY <1>1, <1>2, <1>3 DEF Owned, Expired
<1>7. DeliveryDrains'
  BY <1>1, DrainStays
<1> QED
  BY <1>4, <1>5, <1>6, <1>7 DEF DeferredInv, Owned

(* The steps of the ring and the stack alone.                              *)
LEMMA ServiceStep ==
    ASSUME DeferredInv, Runs, Service \/ MockDpcDispatchDpc, UNCHANGED deferredVars
    PROVE  DeferredInv'
<1>1. DInv /\ DeferredTypes /\ Scheduled /\ Owned /\ DeliveryDrains /\ ~AtFinish /\ ~undefined
  BY DEF DeferredInv, Runs
<1>2. Next
  BY DEF Next
<1>3. DInv'
  BY <1>1, <1>2, DInvNext
<1>4. DeferredTypes' /\ Scheduled' /\ Linked' /\ RunningOne' /\ Expired' /\ delivery' = delivery
  BY <1>1 DEF deferredVars, DeferredTypes, Scheduled, Owned, Linked, RunningOne, Expired
<1>5. DeliveryDrains'
  BY <1>1, <1>4, DrainStays DEF Service, MockDpcDispatchDpc
<1> QED
  BY <1>3, <1>4, <1>5 DEF DeferredInv, Owned

LEMMA DeferredInvNext == ASSUME DeferredInv, [DeferredNext]_allVars PROVE DeferredInv'
<1>1. CASE \E t \in Tokens : MockDeferredSchedule(t)
  BY <1>1, ScheduleStep
<1>2. CASE \E t \in Tokens : MockDeferredCancel(t)
  <2>1. PICK t \in Tokens : MockDeferredCancel(t)
    BY <1>2
  <2>2. \E es : Release(es)
    BY <2>1 DEF MockDeferredCancel
  <2> QED
    BY <2>1, <2>2, CancelStep DEF MockDeferredCancel, Calls
<1>3. CASE MockDeferredCancelAll
  BY <1>3, CancelStep DEF MockDeferredCancelAll, Calls
<1>4. CASE MockProtocolResetAll
  BY <1>4, CancelStep DEF MockProtocolResetAll
<1>5. CASE AdvanceTime
  BY <1>5, AdvanceStep
<1>6. CASE Notify
  BY <1>6, DeliverStep, TokenStep DEF Notify
<1>7. CASE DeferredService
  BY <1>7, FinishStep, ServiceStep DEF DeferredService
<1>8. CASE Runs /\ MockDpcDispatchDpc /\ UNCHANGED deferredVars
  BY <1>8, ServiceStep
<1>9. CASE UNCHANGED allVars
  <2>1. UNCHANGED vars /\ UNCHANGED deferredVars
    BY <1>9 DEF allVars
  <2>2. DInv'
    BY <2>1, DInvNext DEF DeferredInv
  <2> QED
    BY <2>1, <2>2 DEF DeferredInv, deferredVars, vars, ringVars, DeferredTypes, Scheduled, DeliveryDrains,
                      Owned, Linked, Expired, RunningOne
<1> QED
  BY <1>1, <1>2, <1>3, <1>4, <1>5, <1>6, <1>7, <1>8, <1>9 DEF DeferredNext

(* The invariant by which the list, the heap, the event queue and the      *)
(* stack agree, for any number of entries, tokens and procedures.          *)
THEOREM DeferredInvariance == DeferredSpec => []DeferredInv
BY DeferredInvInit, DeferredInvNext, PTL DEF DeferredSpec

(* An entry in use is linked once and its timer armed, its notification    *)
(* queued once, or it is being delivered, however Cancel, CancelAll, the   *)
(* reset and the delivery itself come together (MockDeferredSignal.c).     *)
THEOREM PendingHolds == DeferredSpec => []PendingOwned
<1>1. DeferredInv => PendingOwned
  BY OwnedIsPendingOwned DEF DeferredInv, PendingOwned
<1> QED
  BY <1>1, DeferredInvariance, PTL

(* No DPC is pending when a delivery ends, though it may have interrupted  *)
(* a drain and procedures may have started drains of their own             *)
(* (DeliverCallback).                                                      *)
THEOREM DeliveryHolds == DeferredSpec => DeliveryDispatches
<1>1. DeferredInv /\ [DeferredNext]_allVars => [DeliverFinish => mDpcCount = 0]_allVars
  BY FinishStep
<1> QED
  BY <1>1, DeferredInvariance, PTL DEF DeferredSpec, DeliveryDispatches

(* The ring and the flag of the drain agree with what is pending and       *)
(* running also when deliveries interrupt drains.                          *)
THEOREM RingHoldsDeferred == DeferredSpec => []RingKept
<1>1. DeferredInv => RingKept
  BY DEF DeferredInv, DInv, FramesOK, Draining, InsideMeansDraining, RingKept
<1> QED
  BY <1>1, DeferredInvariance, PTL
=============================================================================
