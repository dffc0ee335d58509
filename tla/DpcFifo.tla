------------------------------- MODULE DpcFifo -------------------------------
(***************************************************************************)
(* What the users of the DPC protocol rely on: pending procedures start in *)
(* the order they were queued, each once, and a procedure that is pending  *)
(* already is not queued again.                                            *)
(***************************************************************************)
EXTENDS Sequences, Integers

CONSTANT Dpcs       \* pairs (Procedure, Context)

VARIABLE fifo

Init == fifo = <<>>

Queue(d) ==
    /\ \A i \in 1 .. Len(fifo) : fifo[i] # d
    /\ fifo' = Append(fifo, d)

Start == fifo # <<>> /\ fifo' = Tail(fifo)

Reset == fifo' = <<>>

Next == (\E d \in Dpcs : Queue(d)) \/ Start \/ Reset

Spec == Init /\ [][Next]_fifo
=============================================================================
