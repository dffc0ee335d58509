----------------------------- MODULE FuzzContext -----------------------------
(***************************************************************************)
(* The fuzz contexts of FuzzContextLib.c: cursors over the bytes of one    *)
(* input.  Bytes are known by their position in the input, never by their  *)
(* value.  The pool wraps the whole input; a sub-context wraps a region    *)
(* carved from it.  A NULL buffer only ever comes with size 0.             *)
(***************************************************************************)
EXTENDS Integers

(* base: the position of the first byte; limit: 0 when there is none.      *)
Contexts(n) ==
    [base : 0 .. n, size : 0 .. n, offset : 0 .. n, limit : Nat, exhausted : BOOLEAN]

MockFuzzContextInit(n) ==
    [base |-> 0, size |-> n, offset |-> 0, limit |-> 0, exhausted |-> n = 0]

MockFuzzContextReset(c) ==
    [c EXCEPT !.offset = 0, !.limit = 0, !.exhausted = (c.size = 0)]

EffectiveEnd(c) == IF c.limit > 0 /\ c.limit < c.size THEN c.limit ELSE c.size

MockFuzzContextRemaining(c) ==
    IF c.exhausted \/ c.offset >= EffectiveEnd(c) THEN 0 ELSE EffectiveEnd(c) - c.offset

(* Consume returns a region when it can, and exhausts the context when it  *)
(* cannot, even for no bytes at the end of the context.                    *)
CanConsume(c, count) ==
    ~c.exhausted /\ c.offset < EffectiveEnd(c) /\ count <= EffectiveEnd(c) - c.offset

MockFuzzContextConsume(c, count) ==
    IF CanConsume(c, count)
    THEN [c EXCEPT !.offset = c.offset + count]
    ELSE [c EXCEPT !.exhausted = TRUE]

(* The positions that Consume hands out. *)
Region(c, count) ==
    IF CanConsume(c, count) THEN c.base + c.offset .. c.base + c.offset + count - 1 ELSE {}

MockFuzzContextSetLimit(c, limit) == [c EXCEPT !.limit = limit]

MockFuzzContextClearLimit(c) ==
    [c EXCEPT !.limit = 0, !.exhausted = c.exhausted /\ ~(c.offset < c.size)]

(* Forward only; ignores the limit. *)
MockFuzzContextAdvanceTo(c, target) ==
    LET to == IF target > c.size THEN c.size ELSE target
    IN  IF target <= c.offset THEN c
        ELSE [c EXCEPT !.offset = to, !.exhausted = (to >= c.size)]

(* mutant: the region is not taken from the parent. *)
ParentAfterCarvePeeks(c, count) ==
    IF CanConsume(c, count) THEN c ELSE [c EXCEPT !.exhausted = TRUE]

(* CreateSubContext: the parent and the sub-context afterwards. *)
ParentAfterCarve(c, count) == MockFuzzContextConsume(c, count)

MockFuzzContextCreateSubContext(c, count) ==
    IF CanConsume(c, count)
    THEN [base |-> c.base + c.offset, size |-> count, offset |-> 0, limit |-> 0,
          exhausted |-> count = 0]
    ELSE [base |-> 0, size |-> 0, offset |-> 0, limit |-> 0, exhausted |-> TRUE]
=============================================================================
