---------------------------- MODULE HarnessProofs ----------------------------
(***************************************************************************)
(* The layout of an input holds for all sizes of inputs, budgets, payloads *)
(* and reads, and any number of inputs in one process.                     *)
(*                                                                         *)
(* The inductive invariant says where the unread bytes are: a context that *)
(* may be read from has handed out nothing from its offset on, the region  *)
(* of the UDP6 mock lies behind the offset of the pool, and where that     *)
(* region could not be carved the pool is exhausted.                       *)
(*                                                                         *)
(* The second part is about the drivers that an iteration connects: for    *)
(* all stacks of drivers, all overrides and versions, all sequences of     *)
(* calls of the host and all functions of the drivers that fail, they are  *)
(* connected in the order CoreConnectSingleController promises, and a      *)
(* driver is stopped before the drivers that it is stacked on.  The        *)
(* inductive invariant follows the frames of the calls that are nested in  *)
(* each other.                                                             *)
(***************************************************************************)
EXTENDS HarnessIteration, HostDispatcher, ListLemmas, FiniteSetTheorems, TLAPS

-----------------------------------------------------------------------------
(* What the operations of FuzzContextLib.c do to one context.              *)

ContextType ==
    [base : Nat, size : Nat, offset : Nat, limit : Nat, exhausted : BOOLEAN]
Context(c) == c \in ContextType /\ c.offset <= c.size

(* Fields that are set keep the type of a context. *)
LEMMA Sets ==
    ASSUME NEW c \in ContextType, NEW b \in BOOLEAN, NEW k \in Nat
    PROVE  /\ [c EXCEPT !.limit = 0, !.exhausted = b] \in ContextType
           /\ [c EXCEPT !.offset = k, !.exhausted = b] \in ContextType
           /\ [c EXCEPT !.offset = 0, !.limit = 0, !.exhausted = b] \in ContextType
BY DEF ContextType

(* Consume moves the offset over the region, which the limit bounds, or    *)
(* leaves an exhausted context; nothing is read from one of those.         *)
LEMMA ConsumeMoves ==
    ASSUME NEW c, Context(c), NEW count \in Nat,
           NEW d, d = MockFuzzContextConsume(c, count)
    PROVE  /\ Context(d)
           /\ d.base = c.base /\ d.size = c.size /\ d.limit = c.limit
           /\ c.exhausted => d.exhausted
           /\ c.exhausted => Region(c, count) = {}
           /\ c.offset <= d.offset
           /\ \A p \in Region(c, count) : /\ p \in Nat
                                          /\ c.base + c.offset <= p /\ p < c.base + d.offset
           /\ c.limit > 0 /\ c.offset <= c.limit => d.offset <= c.limit
           /\ CanConsume(c, count) => d.offset = c.offset + count /\ d.exhausted = c.exhausted
           /\ ~CanConsume(c, count) => d.offset = c.offset /\ d.exhausted
<1>1. EffectiveEnd(c) \in Nat /\ EffectiveEnd(c) <= c.size
      /\ (c.limit > 0 => EffectiveEnd(c) <= c.limit)
  BY DEF EffectiveEnd, Context, ContextType
<1>2. CASE CanConsume(c, count)
  <2>1. c.offset + count <= EffectiveEnd(c) /\ ~c.exhausted
    BY <1>1, <1>2 DEF CanConsume, Context, ContextType
  <2>2. /\ MockFuzzContextConsume(c, count)
             = [base |-> c.base, size |-> c.size, offset |-> c.offset + count,
                limit |-> c.limit, exhausted |-> c.exhausted]
        /\ Region(c, count) = c.base + c.offset .. c.base + c.offset + count - 1
    BY <1>2 DEF MockFuzzContextConsume, Region, Context, ContextType
  <2> QED
    BY <1>1, <1>2, <2>1, <2>2 DEF Context, ContextType
<1>3. CASE ~CanConsume(c, count)
  <2>1. /\ MockFuzzContextConsume(c, count)
             = [base |-> c.base, size |-> c.size, offset |-> c.offset,
                limit |-> c.limit, exhausted |-> TRUE]
        /\ Region(c, count) = {}
    BY <1>3 DEF MockFuzzContextConsume, Region, Context, ContextType
  <2>2. d.base = c.base /\ d.size = c.size /\ d.offset = c.offset /\ d.limit = c.limit /\ d.exhausted
    BY <2>1
  <2>3. Context(d)
    BY <2>1 DEF Context, ContextType
  <2>4. c.offset \in Nat
    BY DEF Context, ContextType
  <2>5. c.exhausted => d.exhausted
    BY <2>2
  <2>6. ~CanConsume(c, count) => d.offset = c.offset /\ d.exhausted
    BY <2>2
  <2>7. c.offset <= d.offset
    BY <2>2, <2>4
  <2>8. \A p \in Region(c, count) : FALSE
    BY <2>1
  <2>9. c.limit > 0 /\ c.offset <= c.limit => d.offset <= c.limit
    BY <2>2
  <2> QED
    BY <1>3, <2>1, <2>2, <2>3, <2>5, <2>6, <2>7, <2>8, <2>9
<1> QED
  BY <1>2, <1>3

(* Remaining tells how much Consume can return, and is 0 at the end.       *)
LEMMA Remains ==
    ASSUME NEW c, Context(c)
    PROVE  /\ MockFuzzContextRemaining(c) \in Nat
           /\ c.exhausted => MockFuzzContextRemaining(c) = 0
           /\ \A count \in Nat \ {0} :
                 count <= MockFuzzContextRemaining(c) => CanConsume(c, count)
BY DEF MockFuzzContextRemaining, CanConsume, EffectiveEnd, Context, ContextType

(* A carved context is the region that the parent consumes for it.         *)
LEMMA Carves ==
    ASSUME NEW c, Context(c), NEW count \in Nat,
           NEW d, d = MockFuzzContextCreateSubContext(c, count)
    PROVE  /\ Context(d)
           /\ CanConsume(c, count) =>
                 d.base = c.base + c.offset /\ d.size = count /\ d.offset = 0
           /\ ~CanConsume(c, count) => d.size = 0
<1>1. CASE CanConsume(c, count)
  <2>1. MockFuzzContextCreateSubContext(c, count)
          = [base |-> c.base + c.offset, size |-> count, offset |-> 0, limit |-> 0,
             exhausted |-> count = 0]
    BY <1>1 DEF MockFuzzContextCreateSubContext
  <2>2. (count = 0) \in BOOLEAN
    OBVIOUS
  <2> QED
    BY <1>1, <2>1, <2>2 DEF Context, ContextType
<1>2. CASE ~CanConsume(c, count)
  BY <1>2 DEF MockFuzzContextCreateSubContext, Context, ContextType
<1> QED
  BY <1>1, <1>2

(* A new input, its limit and its start.                                   *)
LEMMA Starts ==
    ASSUME NEW n \in Nat, NEW limit \in Nat,
           NEW d, d = MockFuzzContextSetLimit(MockFuzzContextInit(n), limit)
    PROVE  /\ Context(d) /\ Context(MockFuzzContextInit(n))
           /\ d.base = 0 /\ d.size = n /\ d.offset = 0 /\ d.limit = limit
<1>1. MockFuzzContextInit(n)
        = [base |-> 0, size |-> n, offset |-> 0, limit |-> 0, exhausted |-> n = 0]
  BY DEF MockFuzzContextInit
<1>2. Context(MockFuzzContextInit(n))
  BY <1>1 DEF Context, ContextType
<1>3. d = [base |-> 0, size |-> n, offset |-> 0, limit |-> limit, exhausted |-> n = 0]
  BY <1>1 DEF MockFuzzContextSetLimit
<1> QED
  BY <1>2, <1>3 DEF Context, ContextType

(* The payload starts at its position or at the end of the input.          *)
LEMMA Advances ==
    ASSUME NEW c, Context(c), NEW target \in Nat, c.offset <= target,
           NEW d, d = MockFuzzContextAdvanceTo(MockFuzzContextClearLimit(c), target)
    PROVE  /\ Context(d) /\ d.base = c.base /\ d.size = c.size
           /\ c.offset <= d.offset /\ d.offset <= target
           /\ d.offset # target => d.offset = d.size
<1> DEFINE e == MockFuzzContextClearLimit(c)
<1>1. Context(e) /\ e.base = c.base /\ e.size = c.size /\ e.offset = c.offset
  <2>1. PICK left \in BOOLEAN : left = (c.exhausted /\ ~(c.offset < c.size))
    OBVIOUS
  <2>2. e = [c EXCEPT !.limit = 0, !.exhausted = left]
    BY <2>1 DEF MockFuzzContextClearLimit
  <2>3. c \in ContextType
    BY DEF Context
  <2>4. e \in ContextType
    BY <2>2, <2>3, Sets
  <2> QED
    BY <2>2, <2>3, <2>4 DEF Context, ContextType
<1> HIDE DEF e
<1>3. CASE target <= e.offset
  <2>1. MockFuzzContextAdvanceTo(e, target) = e
    BY <1>3 DEF MockFuzzContextAdvanceTo
  <2> QED
    BY <1>1, <1>3, <2>1 DEF Context, ContextType, e
<1>4. CASE ~(target <= e.offset)
  <2> DEFINE to  == IF target > e.size THEN e.size ELSE target
             end == (to >= e.size)
  <2>1. /\ MockFuzzContextAdvanceTo(e, target) = [e EXCEPT !.offset = to, !.exhausted = end]
        /\ end \in BOOLEAN
    BY <1>4 DEF MockFuzzContextAdvanceTo
  <2>2. to \in Nat /\ to <= e.size /\ to <= target /\ e.offset <= to
        /\ (to # target => to = e.size)
    BY <1>1, <1>4 DEF Context, ContextType
  <2> HIDE DEF to, end
  <2> QED
    BY <1>1, <2>1, <2>2 DEF Context, ContextType, e
<1> QED
  BY <1>3, <1>4

(* The pool after an iteration.                                            *)
LEMMA Resets ==
    ASSUME NEW c, Context(c)
    PROVE  Context(MockFuzzContextReset(c)) /\ MockFuzzContextReset(c).size = c.size
           /\ MockFuzzContextReset(c).base = c.base
<1>1. PICK empty \in BOOLEAN : empty = (c.size = 0)
  OBVIOUS
<1>2. MockFuzzContextReset(c) = [c EXCEPT !.offset = 0, !.limit = 0, !.exhausted = empty]
  BY <1>1 DEF MockFuzzContextReset
<1>3. c \in ContextType
  BY DEF Context
<1>4. MockFuzzContextReset(c) \in ContextType
  BY <1>2, <1>3, Sets
<1> QED
  BY <1>2, <1>3, <1>4 DEF Context, ContextType

-----------------------------------------------------------------------------
(* The inductive invariant.                                                *)

Whos == {"bootstrap", "header", "api", "time", "udp6", "late"}
Bytes == 0 .. pool.size - 1
ReadBy(who) == {p \in DOMAIN readers : \E i \in 1 .. Len(readers[p]) : readers[p][i] = who}

HarnessTypes ==
    /\ Context(pool) /\ pool.base = 0
    /\ Context(Udp6Sub)
    /\ readers \in [Bytes -> Seq(Whos)]

(* From its offset on, a context that can be read from is unread.          *)
UnreadAhead ==
    /\ pc # "idle" => \A p \in Bytes : p >= pool.offset => readers[p] = <<>>
    /\ override =>
          /\ pc \in {"api", "apiDone"}
          /\ Udp6Sub.base = BootstrapSize + HeaderSize
          /\ Udp6Sub.base + Udp6Sub.size <= pool.offset
          /\ \A p \in Bytes : p >= Udp6Sub.base + Udp6Sub.offset
                                 /\ p < Udp6Sub.base + Udp6Sub.size => readers[p] = <<>>

(* The bootstrap stays in front of the payload, and until the header is    *)
(* read nothing else reads.                                                *)
BootstrapFirst ==
    /\ ReadBy("bootstrap") \subseteq 0 .. BootstrapSize - 1
    /\ ReadBy("header") \subseteq BootstrapSize .. BootstrapSize + HeaderSize - 1
    /\ pc = "setup" => pool.limit = BootstrapSize
    /\ pc \in {"setup", "bootstrapped", "payload"} =>
          /\ pool.offset <= BootstrapSize
          /\ \A who \in Whos \ {"bootstrap"} : ReadBy(who) = {}
    /\ pc = "payload" /\ pool.offset # BootstrapSize => pool.offset = pool.size

(* Who reads the pool after the header reads behind the region of UDP6.    *)
PayloadAt == BootstrapSize + HeaderSize + Udp6Sub.size
Placed ==
    /\ ReadBy("udp6") \subseteq Udp6Sub.base .. Udp6Sub.base + Udp6Sub.size - 1
    /\ \A who \in {"api", "time", "late"} : \A p \in ReadBy(who) : p >= PayloadAt

PayloadPlaced ==
    /\ pc \in {"api", "apiDone", "cleanup"} => Placed /\ pool.offset >= PayloadAt
    /\ pc = "done" /\ ReadBy("header") # {} => Placed
    /\ pc = "api" /\ ~override => pool.exhausted
    /\ advancing => pc \in {"api", "cleanup"}

HInv == HarnessTypes /\ NoByteTwice /\ UnreadAhead /\ BootstrapFirst /\ PayloadPlaced

-----------------------------------------------------------------------------
(* Reads.                                                                  *)

LEMMA Sizes4 == HeaderSize = 4 /\ U16 = 2 /\ BootstrapSize \in Nat \ {0} /\ RngBytes \in Nat
BY HarnessAssumption DEF HeaderSize, U16

(* A read of bytes that are unread leaves no byte read twice, and adds     *)
(* them to those of its reader.                                            *)
LEMMA ReadStep ==
    ASSUME readers \in [Bytes -> Seq(Whos)], pool'.size = pool.size,
           NEW region, NEW who \in Whos, Read(region, who),
           \A p \in region : p \in Bytes /\ readers[p] = <<>>
    PROVE  /\ readers' \in [Bytes' -> Seq(Whos)]
           /\ NoByteTwice => NoByteTwice'
           /\ \A p \in Bytes : p \notin region => readers'[p] = readers[p]
           /\ \A w \in Whos : \A p \in ReadBy(w)' :
                 p \in ReadBy(w) \/ (w = who /\ p \in region)
<1>1. Bytes' = Bytes /\ DOMAIN readers = Bytes
  BY DEF Bytes
<1>2. readers' = [p \in Bytes |-> IF p \in region THEN Append(readers[p], who) ELSE readers[p]]
  BY <1>1 DEF Read
<1>3. \A p \in Bytes : readers[p] \in Seq(Whos) /\ Append(readers[p], who) \in Seq(Whos)
  OBVIOUS
<1>4. readers' \in [Bytes' -> Seq(Whos)]
  BY <1>1, <1>2, <1>3
<1>5. \A p \in Bytes : p \notin region => readers'[p] = readers[p]
  BY <1>2
<1>6. \A p \in region : readers'[p] = <<who>> /\ Len(readers'[p]) = 1 /\ readers'[p][1] = who
  <2> TAKE p \in region
  <2>1. p \in Bytes /\ readers[p] = <<>> /\ Append(<<>>, who) = <<who>>
    OBVIOUS
  <2> QED
    BY <1>2, <2>1
<1>7. ASSUME NoByteTwice PROVE NoByteTwice'
  BY <1>1, <1>2, <1>5, <1>6, <1>7 DEF NoByteTwice
<1>8. ASSUME NEW w \in Whos, NEW p \in ReadBy(w)'
      PROVE  p \in ReadBy(w) \/ (w = who /\ p \in region)
  <2>1. p \in Bytes
    BY <1>2 DEF ReadBy
  <2>2. PICK i \in 1 .. Len(readers'[p]) : readers'[p][i] = w
    BY DEF ReadBy
  <2>3. CASE p \in region
    <3>1. i = 1
      BY <1>6, <2>2, <2>3
    <3> QED
      BY <1>6, <2>2, <2>3, <3>1
  <2>4. CASE p \notin region
    BY <1>1, <1>5, <2>1, <2>2, <2>4 DEF ReadBy
  <2> QED
    BY <2>3, <2>4
<1> QED
  BY <1>4, <1>5, <1>7, <1>8

(* A read from the pool: it is for the bootstrap, behind the region of     *)
(* UDP6, or of nothing.                                                    *)
LEMMA PoolRead ==
    ASSUME HInv, NEW count \in Nat, NEW who \in Whos,
           Read(Region(pool, count), who), pool' = MockFuzzContextConsume(pool, count),
           \/ pc = "setup" /\ who = "bootstrap"
           \/ pc \in {"api", "cleanup"} /\ who \in {"api", "time", "late"}
           \/ pc = "api" /\ ~override /\ who = "udp6",
           UNCHANGED <<pc, Udp6Sub, override>>, advancing' => pc \in {"api", "cleanup"}
    PROVE  HInv'
<1>1. /\ Context(pool) /\ pool.base = 0 /\ Context(Udp6Sub)
      /\ readers \in [Bytes -> Seq(Whos)] /\ NoByteTwice
  BY DEF HInv, HarnessTypes
<1>2. /\ Context(pool') /\ pool'.base = 0 /\ pool'.size = pool.size /\ pool'.limit = pool.limit
      /\ pool.exhausted => pool'.exhausted /\ Region(pool, count) = {}
      /\ pool.offset <= pool'.offset
      /\ \A p \in Region(pool, count) : p \in Nat /\ pool.offset <= p /\ p < pool'.offset
      /\ pool.limit > 0 /\ pool.offset <= pool.limit => pool'.offset <= pool.limit
  <2>1. pool.base = 0 /\ pool.offset \in Nat /\ 0 + pool.offset = pool.offset
    BY <1>1 DEF Context, ContextType
  <2>2. pool'.offset \in Nat /\ 0 + pool'.offset = pool'.offset
    BY <1>1, ConsumeMoves DEF Context, ContextType
  <2>3. ASSUME NEW p \in Region(pool, count)
        PROVE  p \in Nat /\ pool.offset <= p /\ p < pool'.offset
    <3>1. p \in Nat /\ pool.base + pool.offset <= p /\ p < pool.base + pool'.offset
      BY <1>1, ConsumeMoves
    <3> QED
      BY <2>1, <2>2, <3>1
  <2>4. /\ Context(pool') /\ pool'.base = pool.base /\ pool'.size = pool.size
        /\ pool'.limit = pool.limit /\ (pool.exhausted => pool'.exhausted)
        /\ (pool.exhausted => Region(pool, count) = {}) /\ pool.offset <= pool'.offset
        /\ (pool.limit > 0 /\ pool.offset <= pool.limit => pool'.offset <= pool.limit)
    BY <1>1, ConsumeMoves
  <2> QED
    BY <2>1, <2>3, <2>4
<1>3. /\ pool.offset \in Nat /\ pool.size \in Nat /\ pool'.offset \in Nat /\ pool'.offset <= pool'.size
      /\ Udp6Sub.base \in Nat /\ Udp6Sub.size \in Nat /\ Udp6Sub.offset \in Nat
  BY <1>1, <1>2 DEF Context, ContextType
<1>4. pc # "idle"
  OBVIOUS
<1>5. \A p \in Region(pool, count) : p \in Bytes /\ readers[p] = <<>>
  BY <1>2, <1>3, <1>4 DEF Bytes, HInv, UnreadAhead
<1>6. /\ readers' \in [Bytes' -> Seq(Whos)] /\ NoByteTwice'
      /\ \A p \in Bytes : p \notin Region(pool, count) => readers'[p] = readers[p]
      /\ \A w \in Whos : \A p \in ReadBy(w)' :
            p \in ReadBy(w) \/ (w = who /\ p \in Region(pool, count))
  BY <1>1, <1>2, <1>5, ReadStep
<1>7. HarnessTypes'
  BY <1>1, <1>2, <1>6 DEF HarnessTypes
<1>8. UnreadAhead'
  <2>1. Bytes' = Bytes
    BY <1>2 DEF Bytes
  <2>2. ASSUME NEW p \in Bytes, p >= pool'.offset PROVE readers'[p] = <<>>
    <3>1. p >= pool.offset /\ p \notin Region(pool, count) /\ p \in Nat
      BY <1>2, <1>3, <2>2 DEF Bytes
    <3> QED
      BY <1>4, <1>6, <3>1 DEF HInv, UnreadAhead
  <2>3. ASSUME override, NEW p \in Bytes, p >= Udp6Sub.base + Udp6Sub.offset,
               p < Udp6Sub.base + Udp6Sub.size
        PROVE  readers'[p] = <<>>
    <3>1. p < pool.offset /\ p \in Nat
      BY <1>3, <2>3 DEF Bytes, HInv, UnreadAhead
    <3>2. p \notin Region(pool, count)
      BY <1>2, <1>3, <3>1
    <3> QED
      BY <1>6, <2>3, <3>2 DEF HInv, UnreadAhead
  <2>4. override => /\ pc \in {"api", "apiDone"}
                    /\ Udp6Sub.base = BootstrapSize + HeaderSize
                    /\ Udp6Sub.base + Udp6Sub.size <= pool'.offset
    BY <1>2, <1>3 DEF HInv, UnreadAhead
  <2> QED
    BY <2>1, <2>2, <2>3, <2>4 DEF UnreadAhead
<1>9. BootstrapFirst'
  <2>1. CASE pc = "setup" /\ who = "bootstrap"
    <3>1. pool.limit = BootstrapSize /\ pool.offset <= BootstrapSize
      BY <2>1 DEF HInv, BootstrapFirst
    <3>2. pool'.offset <= BootstrapSize /\ pool'.limit = BootstrapSize
      BY <1>2, <3>1, Sizes4
    <3>3. \A p \in Region(pool, count) : p \in 0 .. BootstrapSize - 1
      BY <1>2, <1>3, <3>2, Sizes4
    <3>4. \A w \in Whos : w # "bootstrap" => \A p \in ReadBy(w)' : p \in ReadBy(w)
      BY <1>6, <2>1
    <3>5. \A p \in ReadBy("bootstrap")' : p \in 0 .. BootstrapSize - 1
      BY <1>6, <3>3 DEF HInv, BootstrapFirst, Whos
    <3>6. ReadBy("header")' \subseteq BootstrapSize .. BootstrapSize + HeaderSize - 1
      BY <3>4 DEF HInv, BootstrapFirst, Whos
    <3>7. \A w \in Whos \ {"bootstrap"} : ReadBy(w)' = {}
      BY <2>1, <3>4 DEF HInv, BootstrapFirst
    <3> QED
      BY <2>1, <3>2, <3>5, <3>6, <3>7 DEF BootstrapFirst
  <2>2. CASE pc \in {"api", "cleanup"} /\ who # "bootstrap" /\ who # "header"
    <3>1. \A w \in {"bootstrap", "header"} : w \in Whos /\ \A p \in ReadBy(w)' : p \in ReadBy(w)
      BY <1>6, <2>2 DEF Whos
    <3> QED
      BY <2>2, <3>1 DEF HInv, BootstrapFirst
  <2> QED
    BY <2>1, <2>2
<1>10. PayloadPlaced'
  <2>1. CASE pc = "setup"
    BY <2>1 DEF PayloadPlaced
  <2>2. CASE pc \in {"api", "cleanup"}
    <3>1. /\ Placed /\ pool.offset >= PayloadAt /\ PayloadAt' = PayloadAt /\ PayloadAt \in Nat
          /\ pc = "api" /\ ~override => pool.exhausted
      BY <1>3, <2>2, Sizes4 DEF HInv, PayloadPlaced, PayloadAt
    <3>2. ASSUME NEW p \in ReadBy("udp6")'
          PROVE  p \in Udp6Sub.base .. Udp6Sub.base + Udp6Sub.size - 1
      <4>1. p \in ReadBy("udp6")
        BY <1>2, <1>6, <2>2, <3>1, <3>2 DEF Whos
      <4> QED
        BY <3>1, <4>1 DEF Placed
    <3>3. ASSUME NEW w \in {"api", "time", "late"}, NEW p \in ReadBy(w)' PROVE p >= PayloadAt
      <4>1. p \in ReadBy(w) \/ p \in Region(pool, count)
        BY <1>6, <3>3 DEF Whos
      <4>2. CASE p \in ReadBy(w)
        BY <3>1, <4>2 DEF Placed
      <4>3. CASE p \in Region(pool, count)
        BY <1>2, <1>3, <3>1, <4>3
      <4> QED
        BY <4>1, <4>2, <4>3
    <3>4. Placed'
      BY <3>1, <3>2, <3>3 DEF Placed
    <3>5. pool'.offset >= PayloadAt'
      BY <1>2, <1>3, <3>1
    <3> QED
      BY <1>2, <2>2, <3>1, <3>4, <3>5 DEF PayloadPlaced
  <2> QED
    BY <2>1, <2>2
<1> QED
  BY <1>6, <1>7, <1>8, <1>9, <1>10 DEF HInv

(* A read of the UDP6 mock from its region, which the header precedes.     *)
LEMMA RegionRead ==
    ASSUME HInv, override, NEW count \in Nat,
           Read(Region(Udp6Sub, count), "udp6"),
           Udp6Sub' = MockFuzzContextConsume(Udp6Sub, count), pc = "api",
           UNCHANGED <<pc, pool, override>>, advancing' => pc \in {"api", "cleanup"}
    PROVE  HInv'
<1>1. /\ Context(pool) /\ pool.base = 0 /\ Context(Udp6Sub)
      /\ readers \in [Bytes -> Seq(Whos)] /\ NoByteTwice
  BY DEF HInv, HarnessTypes
<1>2. /\ Context(Udp6Sub') /\ Udp6Sub'.base = Udp6Sub.base /\ Udp6Sub'.size = Udp6Sub.size
      /\ Udp6Sub.offset <= Udp6Sub'.offset
      /\ \A p \in Region(Udp6Sub, count) : /\ p \in Nat /\ Udp6Sub.base + Udp6Sub.offset <= p
                                           /\ p < Udp6Sub.base + Udp6Sub'.offset
  BY <1>1, ConsumeMoves
<1>3. /\ pool.offset \in Nat /\ pool.size \in Nat /\ pool.offset <= pool.size
      /\ Udp6Sub.base \in Nat /\ Udp6Sub.size \in Nat /\ Udp6Sub.offset \in Nat
      /\ Udp6Sub'.offset \in Nat /\ Udp6Sub'.offset <= Udp6Sub.size
  BY <1>1, <1>2 DEF Context, ContextType
<1>4. /\ Udp6Sub.base + Udp6Sub.size <= pool.offset
      /\ Udp6Sub.base = BootstrapSize + HeaderSize
  BY DEF HInv, UnreadAhead
<1>5. ASSUME NEW p \in Region(Udp6Sub, count)
      PROVE  /\ p \in Bytes /\ readers[p] = <<>> /\ p < pool.offset
             /\ p \in Udp6Sub.base .. Udp6Sub.base + Udp6Sub.size - 1
  <2>1. p \in Nat /\ p >= Udp6Sub.base + Udp6Sub.offset /\ p < Udp6Sub.base + Udp6Sub.size
    BY <1>2, <1>3
  <2>2. p \in Bytes /\ p < pool.offset
    BY <1>3, <1>4, <2>1 DEF Bytes
  <2>3. readers[p] = <<>>
    BY <2>1, <2>2 DEF HInv, UnreadAhead
  <2> QED
    BY <1>3, <2>1, <2>2, <2>3
<1>6. /\ readers' \in [Bytes' -> Seq(Whos)] /\ NoByteTwice'
      /\ \A p \in Bytes : p \notin Region(Udp6Sub, count) => readers'[p] = readers[p]
      /\ \A w \in Whos : \A p \in ReadBy(w)' :
            p \in ReadBy(w) \/ (w = "udp6" /\ p \in Region(Udp6Sub, count))
  BY <1>1, <1>5, ReadStep DEF Whos
<1>7. HarnessTypes'
  BY <1>1, <1>2, <1>6 DEF HarnessTypes
<1>8. UnreadAhead'
  <2>1. Bytes' = Bytes
    BY DEF Bytes
  <2>2. ASSUME NEW p \in Bytes, p >= pool.offset PROVE readers'[p] = <<>>
    <3>1. p \notin Region(Udp6Sub, count)
      BY <1>3, <1>5, <2>2 DEF Bytes
    <3> QED
      BY <1>6, <2>2, <3>1 DEF HInv, UnreadAhead
  <2>3. ASSUME NEW p \in Bytes, p >= Udp6Sub.base + Udp6Sub'.offset,
               p < Udp6Sub.base + Udp6Sub.size
        PROVE  readers'[p] = <<>>
    <3>1. p >= Udp6Sub.base + Udp6Sub.offset /\ p \notin Region(Udp6Sub, count)
      BY <1>2, <1>3, <2>3 DEF Bytes
    <3> QED
      BY <1>6, <2>3, <3>1 DEF HInv, UnreadAhead
  <2> QED
    BY <1>2, <1>4, <2>1, <2>2, <2>3 DEF UnreadAhead
<1>9. BootstrapFirst'
  <2>1. \A w \in {"bootstrap", "header"} : w \in Whos /\ \A p \in ReadBy(w)' : p \in ReadBy(w)
    BY <1>6 DEF Whos
  <2> QED
    BY <2>1 DEF HInv, BootstrapFirst
<1>10. PayloadPlaced'
  <2>1. Placed /\ pool.offset >= PayloadAt /\ PayloadAt' = PayloadAt
    BY <1>2 DEF HInv, PayloadPlaced, PayloadAt
  <2>2. \A p \in ReadBy("udp6")' : p \in Udp6Sub.base .. Udp6Sub.base + Udp6Sub.size - 1
    BY <1>5, <1>6, <2>1 DEF Placed, Whos
  <2>3. \A w \in {"api", "time", "late"} : \A p \in ReadBy(w)' : p \in ReadBy(w)
    BY <1>6 DEF Whos
  <2>4. Placed'
    BY <1>2, <2>1, <2>2, <2>3 DEF Placed
  <2> QED
    BY <2>1, <2>4 DEF PayloadPlaced
<1> QED
  BY <1>6, <1>7, <1>8, <1>9, <1>10 DEF HInv

(* A read of the UDP6 mock from the context that ResolveContext finds.     *)
LEMMA Udp6Read ==
    ASSUME HInv, DriverRuns, NEW count \in Nat, Udp6Consume(count),
           UNCHANGED <<pc, override, advancing>>
    PROVE  HInv'
<1>1. /\ pc = "setup" \/ pc = "api" \/ pc = "cleanup"
      /\ advancing' => pc \in {"api", "cleanup"}
      /\ override => pc = "api"
  BY DEF HInv, PayloadPlaced, UnreadAhead, DriverRuns
<1>2. CASE override
  BY <1>1, <1>2, RegionRead DEF Udp6Consume, ResolveContext, Reader
<1>3. CASE ~override
  <2>1. /\ Read(Region(pool, count), Reader) /\ pool' = MockFuzzContextConsume(pool, count)
        /\ Udp6Sub' = Udp6Sub
    BY <1>3 DEF Udp6Consume, ResolveContext
  <2>2. CASE pc = "setup"
    BY <1>1, <2>1, <2>2, PoolRead DEF Reader, Whos
  <2>3. CASE pc = "api"
    BY <1>1, <1>3, <2>1, <2>3, PoolRead DEF Reader, Whos
  <2>4. CASE pc = "cleanup"
    BY <1>1, <2>1, <2>4, PoolRead DEF Reader, Whos
  <2> QED
    BY <1>1, <2>2, <2>3, <2>4
<1> QED
  BY <1>2, <1>3

(* A step that reads nothing and stays where it is.                        *)
LEMMA NothingRead ==
    ASSUME HInv, UNCHANGED <<pc, contextVars, readers>>, advancing' => pc \in {"api", "cleanup"}
    PROVE  HInv'
BY DEF HInv, HarnessTypes, NoByteTwice, UnreadAhead, BootstrapFirst, PayloadPlaced, Placed, PayloadAt,
       Bytes, ReadBy, contextVars

LEMMA DriverStep == ASSUME HInv, Driver PROVE HInv'
<1>1. advancing => pc \in {"api", "cleanup"}
  BY DEF HInv, PayloadPlaced
<1>2. CASE MockRngGetRNG
  <2>1. /\ Read(Region(pool, RngBytes), "bootstrap") /\ pc = "setup"
        /\ pool' = MockFuzzContextConsume(pool, RngBytes) /\ RngBytes \in Nat
        /\ "bootstrap" \in Whos /\ UNCHANGED <<pc, Udp6Sub, override, advancing>>
    BY <1>2, Sizes4 DEF MockRngGetRNG, Whos
  <2> QED
    BY <1>1, <2>1, PoolRead
<1>3. CASE MockUdp6Transmit
  <2>1. DriverRuns /\ UNCHANGED <<pc, override, advancing>>
        /\ (Udp6Consume(1) \/ UNCHANGED <<pool, Udp6Sub, readers>>)
    BY <1>3 DEF MockUdp6Transmit
  <2>2. CASE Udp6Consume(1)
    BY <2>1, <2>2, Udp6Read
  <2>3. CASE UNCHANGED <<pool, Udp6Sub, readers>>
    BY <1>1, <2>1, <2>3, NothingRead DEF contextVars
  <2> QED
    BY <2>1, <2>2, <2>3
<1>4. ASSUME NEW length \in Payloads, MockUdp6Receive(length) PROVE HInv'
  <2> DEFINE available == MockFuzzContextRemaining(ResolveContext)
             payload   == IF length < available - U16 THEN length ELSE available - U16
  <2>1. available \in Nat /\ length \in Nat
    BY Remains, HarnessAssumption DEF HInv, HarnessTypes, ResolveContext
  <2>2. DriverRuns /\ UNCHANGED <<pc, override, advancing>>
    BY <1>4 DEF MockUdp6Receive
  <2>3. \/ UNCHANGED <<pool, Udp6Sub, readers>>
        \/ Udp6Consume(1)
        \/ available >= U16 /\ Udp6Consume(U16 + payload)
    <3>1. CASE ResolveContext.size = 0
      <4>1. available = 0
        BY <3>1 DEF MockFuzzContextRemaining, EffectiveEnd, HInv, HarnessTypes, Context,
                    ContextType, ResolveContext
      <4> QED
        BY <1>4, <3>1, <4>1, Sizes4 DEF MockUdp6Receive
    <3>2. CASE ResolveContext.size # 0 /\ available = 0
      BY <1>4, <3>2, Sizes4 DEF MockUdp6Receive
    <3>3. CASE ResolveContext.size # 0 /\ available = 1
      BY <1>4, <3>3, Sizes4 DEF MockUdp6Receive
    <3>4. CASE ResolveContext.size # 0 /\ available >= U16
      BY <1>4, <3>4, Sizes4 DEF MockUdp6Receive
    <3> QED
      BY <2>1, <3>1, <3>2, <3>3, <3>4, Sizes4
  <2>4. available >= U16 => U16 + payload \in Nat
    BY <2>1, Sizes4
  <2> HIDE DEF available, payload
  <2>5. CASE UNCHANGED <<pool, Udp6Sub, readers>>
    BY <1>1, <2>2, <2>5, NothingRead DEF contextVars
  <2> QED
    BY <2>2, <2>3, <2>4, <2>5, Udp6Read
<1>5. CASE MockDeferredCancelAll
  BY <1>1, <1>5, NothingRead DEF MockDeferredCancelAll
<1> QED
  BY <1>2, <1>3, <1>4, <1>5 DEF Driver

-----------------------------------------------------------------------------
(* The steps of the harness.                                               *)

LEMMA InputStep ==
    ASSUME HInv, NEW n \in Sizes, LLVMFuzzerTestOneInput(n)
    PROVE  HInv'
<1>1. n \in Nat /\ BootstrapSize \in Nat \ {0}
  BY HarnessAssumption
<1>2. /\ pc = "idle" /\ pc' \in {"setup", "bootstrapped"}
      /\ UNCHANGED <<Udp6Sub, override, advancing>>
      /\ pool' = MockFuzzContextSetLimit(MockFuzzContextInit(n), BootstrapSize)
      /\ readers' = [p \in 0 .. n - 1 |-> <<>>]
  BY DEF LLVMFuzzerTestOneInput
<1>3. /\ Context(pool') /\ pool'.base = 0 /\ pool'.size = n /\ pool'.offset = 0
      /\ pool'.limit = BootstrapSize /\ Bytes' = 0 .. n - 1
  BY <1>1, <1>2, Starts DEF Bytes
<1>4. ~override /\ ~advancing
  BY <1>2 DEF HInv, UnreadAhead, PayloadPlaced
<1>5. <<>> \in Seq(Whos) /\ Len(<<>>) = 0
  OBVIOUS
<1>6. HarnessTypes'
  BY <1>2, <1>3, <1>5 DEF HInv, HarnessTypes
<1>7. NoByteTwice' /\ \A who : ReadBy(who)' = {}
  BY <1>2, <1>5 DEF NoByteTwice, ReadBy
<1>8. UnreadAhead' /\ PayloadPlaced'
  BY <1>2, <1>3, <1>4 DEF UnreadAhead, PayloadPlaced
<1>9. BootstrapFirst'
  BY <1>1, <1>2, <1>3, <1>7 DEF BootstrapFirst
<1> QED
  BY <1>6, <1>7, <1>8, <1>9 DEF HInv

LEMMA SetupStep == ASSUME HInv, InitializeHarness PROVE HInv'
BY DEF InitializeHarness, HInv, HarnessTypes, NoByteTwice, UnreadAhead, BootstrapFirst,
       PayloadPlaced, Placed, PayloadAt, Bytes, ReadBy, contextVars

LEMMA PayloadStep == ASSUME HInv, PayloadStarts PROVE HInv'
<1>1. /\ pc = "bootstrapped" /\ pc' = "payload" /\ UNCHANGED <<Udp6Sub, override, advancing, readers>>
      /\ pool' = MockFuzzContextAdvanceTo(MockFuzzContextClearLimit(pool), BootstrapSize)
  BY DEF PayloadStarts
<1>2. Context(pool) /\ pool.offset <= BootstrapSize /\ ~override /\ ~advancing
  BY <1>1 DEF HInv, HarnessTypes, BootstrapFirst, UnreadAhead, PayloadPlaced
<1>3. /\ Context(pool') /\ pool'.base = pool.base /\ pool'.size = pool.size
      /\ pool.offset <= pool'.offset /\ pool'.offset <= BootstrapSize
      /\ pool'.offset # BootstrapSize => pool'.offset = pool'.size
  BY <1>1, <1>2, Sizes4, Advances
<1>4. Bytes' = Bytes /\ pool.offset \in Nat /\ pool'.offset \in Nat /\ \A p \in Bytes : p \in Nat
  BY <1>2, <1>3 DEF Bytes, Context, ContextType
<1>5. HarnessTypes' /\ NoByteTwice'
  BY <1>1, <1>3, <1>4 DEF HInv, HarnessTypes, NoByteTwice
<1>6. UnreadAhead'
  BY <1>1, <1>2, <1>3, <1>4 DEF HInv, UnreadAhead
<1>7. BootstrapFirst'
  BY <1>1, <1>3 DEF HInv, BootstrapFirst, ReadBy
<1>8. PayloadPlaced'
  BY <1>1, <1>2 DEF PayloadPlaced
<1> QED
  BY <1>5, <1>6, <1>7, <1>8 DEF HInv

(* The end of RunTestHarness without a header, of a time advance, of the   *)
(* API call and of the override.                                           *)
LEMMA EndSteps ==
    ASSUME HInv, RunNothing \/ AdvanceTimeDone \/ DeliverCallback \/ FuzzDriverStop
                 \/ ApiReturn \/ ClearOverride
    PROVE  HInv'
<1>1. /\ UNCHANGED <<pool, Udp6Sub, readers>>
      /\ override' => override /\ pc' \in {"api", "apiDone"}
      /\ advancing' => advancing /\ pc' = pc
      /\ \/ pc' = pc /\ override' = override
         \/ pc = "payload" /\ pc' = "done"
         \/ pc \in {"api", "cleanup"} /\ pc' \in {"apiDone", "done"}
         \/ pc = "apiDone" /\ pc' = "cleanup"
  <2>1. override => pc \in {"api", "apiDone"}
    BY DEF HInv, UnreadAhead
  <2>2. advancing => pc \in {"api", "cleanup"}
    BY DEF HInv, PayloadPlaced
  <2>3. CASE RunNothing
    BY <2>1, <2>2, <2>3 DEF RunNothing, contextVars
  <2>4. CASE AdvanceTimeDone
    BY <2>1, <2>2, <2>4 DEF AdvanceTimeDone, contextVars
  <2>5. CASE DeliverCallback
    BY <2>1, <2>2, <2>5 DEF DeliverCallback, contextVars
  <2>6. CASE FuzzDriverStop
    BY <2>1, <2>2, <2>6 DEF FuzzDriverStop
  <2>7. CASE ApiReturn
    BY <2>1, <2>2, <2>7 DEF ApiReturn, contextVars
  <2>8. CASE ClearOverride
    BY <2>1, <2>2, <2>8 DEF ClearOverride
  <2> QED
    BY <2>3, <2>4, <2>5, <2>6, <2>7, <2>8
<1>2. HarnessTypes' /\ NoByteTwice' /\ \A who : ReadBy(who)' = ReadBy(who)
  BY <1>1 DEF HInv, HarnessTypes, NoByteTwice, Bytes, ReadBy
<1>3. UnreadAhead'
  BY <1>1 DEF HInv, UnreadAhead, Bytes
<1>4. BootstrapFirst'
  BY <1>1, <1>2 DEF HInv, BootstrapFirst
<1>5. PayloadPlaced'
  <2>1. (Placed <=> Placed') /\ PayloadAt' = PayloadAt
    BY <1>1, <1>2 DEF Placed, PayloadAt
  <2>2. pc = "payload" => ReadBy("header") = {}
    BY DEF HInv, BootstrapFirst, Whos
  <2> QED
    BY <1>1, <1>2, <2>1, <2>2 DEF HInv, PayloadPlaced
<1> QED
  BY <1>2, <1>3, <1>4, <1>5 DEF HInv

LEMMA ResetStep == ASSUME HInv, IterationEnds PROVE HInv'
<1>1. /\ pc = "done" /\ pc' = "idle" /\ pool' = MockFuzzContextReset(pool) /\ ~override'
      /\ UNCHANGED <<Udp6Sub, advancing, readers>>
  BY DEF IterationEnds
<1>2. /\ Context(pool') /\ pool'.base = pool.base /\ pool'.size = pool.size /\ ~advancing
  BY <1>1, Resets DEF HInv, HarnessTypes, PayloadPlaced
<1>3. HarnessTypes' /\ NoByteTwice' /\ \A who : ReadBy(who)' = ReadBy(who)
  BY <1>1, <1>2 DEF HInv, HarnessTypes, NoByteTwice, Bytes, ReadBy
<1>4. UnreadAhead' /\ BootstrapFirst' /\ PayloadPlaced'
  BY <1>1, <1>2, <1>3 DEF HInv, UnreadAhead, BootstrapFirst, PayloadPlaced
<1> QED
  BY <1>3, <1>4 DEF HInv

(* The API and the time advance read from the pool.                        *)
LEMMA PoolSteps ==
    ASSUME HInv, AdvanceTime \/ \E count \in ApiReads : ApiRead(count)
    PROVE  HInv'
<1>1. CASE AdvanceTime
  <2>1. pc \in {"api", "cleanup"} /\ UNCHANGED <<pc, Udp6Sub, override>>
    BY <1>1 DEF AdvanceTime
  <2>2. CASE pool' = MockFuzzContextConsume(pool, U16) /\ Read(Region(pool, U16), "time")
    BY <2>1, <2>2, PoolRead, Sizes4 DEF Whos
  <2>3. CASE UNCHANGED <<pool, readers>>
    BY <2>1, <2>3, NothingRead DEF contextVars
  <2> QED
    BY <1>1, <2>2, <2>3 DEF AdvanceTime
<1>2. ASSUME NEW count \in ApiReads, ApiRead(count) PROVE HInv'
  <2>1. /\ pc = "api" /\ UNCHANGED <<pc, Udp6Sub, override, advancing>> /\ count \in Nat
        /\ pool' = MockFuzzContextConsume(pool, count) /\ Read(Region(pool, count), "api")
    BY <1>2, HarnessAssumption DEF ApiRead
  <2> QED
    BY <2>1, PoolRead DEF Whos
<1> QED
  BY <1>1, <1>2

(* The header and the carving of the region behind it.                     *)
LEMMA CarveStep ==
    ASSUME HInv, NEW budget \in Budgets, RunTestHarness(budget)
    PROVE  HInv'
<1>0. PICK header, H : header = MockFuzzContextConsume(pool, HeaderSize) /\ H = Region(pool, HeaderSize)
  OBVIOUS
<1>1. /\ pc = "payload" /\ MockFuzzContextRemaining(pool) >= HeaderSize /\ pc' = "api"
      /\ pool' = MockFuzzContextConsume(header, budget)
      /\ Udp6Sub' = MockFuzzContextCreateSubContext(header, budget)
      /\ override' = CanConsume(header, budget)
      /\ Read(H, "header") /\ UNCHANGED advancing
  BY <1>0 DEF RunTestHarness, ParentAfterCarve
<1>2. /\ Context(pool) /\ pool.base = 0 /\ readers \in [Bytes -> Seq(Whos)] /\ NoByteTwice
      /\ budget \in Nat /\ HeaderSize \in Nat \ {0}
  BY HarnessAssumption, Sizes4 DEF HInv, HarnessTypes
<1>3. CanConsume(pool, HeaderSize) /\ MockFuzzContextRemaining(pool) \in Nat
  BY <1>1, <1>2, Remains
<1>4. pool.offset = BootstrapSize
  <2>1. pool.offset # pool.size
    BY <1>3 DEF CanConsume, EffectiveEnd, HInv, HarnessTypes, Context, ContextType
  <2> QED
    BY <1>1, <2>1 DEF HInv, BootstrapFirst
<1>5. /\ Context(header) /\ header.base = 0 /\ header.size = pool.size
      /\ header.offset = BootstrapSize + HeaderSize
  <2>1. /\ Context(header) /\ header.base = pool.base /\ header.size = pool.size
        /\ header.offset = pool.offset + HeaderSize
    <3>1. HeaderSize \in Nat /\ Context(pool) /\ header = MockFuzzContextConsume(pool, HeaderSize)
      BY ONLY <1>0, <1>2
    <3>2. /\ Context(header) /\ header.base = pool.base /\ header.size = pool.size
          /\ CanConsume(pool, HeaderSize) => header.offset = pool.offset + HeaderSize
      BY ONLY <3>1, ConsumeMoves
    <3> QED
      BY ONLY <1>3, <3>2
  <2> QED
    BY <1>2, <1>4, <2>1
<1>6. \A p \in H : p \in BootstrapSize .. BootstrapSize + HeaderSize - 1 /\ p \in Bytes
  <2>1. H = BootstrapSize .. BootstrapSize + HeaderSize - 1
    BY <1>2, <1>3, <1>4, <1>0, Sizes4 DEF Region
  <2>2. BootstrapSize + HeaderSize <= pool.size /\ pool.size \in Nat
    BY <1>5 DEF Context, ContextType
  <2> QED
    BY <2>1, <2>2, Sizes4 DEF Bytes
<1>7. /\ Context(pool') /\ pool'.base = 0 /\ pool'.size = pool.size
      /\ BootstrapSize + HeaderSize <= pool'.offset
      /\ CanConsume(header, budget) => pool'.offset = BootstrapSize + HeaderSize + budget
      /\ ~CanConsume(header, budget) => pool'.exhausted
  <2>0. pool' = MockFuzzContextConsume(header, budget) /\ Context(header) /\ budget \in Nat
    BY <1>1, <1>2, <1>5
  <2>1. /\ Context(pool') /\ pool'.base = header.base /\ pool'.size = header.size
        /\ CanConsume(header, budget) => pool'.offset = header.offset + budget
        /\ ~CanConsume(header, budget) => pool'.offset = header.offset /\ pool'.exhausted
    BY <2>0, ConsumeMoves
  <2> QED
    BY <1>2, <1>5, <2>1, Sizes4
<1>8. /\ Context(Udp6Sub')
      /\ CanConsume(header, budget) => /\ Udp6Sub'.base = BootstrapSize + HeaderSize
                                       /\ Udp6Sub'.size = budget /\ Udp6Sub'.offset = 0
      /\ ~CanConsume(header, budget) => Udp6Sub'.size = 0
  <2>1. /\ Context(Udp6Sub')
        /\ CanConsume(header, budget) => /\ Udp6Sub'.base = header.base + header.offset
                                         /\ Udp6Sub'.size = budget /\ Udp6Sub'.offset = 0
        /\ ~CanConsume(header, budget) => Udp6Sub'.size = 0
    BY <1>1, <1>2, <1>5, Carves
  <2> QED
    BY <1>2, <1>5, <2>1, Sizes4
<1>9. /\ pool'.offset \in Nat /\ pool'.size \in Nat /\ Udp6Sub'.base \in Nat /\ Udp6Sub'.size \in Nat
  BY <1>7, <1>8 DEF Context, ContextType
<1>10. \A p \in Bytes : p \in Nat /\ (p >= BootstrapSize => readers[p] = <<>>)
  BY <1>1, <1>4 DEF HInv, UnreadAhead, Bytes
<1>11. \A p \in H : p \in Bytes /\ readers[p] = <<>> /\ p >= BootstrapSize
                     /\ p < BootstrapSize + HeaderSize
  BY <1>6, <1>10, Sizes4
<1>12. /\ readers' \in [Bytes' -> Seq(Whos)] /\ NoByteTwice'
       /\ \A p \in Bytes : p \notin H => readers'[p] = readers[p]
       /\ \A w \in Whos : \A p \in ReadBy(w)' : p \in ReadBy(w) \/ (w = "header" /\ p \in H)
  BY <1>1, <1>2, <1>7, <1>11, ReadStep DEF Whos
<1>13. HarnessTypes'
  BY <1>7, <1>8, <1>12 DEF HarnessTypes
<1>14. \A p \in Bytes : p >= BootstrapSize + HeaderSize => readers'[p] = <<>>
  BY <1>10, <1>11, <1>12, Sizes4
<1>15. UnreadAhead'
  <2>1. Bytes' = Bytes
    BY <1>7 DEF Bytes
  <2>2. \A p \in Bytes : p >= pool'.offset => readers'[p] = <<>>
    BY <1>7, <1>9, <1>10, <1>14, Sizes4
  <2>3. CanConsume(header, budget) =>
           /\ Udp6Sub'.base + Udp6Sub'.size <= pool'.offset
           /\ \A p \in Bytes : p >= Udp6Sub'.base + Udp6Sub'.offset => readers'[p] = <<>>
    BY <1>7, <1>8, <1>9, <1>14, Sizes4
  <2> QED
    BY <1>1, <1>8, <2>1, <2>2, <2>3 DEF UnreadAhead
<1>16. \A w \in Whos \ {"bootstrap", "header"} : ReadBy(w)' = {}
  BY <1>1, <1>12 DEF HInv, BootstrapFirst
<1>17. BootstrapFirst'
  <2>1. \A p \in ReadBy("bootstrap")' : p \in 0 .. BootstrapSize - 1
    BY <1>12 DEF HInv, BootstrapFirst, Whos
  <2>2. \A p \in ReadBy("header")' : p \in BootstrapSize .. BootstrapSize + HeaderSize - 1
    BY <1>6, <1>12 DEF HInv, BootstrapFirst, Whos
  <2> QED
    BY <1>1, <2>1, <2>2 DEF BootstrapFirst
<1>18. PayloadPlaced'
  <2>1. Placed'
    BY <1>16 DEF Placed, Whos
  <2>2. pool'.offset >= PayloadAt'
    BY <1>2, <1>7, <1>8, <1>9, Sizes4 DEF PayloadAt
  <2>3. ~override' => pool'.exhausted
    BY <1>1, <1>7
  <2> QED
    BY <1>1, <2>1, <2>2, <2>3 DEF PayloadPlaced
<1> QED
  BY <1>12, <1>13, <1>15, <1>17, <1>18 DEF HInv

-----------------------------------------------------------------------------
LEMMA HInvInit == Init => HInv
<1> SUFFICES ASSUME Init PROVE HInv
  OBVIOUS
<1>1. /\ pc = "idle" /\ pool = MockFuzzContextInit(0) /\ Udp6Sub = MockFuzzContextInit(0)
      /\ ~override /\ ~advancing /\ readers = <<>>
  BY DEF Init, NoContext
<1>2. /\ Context(pool) /\ Context(Udp6Sub) /\ pool.base = 0 /\ pool.size = 0
  BY <1>1 DEF MockFuzzContextInit, Context, ContextType
<1>3. Bytes = {} /\ DOMAIN readers = {} /\ readers \in [Bytes -> Seq(Whos)]
  BY <1>1, <1>2 DEF Bytes
<1>4. \A who : ReadBy(who) = {}
  BY <1>3 DEF ReadBy
<1> QED
  BY <1>1, <1>2, <1>3, <1>4 DEF HInv, HarnessTypes, NoByteTwice, UnreadAhead, BootstrapFirst,
                               PayloadPlaced

LEMMA HInvNext == ASSUME HInv, [Next]_vars PROVE HInv'
<1>1. CASE UNCHANGED vars
  BY <1>1, NothingRead DEF vars, HInv, PayloadPlaced
<1>2. CASE Driver
  BY <1>2, DriverStep
<1>3. CASE Harness
  BY <1>3, InputStep, SetupStep, PayloadStep, EndSteps, ResetStep, PoolSteps, CarveStep DEF Harness
<1> QED
  BY <1>1, <1>2, <1>3 DEF Next

LEMMA HInvHolds == Spec => []HInv
BY HInvInit, HInvNext, PTL DEF Spec

(* The bytes of every input, of any size, are used once and each for what  *)
(* the layout says: the bootstrap first, then the header, then the region  *)
(* of the UDP6 mock, whatever the driver asks the mocks for.               *)
THEOREM LayoutHolds == Spec => []LayoutKept
<1>1. HInv => LayoutKept
  <2> SUFFICES ASSUME HInv PROVE LayoutKept
    OBVIOUS
  <2>1. NoByteTwice /\ OverrideScoped
    BY DEF HInv, UnreadAhead, OverrideScoped
  <2>2. /\ ReadBy("bootstrap") \subseteq 0 .. BootstrapSize - 1
        /\ ReadBy("header") \subseteq BootstrapSize .. BootstrapSize + HeaderSize - 1
    BY DEF HInv, BootstrapFirst
  <2>3. ASSUME pc \in {"api", "apiDone", "cleanup", "done"}, ReadBy("header") # {}
        PROVE  /\ ReadBy("udp6") \subseteq Udp6Sub.base .. Udp6Sub.base + Udp6Sub.size - 1
               /\ \A who \in {"api", "time", "late"} :
                     ReadBy(who) \subseteq
                        {p \in DOMAIN readers : p >= BootstrapSize + HeaderSize + Udp6Sub.size}
    <3>1. Placed
      BY <2>3 DEF HInv, PayloadPlaced
    <3> QED
      BY <3>1 DEF Placed, PayloadAt, ReadBy
  <2>4. SeedLayout
    BY <2>2, <2>3 DEF SeedLayout, ReadBy
  <2> QED
    BY <2>1, <2>4 DEF LayoutKept
<1> QED
  BY <1>1, HInvHolds, PTL

(* Time can advance for every input: MockEventResetState registers the     *)
(* advance function again, which the set-up of the timers does only once.  *)
THEOREM ClockHolds == Spec => []ClockConnected
<1>1. Init => ClockConnected
  BY DEF Init, ClockConnected
<1>2. ASSUME ClockConnected, [Next]_vars PROVE ClockConnected'
  <2>1. CASE \E n \in Sizes : LLVMFuzzerTestOneInput(n)
    BY <2>1 DEF LLVMFuzzerTestOneInput, MockEventResetState, ClockConnected
  <2>2. CASE pc' = "idle" \/ (UNCHANGED timeVars /\ pc # "idle") \/ UNCHANGED <<pc, timeVars>>
    BY <1>2, <2>2 DEF ClockConnected, timeVars
  <2>3. CASE Driver
    BY <2>2, <2>3 DEF Driver, MockRngGetRNG, MockUdp6Transmit, MockUdp6Receive, MockDeferredCancelAll
  <2>4. CASE Harness
    BY <2>1, <2>2, <2>4 DEF Harness, InitializeHarness, PayloadStarts, RunNothing, RunTestHarness,
          ApiRead, AdvanceTime, AdvanceTimeDone, DeliverCallback, FuzzDriverStop, ApiReturn,
          ClearOverride, IterationEnds
  <2> QED
    BY <1>2, <2>2, <2>3, <2>4 DEF Next, vars
<1> QED
  BY <1>1, <1>2, PTL DEF Spec

-----------------------------------------------------------------------------
(* The lists of drivers and of records.                                    *)
LEMMA FirstIs ==
    ASSUME NEW S, NEW s \in Seq(S), NEW x \in Range(s)
    PROVE  /\ FirstAt(s, x) \in 1 .. Len(s) /\ s[FirstAt(s, x)] = x
           /\ \A i \in 1 .. Len(s) : s[i] = x => FirstAt(s, x) <= i
<1>1. PICK T : T = {i \in DOMAIN s : s[i] = x}
  OBVIOUS
<1>2. Len(s) \in Nat /\ DOMAIN s = 1 .. Len(s)
  BY LenProperties
<1>3. T \subseteq Nat
  BY <1>1, <1>2
<1>4. T # {}
  BY <1>1, <1>2, Elements
<1>5. Min(T) \in T /\ \A y \in T : Min(T) <= y
  BY ONLY <1>3, <1>4, Minimum
<1>6. FirstAt(s, x) = Min(T)
  BY <1>1 DEF FirstAt
<1> QED
  BY <1>1, <1>2, <1>5, <1>6

LEMMA OnlyElements ==
    ASSUME NEW S, NEW s \in Seq(S), NEW es
    PROVE  Only(s, es) \in Seq(S) /\ Range(Only(s, es)) = Range(s) \cap es
<1>1. PICK others : others = Range(s) \ es
  OBVIOUS
<1>2. Without(s, others) \in Seq(S) /\ Range(Without(s, others)) = Range(s) \ others
  BY WithoutElements
<1> QED
  BY <1>1, <1>2 DEF Only

(* An element is where it occurs for the first time.                       *)
Earliest(s, k) == \A i \in 1 .. k - 1 : s[i] # s[k]

LEMMA ByKeyIs ==
    ASSUME NEW S, NEW s \in Seq(S), NEW es, NEW key, NEW K, NEW keys \in Seq(K),
           NEW w, w = ByKey(s, es, key, keys)
    PROVE  /\ w \in Seq(S)
           /\ Range(w) = {e \in Range(s) \cap es : key[e] \in Range(keys)}
           /\ \A i, j \in 1 .. Len(w) : i < j /\ Earliest(w, j) =>
                 FirstAt(keys, key[w[i]]) <= FirstAt(keys, key[w[j]])
<1>1. PICK pieces : pieces = [n \in DOMAIN keys |-> Only(s, {e \in es : key[e] = keys[n]})]
  OBVIOUS
<1>2. Len(keys) \in Nat /\ DOMAIN keys = 1 .. Len(keys)
  BY LenProperties
<1>3. ASSUME NEW n \in 1 .. Len(keys)
      PROVE  /\ pieces[n] \in Seq(S) /\ Len(pieces[n]) \in Nat
             /\ \A e : (\E a \in 1 .. Len(pieces[n]) : pieces[n][a] = e) <=>
                          e \in Range(s) \cap es /\ key[e] = keys[n]
  <2>1. PICK T : T = {e \in es : key[e] = keys[n]}
    OBVIOUS
  <2>2. pieces[n] = Only(s, T)
    BY <1>1, <1>2, <2>1
  <2>3. pieces[n] \in Seq(S) /\ Range(pieces[n]) = Range(s) \cap T
    BY <2>2, OnlyElements
  <2>4. \A e : e \in Range(pieces[n]) <=> \E a \in 1 .. Len(pieces[n]) : pieces[n][a] = e
    BY <2>3, Elements
  <2>5. Len(pieces[n]) \in Nat
    BY <2>3, LenProperties
  <2> QED
    BY <2>1, <2>3, <2>4, <2>5
<1>4. pieces \in Seq(Seq(S)) /\ Len(pieces) = Len(keys)
  <2>1. pieces = [n \in 1 .. Len(keys) |-> pieces[n]]
    BY <1>1, <1>2
  <2> QED
    BY <1>2, <1>3, <2>1
<1>5. w = Joined(pieces)
  BY <1>1 DEF ByKey
<1>6. w \in Seq(S) /\ \E from, at : Places(pieces, Len(pieces), w, from, at)
  BY <1>4, <1>5, JoinedPlaces
<1>7. PICK from, at : Places(pieces, Len(keys), w, from, at)
  BY <1>4, <1>6
<1>8. Len(w) \in Nat
  BY <1>6, LenProperties
<1>9. \A i \in 1 .. Len(w) :
         /\ from[i] \in 1 .. Len(keys) /\ at[i] \in 1 .. Len(pieces[from[i]])
         /\ w[i] = pieces[from[i]][at[i]]
  BY <1>7 DEF Places
<1>10. \A i \in 1 .. Len(w) : w[i] \in Range(s) \cap es /\ key[w[i]] = keys[from[i]]
  BY <1>3, <1>9
<1>11. ASSUME NEW e \in Range(s) \cap es, NEW n \in 1 .. Len(keys), key[e] = keys[n]
       PROVE  \E i \in 1 .. Len(w) : from[i] = n /\ w[i] = e
  <2>1. PICK a \in 1 .. Len(pieces[n]) : pieces[n][a] = e
    BY <1>3, <1>11
  <2>2. PICK i \in 1 .. Len(w) : from[i] = n /\ at[i] = a
    BY <1>7, <2>1 DEF Places
  <2> QED
    BY <1>9, <2>1, <2>2
<1>12. \A x : x \in Range(keys) <=> \E n \in 1 .. Len(keys) : keys[n] = x
  BY Elements
<1>13. Range(w) = {e \in Range(s) \cap es : key[e] \in Range(keys)}
  <2>1. \A x : x \in Range(w) <=> \E i \in 1 .. Len(w) : w[i] = x
    BY <1>6, Elements
  <2>2. ASSUME NEW x \in Range(w) PROVE x \in Range(s) \cap es /\ key[x] \in Range(keys)
    BY <1>9, <1>10, <1>12, <2>1
  <2>3. ASSUME NEW x \in Range(s) \cap es, key[x] \in Range(keys) PROVE x \in Range(w)
    BY <1>11, <1>12, <2>1, <2>3
  <2> QED
    BY <2>2, <2>3
<1>14. ASSUME NEW i \in 1 .. Len(w), NEW j \in 1 .. Len(w), i < j, Earliest(w, j)
       PROVE  FirstAt(keys, key[w[i]]) <= FirstAt(keys, key[w[j]])
  <2>1. \A k \in 1 .. Len(w) :
           /\ FirstAt(keys, key[w[k]]) \in 1 .. Len(keys)
           /\ keys[FirstAt(keys, key[w[k]])] = key[w[k]]
           /\ FirstAt(keys, key[w[k]]) <= from[k]
    <3> TAKE k \in 1 .. Len(w)
    <3>1. PICK x : x = key[w[k]]
      OBVIOUS
    <3>2. x \in Range(keys) /\ keys[from[k]] = x /\ from[k] \in 1 .. Len(keys)
      BY <1>9, <1>10, <1>12, <3>1
    <3>3. /\ FirstAt(keys, x) \in 1 .. Len(keys) /\ keys[FirstAt(keys, x)] = x
          /\ \A n \in 1 .. Len(keys) : keys[n] = x => FirstAt(keys, x) <= n
      BY <3>2, FirstIs
    <3> QED
      BY <3>1, <3>2, <3>3
  <2>2. PICK p \in 1 .. Len(keys) : p = FirstAt(keys, key[w[j]])
    BY <2>1
  <2>3. PICK x \in 1 .. Len(w) : from[x] = p /\ w[x] = w[j]
    <3>1. keys[p] = key[w[j]] /\ w[j] \in Range(s) \cap es
      BY <1>10, <2>1, <2>2
    <3> QED
      BY <1>11, <3>1
  <2>4. j <= x
    BY <1>8, <1>14, <2>3 DEF Earliest
  <2>5. \A a, b \in 1 .. Len(w) : a < b => from[a] <= from[b]
    BY <1>7, <1>9 DEF Places
  <2>6. from[i] <= from[j] /\ from[j] <= from[x]
    <3>1. from[j] \in Nat
      BY <1>2, <1>9
    <3>2. j = x \/ j < x
      BY <1>8, <2>4
    <3> QED
      BY <1>14, <2>5, <3>1, <3>2
  <2>7. FirstAt(keys, key[w[i]]) <= from[i]
    BY <2>1
  <2> QED
    BY <1>9, <2>1, <2>2, <2>3, <2>6, <2>7
<1> QED
  BY <1>6, <1>13, <1>14

(* AddSortedDriverBindingProtocol: what is in the list is not added again. *)
Listing(s, n, f) ==
    f = [k \in 0 .. n |->
            IF k = 0 THEN <<>>
            ELSE IF \E i \in 1 .. k - 1 : s[i] = s[k] THEN f[k - 1] ELSE Append(f[k - 1], s[k])]

LEMMA ListingExists ==
    ASSUME NEW s, NEW n \in Nat
    PROVE  \E f : Listing(s, n, f)
<1> DEFINE S == {m \in Nat : \E f : Listing(s, m, f)}
           next(k, v) == IF \E i \in 1 .. k - 1 : s[i] = s[k] THEN v ELSE Append(v, s[k])
<1>1. 0 \in S
  <2> PICK g : g = [i \in 0 .. 0 |-> <<>>]
    OBVIOUS
  <2>1. Listing(s, 0, g)
    BY DEF Listing
  <2> QED
    BY <2>1
<1>2. ASSUME NEW m \in Nat, m \in S
      PROVE  m + 1 \in S
  <2>1. PICK f : Listing(s, m, f)
    BY <1>2
  <2>2. PICK x : x = next(m + 1, f[m])
    OBVIOUS
  <2>3. PICK g : g = [i \in 0 .. m + 1 |-> IF i = m + 1 THEN x ELSE f[i]]
    OBVIOUS
  <2>4. \A i \in 0 .. m : f[i] = IF i = 0 THEN <<>> ELSE next(i, f[i - 1])
    BY <2>1 DEF Listing
  <2>5. \A i \in 0 .. m : g[i] = f[i]
    BY <2>3
  <2>6. g[m + 1] = x
    <3>1. m + 1 \in 0 .. m + 1
      OBVIOUS
    <3> QED
      BY ONLY <2>3, <3>1
  <2> HIDE DEF next
  <2>7. \A i \in 0 .. m + 1 : g[i] = IF i = 0 THEN <<>> ELSE next(i, g[i - 1])
    <3> TAKE i \in 0 .. m + 1
    <3>1. CASE i = 0
      BY <2>4, <2>5, <3>1
    <3>2. CASE i \in 1 .. m
      <4>1. i \in 0 .. m /\ i - 1 \in 0 .. m /\ i # 0
        BY <3>2
      <4>2. f[i] = next(i, f[i - 1])
        BY <2>4, <4>1
      <4> QED
        BY <2>5, <4>1, <4>2
    <3>3. CASE i = m + 1
      <4>1. m \in 0 .. m /\ i - 1 = m /\ i # 0
        BY <3>3
      <4>2. g[i - 1] = f[m] /\ g[i] = next(i, f[m])
        BY <2>2, <2>5, <2>6, <3>3, <4>1
      <4> QED
        BY <4>1, <4>2
    <3> QED
      BY <3>1, <3>2, <3>3
  <2> USE DEF next
  <2>8. Listing(s, m + 1, g)
    BY <2>3, <2>7 DEF Listing
  <2> QED
    BY <2>8
<1> QED
  BY <1>1, <1>2, Induction

Firsts(s, n, v) ==
    /\ \A j \in 1 .. Len(v) : \E b \in 1 .. n : v[j] = s[b] /\ Earliest(s, b)
    /\ \A b \in 1 .. n : \E j \in 1 .. Len(v) : v[j] = s[b]
    /\ \A i, j \in 1 .. Len(v) : i < j =>
          \E a, b \in 1 .. n : a < b /\ v[i] = s[a] /\ v[j] = s[b] /\ Earliest(s, b)

LEMMA OnceEachIs ==
    ASSUME NEW S, NEW s \in Seq(S), NEW w, w = OnceEach(s)
    PROVE  /\ w \in Seq(S) /\ Range(w) = Range(s)
           /\ \A i, j \in 1 .. Len(w) : i < j =>
                 \E a, b \in 1 .. Len(s) : a < b /\ w[i] = s[a] /\ w[j] = s[b] /\ Earliest(s, b)
<1>1. Len(s) \in Nat /\ \A k \in 1 .. Len(s) : s[k] \in S
  BY LenProperties
<1> DEFINE f == CHOOSE g : Listing(s, Len(s), g)
<1>2. Listing(s, Len(s), f)
  BY <1>1, ListingExists
<1>3. w = f[Len(s)]
  BY DEF OnceEach, Listing
<1> HIDE DEF f
<1>4. f[0] = <<>> /\ \A k \in 1 .. Len(s) : f[k] = IF Earliest(s, k) THEN Append(f[k - 1], s[k]) ELSE f[k - 1]
  <2>1. \A k \in 0 .. Len(s) : f[k] = IF k = 0 THEN <<>>
              ELSE IF \E i \in 1 .. k - 1 : s[i] = s[k] THEN f[k - 1] ELSE Append(f[k - 1], s[k])
    BY <1>2 DEF Listing
  <2>2. 0 \in 0 .. Len(s) /\ \A k \in 1 .. Len(s) : k \in 0 .. Len(s) /\ k # 0
    BY <1>1
  <2>3. \A k \in 1 .. Len(s) : Earliest(s, k) <=> ~ \E i \in 1 .. k - 1 : s[i] = s[k]
    BY DEF Earliest
  <2> QED
    <3> SUFFICES ASSUME NEW k \in 1 .. Len(s)
                 PROVE  f[k] = IF Earliest(s, k) THEN Append(f[k - 1], s[k]) ELSE f[k - 1]
      BY <2>1, <2>2
    <3>1. k \in 0 .. Len(s) /\ k # 0
      BY <2>2
    <3>2. f[k] = IF \E i \in 1 .. k - 1 : s[i] = s[k] THEN f[k - 1] ELSE Append(f[k - 1], s[k])
      BY <2>1, <3>1
    <3> QED
      BY ONLY <2>3, <3>2
<1> DEFINE T == {n \in Nat : n <= Len(s) => f[n] \in Seq(S) /\ Firsts(s, n, f[n])}
<1>5. 0 \in T
  <2>1. f[0] \in Seq(S) /\ Len(f[0]) = 0
    BY <1>4
  <2>2. Firsts(s, 0, f[0])
    BY <2>1 DEF Firsts
  <2> QED
    BY <2>1, <2>2
<1>6. ASSUME NEW n \in Nat, n \in T PROVE n + 1 \in T
  <2> SUFFICES ASSUME n + 1 <= Len(s) PROVE f[n + 1] \in Seq(S) /\ Firsts(s, n + 1, f[n + 1])
    OBVIOUS
  <2>1. n <= Len(s) /\ n + 1 \in 1 .. Len(s) /\ (n + 1) - 1 = n
    BY <1>1
  <2>2. PICK v : v = f[n]
    OBVIOUS
  <2>3. v \in Seq(S) /\ Firsts(s, n, v)
    BY <1>6, <2>1, <2>2
  <2>4. Len(v) \in Nat /\ \A b \in 1 .. n : b \in 1 .. n + 1 /\ b < n + 1
    BY <2>3, LenProperties
  <2>5. CASE ~Earliest(s, n + 1)
    <3>1. f[n + 1] = v
      BY <1>4, <2>1, <2>2, <2>5
    <3>2. PICK a \in 1 .. n : s[a] = s[n + 1]
      BY <2>1, <2>5 DEF Earliest
    <3>3. PICK j \in 1 .. Len(v) : v[j] = s[n + 1]
      BY <2>3, <3>2 DEF Firsts
    <3>4. \A b \in 1 .. n + 1 : b \in 1 .. n \/ b = n + 1
      OBVIOUS
    <3>5. Firsts(s, n + 1, v)
      BY <2>3, <2>4, <3>3, <3>4 DEF Firsts
    <3> QED
      BY <2>3, <3>1, <3>5
  <2>6. CASE Earliest(s, n + 1)
    <3>1. PICK e : e = s[n + 1]
      OBVIOUS
    <3>2. PICK u : u = Append(v, e)
      OBVIOUS
    <3>3. f[n + 1] = u
      BY <1>4, <2>1, <2>2, <2>6, <3>1, <3>2
    <3>4. e \in S
      BY <1>1, <2>1, <3>1
    <3>5. /\ u \in Seq(S) /\ Len(u) = Len(v) + 1 /\ u[Len(v) + 1] = e
          /\ \A i \in 1 .. Len(v) : u[i] = v[i]
      BY <2>3, <3>2, <3>4, AppendProperties
    <3>6. \A i \in 1 .. Len(u) : i \in 1 .. Len(v) \/ i = Len(v) + 1
      BY <2>4, <3>5
    <3>7. \A i \in 1 .. Len(v) : i \in 1 .. Len(u)
      BY <2>4, <3>5
    <3>8. Len(v) + 1 \in 1 .. Len(u)
      BY <2>4, <3>5
    <3>9. \A j \in 1 .. Len(u) : \E b \in 1 .. n + 1 : u[j] = s[b] /\ Earliest(s, b)
      <4> TAKE j \in 1 .. Len(u)
      <4>1. CASE j \in 1 .. Len(v)
        <5>1. PICK b \in 1 .. n : v[j] = s[b] /\ Earliest(s, b)
          BY <2>3, <4>1 DEF Firsts
        <5> QED
          BY <2>4, <3>5, <4>1, <5>1
      <4>2. CASE j = Len(v) + 1
        BY <2>6, <3>1, <3>5, <4>2
      <4> QED
        BY <3>6, <4>1, <4>2
    <3>10. \A b \in 1 .. n + 1 : \E j \in 1 .. Len(u) : u[j] = s[b]
      <4> TAKE b \in 1 .. n + 1
      <4>1. CASE b \in 1 .. n
        <5>1. PICK j \in 1 .. Len(v) : v[j] = s[b]
          BY <2>3, <4>1 DEF Firsts
        <5> QED
          BY <3>5, <3>7, <5>1
      <4>2. CASE b = n + 1
        BY <3>1, <3>5, <3>8, <4>2
      <4> QED
        BY <4>1, <4>2
    <3>11. ASSUME NEW i \in 1 .. Len(u), NEW j \in 1 .. Len(u), i < j
           PROVE  \E a, b \in 1 .. n + 1 : a < b /\ u[i] = s[a] /\ u[j] = s[b] /\ Earliest(s, b)
      <4>1. i \in 1 .. Len(v)
        BY <2>4, <3>6, <3>11
      <4>2. CASE j \in 1 .. Len(v)
        <5>1. PICK a \in 1 .. n, b \in 1 .. n : a < b /\ v[i] = s[a] /\ v[j] = s[b] /\ Earliest(s, b)
          BY <2>3, <3>11, <4>1, <4>2 DEF Firsts
        <5> QED
          BY <2>4, <3>5, <4>1, <4>2, <5>1
      <4>3. CASE j = Len(v) + 1
        <5>1. PICK a \in 1 .. n : v[i] = s[a]
          BY <2>3, <4>1 DEF Firsts
        <5>2. u[i] = s[a] /\ u[j] = s[n + 1] /\ a < n + 1 /\ a \in 1 .. n + 1 /\ n + 1 \in 1 .. n + 1
          BY <2>4, <3>1, <3>5, <4>1, <4>3, <5>1
        <5> QED
          BY <2>6, <5>2
      <4> QED
        BY <3>6, <4>2, <4>3
    <3>12. Firsts(s, n + 1, u)
      BY ONLY <3>9, <3>10, <3>11 DEF Firsts
    <3> QED
      BY <3>3, <3>5, <3>12
  <2> QED
    BY <2>5, <2>6
<1>7. w \in Seq(S) /\ Firsts(s, Len(s), w)
  <2>1. Len(s) \in T
    BY <1>1, <1>5, <1>6, Induction
  <2> QED
    BY <1>1, <1>3, <2>1
<1>8. Range(w) = Range(s)
  <2>1. \A x : x \in Range(w) <=> \E i \in 1 .. Len(w) : w[i] = x
    BY <1>7, Elements
  <2>2. \A x : x \in Range(s) <=> \E i \in 1 .. Len(s) : s[i] = x
    BY Elements
  <2>3. ASSUME NEW x \in Range(w) PROVE x \in Range(s)
    <3>1. PICK j \in 1 .. Len(w) : w[j] = x
      BY <2>1
    <3>2. PICK b \in 1 .. Len(s) : w[j] = s[b]
      BY <1>7 DEF Firsts
    <3> QED
      BY <2>2, <3>1, <3>2
  <2>4. ASSUME NEW x \in Range(s) PROVE x \in Range(w)
    <3>1. PICK b \in 1 .. Len(s) : s[b] = x
      BY <2>2
    <3>2. PICK j \in 1 .. Len(w) : w[j] = s[b]
      BY <1>7 DEF Firsts
    <3> QED
      BY <2>1, <3>1, <3>2
  <2> QED
    BY <2>3, <2>4
<1> QED
  BY <1>7, <1>8 DEF Firsts

-----------------------------------------------------------------------------
(* The order in which drivers are tried.                                   *)
LEMMA OfHandlesIs ==
    ASSUME NEW handles \in Seq(Drivers), NEW contexts \in Seq(Drivers),
           NEW w, w = OfHandles(handles, contexts)
    PROVE  /\ w \in Seq(Drivers) /\ Range(w) = Range(handles) \cap Range(contexts)
           /\ \A i, j \in 1 .. Len(w) : i < j /\ Earliest(w, j) =>
                 FirstAt(contexts, w[i]) <= FirstAt(contexts, w[j])
<1>1. PICK key : key = [d \in Drivers |-> d]
  OBVIOUS
<1>2. w = ByKey(handles, Range(handles), key, contexts)
  BY <1>1 DEF OfHandles
<1>3. /\ w \in Seq(Drivers)
      /\ Range(w) = {e \in Range(handles) \cap Range(handles) : key[e] \in Range(contexts)}
      /\ \A i, j \in 1 .. Len(w) : i < j /\ Earliest(w, j) =>
            FirstAt(contexts, key[w[i]]) <= FirstAt(contexts, key[w[j]])
  BY ONLY <1>2, ByKeyIs, handles \in Seq(Drivers), contexts \in Seq(Drivers)
<1>4. Range(handles) \subseteq Drivers
  BY Elements
<1>5. \A d \in Drivers : key[d] = d
  BY <1>1
<1>6. \A i \in 1 .. Len(w) : w[i] \in Drivers
  BY <1>3, LenProperties
<1>7. Range(w) = Range(handles) \cap Range(contexts)
  BY <1>3, <1>4, <1>5
<1> QED
  BY <1>3, <1>5, <1>6, <1>7

ByImage(w, handles, images) ==
    /\ w \in Seq(Drivers) /\ Range(w) = {d \in Range(handles) : Image[d] \in Range(images)}
    /\ \A i, j \in 1 .. Len(w) : i < j /\ Earliest(w, j) =>
          FirstAt(images, Image[w[i]]) <= FirstAt(images, Image[w[j]])

LEMMA OfImagesIs ==
    ASSUME NEW handles \in Seq(Drivers), NEW K, NEW images \in Seq(K),
           NEW w, w = OfImages(handles, images)
    PROVE  ByImage(w, handles, images)
<1>0. PICK key : key = Image
  OBVIOUS
<1>1. w = ByKey(handles, Range(handles), key, images)
  BY <1>0 DEF OfImages
<1>2. /\ w \in Seq(Drivers)
      /\ Range(w) = {e \in Range(handles) \cap Range(handles) : key[e] \in Range(images)}
      /\ \A i, j \in 1 .. Len(w) : i < j /\ Earliest(w, j) =>
            FirstAt(images, key[w[i]]) <= FirstAt(images, key[w[j]])
  BY ONLY <1>1, ByKeyIs, handles \in Seq(Drivers), images \in Seq(K)
<1> QED
  BY ONLY <1>0, <1>2 DEF ByImage

LEMMA RangeFinite ==
    ASSUME NEW S, NEW s \in Seq(S)
    PROVE  IsFiniteSet(Range(s))
<1>1. Len(s) \in Nat /\ s \in [1 .. Len(s) -> Range(s)]
  BY DEF Range
<1>2. s \in Surjection(1 .. Len(s), Range(s))
  BY <1>1, Elements DEF Surjection
<1>3. IsFiniteSet(1 .. Len(s))
  BY <1>1, FS_Interval
<1> QED
  BY <1>2, <1>3, FS_Surjection

(* A sequence made of a finite set has all of it.                          *)
LEMMA SequenceOfSet ==
    ASSUME NEW S, IsFiniteSet(S), NEW s \in SetToSeqs(S)
    PROVE  s \in Seq(S) /\ Range(s) = S
<1>1. PICK n : n = Cardinality(S)
  OBVIOUS
<1>2. n \in Nat
  BY <1>1, FS_CardinalityType
<1>3. s \in [1 .. n -> S] /\ \A i, j \in 1 .. n : i # j => s[i] # s[j]
  BY <1>1 DEF SetToSeqs
<1>4. s \in Injection(1 .. n, S)
  BY <1>3 DEF Injection, IsInjective
<1>5. Cardinality(1 .. n) = n
  BY <1>2, FS_Interval
<1>6. s \in Surjection(1 .. n, S)
  BY <1>1, <1>4, <1>5, FS_Injection
<1>7. s \in Seq(S) /\ Len(s) = n
  BY <1>2, <1>3
<1>8. \A x : x \in Range(s) <=> x \in S
  <2>1. \A x : x \in Range(s) <=> \E i \in 1 .. n : s[i] = x
    BY <1>7, Elements
  <2> QED
    BY <1>3, <1>6, <2>1 DEF Surjection
<1> QED
  BY <1>7, <1>8

LEMMA OfFamilyIs ==
    ASSUME NEW handles \in Seq(Drivers), NEW w \in OfFamily(handles)
    PROVE  /\ w \in Seq(Drivers) /\ Range(w) = {d \in Range(handles) : FamilyVersion[d] > 0}
           /\ \A i, j \in 1 .. Len(w) : i < j => FamilyVersion[w[i]] >= FamilyVersion[w[j]]
<1>1. PICK T : T = {d \in Range(handles) : FamilyVersion[d] > 0}
  OBVIOUS
<1>2. Range(handles) \subseteq Drivers
  BY Elements
<1>3. IsFiniteSet(T)
  <2>1. IsFiniteSet(Range(handles))
    BY RangeFinite
  <2>2. T \in SUBSET Range(handles)
    BY <1>1
  <2> QED
    BY <2>1, <2>2, FS_Subset
<1>4. /\ w \in SetToSeqs(T)
      /\ \A i, j \in DOMAIN w : i < j =>
            \/ FamilyVersion[w[i]] > FamilyVersion[w[j]]
            \/ /\ FamilyVersion[w[i]] = FamilyVersion[w[j]]
               /\ FirstAt(handles, w[i]) < FirstAt(handles, w[j])
  BY <1>1 DEF OfFamily
<1>5. w \in Seq(T) /\ Range(w) = T
  BY <1>3, <1>4, SequenceOfSet
<1>6. T \subseteq Drivers
  BY <1>1, <1>2
<1>7. /\ DOMAIN w = 1 .. Len(w) /\ Len(w) \in Nat
      /\ \A i \in 1 .. Len(w) : w[i] \in Drivers
  BY <1>5, <1>6, LenProperties
<1>8. w \in Seq(Drivers)
  BY <1>5, <1>6
<1>9. \A d \in Drivers : FamilyVersion[d] \in Nat
  BY DriverAssumption
<1> QED
  BY <1>1, <1>4, <1>5, <1>7, <1>8, <1>9

(* The four lists of overrides, and where a driver ranks in each of them.  *)
Belongs(d, k, c, contexts) ==
    \/ k = 1 /\ d \in Range(contexts)
    \/ k = 2 /\ Image[d] \in Range(PlatformOverride[c])
    \/ k = 3 /\ FamilyVersion[d] > 0
    \/ k = 4 /\ Image[d] \in Range(BusOverride[c])

Place(d, k, c, contexts) ==
    IF k = 1 THEN FirstAt(contexts, d)
    ELSE IF k = 2 THEN FirstAt(PlatformOverride[c], Image[d])
    ELSE IF k = 3 THEN -FamilyVersion[d]
    ELSE IF k = 4 THEN FirstAt(BusOverride[c], Image[d])
    ELSE -Version[d]

LEMMA RankIs ==
    ASSUME NEW c \in Controllers, NEW contexts \in Seq(Drivers), NEW d \in Drivers,
           NEW r, r = Rank(d, c, contexts)
    PROVE  /\ r[1] \in 1 .. 5 /\ r[2] \in Int /\ r[2] = Place(d, r[1], c, contexts)
           /\ r[1] # 5 => Belongs(d, r[1], c, contexts)
           /\ \A k \in 1 .. 4 : Belongs(d, k, c, contexts) => r[1] <= k
<1>1. /\ FamilyVersion[d] \in Nat /\ Version[d] \in Nat
      /\ PlatformOverride[c] \in Seq(Range(PlatformOverride[c]))
      /\ BusOverride[c] \in Seq(Range(BusOverride[c]))
  BY DriverAssumption
<1>2. d \in Range(contexts) => FirstAt(contexts, d) \in Int
  BY FirstIs
<1>3. Image[d] \in Range(PlatformOverride[c]) => FirstAt(PlatformOverride[c], Image[d]) \in Int
  <2>1. PICK images, x : images = PlatformOverride[c] /\ x = Image[d]
    OBVIOUS
  <2>2. images \in Seq(Range(images))
    BY <1>1, <2>1
  <2>3. x \in Range(images) => FirstAt(images, x) \in 1 .. Len(images)
    BY <2>2, FirstIs
  <2> QED
    BY <2>1, <2>3
<1>4. Image[d] \in Range(BusOverride[c]) => FirstAt(BusOverride[c], Image[d]) \in Int
  <2>1. PICK images, x : images = BusOverride[c] /\ x = Image[d]
    OBVIOUS
  <2>2. images \in Seq(Range(images))
    BY <1>1, <2>1
  <2>3. x \in Range(images) => FirstAt(images, x) \in 1 .. Len(images)
    BY <2>2, FirstIs
  <2> QED
    BY <2>1, <2>3
<1>5. CASE d \in Range(contexts)
  BY <1>2, <1>5 DEF Rank, Place, Belongs
<1>6. CASE d \notin Range(contexts) /\ Image[d] \in Range(PlatformOverride[c])
  BY <1>3, <1>6 DEF Rank, Place, Belongs
<1>7. CASE d \notin Range(contexts) /\ Image[d] \notin Range(PlatformOverride[c]) /\ FamilyVersion[d] > 0
  BY <1>1, <1>7 DEF Rank, Place, Belongs
<1>8. CASE /\ d \notin Range(contexts) /\ Image[d] \notin Range(PlatformOverride[c])
           /\ ~(FamilyVersion[d] > 0) /\ Image[d] \in Range(BusOverride[c])
  BY <1>4, <1>8 DEF Rank, Place, Belongs
<1>9. CASE /\ d \notin Range(contexts) /\ Image[d] \notin Range(PlatformOverride[c])
           /\ ~(FamilyVersion[d] > 0) /\ Image[d] \notin Range(BusOverride[c])
  BY <1>1, <1>9 DEF Rank, Place, Belongs
<1> QED
  BY <1>5, <1>6, <1>7, <1>8, <1>9

OverrideList(p, handles, k, c, contexts) ==
    /\ p \in Seq(Drivers)
    /\ Range(p) = {d \in Range(handles) : Belongs(d, k, c, contexts)}
    /\ \A i, j \in 1 .. Len(p) : i < j /\ Earliest(p, j) =>
          Place(p[i], k, c, contexts) <= Place(p[j], k, c, contexts)

LEMMA OverridesAre ==
    ASSUME NEW c \in Controllers, NEW contexts \in Seq(Drivers), NEW handles \in Seq(Drivers),
           NEW lists \in Overrides(handles, c, contexts)
    PROVE  /\ lists \in Seq(Seq(Drivers)) /\ Len(lists) = 4
           /\ \A k \in 1 .. 4 : OverrideList(lists[k], handles, k, c, contexts)
<1>1. PICK family \in OfFamily(handles) :
         lists = <<OfHandles(handles, contexts), OfImages(handles, PlatformOverride[c]),
                   family, OfImages(handles, BusOverride[c])>>
  BY DEF Overrides
<1>2. PICK named, platform, bus :
         /\ named = OfHandles(handles, contexts)
         /\ platform = OfImages(handles, PlatformOverride[c])
         /\ bus = OfImages(handles, BusOverride[c])
  OBVIOUS
<1>3. /\ PlatformOverride[c] \in Seq(Range(PlatformOverride[c]))
      /\ BusOverride[c] \in Seq(Range(BusOverride[c]))
  BY DriverAssumption
<1>4. OverrideList(named, handles, 1, c, contexts)
  <2>1. /\ named \in Seq(Drivers) /\ Range(named) = Range(handles) \cap Range(contexts)
        /\ \A i, j \in 1 .. Len(named) : i < j /\ Earliest(named, j) =>
              FirstAt(contexts, named[i]) <= FirstAt(contexts, named[j])
    BY ONLY <1>2, OfHandlesIs, handles \in Seq(Drivers), contexts \in Seq(Drivers)
  <2> QED
    BY <2>1 DEF OverrideList, Belongs, Place
<1>5. OverrideList(platform, handles, 2, c, contexts)
  <2>1. PICK images : images = PlatformOverride[c]
    OBVIOUS
  <2>2. PICK K : K = Range(images)
    OBVIOUS
  <2>3. images \in Seq(K) /\ platform = OfImages(handles, images)
    BY <1>2, <1>3, <2>1, <2>2
  <2>4. ByImage(platform, handles, images)
    BY ONLY <2>3, OfImagesIs, handles \in Seq(Drivers)
  <2>5. Range(platform) = {d \in Range(handles) : Belongs(d, 2, c, contexts)}
    BY ONLY <2>1, <2>4 DEF ByImage, Belongs
  <2>6. \A i, j \in 1 .. Len(platform) : i < j /\ Earliest(platform, j) =>
           Place(platform[i], 2, c, contexts) <= Place(platform[j], 2, c, contexts)
    BY ONLY <2>1, <2>4 DEF ByImage, Place
  <2> QED
    BY <2>4, <2>5, <2>6 DEF ByImage, OverrideList
<1>6. OverrideList(family, handles, 3, c, contexts)
  <2>1. /\ family \in Seq(Drivers) /\ Range(family) = {d \in Range(handles) : FamilyVersion[d] > 0}
        /\ \A i, j \in 1 .. Len(family) : i < j => FamilyVersion[family[i]] >= FamilyVersion[family[j]]
    BY OfFamilyIs
  <2>2. \A i \in 1 .. Len(family) : FamilyVersion[family[i]] \in Nat
    BY <2>1, LenProperties, DriverAssumption
  <2> QED
    BY <2>1, <2>2 DEF OverrideList, Belongs, Place
<1>7. OverrideList(bus, handles, 4, c, contexts)
  <2>1. PICK images : images = BusOverride[c]
    OBVIOUS
  <2>2. PICK K : K = Range(images)
    OBVIOUS
  <2>3. images \in Seq(K) /\ bus = OfImages(handles, images)
    BY <1>2, <1>3, <2>1, <2>2
  <2>4. ByImage(bus, handles, images)
    BY ONLY <2>3, OfImagesIs, handles \in Seq(Drivers)
  <2>5. Range(bus) = {d \in Range(handles) : Belongs(d, 4, c, contexts)}
    BY ONLY <2>1, <2>4 DEF ByImage, Belongs
  <2>6. \A i, j \in 1 .. Len(bus) : i < j /\ Earliest(bus, j) =>
           Place(bus[i], 4, c, contexts) <= Place(bus[j], 4, c, contexts)
    BY ONLY <2>1, <2>4 DEF ByImage, Place
  <2> QED
    BY <2>4, <2>5, <2>6 DEF ByImage, OverrideList
<1>8. lists = <<named, platform, family, bus>>
  BY <1>1, <1>2
<1>9. named \in Seq(Drivers) /\ platform \in Seq(Drivers) /\ family \in Seq(Drivers) /\ bus \in Seq(Drivers)
  BY <1>4, <1>5, <1>6, <1>7 DEF OverrideList
<1>10. /\ lists \in Seq(Seq(Drivers)) /\ Len(lists) = 4
       /\ lists[1] = named /\ lists[2] = platform /\ lists[3] = family /\ lists[4] = bus
  BY ONLY <1>8, <1>9
<1>11. \A k \in 1 .. 4 : k = 1 \/ k = 2 \/ k = 3 \/ k = 4
  OBVIOUS
<1> QED
  BY <1>4, <1>5, <1>6, <1>7, <1>10, <1>11

(* The first of the lists that has a driver decides over its place.        *)
LEMMA ListsInOrder ==
    ASSUME NEW c \in Controllers, NEW contexts \in Seq(Drivers), NEW handles \in Seq(Drivers),
           NEW lists \in Overrides(handles, c, contexts), NEW w, w = Joined(lists)
    PROVE  /\ w \in Seq(Drivers)
           /\ Range(w) = {d \in Range(handles) : \E k \in 1 .. 4 : Belongs(d, k, c, contexts)}
           /\ \A i, j \in 1 .. Len(w) : i < j /\ Earliest(w, j) =>
                 NotBehind(Rank(w[i], c, contexts), Rank(w[j], c, contexts))
<1>1. /\ lists \in Seq(Seq(Drivers)) /\ Len(lists) = 4
      /\ \A k \in 1 .. 4 : OverrideList(lists[k], handles, k, c, contexts)
  BY OverridesAre
<1>2. w \in Seq(Drivers) /\ \E from, at : Places(lists, 4, w, from, at)
  <2>1. w \in Seq(Drivers) /\ \E from, at : Places(lists, Len(lists), w, from, at)
    BY <1>1, JoinedPlaces
  <2> QED
    BY <1>1, <2>1
<1>3. PICK from, at : Places(lists, 4, w, from, at)
  BY <1>2
<1>4. \A k \in 1 .. 4 : \A d : (\E a \in 1 .. Len(lists[k]) : lists[k][a] = d) <=>
         d \in Range(handles) /\ Belongs(d, k, c, contexts)
  <2> TAKE k \in 1 .. 4
  <2>1. PICK p : p = lists[k]
    OBVIOUS
  <2>2. p \in Seq(Drivers) /\ Range(p) = {d \in Range(handles) : Belongs(d, k, c, contexts)}
    BY <1>1, <2>1 DEF OverrideList
  <2>3. \A d : d \in Range(p) <=> \E a \in 1 .. Len(p) : p[a] = d
    BY <2>2, Elements
  <2> QED
    BY <2>1, <2>2, <2>3
<1>5. \A i \in 1 .. Len(w) : from[i] \in 1 .. 4 /\ at[i] \in 1 .. Len(lists[from[i]]) /\ w[i] = lists[from[i]][at[i]]
  BY <1>3 DEF Places
<1>6. Len(w) \in Nat /\ \A i \in 1 .. Len(w) : w[i] \in Drivers
  BY <1>2, LenProperties
<1>7. \A i \in 1 .. Len(w) : w[i] \in Range(handles) /\ Belongs(w[i], from[i], c, contexts)
  BY <1>4, <1>5
<1>8. \A k \in 1 .. 4 : Len(lists[k]) \in Nat
  BY <1>1, LenProperties
<1>9. Range(w) = {d \in Range(handles) : \E k \in 1 .. 4 : Belongs(d, k, c, contexts)}
  <2>1. \A x : x \in Range(w) <=> \E i \in 1 .. Len(w) : w[i] = x
    BY <1>2, Elements
  <2>2. ASSUME NEW x \in Range(w) PROVE x \in Range(handles) /\ \E k \in 1 .. 4 : Belongs(x, k, c, contexts)
    BY <1>5, <1>7, <2>1
  <2>3. ASSUME NEW x \in Range(handles), NEW k \in 1 .. 4, Belongs(x, k, c, contexts) PROVE x \in Range(w)
    <3>1. PICK a \in 1 .. Len(lists[k]) : lists[k][a] = x
      BY <1>4, <2>3
    <3>2. PICK i \in 1 .. Len(w) : from[i] = k /\ at[i] = a
      BY <1>3, <3>1 DEF Places
    <3> QED
      BY <1>5, <2>1, <3>1, <3>2
  <2> QED
    BY <2>2, <2>3
<1>10. ASSUME NEW i \in 1 .. Len(w), NEW j \in 1 .. Len(w), i < j, Earliest(w, j)
       PROVE  NotBehind(Rank(w[i], c, contexts), Rank(w[j], c, contexts))
  <2>1. PICK q, r : q = Rank(w[i], c, contexts) /\ r = Rank(w[j], c, contexts)
    OBVIOUS
  <2>2. /\ q[1] \in 1 .. 5 /\ q[2] \in Int /\ q[2] = Place(w[i], q[1], c, contexts)
        /\ \A k \in 1 .. 4 : Belongs(w[i], k, c, contexts) => q[1] <= k
    BY <1>6, <2>1, RankIs
  <2>3. /\ r[1] \in 1 .. 5 /\ r[2] \in Int /\ r[2] = Place(w[j], r[1], c, contexts)
        /\ r[1] # 5 => Belongs(w[j], r[1], c, contexts)
        /\ \A k \in 1 .. 4 : Belongs(w[j], k, c, contexts) => r[1] <= k
    BY <1>6, <2>1, RankIs
  <2>4. r[1] <= from[j] /\ r[1] \in 1 .. 4 /\ q[1] <= from[i]
    <3>1. from[i] \in 1 .. 4 /\ Belongs(w[i], from[i], c, contexts)
      BY <1>5, <1>7
    <3>2. from[j] \in 1 .. 4 /\ Belongs(w[j], from[j], c, contexts)
      BY <1>5, <1>7
    <3>3. q[1] <= from[i]
      BY ONLY <2>2, <3>1
    <3>4. r[1] <= from[j]
      BY ONLY <2>3, <3>2
    <3> QED
      BY <2>3, <3>2, <3>3, <3>4
  <2>5. \A a, b \in 1 .. Len(w) : a < b => from[a] < from[b] \/ (from[a] = from[b] /\ at[a] < at[b])
    BY <1>3 DEF Places
  <2>6. ASSUME NEW k \in 1 .. 4, NEW a \in 1 .. Len(lists[k]), lists[k][a] = w[j]
        PROVE  from[j] < k \/ (from[j] = k /\ at[j] <= a)
    <3>1. PICK x \in 1 .. Len(w) : from[x] = k /\ at[x] = a
      BY <1>3, <2>6 DEF Places
    <3>2. w[x] = w[j]
      <4>1. w[x] = lists[from[x]][at[x]]
        BY ONLY <1>5, <3>1
      <4> QED
        BY ONLY <2>6, <3>1, <4>1
    <3>3. ~(x < j)
      BY ONLY <1>6, <1>10, <3>1, <3>2 DEF Earliest
    <3>4. x = j \/ j < x
      BY ONLY <1>6, <1>10, <3>1, <3>3
    <3>5. at[j] \in Nat /\ from[j] \in Nat
      <4>1. from[j] \in 1 .. 4 /\ at[j] \in 1 .. Len(lists[from[j]])
        BY <1>5
      <4>2. Len(lists[from[j]]) \in Nat
        BY <1>8, <4>1
      <4> QED
        BY ONLY <4>1, <4>2
    <3>6. CASE x = j
      BY <3>1, <3>5, <3>6
    <3>7. CASE j < x
      BY <2>5, <2>6, <3>1, <3>5, <3>7
    <3> QED
      BY <3>4, <3>6, <3>7
  <2>7. r[1] = from[j]
    <3>1. PICK k \in 1 .. 4 : k = r[1]
      BY <2>4
    <3>2. Belongs(w[j], k, c, contexts)
      BY <2>3, <3>1
    <3>3. PICK a \in 1 .. Len(lists[k]) : lists[k][a] = w[j]
      BY <1>4, <1>7, <3>2
    <3>4. from[j] \in 1 .. 4
      BY <1>5
    <3>5. from[j] <= k
      BY ONLY <2>6, <3>3, <3>4
    <3> QED
      BY ONLY <2>4, <3>1, <3>4, <3>5
  <2>8. CASE q[1] < r[1]
    BY <2>1, <2>8 DEF NotBehind
  <2>9. CASE ~(q[1] < r[1])
    <3>1. from[i] <= from[j]
      <4>1. from[i] \in 1 .. 4 /\ from[j] \in 1 .. 4
        BY <1>5
      <4> QED
        BY ONLY <1>10, <2>5, <4>1
    <3>0. from[i] \in 1 .. 4 /\ from[j] \in 1 .. 4
      BY <1>5
    <3>2. PICK k \in 1 .. 4 : k = r[1] /\ k = q[1] /\ from[i] = k /\ from[j] = k
      BY ONLY <2>2, <2>3, <2>4, <2>7, <2>9, <3>0, <3>1
    <3>3. PICK p : p = lists[k]
      OBVIOUS
    <3>4. /\ at[i] \in 1 .. Len(p) /\ at[j] \in 1 .. Len(p) /\ at[i] < at[j]
          /\ p[at[i]] = w[i] /\ p[at[j]] = w[j]
      <4>1. at[i] \in 1 .. Len(lists[from[i]]) /\ w[i] = lists[from[i]][at[i]]
        BY <1>5
      <4>2. at[j] \in 1 .. Len(lists[from[j]]) /\ w[j] = lists[from[j]][at[j]]
        BY <1>5
      <4>3. at[i] < at[j]
        BY ONLY <1>10, <2>5, <3>2
      <4> QED
        BY ONLY <3>2, <3>3, <4>1, <4>2, <4>3
    <3>5. Len(p) \in Nat
      BY <1>8, <3>3
    <3>6. Earliest(p, at[j])
      <4> SUFFICES ASSUME NEW a \in 1 .. at[j] - 1, p[a] = p[at[j]] PROVE FALSE
        BY DEF Earliest
      <4>1. a \in 1 .. Len(lists[k]) /\ lists[k][a] = w[j]
        BY <3>3, <3>4, <3>5
      <4>2. at[j] <= a
        <5>1. from[j] < k \/ (from[j] = k /\ at[j] <= a)
          BY ONLY <2>6, <4>1
        <5>2. from[j] = k /\ ~(k < k)
          BY ONLY <3>2
        <5> QED
          BY ONLY <5>1, <5>2
      <4> QED
        BY ONLY <3>4, <3>5, <4>2
    <3>7. Place(p[at[i]], k, c, contexts) <= Place(p[at[j]], k, c, contexts)
      BY <1>1, <3>3, <3>4, <3>6 DEF OverrideList
    <3>8. q[2] <= r[2]
      BY <2>2, <2>3, <3>2, <3>4, <3>7
    <3> QED
      BY <2>1, <3>2, <3>8 DEF NotBehind
  <2> QED
    BY <2>8, <2>9
<1> QED
  BY <1>2, <1>9, <1>10

InOrder(s, c, contexts) ==
    \A i, j \in DOMAIN s : i < j /\ s[i] # None /\ s[j] # None =>
        NotBehind(Rank(s[i], c, contexts), Rank(s[j], c, contexts))

(* The sorted list tries the drivers in the order of their ranks.          *)
LEMMA SortedInOrder ==
    ASSUME NEW c \in Controllers, NEW contexts \in Seq(Drivers), NEW handles \in Seq(Drivers),
           NEW s \in Sorted(handles, c, contexts)
    PROVE  s \in Seq(Drivers) /\ InOrder(s, c, contexts)
<1>1. PICK lists \in Overrides(handles, c, contexts), others \in DescendingOrders :
         /\ s = OnceEach(Joined(lists)) \o others
         /\ Range(others) = Range(handles) \ Range(OnceEach(Joined(lists)))
  BY DEF Sorted
<1>2. PICK w : w = Joined(lists)
  OBVIOUS
<1>3. PICK first : first = OnceEach(w)
  OBVIOUS
<1>4. /\ w \in Seq(Drivers)
      /\ Range(w) = {d \in Range(handles) : \E k \in 1 .. 4 : Belongs(d, k, c, contexts)}
      /\ \A i, j \in 1 .. Len(w) : i < j /\ Earliest(w, j) =>
            NotBehind(Rank(w[i], c, contexts), Rank(w[j], c, contexts))
  BY <1>2, ListsInOrder
<1>5. /\ first \in Seq(Drivers) /\ Range(first) = Range(w)
      /\ \A i, j \in 1 .. Len(first) : i < j =>
            \E a, b \in 1 .. Len(w) : a < b /\ first[i] = w[a] /\ first[j] = w[b] /\ Earliest(w, b)
  <2>1. w \in Seq(Drivers)
    BY <1>4
  <2> QED
    BY ONLY <1>3, <2>1, OnceEachIs
<1>6. /\ others \in Seq(Drivers)
      /\ \A i, j \in 1 .. Len(others) : i < j => Version[others[i]] >= Version[others[j]]
  <2>1. PICK drivers \in SUBSET Drivers :
           /\ others \in SetToSeqs(drivers)
           /\ \A i, j \in DOMAIN others : i < j => Version[others[i]] >= Version[others[j]]
    BY DEF DescendingOrders
  <2>2. IsFiniteSet(drivers)
    BY DriverAssumption, FS_Subset
  <2>3. others \in Seq(drivers)
    BY <2>1, <2>2, SequenceOfSet
  <2> QED
    BY <2>1, <2>3
<1>7. s = first \o others
  BY <1>1, <1>2, <1>3
<1>8. s \in Seq(Drivers)
  BY <1>5, <1>6, <1>7, ConcatProperties
<1>9. /\ Len(first) \in Nat /\ Len(others) \in Nat /\ Len(s) = Len(first) + Len(others)
      /\ \A i \in 1 .. Len(s) : s[i] = IF i <= Len(first) THEN first[i] ELSE others[i - Len(first)]
      /\ DOMAIN s = 1 .. Len(s)
  <2>1. Len(first) \in Nat /\ Len(others) \in Nat
    BY <1>5, <1>6, LenProperties
  <2>2. Len(s) = Len(first) + Len(others)
        /\ \A i \in 1 .. Len(first) + Len(others) : s[i] = IF i <= Len(first) THEN first[i] ELSE others[i - Len(first)]
    BY <1>5, <1>6, <1>7, ConcatProperties
  <2> QED
    BY <1>8, <2>1, <2>2, LenProperties
<1>10. ASSUME NEW i \in 1 .. Len(others)
       PROVE  /\ others[i] \in Drivers
              /\ Rank(others[i], c, contexts)[1] = 5
              /\ Rank(others[i], c, contexts)[2] = -Version[others[i]]
  <2>1. others[i] \in Drivers
    BY <1>6, LenProperties
  <2>2. PICK r : r = Rank(others[i], c, contexts)
    OBVIOUS
  <2>3. others[i] \in Range(others)
    BY <1>6, Elements
  <2>4. others[i] \in Range(handles) /\ others[i] \notin Range(w)
    BY <1>1, <1>2, <1>3, <1>5, <2>3
  <2>5. \A k \in 1 .. 4 : ~Belongs(others[i], k, c, contexts)
    BY <1>4, <2>4
  <2>6. /\ r[1] \in 1 .. 5 /\ r[2] = Place(others[i], r[1], c, contexts)
        /\ r[1] # 5 => Belongs(others[i], r[1], c, contexts)
    BY <2>1, <2>2, RankIs
  <2>7. r[1] = 5
    BY <2>5, <2>6
  <2>8. r[2] = -Version[others[i]]
    BY <2>6, <2>7 DEF Place
  <2> QED
    BY <2>1, <2>2, <2>7, <2>8
<1>11. ASSUME NEW i \in 1 .. Len(first)
       PROVE  first[i] \in Drivers /\ Rank(first[i], c, contexts)[1] \in 1 .. 4
  <2>1. first[i] \in Drivers /\ first[i] \in Range(first)
    BY <1>5, LenProperties, Elements
  <2>2. PICK k \in 1 .. 4 : Belongs(first[i], k, c, contexts)
    BY <1>4, <1>5, <2>1
  <2>3. PICK r : r = Rank(first[i], c, contexts)
    OBVIOUS
  <2>4. r[1] \in 1 .. 5 /\ \A n \in 1 .. 4 : Belongs(first[i], n, c, contexts) => r[1] <= n
    BY <2>1, <2>3, RankIs
  <2> QED
    BY <2>1, <2>2, <2>3, <2>4
<1>12. ASSUME NEW i \in 1 .. Len(s), NEW j \in 1 .. Len(s), i < j
       PROVE  NotBehind(Rank(s[i], c, contexts), Rank(s[j], c, contexts))
  <2>1. CASE j <= Len(first)
    <3>1. i \in 1 .. Len(first) /\ j \in 1 .. Len(first) /\ s[i] = first[i] /\ s[j] = first[j]
      BY <1>9, <1>12, <2>1
    <3>2. PICK a \in 1 .. Len(w), b \in 1 .. Len(w) : a < b /\ first[i] = w[a] /\ first[j] = w[b] /\ Earliest(w, b)
      BY <1>5, <1>12, <3>1
    <3> QED
      BY <1>4, <3>1, <3>2
  <2>2. CASE i <= Len(first) /\ j > Len(first)
    <3>1. /\ i \in 1 .. Len(first) /\ j - Len(first) \in 1 .. Len(others)
          /\ s[i] = first[i] /\ s[j] = others[j - Len(first)]
      BY <1>9, <1>12, <2>2
    <3>2. Rank(s[i], c, contexts)[1] \in 1 .. 4 /\ Rank(s[j], c, contexts)[1] = 5
      BY <1>10, <1>11, <3>1
    <3> QED
      BY <3>2 DEF NotBehind
  <2>3. CASE i > Len(first)
    <3>1. PICK a \in 1 .. Len(others), b \in 1 .. Len(others) : a = i - Len(first) /\ b = j - Len(first)
      <4>1. i - Len(first) \in 1 .. Len(others) /\ j - Len(first) \in 1 .. Len(others)
        BY <1>9, <1>12, <2>3
      <4> QED
        BY <4>1
    <3>2. s[i] = others[a] /\ s[j] = others[b] /\ a < b
      BY <1>9, <1>12, <2>3, <3>1
    <3>3. Version[others[a]] >= Version[others[b]]
      BY <1>6, <3>1, <3>2
    <3>4. PICK x, y : x = Version[others[a]] /\ y = Version[others[b]]
      OBVIOUS
    <3>5. x \in Nat /\ y \in Nat
      BY <1>10, <3>4, DriverAssumption
    <3>6. -x <= -y
      BY <3>3, <3>4, <3>5
    <3>7. PICK q, r : q = Rank(s[i], c, contexts) /\ r = Rank(s[j], c, contexts)
      OBVIOUS
    <3>8. q[1] = 5 /\ r[1] = 5 /\ q[2] = -x /\ r[2] = -y
      BY <1>10, <3>2, <3>4, <3>7
    <3>9. NotBehind(q, r)
      BY ONLY <3>6, <3>8 DEF NotBehind
    <3> QED
      BY <3>7, <3>9
  <2> QED
    BY <1>9, <2>1, <2>2, <2>3
<1>13. InOrder(s, c, contexts)
  BY <1>9, <1>12 DEF InOrder
<1> QED
  BY <1>8, <1>13

-----------------------------------------------------------------------------
(***************************************************************************)
(* What the drivers have opened.  The invariant speaks of the records, the *)
(* protocols and the frames by parameters, so that its lemmas compare one  *)
(* state of them with another.                                             *)
(***************************************************************************)
Records == [protocol : Protocols, agent : Drivers, child : Controllers \cup {None}]

RecordFits(record, protocols) ==
    /\ record.protocol = Consumes[record.agent] /\ record.protocol \in protocols
    /\ record.child # None => record.child \in Range(Children[record.agent])

OpensFit(os, is) ==
    /\ is \in [Controllers -> Seq(Protocols)] /\ os \in [Controllers -> Seq(Records)]
    /\ \A c \in Controllers : \A record \in Range(os[c]) : RecordFits(record, Range(is[c]))

ManagesIn(os, d, c) == \E record \in Range(os[c]) : record.agent = d /\ record.child = None

KidsIn(os, d, c) ==
    {k \in Controllers : \E record \in Range(os[c]) : record.agent = d /\ record.child = k}

SupportedIn(os, is, d, c) ==
    /\ Consumes[d] \in Range(is[c])
    /\ \A record \in Range(os[c]) : record.protocol = Consumes[d] => record.child # None

LEMMA RecordIs ==
    ASSUME NEW record \in Records
    PROVE  /\ record.protocol \in Protocols /\ record.agent \in Drivers
           /\ record.child \in Controllers \cup {None}
BY DEF Records

LEMMA RecordsIn ==
    ASSUME NEW os, NEW is, OpensFit(os, is), NEW c \in Controllers, NEW record \in Range(os[c])
    PROVE  /\ record \in Records /\ RecordFits(record, Range(is[c]))
           /\ record.agent \in Drivers /\ record.child \in Controllers \cup {None}
<1>1. os[c] \in Seq(Records)
  BY DEF OpensFit
<1>2. record \in Records
  BY <1>1, Elements
<1>3. record.agent \in Drivers /\ record.child \in Controllers \cup {None}
  BY <1>2, RecordIs
<1> QED
  BY <1>2, <1>3 DEF OpensFit

LEMMA ManagesIs ==
    ASSUME NEW d, NEW c
    PROVE  Manages(d, c) <=> ManagesIn(opens, d, c)
BY DEF Manages, Agents, Managing, ManagesIn

LEMMA SupportedIs ==
    ASSUME NEW d, NEW c
    PROVE  Supported(d, c) <=> SupportedIn(opens, interfaces, d, c)
BY DEF Supported, SupportedIn

(* The records that are collected are those of the controller.             *)
LEMMA OpenListIs ==
    ASSUME OpensFit(opens, interfaces), NEW c \in Controllers, NEW rs, rs \subseteq Range(opens[c]),
           NEW w, w = OpenList(c, rs)
    PROVE  w \in Seq(Records) /\ Range(w) = rs
<1>1. PICK key : key = [record \in rs |-> record.protocol]
  OBVIOUS
<1>2. PICK s, keys : s = opens[c] /\ keys = interfaces[c]
  OBVIOUS
<1>3. s \in Seq(Records) /\ keys \in Seq(Protocols)
  BY <1>2 DEF OpensFit
<1>4. w = ByKey(s, rs, key, keys)
  BY <1>1, <1>2 DEF OpenList
<1>5. w \in Seq(Records) /\ Range(w) = {e \in Range(s) \cap rs : key[e] \in Range(keys)}
  BY ONLY <1>3, <1>4, ByKeyIs
<1>6. \A e \in rs : e \in Range(s) /\ key[e] \in Range(keys)
  <2> TAKE e \in rs
  <2>1. e \in Range(opens[c])
    OBVIOUS
  <2>2. RecordFits(e, Range(interfaces[c]))
    BY <2>1, RecordsIn
  <2>3. e.protocol \in Range(interfaces[c])
    BY <2>2 DEF RecordFits
  <2>4. key[e] = e.protocol
    BY <1>1
  <2> QED
    BY <1>2, <2>1, <2>3, <2>4
<1> QED
  BY <1>5, <1>6

LEMMA AgentsAre ==
    ASSUME NEW rs \in Seq(Records)
    PROVE  AgentsOf(rs) \in Seq(Drivers)
<1>1. Len(rs) \in Nat /\ DOMAIN rs = 1 .. Len(rs) /\ \A i \in 1 .. Len(rs) : rs[i] \in Records
  BY LenProperties
<1>2. \A i \in 1 .. Len(rs) : rs[i].agent \in Drivers
  BY <1>1, RecordIs
<1>3. AgentsOf(rs) = [i \in 1 .. Len(rs) |-> rs[i].agent]
  BY <1>1 DEF AgentsOf
<1> QED
  BY <1>1, <1>2, <1>3

LEMMA ChildrenAre ==
    ASSUME NEW rs \in Seq(Records), \A record \in Range(rs) : record.child # None,
           NEW v, v = [i \in DOMAIN rs |-> rs[i].child]
    PROVE  /\ v \in Seq(Controllers)
           /\ \A k : k \in Range(v) <=> \E record \in Range(rs) : record.child = k
<1>1. /\ Len(rs) \in Nat /\ DOMAIN rs = 1 .. Len(rs)
      /\ \A i \in 1 .. Len(rs) : rs[i] \in Records /\ rs[i] \in Range(rs)
  BY LenProperties, Elements
<1>2. \A i \in 1 .. Len(rs) : rs[i].child \in Controllers
  BY <1>1, RecordIs
<1>3. v = [i \in 1 .. Len(rs) |-> rs[i].child]
  BY <1>1
<1>4. v \in Seq(Controllers) /\ Len(v) = Len(rs) /\ \A i \in 1 .. Len(rs) : v[i] = rs[i].child
  BY <1>1, <1>2, <1>3
<1>5. v \in Seq(Controllers)
  BY <1>4
<1>6. \A k : k \in Range(v) <=> \E i \in 1 .. Len(v) : v[i] = k
  BY ONLY <1>5, Elements
<1>7. \A r : r \in Range(rs) <=> \E i \in 1 .. Len(rs) : rs[i] = r
  BY Elements
<1> QED
  BY <1>4, <1>6, <1>7

LEMMA KidsAre ==
    ASSUME OpensFit(opens, interfaces), NEW c \in Controllers, NEW d
    PROVE  KidsOf(d, c) \in Seq(Controllers) /\ Range(KidsOf(d, c)) = KidsIn(opens, d, c)
<1>1. PICK rs : rs = {record \in OfChildren(c) : record.agent = d}
  OBVIOUS
<1>2. /\ rs \subseteq Range(opens[c])
      /\ \A r : r \in rs <=> r \in Range(opens[c]) /\ r.child # None /\ r.agent = d
  BY <1>1 DEF OfChildren, Managing
<1>3. PICK records : records = OpenList(c, rs)
  OBVIOUS
<1>4. records \in Seq(Records) /\ Range(records) = rs
  BY <1>2, <1>3, OpenListIs
<1>5. PICK v : v = [i \in DOMAIN records |-> records[i].child]
  OBVIOUS
<1>6. /\ v \in Seq(Controllers)
      /\ \A k : k \in Range(v) <=> \E record \in Range(records) : record.child = k
  BY <1>2, <1>4, <1>5, ChildrenAre
<1>7. KidsOf(d, c) = OnceEach(v)
  BY <1>1, <1>3, <1>5 DEF KidsOf
<1>8. KidsOf(d, c) \in Seq(Controllers) /\ Range(KidsOf(d, c)) = Range(v)
  BY <1>6, <1>7, OnceEachIs
<1>9. \A k : k \in Range(v) <=> k \in KidsIn(opens, d, c)
  <2>1. \A k : k \in Range(v) <=> \E record \in Range(opens[c]) : record.child # None /\ record.agent = d /\ record.child = k
    BY <1>2, <1>4, <1>6
  <2>2. \A record \in Range(opens[c]) : record.child # None => record.child \in Controllers
    BY RecordsIn
  <2>3. None \notin Controllers
    BY DriverAssumption
  <2> QED
    BY <2>1, <2>2, <2>3 DEF KidsIn
<1> QED
  BY <1>8, <1>9

-----------------------------------------------------------------------------
(* The calls: what each frame may hold, whatever the drivers have opened.  *)
ConnectFields ==
    {"call", "stage", "controller", "contexts", "recursive", "handles", "sorted", "at", "driver",
     "started", "kids"}
DisconnectFields ==
    {"call", "stage", "controller", "driver", "child", "drivers", "at", "kids", "stopped"}
StopFields == {"call", "stage", "driver", "controller", "kids", "whole"}
UninstallFields == {"call", "stage", "controller", "protocol"}
HostFields == {"call", "stage", "at"}

ConnectFits(f) ==
    /\ DOMAIN f = ConnectFields /\ f.stage \in {"handles", "sort", "start", "started", "children"}
    /\ f.controller \in Controllers /\ f.contexts \in Seq(Drivers) /\ f.handles \in Seq(Drivers)
    /\ f.sorted \in Seq(Drivers \cup {None}) /\ InOrder(f.sorted, f.controller, f.contexts)
    /\ f.at \in Nat \ {0} /\ (f.stage # "children" => f.at = 1) /\ f.kids \in Seq(Controllers)
    /\ f.stage = "started" => f.driver \in Drivers

DisconnectFits(f) ==
    /\ DOMAIN f = DisconnectFields /\ f.stage \in {"drivers", "driver", "stop_children", "stop"}
    /\ f.controller \in Controllers /\ f.driver \in Drivers \cup {None}
    /\ f.drivers \in Seq(Drivers) /\ (f.driver # None => Range(f.drivers) \subseteq {f.driver})
    /\ f.at \in Nat \ {0} /\ f.stopped \in Nat

StopFits(f) ==
    /\ DOMAIN f = StopFields /\ f.stage \in {"run", "uninstall"}
    /\ f.driver \in Drivers /\ f.controller \in Controllers
    /\ f.kids \in Seq(Controllers) /\ f.whole \in BOOLEAN
    /\ ~f.whole => f.kids # <<>> /\ Children[f.driver] # <<>>

UninstallFits(f) ==
    /\ DOMAIN f = UninstallFields /\ f.stage \in {"loop", "denied"}
    /\ f.controller \in Controllers /\ f.protocol \in Protocols

HostFits(f) ==
    /\ DOMAIN f = HostFields /\ f.stage \in {"entry", "connected", "disconnected"}
    /\ f.at \in Nat \ {0}

FrameFits(f) ==
    \/ f.call = "connect" /\ ConnectFits(f)
    \/ f.call = "disconnect" /\ DisconnectFits(f)
    \/ f.call = "stop" /\ StopFits(f)
    \/ f.call = "uninstall" /\ UninstallFits(f)
    \/ f.call \in {"dispatch", "host_disconnect", "reconnect"} /\ HostFits(f)

(* The Stop of a driver relies on what is open.                            *)
StopReady(f, os) ==
    /\ f.stage = "run" \/ ~f.whole => ManagesIn(os, f.driver, f.controller)
    /\ f.stage = "run" /\ f.whole => KidsIn(os, f.driver, f.controller) = {}

(* Layers rise from the Stop of a driver to what it calls, which is never  *)
(* the harness.                                                            *)
Layer == CHOOSE layer : layer \in [Protocols -> Nat] /\ Stacks(layer)

Over(f, g) ==
    /\ g.call \notin {"dispatch", "host_disconnect", "reconnect"}
    /\ g.call = "stop" => Layer[Consumes[f.driver]] < Layer[Consumes[g.driver]]
    /\ g.call = "uninstall" => Layer[Consumes[f.driver]] < Layer[g.protocol]
    /\ g.call = "disconnect" => g.driver # None /\ Layer[Consumes[f.driver]] < Layer[Consumes[g.driver]]

Rises(fs) == \A i, j \in 1 .. Len(fs) : i < j /\ fs[i].call = "stop" => Over(fs[i], fs[j])

(* CoreDisconnectController waits for the Stop of the children, all of     *)
(* them if it goes on to stop the driver.                                  *)
Waits(f) == f.call = "disconnect" /\ f.stage = "stop_children"

Linked(f, g, os) ==
    /\ g.call = "stop" /\ ~g.whole /\ g.controller = f.controller
    /\ f.at \in DOMAIN f.drivers /\ g.driver = f.drivers[f.at]
    /\ AllStopped(f) => KidsIn(os, g.driver, g.controller) \subseteq Range(g.kids)

Finished(f, status, os) ==
    /\ f.at \in DOMAIN f.drivers /\ ManagesIn(os, f.drivers[f.at], f.controller)
    /\ status = "EFI_SUCCESS" /\ AllStopped(f) => KidsIn(os, f.drivers[f.at], f.controller) = {}

(* A driver is started when it has been asked.                             *)
Asking(f) == f.call = "connect" /\ f.stage = "started"

Stacked(fs, os, is, status) ==
    /\ \E S : fs \in Seq(S)
    /\ \A i \in 1 .. Len(fs) : FrameFits(fs[i])
    /\ \A i \in 1 .. Len(fs) : fs[i].call = "stop" => StopReady(fs[i], os)
    /\ Rises(fs)
    /\ \A i \in 1 .. Len(fs) : Waits(fs[i]) =>
          IF i = Len(fs) THEN Finished(fs[i], status, os) ELSE Linked(fs[i], fs[i + 1], os)
    /\ \A i \in 1 .. Len(fs) : Asking(fs[i]) =>
          i = Len(fs) /\ SupportedIn(os, is, fs[i].driver, fs[i].controller)

DriverInv ==
    /\ installed \in Seq(Drivers) /\ OpensFit(opens, interfaces)
    /\ Stacked(frames, opens, interfaces, result)

-----------------------------------------------------------------------------
(***************************************************************************)
(* What a step does to the stack.  The frames below the one on top stay;   *)
(* `top` is the one on top before, `f` and `g` what takes its place.       *)
(***************************************************************************)
Keeps(os, ot, d, c) ==
    ManagesIn(os, d, c) => ManagesIn(ot, d, c) /\ KidsIn(ot, d, c) = KidsIn(os, d, c)

Gentle(fs, os, ot) ==
    \A i \in 1 .. Len(fs) - 1 : fs[i].call = "stop" => Keeps(os, ot, fs[i].driver, fs[i].controller)

(* What is awaited from the frame on top can be awaited from f as well.    *)
Follows(top, f, os, ot) ==
    /\ \A e : Over(e, top) => Over(e, f)
    /\ \A e : Waits(e) /\ Linked(e, top, os) => Linked(e, f, ot)

LEMMA GentleSame ==
    ASSUME NEW fs, NEW os
    PROVE  Gentle(fs, os, os)
BY DEF Gentle, Keeps

LEMMA LowerFrames ==
    ASSUME NEW S, NEW fs \in Seq(S), fs # <<>>, NEW os, NEW is, NEW status, Stacked(fs, os, is, status),
           NEW ot, Gentle(fs, os, ot)
    PROVE  \A i \in 1 .. Len(fs) - 1 :
              /\ FrameFits(fs[i]) /\ (fs[i].call = "stop" => StopReady(fs[i], ot))
              /\ ~Asking(fs[i])
              /\ Waits(fs[i]) /\ i # Len(fs) - 1 => Linked(fs[i], fs[i + 1], ot)
<1>1. Len(fs) \in Nat
  BY LenProperties
<1> SUFFICES ASSUME NEW i \in 1 .. Len(fs) - 1
             PROVE  /\ FrameFits(fs[i]) /\ (fs[i].call = "stop" => StopReady(fs[i], ot))
                    /\ ~Asking(fs[i])
                    /\ Waits(fs[i]) /\ i # Len(fs) - 1 => Linked(fs[i], fs[i + 1], ot)
  OBVIOUS
<1>2. i \in 1 .. Len(fs) /\ i # Len(fs)
  BY <1>1
<1>3. FrameFits(fs[i]) /\ ~Asking(fs[i])
  BY <1>2 DEF Stacked
<1>4. ASSUME fs[i].call = "stop" PROVE StopReady(fs[i], ot)
  <2>1. StopReady(fs[i], os)
    BY <1>2, <1>4 DEF Stacked
  <2>2. Keeps(os, ot, fs[i].driver, fs[i].controller)
    BY <1>4 DEF Gentle
  <2> QED
    BY <2>1, <2>2 DEF StopReady, Keeps
<1>5. ASSUME Waits(fs[i]), i # Len(fs) - 1 PROVE Linked(fs[i], fs[i + 1], ot)
  <2>1. Linked(fs[i], fs[i + 1], os)
    BY <1>2, <1>5 DEF Stacked
  <2>2. i + 1 \in 1 .. Len(fs) - 1 /\ i + 1 \in 1 .. Len(fs)
    BY <1>1, <1>5
  <2>3. PICK g : g = fs[i + 1]
    OBVIOUS
  <2>4. g.call = "stop" /\ ~g.whole
    BY <2>1, <2>3 DEF Linked
  <2>5. StopReady(g, os)
    BY <2>2, <2>3, <2>4 DEF Stacked
  <2>6. Keeps(os, ot, g.driver, g.controller)
    BY <2>2, <2>3, <2>4 DEF Gentle
  <2>7. KidsIn(ot, g.driver, g.controller) = KidsIn(os, g.driver, g.controller)
    BY <2>4, <2>5, <2>6 DEF StopReady, Keeps
  <2>8. Linked(fs[i], g, ot)
    BY <2>1, <2>3, <2>7 DEF Linked
  <2> QED
    BY <2>3, <2>8
<1> QED
  BY <1>3, <1>4, <1>5

(* Become.                                                                 *)
Becomes(fs, f, gs) ==
    /\ Len(fs) \in Nat \ {0} /\ Last(fs) = fs[Len(fs)] /\ \E T : gs \in Seq(T)
    /\ Len(gs) = Len(fs) /\ gs[Len(fs)] = f
    /\ \A i \in 1 .. Len(fs) - 1 : gs[i] = fs[i]

LEMMA BecomeIs ==
    ASSUME NEW S, NEW fs \in Seq(S), fs # <<>>, NEW f, NEW gs, gs = Append(Front(fs), f)
    PROVE  Becomes(fs, f, gs)
<1>1. Len(fs) \in Nat \ {0} /\ Last(fs) = fs[Len(fs)]
  BY LenProperties, EmptySeq DEF Last
<1>2. PICK b : b = Front(fs)
  OBVIOUS
<1>3. /\ b \in Seq(S) /\ Len(b) = Len(fs) - 1
      /\ \A i \in 1 .. Len(fs) - 1 : b[i] = fs[i]
  BY <1>2, FrontIs
<1>4. PICK T : T = S \cup {f}
  OBVIOUS
<1>5. b \in Seq(T) /\ f \in T
  BY <1>3, <1>4
<1>6. /\ gs \in Seq(T) /\ Len(gs) = Len(b) + 1 /\ gs[Len(b) + 1] = f
      /\ \A i \in 1 .. Len(b) : gs[i] = b[i]
  BY <1>2, <1>5, AppendProperties
<1> QED
  BY <1>1, <1>3, <1>6 DEF Becomes

LEMMA BecomeKeeps ==
    ASSUME NEW fs, NEW os, NEW is, NEW status, Stacked(fs, os, is, status), fs # <<>>,
           NEW ot, NEW it, NEW st, Gentle(fs, os, ot),
           NEW f, NEW gs, gs = Append(Front(fs), f), NEW top, top = Last(fs),
           FrameFits(f), f.call = "stop" => StopReady(f, ot), Follows(top, f, os, ot),
           Waits(f) => Finished(f, st, ot),
           Asking(f) => SupportedIn(ot, it, f.driver, f.controller)
    PROVE  Stacked(gs, ot, it, st)
<1>1. PICK S : fs \in Seq(S)
  BY DEF Stacked
<1>2. /\ Len(fs) \in Nat \ {0} /\ top = fs[Len(fs)] /\ \E T : gs \in Seq(T)
      /\ Len(gs) = Len(fs) /\ gs[Len(fs)] = f
      /\ \A i \in 1 .. Len(fs) - 1 : gs[i] = fs[i]
  <2>1. gs = Append(Front(fs), f) /\ fs # <<>> /\ top = Last(fs)
    OBVIOUS
  <2>2. Becomes(fs, f, gs)
    BY ONLY <1>1, <2>1, BecomeIs
  <2> QED
    BY ONLY <2>1, <2>2 DEF Becomes
<1>3. \A i \in 1 .. Len(fs) - 1 :
         /\ FrameFits(fs[i]) /\ (fs[i].call = "stop" => StopReady(fs[i], ot))
         /\ ~Asking(fs[i])
         /\ Waits(fs[i]) /\ i # Len(fs) - 1 => Linked(fs[i], fs[i + 1], ot)
  BY <1>1, LowerFrames
<1>4. \A i \in 1 .. Len(gs) : i \in 1 .. Len(fs) - 1 \/ i = Len(fs)
  BY <1>2
<1>5. \A i \in 1 .. Len(gs) : FrameFits(gs[i])
  BY <1>2, <1>3, <1>4
<1>6. \A i \in 1 .. Len(gs) : gs[i].call = "stop" => StopReady(gs[i], ot)
  BY <1>2, <1>3, <1>4
<1>7. Rises(gs)
  <2> SUFFICES ASSUME NEW i \in 1 .. Len(gs), NEW j \in 1 .. Len(gs), i < j, gs[i].call = "stop"
               PROVE  Over(gs[i], gs[j])
    BY DEF Rises
  <2>1. i \in 1 .. Len(fs) - 1 /\ i \in 1 .. Len(fs) /\ j \in 1 .. Len(fs) /\ gs[i] = fs[i]
    BY <1>2
  <2>2. Over(fs[i], fs[j])
    BY <2>1 DEF Stacked, Rises
  <2>3. CASE j \in 1 .. Len(fs) - 1
    BY <1>2, <2>1, <2>2, <2>3
  <2>4. CASE j = Len(fs)
    BY <1>2, <2>1, <2>2, <2>4 DEF Follows
  <2> QED
    BY <1>4, <2>3, <2>4
<1>8. ASSUME NEW i \in 1 .. Len(gs), Waits(gs[i])
      PROVE  IF i = Len(gs) THEN Finished(gs[i], st, ot) ELSE Linked(gs[i], gs[i + 1], ot)
  <2>1. CASE i = Len(fs)
    BY <1>2, <1>8, <2>1
  <2>2. CASE i \in 1 .. Len(fs) - 2
    <3>1. i \in 1 .. Len(fs) - 1 /\ i + 1 \in 1 .. Len(fs) - 1 /\ i # Len(fs) - 1
      BY <1>2, <2>2
    <3> QED
      BY <1>2, <1>3, <1>8, <3>1
  <2>3. CASE i = Len(fs) - 1
    <3>1. i \in 1 .. Len(fs) - 1 /\ i \in 1 .. Len(fs) /\ i # Len(fs) /\ i + 1 = Len(fs)
      BY <1>2, <2>3
    <3>2. Linked(fs[i], top, os)
      BY <1>2, <1>8, <3>1 DEF Stacked
    <3> QED
      BY <1>2, <1>8, <3>1, <3>2 DEF Follows
  <2> QED
    BY <1>2, <2>1, <2>2, <2>3
<1>9. \A i \in 1 .. Len(gs) : Asking(gs[i]) =>
         i = Len(gs) /\ SupportedIn(ot, it, gs[i].driver, gs[i].controller)
  BY <1>2, <1>3, <1>4
<1> QED
  BY <1>2, <1>5, <1>6, <1>7, <1>8, <1>9 DEF Stacked

(* Push.                                                                   *)
Pushes(fs, f, g, gs) ==
    /\ Len(fs) \in Nat \ {0} /\ Last(fs) = fs[Len(fs)] /\ \E T : gs \in Seq(T)
    /\ Len(gs) = Len(fs) + 1 /\ gs[Len(fs)] = f /\ gs[Len(fs) + 1] = g
    /\ \A i \in 1 .. Len(fs) - 1 : gs[i] = fs[i]

LEMMA PushIs ==
    ASSUME NEW S, NEW fs \in Seq(S), fs # <<>>, NEW f, NEW g, NEW gs, gs = Front(fs) \o <<f, g>>
    PROVE  Pushes(fs, f, g, gs)
<1>1. Len(fs) \in Nat \ {0} /\ Last(fs) = fs[Len(fs)]
  BY LenProperties, EmptySeq DEF Last
<1>2. PICK b : b = Front(fs)
  OBVIOUS
<1>3. /\ b \in Seq(S) /\ Len(b) = Len(fs) - 1
      /\ \A i \in 1 .. Len(fs) - 1 : b[i] = fs[i]
  BY <1>2, FrontIs
<1>4. PICK T : T = S \cup {f, g}
  OBVIOUS
<1>5. PICK p : p = <<f, g>>
  OBVIOUS
<1>6. b \in Seq(T) /\ p \in Seq(T) /\ Len(p) = 2 /\ p[1] = f /\ p[2] = g
  BY <1>3, <1>4, <1>5
<1>7. /\ gs \in Seq(T) /\ Len(gs) = Len(b) + 2
      /\ \A i \in 1 .. Len(b) + 2 : gs[i] = IF i <= Len(b) THEN b[i] ELSE p[i - Len(b)]
  BY <1>2, <1>5, <1>6, ConcatProperties
<1>8. Len(b) \in Nat /\ (Len(b) + 1) - Len(b) = 1 /\ (Len(b) + 2) - Len(b) = 2
      /\ Len(b) + 1 = Len(fs) /\ Len(b) + 2 = Len(fs) + 1
  BY <1>1, <1>3
<1>9. gs[Len(b) + 1] = f /\ gs[Len(b) + 2] = g
  <2>1. PICK x, y : x = Len(b) + 1 /\ y = Len(b) + 2
    OBVIOUS
  <2>2. /\ x \in 1 .. Len(b) + 2 /\ y \in 1 .. Len(b) + 2 /\ ~(x <= Len(b)) /\ ~(y <= Len(b))
        /\ x - Len(b) = 1 /\ y - Len(b) = 2
    BY <1>8, <2>1
  <2>3. gs[x] = p[1] /\ gs[y] = p[2]
    BY ONLY <1>7, <2>2
  <2> QED
    BY <1>6, <2>1, <2>3
<1>10. \A i \in 1 .. Len(fs) - 1 : gs[i] = b[i]
  BY <1>1, <1>3, <1>7
<1> QED
  BY <1>1, <1>3, <1>7, <1>8, <1>9, <1>10 DEF Pushes

LEMMA PushKeeps ==
    ASSUME NEW fs, NEW os, NEW is, NEW status, Stacked(fs, os, is, status), fs # <<>>,
           NEW it, NEW st,
           NEW f, NEW g, NEW gs, gs = Front(fs) \o <<f, g>>, NEW top, top = Last(fs),
           FrameFits(f), FrameFits(g), Follows(top, f, os, os), ~Asking(f), ~Asking(g), ~Waits(g),
           f.call = "stop" => StopReady(f, os) /\ Over(f, g),
           g.call = "stop" => StopReady(g, os),
           \A e : FrameFits(e) /\ e.call = "stop" /\ Over(e, top) => Over(e, g),
           Waits(f) => Linked(f, g, os)
    PROVE  Stacked(gs, os, it, st)
<1>1. PICK S : fs \in Seq(S)
  BY DEF Stacked
<1>2. /\ Len(fs) \in Nat \ {0} /\ top = fs[Len(fs)] /\ \E T : gs \in Seq(T)
      /\ Len(gs) = Len(fs) + 1 /\ gs[Len(fs)] = f /\ gs[Len(fs) + 1] = g
      /\ \A i \in 1 .. Len(fs) - 1 : gs[i] = fs[i]
  <2>1. gs = Front(fs) \o <<f, g>> /\ fs # <<>> /\ top = Last(fs)
    OBVIOUS
  <2>2. Pushes(fs, f, g, gs)
    BY ONLY <1>1, <2>1, PushIs
  <2> QED
    BY ONLY <2>1, <2>2 DEF Pushes
<1>3. \A i \in 1 .. Len(fs) - 1 :
         /\ FrameFits(fs[i]) /\ (fs[i].call = "stop" => StopReady(fs[i], os))
         /\ ~Asking(fs[i])
         /\ Waits(fs[i]) /\ i # Len(fs) - 1 => Linked(fs[i], fs[i + 1], os)
  BY <1>1, GentleSame, LowerFrames
<1>4. \A i \in 1 .. Len(gs) : i \in 1 .. Len(fs) - 1 \/ i = Len(fs) \/ i = Len(fs) + 1
  BY <1>2
<1>5. \A i \in 1 .. Len(gs) : FrameFits(gs[i])
  BY <1>2, <1>3, <1>4
<1>6. \A i \in 1 .. Len(gs) : gs[i].call = "stop" => StopReady(gs[i], os)
  BY <1>2, <1>3, <1>4
<1>7. Rises(gs)
  <2> SUFFICES ASSUME NEW i \in 1 .. Len(gs), NEW j \in 1 .. Len(gs), i < j, gs[i].call = "stop"
               PROVE  Over(gs[i], gs[j])
    BY DEF Rises
  <2>1. CASE i = Len(fs)
    <3>1. j = Len(fs) + 1
      BY <1>2, <2>1
    <3> QED
      BY <1>2, <2>1, <3>1
  <2>2. CASE i \in 1 .. Len(fs) - 1
    <3>1. i \in 1 .. Len(fs) /\ gs[i] = fs[i] /\ fs[i].call = "stop" /\ Len(fs) \in 1 .. Len(fs) /\ i < Len(fs)
      BY <1>2, <2>2
    <3>2. Over(fs[i], top)
      BY <1>2, <3>1 DEF Stacked, Rises
    <3>3. CASE j \in 1 .. Len(fs) - 1
      <4>1. j \in 1 .. Len(fs) /\ gs[j] = fs[j]
        BY <1>2, <3>3
      <4>2. Over(fs[i], fs[j])
        BY <3>1, <4>1 DEF Stacked, Rises
      <4> QED
        BY <3>1, <4>1, <4>2
    <3>4. CASE j = Len(fs)
      BY <1>2, <3>1, <3>2, <3>4 DEF Follows
    <3>5. CASE j = Len(fs) + 1
      BY <1>2, <1>3, <3>1, <3>2, <3>5
    <3> QED
      BY <1>4, <3>3, <3>4, <3>5
  <2> QED
    BY <1>2, <2>1, <2>2
<1>8. ASSUME NEW i \in 1 .. Len(gs), Waits(gs[i])
      PROVE  IF i = Len(gs) THEN Finished(gs[i], st, os) ELSE Linked(gs[i], gs[i + 1], os)
  <2>1. CASE i = Len(fs) + 1
    BY <1>2, <1>8, <2>1
  <2>2. CASE i = Len(fs)
    <3>1. i # Len(gs)
      BY <1>2, <2>2
    <3>2. gs[i] = f /\ gs[i + 1] = g
      BY <1>2, <2>2
    <3> QED
      BY <1>8, <3>1, <3>2
  <2>3. CASE i \in 1 .. Len(fs) - 2
    <3>1. i \in 1 .. Len(fs) - 1 /\ i + 1 \in 1 .. Len(fs) - 1 /\ i # Len(fs) - 1 /\ i # Len(gs)
      BY <1>2, <2>3
    <3> QED
      BY <1>2, <1>3, <1>8, <3>1
  <2>4. CASE i = Len(fs) - 1
    <3>1. i \in 1 .. Len(fs) - 1 /\ i \in 1 .. Len(fs) /\ i # Len(fs) /\ i + 1 = Len(fs) /\ i # Len(gs)
      BY <1>2, <2>4
    <3>2. Linked(fs[i], top, os)
      BY <1>2, <1>8, <3>1 DEF Stacked
    <3> QED
      BY <1>2, <1>8, <3>1, <3>2 DEF Follows
  <2> QED
    BY <1>2, <2>1, <2>2, <2>3, <2>4
<1>9. \A i \in 1 .. Len(gs) : Asking(gs[i]) =>
         i = Len(gs) /\ SupportedIn(os, it, gs[i].driver, gs[i].controller)
  BY <1>2, <1>3, <1>4
<1> QED
  BY <1>2, <1>5, <1>6, <1>7, <1>8, <1>9 DEF Stacked

(* Return.                                                                 *)
LEMMA ReturnKeeps ==
    ASSUME NEW fs, NEW os, NEW is, NEW status, Stacked(fs, os, is, status), fs # <<>>,
           NEW ot, NEW it, NEW st, Gentle(fs, os, ot), NEW gs, gs = Front(fs), NEW top, top = Last(fs),
           \A e : Waits(e) /\ Linked(e, top, os) => Finished(e, st, ot)
    PROVE  Stacked(gs, ot, it, st)
<1>1. PICK S : fs \in Seq(S)
  BY DEF Stacked
<1>2. Len(fs) \in Nat \ {0} /\ top = fs[Len(fs)]
  BY <1>1, LenProperties, EmptySeq DEF Last
<1>3. /\ gs \in Seq(S) /\ Len(gs) = Len(fs) - 1
      /\ \A i \in 1 .. Len(fs) - 1 : gs[i] = fs[i]
  BY <1>1, FrontIs
<1>4. \A i \in 1 .. Len(gs) :
         /\ FrameFits(gs[i]) /\ (gs[i].call = "stop" => StopReady(gs[i], ot))
         /\ ~Asking(gs[i])
  <2>1. \A i \in 1 .. Len(fs) - 1 :
           FrameFits(fs[i]) /\ (fs[i].call = "stop" => StopReady(fs[i], ot)) /\ ~Asking(fs[i])
    BY <1>1, LowerFrames
  <2> QED
    BY <1>3, <2>1
<1>5. Rises(gs)
  <2>1. \A i \in 1 .. Len(gs) : i \in 1 .. Len(fs) /\ gs[i] = fs[i]
    BY <1>2, <1>3
  <2>2. Rises(fs)
    BY DEF Stacked
  <2> QED
    BY <2>1, <2>2 DEF Rises
<1>6. ASSUME NEW i \in 1 .. Len(gs), Waits(gs[i])
      PROVE  IF i = Len(gs) THEN Finished(gs[i], st, ot) ELSE Linked(gs[i], gs[i + 1], ot)
  <2>1. CASE i # Len(gs)
    <3>1. i \in 1 .. Len(fs) - 1 /\ i + 1 \in 1 .. Len(fs) - 1 /\ i # Len(fs) - 1
      BY <1>2, <1>3, <2>1
    <3>2. Waits(fs[i]) /\ i # Len(fs) - 1 => Linked(fs[i], fs[i + 1], ot)
      BY <1>1, <3>1, LowerFrames
    <3> QED
      BY <1>3, <1>6, <2>1, <3>1, <3>2
  <2>2. CASE i = Len(gs)
    <3>1. i \in 1 .. Len(fs) /\ i # Len(fs) /\ i + 1 = Len(fs) /\ gs[i] = fs[i]
      BY <1>2, <1>3, <2>2
    <3>2. Linked(fs[i], top, os)
      BY <1>2, <1>6, <3>1 DEF Stacked
    <3> QED
      BY <1>6, <2>2, <3>1, <3>2
  <2> QED
    BY <2>1, <2>2
<1> QED
  BY <1>3, <1>4, <1>5, <1>6 DEF Stacked

-----------------------------------------------------------------------------
(* The calls when they are made.                                           *)
LEMMA ConnectIs ==
    ASSUME NEW c \in Controllers, NEW contexts \in Seq(Drivers), NEW recursive,
           NEW f, f = Connect(c, contexts, recursive)
    PROVE  f.call = "connect" /\ f.stage = "handles" /\ FrameFits(f) /\ ~Asking(f) /\ ~Waits(f)
<1>1. /\ f.call = "connect" /\ f.stage = "handles" /\ DOMAIN f = ConnectFields
      /\ f.controller = c /\ f.contexts = contexts /\ f.handles = <<>> /\ f.sorted = <<>>
      /\ f.at = 1 /\ f.kids = <<>>
  BY DEF Connect, ConnectFields
<1>2. InOrder(<<>>, c, contexts)
  BY DEF InOrder
<1>3. ConnectFits(f)
  BY <1>1, <1>2 DEF ConnectFits
<1> QED
  BY <1>1, <1>3 DEF FrameFits, Asking, Waits

LEMMA DisconnectIs ==
    ASSUME NEW c \in Controllers, NEW driver \in Drivers \cup {None}, NEW child,
           NEW f, f = Disconnect(c, driver, child)
    PROVE  f.call = "disconnect" /\ f.driver = driver /\ FrameFits(f) /\ ~Asking(f) /\ ~Waits(f)
<1>1. /\ f.call = "disconnect" /\ f.stage = "drivers" /\ DOMAIN f = DisconnectFields
      /\ f.controller = c /\ f.driver = driver /\ f.drivers = <<>> /\ f.at = 1 /\ f.stopped = 0
  BY DEF Disconnect, DisconnectFields
<1>2. Range(<<>>) = {}
  BY DEF Range
<1>3. DisconnectFits(f)
  BY <1>1, <1>2 DEF DisconnectFits
<1> QED
  BY <1>1, <1>3 DEF FrameFits, Asking, Waits

LEMMA StopIs ==
    ASSUME NEW d \in Drivers, NEW c \in Controllers, NEW kids \in Seq(Controllers),
           kids # <<>> => Children[d] # <<>>, NEW f, f = Stop(d, c, kids)
    PROVE  /\ f.call = "stop" /\ f.stage = "run" /\ f.driver = d /\ f.controller = c /\ f.kids = kids
           /\ f.whole = (kids = <<>>) /\ FrameFits(f) /\ ~Asking(f) /\ ~Waits(f)
<1>1. /\ f.call = "stop" /\ f.stage = "run" /\ f.driver = d /\ f.controller = c /\ f.kids = kids
      /\ f.whole = (kids = <<>>) /\ DOMAIN f = StopFields
  BY DEF Stop, StopFields
<1>2. StopFits(f)
  BY <1>1 DEF StopFits
<1> QED
  BY <1>1, <1>2 DEF FrameFits, Asking, Waits

LEMMA UninstallIs ==
    ASSUME NEW c \in Controllers, NEW protocol \in Protocols, NEW f, f = Uninstall(c, protocol)
    PROVE  f.call = "uninstall" /\ f.protocol = protocol /\ FrameFits(f) /\ ~Asking(f) /\ ~Waits(f)
<1>1. /\ f.call = "uninstall" /\ f.stage = "loop" /\ f.controller = c /\ f.protocol = protocol
      /\ DOMAIN f = UninstallFields
  BY DEF Uninstall, UninstallFields
<1>2. UninstallFits(f)
  BY <1>1 DEF UninstallFits
<1> QED
  BY <1>1, <1>2 DEF FrameFits, Asking, Waits

LEMMA HostIs ==
    ASSUME NEW call \in {"dispatch", "host_disconnect", "reconnect"}, NEW f, f = Host(call)
    PROVE  f.call = call /\ FrameFits(f) /\ ~Asking(f) /\ ~Waits(f)
<1>1. f.call = call /\ f.stage = "entry" /\ f.at = 1 /\ DOMAIN f = HostFields
  BY DEF Host, HostFields
<1>2. HostFits(f)
  <2>1. f.stage = "entry" /\ f.at = 1 /\ DOMAIN f = HostFields
    BY <1>1
  <2> QED
    BY ONLY <2>1 DEF HostFits
<1>3. FrameFits(f)
  <2>1. f.call \in {"dispatch", "host_disconnect", "reconnect"}
    BY <1>1
  <2> QED
    BY ONLY <1>2, <2>1 DEF FrameFits
<1>4. call # "connect" /\ call # "disconnect"
  OBVIOUS
<1> QED
  BY <1>1, <1>3, <1>4 DEF Asking, Waits

LEMMA Layered == Layer \in [Protocols -> Nat] /\ Stacks(Layer)
<1>1. PICK layer \in [Protocols -> 0 .. Cardinality(Protocols)] : Stacks(layer)
  BY StackAssumption
<1>2. 0 .. Cardinality(Protocols) \subseteq Nat
  <2>1. Cardinality(Protocols) \in Nat
    BY DriverAssumption, FS_CardinalityType
  <2> QED
    BY <2>1
<1>3. layer \in [Protocols -> Nat]
  BY <1>1, <1>2
<1>4. \E l : l \in [Protocols -> Nat] /\ Stacks(l)
  BY <1>1, <1>3
<1> QED
  BY ONLY <1>4, Zenon DEF Layer

-----------------------------------------------------------------------------
(***************************************************************************)
(* Steps that leave what is open alone, of a call that is not a Stop.      *)
(***************************************************************************)
LEMMA TopIs ==
    ASSUME DriverInv, frames # <<>>, NEW top, top = Top
    PROVE  /\ FrameFits(top) /\ (top.call = "stop" => StopReady(top, opens))
           /\ Waits(top) => Finished(top, result, opens)
           /\ Asking(top) => SupportedIn(opens, interfaces, top.driver, top.controller)
<1>1. Stacked(frames, opens, interfaces, result)
  BY DEF DriverInv
<1>2. PICK S : frames \in Seq(S)
  BY <1>1 DEF Stacked
<1>3. PICK n : n = Len(frames)
  OBVIOUS
<1>4. n \in 1 .. Len(frames) /\ top = frames[n]
  BY <1>2, <1>3, LenProperties, EmptySeq DEF Top, Last
<1> QED
  BY <1>1, <1>3, <1>4 DEF Stacked

(* A frame for the same call, driver and protocol.                         *)
Same(top, f) ==
    /\ f.call = top.call /\ f.call # "stop"
    /\ f.call = "disconnect" => f.driver = top.driver
    /\ f.call = "uninstall" => f.protocol = top.protocol

LEMMA FollowsSame ==
    ASSUME NEW top, NEW f, Same(top, f), NEW os, NEW ot
    PROVE  Follows(top, f, os, ot)
BY DEF Same, Follows, Over, Linked

LEMMA Becoming ==
    ASSUME DriverInv, frames # <<>>, NEW f, Become(f), Same(Top, f), FrameFits(f), ~Waits(f),
           Asking(f) => SupportedIn(opens, interfaces, f.driver, f.controller),
           installed' \in Seq(Drivers), UNCHANGED <<opens, interfaces>>
    PROVE  DriverInv'
<1>1. PICK top : top = Last(frames)
  OBVIOUS
<1>2. Stacked(frames, opens, interfaces, result) /\ OpensFit(opens, interfaces)
  BY DEF DriverInv
<1>3. Follows(top, f, opens, opens) /\ f.call # "stop"
  BY <1>1, FollowsSame DEF Top, Same
<1>4. Gentle(frames, opens, opens)
  BY GentleSame
<1>5. PICK gs, st : gs = Append(Front(frames), f) /\ st = result'
  OBVIOUS
<1>6. Stacked(gs, opens, interfaces, st)
  BY <1>1, <1>2, <1>3, <1>4, <1>5, BecomeKeeps
<1>7. gs = frames' /\ opens' = opens /\ interfaces' = interfaces
  BY <1>5 DEF Become
<1> QED
  BY <1>2, <1>5, <1>6, <1>7 DEF DriverInv

LEMMA Pushing ==
    ASSUME DriverInv, frames # <<>>, NEW f, NEW g, Push(f, g), Same(Top, f), FrameFits(f), FrameFits(g),
           ~Asking(f), ~Asking(g), ~Waits(g), Waits(f) => Linked(f, g, opens),
           g.call = "stop" => StopReady(g, opens),
           \A e : FrameFits(e) /\ e.call = "stop" /\ Over(e, Top) => Over(e, g),
           UNCHANGED <<installed, opens, interfaces>>
    PROVE  DriverInv'
<1>1. PICK top : top = Last(frames)
  OBVIOUS
<1>2. Stacked(frames, opens, interfaces, result) /\ OpensFit(opens, interfaces) /\ installed \in Seq(Drivers)
  BY DEF DriverInv
<1>3. Follows(top, f, opens, opens) /\ f.call # "stop"
  BY <1>1, FollowsSame DEF Top, Same
<1>4. \A e : FrameFits(e) /\ e.call = "stop" /\ Over(e, top) => Over(e, g)
  BY <1>1 DEF Top
<1>5. PICK gs, st : gs = Front(frames) \o <<f, g>> /\ st = result'
  OBVIOUS
<1>6. Stacked(gs, opens, interfaces, st)
  BY <1>1, <1>2, <1>3, <1>4, <1>5, PushKeeps
<1>7. gs = frames' /\ opens' = opens /\ interfaces' = interfaces /\ installed' = installed
  BY <1>5 DEF Push
<1> QED
  BY <1>2, <1>5, <1>6, <1>7 DEF DriverInv

LEMMA Returning ==
    ASSUME DriverInv, frames # <<>>, frames' = Front(frames), Top.call # "stop",
           OpensFit(opens, interfaces'), UNCHANGED <<installed, opens>>
    PROVE  DriverInv'
<1>1. PICK top : top = Last(frames)
  OBVIOUS
<1>2. Stacked(frames, opens, interfaces, result) /\ installed \in Seq(Drivers)
  BY DEF DriverInv
<1>3. Gentle(frames, opens, opens)
  BY GentleSame
<1>4. PICK gs, st, it : gs = Front(frames) /\ st = result' /\ it = interfaces'
  OBVIOUS
<1>5. \A e : Waits(e) /\ Linked(e, top, opens) => Finished(e, st, opens)
  BY <1>1 DEF Top, Linked
<1>6. Stacked(gs, opens, it, st)
  BY <1>1, <1>2, <1>3, <1>4, <1>5, ReturnKeeps
<1>7. gs = frames' /\ opens' = opens /\ installed' = installed
  BY <1>4
<1> QED
  BY <1>2, <1>4, <1>6, <1>7 DEF DriverInv

-----------------------------------------------------------------------------
(* What a driver opens and installs when it is started.                    *)
LEMMA StartedOpens ==
    ASSUME OpensFit(opens, interfaces), NEW c \in Controllers, NEW d \in Drivers,
           SupportedIn(opens, interfaces, d, c), Started(d, c)
    PROVE  /\ OpensFit(opens', interfaces')
           /\ \A e, k : k \in Controllers => Keeps(opens, opens', e, k)
<1>1. PICK own : own = [protocol |-> Consumes[d], agent |-> d, child |-> None]
  OBVIOUS
<1>2. PICK kids : kids = [i \in DOMAIN Children[d] |-> [own EXCEPT !.child = Children[d][i]]]
  OBVIOUS
<1>3. PICK w : w = opens[c] \o <<own>> \o kids
  OBVIOUS
<1>4. opens' = [opens EXCEPT ![c] = w]
  BY <1>1, <1>2, <1>3 DEF Started
<1>5. /\ Children[d] \in Seq(Controllers) /\ Len(Children[d]) \in Nat
      /\ DOMAIN Children[d] = 1 .. Len(Children[d])
      /\ \A i \in 1 .. Len(Children[d]) : Children[d][i] \in Controllers
  BY DriverAssumption, LenProperties
<1>6. own \in Records /\ own.protocol = Consumes[d] /\ own.agent = d /\ own.child = None
  BY <1>1, DriverAssumption DEF Records
<1>7. \A i \in 1 .. Len(Children[d]) :
         /\ kids[i] \in Records /\ kids[i].protocol = Consumes[d] /\ kids[i].agent = d
         /\ kids[i].child = Children[d][i]
  <2> TAKE i \in 1 .. Len(Children[d])
  <2>1. kids[i] = [protocol |-> Consumes[d], agent |-> d, child |-> Children[d][i]]
    BY <1>1, <1>2, <1>5
  <2> QED
    BY <1>5, <2>1, DriverAssumption DEF Records
<1>8. kids \in Seq(Records) /\ Len(kids) = Len(Children[d])
  <2>1. PICK n : n = Len(Children[d])
    OBVIOUS
  <2>2. n \in Nat /\ kids = [i \in 1 .. n |-> kids[i]] /\ \A i \in 1 .. n : kids[i] \in Records
    BY <1>2, <1>5, <1>7, <2>1
  <2>3. kids \in Seq(Records) /\ Len(kids) = n
    BY ONLY <2>2
  <2> QED
    BY <2>1, <2>3
<1>9. w \in Seq(Records) /\ Range(w) = Range(opens[c]) \cup {own} \cup Range(kids)
  <2>1. opens[c] \in Seq(Records)
    BY DEF OpensFit
  <2>2. PICK s : s = opens[c] \o <<own>>
    OBVIOUS
  <2>3. s \in Seq(Records) /\ Range(s) = Range(opens[c]) \cup {own}
    <3>1. <<own>> \in Seq(Records) /\ Range(<<own>>) = {own}
      BY <1>6, OneElement
    <3>2. PICK a, u : a = opens[c] /\ u = <<own>>
      OBVIOUS
    <3>3. a \in Seq(Records) /\ u \in Seq(Records)
      BY <2>1, <3>1, <3>2
    <3>4. a \o u \in Seq(Records) /\ Range(a \o u) = Range(a) \cup Range(u)
      BY ONLY <3>3, ConcatElements
    <3> QED
      BY <2>2, <3>1, <3>2, <3>4
  <2>4. s \o kids \in Seq(Records) /\ Range(s \o kids) = Range(s) \cup Range(kids)
    BY <1>8, <2>3, ConcatElements
  <2> QED
    BY <1>3, <2>2, <2>3, <2>4
<1>10. \A r \in Range(kids) : r.protocol = Consumes[d] /\ r.agent = d /\ r.child \in Range(Children[d])
  <2>1. \A r \in Range(kids) : \E i \in 1 .. Len(kids) : kids[i] = r
    BY <1>8, Elements
  <2>2. \A i \in 1 .. Len(Children[d]) : Children[d][i] \in Range(Children[d])
    BY <1>5, Elements
  <2> QED
    BY <1>7, <1>8, <2>1, <2>2
<1>11. /\ opens \in [Controllers -> Seq(Records)] /\ interfaces \in [Controllers -> Seq(Protocols)]
       /\ \A k \in Controllers : \A r \in Range(opens[k]) : RecordFits(r, Range(interfaces[k]))
  BY DEF OpensFit
<1>12. /\ opens' \in [Controllers -> Seq(Records)] /\ opens'[c] = w
       /\ \A k \in Controllers : k # c => opens'[k] = opens[k]
  BY <1>4, <1>9, <1>11
<1>13. /\ interfaces' \in [Controllers -> Seq(Protocols)]
       /\ \A k \in Controllers : Range(interfaces[k]) \subseteq Range(interfaces'[k])
  <2>1. interfaces' = [k \in Controllers |->
               IF k = c /\ Produces[d] # None THEN <<Produces[d]>> \o interfaces[k]
               ELSE IF k \in Range(Children[d]) THEN <<ChildProtocol[d]>> \o interfaces[k]
               ELSE interfaces[k]]
    BY DEF Started
  <2>2. \A k \in Controllers :
           interfaces'[k] \in Seq(Protocols) /\ Range(interfaces[k]) \subseteq Range(interfaces'[k])
    <3> TAKE k \in Controllers
    <3>1. interfaces[k] \in Seq(Protocols)
      BY <1>11
    <3>2. \A p \in Protocols :
             /\ <<p>> \o interfaces[k] \in Seq(Protocols)
             /\ Range(interfaces[k]) \subseteq Range(<<p>> \o interfaces[k])
      BY <3>1, PrependElements
    <3>3. ChildProtocol[d] \in Protocols /\ (Produces[d] # None => Produces[d] \in Protocols)
      BY DriverAssumption
    <3>4. PICK a, b : a = ChildProtocol[d] /\ b = Produces[d]
      OBVIOUS
    <3>5. PICK v, s : v = interfaces'[k] /\ s = interfaces[k]
      OBVIOUS
    <3>6. (v = <<b>> \o s /\ b # None) \/ v = <<a>> \o s \/ v = s
      BY <2>1, <3>4, <3>5
    <3>7. CASE v = <<b>> \o s /\ b # None
      BY <3>2, <3>3, <3>4, <3>5, <3>7
    <3>8. CASE v = <<a>> \o s
      BY <3>2, <3>3, <3>4, <3>5, <3>8
    <3>9. CASE v = s
      BY <3>1, <3>5, <3>9
    <3> QED
      BY <3>5, <3>6, <3>7, <3>8, <3>9
  <2>3. PICK it : it = interfaces'
    OBVIOUS
  <2>4. it = [k \in Controllers |-> it[k]]
    BY <2>1, <2>3
  <2> QED
    BY <2>2, <2>3, <2>4
<1>14. OpensFit(opens', interfaces')
  <2> SUFFICES ASSUME NEW k \in Controllers, NEW r \in Range(opens'[k])
               PROVE  RecordFits(r, Range(interfaces'[k]))
    BY <1>12, <1>13 DEF OpensFit
  <2>1. CASE r \in Range(opens[k])
    BY <1>11, <1>13, <2>1 DEF RecordFits
  <2>2. CASE r \notin Range(opens[k])
    <3>1. k = c /\ (r = own \/ r \in Range(kids))
      BY <1>9, <1>12, <2>2
    <3>2. Consumes[d] \in Range(interfaces'[k])
      BY <1>13, <3>1 DEF SupportedIn
    <3>3. r.protocol = Consumes[d] /\ r.agent = d /\ (r.child # None => r.child \in Range(Children[d]))
      BY <1>6, <1>10, <3>1
    <3> QED
      BY <3>2, <3>3 DEF RecordFits
  <2> QED
    BY <2>1, <2>2
<1>15. ASSUME NEW e, NEW k \in Controllers PROVE Keeps(opens, opens', e, k)
  <2> SUFFICES ASSUME ManagesIn(opens, e, k)
               PROVE  ManagesIn(opens', e, k) /\ KidsIn(opens', e, k) = KidsIn(opens, e, k)
    BY DEF Keeps
  <2>1. CASE k # c
    BY <1>12, <2>1 DEF ManagesIn, KidsIn
  <2>2. CASE k = c
    <3>1. PICK r \in Range(opens[c]) : r.agent = e /\ r.child = None
      BY <2>2 DEF ManagesIn
    <3>2. r.protocol = Consumes[e]
      BY <1>11, <3>1 DEF RecordFits
    <3>3. e # d
      BY <3>1, <3>2 DEF SupportedIn
    <3>4. \A x : x \in Range(w) /\ x.agent = e <=> x \in Range(opens[c]) /\ x.agent = e
      BY <1>6, <1>9, <1>10, <3>3
    <3>5. PICK o : o = opens'[k]
      OBVIOUS
    <3>6. o = w
      BY <1>12, <2>2, <3>5
    <3>7. ManagesIn(opens', e, k)
      BY <2>2, <3>1, <3>4, <3>5, <3>6 DEF ManagesIn
    <3>8. KidsIn(opens', e, k) = KidsIn(opens, e, k)
      BY <2>2, <3>4, <3>5, <3>6 DEF KidsIn
    <3> QED
      BY <3>7, <3>8
  <2> QED
    BY <2>1, <2>2
<1> QED
  BY <1>14, <1>15

(* What is closed when it is stopped.                                      *)
LEMMA CloseOpens ==
    ASSUME OpensFit(opens, interfaces), NEW c \in Controllers, NEW d, NEW child, Close(c, d, child)
    PROVE  /\ OpensFit(opens', interfaces)
           /\ \A e, k : k \in Controllers /\ (e # d \/ k # c) => Keeps(opens, opens', e, k)
           /\ child # None /\ ManagesIn(opens, d, c) => ManagesIn(opens', d, c)
           /\ child # None => KidsIn(opens', d, c) = KidsIn(opens, d, c) \ {child}
<1>1. PICK s : s = opens[c]
  OBVIOUS
<1>2. PICK gone : gone = {record \in Range(s) : record.agent = d /\ record.child = child}
  OBVIOUS
<1>3. PICK w : w = Without(s, gone)
  OBVIOUS
<1>4. opens' = [opens EXCEPT ![c] = w]
  BY <1>1, <1>2, <1>3 DEF Close
<1>5. /\ opens \in [Controllers -> Seq(Records)] /\ interfaces \in [Controllers -> Seq(Protocols)]
      /\ \A k \in Controllers : \A r \in Range(opens[k]) : RecordFits(r, Range(interfaces[k]))
  BY DEF OpensFit
<1>6. s \in Seq(Records)
  BY <1>1, <1>5
<1>7. w \in Seq(Records) /\ Range(w) = Range(s) \ gone
  BY <1>3, <1>6, WithoutElements
<1>8. /\ opens' \in [Controllers -> Seq(Records)] /\ opens'[c] = w
      /\ \A k \in Controllers : k # c => opens'[k] = opens[k]
  BY <1>4, <1>5, <1>7
<1>9. PICK ot : ot = opens'
  OBVIOUS
<1>10. \A k \in Controllers : Range(ot[k]) \subseteq Range(opens[k])
  BY <1>1, <1>7, <1>8, <1>9
<1>11. OpensFit(ot, interfaces)
  BY <1>5, <1>8, <1>9, <1>10 DEF OpensFit
<1>12. \A r : r \in Range(ot[c]) <=> r \in Range(opens[c]) /\ ~(r.agent = d /\ r.child = child)
  BY <1>1, <1>2, <1>7, <1>8, <1>9
<1>13. ASSUME NEW e, NEW k \in Controllers, e # d \/ k # c
       PROVE  Keeps(opens, ot, e, k)
  <2>1. \A r : r \in Range(ot[k]) /\ r.agent = e <=> r \in Range(opens[k]) /\ r.agent = e
    BY <1>8, <1>9, <1>12, <1>13
  <2>2. ManagesIn(opens, e, k) => ManagesIn(ot, e, k)
    BY <2>1 DEF ManagesIn
  <2>3. KidsIn(ot, e, k) = KidsIn(opens, e, k)
    BY <2>1 DEF KidsIn
  <2> QED
    BY <2>2, <2>3 DEF Keeps
<1>14. ASSUME child # None, ManagesIn(opens, d, c) PROVE ManagesIn(ot, d, c)
  BY <1>12, <1>14 DEF ManagesIn
<1>15. ASSUME child # None PROVE KidsIn(ot, d, c) = KidsIn(opens, d, c) \ {child}
  BY <1>12, <1>15 DEF KidsIn
<1> QED
  BY <1>9, <1>11, <1>13, <1>14, <1>15

(* The frames below the Stop of a driver are not about this driver.        *)
LEMMA StopClosed ==
    ASSUME DriverInv, frames # <<>>, NEW top, top = Top, top.call = "stop",
           NEW child, Close(top.controller, top.driver, child)
    PROVE  OpensFit(opens', interfaces) /\ Gentle(frames, opens, opens')
<1>1. Stacked(frames, opens, interfaces, result) /\ OpensFit(opens, interfaces)
  BY DEF DriverInv
<1>2. PICK S : frames \in Seq(S)
  BY <1>1 DEF Stacked
<1>3. PICK n : n = Len(frames)
  OBVIOUS
<1>4. n \in 1 .. Len(frames) /\ n \in Nat /\ top = frames[n]
  BY <1>2, <1>3, LenProperties, EmptySeq DEF Top, Last
<1>5. \A i \in 1 .. n - 1 : i \in 1 .. Len(frames) /\ i < n
  BY <1>3, <1>4
<1>6. \A i \in 1 .. Len(frames) : FrameFits(frames[i])
  BY <1>1 DEF Stacked
<1>7. top.controller \in Controllers
  BY <1>4, <1>6 DEF FrameFits, StopFits
<1>8. PICK c, d : c = top.controller /\ d = top.driver
  OBVIOUS
<1>9. c \in Controllers /\ Close(c, d, child)
  BY <1>7, <1>8
<1>10. /\ OpensFit(opens', interfaces)
       /\ \A e, k : k \in Controllers /\ (e # d \/ k # c) => Keeps(opens, opens', e, k)
  BY ONLY <1>1, <1>9, CloseOpens
<1>11. ASSUME NEW i \in 1 .. n - 1, frames[i].call = "stop"
       PROVE  Keeps(opens, opens', frames[i].driver, frames[i].controller)
  <2>1. PICK f : f = frames[i]
    OBVIOUS
  <2>2. f.controller \in Controllers /\ f.driver \in Drivers
    BY <1>5, <1>6, <1>11, <2>1 DEF FrameFits, StopFits
  <2>3. Over(f, top)
    BY <1>1, <1>4, <1>5, <1>11, <2>1 DEF Stacked, Rises
  <2>4. Layer[Consumes[f.driver]] < Layer[Consumes[top.driver]]
    BY <2>3 DEF Over
  <2>5. Layer[Consumes[f.driver]] \in Nat
    BY <2>2, Layered, DriverAssumption
  <2>6. f.driver # d
    BY <1>8, <2>4, <2>5
  <2> QED
    BY <1>10, <2>1, <2>2, <2>6
<1> QED
  BY <1>3, <1>10, <1>11 DEF Gentle

-----------------------------------------------------------------------------
(***************************************************************************)
(* CoreConnectController, step by step.                                    *)
(***************************************************************************)
LEMMA ConnectTop ==
    ASSUME DriverInv, frames # <<>>, NEW top, top = Top, top.call = "connect"
    PROVE  /\ ConnectFits(top) /\ installed \in Seq(Drivers)
           /\ top.stage = "started" => SupportedIn(opens, interfaces, top.driver, top.controller)
<1>1. FrameFits(top) /\ (Asking(top) => SupportedIn(opens, interfaces, top.driver, top.controller))
  BY TopIs
<1> QED
  BY <1>1 DEF FrameFits, Asking, DriverInv

LEMMA ConnectFrame ==
    ASSUME NEW f, f.call = "connect", ConnectFits(f), NEW top, top.call = "connect"
    PROVE  FrameFits(f) /\ Same(top, f) /\ ~Waits(f)
BY DEF FrameFits, Same, Waits

LEMMA LocateKeeps ==
    ASSUME DriverInv, LocateDrivers
    PROVE  DriverInv'
<1>1. PICK top : top = Top
  OBVIOUS
<1>2. frames # <<>> /\ top.call = "connect" /\ UNCHANGED <<installed, opens, interfaces>>
  BY <1>1 DEF LocateDrivers, Running
<1>3. ConnectFits(top) /\ installed \in Seq(Drivers)
  BY <1>1, <1>2, ConnectTop
<1>4. CASE frames' = Front(frames)
  <2>1. OpensFit(opens, interfaces') /\ Top.call # "stop"
    BY <1>1, <1>2 DEF DriverInv
  <2> QED
    BY <1>2, <1>4, <2>1, Returning
<1>5. ASSUME NEW stage \in {"start", "sort"}, Become([top EXCEPT !.stage = stage, !.handles = installed])
      PROVE  DriverInv'
  <2>1. PICK f : f = [top EXCEPT !.stage = stage, !.handles = installed]
    OBVIOUS
  <2>2. /\ DOMAIN f = ConnectFields /\ f.call = "connect" /\ f.stage = stage /\ f.controller = top.controller
        /\ f.contexts = top.contexts /\ f.handles = installed /\ f.sorted = top.sorted
        /\ f.at = top.at /\ f.kids = top.kids
    BY <1>2, <1>3, <2>1 DEF ConnectFits, ConnectFields
  <2>3. top.stage = "handles"
    BY <1>1 DEF LocateDrivers, Running
  <2>4. ConnectFits(f) /\ ~Asking(f)
    BY <1>3, <2>2, <2>3 DEF ConnectFits, Asking
  <2>5. FrameFits(f) /\ Same(Top, f) /\ ~Waits(f)
    BY <1>1, <1>2, <2>2, <2>4, ConnectFrame
  <2>6. Become(f) /\ installed' \in Seq(Drivers)
    BY <1>2, <1>3, <1>5, <2>1
  <2> QED
    BY <1>2, <2>4, <2>5, <2>6, Becoming
<1>6. frames' = Front(frames) \/ \E stage \in {"start", "sort"} :
         Become([top EXCEPT !.stage = stage, !.handles = installed])
  BY <1>1 DEF LocateDrivers, Return
<1> QED
  BY <1>4, <1>5, <1>6

LEMMA LoadKeeps ==
    ASSUME DriverInv, LoadDriver
    PROVE  DriverInv'
<1>1. PICK d : d \in Loadable /\ installed' = Append(installed, d)
  BY DEF LoadDriver
<1>2. d \in Drivers /\ installed \in Seq(Drivers)
  BY <1>1, DriverAssumption DEF DriverInv
<1>3. installed' \in Seq(Drivers)
  BY <1>1, <1>2, AppendElements
<1>4. UNCHANGED <<interfaces, opens, frames, result>>
  BY DEF LoadDriver
<1> QED
  BY <1>3, <1>4 DEF DriverInv

LEMMA SortKeeps ==
    ASSUME DriverInv, SortDrivers
    PROVE  DriverInv'
<1>1. PICK top : top = Top
  OBVIOUS
<1>2. frames # <<>> /\ top.call = "connect" /\ top.stage = "sort" /\ UNCHANGED <<installed, opens, interfaces>>
  BY <1>1 DEF SortDrivers, Running
<1>3. ConnectFits(top) /\ installed \in Seq(Drivers)
  BY <1>1, <1>2, ConnectTop
<1>4. CASE Become([top EXCEPT !.stage = "handles"])
  <2>1. PICK f : f = [top EXCEPT !.stage = "handles"]
    OBVIOUS
  <2>2. /\ DOMAIN f = ConnectFields /\ f.call = "connect" /\ f.stage = "handles" /\ f.controller = top.controller
        /\ f.contexts = top.contexts /\ f.handles = top.handles /\ f.sorted = top.sorted
        /\ f.at = top.at /\ f.kids = top.kids
    BY <1>2, <1>3, <2>1 DEF ConnectFits, ConnectFields
  <2>3. ConnectFits(f) /\ ~Asking(f)
    BY <1>2, <1>3, <2>2 DEF ConnectFits, Asking
  <2>4. FrameFits(f) /\ Same(Top, f) /\ ~Waits(f)
    BY <1>1, <1>2, <2>2, <2>3, ConnectFrame
  <2>5. Become(f) /\ installed' \in Seq(Drivers)
    BY <1>2, <1>3, <1>4, <2>1
  <2> QED
    BY <1>2, <2>3, <2>4, <2>5, Becoming
<1>5. ASSUME NEW sorted \in Sorted(top.handles, top.controller, top.contexts),
             Become([top EXCEPT !.stage = "start", !.sorted = sorted])
      PROVE  DriverInv'
  <2>1. PICK f : f = [top EXCEPT !.stage = "start", !.sorted = sorted]
    OBVIOUS
  <2>2. /\ DOMAIN f = ConnectFields /\ f.call = "connect" /\ f.stage = "start" /\ f.controller = top.controller
        /\ f.contexts = top.contexts /\ f.handles = top.handles /\ f.sorted = sorted
        /\ f.at = top.at /\ f.kids = top.kids
    BY <1>2, <1>3, <2>1 DEF ConnectFits, ConnectFields
  <2>3. sorted \in Seq(Drivers) /\ InOrder(sorted, top.controller, top.contexts)
    <3>1. PICK h, c, x : h = top.handles /\ c = top.controller /\ x = top.contexts
      OBVIOUS
    <3>2. h \in Seq(Drivers) /\ c \in Controllers /\ x \in Seq(Drivers) /\ sorted \in Sorted(h, c, x)
      BY <1>3, <3>1 DEF ConnectFits
    <3>3. sorted \in Seq(Drivers) /\ InOrder(sorted, c, x)
      BY ONLY <3>2, SortedInOrder
    <3> QED
      BY <3>1, <3>3
  <2>4. sorted \in Seq(Drivers \cup {None})
    BY <2>3
  <2>5. ConnectFits(f) /\ ~Asking(f)
    BY <1>2, <1>3, <2>2, <2>3, <2>4 DEF ConnectFits, Asking
  <2>6. FrameFits(f) /\ Same(Top, f) /\ ~Waits(f)
    BY <1>1, <1>2, <2>2, <2>5, ConnectFrame
  <2>7. Become(f) /\ installed' \in Seq(Drivers)
    BY <1>2, <1>3, <1>5, <2>1
  <2> QED
    BY <1>2, <2>5, <2>6, <2>7, Becoming
<1> QED
  BY <1>1, <1>4, <1>5 DEF SortDrivers

(* The driver that is tried is the first that supports the controller.     *)
LEMMA CandidateIs ==
    ASSUME NEW top, top = Top, ConnectFits(top), Supporting # {}
    PROVE  /\ Candidate \in 1 .. Len(top.sorted) /\ Candidate \in Supporting
           /\ top.sorted[Candidate] \in Drivers /\ top.sorted[Candidate] # None
           /\ Supported(top.sorted[Candidate], top.controller)
           /\ \A i \in Supporting : Candidate <= i
<1>1. PICK T : T = Supporting
  OBVIOUS
<1>2. PICK s : s = top.sorted
  OBVIOUS
<1>3. s \in Seq(Drivers \cup {None}) /\ top.at \in Nat \ {0}
  BY <1>2 DEF ConnectFits
<1>4. Len(s) \in Nat /\ \A i \in 1 .. Len(s) : s[i] \in Drivers \cup {None}
  BY <1>3, LenProperties
<1>5. \A i : i \in T <=> i \in top.at .. Len(s) /\ s[i] # None /\ Supported(s[i], top.controller)
  BY <1>1, <1>2 DEF Supporting
<1>6. T \subseteq 1 .. Len(s)
  BY <1>3, <1>4, <1>5
<1>7. T \subseteq Nat /\ T # {}
  BY <1>1, <1>4, <1>6
<1>8. Min(T) \in T /\ \A y \in T : Min(T) <= y
  BY ONLY <1>7, Minimum
<1>9. Candidate = Min(T)
  BY <1>1 DEF Candidate
<1>10. PICK n : n = Candidate
  OBVIOUS
<1>11. n \in 1 .. Len(s) /\ n \in T /\ \A y \in T : n <= y
  BY <1>6, <1>8, <1>9, <1>10
<1>12. s[n] \in Drivers /\ s[n] # None /\ Supported(s[n], top.controller)
  BY <1>4, <1>5, <1>11
<1> QED
  BY <1>1, <1>2, <1>10, <1>11, <1>12

LEMMA FindKeeps ==
    ASSUME DriverInv, FindDriver
    PROVE  DriverInv'
<1>1. PICK top : top = Top
  OBVIOUS
<1>2. /\ frames # <<>> /\ top.call = "connect" /\ top.stage = "start" /\ UNCHANGED <<installed, opens, interfaces>>
      /\ Supporting # {}
  BY <1>1 DEF FindDriver, Running
<1>3. ConnectFits(top) /\ installed \in Seq(Drivers)
  BY <1>1, <1>2, ConnectTop
<1>4. PICK n, s, d : n = Candidate /\ s = top.sorted /\ d = s[n]
  OBVIOUS
<1>5. n \in 1 .. Len(s) /\ d \in Drivers /\ d # None /\ Supported(d, top.controller)
  BY <1>1, <1>2, <1>3, <1>4, CandidateIs
<1>6. PICK t : t = [s EXCEPT ![n] = None]
  OBVIOUS
<1>7. PICK g : g = [top EXCEPT !.at = 1, !.sorted = t]
  OBVIOUS
<1>8. PICK f : f = [g EXCEPT !.stage = "started", !.driver = d]
  OBVIOUS
<1>9. s \in Seq(Drivers \cup {None}) /\ InOrder(s, top.controller, top.contexts)
  BY <1>3, <1>4 DEF ConnectFits
<1>10. Len(s) \in Nat /\ DOMAIN s = 1 .. Len(s)
  BY <1>9, LenProperties
<1>11. /\ t \in Seq(Drivers \cup {None}) /\ DOMAIN t = DOMAIN s
       /\ \A i \in DOMAIN s : t[i] = IF i = n THEN None ELSE s[i]
  <2>1. PICK E : E = Drivers \cup {None}
    OBVIOUS
  <2>2. s \in Seq(E) /\ None \in E
    BY <1>9, <2>1
  <2>3. DOMAIN t = DOMAIN s /\ \A i \in DOMAIN s : t[i] = IF i = n THEN None ELSE s[i]
    BY ONLY <1>6
  <2>4. n \in 1 .. Len(s)
    BY <1>5
  <2>5. t \in Seq(E)
    BY ONLY <1>6, <2>2, <2>4, ExceptSeq
  <2> QED
    BY <2>1, <2>3, <2>5
<1>12. InOrder(t, top.controller, top.contexts)
  BY <1>9, <1>11 DEF InOrder
<1>13. DOMAIN top = ConnectFields
  BY <1>3 DEF ConnectFits
<1>14. /\ DOMAIN g = ConnectFields /\ g.call = "connect" /\ g.controller = top.controller
       /\ g.contexts = top.contexts /\ g.handles = top.handles /\ g.sorted = t
       /\ g.at = 1 /\ g.kids = top.kids
  BY <1>2, <1>7, <1>13 DEF ConnectFields
<1>15. /\ DOMAIN f = ConnectFields /\ f.call = "connect" /\ f.stage = "started" /\ f.controller = top.controller
       /\ f.contexts = top.contexts /\ f.handles = top.handles /\ f.sorted = t
       /\ f.at = 1 /\ f.kids = top.kids /\ f.driver = d
  BY <1>8, <1>14 DEF ConnectFields
<1>16. ConnectFits(f)
  BY <1>3, <1>5, <1>11, <1>12, <1>15 DEF ConnectFits
<1>17. FrameFits(f) /\ Same(Top, f) /\ ~Waits(f)
  BY <1>1, <1>2, <1>15, <1>16, ConnectFrame
<1>18. SupportedIn(opens, interfaces, f.driver, f.controller)
  BY <1>5, <1>15, SupportedIs
<1>19. Become(f)
  <2>1. Become([Found(top, n) EXCEPT !.stage = "started", !.driver = top.sorted[n]])
    BY <1>1, <1>4 DEF FindDriver
  <2>2. Found(top, n) = [top EXCEPT !.at = 1, !.sorted[n] = None]
    BY DEF Found
  <2>3. Found(top, n) = g
    BY <1>4, <1>6, <1>7, <1>13, <2>2 DEF ConnectFields
  <2> QED
    BY <1>4, <1>8, <2>1, <2>3
<1>20. installed' \in Seq(Drivers)
  BY <1>2, <1>3
<1> QED
  BY <1>2, <1>17, <1>18, <1>19, <1>20, Becoming

(* The driver starts: it opens what it needs, on top of the others.        *)
LEMMA StartKeeps ==
    ASSUME DriverInv, StartSucceeds
    PROVE  DriverInv'
<1>1. PICK top : top = Top
  OBVIOUS
<1>2. /\ frames # <<>> /\ top.call = "connect" /\ top.stage = "started" /\ UNCHANGED <<installed, result>>
      /\ Started(top.driver, top.controller)
  BY <1>1 DEF StartSucceeds, Running
<1>3. /\ ConnectFits(top) /\ installed \in Seq(Drivers)
      /\ SupportedIn(opens, interfaces, top.driver, top.controller)
  BY <1>1, <1>2, ConnectTop
<1>4. PICK c, d : c = top.controller /\ d = top.driver
  OBVIOUS
<1>5. c \in Controllers /\ d \in Drivers
  BY <1>2, <1>3, <1>4 DEF ConnectFits
<1>6. /\ OpensFit(opens, interfaces) /\ SupportedIn(opens, interfaces, d, c) /\ Started(d, c)
      /\ Stacked(frames, opens, interfaces, result)
  BY <1>2, <1>3, <1>4 DEF DriverInv
<1>7. /\ OpensFit(opens', interfaces')
      /\ \A e, k : k \in Controllers => Keeps(opens, opens', e, k)
  BY ONLY <1>5, <1>6, StartedOpens
<1>8. Gentle(frames, opens, opens')
  <2> SUFFICES ASSUME NEW i \in 1 .. Len(frames) - 1, frames[i].call = "stop"
               PROVE  Keeps(opens, opens', frames[i].driver, frames[i].controller)
    BY DEF Gentle
  <2>1. PICK S : frames \in Seq(S)
    BY <1>6 DEF Stacked
  <2>2. i \in 1 .. Len(frames)
    BY <2>1, LenProperties
  <2>3. FrameFits(frames[i])
    BY <1>6, <2>2 DEF Stacked
  <2>4. frames[i].controller \in Controllers
    BY <2>3 DEF FrameFits, StopFits
  <2> QED
    BY <1>7, <2>4
<1>9. PICK f : f = [top EXCEPT !.stage = "start", !.started = TRUE, !.driver = None]
  OBVIOUS
<1>10. /\ DOMAIN f = ConnectFields /\ f.call = "connect" /\ f.stage = "start" /\ f.controller = top.controller
       /\ f.contexts = top.contexts /\ f.handles = top.handles /\ f.sorted = top.sorted
       /\ f.at = top.at /\ f.kids = top.kids
  BY <1>2, <1>3, <1>9 DEF ConnectFits, ConnectFields
<1>11. ConnectFits(f) /\ ~Asking(f)
  BY <1>2, <1>3, <1>10 DEF ConnectFits, Asking
<1>12. FrameFits(f) /\ Same(top, f) /\ ~Waits(f) /\ f.call # "stop"
  BY <1>2, <1>10, <1>11, ConnectFrame
<1>13. PICK gs, ot, it, st : gs = frames' /\ ot = opens' /\ it = interfaces' /\ st = result'
  OBVIOUS
<1>14. Follows(top, f, opens, ot)
  BY <1>12, FollowsSame
<1>15. gs = Append(Front(frames), f) /\ top = Last(frames)
  BY <1>1, <1>9, <1>13 DEF StartSucceeds, Become, Top
<1>16. Stacked(gs, ot, it, st)
  BY <1>2, <1>6, <1>8, <1>11, <1>12, <1>13, <1>14, <1>15, BecomeKeeps
<1> QED
  BY <1>2, <1>3, <1>7, <1>13, <1>16 DEF DriverInv

LEMMA StartFailKeeps ==
    ASSUME DriverInv, StartFails
    PROVE  DriverInv'
<1>1. PICK top : top = Top
  OBVIOUS
<1>2. frames # <<>> /\ top.call = "connect" /\ top.stage = "started" /\ UNCHANGED <<installed, opens, interfaces>>
  BY <1>1 DEF StartFails, Running
<1>3. ConnectFits(top) /\ installed \in Seq(Drivers)
  BY <1>1, <1>2, ConnectTop
<1>4. PICK f : f = [top EXCEPT !.stage = "start", !.driver = None]
  OBVIOUS
<1>5. /\ DOMAIN f = ConnectFields /\ f.call = "connect" /\ f.stage = "start" /\ f.controller = top.controller
      /\ f.contexts = top.contexts /\ f.handles = top.handles /\ f.sorted = top.sorted
      /\ f.at = top.at /\ f.kids = top.kids
  BY <1>2, <1>3, <1>4 DEF ConnectFits, ConnectFields
<1>6. ConnectFits(f) /\ ~Asking(f)
  BY <1>2, <1>3, <1>5 DEF ConnectFits, Asking
<1>7. FrameFits(f) /\ Same(Top, f) /\ ~Waits(f)
  BY <1>1, <1>2, <1>5, <1>6, ConnectFrame
<1>8. Become(f) /\ installed' \in Seq(Drivers)
  BY <1>1, <1>2, <1>3, <1>4 DEF StartFails
<1> QED
  BY <1>2, <1>6, <1>7, <1>8, Becoming

LEMMA LoopEndKeeps ==
    ASSUME DriverInv, StartLoopEnds
    PROVE  DriverInv'
<1>1. PICK top : top = Top
  OBVIOUS
<1>2. frames # <<>> /\ top.call = "connect" /\ top.stage = "start" /\ UNCHANGED <<installed, opens, interfaces>>
  BY <1>1 DEF StartLoopEnds, Running
<1>3. ConnectFits(top) /\ installed \in Seq(Drivers)
  BY <1>1, <1>2, ConnectTop
<1>4. CASE frames' = Front(frames)
  <2>1. OpensFit(opens, interfaces') /\ Top.call # "stop"
    BY <1>1, <1>2 DEF DriverInv
  <2> QED
    BY <1>2, <1>4, <2>1, Returning
<1>5. PICK records : records = ChildRecords(top.controller)
  OBVIOUS
<1>6. PICK kids : kids = [i \in DOMAIN records |-> records[i].child]
  OBVIOUS
<1>7. kids \in Seq(Controllers)
  <2>1. PICK c, rs : c = top.controller /\ rs = OfChildren(c)
    OBVIOUS
  <2>2. c \in Controllers
    BY <1>3, <2>1 DEF ConnectFits
  <2>3. rs \subseteq Range(opens[c]) /\ \A r \in rs : r.child # None
    BY <2>1 DEF OfChildren, Managing
  <2>4. records = OpenList(c, rs)
    BY <1>5, <2>1 DEF ChildRecords
  <2>5. OpensFit(opens, interfaces)
    BY DEF DriverInv
  <2>6. records \in Seq(Records) /\ Range(records) = rs
    BY ONLY <2>2, <2>3, <2>4, <2>5, OpenListIs
  <2>7. \A r \in Range(records) : r.child # None
    BY <2>3, <2>6
  <2> QED
    BY ONLY <1>6, <2>6, <2>7, ChildrenAre
<1>8. ASSUME Become([top EXCEPT !.stage = "children", !.at = 1, !.kids = kids])
      PROVE  DriverInv'
  <2>1. PICK f : f = [top EXCEPT !.stage = "children", !.at = 1, !.kids = kids]
    OBVIOUS
  <2>2. /\ DOMAIN f = ConnectFields /\ f.call = "connect" /\ f.stage = "children" /\ f.controller = top.controller
        /\ f.contexts = top.contexts /\ f.handles = top.handles /\ f.sorted = top.sorted
        /\ f.at = 1 /\ f.kids = kids
    BY <1>2, <1>3, <2>1 DEF ConnectFits, ConnectFields
  <2>3. ConnectFits(f) /\ ~Asking(f)
    BY <1>3, <1>7, <2>2 DEF ConnectFits, Asking
  <2>4. FrameFits(f) /\ Same(Top, f) /\ ~Waits(f)
    BY <1>1, <1>2, <2>2, <2>3, ConnectFrame
  <2>5. Become(f) /\ installed' \in Seq(Drivers)
    BY <1>2, <1>3, <1>8, <2>1
  <2> QED
    BY <1>2, <2>3, <2>4, <2>5, Becoming
<1> QED
  BY <1>1, <1>4, <1>5, <1>6, <1>8 DEF StartLoopEnds, Return

LEMMA ConnectChildKeeps ==
    ASSUME DriverInv, ConnectChild
    PROVE  DriverInv'
<1>1. PICK top : top = Top
  OBVIOUS
<1>2. frames # <<>> /\ top.call = "connect" /\ top.stage = "children" /\ UNCHANGED <<installed, opens, interfaces>>
  BY <1>1 DEF ConnectChild
<1>3. ConnectFits(top) /\ installed \in Seq(Drivers)
  BY <1>1, <1>2, ConnectTop
<1>4. CASE frames' = Front(frames)
  <2>1. OpensFit(opens, interfaces') /\ Top.call # "stop"
    BY <1>1, <1>2 DEF DriverInv
  <2> QED
    BY <1>2, <1>4, <2>1, Returning
<1>5. ASSUME top.at <= Len(top.kids),
             Push([top EXCEPT !.at = @ + 1], Connect(top.kids[top.at], <<>>, TRUE))
      PROVE  DriverInv'
  <2>1. PICK f : f = [top EXCEPT !.at = @ + 1]
    OBVIOUS
  <2>2. PICK k, g : k = top.kids[top.at] /\ g = Connect(k, <<>>, TRUE)
    OBVIOUS
  <2>3. /\ DOMAIN f = ConnectFields /\ f.call = "connect" /\ f.stage = "children" /\ f.controller = top.controller
        /\ f.contexts = top.contexts /\ f.handles = top.handles /\ f.sorted = top.sorted
        /\ f.at = top.at + 1 /\ f.kids = top.kids
    BY <1>2, <1>3, <2>1 DEF ConnectFits, ConnectFields
  <2>4. top.at \in Nat \ {0} /\ top.kids \in Seq(Controllers)
    BY <1>3 DEF ConnectFits
  <2>5. k \in Controllers
    <3>1. top.at \in 1 .. Len(top.kids)
      BY <1>5, <2>4, LenProperties
    <3> QED
      BY <2>2, <2>4, <3>1, LenProperties
  <2>6. top.at + 1 \in Nat \ {0}
    BY <2>4
  <2>7. ConnectFits(f) /\ ~Asking(f)
    BY <1>3, <2>3, <2>6 DEF ConnectFits, Asking
  <2>8. FrameFits(f) /\ Same(Top, f) /\ ~Waits(f)
    BY <1>1, <1>2, <2>3, <2>7, ConnectFrame
  <2>9. g.call = "connect" /\ FrameFits(g) /\ ~Asking(g) /\ ~Waits(g)
    <3>1. <<>> \in Seq(Drivers)
      OBVIOUS
    <3> QED
      BY ONLY <2>2, <2>5, <3>1, ConnectIs
  <2>10. \A e : Over(e, g)
    BY <2>9 DEF Over
  <2>11. Push(f, g)
    BY <1>5, <2>1, <2>2
  <2> QED
    BY <1>2, <2>7, <2>8, <2>9, <2>10, <2>11, Pushing
<1> QED
  BY <1>1, <1>4, <1>5 DEF ConnectChild, Return

-----------------------------------------------------------------------------
(***************************************************************************)
(* CoreDisconnectController, step by step.                                 *)
(***************************************************************************)
LEMMA DisconnectTop ==
    ASSUME DriverInv, frames # <<>>, NEW top, top = Top, top.call = "disconnect"
    PROVE  /\ DisconnectFits(top) /\ installed \in Seq(Drivers) /\ OpensFit(opens, interfaces)
           /\ top.stage = "stop_children" => Finished(top, result, opens)
<1>1. FrameFits(top) /\ (Waits(top) => Finished(top, result, opens))
  BY TopIs
<1> QED
  BY <1>1 DEF FrameFits, Waits, DriverInv

LEMMA DisconnectFrame ==
    ASSUME NEW f, f.call = "disconnect", DisconnectFits(f), NEW top, top.call = "disconnect", f.driver = top.driver
    PROVE  FrameFits(f) /\ Same(top, f) /\ ~Asking(f)
BY DEF FrameFits, Same, Asking

(* A driver is stopped on top of what was disconnected for it.             *)
LEMMA StopOver ==
    ASSUME NEW top, top.call = "disconnect", DisconnectFits(top), NEW d, top.at \in DOMAIN top.drivers,
           d = top.drivers[top.at], NEW g, g.call = "stop", g.driver = d
    PROVE  d \in Drivers /\ \A e : e.call = "stop" /\ Over(e, top) => Over(e, g)
<1>1. PICK s, n : s = top.drivers /\ n = top.at
  OBVIOUS
<1>2. s \in Seq(Drivers) /\ (top.driver # None => Range(s) \subseteq {top.driver})
  BY <1>1 DEF DisconnectFits
<1>3. n \in 1 .. Len(s)
  BY <1>1, <1>2, LenProperties
<1>4. d \in Drivers /\ d \in Range(s)
  BY <1>1, <1>2, <1>3, LenProperties, Elements
<1>5. top.driver # None => d = top.driver
  BY <1>2, <1>4
<1> QED
  BY <1>4, <1>5 DEF Over

LEMMA CollectKeeps ==
    ASSUME DriverInv, CollectDrivers
    PROVE  DriverInv'
<1>1. PICK top : top = Top
  OBVIOUS
<1>2. /\ frames # <<>> /\ top.call = "disconnect" /\ top.stage = "drivers"
      /\ UNCHANGED <<installed, opens, interfaces>>
  BY <1>1 DEF CollectDrivers, Running
<1>3. DisconnectFits(top) /\ installed \in Seq(Drivers) /\ OpensFit(opens, interfaces)
  BY <1>1, <1>2, DisconnectTop
<1>4. CASE frames' = Front(frames)
  <2>1. OpensFit(opens, interfaces') /\ Top.call # "stop"
    BY <1>1, <1>2, <1>3
  <2> QED
    BY <1>2, <1>4, <2>1, Returning
<1>5. PICK managing : managing = OpenList(top.controller, Managing(top.controller))
  OBVIOUS
<1>6. PICK drivers : drivers = IF top.driver # None THEN <<top.driver>> ELSE OnceEach(AgentsOf(managing))
  OBVIOUS
<1>7. drivers \in Seq(Drivers) /\ (top.driver # None => Range(drivers) \subseteq {top.driver})
  <2>1. CASE top.driver # None
    <3>1. top.driver \in Drivers
      BY <1>3, <2>1 DEF DisconnectFits
    <3> QED
      BY <1>6, <2>1, <3>1, OneElement
  <2>2. CASE top.driver = None
    <3>1. PICK c, rs : c = top.controller /\ rs = Managing(c)
      OBVIOUS
    <3>2. c \in Controllers
      BY <1>3, <3>1 DEF DisconnectFits
    <3>3. rs \subseteq Range(opens[c]) /\ managing = OpenList(c, rs)
      BY <1>5, <3>1 DEF Managing
    <3>4. managing \in Seq(Records)
      BY ONLY <1>3, <3>2, <3>3, OpenListIs
    <3>5. AgentsOf(managing) \in Seq(Drivers)
      BY ONLY <3>4, AgentsAre
    <3>6. OnceEach(AgentsOf(managing)) \in Seq(Drivers)
      BY ONLY <3>5, OnceEachIs
    <3> QED
      BY <1>6, <2>2, <3>6
  <2> QED
    BY <2>1, <2>2
<1>8. ASSUME Become([top EXCEPT !.stage = "driver", !.drivers = drivers])
      PROVE  DriverInv'
  <2>1. PICK f : f = [top EXCEPT !.stage = "driver", !.drivers = drivers]
    OBVIOUS
  <2>2. /\ DOMAIN f = DisconnectFields /\ f.call = "disconnect" /\ f.stage = "driver"
        /\ f.controller = top.controller /\ f.driver = top.driver /\ f.drivers = drivers
        /\ f.at = top.at /\ f.stopped = top.stopped
    BY <1>2, <1>3, <2>1 DEF DisconnectFits, DisconnectFields
  <2>3. DisconnectFits(f) /\ ~Waits(f)
    BY <1>3, <1>7, <2>2 DEF DisconnectFits, Waits
  <2>4. FrameFits(f) /\ Same(Top, f) /\ ~Asking(f)
    BY <1>1, <1>2, <2>2, <2>3, DisconnectFrame
  <2>5. Become(f) /\ installed' \in Seq(Drivers)
    BY <1>2, <1>3, <1>8, <2>1
  <2> QED
    BY <1>2, <2>3, <2>4, <2>5, Becoming
<1> QED
  BY <1>1, <1>4, <1>5, <1>6, <1>8 DEF CollectDrivers, Return

(* It goes on with the next driver.                                        *)
LEMMA AfterKeeps ==
    ASSUME DriverInv, frames # <<>>, Top.call = "disconnect", NEW f,
           \E stopped \in Nat : f = [Top EXCEPT !.stage = "driver", !.at = @ + 1, !.stopped = stopped],
           Become(f), UNCHANGED <<installed, opens, interfaces>>
    PROVE  DriverInv'
<1>1. PICK top : top = Top
  OBVIOUS
<1>2. DisconnectFits(top) /\ installed \in Seq(Drivers)
  BY <1>1, DisconnectTop
<1>3. PICK stopped \in Nat : f = [top EXCEPT !.stage = "driver", !.at = @ + 1, !.stopped = stopped]
  BY <1>1
<1>4. /\ DOMAIN f = DisconnectFields /\ f.call = "disconnect" /\ f.stage = "driver"
      /\ f.controller = top.controller /\ f.driver = top.driver /\ f.drivers = top.drivers
      /\ f.at = top.at + 1 /\ f.stopped = stopped
  BY <1>1, <1>2, <1>3 DEF DisconnectFits, DisconnectFields
<1>5. top.at \in Nat \ {0}
  BY <1>2 DEF DisconnectFits
<1>6. top.at + 1 \in Nat \ {0}
  BY <1>5
<1>7. DisconnectFits(f) /\ ~Waits(f)
  BY <1>2, <1>4, <1>6 DEF DisconnectFits, Waits
<1>8. FrameFits(f) /\ Same(Top, f) /\ ~Asking(f)
  BY <1>1, <1>4, <1>7, DisconnectFrame
<1>9. installed' \in Seq(Drivers)
  BY <1>2
<1> QED
  BY <1>7, <1>8, <1>9, Becoming

LEMMA AfterDriverIs ==
    ASSUME NEW ok, DisconnectFits(Top)
    PROVE  \E stopped \in Nat :
              AfterDriver(ok) = [Top EXCEPT !.stage = "driver", !.at = @ + 1, !.stopped = stopped]
<1>1. Top.stopped \in Nat
  BY DEF DisconnectFits
<1>2. PICK stopped : stopped = IF ok THEN Top.stopped + 1 ELSE Top.stopped
  OBVIOUS
<1>3. stopped \in Nat
  BY <1>1, <1>2
<1>4. PICK top : top = Top
  OBVIOUS
<1>5. AfterDriver(ok) = [top EXCEPT !.stage = "driver", !.at = @ + 1, !.stopped = stopped]
  <2>1. DOMAIN top = DisconnectFields
    BY <1>4 DEF DisconnectFits
  <2> QED
    BY <1>2, <1>4, <2>1 DEF AfterDriver, DisconnectFields
<1> QED
  BY <1>3, <1>4, <1>5

(* The Stop of the driver for the controller itself.                       *)
LEMMA WholeKeeps ==
    ASSUME DriverInv, frames # <<>>, Top.call = "disconnect", NEW d, Top.at \in DOMAIN Top.drivers,
           d = Top.drivers[Top.at], ManagesIn(opens, d, Top.controller), KidsIn(opens, d, Top.controller) = {},
           Push([Top EXCEPT !.stage = "stop"], Stop(d, Top.controller, <<>>)),
           UNCHANGED <<installed, opens, interfaces>>
    PROVE  DriverInv'
<1>1. PICK top : top = Top
  OBVIOUS
<1>2. DisconnectFits(top)
  BY <1>1, DisconnectTop
<1>3. PICK f : f = [top EXCEPT !.stage = "stop"]
  OBVIOUS
<1>4. PICK c, g : c = top.controller /\ g = Stop(d, c, <<>>)
  OBVIOUS
<1>5. /\ DOMAIN f = DisconnectFields /\ f.call = "disconnect" /\ f.stage = "stop"
      /\ f.controller = top.controller /\ f.driver = top.driver /\ f.drivers = top.drivers
      /\ f.at = top.at /\ f.stopped = top.stopped
  BY <1>1, <1>2, <1>3 DEF DisconnectFits, DisconnectFields
<1>6. DisconnectFits(f) /\ ~Waits(f)
  BY <1>2, <1>5 DEF DisconnectFits, Waits
<1>7. FrameFits(f) /\ Same(Top, f) /\ ~Asking(f)
  BY <1>1, <1>5, <1>6, DisconnectFrame
<1>8. g.call = "stop" /\ g.driver = d
  BY <1>4 DEF Stop
<1>9. d \in Drivers /\ \A e : e.call = "stop" /\ Over(e, top) => Over(e, g)
  <2>1. top.call = "disconnect" /\ top.at \in DOMAIN top.drivers /\ d = top.drivers[top.at]
    BY <1>1
  <2> QED
    BY ONLY <1>2, <1>8, <2>1, StopOver
<1>10. c \in Controllers
  BY <1>2, <1>4 DEF DisconnectFits
<1>11. /\ g.call = "stop" /\ g.stage = "run" /\ g.driver = d /\ g.controller = c /\ g.kids = <<>>
       /\ g.whole = TRUE /\ FrameFits(g) /\ ~Asking(g) /\ ~Waits(g)
  <2>1. PICK kids : kids = <<>>
    OBVIOUS
  <2>2. kids \in Seq(Controllers) /\ (kids # <<>> => Children[d] # <<>>) /\ g = Stop(d, c, kids) /\ d \in Drivers
    BY <1>4, <1>9, <2>1
  <2>3. /\ g.call = "stop" /\ g.stage = "run" /\ g.driver = d /\ g.controller = c /\ g.kids = kids
        /\ g.whole = (kids = <<>>) /\ FrameFits(g) /\ ~Asking(g) /\ ~Waits(g)
    BY ONLY <1>10, <2>2, StopIs
  <2> QED
    BY <2>1, <2>3
<1>12. StopReady(g, opens)
  BY <1>1, <1>4, <1>11 DEF StopReady
<1>13. Push(f, g) /\ \A e : e.call = "stop" /\ Over(e, Top) => Over(e, g)
  BY <1>1, <1>3, <1>4, <1>9
<1> QED
  BY <1>6, <1>7, <1>11, <1>12, <1>13, Pushing

(* The Stop of the driver for its children, or one of them.                *)
LEMMA ChildrenKeep ==
    ASSUME DriverInv, frames # <<>>, Top.call = "disconnect", NEW d, Top.at \in DOMAIN Top.drivers,
           d = Top.drivers[Top.at], ManagesIn(opens, d, Top.controller),
           NEW kids, kids = KidsOf(d, Top.controller), kids # <<>>,
           Top.child = None \/ Top.child \in Range(kids),
           Push([Top EXCEPT !.stage = "stop_children", !.kids = kids],
                Stop(d, Top.controller, IF Top.child = None THEN kids ELSE <<Top.child>>)),
           UNCHANGED <<installed, opens, interfaces>>
    PROVE  DriverInv'
<1>1. PICK top : top = Top
  OBVIOUS
<1>2. DisconnectFits(top) /\ OpensFit(opens, interfaces)
  BY <1>1, DisconnectTop
<1>3. PICK f : f = [top EXCEPT !.stage = "stop_children", !.kids = kids]
  OBVIOUS
<1>4. PICK c, theirs, g :
         /\ c = top.controller
         /\ theirs = (IF top.child = None THEN kids ELSE <<top.child>>)
         /\ g = Stop(d, c, theirs)
  OBVIOUS
<1>5. /\ DOMAIN f = DisconnectFields /\ f.call = "disconnect" /\ f.stage = "stop_children"
      /\ f.controller = top.controller /\ f.driver = top.driver /\ f.drivers = top.drivers
      /\ f.at = top.at /\ f.stopped = top.stopped /\ f.kids = kids /\ f.child = top.child
  BY <1>1, <1>2, <1>3 DEF DisconnectFits, DisconnectFields
<1>6. DisconnectFits(f)
  BY <1>2, <1>5 DEF DisconnectFits
<1>7. FrameFits(f) /\ Same(Top, f) /\ ~Asking(f)
  BY <1>1, <1>5, <1>6, DisconnectFrame
<1>8. g.call = "stop" /\ g.driver = d
  BY <1>4 DEF Stop
<1>9. d \in Drivers /\ \A e : e.call = "stop" /\ Over(e, top) => Over(e, g)
  <2>1. top.call = "disconnect" /\ top.at \in DOMAIN top.drivers /\ d = top.drivers[top.at]
    BY <1>1
  <2> QED
    BY ONLY <1>2, <1>8, <2>1, StopOver
<1>10. c \in Controllers
  BY <1>2, <1>4 DEF DisconnectFits
<1>11. kids \in Seq(Controllers) /\ Range(kids) = KidsIn(opens, d, c)
  <2>1. kids = KidsOf(d, c)
    BY <1>1, <1>4
  <2> QED
    BY ONLY <1>2, <1>10, <2>1, KidsAre
<1>12. Children[d] # <<>>
  <2>1. PICK k : k \in KidsIn(opens, d, c)
    BY <1>11, NoElements
  <2>2. PICK r \in Range(opens[c]) : r.agent = d /\ r.child = k
    BY <2>1 DEF KidsIn
  <2>3. k # None
    BY <2>1, DriverAssumption DEF KidsIn
  <2>4. k \in Range(Children[d])
    BY <1>2, <1>10, <2>2, <2>3 DEF OpensFit, RecordFits
  <2>5. Children[d] \in Seq(Controllers)
    BY <1>9, DriverAssumption
  <2> QED
    BY ONLY <2>4, <2>5, NoElements
<1>13. theirs \in Seq(Controllers) /\ theirs # <<>>
  <2>1. CASE top.child = None
    BY <1>4, <1>11, <2>1
  <2>2. CASE top.child # None
    <3>1. theirs = <<top.child>> /\ top.child \in Controllers
      BY <1>1, <1>4, <1>11, <2>2 DEF KidsIn
    <3>2. <<top.child>> \in Seq(Controllers) /\ <<top.child>> # <<>>
      BY <3>1, OneElement
    <3> QED
      BY <3>1, <3>2
  <2> QED
    BY <2>1, <2>2
<1>14. /\ g.call = "stop" /\ g.stage = "run" /\ g.driver = d /\ g.controller = c /\ g.kids = theirs
       /\ g.whole = FALSE /\ FrameFits(g) /\ ~Asking(g) /\ ~Waits(g)
  <2>1. g = Stop(d, c, theirs) /\ d \in Drivers
    BY <1>4, <1>9
  <2>2. /\ g.call = "stop" /\ g.stage = "run" /\ g.driver = d /\ g.controller = c /\ g.kids = theirs
        /\ g.whole = (theirs = <<>>) /\ FrameFits(g) /\ ~Asking(g) /\ ~Waits(g)
    BY ONLY <1>10, <1>12, <1>13, <2>1, StopIs
  <2> QED
    BY <1>13, <2>2
<1>15. StopReady(g, opens)
  BY <1>1, <1>4, <1>14 DEF StopReady
<1>16. Linked(f, g, opens)
  <2>1. ASSUME AllStopped(f) PROVE KidsIn(opens, d, c) \subseteq Range(theirs)
    <3>1. CASE top.child = None
      BY <1>4, <1>11, <3>1
    <3>2. CASE top.child # None
      <4>1. Len(kids) = 1 /\ top.child \in Range(kids)
        BY <1>1, <1>5, <2>1, <3>2 DEF AllStopped
      <4>2. \A x : x \in Range(kids) => x = kids[1]
        <5>1. \A x : x \in Range(kids) => \E i \in 1 .. Len(kids) : kids[i] = x
          BY <1>11, Elements
        <5> QED
          BY <4>1, <5>1
      <4>3. theirs = <<top.child>>
        BY <1>4, <3>2
      <4>4. Range(<<top.child>>) = {top.child}
        BY OneElement
      <4> QED
        BY <1>11, <4>1, <4>2, <4>3, <4>4
    <3> QED
      BY <3>1, <3>2
  <2> QED
    BY <1>1, <1>4, <1>5, <1>14, <2>1 DEF Linked
<1>17. Push(f, g) /\ \A e : e.call = "stop" /\ Over(e, Top) => Over(e, g)
  BY <1>1, <1>3, <1>4, <1>9
<1> QED
  BY <1>7, <1>14, <1>15, <1>16, <1>17, Pushing

LEMMA NextKeeps ==
    ASSUME DriverInv, NextDriver
    PROVE  DriverInv'
<1>1. PICK top, c, d : top = Top /\ c = top.controller /\ d = top.drivers[top.at]
  OBVIOUS
<1>2. PICK kids : kids = KidsOf(d, c)
  OBVIOUS
<1>3. frames # <<>> /\ top.call = "disconnect" /\ top.stage = "driver" /\ UNCHANGED <<installed, opens, interfaces>>
  BY <1>1 DEF NextDriver, Running
<1>4. DisconnectFits(top) /\ installed \in Seq(Drivers) /\ OpensFit(opens, interfaces)
  BY <1>1, <1>3, DisconnectTop
<1>5. CASE frames' = Front(frames)
  <2>1. OpensFit(opens, interfaces') /\ Top.call # "stop"
    BY <1>1, <1>3, <1>4
  <2> QED
    BY <1>3, <1>5, <2>1, Returning
<1>6. CASE Become([top EXCEPT !.at = @ + 1])
  <2>1. top.stopped \in Nat /\ DOMAIN top = DisconnectFields
    BY <1>4 DEF DisconnectFits
  <2>2. PICK f, stopped : f = [top EXCEPT !.at = @ + 1] /\ stopped = top.stopped
    OBVIOUS
  <2>3. f = [top EXCEPT !.stage = "driver", !.at = @ + 1, !.stopped = stopped]
    BY <1>3, <2>1, <2>2 DEF DisconnectFields
  <2>4. \E n \in Nat : f = [Top EXCEPT !.stage = "driver", !.at = @ + 1, !.stopped = n]
    BY <1>1, <2>1, <2>2, <2>3
  <2>5. Become(f) /\ Top.call = "disconnect"
    BY <1>1, <1>3, <1>6, <2>2
  <2> QED
    BY <1>3, <2>4, <2>5, AfterKeeps
<1>7. ASSUME ~(top.at > Len(top.drivers)), DriverImageHandleValid(d, c)
      PROVE  top.at \in DOMAIN top.drivers /\ ManagesIn(opens, d, c)
  <2>1. top.at \in Nat \ {0} /\ top.drivers \in Seq(Drivers)
    BY <1>4 DEF DisconnectFits
  <2>2. top.at \in DOMAIN top.drivers
    BY <1>7, <2>1, LenProperties
  <2> QED
    BY <1>7, <2>2, ManagesIs DEF DriverImageHandleValid
<1>8. ASSUME ~(top.at > Len(top.drivers)), DriverImageHandleValid(d, c), kids = <<>>,
             Push([top EXCEPT !.stage = "stop"], Stop(d, c, <<>>))
      PROVE  DriverInv'
  <2>1. c \in Controllers
    BY <1>1, <1>4 DEF DisconnectFits
  <2>2. kids \in Seq(Controllers) /\ Range(kids) = KidsIn(opens, d, c)
    BY ONLY <1>2, <1>4, <2>1, KidsAre
  <2>3. KidsIn(opens, d, c) = {}
    BY <1>8, <2>2, NoElements
  <2>4. top.at \in DOMAIN top.drivers /\ ManagesIn(opens, d, c)
    BY <1>7, <1>8
  <2> QED
    BY <1>1, <1>3, <1>8, <2>3, <2>4, WholeKeeps
<1>9. ASSUME ~(top.at > Len(top.drivers)), DriverImageHandleValid(d, c), kids # <<>>,
             top.child = None \/ top.child \in Range(kids),
             Push([top EXCEPT !.stage = "stop_children", !.kids = kids],
                  Stop(d, c, IF top.child = None THEN kids ELSE <<top.child>>))
      PROVE  DriverInv'
  <2>1. top.at \in DOMAIN top.drivers /\ ManagesIn(opens, d, c)
    BY <1>7, <1>9
  <2> QED
    BY <1>1, <1>2, <1>3, <1>9, <2>1, ChildrenKeep
<1> QED
  BY <1>1, <1>2, <1>5, <1>6, <1>8, <1>9 DEF NextDriver, Return

LEMMA ChildrenStoppedKeeps ==
    ASSUME DriverInv, ChildrenStopped
    PROVE  DriverInv'
<1>1. PICK top : top = Top
  OBVIOUS
<1>2. /\ frames # <<>> /\ top.call = "disconnect" /\ top.stage = "stop_children"
      /\ UNCHANGED <<installed, opens, interfaces>>
  BY <1>1 DEF ChildrenStopped, Back
<1>3. DisconnectFits(top) /\ Finished(top, result, opens)
  BY <1>1, <1>2, DisconnectTop
<1>4. PICK d : d = top.drivers[top.at]
  OBVIOUS
<1>5. /\ top.at \in DOMAIN top.drivers /\ ManagesIn(opens, d, top.controller)
      /\ result = "EFI_SUCCESS" /\ AllStopped(top) => KidsIn(opens, d, top.controller) = {}
  BY <1>3, <1>4 DEF Finished
<1>6. CASE result = "EFI_SUCCESS" /\ AllStopped(top)
  <2>1. Push([Top EXCEPT !.stage = "stop"], Stop(d, Top.controller, <<>>))
    BY <1>1, <1>4, <1>6 DEF ChildrenStopped
  <2> QED
    BY <1>1, <1>2, <1>4, <1>5, <1>6, <2>1, WholeKeeps
<1>7. CASE ~(result = "EFI_SUCCESS" /\ AllStopped(top))
  <2>1. PICK ok : ok = (result = "EFI_SUCCESS")
    OBVIOUS
  <2>2. PICK f : f = AfterDriver(ok)
    OBVIOUS
  <2>3. \E n \in Nat : f = [Top EXCEPT !.stage = "driver", !.at = @ + 1, !.stopped = n]
    BY <1>1, <1>3, <2>2, AfterDriverIs
  <2>4. Become(f)
    BY <1>1, <1>7, <2>1, <2>2 DEF ChildrenStopped
  <2> QED
    BY <1>1, <1>2, <2>3, <2>4, AfterKeeps
<1> QED
  BY <1>6, <1>7

LEMMA DriverStoppedKeeps ==
    ASSUME DriverInv, DriverStopped
    PROVE  DriverInv'
<1>1. PICK top : top = Top
  OBVIOUS
<1>2. /\ frames # <<>> /\ top.call = "disconnect" /\ UNCHANGED <<installed, opens, interfaces>>
  BY <1>1 DEF DriverStopped, Back
<1>3. DisconnectFits(top)
  BY <1>1, <1>2, DisconnectTop
<1>4. PICK ok : ok = (result = "EFI_SUCCESS")
  OBVIOUS
<1>5. PICK f : f = AfterDriver(ok)
  OBVIOUS
<1>6. \E n \in Nat : f = [Top EXCEPT !.stage = "driver", !.at = @ + 1, !.stopped = n]
  BY <1>1, <1>3, <1>5, AfterDriverIs
<1>7. Become(f)
  BY <1>4, <1>5 DEF DriverStopped
<1> QED
  BY <1>1, <1>2, <1>6, <1>7, AfterKeeps

-----------------------------------------------------------------------------
(***************************************************************************)
(* The Stop of a driver and UninstallProtocolInterface, step by step.      *)
(***************************************************************************)
LEMMA StopTop ==
    ASSUME DriverInv, frames # <<>>, NEW top, top = Top, top.call = "stop"
    PROVE  StopFits(top) /\ StopReady(top, opens) /\ installed \in Seq(Drivers) /\ OpensFit(opens, interfaces)
<1>1. FrameFits(top) /\ StopReady(top, opens)
  BY TopIs
<1> QED
  BY <1>1 DEF FrameFits, DriverInv

(* The Stop of a driver returns.                                           *)
LEMMA StopReturns ==
    ASSUME DriverInv, frames # <<>>, NEW top, top = Top, top.call = "stop", frames' = Front(frames),
           UNCHANGED <<installed, interfaces>>, OpensFit(opens', interfaces), Gentle(frames, opens, opens'),
           ~top.whole => ManagesIn(opens', top.driver, top.controller),
           ~top.whole /\ result' = "EFI_SUCCESS" =>
              \A e : Linked(e, top, opens) /\ AllStopped(e) => KidsIn(opens', top.driver, top.controller) = {}
    PROVE  DriverInv'
<1>1. PICK gs, ot, st : gs = frames' /\ ot = opens' /\ st = result'
  OBVIOUS
<1>2. Stacked(frames, opens, interfaces, result) /\ installed \in Seq(Drivers)
  BY DEF DriverInv
<1>3. gs = Front(frames) /\ top = Last(frames) /\ Gentle(frames, opens, ot)
  BY <1>1 DEF Top
<1>4. ASSUME NEW e, Linked(e, top, opens) PROVE Finished(e, st, ot)
  <2>1. /\ ~top.whole /\ top.controller = e.controller /\ e.at \in DOMAIN e.drivers
        /\ top.driver = e.drivers[e.at]
    BY <1>4 DEF Linked
  <2>2. ManagesIn(ot, top.driver, top.controller)
    BY <1>1, <2>1
  <2>3. st = "EFI_SUCCESS" /\ AllStopped(e) => KidsIn(ot, top.driver, top.controller) = {}
    BY <1>1, <1>4, <2>1
  <2> QED
    BY <2>1, <2>2, <2>3 DEF Finished
<1>5. Stacked(gs, ot, interfaces, st)
  BY <1>2, <1>3, <1>4, ReturnKeeps
<1> QED
  BY <1>1, <1>2, <1>5 DEF DriverInv

(* It fails, and leaves everything as it was.                              *)
LEMMA StopGivesUp ==
    ASSUME DriverInv, frames # <<>>, Top.call = "stop", frames' = Front(frames), result' # "EFI_SUCCESS",
           UNCHANGED <<installed, interfaces, opens>>
    PROVE  DriverInv'
<1>1. PICK top : top = Top
  OBVIOUS
<1>2. StopReady(top, opens) /\ OpensFit(opens, interfaces)
  BY <1>1, StopTop
<1>3. ~top.whole => ManagesIn(opens', top.driver, top.controller)
  BY <1>2 DEF StopReady
<1>4. Gentle(frames, opens, opens')
  BY GentleSame
<1>5. OpensFit(opens', interfaces)
  BY <1>2
<1> QED
  BY <1>1, <1>3, <1>4, <1>5, StopReturns

LEMMA StopFailKeeps ==
    ASSUME DriverInv, StopFails
    PROVE  DriverInv'
<1>1. /\ frames # <<>> /\ Top.call = "stop" /\ frames' = Front(frames) /\ result' = "EFI_DEVICE_ERROR"
      /\ UNCHANGED <<installed, interfaces, opens>>
  BY DEF StopFails, Running, Return
<1>2. result' # "EFI_SUCCESS"
  BY <1>1
<1> QED
  BY <1>1, <1>2, StopGivesUp

(* The controller itself is closed.                                        *)
LEMMA WholeCloses ==
    ASSUME DriverInv, frames # <<>>, Top.call = "stop", Top.whole, Close(Top.controller, Top.driver, None),
           frames' = Front(frames), UNCHANGED <<installed, interfaces>>
    PROVE  DriverInv'
<1>1. PICK top : top = Top
  OBVIOUS
<1>2. OpensFit(opens', interfaces) /\ Gentle(frames, opens, opens')
  BY <1>1, StopClosed
<1> QED
  BY <1>1, <1>2, StopReturns

(* The protocol that goes is above the one the driver consumes.            *)
LEMMA GoesOver ==
    ASSUME NEW top, top.call = "stop", StopFits(top), NEW g, g.call = "uninstall",
           \/ ~top.whole /\ g.protocol = ChildProtocol[top.driver]
           \/ g.protocol = Produces[top.driver] /\ Produces[top.driver] # None
    PROVE  /\ g.protocol \in Protocols /\ Layer[Consumes[top.driver]] < Layer[g.protocol]
           /\ \A e : FrameFits(e) /\ e.call = "stop" /\ Over(e, top) => Over(e, g)
<1>1. PICK d, p : d = top.driver /\ p = g.protocol
  OBVIOUS
<1>2. d \in Drivers /\ (~top.whole => Children[d] # <<>>)
  BY <1>1 DEF StopFits
<1>3. p \in Protocols /\ Consumes[d] \in Protocols
  BY <1>1, <1>2, DriverAssumption
<1>4. /\ Produces[d] # None => Layer[Consumes[d]] < Layer[Produces[d]]
      /\ Children[d] # <<>> => Layer[Consumes[d]] < Layer[ChildProtocol[d]]
  BY <1>2, Layered DEF Stacks
<1>5. Layer[Consumes[d]] < Layer[p]
  BY <1>1, <1>2, <1>4
<1>6. ASSUME NEW e, FrameFits(e), e.call = "stop", Over(e, top) PROVE Over(e, g)
  <2>1. e.driver \in Drivers
    BY <1>6 DEF FrameFits, StopFits
  <2>2. Consumes[e.driver] \in Protocols
    BY <2>1, DriverAssumption
  <2>3. PICK x, y, z : x = Layer[Consumes[e.driver]] /\ y = Layer[Consumes[d]] /\ z = Layer[p]
    OBVIOUS
  <2>4. x \in Nat /\ y \in Nat /\ z \in Nat
    BY <1>3, <2>2, <2>3, Layered
  <2>5. x < y
    BY <1>1, <1>6, <2>3 DEF Over
  <2>6. x < z
    BY <1>5, <2>3, <2>4, <2>5
  <2> QED
    BY <1>1, <2>3, <2>6 DEF Over
<1> QED
  BY <1>1, <1>3, <1>5, <1>6

LEMMA StopRunKeeps ==
    ASSUME DriverInv, StopRuns
    PROVE  DriverInv'
<1>1. PICK top, d, c : top = Top /\ d = top.driver /\ c = top.controller
  OBVIOUS
<1>2. /\ frames # <<>> /\ top.call = "stop" /\ top.stage = "run" /\ UNCHANGED <<installed, interfaces>>
  BY <1>1 DEF StopRuns, Running
<1>3. StopFits(top) /\ StopReady(top, opens) /\ installed \in Seq(Drivers) /\ OpensFit(opens, interfaces)
  BY <1>1, <1>2, StopTop
<1>4. CASE top.whole /\ Produces[d] = None
  <2>1. Close(c, d, None) /\ frames' = Front(frames)
    BY <1>1, <1>4 DEF StopRuns, Return
  <2> QED
    BY <1>1, <1>2, <1>4, <2>1, WholeCloses
<1>5. CASE ~(top.whole /\ Produces[d] = None)
  <2>1. PICK f : f = [top EXCEPT !.stage = "uninstall"]
    OBVIOUS
  <2>2. PICK k, p : /\ k = (IF top.whole THEN c ELSE Head(top.kids))
                    /\ p = (IF top.whole THEN Produces[d] ELSE ChildProtocol[d])
    OBVIOUS
  <2>3. PICK g : g = Uninstall(k, p)
    OBVIOUS
  <2>4. Push(f, g) /\ UNCHANGED opens
    BY <1>1, <1>5, <2>1, <2>2, <2>3 DEF StopRuns
  <2>5. /\ DOMAIN f = StopFields /\ f.call = "stop" /\ f.stage = "uninstall" /\ f.driver = d
        /\ f.controller = c /\ f.kids = top.kids /\ f.whole = top.whole
    BY <1>1, <1>2, <1>3, <2>1 DEF StopFits, StopFields
  <2>6. StopFits(f)
    BY <1>1, <1>3, <2>5 DEF StopFits
  <2>7. FrameFits(f) /\ ~Asking(f) /\ ~Waits(f)
    BY <2>5, <2>6 DEF FrameFits, Asking, Waits
  <2>8. k \in Controllers
    <3>1. top.kids \in Seq(Controllers) /\ c \in Controllers /\ (~top.whole => top.kids # <<>>)
      BY <1>1, <1>3 DEF StopFits
    <3>2. ~top.whole => Head(top.kids) \in Controllers
      BY <3>1, TailElements
    <3> QED
      BY <2>2, <3>1, <3>2
  <2>9. g.call = "uninstall" /\ g.protocol = p
    BY <2>3 DEF Uninstall
  <2>10. \/ ~top.whole /\ g.protocol = ChildProtocol[top.driver]
         \/ g.protocol = Produces[top.driver] /\ Produces[top.driver] # None
    BY <1>1, <1>5, <2>2, <2>9
  <2>11. /\ g.protocol \in Protocols /\ Layer[Consumes[top.driver]] < Layer[g.protocol]
         /\ \A e : FrameFits(e) /\ e.call = "stop" /\ Over(e, top) => Over(e, g)
    BY ONLY <1>2, <1>3, <2>9, <2>10, GoesOver
  <2>12. FrameFits(g) /\ ~Asking(g) /\ ~Waits(g) /\ g.call # "stop"
    <3>1. p \in Protocols
      BY <2>9, <2>11
    <3>2. FrameFits(g) /\ ~Asking(g) /\ ~Waits(g)
      BY ONLY <2>3, <2>8, <3>1, UninstallIs
    <3> QED
      BY <2>9, <3>2
  <2>13. StopReady(f, opens) /\ Over(f, g)
    <3>1. StopReady(f, opens)
      BY <1>1, <1>3, <2>5 DEF StopReady
    <3>2. Over(f, g)
      BY <1>1, <2>5, <2>9, <2>11 DEF Over
    <3> QED
      BY <3>1, <3>2
  <2>14. Follows(top, f, opens, opens)
    BY <1>1, <1>2, <2>5 DEF Follows, Over, Linked
  <2>15. PICK gs, st : gs = frames' /\ st = result'
    OBVIOUS
  <2>16. gs = Front(frames) \o <<f, g>> /\ top = Last(frames)
    BY <1>1, <2>4, <2>15 DEF Push, Top
  <2>17. Stacked(frames, opens, interfaces, result)
    BY DEF DriverInv
  <2>18. Stacked(gs, opens, interfaces, st)
    BY <1>2, <2>7, <2>11, <2>12, <2>13, <2>14, <2>16, <2>17, PushKeeps
  <2> QED
    BY <1>2, <1>3, <2>4, <2>15, <2>18 DEF DriverInv
<1> QED
  BY <1>4, <1>5

(* A child is closed; the Stop goes on with the next, if there is one.     *)
LEMMA ChildCloses ==
    ASSUME DriverInv, frames # <<>>, NEW top, top = Top, top.call = "stop", ~top.whole,
           NEW k, k = Head(top.kids), Close(top.controller, top.driver, k)
    PROVE  /\ OpensFit(opens', interfaces) /\ Gentle(frames, opens, opens') /\ installed \in Seq(Drivers)
           /\ StopFits(top) /\ top.kids \in Seq(Controllers) /\ top.kids # <<>>
           /\ ManagesIn(opens', top.driver, top.controller)
           /\ KidsIn(opens', top.driver, top.controller) = KidsIn(opens, top.driver, top.controller) \ {k}
<1>1. StopFits(top) /\ StopReady(top, opens) /\ installed \in Seq(Drivers) /\ OpensFit(opens, interfaces)
  BY StopTop
<1>2. top.kids \in Seq(Controllers) /\ top.kids # <<>>
  BY <1>1 DEF StopFits
<1>3. k \in Controllers /\ k # None
  <2>1. k \in Controllers
    BY <1>2, TailElements
  <2> QED
    BY <2>1, DriverAssumption
<1>4. PICK c, d : c = top.controller /\ d = top.driver
  OBVIOUS
<1>5. c \in Controllers /\ Close(c, d, k) /\ ManagesIn(opens, d, c)
  BY <1>1, <1>4 DEF StopFits, StopReady
<1>6. /\ k # None /\ ManagesIn(opens, d, c) => ManagesIn(opens', d, c)
      /\ k # None => KidsIn(opens', d, c) = KidsIn(opens, d, c) \ {k}
  BY ONLY <1>1, <1>5, CloseOpens
<1>7. OpensFit(opens', interfaces) /\ Gentle(frames, opens, opens')
  BY StopClosed
<1> QED
  BY <1>1, <1>2, <1>3, <1>4, <1>5, <1>6, <1>7

LEMMA StopUninstalledKeeps ==
    ASSUME DriverInv, StopUninstalled
    PROVE  DriverInv'
<1>1. PICK top, d, c, k : top = Top /\ d = top.driver /\ c = top.controller /\ k = Head(top.kids)
  OBVIOUS
<1>2. /\ frames # <<>> /\ top.call = "stop" /\ top.stage = "uninstall" /\ UNCHANGED <<installed, interfaces>>
  BY <1>1 DEF StopUninstalled, Back
<1>3. CASE result # "EFI_SUCCESS"
  <2>1. frames' = Front(frames) /\ UNCHANGED opens /\ result' # "EFI_SUCCESS"
    BY <1>3 DEF StopUninstalled
  <2> QED
    BY <1>1, <1>2, <2>1, StopGivesUp
<1>4. CASE result = "EFI_SUCCESS" /\ top.whole
  <2>1. Close(c, d, None) /\ frames' = Front(frames)
    BY <1>1, <1>4 DEF StopUninstalled, Return
  <2> QED
    BY <1>1, <1>2, <1>4, <2>1, WholeCloses
<1>5. CASE result = "EFI_SUCCESS" /\ ~top.whole
  <2>1. Close(top.controller, top.driver, k)
    BY <1>1, <1>5 DEF StopUninstalled
  <2>2. /\ OpensFit(opens', interfaces) /\ Gentle(frames, opens, opens') /\ installed \in Seq(Drivers)
        /\ StopFits(top) /\ top.kids \in Seq(Controllers) /\ top.kids # <<>>
        /\ ManagesIn(opens', d, c) /\ KidsIn(opens', d, c) = KidsIn(opens, d, c) \ {k}
    BY <1>1, <1>2, <1>5, <2>1, ChildCloses
  <2>3. PICK s, t : s = top.kids /\ t = Tail(s)
    OBVIOUS
  <2>4. /\ t \in Seq(Controllers) /\ Len(t) = Len(s) - 1 /\ Range(s) \subseteq {k} \cup Range(t)
        /\ s \in Seq(Controllers) /\ Len(s) \in Nat /\ s # <<>>
    <3>1. s \in Seq(Controllers) /\ s # <<>>
      BY <2>2, <2>3
    <3>2. Len(s) \in Nat
      BY <3>1, LenProperties
    <3>3. /\ Tail(s) \in Seq(Controllers) /\ Len(Tail(s)) = Len(s) - 1
          /\ Range(s) \subseteq {Head(s)} \cup Range(Tail(s))
      BY ONLY <3>1, TailCovers
    <3> QED
      BY <1>1, <2>3, <3>1, <3>2, <3>3
  <2>5. ASSUME NEW e, Linked(e, top, opens), AllStopped(e) PROVE KidsIn(opens', d, c) \subseteq Range(t)
    <3>1. KidsIn(opens, d, c) \subseteq Range(s)
      BY <1>1, <2>3, <2>5 DEF Linked
    <3> QED
      BY <2>2, <2>4, <3>1
  <2>6. CASE Len(s) = 1
    <3>1. frames' = Front(frames)
      BY <1>1, <1>5, <2>3, <2>6 DEF StopUninstalled, Return
    <3>2. Range(t) = {}
      <4>1. t = <<>>
        BY <2>4, <2>6, EmptySeq
      <4> QED
        BY <2>4, <4>1, NoElements
    <3>3. \A e : Linked(e, top, opens) /\ AllStopped(e) => KidsIn(opens', top.driver, top.controller) = {}
      BY <1>1, <2>5, <3>2
    <3>4. ManagesIn(opens', top.driver, top.controller)
      BY <1>1, <2>2
    <3> QED
      BY <1>1, <1>2, <2>2, <3>1, <3>3, <3>4, StopReturns
  <2>7. CASE Len(s) # 1
    <3>1. PICK f : f = [top EXCEPT !.stage = "run", !.kids = t]
      OBVIOUS
    <3>2. Become(f)
      BY <1>1, <1>5, <2>3, <2>7, <3>1 DEF StopUninstalled
    <3>3. /\ DOMAIN f = StopFields /\ f.call = "stop" /\ f.stage = "run" /\ f.driver = d
          /\ f.controller = c /\ f.kids = t /\ f.whole = top.whole
      BY <1>1, <1>2, <2>2, <3>1 DEF StopFits, StopFields
    <3>4. t # <<>>
      BY <2>4, <2>7
    <3>5. StopFits(f)
      BY <1>1, <2>2, <2>4, <3>3, <3>4 DEF StopFits
    <3>6. FrameFits(f) /\ ~Asking(f) /\ ~Waits(f)
      BY <3>3, <3>5 DEF FrameFits, Asking, Waits
    <3>7. PICK gs, ot, st : gs = frames' /\ ot = opens' /\ st = result'
      OBVIOUS
    <3>8. StopReady(f, ot)
      BY <1>5, <2>2, <3>3, <3>7 DEF StopReady
    <3>9. Follows(top, f, opens, ot)
      <4>1. \A e : Over(e, top) => Over(e, f)
        BY <1>1, <1>2, <3>3 DEF Over
      <4>2. ASSUME NEW e, Linked(e, top, opens) PROVE Linked(e, f, ot)
        <5>1. AllStopped(e) => KidsIn(ot, d, c) \subseteq Range(t)
          BY <2>5, <3>7, <4>2
        <5> QED
          BY <1>1, <3>3, <4>2, <5>1 DEF Linked
      <4> QED
        BY <4>1, <4>2 DEF Follows
    <3>10. gs = Append(Front(frames), f) /\ top = Last(frames)
      BY <1>1, <3>2, <3>7 DEF Become, Top
    <3>11. Stacked(frames, opens, interfaces, result) /\ Gentle(frames, opens, ot)
      BY <2>2, <3>7 DEF DriverInv
    <3>12. Stacked(gs, ot, interfaces, st)
      BY <1>2, <3>6, <3>8, <3>9, <3>10, <3>11, BecomeKeeps
    <3> QED
      BY <1>2, <2>2, <3>7, <3>12 DEF DriverInv
  <2> QED
    BY <2>6, <2>7
<1> QED
  BY <1>3, <1>4, <1>5

LEMMA UninstallTop ==
    ASSUME DriverInv, frames # <<>>, NEW top, top = Top, top.call = "uninstall"
    PROVE  UninstallFits(top) /\ FrameFits(top) /\ ~Asking(top) /\ installed \in Seq(Drivers) /\ OpensFit(opens, interfaces)
<1>1. FrameFits(top)
  BY TopIs
<1> QED
  BY <1>1 DEF FrameFits, Asking, DriverInv

LEMMA UninstallKeeps ==
    ASSUME DriverInv, UninstallProtocolInterface
    PROVE  DriverInv'
<1>1. PICK top, c, users : top = Top /\ c = top.controller /\ users = UserOf(c, top.protocol)
  OBVIOUS
<1>2. /\ frames # <<>> /\ top.call = "uninstall" /\ UNCHANGED <<installed, opens>>
  BY <1>1 DEF UninstallProtocolInterface
<1>3. UninstallFits(top) /\ FrameFits(top) /\ ~Asking(top) /\ installed \in Seq(Drivers) /\ OpensFit(opens, interfaces)
  BY <1>1, <1>2, UninstallTop
<1>4. c \in Controllers /\ top.protocol \in Protocols
  BY <1>1, <1>3 DEF UninstallFits
<1>5. CASE /\ Push([top EXCEPT !.stage = "denied"], Connect(c, <<>>, TRUE)) /\ UNCHANGED interfaces
  <2>1. PICK f, g : f = [top EXCEPT !.stage = "denied"] /\ g = Connect(c, <<>>, TRUE)
    OBVIOUS
  <2>2. /\ DOMAIN f = UninstallFields /\ f.call = "uninstall" /\ f.stage = "denied"
        /\ f.controller = c /\ f.protocol = top.protocol
    BY <1>1, <1>2, <1>3, <2>1 DEF UninstallFits, UninstallFields
  <2>3. UninstallFits(f)
    BY <1>4, <2>2 DEF UninstallFits
  <2>4. FrameFits(f) /\ Same(Top, f) /\ ~Asking(f) /\ ~Waits(f)
    BY <1>1, <1>2, <2>2, <2>3 DEF FrameFits, Same, Asking, Waits
  <2>5. g.call = "connect" /\ FrameFits(g) /\ ~Asking(g) /\ ~Waits(g)
    <3>1. <<>> \in Seq(Drivers)
      OBVIOUS
    <3> QED
      BY ONLY <1>4, <2>1, <3>1, ConnectIs
  <2>6. \A e : Over(e, g)
    BY <2>5 DEF Over
  <2>7. Push(f, g)
    BY <1>5, <2>1
  <2> QED
    BY <1>2, <1>5, <2>4, <2>5, <2>6, <2>7, Pushing
<1>6. CASE users # <<>> /\ Push(top, Disconnect(c, users[1].agent, None)) /\ UNCHANGED interfaces
  <2>1. PICK d, g : d = users[1].agent /\ g = Disconnect(c, d, None)
    OBVIOUS
  <2>2. d \in Drivers /\ Consumes[d] = top.protocol
    <3>1. PICK s, es : s = opens[c] /\ es = {record \in Managing(c) : record.protocol = top.protocol}
      OBVIOUS
    <3>2. s \in Seq(Records)
      BY <1>3, <1>4, <3>1 DEF OpensFit
    <3>3. users = Only(s, es)
      BY <1>1, <3>1 DEF UserOf
    <3>4. users \in Seq(Records) /\ Range(users) = Range(s) \cap es
      BY ONLY <3>2, <3>3, OnlyElements
    <3>5. 1 \in 1 .. Len(users)
      BY <1>6, <3>4, LenProperties, EmptySeq
    <3>6. PICK r : r = users[1]
      OBVIOUS
    <3>7. r \in Range(users)
      BY <3>4, <3>5, <3>6, Elements
    <3>8. r \in Range(opens[c]) /\ r.protocol = top.protocol
      BY <3>1, <3>4, <3>7
    <3>9. r.agent \in Drivers /\ RecordFits(r, Range(interfaces[c]))
      BY <1>3, <1>4, <3>8, RecordsIn
    <3> QED
      BY <2>1, <3>6, <3>8, <3>9 DEF RecordFits
  <2>3. d # None
    BY <2>2, DriverAssumption
  <2>4. g.call = "disconnect" /\ g.driver = d /\ FrameFits(g) /\ ~Asking(g) /\ ~Waits(g)
    <3>1. d \in Drivers \cup {None}
      BY <2>2
    <3> QED
      BY ONLY <1>4, <2>1, <3>1, DisconnectIs
  <2>5. \A e : Over(e, top) => Over(e, g)
    BY <1>2, <2>2, <2>3, <2>4 DEF Over
  <2>6. Same(Top, top) /\ ~Waits(top)
    BY <1>1, <1>2 DEF Same, Waits
  <2>7. Push(top, g) /\ g.call # "stop"
    BY <1>6, <2>1, <2>4
  <2>8. \A e : FrameFits(e) /\ e.call = "stop" /\ Over(e, Top) => Over(e, g)
    BY <1>1, <2>5
  <2> QED
    BY <1>2, <1>3, <1>6, <2>4, <2>6, <2>7, <2>8, Pushing
<1>7. CASE /\ \A record \in Range(opens[c]) : record.protocol # top.protocol
           /\ interfaces' = [interfaces EXCEPT ![c] = Without(@, {top.protocol})]
           /\ frames' = Front(frames)
  <2>1. PICK w, es : w = Without(interfaces[c], es) /\ es = {top.protocol}
    OBVIOUS
  <2>2. interfaces \in [Controllers -> Seq(Protocols)] /\ interfaces[c] \in Seq(Protocols)
    BY <1>3, <1>4 DEF OpensFit
  <2>3. w \in Seq(Protocols) /\ Range(w) = Range(interfaces[c]) \ es
    BY <2>1, <2>2, WithoutElements
  <2>4. interfaces' = [interfaces EXCEPT ![c] = w]
    BY <1>7, <2>1
  <2>5. /\ interfaces' \in [Controllers -> Seq(Protocols)] /\ interfaces'[c] = w
        /\ \A k \in Controllers : k # c => interfaces'[k] = interfaces[k]
    BY <1>4, <2>2, <2>3, <2>4
  <2>6. OpensFit(opens, interfaces')
    <3> SUFFICES ASSUME NEW k \in Controllers, NEW r \in Range(opens[k])
                 PROVE  RecordFits(r, Range(interfaces'[k]))
      BY <1>3, <2>5 DEF OpensFit
    <3>1. RecordFits(r, Range(interfaces[k]))
      BY <1>3 DEF OpensFit
    <3>2. CASE k # c
      BY <2>5, <3>1, <3>2
    <3>3. CASE k = c
      <4>1. r.protocol \notin es
        BY <1>7, <2>1, <3>3
      <4> QED
        BY <2>3, <2>5, <3>1, <3>3, <4>1 DEF RecordFits
    <3> QED
      BY <3>2, <3>3
  <2>7. Top.call # "stop"
    BY <1>1, <1>2
  <2> QED
    BY <1>2, <1>7, <2>6, <2>7, Returning
<1> QED
  <2>1. \/ /\ Push([top EXCEPT !.stage = "denied"], Connect(c, <<>>, TRUE)) /\ UNCHANGED interfaces
        \/ users # <<>> /\ Push(top, Disconnect(c, users[1].agent, None)) /\ UNCHANGED interfaces
        \/ /\ ~(users = <<>> /\ \E record \in Range(opens[c]) : record.protocol = top.protocol)
           /\ users = <<>>
           /\ interfaces' = [interfaces EXCEPT ![c] = Without(@, {top.protocol})]
           /\ frames' = Front(frames)
    BY <1>1 DEF UninstallProtocolInterface, Return
  <2> QED
    BY <1>5, <1>6, <1>7, <2>1

LEMMA DeniedKeeps ==
    ASSUME DriverInv, UninstallDenied
    PROVE  DriverInv'
<1>1. /\ frames # <<>> /\ Top.call = "uninstall" /\ frames' = Front(frames)
      /\ UNCHANGED <<installed, opens, interfaces>>
  BY DEF UninstallDenied, Back, Return
<1>2. Top.call # "stop" /\ OpensFit(opens, interfaces')
  BY <1>1 DEF DriverInv
<1> QED
  BY <1>1, <1>2, Returning

-----------------------------------------------------------------------------
(***************************************************************************)
(* The calls from outside, and the harness.                                *)
(***************************************************************************)
LEMMA BeginKeeps ==
    ASSUME DriverInv, NEW f, Begin(f), FrameFits(f), ~Asking(f), ~Waits(f), f.call # "stop"
    PROVE  DriverInv'
<1>1. PICK gs, st : gs = <<f>> /\ st = result'
  OBVIOUS
<1>2. (\E S : gs \in Seq(S)) /\ Len(gs) = 1 /\ gs[1] = f
  <2>1. PICK S : S = {f}
    OBVIOUS
  <2>2. gs \in Seq(S)
    BY <1>1, <2>1
  <2> QED
    BY <1>1, <2>2
<1>3. \A i \in 1 .. Len(gs) : gs[i] = f
  BY <1>2
<1>4. Rises(gs)
  BY <1>3 DEF Rises
<1>5. Stacked(gs, opens, interfaces, st)
  BY <1>2, <1>3, <1>4 DEF Stacked
<1>6. gs = frames' /\ UNCHANGED <<installed, interfaces, opens>>
  BY <1>1 DEF Begin
<1> QED
  BY <1>1, <1>5, <1>6 DEF DriverInv

LEMMA CallConnectKeeps ==
    ASSUME DriverInv, CallConnect
    PROVE  DriverInv'
<1>1. PICK call \in ConnectCalls : Begin(Connect(call[1], call[2], call[3]))
  BY DEF CallConnect
<1>2. PICK c, contexts, recursive, f :
         c = call[1] /\ contexts = call[2] /\ recursive = call[3] /\ f = Connect(c, contexts, recursive)
  OBVIOUS
<1>3. c \in Controllers /\ contexts \in Seq(Drivers)
  BY <1>2, DriverAssumption
<1>4. f.call = "connect" /\ FrameFits(f) /\ ~Asking(f) /\ ~Waits(f)
  BY <1>2, <1>3, ConnectIs
<1>5. Begin(f)
  BY <1>1, <1>2
<1> QED
  BY <1>4, <1>5, BeginKeeps

LEMMA CallDisconnectKeeps ==
    ASSUME DriverInv, CallDisconnect
    PROVE  DriverInv'
<1>1. PICK call \in DisconnectCalls : Begin(Disconnect(call[1], call[2], call[3]))
  BY DEF CallDisconnect
<1>2. PICK c, d, child, f : c = call[1] /\ d = call[2] /\ child = call[3] /\ f = Disconnect(c, d, child)
  OBVIOUS
<1>3. c \in Controllers /\ d \in Drivers \cup {None}
  BY <1>2, DriverAssumption
<1>4. f.call = "disconnect" /\ FrameFits(f) /\ ~Asking(f) /\ ~Waits(f)
  BY <1>2, <1>3, DisconnectIs
<1>5. Begin(f)
  BY <1>1, <1>2
<1> QED
  BY <1>4, <1>5, BeginKeeps

LEMMA HostKeeps ==
    ASSUME DriverInv, HostDispatchDrivers \/ HostDisconnectDrivers \/ HostReconnectDrivers
    PROVE  DriverInv'
<1>1. PICK call \in {"dispatch", "host_disconnect", "reconnect"} : Begin(Host(call))
  BY DEF HostDispatchDrivers, HostDisconnectDrivers, HostReconnectDrivers
<1>2. PICK f : f = Host(call)
  OBVIOUS
<1>3. f.call = call /\ FrameFits(f) /\ ~Asking(f) /\ ~Waits(f)
  BY <1>2, HostIs
<1>4. Begin(f) /\ f.call # "stop"
  BY <1>1, <1>2, <1>3
<1> QED
  BY <1>3, <1>4, BeginKeeps

LEMMA HostTop ==
    ASSUME DriverInv, frames # <<>>, NEW top, top = Top, top.stage \in {"entry", "connected", "disconnected"}
    PROVE  /\ HostFits(top) /\ top.call \in {"dispatch", "host_disconnect", "reconnect"}
           /\ top.call # "stop" /\ \A e : ~Over(e, top)
           /\ installed \in Seq(Drivers) /\ OpensFit(opens, interfaces)
<1>1. FrameFits(top)
  BY TopIs
<1>2. HostFits(top) /\ top.call \in {"dispatch", "host_disconnect", "reconnect"}
  BY <1>1 DEF FrameFits, ConnectFits, DisconnectFits, StopFits, UninstallFits
<1>3. top.call # "stop" /\ \A e : ~Over(e, top)
  BY <1>2 DEF Over
<1> QED
  BY <1>2, <1>3 DEF DriverInv

(* It calls the services for drivers and waits for them.                   *)
LEMMA HostWaits ==
    ASSUME DriverInv, frames # <<>>, Top.stage \in {"entry", "connected", "disconnected"},
           NEW stage \in {"connected", "disconnected"}, NEW g, Push([Top EXCEPT !.stage = stage], g),
           FrameFits(g), ~Asking(g), ~Waits(g), g.call # "stop",
           UNCHANGED <<installed, opens, interfaces>>
    PROVE  DriverInv'
<1>1. PICK top : top = Top
  OBVIOUS
<1>2. /\ HostFits(top) /\ top.call \in {"dispatch", "host_disconnect", "reconnect"}
      /\ top.call # "stop" /\ \A e : ~Over(e, top)
  BY <1>1, HostTop
<1>3. PICK f : f = [top EXCEPT !.stage = stage]
  OBVIOUS
<1>4. DOMAIN f = HostFields /\ f.call = top.call /\ f.stage = stage /\ f.at = top.at
  BY <1>2, <1>3 DEF HostFits, HostFields
<1>5. HostFits(f)
  BY <1>2, <1>4 DEF HostFits
<1>6. FrameFits(f) /\ ~Asking(f) /\ ~Waits(f) /\ Same(top, f)
  BY <1>2, <1>4, <1>5 DEF FrameFits, Asking, Waits, Same
<1>7. Push(f, g) /\ \A e : FrameFits(e) /\ e.call = "stop" /\ Over(e, Top) => Over(e, g)
  BY <1>1, <1>2, <1>3
<1> QED
  BY <1>1, <1>6, <1>7, Pushing

LEMMA HostConnects ==
    ASSUME NEW g, g = Connect(gFuzzHandle, <<>>, FALSE)
    PROVE  FrameFits(g) /\ ~Asking(g) /\ ~Waits(g) /\ g.call # "stop"
<1>1. gFuzzHandle \in Controllers /\ <<>> \in Seq(Drivers)
  BY RegistryAssumption
<1>2. g.call = "connect" /\ FrameFits(g) /\ ~Asking(g) /\ ~Waits(g)
  BY <1>1, ConnectIs
<1> QED
  BY <1>2

LEMMA EntryKeeps ==
    ASSUME DriverInv, EntryPoint
    PROVE  DriverInv'
<1>1. PICK top : top = Top
  OBVIOUS
<1>2. /\ frames # <<>> /\ top.stage = "entry" /\ UNCHANGED <<opens, interfaces>> /\ top.at <= Len(Registry)
      /\ installed' = Append(installed, Registry[top.at]) \/ installed' = installed
  BY <1>1 DEF EntryPoint, Running
<1>3. /\ HostFits(top) /\ top.call \in {"dispatch", "host_disconnect", "reconnect"}
      /\ top.call # "stop" /\ installed \in Seq(Drivers)
  BY <1>1, <1>2, HostTop
<1>4. installed' \in Seq(Drivers)
  <2>1. top.at \in 1 .. Len(Registry) /\ Registry \in Seq(Drivers)
    BY <1>2, <1>3, RegistryAssumption, LenProperties DEF HostFits
  <2>2. Registry[top.at] \in Drivers
    BY <2>1, LenProperties
  <2>3. Append(installed, Registry[top.at]) \in Seq(Drivers)
    BY <1>3, <2>2, AppendElements
  <2> QED
    BY <1>2, <1>3, <2>3
<1>5. PICK f : f = [top EXCEPT !.at = @ + 1]
  OBVIOUS
<1>6. DOMAIN f = HostFields /\ f.call = top.call /\ f.stage = "entry" /\ f.at = top.at + 1
  BY <1>2, <1>3, <1>5 DEF HostFits, HostFields
<1>7. top.at \in Nat
  BY <1>3 DEF HostFits
<1>8. top.at + 1 \in Nat \ {0}
  BY <1>7
<1>9. HostFits(f)
  BY <1>6, <1>8 DEF HostFits
<1>10. FrameFits(f) /\ ~Asking(f) /\ ~Waits(f) /\ Same(top, f)
  BY <1>3, <1>6, <1>9 DEF FrameFits, Asking, Waits, Same
<1>11. Become(f)
  BY <1>1, <1>5 DEF EntryPoint
<1> QED
  BY <1>1, <1>2, <1>4, <1>10, <1>11, Becoming

LEMMA HostReturns ==
    ASSUME DriverInv, frames # <<>>, Top.stage \in {"entry", "connected", "disconnected"},
           frames' = Front(frames), UNCHANGED <<installed, opens, interfaces>>
    PROVE  DriverInv'
<1>1. Top.call # "stop" /\ OpensFit(opens, interfaces)
  BY HostTop
<1>2. OpensFit(opens, interfaces')
  BY <1>1
<1> QED
  BY <1>1, <1>2, Returning

LEMMA HostStepKeeps ==
    ASSUME DriverInv, EntryPointsDone \/ DisconnectAll \/ Disconnected \/ Connected
    PROVE  DriverInv'
<1>1. frames # <<>> /\ UNCHANGED <<installed, opens, interfaces>> /\ Top.stage \in {"entry", "connected", "disconnected"}
  BY DEF EntryPointsDone, DisconnectAll, Disconnected, Connected, Running
<1>2. CASE frames' = Front(frames)
  BY <1>1, <1>2, HostReturns
<1>3. PICK g : g = Connect(gFuzzHandle, <<>>, FALSE)
  OBVIOUS
<1>4. CASE Push([Top EXCEPT !.stage = "connected"], g)
  BY <1>1, <1>3, <1>4, HostConnects, HostWaits
<1>5. PICK h : h = Disconnect(gFuzzHandle, None, None)
  OBVIOUS
<1>6. CASE Push([Top EXCEPT !.stage = "disconnected"], h)
  <2>1. FrameFits(h) /\ ~Asking(h) /\ ~Waits(h) /\ h.call # "stop"
    <3>1. PICK c, d : c = gFuzzHandle /\ d = None
      OBVIOUS
    <3>2. c \in Controllers /\ d \in Drivers \cup {None} /\ h = Disconnect(c, d, d)
      BY <1>5, <3>1, RegistryAssumption
    <3>3. h.call = "disconnect" /\ FrameFits(h) /\ ~Asking(h) /\ ~Waits(h)
      BY ONLY <3>2, DisconnectIs
    <3> QED
      BY <3>3
  <2> QED
    BY <1>1, <1>6, <2>1, HostWaits
<1>7. \/ frames' = Front(frames) \/ Push([Top EXCEPT !.stage = "connected"], g)
      \/ Push([Top EXCEPT !.stage = "disconnected"], h)
  BY <1>3, <1>5 DEF EntryPointsDone, DisconnectAll, Disconnected, Connected, Return
<1> QED
  BY <1>2, <1>4, <1>6, <1>7

-----------------------------------------------------------------------------
LEMMA DispatchStep ==
    ASSUME DriverInv, [DriversNext]_driverVars
    PROVE  DriverInv'
<1>1. CASE CallConnect
  BY <1>1, CallConnectKeeps
<1>2. CASE CallDisconnect
  BY <1>2, CallDisconnectKeeps
<1>3. CASE HostDispatchDrivers \/ HostDisconnectDrivers \/ HostReconnectDrivers
  BY <1>3, HostKeeps
<1>4. CASE LocateDrivers
  BY <1>4, LocateKeeps
<1>5. CASE LoadDriver
  BY <1>5, LoadKeeps
<1>6. CASE SortDrivers
  BY <1>6, SortKeeps
<1>7. CASE FindDriver
  BY <1>7, FindKeeps
<1>8. CASE StartSucceeds
  BY <1>8, StartKeeps
<1>9. CASE StartFails
  BY <1>9, StartFailKeeps
<1>10. CASE StartLoopEnds
  BY <1>10, LoopEndKeeps
<1>11. CASE ConnectChild
  BY <1>11, ConnectChildKeeps
<1>12. CASE CollectDrivers
  BY <1>12, CollectKeeps
<1>13. CASE NextDriver
  BY <1>13, NextKeeps
<1>14. CASE ChildrenStopped
  BY <1>14, ChildrenStoppedKeeps
<1>15. CASE DriverStopped
  BY <1>15, DriverStoppedKeeps
<1>16. CASE StopFails
  BY <1>16, StopFailKeeps
<1>17. CASE StopRuns
  BY <1>17, StopRunKeeps
<1>18. CASE StopUninstalled
  BY <1>18, StopUninstalledKeeps
<1>19. CASE UninstallProtocolInterface
  BY <1>19, UninstallKeeps
<1>20. CASE UninstallDenied
  BY <1>20, DeniedKeeps
<1>21. CASE EntryPoint
  BY <1>21, EntryKeeps
<1>22. CASE EntryPointsDone \/ DisconnectAll \/ Disconnected \/ Connected
  BY <1>22, HostStepKeeps
<1>23. CASE UNCHANGED driverVars
  BY <1>23 DEF driverVars, coreVars, DriverInv
<1> QED
  BY <1>1, <1>2, <1>3, <1>4, <1>5, <1>6, <1>7, <1>8, <1>9, <1>10, <1>11, <1>12, <1>13, <1>14, <1>15,
     <1>16, <1>17, <1>18, <1>19, <1>20, <1>21, <1>22, <1>23 DEF DriversNext, Step, CoreStep

LEMMA DriverStart ==
    ASSUME DriversInit
    PROVE  DriverInv
<1>1. /\ installed = <<>> /\ interfaces = Initially /\ opens = [c \in Controllers |-> <<>>]
      /\ frames = <<>>
  BY DEF DriversInit, CoreInit
<1>2. installed \in Seq(Drivers)
  BY <1>1
<1>3. OpensFit(opens, interfaces)
  <2>1. \A c \in Controllers : opens[c] = <<>> /\ opens[c] \in Seq(Records)
    BY <1>1
  <2>2. opens \in [Controllers -> Seq(Records)]
    BY <1>1, <2>1
  <2>3. \A c \in Controllers : \A r : r \notin Range(opens[c])
    BY <2>1, NoElements
  <2> QED
    BY <1>1, <2>2, <2>3, DriverAssumption DEF OpensFit
<1>4. Stacked(frames, opens, interfaces, result)
  <2>1. (\E S : frames \in Seq(S)) /\ Len(frames) = 0
    <3>1. PICK S : S = Drivers
      OBVIOUS
    <3>2. frames \in Seq(S)
      BY <1>1
    <3> QED
      BY <1>1, <3>2
  <2> QED
    BY <2>1 DEF Stacked, Rises
<1> QED
  BY <1>2, <1>3, <1>4 DEF DriverInv

LEMMA DriversAlways == DriversSpec => []DriverInv
BY DriverStart, DispatchStep, PTL DEF DriversSpec

LEMMA StopsFollow ==
    ASSUME DriverInv
    PROVE  StopsInOrder
<1> SUFFICES ASSUME Running("stop", "run")
             PROVE  /\ Manages(Top.driver, Top.controller)
                    /\ Top.whole => KidsOf(Top.driver, Top.controller) = <<>>
  BY DEF StopsInOrder, StopsManagers, ChildrenFirst
<1>1. PICK top, d, c : top = Top /\ d = top.driver /\ c = top.controller
  OBVIOUS
<1>2. frames # <<>> /\ top.call = "stop" /\ top.stage = "run"
  BY <1>1 DEF Running
<1>3. StopFits(top) /\ StopReady(top, opens) /\ OpensFit(opens, interfaces)
  BY <1>1, <1>2, StopTop
<1>4. Manages(d, c)
  BY <1>1, <1>2, <1>3, ManagesIs DEF StopReady
<1>5. ASSUME top.whole PROVE KidsOf(d, c) = <<>>
  <2>1. KidsIn(opens, d, c) = {}
    BY <1>1, <1>2, <1>3, <1>5 DEF StopReady
  <2>2. c \in Controllers
    BY <1>1, <1>3 DEF StopFits
  <2>3. KidsOf(d, c) \in Seq(Controllers) /\ Range(KidsOf(d, c)) = KidsIn(opens, d, c)
    BY ONLY <1>3, <2>2, KidsAre
  <2> QED
    BY <2>1, <2>3, NoElements
<1> QED
  BY <1>1, <1>4, <1>5

LEMMA RankReflexive ==
    ASSUME NEW c \in Controllers, NEW contexts \in Seq(Drivers), NEW d \in Drivers
    PROVE  NotBehind(Rank(d, c, contexts), Rank(d, c, contexts))
<1>1. PICK r : r = Rank(d, c, contexts)
  OBVIOUS
<1>2. r[2] \in Int
  BY <1>1, RankIs
<1>3. r[2] <= r[2]
  BY <1>2
<1>4. NotBehind(r, r)
  BY <1>3 DEF NotBehind
<1> QED
  BY <1>1, <1>4

LEMMA BestFollow ==
    ASSUME DriverInv
    PROVE  BestDriversConnect
<1> SUFFICES ASSUME Running("connect", "start")
             PROVE  /\ Supporting # {} => \A d \in Range(Top.sorted) \ {None} : Supported(d, Top.controller) =>
                          NotBehind(Rank(Top.sorted[Candidate], Top.controller, Top.contexts),
                                    Rank(d, Top.controller, Top.contexts))
                    /\ Supporting = {} =>
                          \A e \in Range(Top.sorted) \ {None} : ~Supported(e, Top.controller)
  BY DEF BestDriversConnect, BestDriverStarts, ConnectExhaustive
<1>1. PICK top, s, c, x : top = Top /\ s = top.sorted /\ c = top.controller /\ x = top.contexts
  OBVIOUS
<1>2. frames # <<>> /\ top.call = "connect" /\ top.stage = "start"
  BY <1>1 DEF Running
<1>3. ConnectFits(top)
  BY <1>1, <1>2, ConnectTop
<1>4. /\ c \in Controllers /\ x \in Seq(Drivers) /\ s \in Seq(Drivers \cup {None}) /\ InOrder(s, c, x)
      /\ top.at = 1
  BY <1>1, <1>2, <1>3 DEF ConnectFits
<1>5. Len(s) \in Nat /\ DOMAIN s = 1 .. Len(s)
  BY <1>4, LenProperties
<1>6. ASSUME NEW d \in Range(s) \ {None}, Supported(d, c)
      PROVE  \E i \in Supporting : i \in 1 .. Len(s) /\ s[i] = d
  <2>1. PICK i \in 1 .. Len(s) : s[i] = d
    BY <1>4, Elements
  <2> QED
    BY <1>1, <1>4, <1>6, <2>1 DEF Supporting
<1>7. ASSUME Supporting # {}, NEW d \in Range(s) \ {None}, Supported(d, c)
      PROVE  NotBehind(Rank(s[Candidate], c, x), Rank(d, c, x))
  <2>1. PICK n : n = Candidate
    OBVIOUS
  <2>2. /\ n \in 1 .. Len(s) /\ s[n] \in Drivers /\ s[n] # None
        /\ \A i \in Supporting : n <= i
    BY <1>1, <1>3, <1>7, <2>1, CandidateIs
  <2>3. PICK i \in Supporting : i \in 1 .. Len(s) /\ s[i] = d
    BY <1>6, <1>7
  <2>4. CASE n < i
    <3>1. NotBehind(Rank(s[n], c, x), Rank(s[i], c, x))
      BY <1>4, <1>5, <1>7, <2>2, <2>3, <2>4 DEF InOrder
    <3> QED
      BY <2>1, <2>3, <3>1
  <2>5. CASE ~(n < i)
    <3>1. i = n
      BY <1>5, <2>2, <2>3, <2>5
    <3>2. d = s[n] /\ d \in Drivers
      BY <2>2, <2>3, <3>1
    <3>3. NotBehind(Rank(d, c, x), Rank(d, c, x))
      BY <1>4, <3>2, RankReflexive
    <3> QED
      BY <2>1, <3>2, <3>3
  <2> QED
    BY <2>4, <2>5
<1>8. ASSUME Supporting = {}, NEW d \in Range(s) \ {None}
      PROVE  ~Supported(d, c)
  BY <1>6, <1>8
<1> QED
  BY <1>1, <1>7, <1>8

(***************************************************************************)
(* CoreDisconnectController stops the drivers that manage a controller and *)
(* no other, on the children before the controller.  At every Stop the     *)
(* driver manages its controller, because the frames that wait are about   *)
(* drivers in lower layers, which no step closes; and no child is left     *)
(* when it is stopped on the controller, because the Stop that is awaited  *)
(* names every child there is.                                             *)
(***************************************************************************)
THEOREM StopsOrdered == DriversSpec => []StopsInOrder
BY DriversAlways, StopsFollow, PTL

(***************************************************************************)
(* CoreConnectSingleController starts the best driver of those that can be *)
(* started, until none can: the list of the drivers is in the order of the *)
(* overrides and versions, and stays so when one is taken out of it.       *)
(***************************************************************************)
THEOREM BestConnected == DriversSpec => []BestDriversConnect
BY DriversAlways, BestFollow, PTL
=============================================================================
