-------------------------- MODULE HarnessIteration --------------------------
(***************************************************************************)
(* One fuzz input after another, in one process: ToolChainHarnessLib.c     *)
(* sets up the pool and the simulated time, runs the constructors and      *)
(* InitializeHarness on the bootstrap bytes of the first input, and hands  *)
(* the rest of every input to RunTestHarness of TestDhcp6Driver.c, which   *)
(* carves a sub-context for the UDP6 mock.  All bytes come from one input, *)
(* and who reads which decides whether a seed replays.                     *)
(*                                                                         *)
(* The mocks are called by the driver under test: in InitializeHarness, in *)
(* the API call, and in the callbacks of an advance of the clock.  With    *)
(* AFL++ a process runs one input.                                         *)
(***************************************************************************)
EXTENDS FuzzContext, Sequences

CONSTANTS
    Sizes,          \* sizes of the inputs
    BootstrapSize,  \* GetBootstrapSize
    RngBytes,       \* bytes of a random number
    Budgets,        \* values of the UDP6 budget of the header, as capped
    Payloads,       \* lengths of a datagram, as capped
    ApiReads,       \* sizes of the reads of an API handler
    MaxTokens       \* bound: deferred tokens

ASSUME HarnessAssumption ==
    /\ Sizes \subseteq Nat \ {0}
    /\ BootstrapSize \in Nat \ {0}
    /\ RngBytes \in Nat \ {0}
    /\ Budgets \subseteq Nat /\ Payloads \subseteq Nat /\ ApiReads \subseteq Nat
    /\ MaxTokens \in Nat

VARIABLES
    pc,                    \* where the harness is
    pool, Udp6Sub,         \* the contexts
    override,              \* gProtocolCtxTable maps UDP6 to Udp6Sub
    TimerAdvanceFn,        \* set in the pool
    advanceContext,        \* gMockEventAdvanceContext is set
    gTimerHostInitialized,
    mSetupDone,
    mDhcp6,                \* the driver's protocol is there
    advancing,             \* AdvanceInProgress
    due,                   \* tokens that this advance is to deliver
    tokens,                \* deferred tokens
    stale,                 \* those among them whose timers were dropped
    readers                \* who has read a byte of this input, in order

contextVars == <<pool, Udp6Sub, override>>
timeVars == <<TimerAdvanceFn, advanceContext, gTimerHostInitialized>>
tokenVars == <<due, tokens, stale>>
vars == <<pc, contextVars, timeVars, mSetupDone, mDhcp6, advancing, tokenVars, readers>>

HeaderSize == 4
U16 == 2

NoContext == MockFuzzContextInit(0)

Init ==
    /\ pc = "idle"
    /\ pool = NoContext /\ Udp6Sub = NoContext /\ override = FALSE
    /\ TimerAdvanceFn = FALSE /\ advanceContext = FALSE /\ gTimerHostInitialized = FALSE
    /\ mSetupDone = FALSE /\ mDhcp6 = FALSE
    /\ advancing = FALSE /\ due = 0 /\ tokens = 0 /\ stale = 0
    /\ readers = <<>>

Read(region, who) ==
    readers' = [p \in DOMAIN readers |-> IF p \in region THEN Append(readers[p], who) ELSE readers[p]]

-----------------------------------------------------------------------------
(* Whether the advance function is registered after a call that found fn.  *)
MockTimerInit(fn) == fn \/ ~gTimerHostInitialized

(* mutant: the function is left to MockTimerInit. *)
MockEventResetStateKeeps(fn) == fn

MockEventResetState(fn) == TRUE

(* A new input of n bytes, up to the constructors.  The reset of the timer *)
(* list drops the timers of the tokens that are still deferred.            *)
LLVMFuzzerTestOneInput(n) ==
    /\ pc = "idle"
    /\ pool' = MockFuzzContextSetLimit(MockFuzzContextInit(n), BootstrapSize)
    /\ TimerAdvanceFn' = MockEventResetState(MockTimerInit(FALSE))
    /\ gTimerHostInitialized' = TRUE
    /\ advanceContext' = TRUE
    /\ stale' = tokens
    /\ readers' = [p \in 0 .. n - 1 |-> <<>>]
    /\ pc' = IF mSetupDone THEN "bootstrapped" ELSE "setup"
    /\ UNCHANGED <<Udp6Sub, override, mSetupDone, mDhcp6, advancing, due, tokens>>

(* InitializeHarness ends; an error it returns is ignored. *)
InitializeHarness ==
    /\ pc = "setup"
    /\ mSetupDone' = TRUE
    /\ mDhcp6' \in BOOLEAN
    /\ pc' = "bootstrapped"
    /\ UNCHANGED <<contextVars, timeVars, advancing, tokenVars, readers>>

(* The payload starts at BootstrapSize, however much was read before. *)
PayloadStarts ==
    /\ pc = "bootstrapped"
    /\ pool' = MockFuzzContextAdvanceTo(MockFuzzContextClearLimit(pool), BootstrapSize)
    /\ pc' = "payload"
    /\ UNCHANGED <<Udp6Sub, override, timeVars, mSetupDone, mDhcp6, advancing, tokenVars, readers>>

(* RunTestHarness without a driver or a header. *)
RunNothing ==
    /\ pc = "payload"
    /\ ~mDhcp6 \/ MockFuzzContextRemaining(pool) < HeaderSize
    /\ pc' = "done"
    /\ UNCHANGED <<contextVars, timeVars, mSetupDone, mDhcp6, advancing, tokenVars, readers>>

(* RunTestHarness up to the API call: the header, then the carving of the  *)
(* UDP6 region, which is registered if it succeeds.                        *)
RunTestHarness(budget) ==
    /\ pc = "payload" /\ mDhcp6 /\ MockFuzzContextRemaining(pool) >= HeaderSize
    /\ LET header == MockFuzzContextConsume(pool, HeaderSize)
       IN  /\ pool' = ParentAfterCarve(header, budget)
           /\ Udp6Sub' = MockFuzzContextCreateSubContext(header, budget)
           /\ override' = CanConsume(header, budget)
    /\ Read(Region(pool, HeaderSize), "header")
    /\ pc' = "api"
    /\ UNCHANGED <<timeVars, mSetupDone, mDhcp6, advancing, tokenVars>>

(* An API handler reads its parameters. *)
ApiRead(count) ==
    /\ pc = "api" /\ ~advancing
    /\ pool' = MockFuzzContextConsume(pool, count)
    /\ Read(Region(pool, count), "api")
    /\ UNCHANGED <<pc, Udp6Sub, override, timeVars, mSetupDone, mDhcp6, advancing, tokenVars>>

(* AdvanceTime, up to the dispatch of the timers: two bytes say how far,   *)
(* which may be nowhere; without two bytes it is 200 ms.                   *)
AdvanceTime ==
    /\ pc \in {"api", "cleanup"} /\ ~advancing
    /\ IF TimerAdvanceFn /\ MockFuzzContextRemaining(pool) >= U16
       THEN /\ pool' = MockFuzzContextConsume(pool, U16)
            /\ Read(Region(pool, U16), "time")
            /\ due' \in {0, tokens - stale}
       ELSE /\ due' = IF TimerAdvanceFn THEN tokens - stale ELSE 0
            /\ UNCHANGED <<pool, readers>>
    /\ advancing' = TRUE
    /\ UNCHANGED <<pc, Udp6Sub, override, timeVars, mSetupDone, mDhcp6, tokens, stale>>

AdvanceTimeDone ==
    /\ advancing /\ due = 0
    /\ advancing' = FALSE
    /\ pc' = IF pc = "cleanup" THEN "done" ELSE pc
    /\ UNCHANGED <<contextVars, timeVars, mSetupDone, mDhcp6, tokenVars, readers>>

-----------------------------------------------------------------------------
(* The driver runs in InitializeHarness, in the API call, and when a token *)
(* or a timer of its own fires.                                            *)
DriverRuns == pc = "setup" \/ (mDhcp6 /\ (pc = "api" \/ advancing))

(* A mock reads from the context that ResolveContext finds. *)
Reader == IF pc = "setup" THEN "bootstrap" ELSE IF pc = "cleanup" THEN "late" ELSE "udp6"

(* The RNG mock has no override, and falls back on a generator of its own. *)
MockRngGetRNG ==
    /\ pc = "setup"
    /\ pool' = MockFuzzContextConsume(pool, RngBytes)
    /\ Read(Region(pool, RngBytes), "bootstrap")
    /\ UNCHANGED <<pc, Udp6Sub, override, timeVars, mSetupDone, mDhcp6, advancing, tokenVars>>

ResolveContext == IF override THEN Udp6Sub ELSE pool

(* Reads the next count bytes, which the context has. *)
Udp6Consume(count) ==
    /\ IF override
       THEN Udp6Sub' = MockFuzzContextConsume(Udp6Sub, count) /\ UNCHANGED pool
       ELSE pool' = MockFuzzContextConsume(pool, count) /\ UNCHANGED Udp6Sub
    /\ Read(Region(ResolveContext, count), Reader)

(* Without an advance context the token is signalled at once. *)
MockDeferredSchedule ==
    /\ tokens < MaxTokens
    /\ tokens' = IF advanceContext THEN tokens + 1 ELSE tokens
    /\ UNCHANGED <<due, stale>>

MockUdp6Transmit ==
    /\ DriverRuns
    /\ IF MockFuzzContextRemaining(ResolveContext) >= 1
       THEN Udp6Consume(1)
       ELSE UNCHANGED <<pool, Udp6Sub, readers>>
    /\ MockDeferredSchedule
    /\ UNCHANGED <<pc, override, timeVars, mSetupDone, mDhcp6, advancing>>

(* A length of two bytes, then as much of the payload as there is; without *)
(* either the token stays pending.  A context of size 0 gives a datagram   *)
(* of a fixed pattern.                                                     *)
MockUdp6Receive(length) ==
    /\ DriverRuns
    /\ LET available == MockFuzzContextRemaining(ResolveContext)
           payload   == IF length < available - U16 THEN length ELSE available - U16
       IN  CASE ResolveContext.size = 0 ->
                    MockDeferredSchedule /\ UNCHANGED <<pool, Udp6Sub, readers>>
             [] ResolveContext.size # 0 /\ available = 0 ->
                    UNCHANGED <<pool, Udp6Sub, readers, tokenVars>>
             [] available = 1 ->
                    Udp6Consume(1) /\ UNCHANGED tokenVars
             [] available >= U16 ->
                    /\ Udp6Consume(U16 + payload)
                    /\ IF payload > 0 THEN MockDeferredSchedule ELSE UNCHANGED tokenVars
    /\ UNCHANGED <<pc, override, timeVars, mSetupDone, mDhcp6, advancing>>

(* Cancel of everything, from Configure without data. *)
MockDeferredCancelAll ==
    /\ DriverRuns
    /\ tokens' = 0 /\ stale' = 0 /\ due' = 0
    /\ UNCHANGED <<pc, contextVars, timeVars, mSetupDone, mDhcp6, advancing, readers>>

DeliverCallback ==
    /\ advancing /\ due > 0
    /\ due' = due - 1 /\ tokens' = tokens - 1
    /\ UNCHANGED <<pc, contextVars, timeVars, mSetupDone, mDhcp6, advancing, stale, readers>>

(* FuzzDriverStop, a handler of its own: the driver goes, and              *)
(* MockProtocolResetAll drops the tokens and the overrides.                *)
FuzzDriverStop ==
    /\ pc = "api" /\ ~advancing /\ mDhcp6
    /\ mDhcp6' = FALSE
    /\ tokens' = 0 /\ stale' = 0
    /\ override' = FALSE
    /\ pc' = "apiDone"
    /\ UNCHANGED <<pool, Udp6Sub, timeVars, mSetupDone, advancing, due, readers>>

ApiReturn ==
    /\ pc = "api" /\ ~advancing
    /\ pc' = "apiDone"
    /\ UNCHANGED <<contextVars, timeVars, mSetupDone, mDhcp6, advancing, tokenVars, readers>>

(* RunTestHarness after the API call; the last AdvanceTime follows. *)
ClearOverride ==
    /\ pc = "apiDone"
    /\ override' = FALSE
    /\ pc' = "cleanup"
    /\ UNCHANGED <<pool, Udp6Sub, timeVars, mSetupDone, mDhcp6, advancing, tokenVars, readers>>

IterationEnds ==
    /\ pc = "done"
    /\ pool' = MockFuzzContextReset(pool)
    /\ override' = FALSE
    /\ pc' = "idle"
    /\ UNCHANGED <<Udp6Sub, timeVars, mSetupDone, mDhcp6, advancing, tokenVars, readers>>

Driver ==
    \/ MockRngGetRNG
    \/ MockUdp6Transmit
    \/ \E length \in Payloads : MockUdp6Receive(length)
    \/ MockDeferredCancelAll

Harness ==
    \/ \E n \in Sizes : LLVMFuzzerTestOneInput(n)
    \/ InitializeHarness
    \/ PayloadStarts
    \/ RunNothing
    \/ \E budget \in Budgets : RunTestHarness(budget)
    \/ \E count \in ApiReads : ApiRead(count)
    \/ AdvanceTime
    \/ AdvanceTimeDone
    \/ DeliverCallback
    \/ FuzzDriverStop
    \/ ApiReturn
    \/ ClearOverride
    \/ IterationEnds

Next == Driver \/ Harness

Spec == Init /\ [][Next]_vars

-----------------------------------------------------------------------------
(* Every byte of an input decides one thing: no two reads return it,       *)
(* whatever mixture of contexts, limits and overrides they go through.     *)
NoByteTwice == \A p \in DOMAIN readers : Len(readers[p]) <= 1

(***************************************************************************)
(* The layout that the seeds are built for: the bootstrap reads only the   *)
(* first BootstrapSize bytes and nobody else reads those, then comes the   *)
(* header, then the region that the UDP6 mock reads during the API call    *)
(* and no one else ever.                                                   *)
(***************************************************************************)
SeedLayout ==
    LET By(who) == {p \in DOMAIN readers : \E i \in 1 .. Len(readers[p]) : readers[p][i] = who}
        region  == Udp6Sub.base .. Udp6Sub.base + Udp6Sub.size - 1
    IN  /\ By("bootstrap") \subseteq 0 .. BootstrapSize - 1
        /\ By("header") \subseteq BootstrapSize .. BootstrapSize + HeaderSize - 1
        /\ pc \in {"api", "apiDone", "cleanup", "done"} /\ By("header") # {} =>
               /\ By("udp6") \subseteq region
               /\ \A who \in {"api", "time", "late"} :
                      By(who) \subseteq
                          {p \in DOMAIN readers : p >= BootstrapSize + HeaderSize + Udp6Sub.size}

(* Whenever time can advance, for every input and not only the first, the  *)
(* pool has the function that advances it and the tokens of the mocks are  *)
(* deferred to it.                                                         *)
ClockConnected == pc # "idle" => TimerAdvanceFn /\ advanceContext

(* Udp6Sub is a local of RunTestHarness: no override refers to it once the *)
(* API call is over, so none can be followed in the time advance after it. *)
OverrideScoped == override => pc \in {"api", "apiDone"}

(* The bytes of an input are used once, each for what the layout says,     *)
(* through MockFuzzContextConsume, CreateSubContext, the pump and the      *)
(* override of the UDP6 context, which ends with its call.                 *)
LayoutKept == NoByteTwice /\ SeedLayout /\ OverrideScoped

(***************************************************************************)
(* A carving of no bytes succeeds (FuzzContextLib.c:162 and                *)
(* TestDhcp6Driver.c:2316).                                                *)
(***************************************************************************)
EmptyCarveSucceeds == [][RunTestHarness(0) => override']_vars

(***************************************************************************)
(* No deferred token outlives its input: MockDeferredSignal.h:35, "Reset   *)
(* is called per fuzz iteration by MockEventResetState".                   *)
(***************************************************************************)
TokensReset == pc \in {"setup", "bootstrapped"} => stale = 0
=============================================================================
