---------------------------- MODULE DatagramMocks ----------------------------
(***************************************************************************)
(* The mocks of the IPv6 and UDPv6 protocols.  Receive builds a datagram   *)
(* out of the next bytes of the fuzz input, a length hint and then the     *)
(* data, Transmit takes one byte for its status; both complete their token *)
(* later, through MockDeferredSchedule.  DeferredSignal models how the     *)
(* completions run; here `deferred` is their order.                        *)
(***************************************************************************)
EXTENDS FuzzContext, Sequences, SequencesExt, FiniteSets

CONSTANTS
    Tokens,
    NoContext,
    InputSizes, CarvedSizes,   \* the sizes of the input and of what is carved from it
    MaxPayload, DefaultPayload \* 1460 or 1452, and the 64 of IPv6

Mocks == {"Ip6", "Udp6"}

ASSUME MocksAssumption ==
    /\ InputSizes \cup CarvedSizes \cup {MaxPayload} \subseteq Nat
    /\ DefaultPayload \in 1 .. MaxPayload

VARIABLES
    pool, override,  \* the fuzz contexts
    configured,      \* mMockIp6Configured, mMockUdp6Configured
    deferred,        \* the tokens scheduled
    token            \* whose each token is, and what its caller finds in it

mockVars == <<pool, override, configured, deferred, token>>

Idle == [of |-> "caller", status |-> "none", frame |-> {}, payload |-> 0]

(* The harness may carve a context for one of the mocks.                   *)
MocksInit ==
    /\ \E n \in InputSizes, m \in Mocks :
          LET input == MockFuzzContextInit(n) IN
          \/ pool = input /\ override = [x \in Mocks |-> NoContext]
          \/ \E carved \in CarvedSizes :
                /\ CanConsume(input, carved)
                /\ pool = ParentAfterCarve(input, carved)
                /\ override = [x \in Mocks |-> IF x = m THEN MockFuzzContextCreateSubContext(input, carved)
                                               ELSE NoContext]
    /\ configured = {} /\ deferred = <<>>
    /\ token = [t \in Tokens |-> Idle]

-----------------------------------------------------------------------------
ResolveContext(m) == IF override[m] = NoContext THEN pool ELSE override[m]

(* ConsumeFuzzBytes: how many bytes it takes, and the context behind them. *)
(* Without any input it makes up as many as it is asked for.               *)
Consumed(c, n) ==
    IF c.size = 0 \/ n < MockFuzzContextRemaining(c) THEN n ELSE MockFuzzContextRemaining(c)

ConsumeFuzzBytes(c, n) ==
    IF c.size = 0 \/ MockFuzzContextRemaining(c) = 0 THEN c ELSE MockFuzzContextConsume(c, Consumed(c, n))

Leaves(m, c) ==
    IF override[m] = NoContext THEN pool' = c /\ UNCHANGED override
    ELSE override' = [override EXCEPT ![m] = c] /\ UNCHANGED pool

(* A mock is called with a token of which nothing is outstanding.          *)
Called(m, t) == m \in configured /\ token[t].of \in {"caller", "signalled"}

Complete(m, t, status, frame, payload) ==
    /\ token' = [token EXCEPT ![t] = [of |-> m, status |-> status, frame |-> frame, payload |-> payload]]
    /\ deferred' = Append(deferred, t)

Configure ==
    \E m \in Mocks : configured' = configured \cup {m} /\ UNCHANGED <<pool, override, deferred, token>>

(* MockDeferredCancelAll, which takes no notice of tokens left pending.    *)
Returned(ts) ==
    /\ deferred' = SelectSeq(deferred, LAMBDA t : t \notin ts)
    /\ token' = [t \in Tokens |-> IF t \in ts THEN Idle ELSE token[t]]

Unconfigure ==
    \E m \in Mocks :
        /\ configured' = configured \ {m}
        /\ Returned({t \in Tokens : token[t].of = m})
        /\ UNCHANGED <<pool, override>>

Transmit ==
    \E m \in Mocks, t \in Tokens :
        /\ Called(m, t)
        /\ LET c == ResolveContext(m) IN
           IF MockFuzzContextRemaining(c) >= 1
           THEN /\ Leaves(m, MockFuzzContextConsume(c, 1))
                /\ \E status \in {"EFI_SUCCESS", "EFI_NETWORK_UNREACHABLE", "EFI_TIMEOUT", "EFI_ABORTED"} :
                      Complete(m, t, status, Region(c, 1), 0)
           ELSE Complete(m, t, "EFI_SUCCESS", {}, 0) /\ UNCHANGED <<pool, override>>
        /\ UNCHANGED configured

(* The sizes that a hint may ask for.                                      *)
Sizes(m, c) ==
    IF c.size = 0 THEN {MaxPayload}
    ELSE IF m = "Udp6" THEN 0 .. MaxPayload
    ELSE 1 .. MaxPayload

(* The positions of the next n bytes.                                      *)
Bytes(c, n) == Region(c, Consumed(c, n))

(* mutant: a token is completed when there is no input for it.             *)
CompletedEmpty(m, t) == Complete(m, t, "EFI_ABORTED", {}, 0)

(* The token is left with the mock but nothing will complete it.           *)
LeftPending(m, t) ==
    token' = [token EXCEPT ![t] = [Idle EXCEPT !.of = m]] /\ UNCHANGED deferred

(* A datagram without data leaves a UDPv6 token pending.                   *)
NothingToDeliver(payload) == payload = 0

MockIp6Receive ==
    \E t \in Tokens, allocated \in BOOLEAN :
        /\ Called("Ip6", t)
        /\ LET c == ResolveContext("Ip6")
               behindHint == ConsumeFuzzBytes(c, 2)
               behindHeader == ConsumeFuzzBytes(behindHint, 1)
               header == Bytes(c, 2) \cup Bytes(behindHint, 1)
           IN  IF Consumed(c, 2) = 0
               THEN Complete("Ip6", t, "EFI_ABORTED", {}, 0) /\ UNCHANGED <<pool, override>>
               ELSE IF ~allocated
               THEN /\ Complete("Ip6", t, "EFI_OUT_OF_RESOURCES", header, 0)
                    /\ Leaves("Ip6", behindHeader)
               ELSE \E size \in Sizes("Ip6", c) :
                       /\ Complete("Ip6", t, "EFI_SUCCESS", header \cup Bytes(behindHeader, size),
                                   Consumed(behindHeader, size))
                       /\ Leaves("Ip6", ConsumeFuzzBytes(behindHeader, size))
        /\ UNCHANGED configured

MockUdp6Receive ==
    \E t \in Tokens, allocated \in BOOLEAN :
        /\ Called("Udp6", t)
        /\ LET c == ResolveContext("Udp6")
               behindHint == ConsumeFuzzBytes(c, 2)
           IN  IF Consumed(c, 2) < 2
               THEN LeftPending("Udp6", t) /\ Leaves("Udp6", behindHint)
               ELSE IF ~allocated
               THEN /\ Complete("Udp6", t, "EFI_OUT_OF_RESOURCES", Bytes(c, 2), 0)
                    /\ Leaves("Udp6", behindHint)
               ELSE \E size \in Sizes("Udp6", c) :
                       LET payload == Consumed(behindHint, size) IN
                       /\ IF NothingToDeliver(payload) THEN LeftPending("Udp6", t)
                          ELSE Complete("Udp6", t, "EFI_SUCCESS", Bytes(c, 2) \cup Bytes(behindHint, size),
                                        payload)
                       /\ Leaves("Udp6", ConsumeFuzzBytes(behindHint, size))
        /\ UNCHANGED configured

(* Cancel returns the token without signalling it.                         *)
Cancel ==
    \E t \in Tokens :
        /\ token[t].of \in configured
        /\ Returned({t})
        /\ UNCHANGED <<pool, override, configured>>

(* The token's event is signalled.                                         *)
Signal ==
    /\ deferred # <<>>
    /\ deferred' = Tail(deferred)
    /\ token' = [token EXCEPT ![Head(deferred)].of = "signalled"]
    /\ UNCHANGED <<pool, override, configured>>

(* ResetState of both mocks, from MockProtocolResetAll.                    *)
ResetMocks ==
    /\ configured' = {} /\ deferred' = <<>>
    /\ token' = [t \in Tokens |-> Idle]
    /\ UNCHANGED <<pool, override>>

MocksNext ==
    \/ Configure \/ Unconfigure \/ Transmit \/ MockIp6Receive \/ MockUdp6Receive \/ Cancel \/ Signal
    \/ ResetMocks

MocksSpec == MocksInit /\ [][MocksNext]_mockVars

-----------------------------------------------------------------------------
(* Datagrams are cut from the input one behind the other, whichever mock   *)
(* asks for them: no byte is in the hint, header or data of two tokens,    *)
(* and a datagram is as long as its data.  One of UDPv6 is not empty, for  *)
(* "with no payload to deliver, real Udp6 would simply keep the token      *)
(* pending rather than complete an empty datagram".                        *)
DatagramsCut ==
    \A t \in Tokens :
        LET bytes == Cardinality(token[t].frame) IN
        /\ \A u \in Tokens \ {t} : token[t].frame \cap token[u].frame = {}
        /\ token[t].of = "Udp6" /\ token[t].status = "EFI_SUCCESS" /\ bytes > 1 =>
               token[t].payload > 0 /\ token[t].payload = bytes - 2

(* UDPv6 tokens complete as long as there is input and no longer, however  *)
(* often the driver hands them in again from their completions: "Only      *)
(* Cancel/Reset may abort a token".  A context without bytes is made up    *)
(* for and goes on for ever.                                               *)
UdpReceives == MockUdp6Receive /\ deferred' # deferred
ReceptionEnds == ResolveContext("Udp6").size > 0 => <>[][~UdpReceives]_mockVars

(* Receptions take the input apart into datagrams until it is used up.     *)
DatagramsServed == []DatagramsCut /\ ReceptionEnds
=============================================================================
