---------------------------- MODULE SimpleNetwork ----------------------------
(***************************************************************************)
(* The mock of the simple network protocol: the states of the interface,   *)
(* the one transmit buffer that it remembers, its statistics, and frames   *)
(* cut from the fuzz input.  The calls that fail without an effect are not *)
(* steps.                                                                  *)
(***************************************************************************)
EXTENDS FuzzContext

CONSTANTS
    Buffers, NoBuffer,
    Filters,                \* the receive filters
    MediaHeader, MaxFrame,  \* MediaHeaderSize, and MaxPacketSize with it
    FrameInput,             \* the bytes of the input
    MaxSent                 \* bound: the transmissions

ASSUME NetworkAssumption ==
    MediaHeader \in Nat \ {0} /\ MaxFrame \in Nat /\ MaxFrame >= MediaHeader

VARIABLES
    State,                  \* EfiSimpleNetwork...
    mLastTxBuf, mTxBufRecycled,
    statistics,             \* the frames counted in mMockSnpStatistics
    mode,                   \* ReceiveFilterSetting, MCastFilterCount and CurrentAddress
    frames,                 \* the context that Receive resolves
    awaited,                \* the buffers that the driver waits for
    sent                    \* the transmissions made

snpVars == <<State, mLastTxBuf, mTxBufRecycled, statistics, mode, frames, awaited, sent>>
txBuffer == <<mLastTxBuf, mTxBufRecycled>>

InitModeDefaults == [filters |-> {}, multicast |-> 0, address |-> "permanent"]
NoFrames == [tx |-> 0, rx |-> 0]

SnpInit ==
    /\ State = "Stopped"
    /\ mLastTxBuf = NoBuffer /\ mTxBufRecycled = TRUE
    /\ statistics = NoFrames /\ mode = InitModeDefaults
    /\ frames = MockFuzzContextInit(FrameInput)
    /\ awaited = {} /\ sent = 0

-----------------------------------------------------------------------------
ForgetBuffer == mLastTxBuf' = NoBuffer /\ mTxBufRecycled' = TRUE

MockSnpStart ==
    /\ State = "Stopped" /\ State' = "Started"
    /\ UNCHANGED <<txBuffer, statistics, mode, frames, awaited, sent>>

(* The driver gives up its buffers when it stops the interface.            *)
MockSnpStop ==
    /\ State # "Stopped" /\ State' = "Stopped"
    /\ awaited' = {}
    /\ UNCHANGED <<txBuffer, statistics, mode, frames, sent>>

(* mutant: what an interface stopped without Shutdown remembers survives.  *)
InitializeKeeps ==
    /\ State = "Started" /\ State' = "Initialized"
    /\ UNCHANGED <<txBuffer, statistics, mode, frames, awaited, sent>>

MockSnpInitialize ==
    /\ State = "Started" /\ State' = "Initialized"
    /\ ForgetBuffer
    /\ UNCHANGED <<statistics, mode, frames, awaited, sent>>

MockSnpReset ==
    /\ State = "Initialized"
    /\ ForgetBuffer /\ statistics' = NoFrames /\ awaited' = {}
    /\ UNCHANGED <<State, mode, frames, sent>>

MockSnpShutdown ==
    /\ State = "Initialized" /\ State' = "Started"
    /\ ForgetBuffer /\ statistics' = NoFrames /\ awaited' = {}
    /\ UNCHANGED <<mode, frames, sent>>

MockSnpReceiveFilters ==
    \E Enable, Disable \in SUBSET Filters, count \in {mode.multicast, 0, 1} :
        /\ State = "Initialized"
        /\ mode' = [mode EXCEPT !.filters = (@ \cup Enable) \ Disable, !.multicast = count]
        /\ UNCHANGED <<State, txBuffer, statistics, frames, awaited, sent>>

MockSnpStationAddress ==
    \E address \in {"permanent", "new"} :
        /\ State = "Initialized"
        /\ mode' = [mode EXCEPT !.address = address]
        /\ UNCHANGED <<State, txBuffer, statistics, frames, awaited, sent>>

MockSnpStatistics ==
    /\ State = "Initialized"
    /\ statistics' = NoFrames
    /\ UNCHANGED <<State, txBuffer, mode, frames, awaited, sent>>

(* The buffer that GetStatus hands back.                                   *)
Recycled == IF ~mTxBufRecycled /\ mLastTxBuf # NoBuffer THEN {mLastTxBuf} ELSE {}

MockSnpGetStatus ==
    /\ State = "Initialized" /\ Recycled # {}
    /\ mTxBufRecycled' = TRUE
    /\ awaited' = awaited \ Recycled
    /\ UNCHANGED <<State, mLastTxBuf, statistics, mode, frames, sent>>

(* A second transmission takes the place of the first.                     *)
MockSnpTransmit ==
    \E Buffer \in Buffers \ awaited :
        /\ State = "Initialized" /\ sent < MaxSent /\ sent' = sent + 1
        /\ mLastTxBuf' = Buffer /\ mTxBufRecycled' = FALSE
        /\ statistics' = [statistics EXCEPT !.tx = @ + 1]
        /\ awaited' = awaited \cup {Buffer}
        /\ UNCHANGED <<State, mode, frames>>

(* ConsumeFuzzBytes, which takes what there is.                            *)
Taking(c, n) ==
    LET left == MockFuzzContextRemaining(c) IN
    IF left = 0 THEN c ELSE MockFuzzContextConsume(c, IF n > left THEN left ELSE n)

(* The hint is gone even when the driver's buffer is too small.            *)
MockSnpReceive ==
    \E PacketLen, BufferSize \in MediaHeader .. MaxFrame :
        /\ State = "Initialized" /\ MockFuzzContextRemaining(frames) > 0
        /\ IF BufferSize < PacketLen
           THEN frames' = Taking(frames, 2) /\ UNCHANGED statistics
           ELSE /\ frames' = Taking(Taking(frames, 2), PacketLen)
                /\ statistics' = [statistics EXCEPT !.rx = @ + 1]
        /\ UNCHANGED <<State, txBuffer, mode, awaited, sent>>

(* ResetState, between two inputs.                                         *)
ResetNetwork ==
    /\ State' = "Stopped" /\ ForgetBuffer /\ statistics' = NoFrames /\ mode' = InitModeDefaults
    /\ awaited' = {}
    /\ UNCHANGED <<frames, sent>>

SnpNext ==
    \/ MockSnpStart \/ MockSnpStop \/ MockSnpInitialize \/ MockSnpReset \/ MockSnpShutdown
    \/ MockSnpReceiveFilters \/ MockSnpStationAddress \/ MockSnpStatistics
    \/ MockSnpGetStatus \/ MockSnpTransmit \/ MockSnpReceive \/ ResetNetwork

SnpSpec == SnpInit /\ [][SnpNext]_snpVars

-----------------------------------------------------------------------------
(* GetStatus hands a transmit buffer back only to a driver that waits for  *)
(* it: once for a transmission, and never one of before the interface was  *)
(* stopped, shut down or reset, whose memory the driver has freed.         *)
BuffersAwaited == State = "Initialized" => Recycled \subseteq awaited
=============================================================================
