SPECIFICATION FairSpec
CONSTANTS
    Dpcs = {d1, d2, d3}
    NoDpc = NoDpc
    MOCK_DPC_MAX_QUEUE = 2
    MaxCalls = 7
INVARIANTS RingKept
PROPERTIES ImplementsFifo DispatchServes
