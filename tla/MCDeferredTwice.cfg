SPECIFICATION DeferredSpec
CONSTANTS
    d1 = d1  d2 = d2  t1 = t1  t2 = t2  e1 = e1  e2 = e2
    Dpcs <- MCDpcs
    NoDpc = NoDpc
    MOCK_DPC_MAX_QUEUE = 2
    MaxCalls = 5
    Tokens <- MCTokens
    NotifyTokens <- MCNotifyTokens
    DpcOf <- MCDpcOf
    Entries <- MCEntries
    NoEntry = NoEntry
    MaxTime = 2
CHECK_DEADLOCK FALSE
INVARIANTS
    FreedOnce
