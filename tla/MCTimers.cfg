CONSTANTS
    e1 = e1  e2 = e2  e3 = e3  G = G
    UserEvents = {e1, e2}
    CheckTimer = CheckTimer  Idle = Idle  NoEvent = NoEvent
    NoGroup = NoGroup  IdleGroup = IdleGroup
    Requests <- TimerRequests
    WaitLists <- PollLists
    Delays = {0, 1, 2}
    Durations = {1, 3}
    DefaultPeriod = 1  PollTick = 1  MaxIterations = 2
    MaxCalls = 5
SPECIFICATION FairSpec
INVARIANTS TimersServed
PROPERTIES TimeConserved Drained WaitReturns
