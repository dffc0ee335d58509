CONSTANTS
    e1 = e1  e2 = e2  e3 = e3  G = G
    UserEvents = {e1, e2, e3}
    CheckTimer = CheckTimer  Idle = Idle  NoEvent = NoEvent
    NoGroup = NoGroup  IdleGroup = IdleGroup
    Requests <- NotifyRequests
    WaitLists <- NoWaitLists
    Delays = {}
    Durations = {}
    DefaultPeriod = 1  PollTick = 1  MaxIterations = 1
    MaxCalls = 6
SPECIFICATION Spec
INVARIANTS TypeOK LevelsRespected 
PROPERTIES ImplementsScheduler
