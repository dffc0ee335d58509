SPECIFICATION Spec
CONSTANTS
    Guid <- MCGuid
    NotaPpi = {"bad ppi", "bad notify"}
    Dispatched = {"dispatch 1", "dispatch 2"}
    PpiLists <- MCPpiLists
    NotifyLists <- MCNotifyLists
    Reinstalls <- MCReinstalls
    MaxPeiCalls = 5
    ArenaSize = 17
    HeaderSize = 1
    TableSize = 4
    Size <- MCSize
    HobGuids = {"a", "b"}
    HobAddresses = {1, 2}
    GuidDataLengths = {0, 2}
    NoName = NoName
    HandlerTypes = {"sw"}
    Root = Root
    StaleHandles = TRUE
    MaxHandlers = 3
    MaxSmis = 2
    SmmProtocolIds = {"smm 1", "smm 2"}
    SmmFunctions = {"f", "g"}
    ListHead = ListHead
    MaxSmmInterfaces = 3
    MaxSmmRegistrations = 2
    MaxLocates = 1
    Vendors = {"v1", "v2", "v3"}
    Tables = {"t1", "t2"}
    NoTable = NoTable
    MAX_CONFIG_TABLE_ENTRIES = 2
    CONFIG_TABLE_SIZE_INCREASED = 2
    PoolEmpties = FALSE
    DataTypes = {"policy", "gateway"}
    Required = {"policy"}
    Listeners = {"e1", "e2"}
    MAX_DATA_NOTIFY_REGISTRATIONS = 3
    NotInUse = NotInUse
    MaxNotices = 3
    Buffers = {"b1", "b2"}
    NoBuffer = NoBuffer
    Filters = {"multicast"}
    MediaHeader = 2
    MaxFrame = 3
    FrameInput = 7
    MaxSent = 3
    Tokens = {"t1", "t2"}
    NoContext = NoContext
    InputSizes = {0, 7}
    CarvedSizes = {4}
    MaxPayload = 2
    DefaultPayload = 1
CHECK_DEADLOCK FALSE
INVARIANT OthersStay
