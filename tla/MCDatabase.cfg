SPECIFICATION PartSpec
CONSTANTS
    h1 = h1  h2 = h2  p1 = p1  p2 = p2  b1 = b1  b2 = b2
    r1 = r1  d1 = d1  d2 = d2  d3 = d3  app = app  core = core
    Handles = {h1, h2}
    Protocols = {p1, p2}
    Blocks = {b1, b2}
    Registrations = {r1}
    None = None
    ListHead = ListHead
    Openers <- MCOpeners
    MaxCount = 1
    MaxOpens = 2
    MaxDepth = 2
    DbHandles = {"h1", "h2"}
    DbProtocols = {"p", "path"}
    gEfiDevicePathProtocolGuid = "path"
    DevicePaths <- MCDevicePaths
    ProtocolLists <- MCProtocolLists
    EqualPaths = FALSE
    MaxKey = 4
    MaxRequests = 3
SYMMETRY Symmetry
INVARIANTS DatabaseLinked EachInstallOnce
PROPERTIES HoldersKept FailureUndone 
