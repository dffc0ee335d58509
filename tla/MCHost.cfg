SPECIFICATION Spec
CONSTANTS
    core = core  owner = owner
    Width = 16
    MemorySize = 4
    IoSize = 2
    PageSize = 2
    MemoryKinds <- MCMemoryKinds
    IoKinds <- MCIoKinds
    BitSets = {{}, {"RUNTIME"}, {"UC", "RUNTIME"}}
    CpuBits = {"UC"}
    RuntimeBit = "RUNTIME"
    PortIoBit = "PORT_IO"
    Owners = {owner}
    CoreOwner = core
    NoOwner = "none"
    MaxAlignment = 1
    MaxGcdCalls = 3
    db = db  boot = boot  x = x  y = y  X509 = X509
    Keys = {db, boot}
    Databases = {db}
    AttributeSets <- MCAttributes
    APPEND_WRITE = "APPEND"
    TIME_BASED = "TIME"
    Bytes = {x}
    SignatureTypes = {X509}
    Signatures = {x, y}
    Absent = Absent
    NULL = NULL
    Times = {1, 2}
    Payloads <- MCPayloads
    MaxBytes = 1
    MaxSetCalls = 4
    nic = nic  k1 = k1  k2 = k2  p = p  q = q  r = r
    low = low  bus = bus  leaf = leaf  alt = alt  fam = fam  spare = spare
    None = None
    Controllers = {nic, k1, k2}
    Drivers = {low, bus, leaf, alt, fam, spare}
    Protocols = {p, q, r}
    Initially <- MCInitially
    Consumes <- MCConsumes
    Produces <- MCProduces
    Children <- MCChildren
    ChildProtocol <- MCChildProtocol
    Image <- MCImage
    Version <- MCVersion
    FamilyVersion <- MCFamilyVersion
    PlatformOverride <- MCPlatformOverride
    BusOverride <- MCBusOverride
    Loadable = {fam}
    ConnectCalls <- MCConnectCalls
    DisconnectCalls <- MCDisconnectCalls
    Registry <- MCRegistry
    gFuzzHandle = nic
    MaxCalls = 2
    Unreliable = {low, bus, leaf}
CHECK_DEADLOCK FALSE
INVARIANTS MapsHold BestDriversConnect StopsInOrder
PROPERTIES ImplementsAddressSpace EnumerationServes ImplementsVariables CallsReturn
