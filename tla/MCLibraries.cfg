SPECIFICATION Spec
CHECK_DEADLOCK FALSE
CONSTANTS
    MaxUintn = 66000
    MaxUint64 = 1000000
    RSIZE_MAX = 3
    Heads = {h1, h2}
    Entries = {e1, e2, e3}
    Unset = Unset
    None = None
    NoPath = NoPath
    MaxPathSize = 1000
    PcdMaximumDevicePathNodeCount = 0
    Absent = Absent
    ConfigLanguage = xUEFI
    AllocationSize = 20
    ByteBits = 2
    Current = Current
    BitVarstore = BitVarstore
    FormSet1 = FormSet1
    FormSet2 = FormSet2
    Label1 = Label1
    Label2 = Label2
    Language1 = Language1
    Language2 = Language2
    IntBits = 12
    LongBits = 16
    PrintLimit = 0
    MAXIMUM_VALUE_CHARACTERS = 38
    MAX_DEBUG_MESSAGE_LENGTH = 512
    MAX_FORMAT_ARGS = 12
    NoText = NoText
INVARIANTS  WordsAsTold  HiiServed PrintedAsTold
