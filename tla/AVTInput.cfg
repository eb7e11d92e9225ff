SPECIFICATION ASpec
CONSTANTS
    MaxIndex = 10
    Capacity = 2
    Frame <- MCFrame
    None = None
    RawIndex = {0}
    MaxPush = 20
    PadPort = TRUE
    PadLen = FALSE
    MaxPadQueue = 2
    Buf = 5
    Steady = FALSE
    MayTimeOut = FALSE
    MaxFrame = 12
    MaxPad = 0
    MaxFault = 1
    Window = 2
CHECK_DEADLOCK FALSE
INVARIANTS AssemblyInv SuperframesAligned ContiguousUnlessWarned TimestampTracks
