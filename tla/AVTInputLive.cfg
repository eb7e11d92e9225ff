SPECIFICATION AFairSpec
CONSTANTS
    MaxIndex = 10
    Capacity = 3
    Frame <- MCFrame
    None = None
    RawIndex = {0}
    MaxPush = 30
    PadPort = TRUE
    PadLen = TRUE
    MaxPadQueue = 2
    Buf = 5
    Steady = TRUE
    MayTimeOut = TRUE
    MaxFrame = 15
    MaxPad = 3
    MaxFault = 1
    Window = 1
CHECK_DEADLOCK FALSE
INVARIANTS PADInv
PROPERTIES Recovers
