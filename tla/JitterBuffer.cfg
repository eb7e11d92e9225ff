SPECIFICATION JFairSpec
CONSTANTS
    MaxIndex = 5
    Capacity = 3
    Frame = {0, 1, 2, 3, 4, 5, 6, 7}
    None = None
    RawIndex = {0, 1, 2, 3, 4, 5, 6, 7}
    MaxPush = 8
    MaxFrame = 8
    Window = 3
    MayLose = TRUE
    MayDuplicate = TRUE
CHECK_DEADLOCK FALSE
INVARIANTS TypeOK StockBounded Conservation StockInLoop
PROPERTIES PopOrder InOrder NoGapWithinWindow FullDrains
