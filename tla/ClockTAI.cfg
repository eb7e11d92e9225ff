SPECIFICATION TFairSpec
CONSTANTS
    Leaps = {2, 4}
    Expiries = {2, 4, 8}
    NumUrls = 1
    MaxHour = 6
    MaxRestart = 1
    MaxStore = 1
CHECK_DEADLOCK FALSE
INVARIANTS RefreshInv OffsetCorrect
PROPERTIES OffsetMonotonic LeapApplied
