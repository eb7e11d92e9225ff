SPECIFICATION Spec
CONSTANTS
    UseZMQ = FALSE
    UseEDI = TRUE
    TistEnabled = TRUE
    DelayMs = 500
    StartMs = 700
    MaxErrors = 10
    TaiMayFail = FALSE
    MaxSuperframe = 3
    DacRate48 = TRUE
    Sbr = TRUE
    UseStats = FALSE
CHECK_DEADLOCK FALSE
INVARIANTS TimestampOfSuperframe
