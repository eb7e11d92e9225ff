SPECIFICATION MCSpec
CONSTANTS
    NULL = NULL
    MaxSymbol = 255
    Params <- MCParams
    Unset = {0, 3}
    Data <- MCData
    Damage = {1, 6}
    MaxDamage = 3
    MaxFalse = 1
    Messages <- MCMessages
    Bursts <- MCBursts
    NoUri = NoUri
    Confs <- MCConfs
    FirstFrame = 4998
    MaxDatagram = 4
    UseZMQ = TRUE
    UseEDI = TRUE
    TistEnabled = TRUE
    DelayMs = 500
    StartMs = 700
    MaxErrors = 2
    TaiMayFail = TRUE
    MaxSuperframe = 5
    DacRate48 = FALSE
    Sbr = TRUE
    UseStats = TRUE
CHECK_DEADLOCK FALSE
INVARIANTS OutputInv LevelsFresh LevelsAgree
    EncodesCodeword Corrects CrcCorrect
    EncoderSetOnlyIfValid OnlyWholeFramesPushed AgreedFramesAccepted JumpsAreGaps
