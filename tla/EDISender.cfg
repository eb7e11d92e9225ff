SPECIFICATION FairSpec
CONSTANTS
    Confs <- MCConfs
    VersionLen = 40
    Micro = 1
    Spread = 10
    WriteUntil = 3
    MaxPackets = 2
CHECK_DEADLOCK FALSE
INVARIANTS PendingInv Recoverable
PROPERTIES PendingSent DestructorEnds
