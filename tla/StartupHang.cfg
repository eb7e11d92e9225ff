SPECIFICATION StartSpec
CONSTANTS
    NoUri = NoUri
    Confs <- MCConfs
CHECK_DEADLOCK FALSE
PROPERTIES PrepareReturns
