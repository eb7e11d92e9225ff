SPECIFICATION Spec
CONSTANTS
    MAX_QUEUE_SIZE = 2
    MaxSend = 3
    MaxBreak = 1
CHECK_DEADLOCK FALSE
INVARIANTS NoDescriptorLeak
