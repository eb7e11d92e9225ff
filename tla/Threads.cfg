SPECIFICATION MCFairSpec
CONSTANTS
    MAX_QUEUE_SIZE = 2
    MaxSend = 5
    MaxBreak = 2
    MaxQueue = 1
    Preroll = 1
    MaxWrite = 2
    MaxClient = 2
    MaxTimeouts = 1
    MaxServed = 2
    MaxBlock = 2
    Backends = {file, tracer}
    Tracers = {tracer}
    TraceMessages = {2}
    MaxLog = 4
CHECK_DEADLOCK FALSE
INVARIANTS ClientInv DispatcherInv DisconnectsMarked LogComplete
PROPERTIES DestructorsReturn QueuesDrain ImplementsLossyFifo WriteReturns
