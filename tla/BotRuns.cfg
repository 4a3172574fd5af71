CONSTANTS
    Requests <- AllRequests
    InfoLength = 1
    Packet = 2
    MediumFails = TRUE
    MaxCalls = 4
    MaxCommands = 2
    Blocks = 2
    Tries = 3
    TagMax = 40
SPECIFICATION MCSpec
 
INVARIANT NoOpEarned
PROPERTY TargetSpec
PROPERTY KeepsPromise
PROPERTY MethodComesBack
CHECK_DEADLOCK FALSE
