CONSTANTS
    Callers = {c1, c2}
    Starters = {c1}
    MaxSessions = 2
    MaxEnables = 2
    MayFail = TRUE
    WaitsForEnable = TRUE
SPECIFICATION FairBackendSpec
INVARIANT ThreadsSound
 
CHECK_DEADLOCK FALSE
