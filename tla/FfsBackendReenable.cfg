SPECIFICATION FairBackendSpec
CONSTANTS
    Callers = {c1}
    Starters = {c1}
    MaxSessions = 1
    MaxEnables = 2
    MayFail = FALSE
    WaitsForEnable = TRUE
PROPERTIES
    EnableServed
CHECK_DEADLOCK FALSE
