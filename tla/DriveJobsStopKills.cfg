SPECIFICATION JobsSpec
CONSTANTS
    HadVentoy = {TRUE, FALSE}
    JobKinds = {"mbr", "gpt", "update"}
    MaxJobs = 1
    Chunks = 2
    MaxMishaps = 0
CHECK_DEADLOCK FALSE
INVARIANT
    StopNeverKills
