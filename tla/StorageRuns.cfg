CONSTANTS
    SectorBytes = 8
    UpcaseBytes = 24
    MaxClusters = 70
    MinVolume = 22
    DefaultSpc = 1
    MaxSpc = 4
    Rounds = 64
    Volumes <- Lengths
    Clusters <- Sizes
    HadVentoy = {TRUE}
    JobKinds = {"mbr", "gpt", "update", "isoPartial"}
    MaxJobs = 2
    Chunks = 2
    MaxMishaps = 1
    Threads = {t1, t2}
    MaxFaults = 1
    MaxCrashes = 1
    Images = {1}
    MaxTaps = 3
SPECIFICATION MCSpec
SYMMETRY Symmetry
INVARIANT LayoutFits
INVARIANT FormattedMounts
 
INVARIANT ResultsHonest
INVARIANT SessionsKept
PROPERTY DoneIsThere
PROPERTY BootCodeLast
CHECK_DEADLOCK FALSE
