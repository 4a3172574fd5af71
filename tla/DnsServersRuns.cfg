CONSTANTS
    Clients = {"c1", "c2"}
    Asks <- MCAsks
    Questions = {"q1", "q2"}
    Servers <- MCServers
    Conduct <- MCConduct
    Cacheable = {"q1"}
    Slots = 1
    MaxQueries = 2
    Strict = FALSE
    MaxMishaps = 1
    Configs <- MCConfigs
    FileLines <- MCFileLines
    Resolv <- MCResolv
    Contents <- MCContents
    Source <- MCSource
    Own <- MCOwn
    Names <- MCNames
    Wanted <- MCWanted
    MaxChanges = 3
    Coarse = FALSE
    Seen <- Addresses3
    SixSeen = {"a6"}
    Filling <- FillOrder
    Clearing <- ClearOrder
    Keeps <- KeptOf
    NoTwice = {"name"}
    Literals <- ZoneLiterals
    LateRestarts = FALSE
    MaxEntries = 12
    MaxTimes = 4
SPECIFICATION MCSpec
INVARIANT ConnectionsRight
INVARIANT ListsRight
PROPERTY LookupsRight
PROPERTY AllLetIn
CHECK_DEADLOCK FALSE
