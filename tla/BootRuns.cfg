CONSTANTS
    HeapAddrs = {a1, a2}
    Requests <- Mixed
    Content <- SmallFiles
    DefaultBlock = 2
    MaxBlock = 2
    MaxWindow = 2
    TransferTime = 3
    TftpMax = 1
    Wrap = 8
    MaxTransfers = 4
    MaxTrouble = 1
    Machines <- Names
    Hash <- Hash2
    Clids <- Clids2
    Hosts <- Hosts2
    PoolSize = 3
    Router = 0
    LeaseTime = 2
    RenewAt = 1
    Backoff = 2
    PingCache = 0
    MaxLeases = 3
    MaxMishaps = 2
SPECIFICATION MCSpec
INVARIANT LeasesSound
PROPERTY DownloadsRight
PROPERTY MachinesServed
CHECK_DEADLOCK FALSE
