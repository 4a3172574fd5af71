CONSTANTS
    Names <- MCNames
    Bucket <- MCBucket
    LongNames = {"cdn"}
    Cells = {"r1", "r2", "r3"}
    LocalCells = {"l1", "l2", "l3", "l4"}
    BigNames = 2
    Replies <- MCReplies
    Hosts <- MCHosts
    Leases <- MCLeases
    Questions <- MCQuestions
    MaxExpiry = 0
    MaxCacheTtl = 0
    MaxReplies = 3
    MaxUpdates = 1
SPECIFICATION Spec
INVARIANT CacheSound
INVARIANT AnswersRight
