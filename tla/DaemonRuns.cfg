CONSTANTS
    Threads = {t1}
    Addresses = {1, 2}
    MayOverlap = FALSE
    MaxStarts = 3
    MaxTaps = 4
    MaxFaults = 2
    Addrs = {"a1", "a2"}
    Six = {}
    Clients = {"c1", "c2"}
    Names = {"n"}
    NoName = "-"
    Nobody = "nobody"
    Confs <- OneNamed
    PipeRoom = 1
    Garbles = FALSE
    Overlap = FALSE
    MaxChanges = 3
    MaxRestarts = 1
    Modes = {"file", "socket", "none"}
    MaxLogs = 1
    SockRoom = 1
    MaxMessages = 3
    MaxTrouble = 1
    MaxAsks = 1
    Neighbours = {"a1", "a2"}
    Macs = {"m1", "m2"}
    NoMac = "-"
    Twice = FALSE
    MaxMoves = 2
    MaxFinds = 2
SPECIFICATION MCSpec
INVARIANT PhoneFollows
 
INVARIANT LogRight
PROPERTY TableFollowed
PROPERTY StopStops
PROPERTY EachCatchesUp
CHECK_DEADLOCK FALSE
