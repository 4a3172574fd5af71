CONSTANTS
    Clients = {"c1", "c2"}
    Questions = {"q1", "q2"}
    Asks <- MCAsks
    Patient <- MCPatient
    Large = {"q2"}
    Small = {"c1"}
    Cached = {"q1"}
    Servers = {"s1", "s2", "s3"}
    Group <- MCGroup
    Rcodes <- MCRcodes
    Source <- MCSource
    Fixed <- MCFixed
    Ports = {1, 2, 3}
    PortRange = 0
    RandSocks = 1
    RandLimit = 1
    FtabSize = 1
    Modes <- MCModes
    FastRetry = 1
    DupTime = 1
    Timeout = 1
    DropTime = 2
    ForwardTest = 1
    ForwardTime = 0
    MaxFlight = 1
    MaxMishaps = 1
SPECIFICATION Spec
INVARIANT BooksBalanced
PROPERTY AskersAnswered
