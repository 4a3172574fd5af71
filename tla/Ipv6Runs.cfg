CONSTANTS
    Hosts <- TwoHosts
    Iaids = {1}
    Hash <- Hash2
    At <- Everywhere
    Rapid = {"A"}
    Noted <- Remembered
    MacKnown <- TwoHosts
    Configs <- Renumbering
    Arrivals = {1, 2}
    Reserved <- Fixed
    Own = 9
    Wish <- Wishes
    Sanity = 1
    LeaseTime = 2
    Backoff = 2
    Authoritative = FALSE
    MaxLeases = 5
    MaxMishaps = 2
    Clients <- Cs
    Light = {"A"}
    Relays = {"inner", "outer"}
    Server = "server"
    Attached <- Links
    Entries <- Rings
    Ranges = {1, 2}
    HopLimit = 3
    MaxAsks = 1
    MaxRelayMishaps = 1
    Places <- Twin
    Templates = {1}
    Plain <- NoPlain
    Stations = {"a", "b"}
    Site <- Sites
    Bridge <- Alias
    Leased = {"a"}
    Intervals = {1, 2}
    KernelValid = 5
    Ceiling = 4
    MaxBackoff = 2
    Hasty = FALSE
    MaxChanges = 3
    MaxAdvertMishaps = 1
    Spots <- Places4
    NameOf <- IndexNames
    V6 = {"v6"}
    Loopbacks = {1}
    IfNames = {"wlan0"}
    IfAddrs = {"v4", "other"}
    IfExcept = {"eth0"}
    AnyHost = {"other"}
    Bindings = {"wild", "interfaces", "dynamic"}
    MaxShifts = 2
SPECIFICATION MCSpec
INVARIANT RelaysRight
INVARIANT NamesCurrent
INVARIANT ListenersRight
PROPERTY LeasesHeld
PROPERTY NetworkFollowed
CHECK_DEADLOCK FALSE
