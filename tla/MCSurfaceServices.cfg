CONSTANTS
    Controllers = {c1}
    Services = {1, 2}
    MaxSessions = 1
    None = None
    Providers = {p1, p2}
    i1 = i1
    i2 = i2
    k1 = k1
    k2 = k2
    Calls = {i1, i2}
    Keys = {k1, k2}
    KeyOf <- TwoKeys
    Fingerprint <- SameParameters
    Caller <- ServiceCalls
    User = User
    Local = {k2}
    Universal = FALSE
    MaxPerProvider = 1
    MaxPerTenant = 2
    FailureLimit = 2
    PushRoom = 1
    QueueRoom = 1
    ReplyRoom = 1
    Revocable = {2}
    MaxConnects = 2
    MaxRegistrations = 2
    MaxNotices = 1
    MaxLapses = 0
SPECIFICATION FairSpec
CHECK_DEADLOCK FALSE
PROPERTY EveryCallEnds
