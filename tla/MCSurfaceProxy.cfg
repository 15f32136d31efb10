CONSTANTS
    Controllers = {c1}
    Services = {1}
    MaxSessions = 2
    None = None
    Providers = {p1, p2}
    i1 = i1
    i2 = i2
    k1 = k1
    k2 = k2
    Calls = {i1, i2}
    Keys = {k1}
    KeyOf <- RetryKeys
    Fingerprint <- SameParameters
    Caller <- UserCalls
    User = User
    Local = {}
    Universal = TRUE
    MaxPerProvider = 1
    MaxPerTenant = 2
    FailureLimit = 2
    PushRoom = 1
    QueueRoom = 1
    ReplyRoom = 1
    Revocable = {}
    MaxConnects = 2
    MaxRegistrations = 2
    MaxNotices = 0
    MaxLapses = 1
SPECIFICATION Spec
SYMMETRY ProxySymmetry
CHECK_DEADLOCK FALSE
INVARIANTS TypeOK BudgetsExact ReservationsHeld RegistryIsInverse ListedIsServed
