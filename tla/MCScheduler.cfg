CONSTANTS
    Controllers = {c1, c2}
    External = {c2}
    Tasks = {t1}
    Internal = {}
    None = None
    Stale = 2
    Beat = 1
    Interval = 1
    Jitter = 0
    MaxLost = 1
    MaxStops = 2
    MaxErrors = 1
    MaxEdits = 1
SPECIFICATION Spec
INVARIANTS TypeOK HeartbeatKeepsClaim
PROPERTIES ClaimsAreReturned ImplementsLease
