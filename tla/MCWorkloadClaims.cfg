CONSTANTS
    Controllers = {c1}
    Services = {1, 2}
    Keys = {k1, k2}
    Tenants = {t1, t2}
    TenantOf <- TwoTenants
    Stored = {k1}
    k1 = k1
    k2 = k2
    t1 = t1
    t2 = t2
    None = None
    MaxSessions = 2
    MaxTime = 0
    MaxConnects = 2
    MaxEvents = 2
SPECIFICATION Spec
CHECK_DEADLOCK FALSE
INVARIANTS RoutingIsExact LiveIsRegistered RegisteredIsAlive
