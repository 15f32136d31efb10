CONSTANTS
    Controllers = {c1, c2}
    Services = {1, 2}
    Keys = {k1}
    Tenants = {t1, t2}
    TenantOf <- OneTenant
    Stored = {k1}
    k1 = k1
    k2 = k2
    t1 = t1
    t2 = t2
    None = None
    MaxSessions = 1
    MaxTime = 1
    MaxConnects = 2
    MaxEvents = 1
SPECIFICATION Spec
SYMMETRY ControllerSymmetry
CHECK_DEADLOCK FALSE
INVARIANTS TypeOK IndexConsistent RoutingIsExact
PROPERTY NoTheft
