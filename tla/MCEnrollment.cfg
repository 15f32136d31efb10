CONSTANTS
    c1 = c1
    Clients = {c1}
    Tokens = {c1}
    Existing = {1, 2}
    Cluster = TRUE
    MaxRows = 4
    MaxLinks = 2
    MaxDecisions = 2
    MaxFaults = 1
    None = None
SPECIFICATION Spec
CHECK_DEADLOCK FALSE
INVARIANTS TypeOK RequestIsGranted RequestNamesSession NeverStranded SecretFollowsMerge
PROPERTY ApprovedGetsCertificate
