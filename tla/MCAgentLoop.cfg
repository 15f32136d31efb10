CONSTANTS
    Slots = {1, 2}
    a = a
    b = b
    Scopes <- TwoScopes
    Budget = 1
    Grace = 1
    AbortGrace = 2
    MaxSetup = 1
    ChannelCap = 1
    MaxConsecutive = 1
    MissedPongLimit = 1
    MaxInbox = 1
SPECIFICATION FairSpec
INVARIANTS TypeOK OverlapOnlyLate CancelledWasHung
PROPERTIES EntriesGo DeadLinkNoticed
