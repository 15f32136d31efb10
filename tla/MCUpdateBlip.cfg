CONSTANTS
    Updates = {1}
    Batches = {}
    None = None
    ItemOf <- OwnItem
    BatchOf <- NoBatch
    Resumable = {}
    OldRecoveries = {}
    OldProcessors = {}
    Protection = TRUE
    MaxDrops = 1
    MaxBoots = 0
    MaxCrashes = 0
    MaxErrors = 0
    MaxGated = 0
SPECIFICATION Spec
CHECK_DEADLOCK FALSE
INVARIANT LiveUpdateNotFailed
