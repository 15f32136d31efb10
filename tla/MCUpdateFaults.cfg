CONSTANTS
    Updates = {1, 2}
    Batches = {}
    None = None
    ItemOf <- OwnItem
    BatchOf <- NoBatch
    Resumable = {}
    OldRecoveries = {"superseded recovery"}
    OldProcessors = {"superseded processor"}
    Protection = TRUE
    MaxDrops = 1
    MaxBoots = 1
    MaxCrashes = 0
    MaxErrors = 0
    MaxGated = 1
SPECIFICATION FairSpec
CHECK_DEADLOCK FALSE
INVARIANTS PendingIsAttended RunsOnce
PROPERTY SlotFrees
