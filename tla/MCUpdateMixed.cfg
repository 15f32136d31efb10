CONSTANTS
    Updates = {1, 2, 3}
    Batches = {b1}
    None = None
    ItemOf <- SharedItem
    BatchOf <- BatchAfterFirst
    Resumable = {1}
    OldRecoveries = {}
    OldProcessors = {}
    Protection = TRUE
    MaxDrops = 0
    MaxBoots = 0
    MaxCrashes = 1
    MaxErrors = 1
    MaxGated = 0
SPECIFICATION Spec
CHECK_DEADLOCK FALSE
INVARIANTS TypeOK OneActivePerHost OneUnfinishedPerItem CompletedMeansDone PendingIsAttended ReplayIsProtected SettledBatchHasEnded
PROPERTY EndedStaysEnded
