CONSTANTS
    Controllers = {c1, c2}
    External = {c2}
    Tasks = {t1, t2}
    Internal = {t2}
    None = None
    Stale = 1
    Beat = 1
    Interval = 1
    Jitter = 0
    MaxLost = 0
    MaxStops = 1
    MaxErrors = 0
    MaxEdits = 0
SPECIFICATION FairSpec
PROPERTY EnabledTasksRun
