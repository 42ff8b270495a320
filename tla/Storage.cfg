\* One upload and the sample, one analysis, two requests at a time, and a
\* sweep whose listing and whose deletions can both reach their limit.
CONSTANTS
    Uploads = {u1}
    Sample = s
    Jobs = {j1}
    Tasks = {t1, t2}
    None = None
    MaxAttempts = 2
    MaxRequests = 3
    MaxScanned = 4
    MaxDeleted = 3
    FailedDays = 1
    AnalysisDays = 2
    ReplayDays = 1
SPECIFICATION Spec
INVARIANTS
    StorageTypeOK
    ReleasedAfterCoaching
    ReadyIsWhole
    SweepIsFair
PROPERTIES
    UploadStaysUnlocked
CHECK_DEADLOCK FALSE
