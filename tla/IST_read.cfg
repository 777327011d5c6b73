\* A writer that merges and cleans, and a reader that opens, refreshes and closes.
CONSTANTS
    CollisionFactor = 3
    ScaleFactor = 1
    MaxAllowedBarrels = 255
    MaxDocs = 2
    MaxDeletes = 2
    MaxCommit = 5
    MaxCrashes = 0
    KeepCount = 2
    Strategy = "optimize"
SPECIFICATION Spec
INVARIANTS
    ReaderHasEveryBarrel
PROPERTIES
    OpenedReaderIsCommit
    FailsOnlyIfOvertaken
CHECK_DEADLOCK FALSE
