\* Refreshing a reader after deletions in one barrel and none in a later one.
CONSTANTS
    CollisionFactor = 3
    ScaleFactor = 1
    MaxAllowedBarrels = 255
    MaxDocs = 3
    MaxDeletes = 2
    MaxCommit = 4
    MaxCrashes = 0
    KeepCount = 1
    Strategy = "nomerge"
SPECIFICATION Spec
PROPERTIES
    RefreshSeesDeletions
CHECK_DEADLOCK FALSE
