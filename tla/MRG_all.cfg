\* An index of up to four barrels that is opened and merged, with one crash.
CONSTANTS
    CollisionFactor = 2
    ScaleFactor = 1
    MaxAllowedBarrels = 3
    MaxDocs = 36
    MaxDeletes = 0
    MaxCommit = 6
    MaxCrashes = 1
    KeepCount = 2
    Strategy = "nomerge"
    MaxBarrels = 4
    Sizes <- MCSizes
SPECIFICATION FairMergingSpec
INVARIANTS
    MergeKeepsDocuments
    BarrelListSound
PROPERTIES
    MergedAsPromised
    CloseEnds
CHECK_DEADLOCK FALSE
