\* A writer with up to three documents, one crash, and a merge at every close.
CONSTANTS
    CollisionFactor = 3
    ScaleFactor = 1
    MaxAllowedBarrels = 255
    MaxDocs = 3
    MaxDeletes = 2
    MaxCommit = 4
    MaxCrashes = 1
    KeepCount = 2
    Strategy = "optimize"
SPECIFICATION StoreSpec
INVARIANTS
    TypeOK
    CommitIsWhole
    KeysPointAtDocuments
    DeletionsKnown
    NoGarbage
PROPERTIES
    ImplementsAtomicStore
CHECK_DEADLOCK FALSE
