\* One building thread: additions, an update, two deletions, no commit().
CONSTANTS
    d1 = d1  d2 = d2  d3 = d3  k1 = k1  k2 = k2
    NoDoc = NoDoc
    Docs = {d1, d2, d3}
    Key <- SharedKeys
    Updates = {d3}
    BuildThreadCount = 1
    DocQueueSize = 2
    CommitQueueSize = 2
    MaxDeletes = 2
    MaxCommits = 0
    MaxCalls = 5
SPECIFICATION Spec
INVARIANTS
    TypeOK
    OneHome
    CommittedInSealOrder
    DeletedForAReason
    DeletesReachSealed
