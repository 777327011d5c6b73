\* Two building threads: three calls, at most one of them a deletion and one a commit().
\* A deletion that matches nothing may keep both threads in a full queue.
CONSTANTS
    d1 = d1  d2 = d2  d3 = d3  k1 = k1  k2 = k2
    NoDoc = NoDoc
    Docs = {d1, d2, d3}
    Key <- SharedKeys
    Updates = {}
    BuildThreadCount = 2
    DocQueueSize = 2
    CommitQueueSize = 2
    MaxDeletes = 1
    MaxCommits = 1
    MaxCalls = 3
SPECIFICATION FairSpec
INVARIANTS
    SealedOnce
    CloseKeepsAll
PROPERTIES
    StopReturns
    CalmCommitCommits
CHECK_DEADLOCK FALSE
