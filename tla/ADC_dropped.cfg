\* The keeper's waitCommit() as its header describes it.
CONSTANTS
    d1 = d1  d2 = d2  d3 = d3  k1 = k1  k2 = k2
    NoDoc = NoDoc
    Docs = {d1, d2, d3}
    Key <- SharedKeys
    Updates = {}
    BuildThreadCount = 2
    DocQueueSize = 2
    CommitQueueSize = 2
    MaxDeletes = 0
    MaxCommits = 1
    MaxCalls = 4
SPECIFICATION Spec
INVARIANTS
    NoSealedBarrelDropped
