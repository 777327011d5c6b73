\* Two clients commit three objects, wait and close, through a queue of two.
CONSTANTS
    c1 = c1  c2 = c2  o1 = o1  o2 = o2  o3 = o3
    Clients = {c1, c2}
    MayWait = {c1, c2}
    CommitThread = CommitThread
    Objects = {o1, o2, o3}
    Null = Null
    NoElement = NoElement
    QueueSize = 2
SPECIFICATION FairSpec
INVARIANTS
    TypeOK
    NothingLost
    CloseCommitsAll
PROPERTIES
    WaitCommitMissesOnlyInHand
    EventuallyCommitted
