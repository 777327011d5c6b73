\* Two threads and three files; both threads end between getThread's scan and its wait.
CONSTANTS
    Workers = {w1, w2}
    NoWorker = NoWorker
    Files = 3
    Proposals = 1
SPECIFICATION FairSpec
PROPERTIES
    MergeReturns
CHECK_DEADLOCK FALSE
