\* Three threads and four files: one merge has to wait for a thread.  The system may stop:
\* a merge() that missed the last broadcast waits for ever.
CONSTANTS
    Workers = {w1, w2, w3}
    NoWorker = NoWorker
    Files = 4
    Proposals = 2
SPECIFICATION FairSpec
INVARIANTS
    TypeOK
    AssertionsHold
    NoTaskStarves
PROPERTIES
    ImplementsMergeScheduler
    WaitsEnd
CHECK_DEADLOCK FALSE
