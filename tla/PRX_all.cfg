\* Two shards, one with a spare replica; a queue with room for one.  The process may stop,
\* by its destructor or at a null pointer.
CONSTANTS
    Requests = {1, 2}
    ReplicaCount <- TwoShards
    Threads = {t1, t2}
    QueueSize = 1
    NULL = NULL
    MaxSearches = 1
    MaxFailures = 2
SPECIFICATION FairSpec
INVARIANTS
    AnswersBelong
PROPERTIES
    SearchesAnswered
    ReplicasComeBack
CHECK_DEADLOCK FALSE
