\* Every operation; the queue refines a bounded FIFO and timed waiters recover.
CONSTANTS
    p1 = p1  p2 = p2  c1 = c1  w = w
    NoElement = NoElement
    Threads <- AllThreads
    MayCall <- AllMayCall
    Elements = {a, b}
    Capacity = 2
SPECIFICATION FairSpec
INVARIANTS
    TypeOK
    NoDanglingEvent
PROPERTIES
    ImplementsFifo
    TimedWaitersRecover
    DequeuesReachProducers
