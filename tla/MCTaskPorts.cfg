SPECIFICATION FairSpec
CONSTANTS
    user = user
    worker1 = worker1
    worker2 = worker2
    NoTask = NoTask
    TaskCount = 3
    Threads <- MCThreads
    PortOf <- MCPortOf
INVARIANTS
    TypeOK
    ListsPartition
    HeldOnce
    PollPromiseKept
PROPERTIES
    TaskReachesWorker
    RingSpec
