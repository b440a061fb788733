\* Two threads of two requests over two paths.
SPECIFICATION Spec
CONSTANTS
    p1 = p1
    p2 = p2
    nthreads = 2
    nrequests = 2
    gWorkloadPathArray <- TwoPaths
    FileLen = 1
    NoInode = NoInode
INVARIANTS
    WorkloadInTurn
    OwnNameIntact
    CleanupAfterThreads
PROPERTIES
    MainReturns
\* The process returns from main or exits.
CHECK_DEADLOCK FALSE
