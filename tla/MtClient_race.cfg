\* Two threads of one request over one path.
SPECIFICATION SafeSpec
CONSTANTS
    p1 = p1
    p2 = p2
    nthreads = 2
    nrequests = 1
    gWorkloadPathArray <- OnePath
    FileLen = 1
    NoInode = NoInode
INVARIANTS
    KeptFilesStay
CHECK_DEADLOCK FALSE
