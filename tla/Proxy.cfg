SPECIFICATION Spec
CONSTANTS
    nworkerthreads = 2
    Requests = {r1, r2}
    MaxSize = 2
    BUFFER_SIZE = 2
    OPEN_MAX = 3
    NoRequest = NoRequest
INVARIANTS
    ClientHasTheFile
    LostIsAccountedFor
PROPERTY
    EveryRequestEnds
CHECK_DEADLOCK FALSE
