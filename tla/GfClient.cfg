\* Two requests, bodies of up to six bytes, or one more, read two at a time, every fault.
SPECIFICATION Spec
CONSTANTS
    nrequests = 2
    MaxLen = 6
    BUFFER_SIZE = 2
    INT_MAX = 2
    SIZE_MAX = 15
    Faults = {"no socket", "refused", "send fails", "split", "reset", "malformed",
              "extra byte"}
INVARIANTS
    FileKeptExactlyWhenComplete
    NoSocketLeft
PROPERTIES
    EveryRequestEnds
CHECK_DEADLOCK FALSE
