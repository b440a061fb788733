SPECIFICATION Spec
CONSTANTS
    Clients = {c1, c2}
    MAXSTRING = 2
    maxnpending = 0
    MaxLen = 3
    NoClient = NoClient
INVARIANTS
    PrintsOwnBeginning
PROPERTY
    EveryClientEnds
CHECK_DEADLOCK FALSE
