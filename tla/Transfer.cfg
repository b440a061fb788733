\* Two clients, three bytes read two at a time, every fault.
SPECIFICATION Spec
CONSTANTS
    Clients = {c1, c2}
    FileLen = 3
    OldLens = {0, 4}
    BUFSIZE = 2
    Faults = {"bind", "accept", "open", "read", "send", "short send", "socket", "create",
              "recv", "write", "short write"}
    NoClient = NoClient
INVARIANTS
    SavedInOrder
    WholeFileSaved
PROPERTIES
    ServiceSpec
\* Clients stop when they have received their file.
CHECK_DEADLOCK FALSE
