\* Two clients that may leave at any time; one of them may stop sending or reading.
SPECIFICATION Spec
CONSTANTS
    c1 = c1
    c2 = c2
    Clients = {c1, c2}
    Stalled = {c2}
    Texts <- MCTexts
    Paths <- MCPaths
    FileLen <- MCFileLen
    BUFSIZ = 5
    BUFFER_SIZE = 2
    Rude = TRUE
    NoClient = NoClient
INVARIANTS
    TypeOK
    AnswersOwnRequest
    WholeAnswer
PROPERTIES
    ServiceSpec
\* accept may fail, and the process exits.
CHECK_DEADLOCK FALSE
