\* Lists of up to three nodes of two items, over memory with any contents.
SPECIFICATION Spec
CONSTANTS
    Nodes = {n1, n2, n3}
    Items = {x, y}
    NULL = NULL
    NoAnswer = NoAnswer
INVARIANTS
    Linked
PROPERTIES
    QueueSpec
    DestroyFreesAll
\* An underflow ends the process.
CHECK_DEADLOCK FALSE
