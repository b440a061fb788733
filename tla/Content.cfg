\* Every table of at most four lines with keys out of three, equal ones
\* included; the first allocation holds two.
SPECIFICATION SafeSpec
CONSTANTS
    Keys = {1, 2, 3}
    MaxLines = 4
    CAPACITY = 2
INVARIANTS
    TypeOK
    KeyInRange
    SearchRight
PROPERTIES
    SearchHalves
CHECK_DEADLOCK FALSE
