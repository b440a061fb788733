\* Every command line of at most two options, every file of at most six
\* characters; a piece of four characters, a word of three, two paths.
SPECIFICATION Spec
CONSTANTS
    Texts <- MCTexts
    Word = 100000
    None = 100001
    MaxArgs = 2
    MaxFile = 6
    MAX_KEYLEN = 5
    MAX_WORD = 3
    MAX_PATHS = 2
INVARIANTS
    OptionsAsTold
    ReadAsWritten
CHECK_DEADLOCK FALSE
