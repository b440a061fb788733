\* Two workers, two requests that may name the same file, files of up to
\* two bytes read at most two at a time: full and partial reads.
SPECIFICATION Spec
CONSTANTS
    Workers = {w1, w2}
    Requests = {r1, r2}
    Names <- MCNames
    Fildes <- MCFildes
    Leftovers <- MCLeftovers
    BUFFER_SIZE = 2
    MaxSize = 2
    NoRequest = NoRequest
INVARIANTS
    BodyIsFilePrefix
    OwnNameFirst
    AnnouncedLengthKept
    NoUseAfterFree
PROPERTIES
    ServiceShrinks
    EveryServiceEnds
CHECK_DEADLOCK FALSE
