\* Three workers and three requests, one of whose clients may stall for ever:
\* all workers can sleep while one is being signalled, and items queue up
\* while workers wake.
SPECIFICATION Spec
CONSTANTS
    nthreads = 3
    r1 = r1  r2 = r2  r3 = r3 
    Requests <- ThreeRequests
    Stalled <- OneStalled
    NoRequest = NoRequest
INVARIANTS
    ExactlyOneOwner
    NoUnderflow
    NoLostWakeup
    NeverStuck
PROPERTIES
    ServiceSafeSpec
    EveryRequestServed
\* The process ends on a signal.
CHECK_DEADLOCK FALSE
