---------------------------- MODULE MCWorkerPool ----------------------------
(* A small instance of WorkerPool: three requests, one of whose clients    *)
(* may stop reading.                                                       *)
EXTENDS WorkerPool

CONSTANTS r1, r2, r3

ThreeRequests == {r1, r2, r3}
OneStalled    == {r1}
=============================================================================
