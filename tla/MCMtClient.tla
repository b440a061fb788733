----------------------------- MODULE MCMtClient -----------------------------
(* Small instances of MtClient: a workload of one path, where the local     *)
(* names of two requests can meet, or of two.                               *)
EXTENDS MtClient

CONSTANTS p1, p2

OnePath  == <<p1>>
TwoPaths == <<p1, p2>>
=============================================================================
