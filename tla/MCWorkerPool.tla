---------------------------- MODULE MCWorkerPool ----------------------------
(* The instances of WorkerPool that TLC checks. *)
EXTENDS WorkerPool

CONSTANTS r1, r2, r3, r4

FourRequests == {r1, r2, r3, r4}
=============================================================================
