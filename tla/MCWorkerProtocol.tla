--------------------------- MODULE MCWorkerProtocol ---------------------------
(* Instances of WorkerProtocol for TLC. *)
EXTENDS WorkerProtocol

CONSTANTS r1, r2
================================================================================
