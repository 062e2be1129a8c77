--------------------------- MODULE MCWorkerRuntime ---------------------------
(* Instances of WorkerRuntime for TLC. *)
EXTENDS WorkerRuntime

CONSTANTS b1, b2

=============================================================================
