--------------------------- MODULE MCWorkerPool ---------------------------
(* WorkerPool for TLC: more targets than workers, so that the cursor runs  *)
(* past the end several times.                                             *)
EXTENDS WorkerPool
===========================================================================
