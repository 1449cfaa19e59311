--------------------------- MODULE MCWorkerQueue ---------------------------
(* WorkerQueue on a small instance: see MCWorkerQueue.cfg. *)
EXTENDS WorkerQueue
=============================================================================
