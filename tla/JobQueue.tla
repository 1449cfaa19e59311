------------------------------ MODULE JobQueue ------------------------------
(***************************************************************************)
(* What the worker pool of utils/workers.c promises to the rest of the     *)
(* server, whatever the ring buffer, the mutex and the condition variable  *)
(* do to keep the promise:                                                 *)
(*                                                                         *)
(*   - jobs are started in the order in which they were dispatched;        *)
(*   - at most one job runs at a time, because worker_callback is called   *)
(*     with the queue's mutex held (workers.c:28-53), and for the same     *)
(*     reason nothing is dispatched and the pool is not stopped while a    *)
(*     job runs;                                                           *)
(*   - once the pool is stopped no job is started, queued or not.          *)
(*                                                                         *)
(* WorkerQueue is shown to implement this specification; Foxtails uses     *)
(* its actions as the pool.                                                *)
(***************************************************************************)
EXTENDS Sequences

CONSTANTS Jobs,   \* everything that can be dispatched
          NoJob   \* not in Jobs: the pool is between two callbacks

VARIABLES pending,  \* the jobs dispatched and not yet started, oldest first
          running,  \* the job whose callback runs, or NoJob
          stopped   \* worker_pool_delete has raised shutting_down

jobVars == <<pending, running, stopped>>

Init == /\ pending = <<>>
        /\ running = NoJob
        /\ stopped = FALSE

(* dispatch_command, when it does not drop the job. *)
Put(j) == /\ running = NoJob
          /\ ~stopped
          /\ pending' = Append(pending, j)
          /\ UNCHANGED <<running, stopped>>

(* A worker picks up the oldest job and enters worker_callback. *)
Take == /\ running = NoJob
        /\ ~stopped
        /\ pending # <<>>
        /\ running' = Head(pending)
        /\ pending' = Tail(pending)
        /\ UNCHANGED stopped

(* worker_callback has returned and the worker unlocks the queue. *)
Finish == /\ running # NoJob
          /\ running' = NoJob
          /\ UNCHANGED <<pending, stopped>>

(* worker_pool_delete raises shutting_down. *)
Stop == /\ running = NoJob
        /\ ~stopped
        /\ stopped' = TRUE
        /\ UNCHANGED <<pending, running>>

Next == \/ \E j \in Jobs : Put(j)
        \/ Take
        \/ Finish
        \/ Stop

(* A queued job does not wait for ever for an idle pool, and a callback    *)
(* that returns gives the queue back.                                      *)
Fairness == WF_jobVars(Take) /\ WF_jobVars(Finish)

SafeSpec == Init /\ [][Next]_jobVars

Spec == SafeSpec /\ Fairness
=============================================================================
