---------------------------- MODULE WorkerQueue ----------------------------
(***************************************************************************)
(* The worker pool: utils/workers.c with include/workers.h.                *)
(*                                                                         *)
(* One thread, the one that runs main(), dispatches actions into a ring    *)
(* buffer that doubles when it is about to fill; Workers threads wait on a *)
(* condition variable, pick actions up and run worker_callback on them.    *)
(* Every access to the ring is made with queue->lock held, so a critical   *)
(* section is one action, except that of a worker that runs a callback: it *)
(* keeps the mutex from the moment it takes the action to the moment the   *)
(* callback returns, and works on the ring's own cell, not on a copy.      *)
(* pthread_cond_signal and pthread_cond_broadcast are called after the     *)
(* unlock and are actions of their own.                                    *)
(***************************************************************************)
EXTENDS Integers, Sequences

CONSTANTS Workers,      \* the threads of the pool
          Jobs,         \* the (type, payload) pairs that can be dispatched
          NoJob,        \* the content of a cell that pcalloc has zeroed
          Nobody,       \* the owner of a free mutex
          InitCapacity, \* init_queue: 8 cells in the program
          MaxCapacity   \* pcalloc returns NULL for more cells than this

ASSUME QueueAssumption ==
    /\ NoJob \notin Jobs
    /\ Workers # {}
    /\ Nobody \notin Workers
    /\ InitCapacity \in Nat \ {0}
    /\ MaxCapacity \in Nat

VARIABLES data,          \* queue->data: the ring, cells 0 .. capacity-1
          head,          \* queue->head: the oldest action's cell
          count,         \* queue->count
          capacity,      \* queue->capacity
          shutting_down, \* queue->shutting_down
          lock,          \* the owner of queue->lock, between two actions
          wpc,           \* where each worker is in worker_loop
          idx,           \* each worker's local variable idx
          mpc,           \* where the dispatching thread is
          offer          \* the action it is dispatching

ring == <<data, head, count, capacity>>
workerVars == <<wpc, idx>>
mainVars == <<mpc, offer>>
vars == <<ring, shutting_down, lock, workerVars, mainVars>>

(* worker_action_t: a zeroed one and one that dispatch_command has filled. *)
EmptyCell == [exists |-> FALSE, lock |-> FALSE, job |-> NoJob]
FilledCell(j) == [exists |-> TRUE, lock |-> FALSE, job |-> j]

Cells == [exists : BOOLEAN, lock : BOOLEAN, job : Jobs \cup {NoJob}]

(* The cell of the i-th oldest action, counting from 0. *)
CellOf(i) == (head + i) % capacity

-----------------------------------------------------------------------------
(* worker_pool_init: the ring is allocated and the threads are created.    *)
(* They are created with the mutex held, so none has moved when the        *)
(* dispatching thread returns from it.                                     *)
Init == /\ data = [i \in 0 .. InitCapacity-1 |-> EmptyCell]
        /\ head = 0
        /\ count = 0
        /\ capacity = InitCapacity
        /\ shutting_down = FALSE
        /\ lock = Nobody
        /\ wpc = [w \in Workers |-> "loop"]
        /\ idx = [w \in Workers |-> 0]
        /\ mpc = "run"
        /\ offer = NoJob

-----------------------------------------------------------------------------
(* Mutated forms: each is an operation below with one mistake in it, kept  *)
(* to show that the properties can tell the difference.  No specification  *)
(* uses them.                                                              *)

(* head without the modulo. *)
NextHeadNoWrap == head + 1

(* A worker that drains the queue before it looks at shutting_down. *)
HasWorkDraining == count # 0

(* The queue is unlocked before worker_callback is called. *)
EnterCallbackUnlocked(w) == /\ lock' = lock
                            /\ wpc' = [wpc EXCEPT ![w] = "callback"]

(* The copy loop reads cell i instead of cell head + i. *)
GrownUnrotated == [i \in 0 .. 2 * capacity - 1 |->
                      IF i < count THEN data[i] ELSE EmptyCell]

(* dispatch_command that forgets pthread_cond_signal. *)
SignalNobody == /\ mpc = "signal"
                /\ mpc' = "run"
                /\ UNCHANGED <<ring, shutting_down, lock, workerVars, offer>>

(* A rendezvous instead of a signal: it needs a worker that waits. *)
SignalRendezvous ==
    /\ mpc = "signal"
    /\ mpc' = "run"
    /\ \E w \in Workers : /\ wpc[w] = "waiting"
                          /\ wpc' = [wpc EXCEPT ![w] = "loop"]
    /\ UNCHANGED <<ring, shutting_down, lock, idx, offer>>

(* pthread_cond_signal where a broadcast is needed. *)
BroadcastOne ==
    /\ mpc = "broadcast"
    /\ mpc' = "join"
    /\ LET waiting == {w \in Workers : wpc[w] = "waiting"} IN
         \/ waiting = {} /\ wpc' = wpc
         \/ \E w \in waiting : wpc' = [wpc EXCEPT ![w] = "loop"]
    /\ UNCHANGED <<ring, shutting_down, lock, idx, offer>>

-----------------------------------------------------------------------------
(* worker_loop.                                                            *)

(* The queue is empty: pthread_cond_wait releases the mutex and waits. *)
Wait(w) == /\ wpc[w] = "loop"
           /\ lock = Nobody
           /\ count = 0
           /\ ~shutting_down
           /\ wpc' = [wpc EXCEPT ![w] = "waiting"]
           /\ UNCHANGED <<ring, shutting_down, lock, idx, mainVars>>

(* pthread_cond_wait may return without a signal; the while loop then      *)
(* tests the queue again.                                                  *)
WakeSpuriously(w) == /\ wpc[w] = "waiting"
                     /\ wpc' = [wpc EXCEPT ![w] = "loop"]
                     /\ UNCHANGED <<ring, shutting_down, lock, idx, mainVars>>

(* What the loop tests once it has the mutex. *)
HasWork == count # 0 /\ ~shutting_down

NextHead == (head + 1) % capacity

(* worker_callback is called with the mutex locked. *)
EnterCallback(w) == /\ lock' = w
                    /\ wpc' = [wpc EXCEPT ![w] = "callback"]

(* The oldest action is taken out of the ring and its callback starts. *)
Take(w) == /\ wpc[w] = "loop"
           /\ lock = Nobody
           /\ HasWork
           /\ idx' = [idx EXCEPT ![w] = head]
           /\ data' = [data EXCEPT ![head].lock = TRUE, ![head].exists = FALSE]
           /\ head' = NextHead
           /\ count' = count - 1
           /\ EnterCallback(w)
           /\ UNCHANGED <<capacity, shutting_down, mainVars>>

(* worker_callback has returned. *)
Return(w) == /\ wpc[w] = "callback"
             /\ data' = [data EXCEPT ![idx[w]].lock = FALSE]
             /\ lock' = Nobody
             /\ wpc' = [wpc EXCEPT ![w] = "loop"]
             /\ UNCHANGED <<head, count, capacity, shutting_down, idx, mainVars>>

(* shutting_down is tested before the queue: what is queued is left.       *)
Exit(w) == /\ wpc[w] = "loop"
           /\ lock = Nobody
           /\ shutting_down
           /\ wpc' = [wpc EXCEPT ![w] = "exited"]
           /\ UNCHANGED <<ring, shutting_down, lock, idx, mainVars>>

-----------------------------------------------------------------------------
(* dispatch_command.                                                       *)

(* The call; the thread then waits for the mutex. *)
Call(j) == /\ mpc = "run"
           /\ mpc' = "dispatch"
           /\ offer' = j
           /\ UNCHANGED <<ring, shutting_down, lock, workerVars>>

MustGrow == count + 1 >= capacity

(* The ring after the copy loop: twice the cells, the oldest action in 0. *)
Grown == [i \in 0 .. 2 * capacity - 1 |->
             IF i < count THEN data[CellOf(i)] ELSE EmptyCell]

(* There is room: the action goes behind the youngest one. *)
Enqueue == /\ mpc = "dispatch"
           /\ lock = Nobody
           /\ ~MustGrow
           /\ data' = [data EXCEPT ![CellOf(count)] = FilledCell(offer)]
           /\ count' = count + 1
           /\ mpc' = "signal"
           /\ UNCHANGED <<head, capacity, shutting_down, lock, workerVars, offer>>

(* The ring is replaced by one twice as large, then takes the action. *)
GrowAndEnqueue ==
    /\ mpc = "dispatch"
    /\ lock = Nobody
    /\ MustGrow
    /\ 2 * capacity <= MaxCapacity
    /\ capacity' = 2 * capacity
    /\ head' = 0
    /\ data' = [Grown EXCEPT ![count % (2 * capacity)] = FilledCell(offer)]
    /\ count' = count + 1
    /\ mpc' = "signal"
    /\ UNCHANGED <<shutting_down, lock, workerVars, offer>>

(* pcalloc has no memory: the action is dropped, nobody is signalled. *)
Drop == /\ mpc = "dispatch"
        /\ lock = Nobody
        /\ MustGrow
        /\ mpc' = "run"
        /\ UNCHANGED <<ring, shutting_down, lock, workerVars, offer>>

(* pthread_cond_signal, after the unlock: wakes a waiting worker, if any.  *)
Signal == /\ mpc = "signal"
          /\ mpc' = "run"
          /\ LET waiting == {w \in Workers : wpc[w] = "waiting"} IN
               \/ /\ waiting = {}
                  /\ wpc' = wpc
               \/ \E w \in waiting : wpc' = [wpc EXCEPT ![w] = "loop"]
          /\ UNCHANGED <<ring, shutting_down, lock, idx, offer>>

-----------------------------------------------------------------------------
(* worker_pool_delete.                                                     *)

CallDelete == /\ mpc = "run"
              /\ mpc' = "delete"
              /\ UNCHANGED <<ring, shutting_down, lock, workerVars, offer>>

RaiseShutdown == /\ mpc = "delete"
                 /\ lock = Nobody
                 /\ shutting_down' = TRUE
                 /\ mpc' = "broadcast"
                 /\ UNCHANGED <<ring, lock, workerVars, offer>>

(* pthread_cond_broadcast, after the unlock. *)
Broadcast == /\ mpc = "broadcast"
             /\ wpc' = [w \in Workers |->
                            IF wpc[w] = "waiting" THEN "loop" ELSE wpc[w]]
             /\ mpc' = "join"
             /\ UNCHANGED <<ring, shutting_down, lock, idx, offer>>

(* The last pthread_join returns; the mutex and the condition variable are *)
(* destroyed.                                                              *)
Join == /\ mpc = "join"
        /\ \A w \in Workers : wpc[w] = "exited"
        /\ mpc' = "deleted"
        /\ UNCHANGED <<ring, shutting_down, lock, workerVars, offer>>

-----------------------------------------------------------------------------
WorkerStep(w) == \/ Wait(w)
                 \/ WakeSpuriously(w)
                 \/ Take(w)
                 \/ Return(w)
                 \/ Exit(w)

DispatchStep == \/ Enqueue
                \/ GrowAndEnqueue
                \/ Drop
                \/ Signal

DeleteStep == RaiseShutdown \/ Broadcast \/ Join

(* After worker_pool_delete the program goes on to exit.                   *)
Terminated == mpc = "deleted" /\ UNCHANGED vars

Next == \/ \E w \in Workers : WorkerStep(w)
        \/ \E j \in Jobs : Call(j)
        \/ DispatchStep
        \/ CallDelete
        \/ DeleteStep
        \/ Terminated

Spec == Init /\ [][Next]_vars

(* Every thread runs, callbacks return and the mutex is handed over: a     *)
(* thread that could always take it gets it.  Nothing obliges a spurious   *)
(* wake-up, a call of dispatch_command or one of worker_pool_delete.       *)
Fairness == /\ \A w \in Workers : /\ WF_vars(Take(w) \/ Exit(w))
                                  /\ WF_vars(Return(w))
            /\ WF_vars(DispatchStep)
            /\ WF_vars(DeleteStep)

FairSpec == Spec /\ Fairness

-----------------------------------------------------------------------------
(* Properties.                                                             *)

(* The ring, its indices, the program counters and the mutex have the      *)
(* types workers.h gives them.                                             *)
TypeOK == /\ capacity \in Nat \ {0}
          /\ head \in 0 .. capacity-1
          /\ count \in Nat
          /\ data \in [0 .. capacity-1 -> Cells]
          /\ shutting_down \in BOOLEAN
          /\ lock \in Workers \cup {Nobody}
          /\ wpc \in [Workers -> {"loop", "waiting", "callback", "exited"}]
          /\ idx \in [Workers -> Nat]
          /\ mpc \in {"run", "dispatch", "signal", "delete", "broadcast",
                      "join", "deleted"}
          /\ offer \in Jobs \cup {NoJob}

InCallback(w) == wpc[w] = "callback"

(* At most one worker_callback runs, and its worker owns the mutex.  The   *)
(* callback relies on it: strtok in http.c:166 and routing.c:40 and the    *)
(* cell it reads its payload from (workers.c:51) are shared.               *)
CallbacksExclude == \A w \in Workers : InCallback(w) <=> lock = w

(* The cells of the queued actions, and no others, are marked as existing, *)
(* and the cell a callback works on, and no other, as locked: across       *)
(* wrap-around and resizing no action is lost, duplicated or overwritten.  *)
RingConsistent ==
    /\ count < capacity
    /\ \A c \in 0 .. capacity-1 :
         /\ data[c].exists <=> \E i \in 0 .. count-1 : c = CellOf(i)
         /\ data[c].lock <=> \E w \in Workers : InCallback(w) /\ idx[w] = c

(* While a callback runs, the cell it reads its payload from is neither    *)
(* rewritten by a dispatch nor moved by a resize.                          *)
PayloadStable ==
    [][\A w \in Workers : InCallback(w) /\ InCallback(w)' =>
          data'[idx[w]].job = data[idx[w]].job]_vars

(* No wake-up is lost: whenever an action is queued and the dispatching    *)
(* thread has nothing left to signal, some worker is on its way to it.     *)
NoLostWakeup ==
    count > 0 /\ mpc \in {"run", "dispatch"}
       => \E w \in Workers : wpc[w] \in {"loop", "callback"}

(* What is needed beside these to make them inductive.  Every queued cell  *)
(* and every cell a callback works on hold a real job ...                  *)
CellsHoldJobs ==
    /\ \A i \in 0 .. count-1 : data[CellOf(i)].job \in Jobs
    /\ \A w \in Workers : InCallback(w) => /\ idx[w] \in 0 .. capacity-1
                                          /\ data[idx[w]].job \in Jobs

(* ... an action is on offer from Call to the end of dispatch_command, and *)
(* workers exit only after worker_pool_delete raised shutting_down.        *)
ThreadPhases ==
    /\ mpc \in {"dispatch", "signal"} => offer \in Jobs
    /\ shutting_down <=> mpc \in {"broadcast", "join", "deleted"}
    /\ \A w \in Workers : wpc[w] = "exited" => shutting_down

QueueInv == /\ TypeOK
            /\ CallbacksExclude
            /\ RingConsistent
            /\ NoLostWakeup
            /\ CellsHoldJobs
            /\ ThreadPhases

(* The queue implements the abstract one: what is pending is the ring read *)
(* from head, what runs is the content of the cell a callback works on.    *)
Pending == [i \in 1 .. count |-> data[CellOf(i-1)].job]

Running == IF \E w \in Workers : InCallback(w)
           THEN data[idx[CHOOSE w \in Workers : InCallback(w)]].job
           ELSE NoJob

JQ == INSTANCE JobQueue WITH pending <- Pending,
                             running <- Running,
                             stopped <- shutting_down

(* Jobs are handed to worker_callback in the order of dispatch_command,    *)
(* one at a time, and none is handed over after worker_pool_delete raised  *)
(* shutting_down; and a queued job is handed over if no shutdown comes.    *)
ImplementsJobQueue == JQ!Spec

(* dispatch_command returns to the event loop although it waits for the    *)
(* mutex that callbacks hold.                                              *)
DispatchReturns == mpc = "dispatch" ~> mpc = "run"

(* worker_pool_delete gets every worker to exit, waiting ones included,    *)
(* and returns.                                                            *)
DeleteReturns == mpc = "delete" ~> mpc = "deleted"
=============================================================================
