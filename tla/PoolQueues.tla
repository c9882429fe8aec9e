----------------------------- MODULE PoolQueues -----------------------------
(***************************************************************************)
(* The thread pool and its queues: ThreadPool carries the steps of every    *)
(* worker's SyncQueue in its own variables (tasks, tasks_stop, wpc,         *)
(* task_opt).  This module maps them back, one queue per worker, with the   *)
(* worker as the one consumer and the pool's stop token as the condition    *)
(* of Pop(cond), so that what is shown of SyncQueue holds of the pool.      *)
(***************************************************************************)
EXTENDS ThreadPool

(* A queue tells its threads apart.                                         *)
ASSUME PoolQueuesAssumption == Client \cap Worker = {}

(* Where each thread is, as the queue of w sees it.                         *)
QueuePC(w) ==
  [t \in Client \cup {w} |->
     IF t = w
     THEN CASE wpc[w] = "pred" -> "lock"
            [] wpc[w] \in {"sleep", "wait", "take"} -> wpc[w]
            [] OTHER -> "idle"
     ELSE IF cpc[t] = "sd_notify" /\ Head(cscan[t]) = w THEN "notify" ELSE "idle"]

(* The queue of worker w.  Only w pops, so its mutex is held across steps by  *)
(* w alone; a client is inside it while ~Worker is between the two steps of  *)
(* Stop.                                                                   *)
Queue(w) == INSTANCE SyncQueue WITH
  Thread <- Client \cup {w}, Consumer <- {w}, CondConsumer <- {w},
  Value <- Task, nullopt <- nil, NoThread <- nil, MaxLen <- Cardinality(Task),
  queue_ <- tasks[w], mutex_ <- IF QueueFree(w) THEN nil ELSE w,
  stop_source_ <- tasks_stop[w], cond <- stop_source, pc <- QueuePC(w),
  ret <- [c \in {w} |-> task_opt[w]], crashed <- wpc[w] = "ub"

(* The queue of every worker is a SyncQueue, whatever the clients do         *)
(* (thread_pool.h 80, 91-92, 104, 111).                                      *)
QueuesRefine ==
  /\ \A w \in Worker : Queue(w)!Init
  /\ [][\A w \in Worker : Queue(w)!Next \/ UNCHANGED Queue(w)!vars]_vars
=============================================================================
