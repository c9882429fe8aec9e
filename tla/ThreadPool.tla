----------------------------- MODULE ThreadPool -----------------------------
(***************************************************************************)
(* ema::ThreadPool and detail::Worker (include/thread/thread_pool.h).       *)
(*                                                                         *)
(* Client threads call Startup, Shutdown, Submit and exec; every worker is  *)
(* a thread of its own that pops tasks from its own SyncQueue.  A step ends *)
(* wherever another thread can observe or change what the next one uses: at *)
(* each access to an atomic, at each mutex and at each blocking call.  The  *)
(* worker's queue has one consumer, so its mutex is held across steps by    *)
(* the worker alone (at "sleep" and "take"); module PoolQueues states that  *)
(* each queue behaves as module SyncQueue says.                            *)
(***************************************************************************)
EXTENDS Naturals, Sequences, FiniteSets

CONSTANTS
  Client,          \* the threads that use the pool
  Task,            \* the callables they hand over, each at most once
  ExecTask,        \* the ones handed over with exec, the others with Submit
  Throwing,        \* the ones whose callable throws
  thread_count,    \* the arguments of Startup
  max_task_arg,
  expand_args,     \* what its last argument may be
  hw_concurrency,  \* std::thread::hardware_concurrency()
  Overlap,         \* may Startup and Shutdown overlap calls of other clients?
  MaxWorkers,      \* model bound: worker threads ever created
  MaxShutdowns,    \* model bound: calls of Shutdown
  nil              \* no task, no worker, no client

(* The number of workers Startup creates and the limit it sets, with the    *)
(* defaults for 0.                                                          *)
create_count == IF thread_count = 0 THEN 1 ELSE thread_count
max_tasks == IF max_task_arg = 0 THEN 999 ELSE max_task_arg
max_thread_count == 2 * hw_concurrency

Worker == 1 .. MaxWorkers

ASSUME ThreadPoolAssumption ==
  /\ IsFiniteSet(Client)
  /\ IsFiniteSet(Task)
  /\ ExecTask \subseteq Task
  /\ Throwing \subseteq Task
  /\ nil \notin Client \cup Task \cup Worker
  /\ thread_count \in Nat /\ max_task_arg \in Nat /\ hw_concurrency \in Nat
  /\ expand_args \subseteq BOOLEAN /\ Overlap \in BOOLEAN
  /\ MaxWorkers \in Nat /\ MaxShutdowns \in Nat

VARIABLES
  start, stop_source, max_task_count, allow_expand, curr_task_count,
  worker_mtx,   \* the client that holds _worker_mtx, or nil
  workers,      \* the vector _workers, as worker numbers
  created,      \* how many workers have been constructed so far
  wpc,          \* where each worker thread is
  busy,         \* _busy of each worker
  tasks,        \* the queue of each worker
  tasks_stop,   \* the stop source of that queue
  task_opt,     \* what the last Pop of each worker returned, nil for nullopt
  cpc,          \* where each client is
  ctask,        \* the task the client is submitting, or nil
  cscan,        \* the workers the client still has to look at or destroy
  cworker,      \* the worker the client has chosen, or nil
  fate,         \* what has become of each task
  shutdowns,    \* calls of Shutdown so far
  crashed       \* "no", or why the process is gone

pool == <<start, stop_source, max_task_count, allow_expand, worker_mtx, workers, created>>
worker == <<wpc, busy, tasks, tasks_stop, task_opt>>
client == <<cpc, ctask, cscan, cworker, shutdowns>>
vars == <<pool, curr_task_count, worker, client, fate, crashed>>

(***************************************************************************)
(* A worker: not constructed ("none"); at the loop condition ("loop");      *)
(* about to clear _busy ("idle"); in Pop, about to take the queue's mutex   *)
(* and test the predicate ("pred"), to sleep ("sleep"), asleep ("wait") or  *)
(* past the wait ("take"); about to set _busy ("got"); running the task     *)
(* ("run"); about to count it off ("dec"); the thread has ended ("done");   *)
(* joined and destroyed ("gone"); past a front() of an empty queue ("ub").  *)
(***************************************************************************)
WPC == {"none", "loop", "idle", "pred", "sleep", "wait", "take", "got", "run",
        "dec", "done", "gone", "ub"}

StartupPC == {"su_create"}
SubmitPC == {"sb_lock", "sb_scan", "sb_count", "sb_push"}
DestroyPC == {"sd_clear", "sd_stop", "sd_notify", "sd_join"}
ShutdownPC == DestroyPC \cup {"sd_empty", "sd_end"}
CPC == {"idle"} \cup StartupPC \cup SubmitPC \cup ShutdownPC

(* A task is "new", "pending" while some part of the pool holds it, and then *)
(* settled: it ran ("value" or "exception"), was destroyed without having    *)
(* run ("broken", the std::future_error of exec's future), was turned away   *)
(* ("refused"), or Submit itself threw ("thrown").                          *)
Settled == {"value", "exception", "broken", "refused", "thrown"}
Fate == {"new", "pending"} \cup Settled

TypeOK ==
  /\ start \in BOOLEAN /\ stop_source \in BOOLEAN /\ allow_expand \in BOOLEAN
  /\ max_task_count \in {0, max_tasks}
  /\ curr_task_count \in Nat
  /\ worker_mtx \in Client \cup {nil}
  /\ workers \in Seq(Worker)
  /\ created \in 0 .. MaxWorkers
  /\ wpc \in [Worker -> WPC]
  /\ busy \in [Worker -> BOOLEAN]
  /\ tasks \in [Worker -> Seq(Task)]
  /\ tasks_stop \in [Worker -> BOOLEAN]
  /\ task_opt \in [Worker -> Task \cup {nil}]
  /\ cpc \in [Client -> CPC]
  /\ ctask \in [Client -> Task \cup {nil}]
  /\ cscan \in [Client -> Seq(Worker)]
  /\ cworker \in [Client -> Worker \cup {nil}]
  /\ fate \in [Task -> Fate]
  /\ shutdowns \in 0 .. MaxShutdowns
  /\ crashed \in {"no", "empty_pop", "dangling", "terminate"}

Init ==
  /\ start = FALSE /\ stop_source = FALSE /\ allow_expand = TRUE
  /\ max_task_count = 0
  /\ curr_task_count = 0
  /\ worker_mtx = nil
  /\ workers = <<>>
  /\ created = 0
  /\ wpc = [w \in Worker |-> "none"]
  /\ busy = [w \in Worker |-> FALSE]
  /\ tasks = [w \in Worker |-> <<>>]
  /\ tasks_stop = [w \in Worker |-> FALSE]
  /\ task_opt = [w \in Worker |-> nil]
  /\ cpc = [c \in Client |-> "idle"]
  /\ ctask = [c \in Client |-> nil]
  /\ cscan = [c \in Client |-> <<>>]
  /\ cworker = [c \in Client |-> nil]
  /\ fate = [t \in Task |-> "new"]
  /\ shutdowns = 0
  /\ crashed = "no"

-----------------------------------------------------------------------------
(* Helpers.                                                                *)
Elements(s) == {s[i] : i \in 1 .. Len(s)}

(* Unless Overlap, a client starts or stops the pool only while no other    *)
(* client is inside a call.                                                *)
Alone(c) == Overlap \/ \A d \in Client \ {c} : cpc[d] = "idle"
NoLifecycle == Overlap \/ \A d \in Client : cpc[d] \notin StartupPC \cup ShutdownPC

(* The mutex of w's queue is free: w itself is not inside Pop's critical    *)
(* section.                                                                *)
QueueFree(w) == wpc[w] \notin {"sleep", "take"}

(* n new workers: the constructor starts the thread.                        *)
Spawn(n) ==
  /\ created + n <= MaxWorkers
  /\ created' = created + n
  /\ wpc' = [w \in Worker |-> IF w \in created + 1 .. created + n THEN "loop" ELSE wpc[w]]

(* Destroying tasks that have not run breaks the promise exec gave them.    *)
Break(ts) == fate' = [t \in Task |-> IF t \in ts THEN "broken" ELSE fate[t]]

(* Variant: nobody is woken.                                                *)
NotifyNobody(w) == UNCHANGED wpc

(* Waking w, if it sleeps.                                                  *)
Notify(w) == wpc' = [wpc EXCEPT ![w] = IF @ = "wait" THEN "pred" ELSE @]

(* A client has reached a worker that is destroyed: a dangling pointer.     *)
Dangling ==
  /\ crashed' = "dangling"
  /\ UNCHANGED <<pool, curr_task_count, worker, client, fate>>

-----------------------------------------------------------------------------
(* Startup: nothing to do on a started pool; otherwise set the limits, and  *)
(* under the mutex create the workers and set _start.                       *)
StartupBegin(c) ==
  /\ cpc[c] = "idle"
  /\ Alone(c)
  /\ ~start
  /\ max_task_count' = max_tasks
  /\ allow_expand' \in expand_args
  /\ cpc' = [cpc EXCEPT ![c] = "su_create"]
  /\ UNCHANGED <<start, stop_source, worker_mtx, workers, created, curr_task_count,
                 worker, ctask, cscan, cworker, shutdowns, fate, crashed>>

StartupCreate(c) ==
  /\ cpc[c] = "su_create"
  /\ worker_mtx = nil
  /\ Spawn(create_count)
  /\ workers' = workers \o [i \in 1 .. create_count |-> created + i]
  /\ start' = TRUE
  /\ cpc' = [cpc EXCEPT ![c] = "idle"]
  /\ UNCHANGED <<stop_source, max_task_count, allow_expand, worker_mtx, curr_task_count,
                 busy, tasks, tasks_stop, task_opt, ctask, cscan, cworker, shutdowns,
                 fate, crashed>>

-----------------------------------------------------------------------------
(* Submit and exec.  A pool that is not started turns the task away.        *)
SubmitBegin(c, t) ==
  /\ cpc[c] = "idle"
  /\ NoLifecycle
  /\ fate[t] = "new"
  /\ IF start
     THEN /\ fate' = [fate EXCEPT ![t] = "pending"]
          /\ cpc' = [cpc EXCEPT ![c] = "sb_lock"]
          /\ ctask' = [ctask EXCEPT ![c] = t]
     ELSE /\ fate' = [fate EXCEPT ![t] = "refused"]
          /\ UNCHANGED <<cpc, ctask>>
  /\ UNCHANGED <<pool, curr_task_count, worker, cscan, cworker, shutdowns, crashed>>

(* Leaving Submit: the mutex is released, the locals are gone.              *)
Leave(c) ==
  /\ worker_mtx' = nil
  /\ cpc' = [cpc EXCEPT ![c] = "idle"]
  /\ ctask' = [ctask EXCEPT ![c] = nil]
  /\ cscan' = [cscan EXCEPT ![c] = <<>>]
  /\ cworker' = [cworker EXCEPT ![c] = nil]

SubmitLock(c) ==
  /\ cpc[c] = "sb_lock"
  /\ worker_mtx = nil
  /\ IF curr_task_count > max_task_count
     THEN /\ Leave(c)
          /\ fate' = [fate EXCEPT ![ctask[c]] = "refused"]
     ELSE /\ worker_mtx' = c
          /\ cpc' = [cpc EXCEPT ![c] = "sb_scan"]
          /\ cscan' = [cscan EXCEPT ![c] = workers]
          /\ UNCHANGED <<ctask, cworker, fate>>
  /\ UNCHANGED <<start, stop_source, max_task_count, allow_expand, workers, created,
                 curr_task_count, worker, shutdowns, crashed>>

(* One turn of the loop over the workers: the first that looks idle gets    *)
(* the task.                                                               *)
SubmitScan(c) ==
  /\ cpc[c] = "sb_scan"
  /\ cscan[c] # <<>>
  /\ wpc[Head(cscan[c])] # "gone"
  /\ IF busy[Head(cscan[c])]
     THEN /\ cscan' = [cscan EXCEPT ![c] = Tail(@)]
          /\ UNCHANGED <<cpc, cworker>>
     ELSE /\ cworker' = [cworker EXCEPT ![c] = Head(cscan[c])]
          /\ cpc' = [cpc EXCEPT ![c] = "sb_count"]
          /\ UNCHANGED cscan
  /\ UNCHANGED <<pool, curr_task_count, worker, ctask, shutdowns, fate, crashed>>

(* All looked busy.                                                        *)
CannotExpand == ~allow_expand \/ Len(workers) + 1 > max_thread_count

SubmitRandom(c) ==
  /\ cpc[c] = "sb_scan"
  /\ cscan[c] = <<>>
  /\ CannotExpand
  /\ \E w \in Elements(workers) : cworker' = [cworker EXCEPT ![c] = w]
  /\ cpc' = [cpc EXCEPT ![c] = "sb_count"]
  /\ UNCHANGED <<pool, curr_task_count, worker, ctask, cscan, shutdowns, fate, crashed>>

(* size() - 1 of an empty vector wraps, and at() throws out of Submit.      *)
SubmitThrow(c) ==
  /\ cpc[c] = "sb_scan"
  /\ cscan[c] = <<>>
  /\ CannotExpand
  /\ workers = <<>>
  /\ Leave(c)
  /\ fate' = [fate EXCEPT ![ctask[c]] = "thrown"]
  /\ UNCHANGED <<start, stop_source, max_task_count, allow_expand, workers, created,
                 curr_task_count, worker, shutdowns, crashed>>

SubmitExpand(c) ==
  /\ cpc[c] = "sb_scan"
  /\ cscan[c] = <<>>
  /\ ~CannotExpand
  /\ Spawn(1)
  /\ cworker' = [cworker EXCEPT ![c] = created + 1]
  /\ cpc' = [cpc EXCEPT ![c] = "sb_count"]
  /\ UNCHANGED <<start, stop_source, max_task_count, allow_expand, worker_mtx, workers,
                 curr_task_count, busy, tasks, tasks_stop, task_opt, ctask, cscan,
                 shutdowns, fate, crashed>>

(* Variant: the task is not counted.                                        *)
SubmitUncounted(c) ==
  /\ cpc[c] = "sb_count"
  /\ wpc[cworker[c]] # "gone"
  /\ cpc' = [cpc EXCEPT ![c] = "sb_push"]
  /\ UNCHANGED <<pool, curr_task_count, worker, ctask, cscan, cworker, shutdowns, fate, crashed>>

(* push_task: count the task, then push it; a new worker joins the vector   *)
(* after the push.                                                         *)
SubmitCount(c) ==
  /\ cpc[c] = "sb_count"
  /\ wpc[cworker[c]] # "gone"
  /\ curr_task_count' = curr_task_count + 1
  /\ cpc' = [cpc EXCEPT ![c] = "sb_push"]
  /\ UNCHANGED <<pool, worker, ctask, cscan, cworker, shutdowns, fate, crashed>>

SubmitPush(c) ==
  /\ cpc[c] = "sb_push"
  /\ wpc[cworker[c]] # "gone"
  /\ QueueFree(cworker[c])
  /\ tasks' = [tasks EXCEPT ![cworker[c]] = Append(@, ctask[c])]
  /\ Notify(cworker[c])
  /\ workers' = IF cworker[c] \in Elements(workers) THEN workers
                ELSE Append(workers, cworker[c])
  /\ Leave(c)
  /\ UNCHANGED <<start, stop_source, max_task_count, allow_expand, created,
                 curr_task_count, busy, tasks_stop, task_opt, shutdowns, fate, crashed>>

(* The client uses a destroyed worker, or lets the vector grow, and so move,  *)
(* while Shutdown walks it.                                                 *)
SubmitDangling(c) ==
  /\ \/ cpc[c] = "sb_scan" /\ cscan[c] # <<>> /\ wpc[Head(cscan[c])] = "gone"
     \/ cpc[c] \in {"sb_count", "sb_push"} /\ wpc[cworker[c]] = "gone"
     \/ /\ cpc[c] = "sb_push" /\ cworker[c] \notin Elements(workers)
        /\ \E d \in Client : cpc[d] \in DestroyPC
  /\ Dangling

-----------------------------------------------------------------------------
(* Variant: the first worker is left out.                                   *)
ShutdownBeginShort(c) ==
  /\ cpc[c] = "idle"
  /\ Alone(c)
  /\ start
  /\ shutdowns < MaxShutdowns
  /\ shutdowns' = shutdowns + 1
  /\ stop_source' = TRUE
  /\ cscan' = [cscan EXCEPT ![c] = Tail(workers)]
  /\ cpc' = [cpc EXCEPT ![c] = IF Len(workers) <= 1 THEN "sd_empty" ELSE "sd_clear"]
  /\ UNCHANGED <<start, max_task_count, allow_expand, worker_mtx, workers, created,
                 curr_task_count, worker, ctask, cworker, fate, crashed>>

(* Shutdown: request_stop, destroy the workers one after the other, empty    *)
(* the vector, clear _start.  No mutex is taken.                            *)
ShutdownBegin(c) ==
  /\ cpc[c] = "idle"
  /\ Alone(c)
  /\ start
  /\ shutdowns < MaxShutdowns
  /\ shutdowns' = shutdowns + 1
  /\ stop_source' = TRUE
  /\ cscan' = [cscan EXCEPT ![c] = workers]
  /\ cpc' = [cpc EXCEPT ![c] = IF workers = <<>> THEN "sd_empty" ELSE "sd_clear"]
  /\ UNCHANGED <<start, max_task_count, allow_expand, worker_mtx, workers, created,
                 curr_task_count, worker, ctask, cworker, fate, crashed>>

(* Variant: Clear without the mutex.                                        *)
WorkerClearUnlocked(c) ==
  LET w == Head(cscan[c])
  IN /\ cpc[c] = "sd_clear"
     /\ wpc[w] # "gone"
     /\ Break(Elements(tasks[w]))
     /\ tasks' = [tasks EXCEPT ![w] = <<>>]
     /\ cpc' = [cpc EXCEPT ![c] = "sd_stop"]
     /\ UNCHANGED <<pool, curr_task_count, wpc, busy, tasks_stop, task_opt, ctask, cscan,
                    cworker, shutdowns, crashed>>

(* ~Worker: Clear, Stop (request, then notify), join.                       *)
WorkerClear(c) ==
  LET w == Head(cscan[c])
  IN /\ cpc[c] = "sd_clear"
     /\ wpc[w] # "gone"
     /\ QueueFree(w)
     /\ Break(Elements(tasks[w]))
     /\ tasks' = [tasks EXCEPT ![w] = <<>>]
     /\ cpc' = [cpc EXCEPT ![c] = "sd_stop"]
     /\ UNCHANGED <<pool, curr_task_count, wpc, busy, tasks_stop, task_opt, ctask, cscan,
                    cworker, shutdowns, crashed>>

WorkerStop(c) ==
  /\ cpc[c] = "sd_stop"
  /\ wpc[Head(cscan[c])] # "gone"
  /\ tasks_stop' = [tasks_stop EXCEPT ![Head(cscan[c])] = TRUE]
  /\ cpc' = [cpc EXCEPT ![c] = "sd_notify"]
  /\ UNCHANGED <<pool, curr_task_count, wpc, busy, tasks, task_opt, ctask, cscan, cworker,
                 shutdowns, fate, crashed>>

WorkerNotify(c) ==
  /\ cpc[c] = "sd_notify"
  /\ wpc[Head(cscan[c])] # "gone"
  /\ Notify(Head(cscan[c]))
  /\ cpc' = [cpc EXCEPT ![c] = "sd_join"]
  /\ UNCHANGED <<pool, curr_task_count, busy, tasks, tasks_stop, task_opt, ctask, cscan,
                 cworker, shutdowns, fate, crashed>>

(* join returns when the thread has ended; the queue dies with the worker.  *)
WorkerJoin(c) ==
  LET w == Head(cscan[c])
  IN /\ cpc[c] = "sd_join"
     /\ wpc[w] = "done"
     /\ wpc' = [wpc EXCEPT ![w] = "gone"]
     /\ Break(Elements(tasks[w]))
     /\ tasks' = [tasks EXCEPT ![w] = <<>>]
     /\ cscan' = [cscan EXCEPT ![c] = Tail(@)]
     /\ cpc' = [cpc EXCEPT ![c] = IF Len(cscan[c]) = 1 THEN "sd_empty" ELSE "sd_clear"]
     /\ UNCHANGED <<pool, curr_task_count, busy, tasks_stop, task_opt, ctask, cworker,
                    shutdowns, crashed>>

ShutdownDangling(c) ==
  /\ cpc[c] \in DestroyPC
  /\ wpc[Head(cscan[c])] = "gone"
  /\ Dangling

ShutdownEmpty(c) ==
  /\ cpc[c] = "sd_empty"
  /\ workers' = <<>>
  /\ cpc' = [cpc EXCEPT ![c] = "sd_end"]
  /\ UNCHANGED <<start, stop_source, max_task_count, allow_expand, worker_mtx, created,
                 curr_task_count, worker, ctask, cscan, cworker, shutdowns, fate, crashed>>

ShutdownEnd(c) ==
  /\ cpc[c] = "sd_end"
  /\ start' = FALSE
  /\ cpc' = [cpc EXCEPT ![c] = "idle"]
  /\ UNCHANGED <<stop_source, max_task_count, allow_expand, worker_mtx, workers, created,
                 curr_task_count, worker, ctask, cscan, cworker, shutdowns, fate, crashed>>

-----------------------------------------------------------------------------
(* The worker thread.                                                      *)
WorkerLoop(w) ==
  /\ wpc[w] = "loop"
  /\ wpc' = [wpc EXCEPT ![w] = IF stop_source THEN "done" ELSE "idle"]
  /\ UNCHANGED <<pool, curr_task_count, busy, tasks, tasks_stop, task_opt, client, fate, crashed>>

WorkerIdle(w) ==
  /\ wpc[w] = "idle"
  /\ busy' = [busy EXCEPT ![w] = FALSE]
  /\ wpc' = [wpc EXCEPT ![w] = "pred"]
  /\ UNCHANGED <<pool, curr_task_count, tasks, tasks_stop, task_opt, client, fate, crashed>>

(* Pop(cond) with cond the pool's stop token.                               *)
PopTest(w) ==
  /\ wpc[w] = "pred"
  /\ wpc' = [wpc EXCEPT ![w] = IF tasks[w] # <<>> \/ tasks_stop[w] \/ stop_source
                               THEN "take" ELSE "sleep"]
  /\ UNCHANGED <<pool, curr_task_count, busy, tasks, tasks_stop, task_opt, client, fate, crashed>>

PopSleep(w) ==
  /\ wpc[w] = "sleep"
  /\ wpc' = [wpc EXCEPT ![w] = "wait"]
  /\ UNCHANGED <<pool, curr_task_count, busy, tasks, tasks_stop, task_opt, client, fate, crashed>>

SpuriousWake(w) ==
  /\ wpc[w] = "wait"
  /\ wpc' = [wpc EXCEPT ![w] = "pred"]
  /\ UNCHANGED <<pool, curr_task_count, busy, tasks, tasks_stop, task_opt, client, fate, crashed>>

(* Variant: the front is returned and left in the queue.                    *)
PopPeek(w) ==
  /\ wpc[w] = "take"
  /\ wpc' = [wpc EXCEPT ![w] = "got"]
  /\ task_opt' = [task_opt EXCEPT ![w] =
                    IF tasks_stop[w] \/ tasks[w] = <<>> THEN nil ELSE Head(tasks[w])]
  /\ UNCHANGED <<pool, curr_task_count, busy, tasks, tasks_stop, client, fate, crashed>>

PopTake(w) ==
  /\ wpc[w] = "take"
  /\ \/ /\ tasks_stop[w]
        /\ wpc' = [wpc EXCEPT ![w] = "got"]
        /\ task_opt' = [task_opt EXCEPT ![w] = nil]
        /\ UNCHANGED <<tasks, crashed>>
     \/ /\ ~tasks_stop[w] /\ tasks[w] # <<>>
        /\ wpc' = [wpc EXCEPT ![w] = "got"]
        /\ task_opt' = [task_opt EXCEPT ![w] = Head(tasks[w])]
        /\ tasks' = [tasks EXCEPT ![w] = Tail(@)]
        /\ UNCHANGED crashed
     \/ /\ ~tasks_stop[w] /\ tasks[w] = <<>>
        /\ wpc' = [wpc EXCEPT ![w] = "ub"]
        /\ crashed' = "empty_pop"
        /\ UNCHANGED <<tasks, task_opt>>
  /\ UNCHANGED <<pool, curr_task_count, busy, tasks_stop, client, fate>>

WorkerBusy(w) ==
  /\ wpc[w] = "got"
  /\ busy' = [busy EXCEPT ![w] = TRUE]
  /\ wpc' = [wpc EXCEPT ![w] = IF task_opt[w] = nil THEN "loop" ELSE "run"]
  /\ UNCHANGED <<pool, curr_task_count, tasks, tasks_stop, task_opt, client, fate, crashed>>

(* The callable runs to its end.  exec's wrapper turns an exception into the *)
(* future's result; one that leaves a plain Submit task ends the process.    *)
WorkerRun(w) ==
  LET t == task_opt[w]
  IN /\ wpc[w] = "run"
     /\ IF t \in Throwing \ ExecTask
        THEN /\ crashed' = "terminate"
             /\ UNCHANGED <<wpc, fate>>
        ELSE /\ fate' = [fate EXCEPT ![t] = IF t \in Throwing THEN "exception" ELSE "value"]
             /\ wpc' = [wpc EXCEPT ![w] = "dec"]
             /\ UNCHANGED crashed
     /\ UNCHANGED <<pool, curr_task_count, busy, tasks, tasks_stop, task_opt, client>>

WorkerCountOff(w) ==
  /\ wpc[w] = "dec"
  /\ curr_task_count' = curr_task_count - 1
  /\ wpc' = [wpc EXCEPT ![w] = "loop"]
  /\ UNCHANGED <<pool, busy, tasks, tasks_stop, task_opt, client, fate, crashed>>

-----------------------------------------------------------------------------
WorkerStep(w) ==
  \/ WorkerLoop(w) \/ WorkerIdle(w) \/ PopTest(w) \/ PopSleep(w) \/ PopTake(w)
  \/ WorkerBusy(w) \/ WorkerRun(w) \/ WorkerCountOff(w)

ClientStep(c) ==
  \/ StartupCreate(c)
  \/ SubmitLock(c) \/ SubmitScan(c) \/ SubmitRandom(c) \/ SubmitThrow(c) \/ SubmitExpand(c)
  \/ SubmitCount(c) \/ SubmitPush(c) \/ SubmitDangling(c)
  \/ WorkerClear(c) \/ WorkerStop(c) \/ WorkerNotify(c) \/ WorkerJoin(c)
  \/ ShutdownDangling(c) \/ ShutdownEmpty(c) \/ ShutdownEnd(c)

Next ==
  /\ crashed = "no"
  /\ \/ \E c \in Client :
          \/ StartupBegin(c)
          \/ \E t \in Task : SubmitBegin(c, t)
          \/ ShutdownBegin(c)
          \/ ClientStep(c)
     \/ \E w \in Worker : SpuriousWake(w) \/ WorkerStep(w)

Spec == Init /\ [][Next]_vars

(***************************************************************************)
(* A thread that can move does move.  Nobody has to call anything, and the  *)
(* condition variable wakes a thread without reason only finitely often.    *)
(***************************************************************************)
Fairness ==
  /\ \A c \in Client : WF_vars(crashed = "no" /\ ClientStep(c))
  /\ \A w \in Worker : WF_vars(crashed = "no" /\ WorkerStep(w))
  /\ <>[][\A w \in Worker : ~SpuriousWake(w)]_vars

FairSpec == Spec /\ Fairness

-----------------------------------------------------------------------------
Idle == \A c \in Client : cpc[c] = "idle"

Queued(t) == UNION {{<<w, i>> : i \in {j \in 1 .. Len(tasks[w]) : tasks[w][j] = t}} : w \in Worker}
Running(t) == {w \in Worker : task_opt[w] = t /\ wpc[w] \in {"got", "run"}}
InHand(t) == {c \in Client : ctask[c] = t}

(* A task that was accepted for handing over is in exactly one place until   *)
(* it is settled: in the hands of one client inside Submit, at one position  *)
(* of one worker's queue, or with one worker that has popped it; a settled   *)
(* task is nowhere.  So no task is lost, doubled or run after it was         *)
(* refused or destroyed (thread_pool.h 76-105, 144-176).                     *)
OneHolder ==
  \A t \in Task :
    Cardinality(InHand(t)) + Cardinality(Queued(t)) + Cardinality(Running(t))
      = IF fate[t] = "pending" THEN 1 ELSE 0

(* _curr_task_count counts the tasks that have been counted in by push_task  *)
(* and not yet counted off by a worker, and beside them every task that a    *)
(* ~Worker has ever destroyed: Clear drops them without _counter--           *)
(* (thread_pool.h 85, 91, 103).                                             *)
CountedIn(t) == \E c \in InHand(t) : cpc[c] = "sb_push"
CountPending(t) == \E w \in Worker : task_opt[w] = t /\ wpc[w] = "dec"

CounterExact ==
  curr_task_count =
    Cardinality({t \in Task : \/ fate[t] = "broken"
                              \/ CountedIn(t)
                              \/ Queued(t) # {}
                              \/ Running(t) # {}
                              \/ CountPending(t)})

(* Submissions beyond max_task_count fail, so that no more tasks are counted *)
(* than that (test_thread_pool.h 76-85, thread_pool.h 150-155).  Submit       *)
(* refuses only above the limit, so it does not hold.                        *)
LimitKept == curr_task_count <= max_tasks

(* What does hold: Submit lets the count pass the limit by one and no        *)
(* further, whatever the clients and workers do, because the check and the   *)
(* increment are under one lock (thread_pool.h 150-155).                     *)
CapacityBound == curr_task_count <= max_tasks + 1

(* After a Shutdown that did not overlap other calls every worker thread is  *)
(* joined and every task that was handed over is settled, so that no future  *)
(* waits for ever (thread_pool.h 90-94, 136-142).                            *)
ShutdownSettles ==
  (~Overlap /\ ~start /\ Idle) =>
     /\ \A w \in Worker : wpc[w] \in {"none", "gone"}
     /\ \A t \in Task : fate[t] # "pending"

ShuttingDown == \E c \in Client : cpc[c] \in ShutdownPC

(* A Shutdown that overlaps no other call causes no issues: the process is   *)
(* not lost in it (test_thread_pool.h 30, thread_pool.h 90-94, 136-142).      *)
(* Between request_stop and the Stop of its own queue a worker that finds     *)
(* nothing to do is let through Pop(cond) and reads the front of its empty   *)
(* queue, so it does not hold.                                              *)
ShutdownSafe == (~Overlap /\ ShuttingDown) => crashed = "no"

(* Such a Shutdown never hangs: it returns unless a worker reads the front    *)
(* of an empty queue.  ~Worker may not lose its notification: request_stop    *)
(* comes before Clear, and Clear waits for the queue's mutex, so that a       *)
(* worker tests its predicate after the stop, or sleeps before the           *)
(* notification (thread_pool.h 90-94, 136-142).                              *)
ShutdownNeverHangs ==
  \A c \in Client : cpc[c] \in ShutdownPC ~> (cpc[c] = "idle" \/ crashed = "empty_pop")

(* Until the pool is shut down, every task that enters Submit is run or      *)
(* turned away, if no task ends the process (thread_pool.h 78-86, 144-176).  *)
AcceptedRuns ==
  \A t \in Task :
    fate[t] = "pending" ~> (fate[t] \in Settled \/ stop_source \/ crashed # "no")

(* A pool can be started up again after a Shutdown: then too every task that *)
(* enters Submit is run or turned away until the next Shutdown               *)
(* (test_thread_pool.h 33-34, thread_pool.h 123-134).  The stop source stays  *)
(* requested and the new workers end at once, so it does not hold.           *)
RestartRuns ==
  \A t \in Task :
    (fate[t] = "pending" /\ shutdowns > 0 /\ ~ShuttingDown)
      ~> (fate[t] \in Settled \/ ShuttingDown \/ crashed # "no")

(* What does hold: once a Shutdown has returned, no worker ever takes a task  *)
(* again, not even after another Startup, and what Submit then accepts stays *)
(* queued until it is destroyed (thread_pool.h 78, 138).                     *)
RestartRunsNothing ==
  (~Overlap /\ shutdowns > 0 /\ ~ShuttingDown) =>
    \A w \in Worker : wpc[w] \in {"none", "loop", "done", "gone"}
=============================================================================
