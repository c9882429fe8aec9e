-------------------------- MODULE ThreadPoolProofs --------------------------
(***************************************************************************)
(* Proofs about module ThreadPool (include/thread/thread_pool.h), for any   *)
(* number of clients, tasks and workers, and with Startup and Shutdown      *)
(* overlapping Submit or not.                                               *)
(*                                                                         *)
(* CapacityBound is not inductive: a client that has passed the check of    *)
(* _curr_task_count adds one later.  What makes it so is that such a client *)
(* holds _worker_mtx from the check to the end of push_task (MutexHeld), so *)
(* that the count cannot have grown in between (RoomLeft).                  *)
(*                                                                         *)
(* OneHolder and CounterExact come from CustodyInv: each place of the pool   *)
(* that can hold a task (a client's hand, a queue, a worker) is a Site, each *)
(* accepted and unsettled task is at exactly one, and the counter is the     *)
(* number of tasks at the sites Submit and the workers count.  The steps are *)
(* shown to move a task from one site to another, to settle it, or to leave  *)
(* every site alone.                                                        *)
(*                                                                         *)
(* ShutdownSettles and RestartRunsNothing come from LifeInv: where Shutdown  *)
(* is in the vector of workers, and what each worker it has passed, or has   *)
(* still to meet, can be doing.                                             *)
(*                                                                         *)
(* QueuesRefine: every step of the pool is, for each worker's queue, a step  *)
(* of module SyncQueue or no step at all.  With that the theorems of module  *)
(* SyncQueueProofs are instantiated for the queue of any worker, aWorker.    *)
(***************************************************************************)
EXTENDS PoolQueues, Integers, SequenceTheorems, FiniteSetTheorems, TLAPS

USE ThreadPoolAssumption

(* What the proof needs of the types.  The count may be any integer here:   *)
(* that it is never counted below zero is not needed for the upper bound.   *)
CountTypes ==
  /\ cpc \in [Client -> CPC]
  /\ curr_task_count \in Int
  /\ max_task_count \in {0, max_tasks}

InSubmit == {"sb_scan", "sb_count", "sb_push"}

(* A client past the check holds the mutex of the workers.                  *)
MutexHeld == \A c \in Client : cpc[c] \in InSubmit => worker_mtx = c

(* A client that has still to count its task has room for it.               *)
RoomLeft == \A c \in Client : cpc[c] \in {"sb_scan", "sb_count"} => curr_task_count <= max_tasks

CapacityInv == CountTypes /\ MutexHeld /\ RoomLeft /\ CapacityBound

(* The limit Startup sets is a positive number.                             *)
LEMMA LimitType == max_tasks \in Nat
  BY DEF max_tasks

(* No step of a client inside Submit breaks the invariant: the check and     *)
(* the increment are inside one critical section (thread_pool.h 144-176).    *)
LEMMA SubmitKeepsCapacity ==
  ASSUME CapacityInv, NEW c \in Client,
         \/ \E t \in Task : SubmitBegin(c, t)
         \/ SubmitLock(c) \/ SubmitScan(c) \/ SubmitRandom(c) \/ SubmitThrow(c)
         \/ SubmitExpand(c) \/ SubmitCount(c) \/ SubmitPush(c) \/ SubmitDangling(c)
  PROVE  CapacityInv'
<1> USE LimitType DEF CapacityInv, CountTypes, MutexHeld, RoomLeft, CapacityBound, InSubmit,
                      CPC, StartupPC, SubmitPC, DestroyPC, ShutdownPC
<1>1. ASSUME NEW t \in Task, SubmitBegin(c, t) PROVE CapacityInv'
  BY <1>1 DEF SubmitBegin, pool
<1>2. CASE SubmitLock(c)
  <2>1. CASE curr_task_count > max_task_count
    BY <1>2, <2>1 DEF SubmitLock, Leave
  <2>2. CASE ~(curr_task_count > max_task_count)
    BY <1>2, <2>2 DEF SubmitLock
  <2> QED
    BY <2>1, <2>2
<1>3. CASE SubmitScan(c)
  BY <1>3 DEF SubmitScan, pool
<1>4. CASE SubmitRandom(c)
  BY <1>4 DEF SubmitRandom, pool
<1>5. CASE SubmitThrow(c)
  BY <1>5 DEF SubmitThrow, Leave
<1>6. CASE SubmitExpand(c)
  BY <1>6 DEF SubmitExpand
<1>7. CASE SubmitCount(c)
  <2>1. curr_task_count' = curr_task_count + 1 /\ worker_mtx' = worker_mtx /\ worker_mtx = c
    BY <1>7 DEF SubmitCount, pool
  <2>2. \A d \in Client \ {c} : cpc[d] \notin InSubmit
    BY <2>1
  <2> QED
    BY <1>7, <2>1, <2>2 DEF SubmitCount, pool
<1>8. CASE SubmitPush(c)
  BY <1>8 DEF SubmitPush, Leave
<1>9. CASE SubmitDangling(c)
  BY <1>9 DEF SubmitDangling, Dangling, pool, client
<1> QED
  BY <1>1, <1>2, <1>3, <1>4, <1>5, <1>6, <1>7, <1>8, <1>9

(* Neither does a step of Startup or Shutdown, although Shutdown takes no    *)
(* mutex (thread_pool.h 123-142).                                           *)
LEMMA LifecycleKeepsCapacity ==
  ASSUME CapacityInv, NEW c \in Client,
         \/ StartupBegin(c) \/ StartupCreate(c) \/ ShutdownBegin(c)
         \/ WorkerClear(c) \/ WorkerStop(c) \/ WorkerNotify(c) \/ WorkerJoin(c)
         \/ ShutdownDangling(c) \/ ShutdownEmpty(c) \/ ShutdownEnd(c)
  PROVE  CapacityInv'
<1> USE LimitType DEF CapacityInv, CountTypes, MutexHeld, RoomLeft, CapacityBound, InSubmit,
                      CPC, StartupPC, SubmitPC, DestroyPC, ShutdownPC
<1>1. CASE StartupBegin(c)
  BY <1>1 DEF StartupBegin
<1>2. CASE StartupCreate(c)
  BY <1>2 DEF StartupCreate
<1>3. CASE ShutdownBegin(c)
  BY <1>3 DEF ShutdownBegin
<1>4. CASE WorkerClear(c) \/ WorkerStop(c) \/ WorkerNotify(c)
  BY <1>4 DEF WorkerClear, WorkerStop, WorkerNotify, pool
<1>5. CASE WorkerJoin(c)
  BY <1>5 DEF WorkerJoin, pool
<1>6. CASE ShutdownDangling(c)
  BY <1>6 DEF ShutdownDangling, Dangling, pool, client
<1>7. CASE ShutdownEmpty(c) \/ ShutdownEnd(c)
  BY <1>7 DEF ShutdownEmpty, ShutdownEnd
<1> QED
  BY <1>1, <1>2, <1>3, <1>4, <1>5, <1>6, <1>7

(* Nor does a worker, which only counts down (thread_pool.h 76-88).          *)
LEMMA WorkerKeepsCapacity ==
  ASSUME CapacityInv, NEW w \in Worker, SpuriousWake(w) \/ WorkerStep(w)
  PROVE  CapacityInv'
<1> USE LimitType DEF CapacityInv, CountTypes, MutexHeld, RoomLeft, CapacityBound
<1>1. CASE WorkerCountOff(w)
  BY <1>1 DEF WorkerCountOff, pool, client
<1>2. CASE ~WorkerCountOff(w)
  BY <1>2 DEF WorkerStep, WorkerLoop, WorkerIdle, PopTest, PopSleep, SpuriousWake, PopTake,
              WorkerBusy, WorkerRun, pool, client
<1> QED
  BY <1>1, <1>2

(* The invariant behind CapacityBound.                                      *)
LEMMA CapacityInvHolds == Spec => []CapacityInv
<1>1. Init => CapacityInv
  BY LimitType DEF Init, CapacityInv, CountTypes, MutexHeld, RoomLeft, CapacityBound, CPC,
                   InSubmit
<1>2. CapacityInv /\ [Next]_vars => CapacityInv'
  <2> SUFFICES ASSUME CapacityInv, [Next]_vars PROVE CapacityInv'
    OBVIOUS
  <2>1. ASSUME NEW c \in Client,
               \/ StartupBegin(c) \/ ShutdownBegin(c) \/ ClientStep(c)
               \/ \E t \in Task : SubmitBegin(c, t)
        PROVE  CapacityInv'
    BY <2>1, SubmitKeepsCapacity, LifecycleKeepsCapacity DEF ClientStep
  <2>2. ASSUME NEW w \in Worker, SpuriousWake(w) \/ WorkerStep(w) PROVE CapacityInv'
    BY <2>2, WorkerKeepsCapacity
  <2>3. CASE UNCHANGED vars
    BY <2>3 DEF vars, pool, client, CapacityInv, CountTypes, MutexHeld, RoomLeft, CapacityBound
  <2> QED
    BY <2>1, <2>2, <2>3 DEF Next
<1> QED
  BY <1>1, <1>2, PTL DEF Spec

(* However many clients submit at once, the pool never counts more than one  *)
(* task above its limit: the check of _curr_task_count and the increment in  *)
(* push_task are one critical section of _worker_mtx (thread_pool.h          *)
(* 150-155), and Shutdown, which does not take it, does not count.           *)
THEOREM CapacityHolds == Spec => []CapacityBound
<1>1. CapacityInv => CapacityBound
  BY DEF CapacityInv
<1> QED
  BY <1>1, CapacityInvHolds, PTL

-----------------------------------------------------------------------------
(***************************************************************************)
(* Where the tasks are.  A task is in the hand of a client that has not yet  *)
(* counted it ("hand") or has ("push"), in the queue of a worker ("queue"),  *)
(* with a worker that has popped it ("run"), or was run by a worker that     *)
(* has still to count it off ("dec").                                       *)
(***************************************************************************)
Site == ({"hand", "push"} \X Client) \cup ({"queue", "run", "dec"} \X Worker)

Hold == [x \in Site |->
  CASE x[1] = "hand" -> {t \in Task : ctask[x[2]] = t /\ cpc[x[2]] # "sb_push"}
    [] x[1] = "push" -> {t \in Task : ctask[x[2]] = t /\ cpc[x[2]] = "sb_push"}
    [] x[1] = "queue" -> {t \in Task : t \in Elements(tasks[x[2]])}
    [] x[1] = "run" -> {t \in Task : task_opt[x[2]] = t /\ wpc[x[2]] \in {"got", "run"}}
    [] x[1] = "dec" -> {t \in Task : task_opt[x[2]] = t /\ wpc[x[2]] = "dec"}]

(* With h for the contents of the sites and f for the fates: no task is at   *)
(* two sites, the pending ones are those at a site before "dec", and the     *)
(* ones at "dec" have run.                                                  *)
Custody(h, f) ==
  /\ \A x \in Site : h[x] \subseteq Task
  /\ \A x, y \in Site : x # y => h[x] \cap h[y] = {}
  /\ \A t \in Task : f[t] = "pending" <=> \E x \in Site : x[1] # "dec" /\ t \in h[x]
  /\ \A x \in Site : x[1] = "dec" => \A t \in h[x] : f[t] \in {"value", "exception"}

(* The tasks _curr_task_count counts.                                       *)
Counted(h, f) == {t \in Task : f[t] = "broken" \/ \E x \in Site : x[1] # "hand" /\ t \in h[x]}

PoolTypes ==
  /\ workers \in Seq(Worker)
  /\ created \in 0 .. MaxWorkers
  /\ wpc \in [Worker -> WPC]
  /\ tasks \in [Worker -> Seq(Task)]
  /\ task_opt \in [Worker -> Task \cup {nil}]
  /\ cpc \in [Client -> CPC]
  /\ ctask \in [Client -> Task \cup {nil}]
  /\ cscan \in [Client -> Seq(Worker)]
  /\ cworker \in [Client -> Worker \cup {nil}]
  /\ fate \in [Task -> Fate]

Injective(q) == \A i, j \in 1 .. Len(q) : q[i] = q[j] => i = j

(* What a client inside a call, and a worker, have in their locals.          *)
Locals ==
  /\ \A c \in Client :
       /\ ctask[c] # nil <=> cpc[c] \in SubmitPC
       /\ cpc[c] \in {"sb_count", "sb_push"} => cworker[c] # nil
       /\ cpc[c] \in DestroyPC => cscan[c] # <<>>
  /\ \A w \in Worker :
       /\ w > created => wpc[w] = "none"
       /\ wpc[w] \in {"run", "dec"} => task_opt[w] # nil
       /\ Injective(tasks[w])

CustodyInv ==
  /\ PoolTypes
  /\ Locals
  /\ Custody(Hold, fate)
  /\ curr_task_count = Cardinality(Counted(Hold, fate))

(* A site is its kind and its owner.                                        *)
LEMMA SiteIs ==
  /\ \A c \in Client : <<"hand", c>> \in Site /\ <<"push", c>> \in Site
  /\ \A w \in Worker : <<"queue", w>> \in Site /\ <<"run", w>> \in Site /\ <<"dec", w>> \in Site
  /\ \A x \in Site : x = <<x[1], x[2]>> /\ (\/ x[1] \in {"hand", "push"} /\ x[2] \in Client
                                            \/ x[1] \in {"queue", "run", "dec"} /\ x[2] \in Worker)
BY DEF Site

(* Tasks that move from one site to another, with their fate, ...            *)
Moved(h, g, x, y, T) ==
  \A z \in Site : g[z] = IF z = x THEN h[x] \ T ELSE IF z = y THEN h[y] \cup T ELSE h[z]

(* Handing tasks from one place to another keeps each in one place.         *)
LEMMA MoveKeeps ==
  ASSUME NEW h, NEW f, Custody(h, f), NEW x \in Site, NEW y \in Site, x # y,
         NEW T \in SUBSET h[x], x[1] # "dec", y[1] # "dec", NEW g, Moved(h, g, x, y, T)
  PROVE  Custody(g, f)
<1> USE DEF Moved
<1>1. \A z, v \in Site : z # v => g[z] \cap g[v] = {}
  BY DEF Custody
<1>2. \A t \in Task : (\E z \in Site : z[1] # "dec" /\ t \in h[z]) <=>
                      (\E z \in Site : z[1] # "dec" /\ t \in g[z])
  OBVIOUS
<1> QED
  BY <1>1, <1>2 DEF Custody

(* ... that are run and wait to be counted off, ...                         *)
Ran(h, g, x, y, t) ==
  /\ h[x] = {t} /\ h[y] = {}
  /\ \A z \in Site : g[z] = IF z = x THEN {} ELSE IF z = y THEN {t} ELSE h[z]

(* Running a task settles it and leaves it in no other place.               *)
LEMMA RunKeeps ==
  ASSUME NEW h, NEW f \in [Task -> Fate], Custody(h, f), NEW x \in Site, NEW y \in Site,
         x[1] # "dec", y[1] = "dec", NEW t \in Task, NEW s \in {"value", "exception"},
         NEW g, Ran(h, g, x, y, t)
  PROVE  Custody(g, [f EXCEPT ![t] = s])
<1> USE DEF Ran
<1>0. \A z \in Site : g[z] \subseteq Task
  BY DEF Custody
<1>1. \A z, v \in Site : z # v => g[z] \cap g[v] = {}
  BY DEF Custody
<1>2. \A z \in Site \ {x} : t \notin h[z]
  BY DEF Custody
<1>3. \A u \in Task : [f EXCEPT ![t] = s][u] = "pending" <=>
                      (\E z \in Site : z[1] # "dec" /\ u \in g[z])
  BY <1>2 DEF Custody
<1>4. \A z \in Site : z[1] = "dec" => \A u \in g[z] : [f EXCEPT ![t] = s][u] \in {"value", "exception"}
  <2> SUFFICES ASSUME NEW z \in Site, z[1] = "dec", NEW u \in g[z]
               PROVE  [f EXCEPT ![t] = s][u] \in {"value", "exception"}
    OBVIOUS
  <2>1. CASE u = t
    BY <2>1
  <2>2. CASE u # t
    <3>1. u \in h[z] /\ z # x /\ z # y
      BY <2>2
    <3>2. f[u] \in {"value", "exception"}
      BY <3>1 DEF Custody
    <3> QED
      BY <2>2, <3>2
  <2> QED
    BY <2>1, <2>2
<1> QED
  BY <1>0, <1>1, <1>3, <1>4 DEF Custody

(* ... that are settled and leave their site, ...                           *)
LEMMA SettleKeeps ==
  ASSUME NEW h, NEW f \in [Task -> Fate], Custody(h, f), NEW x \in Site, x[1] # "dec",
         NEW fate2 \in Settled, NEW g, NEW e,
         \A z \in Site : g[z] = IF z = x THEN {} ELSE h[z],
         \A t \in Task : e[t] = IF t \in h[x] THEN fate2 ELSE f[t]
  PROVE  Custody(g, e)
<1>1. \A z, v \in Site : z # v => g[z] \cap g[v] = {}
  BY DEF Custody
<1>2. \A t \in Task : e[t] = "pending" <=> (\E z \in Site : z[1] # "dec" /\ t \in g[z])
  <2> SUFFICES ASSUME NEW t \in Task
               PROVE  e[t] = "pending" <=> (\E z \in Site : z[1] # "dec" /\ t \in g[z])
    OBVIOUS
  <2>1. CASE t \in h[x]
    <3>1. \A z \in Site \ {x} : t \notin h[z]
      BY <2>1 DEF Custody
    <3> QED
      BY <2>1, <3>1 DEF Settled
  <2>2. CASE t \notin h[x]
    BY <2>2 DEF Custody
  <2> QED
    BY <2>1, <2>2
<1>3. \A z \in Site : z[1] = "dec" => \A u \in g[z] : u \in Task => e[u] \in {"value", "exception"}
  BY DEF Custody
<1>4. \A z \in Site : z[1] = "dec" => \A u \in g[z] : e[u] \in {"value", "exception"}
  BY <1>3 DEF Custody
<1>5. \A z \in Site : g[z] \subseteq Task
  BY DEF Custody
<1> QED
  BY <1>1, <1>2, <1>4, <1>5 DEF Custody

(* ... that come into a client's hand, or that a worker has counted off.    *)
LEMMA AcceptKeeps ==
  ASSUME NEW h, NEW f \in [Task -> Fate], Custody(h, f), NEW x \in Site, x[1] # "dec",
         NEW t \in Task, f[t] = "new", NEW g,
         \A z \in Site : g[z] = IF z = x THEN h[x] \cup {t} ELSE h[z]
  PROVE  Custody(g, [f EXCEPT ![t] = "pending"])
<1>1. \A z \in Site : t \notin h[z]
  BY DEF Custody
<1>2. \A z, v \in Site : z # v => g[z] \cap g[v] = {}
  BY <1>1 DEF Custody
<1>3. \A z \in Site : g[z] \subseteq Task
  BY DEF Custody
<1>4. \A u \in Task : [f EXCEPT ![t] = "pending"][u] = "pending" <=>
                      (\E z \in Site : z[1] # "dec" /\ u \in g[z])
  BY DEF Custody
<1>5. \A z \in Site : z[1] = "dec" => g[z] = h[z]
  OBVIOUS
<1>6. \A z \in Site : z[1] = "dec" =>
        \A u \in g[z] : [f EXCEPT ![t] = "pending"][u] \in {"value", "exception"}
  BY <1>1, <1>5 DEF Custody
<1> QED
  BY <1>2, <1>3, <1>4, <1>6 DEF Custody

(* Counting a task off takes it out of its last place.                      *)
LEMMA CountOffKeeps ==
  ASSUME NEW h, NEW f, Custody(h, f), NEW x \in Site, x[1] = "dec", NEW g,
         \A z \in Site : g[z] = IF z = x THEN {} ELSE h[z]
  PROVE  Custody(g, f)
<1>1. \A t \in Task : (\E z \in Site : z[1] # "dec" /\ t \in h[z]) <=>
                      (\E z \in Site : z[1] # "dec" /\ t \in g[z])
  OBVIOUS
<1> QED
  BY <1>1 DEF Custody

(* The contents of the sites, site by site.                                 *)
LEMMA HoldIs ==
  /\ \A c \in Client :
       /\ Hold[<<"hand", c>>] = {t \in Task : ctask[c] = t /\ cpc[c] # "sb_push"}
       /\ Hold[<<"push", c>>] = {t \in Task : ctask[c] = t /\ cpc[c] = "sb_push"}
  /\ \A w \in Worker :
       /\ Hold[<<"queue", w>>] = {t \in Task : t \in Elements(tasks[w])}
       /\ Hold[<<"run", w>>] = {t \in Task : task_opt[w] = t /\ wpc[w] \in {"got", "run"}}
       /\ Hold[<<"dec", w>>] = {t \in Task : task_opt[w] = t /\ wpc[w] = "dec"}
BY SiteIs DEF Hold

(* HoldIs, of the state after a step.                                       *)
LEMMA HoldIsPrime ==
  /\ \A c \in Client :
       /\ Hold'[<<"hand", c>>] = {t \in Task : ctask'[c] = t /\ cpc'[c] # "sb_push"}
       /\ Hold'[<<"push", c>>] = {t \in Task : ctask'[c] = t /\ cpc'[c] = "sb_push"}
  /\ \A w \in Worker :
       /\ Hold'[<<"queue", w>>] = {t \in Task : t \in Elements(tasks'[w])}
       /\ Hold'[<<"run", w>>] = {t \in Task : task_opt'[w] = t /\ wpc'[w] \in {"got", "run"}}
       /\ Hold'[<<"dec", w>>] = {t \in Task : task_opt'[w] = t /\ wpc'[w] = "dec"}
BY SiteIs DEF Hold

(* What these moves do to the tasks that are counted.                       *)
CountKept(h, f, g, e) == Counted(g, e) = Counted(h, f)
CountGains(h, f, g, T) == Counted(g, f) = Counted(h, f) \cup T /\ T \cap Counted(h, f) = {}
CountLoses(h, f, g, t) == Counted(g, f) = Counted(h, f) \ {t} /\ t \in Counted(h, f)

(* Which moves the counter has to follow: those out of a client's hand.     *)
LEMMA MoveCounts ==
  ASSUME NEW h, NEW f, Custody(h, f), NEW x \in Site, NEW y \in Site, x # y,
         NEW T \in SUBSET h[x], x[1] # "dec", y[1] \notin {"hand", "dec"}, NEW g,
         \A z \in Site : g[z] = IF z = x THEN h[x] \ T ELSE IF z = y THEN h[y] \cup T ELSE h[z]
  PROVE  /\ x[1] # "hand" => CountKept(h, f, g, f)
         /\ x[1] = "hand" => CountGains(h, f, g, T)
<1>1. T \subseteq Task
  BY DEF Custody
<1>2. ASSUME x[1] # "hand" PROVE Counted(g, f) = Counted(h, f)
  <2>1. \A t \in Task : (\E z \in Site : z[1] # "hand" /\ t \in h[z]) <=>
                        (\E z \in Site : z[1] # "hand" /\ t \in g[z])
    BY <1>2
  <2> QED
    BY <2>1 DEF Counted
<1>3. ASSUME x[1] = "hand" PROVE Counted(g, f) = Counted(h, f) \cup T
  <2>1. \A t \in Task : (\E z \in Site : z[1] # "hand" /\ t \in g[z]) <=>
                        (t \in T \/ \E z \in Site : z[1] # "hand" /\ t \in h[z])
    BY <1>3
  <2> QED
    BY <1>1, <2>1 DEF Counted
<1>4. ASSUME x[1] = "hand" PROVE T \cap Counted(h, f) = {}
  <2>1. \A t \in T : f[t] = "pending" /\ \A z \in Site \ {x} : t \notin h[z]
    BY <1>1 DEF Custody
  <2> QED
    BY <1>4, <2>1 DEF Counted
<1> QED
  BY <1>2, <1>3, <1>4 DEF CountKept, CountGains

(* Running a task does not change what the counter counts.                  *)
LEMMA RunCounts ==
  ASSUME NEW h, NEW f \in [Task -> Fate], Custody(h, f), NEW x \in Site, NEW y \in Site,
         x[1] = "run", y[1] = "dec", NEW t \in Task, NEW s \in {"value", "exception"},
         NEW g, NEW e, e = [f EXCEPT ![t] = s],
         Ran(h, g, x, y, t)
  PROVE  CountKept(h, f, g, e)
<1> USE DEF Ran
<1>1. \A u \in Task : (\E z \in Site : z[1] # "hand" /\ u \in h[z]) <=>
                      (\E z \in Site : z[1] # "hand" /\ u \in g[z])
  OBVIOUS
<1>2. f[t] = "pending"
  BY DEF Custody
<1>3. \A u \in Task : e[u] = "broken" <=> f[u] = "broken"
  BY <1>2
<1> QED
  BY <1>1, <1>3 DEF Counted, CountKept

(* Nor does refusing a task, or destroying one in its queue.                *)
LEMMA SettleCounts ==
  ASSUME NEW h, NEW f \in [Task -> Fate], Custody(h, f), NEW x \in Site, x[1] \in {"hand", "queue"},
         NEW fate2 \in Settled, fate2 = "broken" <=> x[1] = "queue", NEW g, NEW e,
         \A z \in Site : g[z] = IF z = x THEN {} ELSE h[z],
         \A t \in Task : e[t] = IF t \in h[x] THEN fate2 ELSE f[t]
  PROVE  CountKept(h, f, g, e)
<1>1. \A t \in h[x] : t \in Task /\ f[t] = "pending" /\ \A z \in Site \ {x} : t \notin h[z]
  BY DEF Custody
<1>2. \A t \in Task : t \in Counted(g, e) <=> t \in Counted(h, f)
  <2> SUFFICES ASSUME NEW t \in Task PROVE t \in Counted(g, e) <=> t \in Counted(h, f)
    OBVIOUS
  <2>1. CASE t \in h[x]
    BY <1>1, <2>1 DEF Counted
  <2>2. CASE t \notin h[x]
    BY <2>2 DEF Counted
  <2> QED
    BY <2>1, <2>2
<1> QED
  BY <1>2 DEF Counted, CountKept

(* Nor does handing a new task to Submit.                                   *)
LEMMA AcceptCounts ==
  ASSUME NEW h, NEW f \in [Task -> Fate], Custody(h, f), NEW x \in Site, x[1] = "hand",
         NEW t \in Task, f[t] = "new", NEW g, NEW e, e = [f EXCEPT ![t] = "pending"],
         \A z \in Site : g[z] = IF z = x THEN h[x] \cup {t} ELSE h[z]
  PROVE  CountKept(h, f, g, e)
<1>1. \A u \in Task : e[u] = "broken" <=> f[u] = "broken"
  OBVIOUS
<1>2. \A z \in Site : z[1] # "hand" => g[z] = h[z]
  OBVIOUS
<1> QED
  BY <1>1, <1>2 DEF Counted, CountKept

(* Counting off removes exactly the task that was run.                      *)
LEMMA CountOffCounts ==
  ASSUME NEW h, NEW f, Custody(h, f), NEW x \in Site, x[1] = "dec", NEW g,
         NEW t \in Task, h[x] = {t},
         \A z \in Site : g[z] = IF z = x THEN {} ELSE h[z]
  PROVE  CountLoses(h, f, g, t)
<1>1. f[t] \in {"value", "exception"} /\ \A z \in Site \ {x} : t \notin h[z]
  BY DEF Custody
<1>2. t \in Counted(h, f) /\ t \notin Counted(g, f)
  BY <1>1 DEF Counted
<1>3. \A u \in Task \ {t} : u \in Counted(g, f) <=> u \in Counted(h, f)
  BY DEF Counted
<1> QED
  BY <1>2, <1>3 DEF Counted, CountLoses

(* The size of what is counted.                                             *)
LEMMA CountedSize ==
  ASSUME NEW h, NEW f
  PROVE  /\ Cardinality(Counted(h, f)) \in Nat
         /\ \A t \in Counted(h, f) : Cardinality(Counted(h, f) \ {t}) = Cardinality(Counted(h, f)) - 1
         /\ \A t \in Task \ Counted(h, f) :
              Cardinality(Counted(h, f) \cup {t}) = Cardinality(Counted(h, f)) + 1
<1>1. IsFiniteSet(Counted(h, f))
  BY FS_Subset DEF Counted
<1> QED
  BY <1>1, FS_CardinalityType, FS_AddElement, FS_RemoveElement

(* A worker that holds no task of its own.                                  *)
Free(w) == task_opt[w] = nil \/ wpc[w] \notin {"got", "run", "dec"}

(* The sites of a client or worker whose part of the state stays.           *)
ClientStays(c) ==
  /\ ctask'[c] = ctask[c]
  /\ ctask[c] = nil \/ (cpc'[c] = "sb_push" <=> cpc[c] = "sb_push")

WorkerStays(w) ==
  \/ /\ task_opt'[w] = task_opt[w]
     /\ wpc'[w] \in {"got", "run"} <=> wpc[w] \in {"got", "run"}
     /\ wpc'[w] = "dec" <=> wpc[w] = "dec"
  \/ Free(w) /\ (Free(w))'

(* A client that stays where it is keeps its task.                          *)
LEMMA ClientFrame ==
  ASSUME NEW c \in Client, ClientStays(c)
  PROVE  Hold'[<<"hand", c>>] = Hold[<<"hand", c>>] /\ Hold'[<<"push", c>>] = Hold[<<"push", c>>]
<1>1. /\ Hold[<<"hand", c>>] = {t \in Task : ctask[c] = t /\ cpc[c] # "sb_push"}
      /\ Hold[<<"push", c>>] = {t \in Task : ctask[c] = t /\ cpc[c] = "sb_push"}
      /\ Hold'[<<"hand", c>>] = {t \in Task : ctask'[c] = t /\ cpc'[c] # "sb_push"}
      /\ Hold'[<<"push", c>>] = {t \in Task : ctask'[c] = t /\ cpc'[c] = "sb_push"}
  BY HoldIs, HoldIsPrime, Zenon
<1>2. \A t \in Task : /\ ctask[c] = t /\ cpc[c] # "sb_push" <=> ctask'[c] = t /\ cpc'[c] # "sb_push"
                      /\ ctask[c] = t /\ cpc[c] = "sb_push" <=> ctask'[c] = t /\ cpc'[c] = "sb_push"
  BY DEF ClientStays
<1> QED
  BY <1>1, <1>2

(* A worker that stays where it is keeps its task.                          *)
LEMMA WorkerFrame ==
  ASSUME NEW w \in Worker, WorkerStays(w)
  PROVE  Hold'[<<"run", w>>] = Hold[<<"run", w>>] /\ Hold'[<<"dec", w>>] = Hold[<<"dec", w>>]
<1>1. /\ Hold[<<"run", w>>] = {t \in Task : task_opt[w] = t /\ wpc[w] \in {"got", "run"}}
      /\ Hold[<<"dec", w>>] = {t \in Task : task_opt[w] = t /\ wpc[w] = "dec"}
      /\ Hold'[<<"run", w>>] = {t \in Task : task_opt'[w] = t /\ wpc'[w] \in {"got", "run"}}
      /\ Hold'[<<"dec", w>>] = {t \in Task : task_opt'[w] = t /\ wpc'[w] = "dec"}
  BY HoldIs, HoldIsPrime, Zenon
<1>2. \A t \in Task :
        /\ task_opt[w] = t /\ wpc[w] \in {"got", "run"} <=> task_opt'[w] = t /\ wpc'[w] \in {"got", "run"}
        /\ task_opt[w] = t /\ wpc[w] = "dec" <=> task_opt'[w] = t /\ wpc'[w] = "dec"
  BY DEF WorkerStays, Free
<1> QED
  BY <1>1, <1>2

(* A queue that is not touched keeps its tasks.                             *)
LEMMA QueueFrame ==
  ASSUME NEW w \in Worker, tasks'[w] = tasks[w]
  PROVE  Hold'[<<"queue", w>>] = Hold[<<"queue", w>>]
<1>1. /\ Hold[<<"queue", w>>] = {t \in Task : t \in Elements(tasks[w])}
      /\ Hold'[<<"queue", w>>] = {t \in Task : t \in Elements(tasks'[w])}
  BY HoldIs, HoldIsPrime, Zenon
<1> QED
  BY <1>1

(* Two assignments of tasks to the sites agree but for some sites, if they   *)
(* agree site by site.                                                      *)
SameBut(X, h, g) ==
  /\ \A c \in Client : /\ <<"hand", c>> \notin X => g[<<"hand", c>>] = h[<<"hand", c>>]
                       /\ <<"push", c>> \notin X => g[<<"push", c>>] = h[<<"push", c>>]
  /\ \A w \in Worker : /\ <<"queue", w>> \notin X => g[<<"queue", w>>] = h[<<"queue", w>>]
                       /\ <<"run", w>> \notin X => g[<<"run", w>>] = h[<<"run", w>>]
                       /\ <<"dec", w>> \notin X => g[<<"dec", w>>] = h[<<"dec", w>>]

(* Places that agree one by one agree.                                      *)
LEMMA SiteBySite ==
  ASSUME NEW X, NEW h, NEW g, SameBut(X, h, g)
  PROVE  \A z \in Site \ X : g[z] = h[z]
<1> USE DEF SameBut
<1> SUFFICES ASSUME NEW z \in Site, z \notin X PROVE g[z] = h[z]
  OBVIOUS
<1>1. CASE \E c \in Client : z = <<"hand", c>> \/ z = <<"push", c>>
  BY <1>1
<1>2. CASE \E w \in Worker : z = <<"queue", w>> \/ z = <<"run", w>> \/ z = <<"dec", w>>
  BY <1>2
<1>3. z = <<z[1], z[2]>> /\ (\/ z[1] \in {"hand", "push"} /\ z[2] \in Client
                             \/ z[1] \in {"queue", "run", "dec"} /\ z[2] \in Worker)
  BY SiteIs
<1>4. \/ \E c \in Client : z = <<"hand", c>> \/ z = <<"push", c>>
      \/ \E w \in Worker : z = <<"queue", w>> \/ z = <<"run", w>> \/ z = <<"dec", w>>
  BY <1>3
<1> QED
  BY <1>1, <1>2, <1>4

(* A step that moves no task.                                               *)
LEMMA QuietStep ==
  ASSUME CustodyInv, PoolTypes', Locals', UNCHANGED <<fate, curr_task_count, tasks>>,
         \A c \in Client : ClientStays(c), \A w \in Worker : WorkerStays(w)
  PROVE  CustodyInv'
<1>1. \A z \in Site : Hold'[z] = Hold[z]
  <2>1. \A c \in Client : /\ Hold'[<<"hand", c>>] = Hold[<<"hand", c>>]
                          /\ Hold'[<<"push", c>>] = Hold[<<"push", c>>]
    BY ClientFrame, Zenon
  <2>2. \A w \in Worker : /\ Hold'[<<"run", w>>] = Hold[<<"run", w>>]
                          /\ Hold'[<<"dec", w>>] = Hold[<<"dec", w>>]
    BY WorkerFrame, Zenon
  <2>3. \A w \in Worker : Hold'[<<"queue", w>>] = Hold[<<"queue", w>>]
    BY QueueFrame, Zenon
  <2>4. SameBut({}, Hold, Hold')
    BY <2>1, <2>2, <2>3, Zenon DEF SameBut
  <2>5. \A z \in Site \ {} : Hold'[z] = Hold[z]
    BY <2>4, SiteBySite
  <2> QED
    BY <2>5
<1>2. Custody(Hold', fate')
  BY <1>1 DEF CustodyInv, Custody
<1>3. Counted(Hold', fate') = Counted(Hold, fate)
  BY <1>1 DEF Counted
<1> QED
  BY <1>2, <1>3 DEF CustodyInv

(* The quiet steps of a worker.                                             *)
LEMMA WorkerQuietKeeps ==
  ASSUME CustodyInv, NEW w \in Worker,
         \/ WorkerLoop(w) \/ WorkerIdle(w) \/ PopTest(w) \/ PopSleep(w) \/ SpuriousWake(w)
  PROVE  CustodyInv'
<1> USE DEF pool, client
<1>1. /\ wpc[w] \in {"loop", "idle", "pred", "sleep", "wait"}
      /\ \E s \in {"done", "idle", "pred", "sleep", "take", "wait"} : wpc' = [wpc EXCEPT ![w] = s]
      /\ UNCHANGED <<pool, curr_task_count, tasks, task_opt, client, fate>>
  BY DEF WorkerLoop, WorkerIdle, PopTest, PopSleep, SpuriousWake
<1>2. PoolTypes'
  BY <1>1 DEF CustodyInv, PoolTypes, WPC
<1>3. Locals'
  BY <1>1 DEF CustodyInv, PoolTypes, Locals
<1>4. \A c \in Client : ClientStays(c)
  BY <1>1 DEF ClientStays
<1>5. \A v \in Worker : WorkerStays(v)
  BY <1>1 DEF WorkerStays, CustodyInv, PoolTypes
<1> QED
  BY <1>1, <1>2, <1>3, <1>4, <1>5, QuietStep

(* A pop that finds the queue stopped, or crashes, takes nothing; a worker   *)
(* that becomes busy keeps what it has.                                     *)
LEMMA WorkerEmptyHandedKeeps ==
  ASSUME CustodyInv, NEW w \in Worker,
         \/ PopTake(w) /\ (tasks_stop[w] \/ tasks[w] = <<>>)
         \/ WorkerBusy(w)
         \/ WorkerRun(w) /\ task_opt[w] \in Throwing \ ExecTask
  PROVE  CustodyInv'
<1> USE DEF pool, client
<1>1. CASE PopTake(w) /\ (tasks_stop[w] \/ tasks[w] = <<>>)
  <2>1. /\ wpc[w] = "take"
        /\ \/ wpc' = [wpc EXCEPT ![w] = "got"] /\ task_opt' = [task_opt EXCEPT ![w] = nil]
           \/ wpc' = [wpc EXCEPT ![w] = "ub"] /\ task_opt' = task_opt
        /\ UNCHANGED <<pool, curr_task_count, tasks, client, fate>>
    BY <1>1 DEF PopTake
  <2>2. PoolTypes'
    BY <2>1 DEF CustodyInv, PoolTypes, WPC
  <2>3. Locals'
    BY <2>1 DEF CustodyInv, PoolTypes, Locals
  <2>4. \A c \in Client : ClientStays(c)
    BY <2>1 DEF ClientStays
  <2>5. \A v \in Worker : WorkerStays(v)
    BY <2>1 DEF WorkerStays, Free, CustodyInv, PoolTypes
  <2> QED
    BY <2>1, <2>2, <2>3, <2>4, <2>5, QuietStep
<1>2. CASE WorkerBusy(w)
  <2>1. /\ wpc[w] = "got"
        /\ wpc' = [wpc EXCEPT ![w] = IF task_opt[w] = nil THEN "loop" ELSE "run"]
        /\ UNCHANGED <<pool, curr_task_count, tasks, task_opt, client, fate>>
    BY <1>2 DEF WorkerBusy
  <2>2. PoolTypes'
    BY <2>1 DEF CustodyInv, PoolTypes, WPC
  <2>3. Locals'
    BY <2>1 DEF CustodyInv, PoolTypes, Locals
  <2>4. \A c \in Client : ClientStays(c)
    BY <2>1 DEF ClientStays
  <2>5. \A v \in Worker : WorkerStays(v)
    BY <2>1 DEF WorkerStays, Free, CustodyInv, PoolTypes
  <2> QED
    BY <2>1, <2>2, <2>3, <2>4, <2>5, QuietStep
<1>3. CASE WorkerRun(w) /\ task_opt[w] \in Throwing \ ExecTask
  <2>1. UNCHANGED <<pool, curr_task_count, wpc, tasks, task_opt, client, fate>>
    BY <1>3 DEF WorkerRun
  <2>2. PoolTypes' /\ Locals'
    BY <2>1 DEF CustodyInv, PoolTypes, Locals
  <2>3. \A c \in Client : ClientStays(c)
    BY <2>1 DEF ClientStays
  <2>4. \A v \in Worker : WorkerStays(v)
    BY <2>1 DEF WorkerStays
  <2> QED
    BY <2>1, <2>2, <2>3, <2>4, QuietStep
<1> QED
  BY <1>1, <1>2, <1>3

(* The quiet steps of a client: those of Startup and Shutdown, ...           *)
LEMMA LifecycleQuietKeeps ==
  ASSUME CustodyInv, NEW c \in Client,
         \/ StartupBegin(c) \/ StartupCreate(c) \/ ShutdownBegin(c)
         \/ WorkerStop(c) \/ WorkerNotify(c)
         \/ ShutdownDangling(c) \/ ShutdownEmpty(c) \/ ShutdownEnd(c)
  PROVE  CustodyInv'
<1> USE DEF CPC, StartupPC, SubmitPC, ShutdownPC, DestroyPC
<1>1. CASE StartupCreate(c)
  <2>1. /\ cpc[c] = "su_create" /\ cpc' = [cpc EXCEPT ![c] = "idle"]
        /\ created + create_count <= MaxWorkers /\ created' = created + create_count
        /\ wpc' = [w \in Worker |-> IF w \in created + 1 .. created + create_count
                                    THEN "loop" ELSE wpc[w]]
        /\ workers' = workers \o [i \in 1 .. create_count |-> created + i]
        /\ UNCHANGED <<curr_task_count, tasks, task_opt, ctask, cscan, cworker, fate>>
    BY <1>1 DEF StartupCreate, Spawn
  <2>2. create_count \in Nat /\ created \in 0 .. MaxWorkers
    BY DEF create_count, CustodyInv, PoolTypes
  <2>3. workers' \in Seq(Worker)
    <3>1. [i \in 1 .. create_count |-> created + i] \in [1 .. create_count -> Worker]
      BY <2>1, <2>2 DEF Worker
    <3>2. [i \in 1 .. create_count |-> created + i] \in Seq(Worker)
      BY <2>2, <3>1, SeqDef
    <3> QED
      BY <2>1, <3>2, ConcatProperties DEF CustodyInv, PoolTypes
  <2>4. PoolTypes'
    BY <2>1, <2>2, <2>3 DEF CustodyInv, PoolTypes, WPC
  <2>5. \A w \in Worker : wpc'[w] = wpc[w] \/ (wpc[w] = "none" /\ wpc'[w] = "loop")
    BY <2>1, <2>2 DEF CustodyInv, Locals, Worker
  <2>6. Locals'
    <3>1. \A w \in Worker : w > created' => wpc'[w] = "none"
      BY <2>1, <2>2 DEF CustodyInv, Locals, Worker
    <3> QED
      BY <2>1, <2>5, <3>1 DEF CustodyInv, PoolTypes, Locals
  <2>7. \A d \in Client : ClientStays(d)
    BY <2>1 DEF ClientStays, CustodyInv, PoolTypes, Locals
  <2>8. \A w \in Worker : WorkerStays(w)
    BY <2>1, <2>5 DEF WorkerStays
  <2> QED
    BY <2>1, <2>4, <2>6, <2>7, <2>8, QuietStep
<1>2. CASE WorkerNotify(c)
  <2>1. /\ cpc[c] = "sd_notify" /\ cpc' = [cpc EXCEPT ![c] = "sd_join"]
        /\ \A w \in Worker : wpc'[w] = wpc[w] \/ (wpc[w] = "wait" /\ wpc'[w] = "pred")
        /\ wpc' \in [Worker -> WPC]
        /\ UNCHANGED <<pool, curr_task_count, tasks, task_opt, ctask, cscan, cworker, fate>>
    BY <1>2 DEF WorkerNotify, Notify, CustodyInv, PoolTypes, WPC
  <2>2. PoolTypes'
    BY <2>1 DEF CustodyInv, PoolTypes, pool
  <2>3. Locals'
    BY <2>1 DEF CustodyInv, PoolTypes, Locals, pool
  <2>4. \A d \in Client : ClientStays(d)
    BY <2>1 DEF ClientStays, CustodyInv, PoolTypes, Locals
  <2>5. \A w \in Worker : WorkerStays(w)
    BY <2>1 DEF WorkerStays
  <2> QED
    BY <2>1, <2>2, <2>3, <2>4, <2>5, QuietStep
<1>3. ASSUME UNCHANGED <<created, wpc, curr_task_count, tasks, task_opt, ctask, cworker, fate>>,
             workers' \in Seq(Worker), cscan' \in [Client -> Seq(Worker)], cpc' \in [Client -> CPC],
             \A d \in Client \ {c} : cpc'[d] = cpc[d] /\ cscan'[d] = cscan[d],
             \/ cpc'[c] = cpc[c] /\ cscan'[c] = cscan[c]
             \/ /\ cpc[c] \notin SubmitPC /\ cpc'[c] \notin SubmitPC
                /\ cpc'[c] \in DestroyPC => cscan'[c] # <<>>
      PROVE  CustodyInv'
  <2>1. PoolTypes'
    BY <1>3 DEF CustodyInv, PoolTypes
  <2>2. Locals'
    BY <1>3 DEF CustodyInv, PoolTypes, Locals
  <2>3. \A d \in Client : ClientStays(d)
    BY <1>3 DEF ClientStays
  <2>4. \A w \in Worker : WorkerStays(w)
    BY <1>3 DEF WorkerStays
  <2> QED
    BY <1>3, <2>1, <2>2, <2>3, <2>4, QuietStep
<1> USE DEF pool, worker, client
<1>4. CASE StartupBegin(c)
  BY <1>3, <1>4 DEF StartupBegin, CustodyInv, PoolTypes
<1>5. CASE ShutdownBegin(c)
  BY <1>3, <1>5 DEF ShutdownBegin, CustodyInv, PoolTypes
<1>6. CASE WorkerStop(c)
  BY <1>3, <1>6 DEF WorkerStop, CustodyInv, PoolTypes, Locals
<1>7. CASE ShutdownDangling(c)
  BY <1>3, <1>7 DEF ShutdownDangling, Dangling, CustodyInv, PoolTypes
<1>8. CASE ShutdownEmpty(c)
  BY <1>3, <1>8 DEF ShutdownEmpty, CustodyInv, PoolTypes
<1>9. CASE ShutdownEnd(c)
  BY <1>3, <1>9 DEF ShutdownEnd, CustodyInv, PoolTypes
<1> QED
  BY <1>1, <1>2, <1>4, <1>5, <1>6, <1>7, <1>8, <1>9

(* ... and the choice of a worker.                                          *)
LEMMA SubmitQuietKeeps ==
  ASSUME CustodyInv, NEW c \in Client,
         \/ SubmitLock(c) /\ ~(curr_task_count > max_task_count)
         \/ SubmitScan(c) \/ SubmitRandom(c) \/ SubmitExpand(c) \/ SubmitDangling(c)
  PROVE  CustodyInv'
<1> USE DEF CPC, StartupPC, SubmitPC, ShutdownPC, DestroyPC
<1>1. ASSUME UNCHANGED <<workers, curr_task_count, tasks, task_opt, ctask, fate>>,
             created' \in 0 .. MaxWorkers, wpc' \in [Worker -> WPC],
             \A w \in Worker : wpc'[w] = wpc[w] \/ (wpc[w] = "none" /\ wpc'[w] = "loop"),
             \A w \in Worker : w > created' => wpc'[w] = "none",
             cscan' \in [Client -> Seq(Worker)], cpc' \in [Client -> CPC],
             cworker' \in [Client -> Worker \cup {nil}],
             \A d \in Client \ {c} : /\ cpc'[d] = cpc[d] /\ cscan'[d] = cscan[d]
                                     /\ cworker'[d] = cworker[d],
             \/ cpc'[c] = cpc[c] /\ cscan'[c] = cscan[c] /\ cworker'[c] = cworker[c]
             \/ /\ cpc[c] \in {"sb_lock", "sb_scan"} /\ cpc'[c] \in {"sb_scan", "sb_count"}
                /\ cpc'[c] = "sb_count" => cworker'[c] # nil
      PROVE  CustodyInv'
  <2>1. PoolTypes'
    BY <1>1 DEF CustodyInv, PoolTypes
  <2>2. Locals'
    BY <1>1 DEF CustodyInv, PoolTypes, Locals
  <2>3. \A d \in Client : ClientStays(d)
    BY <1>1 DEF ClientStays
  <2>4. \A w \in Worker : WorkerStays(w)
    BY <1>1 DEF WorkerStays
  <2> QED
    BY <1>1, <2>1, <2>2, <2>3, <2>4, QuietStep
<1> USE DEF pool, worker, client
<1>0. /\ created \in 0 .. MaxWorkers /\ wpc \in [Worker -> WPC]
      /\ \A w \in Worker : w > created => wpc[w] = "none"
      /\ workers \in Seq(Worker) /\ cscan \in [Client -> Seq(Worker)]
      /\ cpc \in [Client -> CPC] /\ cworker \in [Client -> Worker \cup {nil}]
  BY DEF CustodyInv, PoolTypes, Locals
<1>2. CASE SubmitLock(c) /\ ~(curr_task_count > max_task_count)
  <2>1. /\ cpc[c] = "sb_lock" /\ cpc' = [cpc EXCEPT ![c] = "sb_scan"]
        /\ cscan' = [cscan EXCEPT ![c] = workers]
        /\ UNCHANGED <<workers, created, wpc, curr_task_count, tasks, task_opt, ctask, cworker, fate>>
    BY <1>2 DEF SubmitLock
  <2> QED
    BY <1>0, <1>1, <2>1
<1>3. CASE SubmitScan(c)
  <2>1. Head(cscan[c]) \in Worker /\ Tail(cscan[c]) \in Seq(Worker) /\ Head(cscan[c]) # nil
    BY <1>0, <1>3, HeadTailProperties DEF SubmitScan
  <2>2. cpc[c] = "sb_scan"
        /\ UNCHANGED <<workers, created, wpc, curr_task_count, tasks, task_opt, ctask, fate>>
    BY <1>3 DEF SubmitScan
  <2>3. CASE busy[Head(cscan[c])]
    <3>1. cscan' = [cscan EXCEPT ![c] = Tail(cscan[c])] /\ UNCHANGED <<cpc, cworker>>
      BY <1>3, <2>3 DEF SubmitScan
    <3> QED
      BY <1>0, <1>1, <2>1, <2>2, <3>1
  <2>4. CASE ~busy[Head(cscan[c])]
    <3>1. /\ cworker' = [cworker EXCEPT ![c] = Head(cscan[c])]
          /\ cpc' = [cpc EXCEPT ![c] = "sb_count"] /\ UNCHANGED cscan
      BY <1>3, <2>4 DEF SubmitScan
    <3> QED
      BY <1>0, <1>1, <2>1, <2>2, <3>1
  <2> QED
    BY <2>3, <2>4
<1>4. CASE SubmitRandom(c)
  <2>1. \A w \in Elements(workers) : w \in Worker /\ w # nil
    BY ElementOfSeq DEF Elements, CustodyInv, PoolTypes
  <2> QED
    BY <1>1, <1>4, <2>1 DEF SubmitRandom, CustodyInv, PoolTypes, Locals
<1>5. CASE SubmitExpand(c)
  <2>1. /\ cpc[c] = "sb_scan"
        /\ created + 1 <= MaxWorkers /\ created' = created + 1
        /\ wpc' = [w \in Worker |-> IF w \in created + 1 .. created + 1 THEN "loop" ELSE wpc[w]]
        /\ cworker' = [cworker EXCEPT ![c] = created + 1]
        /\ cpc' = [cpc EXCEPT ![c] = "sb_count"]
        /\ UNCHANGED <<workers, curr_task_count, tasks, task_opt, ctask, cscan, fate>>
    BY <1>5 DEF SubmitExpand, Spawn
  <2>2. created \in 0 .. MaxWorkers /\ created + 1 \in Worker
    BY <2>1 DEF CustodyInv, PoolTypes, Worker
  <2>3. created + 1 # nil
    BY <2>2
  <2>4. /\ wpc' \in [Worker -> WPC]
        /\ \A w \in Worker : wpc'[w] = wpc[w] \/ (wpc[w] = "none" /\ wpc'[w] = "loop")
        /\ \A w \in Worker : w > created' => wpc'[w] = "none"
    <3>1. PICK n \in Nat : n = created /\ created' = n + 1 /\ n + 1 \in Worker
      BY <2>1, <2>2
    <3>2. /\ wpc \in [Worker -> WPC] /\ "loop" \in WPC /\ Worker \subseteq Nat
          /\ \A w \in Worker : w > n => wpc[w] = "none"
      <4>1. wpc \in [Worker -> WPC]
        BY DEF CustodyInv, PoolTypes
      <4>2. "loop" \in WPC /\ Worker \subseteq Nat
        BY DEF WPC, Worker
      <4>3. \A w \in Worker : w > created => wpc[w] = "none"
        BY DEF CustodyInv, Locals
      <4> QED
        BY <3>1, <4>1, <4>2, <4>3
    <3>3. \A w \in Worker : wpc'[w] = IF w = n + 1 THEN "loop" ELSE wpc[w]
      BY <2>1, <3>1, <3>2
    <3>4. wpc' \in [Worker -> WPC]
      BY <2>1, <3>2
    <3> QED
      BY <3>1, <3>2, <3>3, <3>4
  <2> QED
    BY <1>1, <2>1, <2>2, <2>3, <2>4 DEF CustodyInv, PoolTypes
<1>6. CASE SubmitDangling(c)
  BY <1>1, <1>6 DEF SubmitDangling, Dangling, CustodyInv, PoolTypes, Locals
<1> QED
  BY <1>2, <1>3, <1>4, <1>5, <1>6

(* A step leaves all sites but those of X alone.                            *)
StaysBut(X) ==
  /\ \A c \in Client : ClientStays(c) \/ (<<"hand", c>> \in X /\ <<"push", c>> \in X)
  /\ \A w \in Worker : WorkerStays(w) \/ (<<"run", w>> \in X /\ <<"dec", w>> \in X)
  /\ \A w \in Worker : tasks'[w] = tasks[w] \/ <<"queue", w>> \in X

(* A step changes what is held only at the places it works on.              *)
LEMMA FrameBut ==
  ASSUME NEW X, StaysBut(X)
  PROVE  \A z \in Site \ X : Hold'[z] = Hold[z]
<1>1. \A c \in Client : /\ <<"hand", c>> \notin X => Hold'[<<"hand", c>>] = Hold[<<"hand", c>>]
                        /\ <<"push", c>> \notin X => Hold'[<<"push", c>>] = Hold[<<"push", c>>]
  BY ClientFrame, Zenon DEF StaysBut
<1>2. \A w \in Worker : /\ <<"run", w>> \notin X => Hold'[<<"run", w>>] = Hold[<<"run", w>>]
                        /\ <<"dec", w>> \notin X => Hold'[<<"dec", w>>] = Hold[<<"dec", w>>]
  BY WorkerFrame, Zenon DEF StaysBut
<1>3. \A w \in Worker : <<"queue", w>> \notin X => Hold'[<<"queue", w>>] = Hold[<<"queue", w>>]
  BY QueueFrame, Zenon DEF StaysBut
<1>4. SameBut(X, Hold, Hold')
  BY <1>1, <1>2, <1>3, Zenon DEF SameBut
<1> QED
  BY <1>4, SiteBySite

(* A step of client c alone, one of worker w alone, and one that also       *)
(* touches the queue of w.                                                  *)
LEMMA ClientMoves ==
  ASSUME NEW c \in Client, UNCHANGED <<wpc, tasks, task_opt>>,
         \A d \in Client \ {c} : ClientStays(d)
  PROVE  \A z \in Site : z # <<"hand", c>> /\ z # <<"push", c>> => Hold'[z] = Hold[z]
<1>1. \A w \in Worker : WorkerStays(w)
  BY DEF WorkerStays
<1>2. StaysBut({<<"hand", c>>, <<"push", c>>})
  BY <1>1 DEF StaysBut
<1>3. \A z \in Site \ {<<"hand", c>>, <<"push", c>>} : Hold'[z] = Hold[z]
  BY <1>2, FrameBut
<1> QED
  BY <1>3

(* A worker's step changes only its own places.                             *)
LEMMA WorkerMoves ==
  ASSUME NEW w \in Worker, UNCHANGED <<ctask, cpc>>,
         \A v \in Worker \ {w} : WorkerStays(v) /\ tasks'[v] = tasks[v]
  PROVE  \A z \in Site : z # <<"queue", w>> /\ z # <<"run", w>> /\ z # <<"dec", w>> => Hold'[z] = Hold[z]
<1>1. \A c \in Client : ClientStays(c)
  BY DEF ClientStays
<1>2. StaysBut({<<"queue", w>>, <<"run", w>>, <<"dec", w>>})
  BY <1>1 DEF StaysBut
<1>3. \A z \in Site \ {<<"queue", w>>, <<"run", w>>, <<"dec", w>>} : Hold'[z] = Hold[z]
  BY <1>2, FrameBut
<1> QED
  BY <1>3

(* A client's push changes only its own places and the queue.               *)
LEMMA QueueMoves ==
  ASSUME NEW c \in Client, NEW w \in Worker,
         \A d \in Client \ {c} : ClientStays(d), \A v \in Worker : WorkerStays(v),
         \A v \in Worker \ {w} : tasks'[v] = tasks[v]
  PROVE  \A z \in Site : z # <<"hand", c>> /\ z # <<"push", c>> /\ z # <<"queue", w>> => Hold'[z] = Hold[z]
<1>1. StaysBut({<<"hand", c>>, <<"push", c>>, <<"queue", w>>})
  BY DEF StaysBut
<1>2. \A z \in Site \ {<<"hand", c>>, <<"push", c>>, <<"queue", w>>} : Hold'[z] = Hold[z]
  BY <1>1, FrameBut
<1> QED
  BY <1>2

(* SubmitBegin takes the task into the client's hand, or turns it away.      *)
LEMMA SubmitBeginKeeps ==
  ASSUME CustodyInv, NEW c \in Client, NEW t \in Task, SubmitBegin(c, t)
  PROVE  CustodyInv'
<1> USE DEF CPC, StartupPC, SubmitPC, ShutdownPC, DestroyPC
<1>1. /\ Custody(Hold, fate) /\ fate \in [Task -> Fate]
      /\ curr_task_count = Cardinality(Counted(Hold, fate))
  BY DEF CustodyInv, PoolTypes
<1>2. /\ cpc[c] = "idle" /\ fate[t] = "new" /\ ctask[c] = nil
      /\ UNCHANGED <<workers, created, wpc, tasks, task_opt, cscan, cworker, curr_task_count>>
  BY DEF SubmitBegin, CustodyInv, Locals, pool, worker
<1>3. CASE start
  <2>1. /\ fate' = [fate EXCEPT ![t] = "pending"] /\ cpc' = [cpc EXCEPT ![c] = "sb_lock"]
        /\ ctask' = [ctask EXCEPT ![c] = t]
    BY <1>3 DEF SubmitBegin
  <2>2. PoolTypes'
    BY <1>2, <2>1 DEF CustodyInv, PoolTypes, Fate
  <2>3. Locals'
    BY <1>2, <2>1 DEF CustodyInv, PoolTypes, Locals
  <2>4. cpc'[c] = "sb_lock" /\ ctask'[c] = t /\ \A d \in Client \ {c} : ClientStays(d)
    BY <2>1 DEF ClientStays, CustodyInv, PoolTypes
  <2>5. \A z \in Site : z # <<"hand", c>> /\ z # <<"push", c>> => Hold'[z] = Hold[z]
    BY <1>2, <2>4, ClientMoves
  <2>6. /\ Hold[<<"hand", c>>] = {} /\ Hold[<<"push", c>>] = {}
        /\ Hold'[<<"hand", c>>] = {t} /\ Hold'[<<"push", c>>] = {}
    <3>1. /\ Hold[<<"hand", c>>] = {u \in Task : ctask[c] = u /\ cpc[c] # "sb_push"}
          /\ Hold[<<"push", c>>] = {u \in Task : ctask[c] = u /\ cpc[c] = "sb_push"}
          /\ Hold'[<<"hand", c>>] = {u \in Task : ctask'[c] = u /\ cpc'[c] # "sb_push"}
          /\ Hold'[<<"push", c>>] = {u \in Task : ctask'[c] = u /\ cpc'[c] = "sb_push"}
      BY HoldIs, HoldIsPrime, Zenon
    <3> QED
      BY <1>2, <2>4, <3>1
  <2>7. PICK x \in Site : x = <<"hand", c>>
    BY SiteIs, Zenon
  <2>8. PICK h : h = Hold
    OBVIOUS
  <2>9. PICK f \in [Task -> Fate] : f = fate
    BY <1>1
  <2>10. \A z \in Site : Hold'[z] = IF z = x THEN h[x] \cup {t} ELSE h[z]
    BY <2>5, <2>6, <2>7, <2>8
  <2>11. Custody(h, f) /\ x[1] = "hand" /\ f[t] = "new"
    BY <1>1, <1>2, <2>7, <2>8, <2>9
  <2>12. Custody(Hold', [f EXCEPT ![t] = "pending"])
    BY ONLY <2>10, <2>11, AcceptKeeps, x \in Site, t \in Task, f \in [Task -> Fate]
  <2>13. PICK e : e = [f EXCEPT ![t] = "pending"]
    OBVIOUS
  <2>14. CountKept(h, f, Hold', e)
    BY ONLY <2>10, <2>11, <2>13, AcceptCounts, x \in Site, t \in Task, f \in [Task -> Fate]
  <2>15. Custody(Hold', fate') /\ Counted(Hold', fate') = Counted(Hold, fate)
    BY <2>1, <2>8, <2>9, <2>12, <2>13, <2>14 DEF CountKept
  <2> QED
    BY <1>1, <1>2, <2>2, <2>3, <2>15 DEF CustodyInv
<1>4. CASE ~start
  <2>1. fate' = [fate EXCEPT ![t] = "refused"] /\ UNCHANGED <<cpc, ctask>>
    BY <1>4 DEF SubmitBegin
  <2>2. PoolTypes'
    BY <1>2, <2>1 DEF CustodyInv, PoolTypes, Fate, Settled
  <2>3. Locals'
    BY <1>2, <2>1 DEF CustodyInv, PoolTypes, Locals
  <2>4. Hold' = Hold
    BY <1>2, <2>1 DEF Hold
  <2>5. \A z \in Site : t \notin Hold[z]
    BY <1>1, <1>2 DEF Custody
  <2>6. Custody(Hold, fate')
    <3>1. \A u \in Task : fate'[u] = "pending" <=> fate[u] = "pending"
      BY <1>1, <1>2, <2>1
    <3>2. \A z \in Site : z[1] = "dec" => \A u \in Hold[z] : fate'[u] \in {"value", "exception"}
      <4> SUFFICES ASSUME NEW z \in Site, z[1] = "dec", NEW u \in Hold[z]
                   PROVE  fate'[u] \in {"value", "exception"}
        OBVIOUS
      <4>1. u # t /\ u \in Task /\ fate[u] \in {"value", "exception"}
        BY <1>1, <2>5 DEF Custody
      <4> QED
        BY <1>1, <2>1, <4>1
    <3> QED
      BY <1>1, <3>1, <3>2 DEF Custody
  <2>7. Counted(Hold, fate') = Counted(Hold, fate)
    BY <1>1, <1>2, <2>1 DEF Counted
  <2> QED
    BY <1>1, <1>2, <2>2, <2>3, <2>4, <2>6, <2>7 DEF CustodyInv
<1> QED
  BY <1>3, <1>4

(* A refused task, and one whose Submit throws, leave the client's hand.     *)
LEMMA SubmitTurnsAwayKeeps ==
  ASSUME CustodyInv, NEW c \in Client,
         (SubmitLock(c) /\ curr_task_count > max_task_count) \/ SubmitThrow(c)
  PROVE  CustodyInv'
<1> USE DEF CPC, StartupPC, SubmitPC, ShutdownPC, DestroyPC
<1>1. /\ Custody(Hold, fate) /\ fate \in [Task -> Fate]
      /\ curr_task_count = Cardinality(Counted(Hold, fate))
  BY DEF CustodyInv, PoolTypes
<1>2. /\ cpc[c] \in {"sb_lock", "sb_scan"} /\ Leave(c)
      /\ UNCHANGED <<workers, created, wpc, tasks, task_opt, curr_task_count>>
  BY DEF SubmitLock, SubmitThrow, worker
<1>3. PICK s \in {"refused", "thrown"} : fate' = [fate EXCEPT ![ctask[c]] = s]
  BY DEF SubmitLock, SubmitThrow
<1>4. ctask[c] # nil
  BY <1>2 DEF CustodyInv, Locals
<1>5. PICK t \in Task : ctask[c] = t
  BY <1>4 DEF CustodyInv, PoolTypes
<1>6. PoolTypes'
  BY <1>2, <1>3, <1>5 DEF Leave, CustodyInv, PoolTypes, Fate, Settled
<1>7. Locals'
  BY <1>2, <1>3 DEF Leave, CustodyInv, PoolTypes, Locals
<1>8. cpc'[c] = "idle" /\ ctask'[c] = nil /\ \A d \in Client \ {c} : ClientStays(d)
  BY <1>2 DEF ClientStays, Leave, CustodyInv, PoolTypes
<1>9. \A z \in Site : z # <<"hand", c>> /\ z # <<"push", c>> => Hold'[z] = Hold[z]
  BY <1>2, <1>8, ClientMoves
<1>10. /\ Hold[<<"hand", c>>] = {t} /\ Hold[<<"push", c>>] = {}
       /\ Hold'[<<"hand", c>>] = {} /\ Hold'[<<"push", c>>] = {}
  <2>1. /\ Hold[<<"hand", c>>] = {u \in Task : ctask[c] = u /\ cpc[c] # "sb_push"}
        /\ Hold[<<"push", c>>] = {u \in Task : ctask[c] = u /\ cpc[c] = "sb_push"}
        /\ Hold'[<<"hand", c>>] = {u \in Task : ctask'[c] = u /\ cpc'[c] # "sb_push"}
        /\ Hold'[<<"push", c>>] = {u \in Task : ctask'[c] = u /\ cpc'[c] = "sb_push"}
    BY HoldIs, HoldIsPrime, Zenon
  <2> QED
    BY <1>2, <1>5, <1>8, <2>1
<1>11. PICK x \in Site : x = <<"hand", c>>
  BY SiteIs, Zenon
<1>12. PICK h : h = Hold
  OBVIOUS
<1>13. PICK f \in [Task -> Fate] : f = fate
  BY <1>1
<1>14. \A z \in Site : Hold'[z] = IF z = x THEN {} ELSE h[z]
  BY <1>9, <1>10, <1>11, <1>12
<1>15. Custody(h, f) /\ x[1] = "hand" /\ s \in Settled /\ h[x] = {t}
  BY <1>1, <1>10, <1>11, <1>12, <1>13 DEF Settled
<1>16. \A u \in Task : fate'[u] = IF u \in h[x] THEN s ELSE f[u]
  BY <1>3, <1>5, <1>13, <1>15
<1>17. Custody(Hold', fate')
  BY ONLY <1>14, <1>15, <1>16, SettleKeeps, x \in Site, f \in [Task -> Fate]
<1>18. CountKept(h, f, Hold', fate')
  <2>1. s = "broken" <=> x[1] = "queue"
    BY <1>15
  <2> QED
    BY ONLY <1>14, <1>15, <1>16, <2>1, SettleCounts, x \in Site, f \in [Task -> Fate]
<1> QED
  BY <1>1, <1>2, <1>6, <1>7, <1>12, <1>13, <1>17, <1>18 DEF CustodyInv, CountKept

(* push_task counts the task in the client's hand, ...                      *)
LEMMA SubmitCountKeeps ==
  ASSUME CustodyInv, NEW c \in Client, SubmitCount(c)
  PROVE  CustodyInv'
<1> USE DEF CPC, StartupPC, SubmitPC, ShutdownPC, DestroyPC
<1>1. /\ Custody(Hold, fate) /\ fate \in [Task -> Fate]
      /\ curr_task_count = Cardinality(Counted(Hold, fate))
  BY DEF CustodyInv, PoolTypes
<1>2. /\ cpc[c] = "sb_count" /\ cpc' = [cpc EXCEPT ![c] = "sb_push"]
      /\ curr_task_count' = curr_task_count + 1
      /\ UNCHANGED <<workers, created, wpc, tasks, task_opt, ctask, cscan, cworker, fate>>
  BY DEF SubmitCount, pool, worker
<1>3. ctask[c] # nil
  BY <1>2 DEF CustodyInv, Locals
<1>4. PICK t \in Task : ctask[c] = t
  BY <1>3 DEF CustodyInv, PoolTypes
<1>5. PoolTypes'
  BY <1>2 DEF CustodyInv, PoolTypes
<1>6. Locals'
  BY <1>2 DEF CustodyInv, PoolTypes, Locals
<1>7. cpc'[c] = "sb_push" /\ \A d \in Client \ {c} : ClientStays(d)
  BY <1>2 DEF ClientStays, CustodyInv, PoolTypes
<1>8. \A z \in Site : z # <<"hand", c>> /\ z # <<"push", c>> => Hold'[z] = Hold[z]
  BY <1>2, <1>7, ClientMoves
<1>9. /\ Hold[<<"hand", c>>] = {t} /\ Hold[<<"push", c>>] = {}
      /\ Hold'[<<"hand", c>>] = {} /\ Hold'[<<"push", c>>] = {t}
  <2>1. /\ Hold[<<"hand", c>>] = {u \in Task : ctask[c] = u /\ cpc[c] # "sb_push"}
        /\ Hold[<<"push", c>>] = {u \in Task : ctask[c] = u /\ cpc[c] = "sb_push"}
        /\ Hold'[<<"hand", c>>] = {u \in Task : ctask'[c] = u /\ cpc'[c] # "sb_push"}
        /\ Hold'[<<"push", c>>] = {u \in Task : ctask'[c] = u /\ cpc'[c] = "sb_push"}
    BY HoldIs, HoldIsPrime, Zenon
  <2> QED
    BY <1>2, <1>4, <1>7, <2>1
<1>10. PICK x \in Site, y \in Site : x = <<"hand", c>> /\ y = <<"push", c>>
  BY SiteIs, Zenon
<1>11. PICK h : h = Hold
  OBVIOUS
<1>12. PICK f \in [Task -> Fate] : f = fate
  BY <1>1
<1>13. PICK T \in SUBSET h[x] : T = {t}
  BY <1>9, <1>10, <1>11
<1>14. \A z \in Site : Hold'[z] = IF z = x THEN h[x] \ T ELSE IF z = y THEN h[y] \cup T ELSE h[z]
  BY <1>8, <1>9, <1>10, <1>11, <1>13
<1>15. Custody(h, f) /\ x # y /\ x[1] = "hand" /\ x[1] # "dec" /\ y[1] # "dec" /\ y[1] \notin {"hand", "dec"}
  BY <1>1, <1>10, <1>11, <1>12
<1>16. Custody(Hold', f)
  <2>1. Moved(h, Hold', x, y, T)
    BY <1>14 DEF Moved
  <2> QED
    BY ONLY <1>15, <2>1, MoveKeeps, x \in Site, y \in Site, T \in SUBSET h[x]
<1>17. CountGains(h, f, Hold', T)
  BY ONLY <1>14, <1>15, MoveCounts, x \in Site, y \in Site, T \in SUBSET h[x]
<1>18. Cardinality(Counted(Hold', fate')) = Cardinality(Counted(Hold, fate)) + 1
  <2>1. Counted(Hold', f) = Counted(h, f) \cup {t} /\ t \notin Counted(h, f)
    BY <1>13, <1>17 DEF CountGains
  <2>2. Cardinality(Counted(h, f) \cup {t}) = Cardinality(Counted(h, f)) + 1
    BY <2>1, CountedSize
  <2> QED
    BY <1>2, <1>11, <1>12, <2>1, <2>2
<1>19. Custody(Hold', fate')
  BY <1>2, <1>12, <1>16
<1> QED
  BY <1>1, <1>2, <1>5, <1>6, <1>18, <1>19 DEF CustodyInv

(* ... and pushes it to the back of the queue of a worker.                  *)
LEMMA AppendIs ==
  ASSUME NEW S, NEW q \in Seq(S), NEW t \in S
  PROVE  /\ Append(q, t) \in Seq(S)
         /\ Elements(Append(q, t)) = Elements(q) \cup {t}
         /\ Injective(q) /\ t \notin Elements(q) => Injective(Append(q, t))
<1>1. /\ Append(q, t) \in Seq(S) /\ Len(q) \in Nat /\ Len(Append(q, t)) = Len(q) + 1
      /\ \A i \in 1 .. Len(q) : Append(q, t)[i] = q[i]
      /\ Append(q, t)[Len(q) + 1] = t
  BY AppendProperties
<1>2. \A i : i \in 1 .. Len(q) + 1 <=> i \in 1 .. Len(q) \/ i = Len(q) + 1
  BY <1>1
<1>3. Elements(Append(q, t)) = Elements(q) \cup {t}
  BY <1>1, <1>2 DEF Elements
<1>4. ASSUME Injective(q), t \notin Elements(q) PROVE Injective(Append(q, t))
  BY <1>1, <1>2, <1>4 DEF Injective, Elements
<1> QED
  BY <1>1, <1>3, <1>4

(* push_task moves the task from the client into the worker's queue.        *)
LEMMA SubmitPushKeeps ==
  ASSUME CustodyInv, NEW c \in Client, SubmitPush(c)
  PROVE  CustodyInv'
<1> USE DEF CPC, StartupPC, SubmitPC, ShutdownPC, DestroyPC
<1>1. /\ Custody(Hold, fate) /\ fate \in [Task -> Fate]
      /\ curr_task_count = Cardinality(Counted(Hold, fate))
  BY DEF CustodyInv, PoolTypes
<1>2. cpc[c] = "sb_push" /\ ctask[c] # nil /\ cworker[c] # nil
  BY DEF SubmitPush, CustodyInv, Locals
<1>3. PICK w \in Worker : cworker[c] = w
  BY <1>2 DEF CustodyInv, PoolTypes
<1>4. PICK t \in Task : ctask[c] = t
  BY <1>2 DEF CustodyInv, PoolTypes
<1>5. /\ tasks' = [tasks EXCEPT ![w] = Append(tasks[w], t)]
      /\ wpc' = [wpc EXCEPT ![w] = IF wpc[w] = "wait" THEN "pred" ELSE wpc[w]]
      /\ workers' = IF w \in Elements(workers) THEN workers ELSE Append(workers, w)
      /\ Leave(c)
      /\ UNCHANGED <<created, task_opt, fate, curr_task_count>>
  BY <1>3, <1>4 DEF SubmitPush, Notify
<1>6. tasks[w] \in Seq(Task) /\ Injective(tasks[w]) /\ workers \in Seq(Worker)
  BY DEF CustodyInv, PoolTypes, Locals
<1>7. /\ Hold[<<"push", c>>] = {t} /\ Hold'[<<"push", c>>] = {}
      /\ Hold[<<"hand", c>>] = {} /\ Hold'[<<"hand", c>>] = {}
  <2>1. /\ Hold[<<"hand", c>>] = {u \in Task : ctask[c] = u /\ cpc[c] # "sb_push"}
        /\ Hold[<<"push", c>>] = {u \in Task : ctask[c] = u /\ cpc[c] = "sb_push"}
        /\ Hold'[<<"hand", c>>] = {u \in Task : ctask'[c] = u /\ cpc'[c] # "sb_push"}
        /\ Hold'[<<"push", c>>] = {u \in Task : ctask'[c] = u /\ cpc'[c] = "sb_push"}
    BY HoldIs, HoldIsPrime, Zenon
  <2>2. cpc'[c] = "idle" /\ ctask'[c] = nil
    BY <1>5 DEF Leave, CustodyInv, PoolTypes
  <2> QED
    BY <1>2, <1>4, <2>1, <2>2
<1>8. /\ Append(tasks[w], t) \in Seq(Task)
      /\ Elements(Append(tasks[w], t)) = Elements(tasks[w]) \cup {t}
      /\ Hold'[<<"queue", w>>] = Hold[<<"queue", w>>] \cup {t}
      /\ Injective(Append(tasks[w], t))
  <2>1. /\ Hold[<<"queue", w>>] = {u \in Task : u \in Elements(tasks[w])}
        /\ Hold'[<<"queue", w>>] = {u \in Task : u \in Elements(tasks'[w])}
    BY HoldIs, HoldIsPrime, Zenon
  <2>2. tasks'[w] = Append(tasks[w], t)
    BY <1>5 DEF CustodyInv, PoolTypes
  <2>3. /\ <<"push", c>> \in Site /\ <<"queue", w>> \in Site
        /\ <<"push", c>> # <<"queue", w>>
    BY SiteIs
  <2>4. t \notin Hold[<<"queue", w>>]
    BY <1>1, <1>7, <2>3 DEF Custody
  <2>5. t \notin Elements(tasks[w])
    BY <2>1, <2>4
  <2> QED
    BY <1>6, <2>1, <2>2, <2>5, AppendIs
<1>9. PoolTypes'
  <2>1. workers' \in Seq(Worker)
    BY <1>5, <1>6, AppendIs
  <2>2. tasks' \in [Worker -> Seq(Task)]
    BY <1>5, <1>8 DEF CustodyInv, PoolTypes
  <2>3. wpc' \in [Worker -> WPC]
    BY <1>5 DEF CustodyInv, PoolTypes, WPC
  <2> QED
    BY <1>5, <2>1, <2>2, <2>3 DEF Leave, CustodyInv, PoolTypes
<1>10. Locals'
  <2>1. \A v \in Worker : Injective(tasks'[v])
    BY <1>5, <1>8 DEF CustodyInv, PoolTypes, Locals
  <2>2. \A v \in Worker : wpc'[v] = wpc[v] \/ (wpc[v] = "wait" /\ wpc'[v] = "pred")
    BY <1>5 DEF CustodyInv, PoolTypes
  <2> QED
    BY <1>5, <2>1, <2>2 DEF Leave, CustodyInv, PoolTypes, Locals
<1>11. \A d \in Client \ {c} : ClientStays(d)
  BY <1>5 DEF ClientStays, Leave, CustodyInv, PoolTypes
<1>12. \A v \in Worker : WorkerStays(v)
  BY <1>5 DEF WorkerStays, CustodyInv, PoolTypes
<1>13. \A v \in Worker \ {w} : tasks'[v] = tasks[v]
  BY <1>5 DEF CustodyInv, PoolTypes
<1>14. \A z \in Site : z # <<"hand", c>> /\ z # <<"push", c>> /\ z # <<"queue", w>> => Hold'[z] = Hold[z]
  BY <1>11, <1>12, <1>13, QueueMoves
<1>15. PICK x \in Site, y \in Site : x = <<"push", c>> /\ y = <<"queue", w>>
  BY SiteIs, Zenon
<1>16. PICK h : h = Hold
  OBVIOUS
<1>17. PICK f \in [Task -> Fate] : f = fate
  BY <1>1
<1>18. PICK T \in SUBSET h[x] : T = {t}
  BY <1>7, <1>15, <1>16
<1>19. \A z \in Site : Hold'[z] = IF z = x THEN h[x] \ T ELSE IF z = y THEN h[y] \cup T ELSE h[z]
  BY <1>7, <1>8, <1>14, <1>15, <1>16, <1>18
<1>20. Custody(h, f) /\ x # y /\ x[1] = "push" /\ x[1] # "dec" /\ y[1] # "dec" /\ y[1] \notin {"hand", "dec"}
  BY <1>1, <1>15, <1>16, <1>17
<1>21. Custody(Hold', f)
  <2>1. Moved(h, Hold', x, y, T)
    BY <1>19 DEF Moved
  <2> QED
    BY ONLY <1>20, <2>1, MoveKeeps, x \in Site, y \in Site, T \in SUBSET h[x]
<1>22. CountKept(h, f, Hold', f)
  <2>1. x[1] # "hand"
    BY <1>20
  <2> QED
    BY ONLY <1>19, <1>20, <2>1, MoveCounts, x \in Site, y \in Site, T \in SUBSET h[x]
<1> QED
  BY <1>1, <1>5, <1>9, <1>10, <1>16, <1>17, <1>21, <1>22 DEF CustodyInv, CountKept

(* ~Worker destroys what is queued, at Clear and when the queue dies.        *)
LEMMA DestroyKeeps ==
  ASSUME CustodyInv, NEW c \in Client, WorkerClear(c) \/ WorkerJoin(c)
  PROVE  CustodyInv'
<1> USE DEF CPC, StartupPC, SubmitPC, ShutdownPC, DestroyPC
<1>1. /\ Custody(Hold, fate) /\ fate \in [Task -> Fate]
      /\ curr_task_count = Cardinality(Counted(Hold, fate))
  BY DEF CustodyInv, PoolTypes
<1>2. cpc[c] \in {"sd_clear", "sd_join"} /\ ctask[c] = nil /\ cscan[c] \in Seq(Worker) /\ cscan[c] # <<>>
  BY DEF WorkerClear, WorkerJoin, CustodyInv, PoolTypes, Locals
<1>3. PICK w \in Worker : w = Head(cscan[c])
  BY <1>2, HeadTailProperties
<1>4. /\ fate' = [t \in Task |-> IF t \in Elements(tasks[w]) THEN "broken" ELSE fate[t]]
      /\ tasks' = [tasks EXCEPT ![w] = <<>>]
      /\ UNCHANGED <<workers, created, task_opt, ctask, cworker, curr_task_count>>
  BY <1>3 DEF WorkerClear, WorkerJoin, Break, pool
<1>5. /\ cpc' \in [Client -> CPC] /\ cpc'[c] \notin SubmitPC
      /\ \A d \in Client \ {c} : cpc'[d] = cpc[d] /\ cscan'[d] = cscan[d]
      /\ cscan' \in [Client -> Seq(Worker)]
      /\ cpc'[c] \in DestroyPC => cscan'[c] # <<>>
  <2>1. CASE WorkerClear(c)
    BY <1>2, <2>1 DEF WorkerClear, CustodyInv, PoolTypes
  <2>2. CASE WorkerJoin(c)
    <3>1. /\ Tail(cscan[c]) \in Seq(Worker) /\ Len(cscan[c]) \in Nat
          /\ Len(Tail(cscan[c])) = Len(cscan[c]) - 1
      BY <1>2, HeadTailProperties, LenProperties
    <3>2. /\ cscan' = [cscan EXCEPT ![c] = Tail(cscan[c])]
          /\ cpc' = [cpc EXCEPT ![c] = IF Len(cscan[c]) = 1 THEN "sd_empty" ELSE "sd_clear"]
      BY <2>2 DEF WorkerJoin
    <3>3. cscan'[c] = Tail(cscan[c]) /\ cpc'[c] = IF Len(cscan[c]) = 1 THEN "sd_empty" ELSE "sd_clear"
      BY <3>2 DEF CustodyInv, PoolTypes
    <3>4. ASSUME cpc'[c] \in DestroyPC PROVE cscan'[c] # <<>>
      <4>1. Len(cscan'[c]) # 0
        BY <3>1, <3>3, <3>4
      <4> QED
        BY <4>1, EmptySeq
    <3> QED
      BY <3>1, <3>2, <3>3, <3>4 DEF CustodyInv, PoolTypes
  <2> QED
    BY <2>1, <2>2
<1>6. /\ wpc' \in [Worker -> WPC]
      /\ \A v \in Worker : wpc'[v] = wpc[v] \/ (wpc[v] = "done" /\ wpc'[v] = "gone")
  BY DEF WorkerClear, WorkerJoin, CustodyInv, PoolTypes, WPC
<1>7. PoolTypes'
  <2>1. fate' \in [Task -> Fate]
    BY <1>1, <1>4 DEF Fate, Settled
  <2>2. tasks' \in [Worker -> Seq(Task)]
    BY <1>4 DEF CustodyInv, PoolTypes
  <2> QED
    BY <1>4, <1>5, <1>6, <2>1, <2>2 DEF CustodyInv, PoolTypes
<1>8. Locals'
  <2>1. \A v \in Worker : Injective(tasks'[v])
    <3>1. Injective(<<>>)
      BY DEF Injective
    <3> QED
      BY <1>4, <3>1 DEF CustodyInv, PoolTypes, Locals
  <2>2. \A v \in Worker : /\ v > created' => wpc'[v] = "none"
                          /\ wpc'[v] \in {"run", "dec"} => task_opt'[v] # nil
    BY <1>4, <1>6 DEF CustodyInv, Locals
  <2>3. \A d \in Client :
          /\ ctask'[d] # nil <=> cpc'[d] \in SubmitPC
          /\ cpc'[d] \in {"sb_count", "sb_push"} => cworker'[d] # nil
          /\ cpc'[d] \in DestroyPC => cscan'[d] # <<>>
    BY <1>2, <1>4, <1>5 DEF CustodyInv, Locals
  <2> QED
    BY <2>1, <2>2, <2>3 DEF Locals
<1>9. \A z \in Site \ {<<"queue", w>>} : Hold'[z] = Hold[z]
  <2>1. \A d \in Client : ClientStays(d)
    BY <1>2, <1>4, <1>5 DEF ClientStays
  <2>2. \A v \in Worker : WorkerStays(v)
    BY <1>4, <1>6 DEF WorkerStays
  <2>3. StaysBut({<<"queue", w>>})
    BY <1>4, <2>1, <2>2 DEF StaysBut, CustodyInv, PoolTypes
  <2> QED
    BY <2>3, FrameBut
<1>10. Hold'[<<"queue", w>>] = {} /\ Hold[<<"queue", w>>] = {t \in Task : t \in Elements(tasks[w])}
  <2>1. /\ Hold[<<"queue", w>>] = {u \in Task : u \in Elements(tasks[w])}
        /\ Hold'[<<"queue", w>>] = {u \in Task : u \in Elements(tasks'[w])}
    BY HoldIs, HoldIsPrime, Zenon
  <2>2. Elements(tasks'[w]) = {}
    BY <1>4 DEF CustodyInv, PoolTypes, Elements
  <2> QED
    BY <2>1, <2>2
<1>11. PICK x \in Site : x = <<"queue", w>>
  BY SiteIs, Zenon
<1>12. PICK h : h = Hold
  OBVIOUS
<1>13. PICK f \in [Task -> Fate] : f = fate
  BY <1>1
<1>14. PICK s \in Settled : s = "broken"
  BY DEF Settled
<1>15. \A z \in Site : Hold'[z] = IF z = x THEN {} ELSE h[z]
  BY <1>9, <1>10, <1>11, <1>12
<1>16. Custody(h, f) /\ x[1] = "queue" /\ h[x] = {t \in Task : t \in Elements(tasks[w])}
  BY <1>1, <1>10, <1>11, <1>12, <1>13
<1>17. \A u \in Task : fate'[u] = IF u \in h[x] THEN s ELSE f[u]
  BY <1>4, <1>13, <1>14, <1>16
<1>18. Custody(Hold', fate')
  BY ONLY <1>15, <1>16, <1>17, SettleKeeps, x \in Site, f \in [Task -> Fate], s \in Settled
<1>19. CountKept(h, f, Hold', fate')
  <2>1. s = "broken" <=> x[1] = "queue"
    BY <1>14, <1>16
  <2> QED
    BY ONLY <1>15, <1>16, <1>17, <2>1, SettleCounts, x \in Site, f \in [Task -> Fate], s \in Settled
<1> QED
  BY <1>1, <1>4, <1>7, <1>8, <1>12, <1>13, <1>18, <1>19 DEF CustodyInv, CountKept

(* A worker pops the front of its queue, ...                                *)
LEMMA TailIs ==
  ASSUME NEW S, NEW q \in Seq(S), q # <<>>, Injective(q)
  PROVE  /\ Head(q) \in S /\ Tail(q) \in Seq(S) /\ Injective(Tail(q))
         /\ Elements(q) = Elements(Tail(q)) \cup {Head(q)} /\ Head(q) \notin Elements(Tail(q))
<1>1. /\ Head(q) \in S /\ Tail(q) \in Seq(S) /\ Len(q) \in Nat /\ Len(Tail(q)) = Len(q) - 1
      /\ \A i \in 1 .. Len(Tail(q)) : Tail(q)[i] = q[i + 1]
      /\ Head(q) = q[1] /\ Len(q) # 0
  BY HeadTailProperties, EmptySeq, LenProperties
<1>2. \A i : i \in 1 .. Len(q) <=> i = 1 \/ (i - 1 \in 1 .. Len(Tail(q)) /\ i \in Int)
  BY <1>1
<1>3. \A i \in 1 .. Len(Tail(q)) : i + 1 \in 1 .. Len(q) /\ i + 1 # 1
  BY <1>1
<1>4. Elements(q) = Elements(Tail(q)) \cup {Head(q)}
  <2>1. \A i \in 1 .. Len(q) : i = 1 \/ \E j \in 1 .. Len(Tail(q)) : Tail(q)[j] = q[i]
    <3> SUFFICES ASSUME NEW i \in 1 .. Len(q), i # 1
                 PROVE  \E j \in 1 .. Len(Tail(q)) : Tail(q)[j] = q[i]
      OBVIOUS
    <3>1. i - 1 \in 1 .. Len(Tail(q)) /\ i - 1 + 1 = i
      BY <1>1
    <3> QED
      BY <1>1, <3>1
  <2>2. \A j \in 1 .. Len(Tail(q)) : \E i \in 1 .. Len(q) : Tail(q)[j] = q[i]
    BY <1>1, <1>3
  <2>3. 1 \in 1 .. Len(q)
    BY <1>1
  <2> QED
    BY <1>1, <2>1, <2>2, <2>3 DEF Elements
<1>5. Head(q) \notin Elements(Tail(q))
  BY <1>1, <1>3 DEF Injective, Elements
<1>6. Injective(Tail(q))
  <2> SUFFICES ASSUME NEW i \in 1 .. Len(Tail(q)), NEW j \in 1 .. Len(Tail(q)), Tail(q)[i] = Tail(q)[j]
               PROVE  i = j
    BY DEF Injective
  <2>1. q[i + 1] = q[j + 1]
    BY <1>1
  <2>2. i + 1 = j + 1
    BY <1>3, <2>1 DEF Injective
  <2> QED
    BY <2>2
<1> QED
  BY <1>1, <1>4, <1>5, <1>6

(* A Pop that finds a task moves it from the queue to the worker.           *)
LEMMA PopKeeps ==
  ASSUME CustodyInv, NEW w \in Worker, PopTake(w), ~(tasks_stop[w] \/ tasks[w] = <<>>)
  PROVE  CustodyInv'
<1>1. /\ Custody(Hold, fate) /\ fate \in [Task -> Fate]
      /\ curr_task_count = Cardinality(Counted(Hold, fate))
  BY DEF CustodyInv, PoolTypes
<1>2. tasks[w] \in Seq(Task) /\ Injective(tasks[w]) /\ tasks[w] # <<>>
  BY DEF CustodyInv, PoolTypes, Locals
<1>3. PICK t \in Task : t = Head(tasks[w])
  BY <1>2, TailIs
<1>4. /\ wpc[w] = "take" /\ wpc' = [wpc EXCEPT ![w] = "got"]
      /\ task_opt' = [task_opt EXCEPT ![w] = t] /\ tasks' = [tasks EXCEPT ![w] = Tail(tasks[w])]
      /\ UNCHANGED <<workers, created, curr_task_count, cpc, ctask, cscan, cworker, fate>>
  BY <1>3 DEF PopTake, pool, client
<1>5. /\ wpc'[w] = "got" /\ task_opt'[w] = t /\ tasks'[w] = Tail(tasks[w])
      /\ \A v \in Worker \ {w} : wpc'[v] = wpc[v] /\ task_opt'[v] = task_opt[v] /\ tasks'[v] = tasks[v]
  BY <1>4 DEF CustodyInv, PoolTypes
<1>6. PoolTypes'
  <2>1. tasks' \in [Worker -> Seq(Task)]
    BY <1>2, <1>4, TailIs DEF CustodyInv, PoolTypes
  <2>2. wpc' \in [Worker -> WPC]
    BY <1>4 DEF CustodyInv, PoolTypes, WPC
  <2> QED
    BY <1>4, <2>1, <2>2 DEF CustodyInv, PoolTypes
<1>7. Locals'
  <2>1. \A v \in Worker : Injective(tasks'[v])
    BY <1>2, <1>5, TailIs DEF CustodyInv, Locals
  <2>2. \A v \in Worker : /\ v > created' => wpc'[v] = "none"
                          /\ wpc'[v] \in {"run", "dec"} => task_opt'[v] # nil
    BY <1>4, <1>5 DEF CustodyInv, Locals
  <2> QED
    BY <1>4, <2>1, <2>2 DEF CustodyInv, Locals
<1>8. \A z \in Site : z # <<"queue", w>> /\ z # <<"run", w>> /\ z # <<"dec", w>> => Hold'[z] = Hold[z]
  <2>1. \A v \in Worker \ {w} : WorkerStays(v) /\ tasks'[v] = tasks[v]
    BY <1>5 DEF WorkerStays
  <2> QED
    BY <1>4, <2>1, WorkerMoves
<1>9. /\ Hold[<<"run", w>>] = {} /\ Hold'[<<"run", w>>] = {t}
      /\ Hold[<<"dec", w>>] = {} /\ Hold'[<<"dec", w>>] = {}
      /\ Hold'[<<"queue", w>>] = Hold[<<"queue", w>>] \ {t} /\ t \in Hold[<<"queue", w>>]
  <2>1. /\ Hold[<<"queue", w>>] = {u \in Task : u \in Elements(tasks[w])}
        /\ Hold'[<<"queue", w>>] = {u \in Task : u \in Elements(tasks'[w])}
        /\ Hold[<<"run", w>>] = {u \in Task : task_opt[w] = u /\ wpc[w] \in {"got", "run"}}
        /\ Hold[<<"dec", w>>] = {u \in Task : task_opt[w] = u /\ wpc[w] = "dec"}
        /\ Hold'[<<"run", w>>] = {u \in Task : task_opt'[w] = u /\ wpc'[w] \in {"got", "run"}}
        /\ Hold'[<<"dec", w>>] = {u \in Task : task_opt'[w] = u /\ wpc'[w] = "dec"}
    BY HoldIs, HoldIsPrime, Zenon
  <2>2. Elements(tasks[w]) = Elements(tasks'[w]) \cup {t} /\ t \notin Elements(tasks'[w])
    BY <1>2, <1>3, <1>5, TailIs
  <2> QED
    BY <1>4, <1>5, <2>1, <2>2
<1>10. PICK x \in Site, y \in Site : x = <<"queue", w>> /\ y = <<"run", w>>
  BY SiteIs, Zenon
<1>11. PICK h : h = Hold
  OBVIOUS
<1>12. PICK f \in [Task -> Fate] : f = fate
  BY <1>1
<1>13. PICK T \in SUBSET h[x] : T = {t}
  BY <1>9, <1>10, <1>11
<1>14. \A z \in Site : Hold'[z] = IF z = x THEN h[x] \ T ELSE IF z = y THEN h[y] \cup T ELSE h[z]
  BY <1>8, <1>9, <1>10, <1>11, <1>13
<1>15. Custody(h, f) /\ x # y /\ x[1] = "queue" /\ x[1] # "dec" /\ y[1] # "dec" /\ y[1] \notin {"hand", "dec"}
  BY <1>1, <1>10, <1>11, <1>12
<1>16. Custody(Hold', f)
  <2>1. Moved(h, Hold', x, y, T)
    BY <1>14 DEF Moved
  <2> QED
    BY ONLY <1>15, <2>1, MoveKeeps, x \in Site, y \in Site, T \in SUBSET h[x]
<1>17. CountKept(h, f, Hold', f)
  <2>1. x[1] # "hand"
    BY <1>15
  <2> QED
    BY ONLY <1>14, <1>15, <2>1, MoveCounts, x \in Site, y \in Site, T \in SUBSET h[x]
<1> QED
  BY <1>1, <1>4, <1>6, <1>7, <1>11, <1>12, <1>16, <1>17 DEF CustodyInv, CountKept

(* ... runs it, ...                                                         *)
LEMMA RunStepKeeps ==
  ASSUME CustodyInv, NEW w \in Worker, WorkerRun(w), task_opt[w] \notin Throwing \ ExecTask
  PROVE  CustodyInv'
<1>1. /\ Custody(Hold, fate) /\ fate \in [Task -> Fate]
      /\ curr_task_count = Cardinality(Counted(Hold, fate))
  BY DEF CustodyInv, PoolTypes
<1>2. wpc[w] = "run" /\ task_opt[w] # nil
  BY DEF WorkerRun, CustodyInv, Locals
<1>3. PICK t \in Task : t = task_opt[w]
  BY <1>2 DEF CustodyInv, PoolTypes
<1>4. PICK s \in {"value", "exception"} : fate' = [fate EXCEPT ![t] = s]
  BY <1>3 DEF WorkerRun
<1>5. /\ wpc' = [wpc EXCEPT ![w] = "dec"]
      /\ UNCHANGED <<workers, created, curr_task_count, tasks, task_opt, cpc, ctask, cscan, cworker>>
  BY DEF WorkerRun, pool, client
<1>6. wpc'[w] = "dec" /\ \A v \in Worker \ {w} : wpc'[v] = wpc[v]
  BY <1>5 DEF CustodyInv, PoolTypes
<1>7. PoolTypes'
  BY <1>4, <1>5 DEF CustodyInv, PoolTypes, WPC, Fate, Settled
<1>8. Locals'
  BY <1>2, <1>5, <1>6 DEF CustodyInv, Locals
<1>9. \A z \in Site : z # <<"queue", w>> /\ z # <<"run", w>> /\ z # <<"dec", w>> => Hold'[z] = Hold[z]
  <2>1. \A v \in Worker \ {w} : WorkerStays(v) /\ tasks'[v] = tasks[v]
    BY <1>5, <1>6 DEF WorkerStays
  <2> QED
    BY <1>5, <2>1, WorkerMoves
<1>10. /\ Hold[<<"run", w>>] = {t} /\ Hold'[<<"run", w>>] = {}
       /\ Hold[<<"dec", w>>] = {} /\ Hold'[<<"dec", w>>] = {t}
       /\ Hold'[<<"queue", w>>] = Hold[<<"queue", w>>]
  <2>1. /\ Hold[<<"run", w>>] = {u \in Task : task_opt[w] = u /\ wpc[w] \in {"got", "run"}}
        /\ Hold[<<"dec", w>>] = {u \in Task : task_opt[w] = u /\ wpc[w] = "dec"}
        /\ Hold'[<<"run", w>>] = {u \in Task : task_opt'[w] = u /\ wpc'[w] \in {"got", "run"}}
        /\ Hold'[<<"dec", w>>] = {u \in Task : task_opt'[w] = u /\ wpc'[w] = "dec"}
    BY HoldIs, HoldIsPrime, Zenon
  <2>2. Hold'[<<"queue", w>>] = Hold[<<"queue", w>>]
    BY <1>5, QueueFrame
  <2> QED
    BY <1>2, <1>3, <1>5, <1>6, <2>1, <2>2
<1>11. PICK x \in Site, y \in Site : x = <<"run", w>> /\ y = <<"dec", w>>
  BY SiteIs, Zenon
<1>12. PICK h : h = Hold
  OBVIOUS
<1>13. PICK f \in [Task -> Fate] : f = fate
  BY <1>1
<1>14. \A z \in Site : Hold'[z] = IF z = x THEN {} ELSE IF z = y THEN {t} ELSE h[z]
  BY <1>9, <1>10, <1>11, <1>12
<1>15. Custody(h, f) /\ x[1] = "run" /\ x[1] # "dec" /\ y[1] = "dec" /\ h[x] = {t} /\ h[y] = {}
  BY <1>1, <1>10, <1>11, <1>12, <1>13
<1>16. PICK e : e = [f EXCEPT ![t] = s]
  OBVIOUS
<1>17. Ran(h, Hold', x, y, t)
  BY <1>14, <1>15 DEF Ran
<1>18. Custody(Hold', [f EXCEPT ![t] = s])
  BY ONLY <1>15, <1>17, RunKeeps, x \in Site, y \in Site, t \in Task, f \in [Task -> Fate],
          s \in {"value", "exception"}
<1>19. CountKept(h, f, Hold', e)
  BY ONLY <1>15, <1>16, <1>17, RunCounts, x \in Site, y \in Site, t \in Task, f \in [Task -> Fate],
          s \in {"value", "exception"}
<1> QED
  BY <1>1, <1>4, <1>5, <1>7, <1>8, <1>12, <1>13, <1>16, <1>18, <1>19 DEF CustodyInv, CountKept

(* ... and counts it off.                                                   *)
LEMMA CountOffStepKeeps ==
  ASSUME CustodyInv, NEW w \in Worker, WorkerCountOff(w)
  PROVE  CustodyInv'
<1>1. /\ Custody(Hold, fate) /\ fate \in [Task -> Fate]
      /\ curr_task_count = Cardinality(Counted(Hold, fate))
  BY DEF CustodyInv, PoolTypes
<1>2. wpc[w] = "dec" /\ task_opt[w] # nil
  BY DEF WorkerCountOff, CustodyInv, Locals
<1>3. PICK t \in Task : t = task_opt[w]
  BY <1>2 DEF CustodyInv, PoolTypes
<1>4. /\ wpc' = [wpc EXCEPT ![w] = "loop"] /\ curr_task_count' = curr_task_count - 1
      /\ UNCHANGED <<workers, created, tasks, task_opt, cpc, ctask, cscan, cworker, fate>>
  BY DEF WorkerCountOff, pool, client
<1>5. wpc'[w] = "loop" /\ \A v \in Worker \ {w} : wpc'[v] = wpc[v]
  BY <1>4 DEF CustodyInv, PoolTypes
<1>6. PoolTypes'
  BY <1>4 DEF CustodyInv, PoolTypes, WPC
<1>7. Locals'
  BY <1>2, <1>4, <1>5 DEF CustodyInv, Locals
<1>8. \A z \in Site : z # <<"queue", w>> /\ z # <<"run", w>> /\ z # <<"dec", w>> => Hold'[z] = Hold[z]
  <2>1. \A v \in Worker \ {w} : WorkerStays(v) /\ tasks'[v] = tasks[v]
    BY <1>4, <1>5 DEF WorkerStays
  <2> QED
    BY <1>4, <2>1, WorkerMoves
<1>9. /\ Hold[<<"run", w>>] = {} /\ Hold'[<<"run", w>>] = {}
      /\ Hold[<<"dec", w>>] = {t} /\ Hold'[<<"dec", w>>] = {}
      /\ Hold'[<<"queue", w>>] = Hold[<<"queue", w>>]
  <2>1. /\ Hold[<<"run", w>>] = {u \in Task : task_opt[w] = u /\ wpc[w] \in {"got", "run"}}
        /\ Hold[<<"dec", w>>] = {u \in Task : task_opt[w] = u /\ wpc[w] = "dec"}
        /\ Hold'[<<"run", w>>] = {u \in Task : task_opt'[w] = u /\ wpc'[w] \in {"got", "run"}}
        /\ Hold'[<<"dec", w>>] = {u \in Task : task_opt'[w] = u /\ wpc'[w] = "dec"}
    BY HoldIs, HoldIsPrime, Zenon
  <2>2. Hold'[<<"queue", w>>] = Hold[<<"queue", w>>]
    BY <1>4, QueueFrame
  <2> QED
    BY <1>2, <1>3, <1>4, <1>5, <2>1, <2>2
<1>10. PICK x \in Site : x = <<"dec", w>>
  BY SiteIs, Zenon
<1>11. PICK h : h = Hold
  OBVIOUS
<1>12. PICK f \in [Task -> Fate] : f = fate
  BY <1>1
<1>13. \A z \in Site : Hold'[z] = IF z = x THEN {} ELSE h[z]
  BY <1>8, <1>9, <1>10, <1>11
<1>14. Custody(h, f) /\ x[1] = "dec" /\ h[x] = {t}
  BY <1>1, <1>9, <1>10, <1>11, <1>12
<1>15. Custody(Hold', f)
  BY ONLY <1>13, <1>14, CountOffKeeps, x \in Site
<1>16. CountLoses(h, f, Hold', t)
  BY ONLY <1>13, <1>14, CountOffCounts, x \in Site, t \in Task
<1>17. Cardinality(Counted(Hold', fate')) = Cardinality(Counted(Hold, fate)) - 1
  <2>1. Counted(Hold', f) = Counted(h, f) \ {t} /\ t \in Counted(h, f)
    BY <1>16 DEF CountLoses
  <2>2. Cardinality(Counted(h, f) \ {t}) = Cardinality(Counted(h, f)) - 1
    BY <2>1, CountedSize
  <2> QED
    BY <1>4, <1>11, <1>12, <2>1, <2>2
<1>18. Custody(Hold', fate')
  BY <1>4, <1>12, <1>15
<1> QED
  BY <1>1, <1>4, <1>6, <1>7, <1>17, <1>18 DEF CustodyInv

(* At the start no task is anywhere.                                        *)
LEMMA CustodyStarts == Init => CustodyInv
<1> SUFFICES ASSUME Init PROVE CustodyInv
  OBVIOUS
<1>1. \A c \in Client : Hold[<<"hand", c>>] = {} /\ Hold[<<"push", c>>] = {}
  <2> SUFFICES ASSUME NEW c \in Client PROVE Hold[<<"hand", c>>] = {} /\ Hold[<<"push", c>>] = {}
    OBVIOUS
  <2>1. /\ Hold[<<"hand", c>>] = {t \in Task : ctask[c] = t /\ cpc[c] # "sb_push"}
        /\ Hold[<<"push", c>>] = {t \in Task : ctask[c] = t /\ cpc[c] = "sb_push"}
    BY HoldIs, Zenon
  <2> QED
    BY <2>1 DEF Init
<1>2. \A w \in Worker : Hold[<<"queue", w>>] = {} /\ Hold[<<"run", w>>] = {} /\ Hold[<<"dec", w>>] = {}
  <2> SUFFICES ASSUME NEW w \in Worker
               PROVE  Hold[<<"queue", w>>] = {} /\ Hold[<<"run", w>>] = {} /\ Hold[<<"dec", w>>] = {}
    OBVIOUS
  <2>1. /\ Hold[<<"queue", w>>] = {t \in Task : t \in Elements(tasks[w])}
        /\ Hold[<<"run", w>>] = {t \in Task : task_opt[w] = t /\ wpc[w] \in {"got", "run"}}
        /\ Hold[<<"dec", w>>] = {t \in Task : task_opt[w] = t /\ wpc[w] = "dec"}
    BY HoldIs, Zenon
  <2>2. tasks[w] = <<>> /\ wpc[w] = "none"
    BY DEF Init
  <2> QED
    BY <2>1, <2>2 DEF Elements
<1>3. \A x \in Site : Hold[x] = {}
  <2>1. PICK e : e = [x \in Site |-> {}]
    OBVIOUS
  <2>2. SameBut({}, e, Hold)
    <3>1. \A x \in Site : e[x] = {}
      BY <2>1
    <3> QED
      BY <1>1, <1>2, <3>1, SiteIs, Zenon DEF SameBut
  <2>3. \A x \in Site \ {} : Hold[x] = e[x]
    BY <2>2, SiteBySite
  <2> QED
    BY <2>1, <2>3
<1>4. PoolTypes
  BY DEF Init, PoolTypes, WPC, CPC, Fate
<1>5. Locals
  <2>1. Injective(<<>>)
    BY DEF Injective
  <2> QED
    BY <2>1 DEF Init, Locals, SubmitPC, DestroyPC
<1>6. Custody(Hold, fate)
  BY <1>3 DEF Init, Custody
<1>7. Counted(Hold, fate) = {}
  BY <1>3 DEF Init, Counted
<1>8. curr_task_count = Cardinality(Counted(Hold, fate))
  BY <1>7, FS_EmptySet DEF Init
<1> QED
  BY <1>4, <1>5, <1>6, <1>8 DEF CustodyInv

(* Every step keeps the tasks in custody, whoever takes it.                 *)
LEMMA CustodyHolds == Spec => []CustodyInv
<1>1. CustodyInv /\ [Next]_vars => CustodyInv'
  <2> SUFFICES ASSUME CustodyInv, [Next]_vars PROVE CustodyInv'
    OBVIOUS
  <2>1. ASSUME NEW c \in Client,
               \/ StartupBegin(c) \/ ShutdownBegin(c) \/ ClientStep(c)
               \/ \E t \in Task : SubmitBegin(c, t)
        PROVE  CustodyInv'
    <3>1. CASE \E t \in Task : SubmitBegin(c, t)
      BY <3>1, SubmitBeginKeeps
    <3>2. CASE \/ StartupBegin(c) \/ StartupCreate(c) \/ ShutdownBegin(c)
               \/ WorkerStop(c) \/ WorkerNotify(c)
               \/ ShutdownDangling(c) \/ ShutdownEmpty(c) \/ ShutdownEnd(c)
      BY <3>2, LifecycleQuietKeeps
    <3>3. CASE SubmitLock(c) \/ SubmitThrow(c)
      BY <3>3, SubmitQuietKeeps, SubmitTurnsAwayKeeps
    <3>4. CASE SubmitScan(c) \/ SubmitRandom(c) \/ SubmitExpand(c) \/ SubmitDangling(c)
      BY <3>4, SubmitQuietKeeps
    <3>5. CASE SubmitCount(c) \/ SubmitPush(c)
      BY <3>5, SubmitCountKeeps, SubmitPushKeeps
    <3>6. CASE WorkerClear(c) \/ WorkerJoin(c)
      BY <3>6, DestroyKeeps
    <3> QED
      BY <2>1, <3>1, <3>2, <3>3, <3>4, <3>5, <3>6 DEF ClientStep
  <2>2. ASSUME NEW w \in Worker, SpuriousWake(w) \/ WorkerStep(w) PROVE CustodyInv'
    <3>1. CASE WorkerLoop(w) \/ WorkerIdle(w) \/ PopTest(w) \/ PopSleep(w) \/ SpuriousWake(w)
      BY <3>1, WorkerQuietKeeps
    <3>2. CASE PopTake(w) \/ WorkerBusy(w)
      BY <3>2, WorkerEmptyHandedKeeps, PopKeeps
    <3>3. CASE WorkerRun(w) \/ WorkerCountOff(w)
      BY <3>3, WorkerEmptyHandedKeeps, RunStepKeeps, CountOffStepKeeps
    <3> QED
      BY <2>2, <3>1, <3>2, <3>3 DEF WorkerStep
  <2>3. CASE UNCHANGED vars
    <3>1. UNCHANGED <<workers, created, wpc, tasks, task_opt, cpc, ctask, cscan, cworker, fate,
                      curr_task_count>>
      BY <2>3 DEF vars, pool, worker, client
    <3>2. PoolTypes' /\ Locals'
      BY <3>1 DEF CustodyInv, PoolTypes, Locals
    <3>3. (\A c \in Client : ClientStays(c)) /\ (\A w \in Worker : WorkerStays(w))
      BY <3>1 DEF ClientStays, WorkerStays
    <3> QED
      BY <3>1, <3>2, <3>3, QuietStep
  <2> QED
    BY <2>1, <2>2, <2>3 DEF Next
<1> QED
  BY <1>1, CustodyStarts, PTL DEF Spec

(* Where module ThreadPool looks for a task, and the sites.                  *)
LEMMA PlacesAreSites ==
  ASSUME CustodyInv, NEW t \in Task
  PROVE  /\ \A c \in Client : c \in InHand(t) <=> t \in Hold[<<"hand", c>>] \/ t \in Hold[<<"push", c>>]
         /\ \A c \in Client : c \in InHand(t) /\ cpc[c] = "sb_push" <=> t \in Hold[<<"push", c>>]
         /\ \A w \in Worker : (\E i \in 1 .. Len(tasks[w]) : tasks[w][i] = t) <=> t \in Hold[<<"queue", w>>]
         /\ \A w \in Worker : w \in Running(t) <=> t \in Hold[<<"run", w>>]
         /\ \A w \in Worker : task_opt[w] = t /\ wpc[w] = "dec" <=> t \in Hold[<<"dec", w>>]
<1>1. ASSUME NEW c \in Client
      PROVE  /\ c \in InHand(t) <=> t \in Hold[<<"hand", c>>] \/ t \in Hold[<<"push", c>>]
             /\ c \in InHand(t) /\ cpc[c] = "sb_push" <=> t \in Hold[<<"push", c>>]
  <2>1. /\ Hold[<<"hand", c>>] = {u \in Task : ctask[c] = u /\ cpc[c] # "sb_push"}
        /\ Hold[<<"push", c>>] = {u \in Task : ctask[c] = u /\ cpc[c] = "sb_push"}
    BY HoldIs, Zenon
  <2> QED
    BY <2>1 DEF InHand
<1>2. ASSUME NEW w \in Worker
      PROVE  /\ (\E i \in 1 .. Len(tasks[w]) : tasks[w][i] = t) <=> t \in Hold[<<"queue", w>>]
             /\ w \in Running(t) <=> t \in Hold[<<"run", w>>]
             /\ task_opt[w] = t /\ wpc[w] = "dec" <=> t \in Hold[<<"dec", w>>]
  <2>1. /\ Hold[<<"queue", w>>] = {u \in Task : u \in Elements(tasks[w])}
        /\ Hold[<<"run", w>>] = {u \in Task : task_opt[w] = u /\ wpc[w] \in {"got", "run"}}
        /\ Hold[<<"dec", w>>] = {u \in Task : task_opt[w] = u /\ wpc[w] = "dec"}
    BY HoldIs, Zenon
  <2>2. t \in Elements(tasks[w]) <=> \E i \in 1 .. Len(tasks[w]) : tasks[w][i] = t
    BY DEF Elements
  <2> QED
    BY <2>1, <2>2 DEF Running
<1> QED
  BY <1>1, <1>2

(* The positions of the queues at which a task is.                          *)
LEMMA QueuedIs ==
  ASSUME NEW t
  PROVE  \A p : p \in Queued(t) <=>
           \E w \in Worker : \E i \in 1 .. Len(tasks[w]) : tasks[w][i] = t /\ p = <<w, i>>
<1>1. \A p : p \in Queued(t) <=>
        \E w \in Worker : p \in {<<w, i>> : i \in {j \in 1 .. Len(tasks[w]) : tasks[w][j] = t}}
  BY DEF Queued
<1>2. ASSUME NEW p, NEW w
      PROVE  p \in {<<w, i>> : i \in {j \in 1 .. Len(tasks[w]) : tasks[w][j] = t}} <=>
             \E i \in 1 .. Len(tasks[w]) : tasks[w][i] = t /\ p = <<w, i>>
  OBVIOUS
<1> QED
  BY <1>1, <1>2

(* A task that was accepted is in exactly one place until it is settled, and *)
(* a settled one is nowhere: the client's hand, one position of one queue,   *)
(* or one worker (thread_pool.h 76-105, 144-176), however the threads        *)
(* interleave, and with Startup and Shutdown overlapping Submit or not.      *)
THEOREM OneHolderAlways == Spec => []OneHolder
<1>1. CustodyInv => OneHolder
  <2> SUFFICES ASSUME CustodyInv, NEW t \in Task
               PROVE  Cardinality(InHand(t)) + Cardinality(Queued(t)) + Cardinality(Running(t))
                        = IF fate[t] = "pending" THEN 1 ELSE 0
    BY DEF OneHolder
  <2>1. /\ \A x, y \in Site : t \in Hold[x] /\ t \in Hold[y] => x = y
        /\ fate[t] = "pending" <=> \E x \in Site : x[1] # "dec" /\ t \in Hold[x]
    BY DEF CustodyInv, Custody
  <2>2. /\ \A c \in Client : c \in InHand(t) <=> t \in Hold[<<"hand", c>>] \/ t \in Hold[<<"push", c>>]
        /\ \A w \in Worker : (\E i \in 1 .. Len(tasks[w]) : tasks[w][i] = t) <=> t \in Hold[<<"queue", w>>]
        /\ \A w \in Worker : w \in Running(t) <=> t \in Hold[<<"run", w>>]
    BY PlacesAreSites
  <2>3. InHand(t) \subseteq Client /\ Running(t) \subseteq Worker
    BY DEF InHand, Running
  <2>4. \A p : p \in Queued(t) <=>
          \E w \in Worker : \E i \in 1 .. Len(tasks[w]) : tasks[w][i] = t /\ p = <<w, i>>
    BY QueuedIs
  <2>5. /\ Cardinality({}) = 0
        /\ \A a : Cardinality({a}) = 1
    BY FS_EmptySet, FS_Singleton
  <2>6. CASE fate[t] # "pending"
    <3>1. \A x \in Site : x[1] # "dec" => t \notin Hold[x]
      BY <2>1, <2>6
    <3>2. /\ \A c \in Client : t \notin Hold[<<"hand", c>>] /\ t \notin Hold[<<"push", c>>]
          /\ \A w \in Worker : t \notin Hold[<<"queue", w>>] /\ t \notin Hold[<<"run", w>>]
      BY <3>1, SiteIs
    <3>3. InHand(t) = {} /\ Running(t) = {}
      BY <2>2, <2>3, <3>2
    <3>4. Queued(t) = {}
      BY <2>2, <2>4, <3>2
    <3> QED
      BY <2>5, <2>6, <3>3, <3>4
  <2>7. CASE fate[t] = "pending"
    <3>1. PICK x \in Site : x[1] # "dec" /\ t \in Hold[x]
      BY <2>1, <2>7
    <3>2. /\ \A c \in Client : t \in Hold[<<"hand", c>>] => x = <<"hand", c>>
          /\ \A c \in Client : t \in Hold[<<"push", c>>] => x = <<"push", c>>
          /\ \A w \in Worker : t \in Hold[<<"queue", w>>] => x = <<"queue", w>>
          /\ \A w \in Worker : t \in Hold[<<"run", w>>] => x = <<"run", w>>
      BY <2>1, <3>1, SiteIs, Zenon
    <3>3. CASE \E c \in Client : x = <<"hand", c>> \/ x = <<"push", c>>
      <4>1. PICK c \in Client : x = <<"hand", c>> \/ x = <<"push", c>>
        BY <3>3
      <4>2. /\ \A d \in Client : x = <<"hand", d>> \/ x = <<"push", d>> => d = c
            /\ \A w \in Worker : x # <<"queue", w>> /\ x # <<"run", w>>
        BY <4>1
      <4>3. \A d \in Client : d \in InHand(t) => d = c
        BY <2>2, <3>2, <4>2, Zenon
      <4>4. c \in InHand(t)
        BY <2>2, <3>1, <4>1
      <4>5. InHand(t) = {c}
        BY <2>3, <4>3, <4>4
      <4>6. \A w \in Worker : t \notin Hold[<<"queue", w>>] /\ t \notin Hold[<<"run", w>>]
        BY <3>2, <4>2, Zenon
      <4>7. Running(t) = {}
        BY <2>2, <2>3, <4>6
      <4>8. Queued(t) = {}
        BY <2>2, <2>4, <4>6
      <4>9. Cardinality(InHand(t)) = 1 /\ Cardinality(Queued(t)) = 0 /\ Cardinality(Running(t)) = 0
        BY <2>5, <4>5, <4>7, <4>8, Zenon
      <4> QED
        BY <2>7, <4>9
    <3>4. CASE \E w \in Worker : x = <<"queue", w>>
      <4>1. PICK w \in Worker : x = <<"queue", w>>
        BY <3>4
      <4>2. InHand(t) = {} /\ Running(t) = {}
        BY <2>2, <2>3, <3>2, <4>1
      <4>3. PICK i \in 1 .. Len(tasks[w]) : tasks[w][i] = t
        BY <2>2, <3>1, <4>1
      <4>4. \A j \in 1 .. Len(tasks[w]) : tasks[w][j] = t => j = i
        BY <4>3 DEF CustodyInv, Locals, Injective
      <4>5. \A v \in Worker : (\E j \in 1 .. Len(tasks[v]) : tasks[v][j] = t) => v = w
        BY <2>2, <3>2, <4>1
      <4>6. Queued(t) = {<<w, i>>}
        BY <2>4, <4>3, <4>4, <4>5
      <4>7. Cardinality(InHand(t)) = 0 /\ Cardinality(Queued(t)) = 1 /\ Cardinality(Running(t)) = 0
        BY <2>5, <4>2, <4>6, Zenon
      <4> QED
        BY <2>7, <4>7
    <3>5. CASE \E w \in Worker : x = <<"run", w>>
      <4>1. PICK w \in Worker : x = <<"run", w>>
        BY <3>5
      <4>2. InHand(t) = {} /\ \A v \in Worker : t \notin Hold[<<"queue", v>>]
        BY <2>2, <2>3, <3>2, <4>1
      <4>3. Running(t) = {w}
        BY <2>2, <2>3, <3>1, <3>2, <4>1
      <4>4. Queued(t) = {}
        BY <2>2, <2>4, <4>2
      <4>5. Cardinality(InHand(t)) = 0 /\ Cardinality(Queued(t)) = 0 /\ Cardinality(Running(t)) = 1
        BY <2>5, <4>2, <4>3, <4>4, Zenon
      <4> QED
        BY <2>7, <4>5
    <3>6. \/ \E c \in Client : x = <<"hand", c>> \/ x = <<"push", c>>
          \/ \E w \in Worker : x = <<"queue", w>>
          \/ \E w \in Worker : x = <<"run", w>>
      <4>1. x = <<x[1], x[2]>> /\ (\/ x[1] \in {"hand", "push"} /\ x[2] \in Client
                                   \/ x[1] \in {"queue", "run", "dec"} /\ x[2] \in Worker)
        BY SiteIs
      <4> QED
        BY <3>1, <4>1
    <3> QED
      BY <3>3, <3>4, <3>5, <3>6
  <2> QED
    BY <2>6, <2>7
<1> QED
  BY <1>1, CustodyHolds, PTL

(* _curr_task_count is exact at every instant: what push_task has counted    *)
(* in and no worker has counted off, and beside it every task that a ~Worker *)
(* has destroyed, which Clear drops uncounted (thread_pool.h 85, 91, 103).   *)
THEOREM CounterAlwaysExact == Spec => []CounterExact
<1>1. CustodyInv => CounterExact
  <2> SUFFICES ASSUME CustodyInv PROVE CounterExact
    OBVIOUS
  <2>1. ASSUME NEW t \in Task
        PROVE  (\E x \in Site : x[1] # "hand" /\ t \in Hold[x]) <=>
               (CountedIn(t) \/ Queued(t) # {} \/ Running(t) # {} \/ CountPending(t))
    <3>1. /\ \A c \in Client : c \in InHand(t) /\ cpc[c] = "sb_push" <=> t \in Hold[<<"push", c>>]
          /\ \A w \in Worker : (\E i \in 1 .. Len(tasks[w]) : tasks[w][i] = t) <=> t \in Hold[<<"queue", w>>]
          /\ \A w \in Worker : w \in Running(t) <=> t \in Hold[<<"run", w>>]
          /\ \A w \in Worker : task_opt[w] = t /\ wpc[w] = "dec" <=> t \in Hold[<<"dec", w>>]
      BY PlacesAreSites
    <3>2. CountedIn(t) <=> \E c \in Client : t \in Hold[<<"push", c>>]
      BY <3>1 DEF CountedIn, InHand
    <3>3. Queued(t) # {} <=> \E w \in Worker : t \in Hold[<<"queue", w>>]
      <4>1. Queued(t) # {} <=> \E w \in Worker : \E i \in 1 .. Len(tasks[w]) : tasks[w][i] = t
        <5>1. \A p : p \in Queued(t) <=>
                \E w \in Worker : \E i \in 1 .. Len(tasks[w]) : tasks[w][i] = t /\ p = <<w, i>>
          BY QueuedIs
        <5> QED
          BY <5>1, Zenon
      <4> QED
        BY <3>1, <4>1
    <3>4. Running(t) # {} <=> \E w \in Worker : t \in Hold[<<"run", w>>]
      BY <3>1 DEF Running
    <3>5. CountPending(t) <=> \E w \in Worker : t \in Hold[<<"dec", w>>]
      BY <3>1 DEF CountPending
    <3>6. ASSUME NEW x \in Site, x[1] # "hand", t \in Hold[x]
          PROVE  \/ \E c \in Client : t \in Hold[<<"push", c>>]
                 \/ \E w \in Worker : \/ t \in Hold[<<"queue", w>>] \/ t \in Hold[<<"run", w>>]
                                      \/ t \in Hold[<<"dec", w>>]
      <4>1. x = <<x[1], x[2]>> /\ (\/ x[1] \in {"hand", "push"} /\ x[2] \in Client
                                   \/ x[1] \in {"queue", "run", "dec"} /\ x[2] \in Worker)
        BY SiteIs
      <4>2. \/ \E c \in Client : x = <<"push", c>>
            \/ \E w \in Worker : x = <<"queue", w>> \/ x = <<"run", w>> \/ x = <<"dec", w>>
        BY <3>6, <4>1
      <4> QED
        BY <3>6, <4>2
    <3>7. /\ \A c \in Client : t \in Hold[<<"push", c>>] => \E x \in Site : x[1] # "hand" /\ t \in Hold[x]
          /\ \A w \in Worker : \/ t \in Hold[<<"queue", w>>] \/ t \in Hold[<<"run", w>>]
                               \/ t \in Hold[<<"dec", w>>]
                               => \E x \in Site : x[1] # "hand" /\ t \in Hold[x]
      <4>1. /\ \A c \in Client : <<"push", c>> \in Site /\ <<"push", c>>[1] # "hand"
            /\ \A w \in Worker : /\ <<"queue", w>> \in Site /\ <<"queue", w>>[1] # "hand"
                                 /\ <<"run", w>> \in Site /\ <<"run", w>>[1] # "hand"
                                 /\ <<"dec", w>> \in Site /\ <<"dec", w>>[1] # "hand"
        BY SiteIs
      <4> QED
        BY <4>1, Zenon
    <3> QED
      BY <3>2, <3>3, <3>4, <3>5, <3>6, <3>7
  <2>2. Counted(Hold, fate) = {t \in Task : \/ fate[t] = "broken" \/ CountedIn(t) \/ Queued(t) # {}
                                            \/ Running(t) # {} \/ CountPending(t)}
    BY <2>1 DEF Counted
  <2> QED
    BY <2>2 DEF CounterExact, CustodyInv
<1> QED
  BY <1>1, CustodyHolds, PTL

-----------------------------------------------------------------------------
(***************************************************************************)
(* Shutdown and what is left after it.  The vector, the clients' iterators   *)
(* and choices name workers that have been constructed, and only a live      *)
(* worker has tasks queued (Real).  When Startup and Shutdown overlap no     *)
(* other call, every live worker is in the vector, or on its way into it     *)
(* with the Submit that made it; a Shutdown has still to come to each one    *)
(* (Known); and once the stop source is requested and no Shutdown is under   *)
(* way, what is alive is at the loop condition or has ended (Stopped).       *)
(***************************************************************************)
Alive(w) == wpc[w] \notin {"none", "gone"}

Real ==
  /\ start \in BOOLEAN /\ stop_source \in BOOLEAN /\ shutdowns \in Nat
  /\ shutdowns > 0 => stop_source
  /\ \A w \in Elements(workers) : wpc[w] # "none"
  /\ \A c \in Client : /\ \A w \in Elements(cscan[c]) : wpc[w] # "none"
                       /\ \A w \in Worker : cworker[c] = w => wpc[w] # "none"
  /\ \A w \in Worker : tasks[w] # <<>> => Alive(w)

(* Startup and Shutdown run alone; a client submits and shuts down only what *)
(* is started, and only a started pool has workers in its vector.            *)
Solo ==
  /\ \A c \in Client : cpc[c] \in StartupPC \cup ShutdownPC =>
                         \A d \in Client \ {c} : cpc[d] = "idle"
  /\ \A c \in Client : /\ cpc[c] \in SubmitPC \cup ShutdownPC => start
                       /\ cpc[c] \in StartupPC => ~start
                       /\ cpc[c] = "sd_end" => workers = <<>>
  /\ ~start => workers = <<>>

Known ==
  /\ \A w \in Worker : Alive(w) =>
       \/ w \in Elements(workers)
       \/ \E c \in Client : cpc[c] \in {"sb_count", "sb_push"} /\ cworker[c] = w
  /\ \A c \in Client :
       /\ cpc[c] \in DestroyPC => \A w \in Worker : Alive(w) => w \in Elements(cscan[c])
       /\ cpc[c] \in {"sd_empty", "sd_end"} => \A w \in Worker : ~Alive(w)

Stopped ==
  (stop_source /\ \A c \in Client : cpc[c] \notin ShutdownPC) =>
    \A w \in Worker : wpc[w] \in {"none", "loop", "done", "gone"}

LifeInv == Real /\ (~Overlap => Solo /\ Known /\ Stopped)

(* What the steps below need of the types.                                  *)
LEMMA LifeTypes ==
  ASSUME CustodyInv
  PROVE  /\ workers \in Seq(Worker) /\ Elements(workers) \subseteq Worker
         /\ created \in 0 .. MaxWorkers
         /\ wpc \in [Worker -> WPC]
         /\ tasks \in [Worker -> Seq(Task)]
         /\ cpc \in [Client -> CPC]
         /\ cscan \in [Client -> Seq(Worker)]
         /\ \A c \in Client : Elements(cscan[c]) \subseteq Worker
         /\ cworker \in [Client -> Worker \cup {nil}]
         /\ \A c \in Client : cpc[c] \in DestroyPC => cscan[c] # <<>>
         /\ \A c \in Client : cpc[c] \in {"sb_count", "sb_push"} => cworker[c] # nil
         /\ \A w \in Worker : w > created => wpc[w] = "none"
<1>1. \A q \in Seq(Worker) : Elements(q) \subseteq Worker
  BY ElementOfSeq DEF Elements
<1> QED
  BY <1>1 DEF CustodyInv, PoolTypes, Locals

(* What is left of a queue when its first task is popped.                   *)
LEMMA TailElements ==
  ASSUME NEW S, NEW q \in Seq(S), q # <<>>
  PROVE  /\ Head(q) \in Elements(q) /\ Head(q) \in S /\ Tail(q) \in Seq(S)
         /\ Elements(q) = Elements(Tail(q)) \cup {Head(q)}
         /\ Len(q) = 1 => Elements(Tail(q)) = {}
<1>1. /\ Head(q) \in S /\ Tail(q) \in Seq(S) /\ Len(q) \in Nat /\ Len(Tail(q)) = Len(q) - 1
      /\ \A i \in 1 .. Len(Tail(q)) : Tail(q)[i] = q[i + 1]
      /\ Head(q) = q[1] /\ Len(q) # 0
  BY HeadTailProperties, EmptySeq, LenProperties
<1>2. 1 \in 1 .. Len(q)
  BY <1>1
<1>3. \A i \in 1 .. Len(q) : i = 1 \/ \E j \in 1 .. Len(Tail(q)) : Tail(q)[j] = q[i]
  <2> SUFFICES ASSUME NEW i \in 1 .. Len(q), i # 1
               PROVE  \E j \in 1 .. Len(Tail(q)) : Tail(q)[j] = q[i]
    OBVIOUS
  <2>1. i - 1 \in 1 .. Len(Tail(q)) /\ i - 1 + 1 = i
    BY <1>1
  <2> QED
    BY <1>1, <2>1
<1>4. \A j \in 1 .. Len(Tail(q)) : \E i \in 1 .. Len(q) : Tail(q)[j] = q[i]
  <2> SUFFICES ASSUME NEW j \in 1 .. Len(Tail(q)) PROVE \E i \in 1 .. Len(q) : Tail(q)[j] = q[i]
    OBVIOUS
  <2>1. j + 1 \in 1 .. Len(q)
    BY <1>1
  <2> QED
    BY <1>1, <2>1
<1>5. Elements(q) = Elements(Tail(q)) \cup {Head(q)}
  BY <1>1, <1>2, <1>3, <1>4 DEF Elements
<1>6. ASSUME Len(q) = 1 PROVE Elements(Tail(q)) = {}
  <2>1. Len(Tail(q)) = 0
    BY <1>1, <1>6
  <2>2. 1 .. Len(Tail(q)) = {}
    BY <2>1
  <2> QED
    BY <2>2 DEF Elements
<1> QED
  BY <1>1, <1>5, <1>6

(* The elements of two queues put together.                                 *)
LEMMA ConcatElements ==
  ASSUME NEW S, NEW p \in Seq(S), NEW q \in Seq(S)
  PROVE  Elements(p \o q) = Elements(p) \cup Elements(q)
<1>1. PICK m \in Nat, n \in Nat : m = Len(p) /\ n = Len(q)
  BY LenProperties
<1>2. /\ Len(p \o q) = m + n
      /\ \A i \in 1 .. m : (p \o q)[i] = p[i]
      /\ \A i \in m + 1 .. m + n : (p \o q)[i] = q[i - m]
  BY <1>1, ConcatProperties
<1>3. \A i \in 1 .. m + n : i \in 1 .. m \/ (i \in m + 1 .. m + n /\ i - m \in 1 .. n)
  BY <1>1
<1>4. /\ \A i \in 1 .. m : i \in 1 .. m + n
      /\ \A i \in 1 .. n : i + m \in 1 .. m + n /\ i + m \in m + 1 .. m + n /\ i + m - m = i
  BY <1>1
<1>5. Elements(p \o q) \subseteq Elements(p) \cup Elements(q)
  BY <1>1, <1>2, <1>3 DEF Elements
<1>6. Elements(p) \subseteq Elements(p \o q)
  BY <1>1, <1>2, <1>4 DEF Elements
<1>7. Elements(q) \subseteq Elements(p \o q)
  BY <1>1, <1>2, <1>4 DEF Elements
<1> QED
  BY <1>5, <1>6, <1>7

(* No worker thread brings itself to life or leaves the living, and the      *)
(* stop source keeps what it finds at the loop condition from going on.      *)
LEMMA WorkerKeepsLife ==
  ASSUME CustodyInv, LifeInv, NEW w \in Worker, SpuriousWake(w) \/ WorkerStep(w)
  PROVE  LifeInv'
<1>1. /\ wpc \in [Worker -> WPC] /\ tasks \in [Worker -> Seq(Task)]
      /\ Elements(workers) \subseteq Worker /\ \A c \in Client : Elements(cscan[c]) \subseteq Worker
  BY LifeTypes
<1>2. /\ UNCHANGED <<start, stop_source, workers, cpc, cscan, cworker, shutdowns>>
      /\ \A v \in Worker \ {w} : wpc'[v] = wpc[v] /\ tasks'[v] = tasks[v]
      /\ wpc[w] \notin {"none", "gone"} /\ wpc'[w] \notin {"none", "gone"}
      /\ stop_source /\ wpc[w] \in {"loop", "done"} => wpc'[w] \in {"loop", "done"}
  <2> USE DEF pool, client
  <2>1. CASE WorkerLoop(w) \/ WorkerIdle(w) \/ PopTest(w) \/ PopSleep(w) \/ SpuriousWake(w) \/ WorkerBusy(w)
    BY <1>1, <2>1 DEF WorkerLoop, WorkerIdle, PopTest, PopSleep, SpuriousWake, WorkerBusy
  <2>2. CASE PopTake(w)
    BY <1>1, <2>2 DEF PopTake
  <2>3. CASE WorkerRun(w) \/ WorkerCountOff(w)
    BY <1>1, <2>3 DEF WorkerRun, WorkerCountOff
  <2> QED
    BY <2>1, <2>2, <2>3 DEF WorkerStep
<1>3. \A v \in Worker : /\ (wpc'[v] = "none") <=> (wpc[v] = "none")
                        /\ (Alive(v))' <=> Alive(v)
  BY <1>2 DEF Alive
<1>4. Real'
  <2>1. \A v \in Worker : tasks'[v] # <<>> => (Alive(v))'
    BY <1>2, <1>3 DEF LifeInv, Real, Alive
  <2> QED
    BY <1>1, <1>2, <1>3, <2>1 DEF LifeInv, Real
<1>5. ASSUME ~Overlap PROVE Solo'
  BY <1>2, <1>5 DEF LifeInv, Solo
<1>6. ASSUME ~Overlap PROVE Known'
  BY <1>2, <1>3, <1>6 DEF LifeInv, Known
<1>7. ASSUME ~Overlap PROVE Stopped'
  BY <1>1, <1>2, <1>7 DEF LifeInv, Stopped
<1> QED
  BY <1>4, <1>5, <1>6, <1>7 DEF LifeInv

(* New workers are at the loop condition.                                   *)
LEMMA SpawnIs ==
  ASSUME CustodyInv, NEW n \in Nat, Spawn(n)
  PROVE  /\ created' = created + n /\ created + n <= MaxWorkers
         /\ created + 1 .. created + n \subseteq Worker
         /\ \A w \in Worker : wpc'[w] = IF w \in created + 1 .. created + n THEN "loop" ELSE wpc[w]
         /\ \A w \in created + 1 .. created + n : wpc[w] = "none"
<1>1. created \in 0 .. MaxWorkers /\ \A w \in Worker : w > created => wpc[w] = "none"
  BY LifeTypes
<1> QED
  BY <1>1 DEF Spawn, Worker

(* Startup fills the empty vector.                                          *)
LEMMA StartupKeepsLife ==
  ASSUME CustodyInv, LifeInv, NEW c \in Client, StartupBegin(c) \/ StartupCreate(c)
  PROVE  LifeInv'
<1> USE DEF CPC, StartupPC, SubmitPC, ShutdownPC, DestroyPC
<1>1. CASE StartupBegin(c)
  <2>1. /\ cpc[c] = "idle" /\ Alone(c) /\ ~start /\ cpc' = [cpc EXCEPT ![c] = "su_create"]
        /\ UNCHANGED <<start, stop_source, workers, wpc, tasks, cscan, cworker, shutdowns>>
    BY <1>1 DEF StartupBegin, worker
  <2>2. cpc'[c] = "su_create" /\ \A d \in Client \ {c} : cpc'[d] = cpc[d]
    BY <2>1, LifeTypes
  <2>3. Real'
    BY <2>1 DEF LifeInv, Real, Alive
  <2>4. ASSUME ~Overlap PROVE Solo' /\ Known' /\ Stopped'
    <3>1. Solo /\ Known /\ Stopped /\ \A d \in Client \ {c} : cpc[d] = "idle"
      BY <2>1, <2>4 DEF LifeInv, Alone
    <3>2. Solo'
      BY <2>1, <2>2, <3>1 DEF Solo
    <3>3. Known'
      BY <2>1, <2>2, <3>1 DEF Known, Alive
    <3>4. Stopped'
      BY <2>1, <2>2, <3>1 DEF Stopped
    <3> QED
      BY <3>2, <3>3, <3>4
  <2> QED
    BY <2>3, <2>4 DEF LifeInv
<1>2. CASE StartupCreate(c)
  <2>1. /\ cpc[c] = "su_create" /\ cpc' = [cpc EXCEPT ![c] = "idle"] /\ start' = TRUE
        /\ Spawn(create_count)
        /\ workers' = workers \o [i \in 1 .. create_count |-> created + i]
        /\ UNCHANGED <<stop_source, tasks, cscan, cworker, shutdowns>>
    BY <1>2 DEF StartupCreate
  <2>2. cpc'[c] = "idle" /\ \A d \in Client \ {c} : cpc'[d] = cpc[d]
    BY <2>1, LifeTypes
  <2>3. create_count \in Nat /\ created \in Nat
    BY LifeTypes DEF create_count
  <2>4. PICK N : N = created + 1 .. created + create_count
    OBVIOUS
  <2>5. /\ N \subseteq Worker
        /\ \A w \in Worker : wpc'[w] = IF w \in N THEN "loop" ELSE wpc[w]
        /\ \A w \in N : wpc[w] = "none"
    BY <2>1, <2>3, <2>4, SpawnIs
  <2>6. Elements(workers') = Elements(workers) \cup N
    <3>1. PICK q \in Seq(Worker) : q = [i \in 1 .. create_count |-> created + i]
      <4>1. [i \in 1 .. create_count |-> created + i] \in [1 .. create_count -> Worker]
        BY <2>3, <2>4, <2>5
      <4>2. [i \in 1 .. create_count |-> created + i] \in Seq(Worker)
        BY <2>3, <4>1, SeqDef
      <4> QED
        BY <4>2
    <3>2. Len(q) = create_count /\ \A i \in 1 .. create_count : q[i] = created + i
      BY <2>3, <3>1
    <3>3. Elements(q) = N
      <4>1. \A i \in 1 .. create_count : created + i \in N
        BY <2>3, <2>4
      <4>2. \A w \in N : w - created \in 1 .. create_count /\ created + (w - created) = w
        BY <2>3, <2>4
      <4> QED
        BY <3>2, <4>1, <4>2 DEF Elements
    <3>4. workers \in Seq(Worker)
      BY LifeTypes
    <3>5. workers' = workers \o q
      BY <2>1, <3>1
    <3>6. Elements(workers \o q) = Elements(workers) \cup Elements(q)
      BY ONLY <3>4, ConcatElements, q \in Seq(Worker)
    <3> QED
      BY <3>3, <3>5, <3>6, Zenon
  <2>7. /\ Elements(workers) \subseteq Worker /\ \A d \in Client : Elements(cscan[d]) \subseteq Worker
    BY LifeTypes
  <2>8. Real'
    <3>1. \A w \in Worker : wpc[w] # "none" => wpc'[w] # "none"
      BY <2>5
    <3>2. \A w \in Elements(workers') : wpc'[w] # "none"
      BY <2>5, <2>6, <2>7 DEF LifeInv, Real
    <3>3. \A w \in Worker : Alive(w) => (Alive(w))'
      BY <2>5 DEF Alive
    <3> QED
      BY <2>1, <2>7, <3>1, <3>2, <3>3 DEF LifeInv, Real
  <2>9. ASSUME ~Overlap PROVE Solo' /\ Known' /\ Stopped'
    <3>1. /\ Solo /\ Known /\ Stopped /\ \A d \in Client \ {c} : cpc[d] = "idle"
      BY <2>1, <2>9 DEF LifeInv, Solo
    <3>2. \A d \in Client : cpc'[d] = "idle"
      BY <2>2, <3>1
    <3>3. Solo'
      BY <2>1, <3>2 DEF Solo
    <3>4. Known'
      <4>1. \A w \in Worker : (Alive(w))' => w \in Elements(workers')
        BY <2>1, <2>5, <2>6, <3>1 DEF Known, Alive
      <4> QED
        BY <3>2, <4>1 DEF Known
    <3>5. Stopped'
      BY <2>1, <2>5, <3>1 DEF Stopped
    <3> QED
      BY <3>3, <3>4, <3>5
  <2> QED
    BY <2>8, <2>9 DEF LifeInv
<1> QED
  BY <1>1, <1>2

(* Submit looks at, chooses and makes live workers only.                     *)
LEMMA SubmitKeepsLife ==
  ASSUME CustodyInv, LifeInv, NEW c \in Client,
         \/ \E t \in Task : SubmitBegin(c, t)
         \/ SubmitLock(c) \/ SubmitScan(c) \/ SubmitRandom(c) \/ SubmitThrow(c)
         \/ SubmitExpand(c) \/ SubmitCount(c) \/ SubmitPush(c) \/ SubmitDangling(c)
  PROVE  LifeInv'
<1> USE DEF CPC, StartupPC, SubmitPC, ShutdownPC, DestroyPC
<1>1. /\ workers \in Seq(Worker) /\ Elements(workers) \subseteq Worker
      /\ wpc \in [Worker -> WPC] /\ tasks \in [Worker -> Seq(Task)]
      /\ cpc \in [Client -> CPC] /\ cscan \in [Client -> Seq(Worker)]
      /\ \A d \in Client : Elements(cscan[d]) \subseteq Worker
      /\ cworker \in [Client -> Worker \cup {nil}]
  BY LifeTypes
(* A step inside Submit that neither makes a worker nor ends the call of one *)
(* that has chosen.                                                         *)
<1>2. ASSUME UNCHANGED <<start, stop_source, workers, wpc, tasks, shutdowns>>,
             \A d \in Client \ {c} : cpc'[d] = cpc[d] /\ cscan'[d] = cscan[d] /\ cworker'[d] = cworker[d],
             \/ cpc'[c] = cpc[c]
             \/ cpc[c] \in {"sb_lock", "sb_scan"} /\ cpc'[c] \in {"idle", "sb_scan", "sb_count"}
             \/ cpc[c] = "sb_count" /\ cpc'[c] = "sb_push" /\ cworker'[c] = cworker[c]
             \/ cpc[c] = "idle" /\ cpc'[c] = "sb_lock" /\ start /\ NoLifecycle,
             cpc[c] = cpc'[c] /\ cpc[c] \notin {"sb_scan"} => cworker'[c] = cworker[c] /\ cscan'[c] = cscan[c],
             \A w \in Elements(cscan'[c]) : w \in Worker /\ wpc[w] # "none",
             \A w \in Worker : cworker'[c] = w => wpc[w] # "none"
      PROVE  LifeInv'
  <2>1. Real'
    BY <1>2 DEF LifeInv, Real, Alive
  <2>2. ASSUME ~Overlap PROVE Solo' /\ Known' /\ Stopped'
    <3>1. Solo /\ Known /\ Stopped
      BY <2>2 DEF LifeInv
    <3>2. Solo'
      BY <1>1, <1>2, <2>2, <3>1 DEF Solo, NoLifecycle
    <3>3. \A w \in Worker : (Alive(w))' <=> Alive(w)
      BY <1>2 DEF Alive
    <3>4. \A w \in Worker : Alive(w) =>
            \/ w \in Elements(workers')
            \/ \E d \in Client : cpc'[d] \in {"sb_count", "sb_push"} /\ cworker'[d] = w
      BY <1>2, <3>1 DEF Known
    <3>5. \A d \in Client :
            /\ cpc'[d] \in DestroyPC => \A w \in Worker : Alive(w) => w \in Elements(cscan'[d])
            /\ cpc'[d] \in {"sd_empty", "sd_end"} => \A w \in Worker : ~Alive(w)
      BY <1>2, <3>1 DEF Known
    <3>6. Known'
      BY <3>3, <3>4, <3>5 DEF Known
    <3>7. Stopped'
      BY <1>2, <3>1 DEF Stopped
    <3> QED
      BY <3>2, <3>6, <3>7
  <2> QED
    BY <2>1, <2>2 DEF LifeInv
<1>3. /\ \A w \in Elements(workers) : w \in Worker /\ wpc[w] # "none"
      /\ \A d \in Client : \A w \in Elements(cscan[d]) : w \in Worker /\ wpc[w] # "none"
      /\ \A d \in Client : \A w \in Worker : cworker[d] = w => wpc[w] # "none"
      /\ \A w \in Elements(<<>>) : w \in Worker /\ wpc[w] # "none"
      /\ \A w \in Worker : nil # w
  <2>1. \A w \in Elements(<<>>) : w \in Worker /\ wpc[w] # "none"
    BY DEF Elements
  <2> QED
    BY <1>1, <2>1 DEF LifeInv, Real
<1>4. ASSUME NEW t \in Task, SubmitBegin(c, t) PROVE LifeInv'
  <2>1. /\ cpc[c] = "idle" /\ NoLifecycle
        /\ (start /\ cpc' = [cpc EXCEPT ![c] = "sb_lock"]) \/ UNCHANGED cpc
        /\ UNCHANGED <<start, stop_source, workers, wpc, tasks, cscan, cworker, shutdowns>>
    BY <1>4 DEF SubmitBegin, pool, worker
  <2> QED
    BY <1>1, <1>2, <1>3, <2>1
<1>5. CASE SubmitLock(c) \/ SubmitThrow(c)
  <2>1. /\ cpc[c] \in {"sb_lock", "sb_scan"}
        /\ \/ Leave(c)
           \/ /\ cpc' = [cpc EXCEPT ![c] = "sb_scan"] /\ cscan' = [cscan EXCEPT ![c] = workers]
              /\ cpc[c] = "sb_lock" /\ UNCHANGED cworker
        /\ UNCHANGED <<start, stop_source, workers, wpc, tasks, shutdowns>>
    BY <1>5 DEF SubmitLock, SubmitThrow, worker
  <2>2. CASE Leave(c)
    BY <1>1, <1>2, <1>3, <2>1, <2>2 DEF Leave
  <2>3. CASE /\ cpc' = [cpc EXCEPT ![c] = "sb_scan"] /\ cscan' = [cscan EXCEPT ![c] = workers]
             /\ cpc[c] = "sb_lock" /\ UNCHANGED cworker
    BY <1>1, <1>2, <1>3, <2>1, <2>3
  <2> QED
    BY <2>1, <2>2, <2>3
<1>6. CASE SubmitScan(c)
  <2>1. /\ cpc[c] = "sb_scan" /\ cscan[c] # <<>>
        /\ \/ cscan' = [cscan EXCEPT ![c] = Tail(cscan[c])] /\ UNCHANGED <<cpc, cworker>>
           \/ /\ cworker' = [cworker EXCEPT ![c] = Head(cscan[c])]
              /\ cpc' = [cpc EXCEPT ![c] = "sb_count"] /\ UNCHANGED cscan
        /\ UNCHANGED <<start, stop_source, workers, wpc, tasks, shutdowns>>
    BY <1>6 DEF SubmitScan, pool, worker
  <2>2. /\ Head(cscan[c]) \in Elements(cscan[c])
        /\ Elements(Tail(cscan[c])) \subseteq Elements(cscan[c])
    BY <1>1, <2>1, TailElements
  <2>3. CASE cscan' = [cscan EXCEPT ![c] = Tail(cscan[c])] /\ UNCHANGED <<cpc, cworker>>
    <3>1. cscan'[c] = Tail(cscan[c]) /\ \A d \in Client \ {c} : cscan'[d] = cscan[d]
      BY <1>1, <2>3
    <3> QED
      BY <1>2, <1>3, <2>1, <2>2, <2>3, <3>1
  <2>4. CASE /\ cworker' = [cworker EXCEPT ![c] = Head(cscan[c])]
             /\ cpc' = [cpc EXCEPT ![c] = "sb_count"] /\ UNCHANGED cscan
    BY <1>1, <1>2, <1>3, <2>1, <2>2, <2>4
  <2> QED
    BY <2>1, <2>3, <2>4
<1>7. CASE SubmitRandom(c)
  <2>1. PICK w \in Elements(workers) : cworker' = [cworker EXCEPT ![c] = w]
    BY <1>7 DEF SubmitRandom
  <2>2. /\ cpc[c] = "sb_scan" /\ cpc' = [cpc EXCEPT ![c] = "sb_count"]
        /\ UNCHANGED <<start, stop_source, workers, wpc, tasks, cscan, shutdowns>>
    BY <1>7 DEF SubmitRandom, pool, worker
  <2> QED
    BY <1>1, <1>2, <1>3, <2>1, <2>2
<1>8. CASE SubmitCount(c)
  <2>1. /\ cpc[c] = "sb_count" /\ cpc' = [cpc EXCEPT ![c] = "sb_push"]
        /\ UNCHANGED <<start, stop_source, workers, wpc, tasks, cscan, cworker, shutdowns>>
    BY <1>8 DEF SubmitCount, pool, worker
  <2> QED
    BY <1>1, <1>2, <1>3, <2>1
<1>9. CASE SubmitDangling(c)
  <2>1. UNCHANGED <<start, stop_source, workers, wpc, tasks, cpc, cscan, cworker, shutdowns>>
    BY <1>9 DEF SubmitDangling, Dangling, pool, worker, client
  <2> QED
    BY <1>2, <1>3, <2>1
<1>10. CASE SubmitExpand(c)
  <2>1. /\ cpc[c] = "sb_scan" /\ Spawn(1)
        /\ cworker' = [cworker EXCEPT ![c] = created + 1] /\ cpc' = [cpc EXCEPT ![c] = "sb_count"]
        /\ UNCHANGED <<start, stop_source, workers, tasks, cscan, shutdowns>>
    BY <1>10 DEF SubmitExpand
  <2>2. PICK n \in Worker : /\ n = created + 1 /\ wpc[n] = "none"
                            /\ \A w \in Worker : wpc'[w] = IF w = n THEN "loop" ELSE wpc[w]
    <3>1. created \in Nat
      BY LifeTypes
    <3>2. created + 1 .. created + 1 = {created + 1}
      BY <3>1
    <3> QED
      BY <2>1, <3>1, <3>2, SpawnIs
  <2>3. /\ cworker'[c] = n /\ cpc'[c] = "sb_count"
        /\ \A d \in Client \ {c} : cworker'[d] = cworker[d] /\ cpc'[d] = cpc[d]
    BY <1>1, <2>1, <2>2
  <2>4. Real'
    <3>1. \A w \in Worker : wpc[w] # "none" => wpc'[w] # "none"
      BY <2>2
    <3>2. \A w \in Worker : Alive(w) => (Alive(w))'
      BY <2>2 DEF Alive
    <3>3. wpc'[n] # "none"
      BY <2>2
    <3> QED
      BY <1>3, <2>1, <2>3, <3>1, <3>2, <3>3 DEF LifeInv, Real
  <2>5. ASSUME ~Overlap PROVE Solo' /\ Known' /\ Stopped'
    <3>1. Solo /\ Known /\ Stopped
      BY <2>5 DEF LifeInv
    <3>2. Solo'
      BY <2>1, <2>3, <3>1 DEF Solo
    <3>3. \A w \in Worker : (Alive(w))' => Alive(w) \/ w = n
      BY <2>2 DEF Alive
    <3>4. \A d \in Client : cpc[d] \notin StartupPC \cup ShutdownPC /\ cpc'[d] \notin ShutdownPC
      BY <2>1, <2>3, <3>1 DEF Solo
    <3>5. \A w \in Worker : (Alive(w))' =>
            \/ w \in Elements(workers')
            \/ \E d \in Client : cpc'[d] \in {"sb_count", "sb_push"} /\ cworker'[d] = w
      BY <2>1, <2>3, <3>1, <3>3 DEF Known
    <3>6. Known'
      BY <3>4, <3>5 DEF Known
    <3>7. Stopped'
      BY <2>1, <2>2, <3>1, <3>4 DEF Stopped
    <3> QED
      BY <3>2, <3>6, <3>7
  <2> QED
    BY <2>4, <2>5 DEF LifeInv
<1>11. CASE SubmitPush(c)
  <2>1. cpc[c] = "sb_push" /\ cworker[c] # nil
    BY <1>11, LifeTypes DEF SubmitPush
  <2>2. PICK n \in Worker : n = cworker[c]
    BY <1>1, <2>1
  <2>3. /\ wpc[n] # "gone" /\ Leave(c)
        /\ tasks' = [tasks EXCEPT ![n] = Append(tasks[n], ctask[c])]
        /\ wpc' = [wpc EXCEPT ![n] = IF wpc[n] = "wait" THEN "pred" ELSE wpc[n]]
        /\ workers' = IF n \in Elements(workers) THEN workers ELSE Append(workers, n)
        /\ UNCHANGED <<start, stop_source, shutdowns>>
    BY <1>11, <2>2 DEF SubmitPush, Notify
  <2>4. Elements(workers') = Elements(workers) \cup {n}
    <3>1. CASE n \in Elements(workers)
      BY <2>3, <3>1
    <3>2. CASE n \notin Elements(workers)
      BY <1>1, <2>3, <3>2, AppendIs
    <3> QED
      BY <3>1, <3>2
  <2>5. /\ \A w \in Worker : wpc'[w] = wpc[w] \/ (wpc[w] = "wait" /\ wpc'[w] = "pred")
        /\ \A w \in Worker \ {n} : tasks'[w] = tasks[w]
    BY <1>1, <2>3
  <2>6. /\ cpc'[c] = "idle" /\ cscan'[c] = <<>> /\ cworker'[c] = nil
        /\ \A d \in Client \ {c} : cpc'[d] = cpc[d] /\ cscan'[d] = cscan[d] /\ cworker'[d] = cworker[d]
    BY <1>1, <2>3 DEF Leave
  <2>7. /\ \A w \in Worker : (Alive(w))' <=> Alive(w)
        /\ \A w \in Worker : wpc'[w] = "none" <=> wpc[w] = "none"
        /\ Alive(n)
    BY <1>3, <2>2, <2>3, <2>5 DEF Alive
  <2>8. Real'
    <3>1. \A w \in Elements(workers') : wpc'[w] # "none"
      BY <1>3, <2>4, <2>7 DEF Alive
    <3>2. \A d \in Client : /\ \A w \in Elements(cscan'[d]) : wpc'[w] # "none"
                            /\ \A w \in Worker : cworker'[d] = w => wpc'[w] # "none"
      BY <1>3, <2>6, <2>7
    <3>3. \A w \in Worker : tasks'[w] # <<>> => (Alive(w))'
      BY <2>5, <2>7 DEF LifeInv, Real
    <3> QED
      BY <2>3, <3>1, <3>2, <3>3 DEF LifeInv, Real
  <2>9. ASSUME ~Overlap PROVE Solo' /\ Known' /\ Stopped'
    <3>1. Solo /\ Known /\ Stopped
      BY <2>9 DEF LifeInv
    <3>2. \A d \in Client : cpc[d] \notin StartupPC \cup ShutdownPC
      BY <2>1, <3>1 DEF Solo
    <3>3. Solo'
      <4>1. start
        BY <2>1, <3>1 DEF Solo
      <4> QED
        BY <2>3, <2>6, <3>1, <3>2, <4>1 DEF Solo
    <3>4. \A w \in Worker : Alive(w) =>
            \/ w \in Elements(workers')
            \/ \E d \in Client : cpc'[d] \in {"sb_count", "sb_push"} /\ cworker'[d] = w
      BY <2>2, <2>4, <2>6, <3>1 DEF Known
    <3>5. Known'
      BY <2>6, <2>7, <3>2, <3>4 DEF Known
    <3>6. Stopped'
      BY <2>3, <2>5, <3>1, <3>2 DEF Stopped
    <3> QED
      BY <3>3, <3>5, <3>6
  <2> QED
    BY <2>8, <2>9 DEF LifeInv
<1> QED
  BY <1>4, <1>5, <1>6, <1>7, <1>8, <1>9, <1>10, <1>11

(* Shutdown comes to every live worker, and leaves none alive.               *)
LEMMA ShutdownKeepsLife ==
  ASSUME CustodyInv, LifeInv, NEW c \in Client,
         \/ ShutdownBegin(c) \/ WorkerClear(c) \/ WorkerStop(c) \/ WorkerNotify(c) \/ WorkerJoin(c)
         \/ ShutdownDangling(c) \/ ShutdownEmpty(c) \/ ShutdownEnd(c)
  PROVE  LifeInv'
<1> USE DEF CPC, StartupPC, SubmitPC, ShutdownPC, DestroyPC
<1>1. /\ workers \in Seq(Worker) /\ Elements(workers) \subseteq Worker
      /\ wpc \in [Worker -> WPC] /\ tasks \in [Worker -> Seq(Task)]
      /\ cpc \in [Client -> CPC] /\ cscan \in [Client -> Seq(Worker)]
      /\ \A d \in Client : Elements(cscan[d]) \subseteq Worker
      /\ cworker \in [Client -> Worker \cup {nil}]
  BY LifeTypes
<1>2. Elements(<<>>) = {}
  BY DEF Elements
<1>3. CASE ShutdownBegin(c)
  <2>1. /\ cpc[c] = "idle" /\ Alone(c) /\ start /\ shutdowns' = shutdowns + 1 /\ stop_source' = TRUE
        /\ cscan' = [cscan EXCEPT ![c] = workers]
        /\ cpc' = [cpc EXCEPT ![c] = IF workers = <<>> THEN "sd_empty" ELSE "sd_clear"]
        /\ UNCHANGED <<start, workers, wpc, tasks, cworker>>
    BY <1>3 DEF ShutdownBegin, worker
  <2>2. /\ cscan'[c] = workers /\ cpc'[c] = IF workers = <<>> THEN "sd_empty" ELSE "sd_clear"
        /\ \A d \in Client \ {c} : cscan'[d] = cscan[d] /\ cpc'[d] = cpc[d]
    BY <1>1, <2>1
  <2>3. Real'
    BY <2>1, <2>2 DEF LifeInv, Real, Alive
  <2>4. ASSUME ~Overlap PROVE Solo' /\ Known' /\ Stopped'
    <3>1. Solo /\ Known /\ \A d \in Client \ {c} : cpc[d] = "idle"
      BY <2>1, <2>4 DEF LifeInv, Alone
    <3>2. Solo'
      BY <2>1, <2>2, <3>1 DEF Solo
    <3>3. \A w \in Worker : Alive(w) => w \in Elements(workers)
      BY <2>1, <3>1 DEF Known
    <3>4. \A w \in Worker : (Alive(w))' <=> Alive(w)
      BY <2>1 DEF Alive
    <3>5. Known'
      <4>1. CASE workers = <<>>
        BY <1>2, <2>1, <2>2, <3>1, <3>3, <3>4, <4>1 DEF Known
      <4>2. CASE workers # <<>>
        BY <2>1, <2>2, <3>1, <3>3, <3>4, <4>2 DEF Known
      <4> QED
        BY <4>1, <4>2
    <3>6. Stopped'
      BY <2>2 DEF Stopped
    <3> QED
      BY <3>2, <3>5, <3>6
  <2> QED
    BY <2>3, <2>4 DEF LifeInv
<1>4. CASE ShutdownDangling(c)
  <2>1. UNCHANGED <<start, stop_source, workers, wpc, tasks, cpc, cscan, cworker, shutdowns>>
    BY <1>4 DEF ShutdownDangling, Dangling, pool, worker, client
  <2> QED
    BY <2>1 DEF LifeInv, Real, Solo, Known, Stopped, Alive
<1>5. CASE WorkerClear(c) \/ WorkerStop(c) \/ WorkerNotify(c) \/ WorkerJoin(c)
  <2>1. /\ cpc[c] \in DestroyPC /\ cscan[c] # <<>>
        /\ UNCHANGED <<start, stop_source, workers, cworker, shutdowns>>
    BY <1>5, LifeTypes DEF WorkerClear, WorkerStop, WorkerNotify, WorkerJoin, pool
  <2>2. /\ Head(cscan[c]) \in Worker /\ Tail(cscan[c]) \in Seq(Worker)
        /\ Elements(cscan[c]) = Elements(Tail(cscan[c])) \cup {Head(cscan[c])}
        /\ Len(cscan[c]) = 1 => Elements(Tail(cscan[c])) = {}
    BY <1>1, <2>1, TailElements
  <2>3. PICK n \in Worker : n = Head(cscan[c])
    BY <2>2
  <2>4. /\ \A d \in Client \ {c} : cpc'[d] = cpc[d] /\ cscan'[d] = cscan[d]
        /\ \A w \in Worker \ {n} : wpc'[w] = wpc[w] /\ tasks'[w] = tasks[w]
        /\ tasks'[n] = tasks[n] \/ tasks'[n] = <<>>
        /\ \/ /\ cpc'[c] \in DestroyPC /\ cscan'[c] = cscan[c]
              /\ wpc'[n] = wpc[n] \/ (wpc[n] = "wait" /\ wpc'[n] = "pred")
           \/ /\ cpc'[c] = (IF Len(cscan[c]) = 1 THEN "sd_empty" ELSE "sd_clear")
              /\ cscan'[c] = Tail(cscan[c])
              /\ wpc[n] = "done" /\ wpc'[n] = "gone" /\ tasks'[n] = <<>>
    <3>1. CASE WorkerClear(c)
      BY <1>1, <2>3, <3>1 DEF WorkerClear
    <3>2. CASE WorkerStop(c)
      BY <1>1, <2>3, <3>2 DEF WorkerStop
    <3>3. CASE WorkerNotify(c)
      BY <1>1, <2>3, <3>3 DEF WorkerNotify, Notify
    <3>4. CASE WorkerJoin(c)
      BY <1>1, <2>3, <3>4 DEF WorkerJoin
    <3> QED
      BY <1>5, <3>1, <3>2, <3>3, <3>4
  <2>5. /\ \A w \in Worker : wpc[w] # "none" => wpc'[w] # "none"
        /\ \A w \in Worker \ {n} : (Alive(w))' <=> Alive(w)
        /\ (Alive(n))' => Alive(n)
        /\ Elements(cscan'[c]) \subseteq Elements(cscan[c])
    BY <2>2, <2>4 DEF Alive
  <2>6. Real'
    <3>1. \A w \in Worker : tasks'[w] # <<>> => (Alive(w))'
      BY <2>4, <2>5 DEF LifeInv, Real, Alive
    <3>2. \A d \in Client : /\ \A w \in Elements(cscan'[d]) : wpc'[w] # "none"
                            /\ \A w \in Worker : cworker'[d] = w => wpc'[w] # "none"
      <4>1. \A d \in Client : Elements(cscan'[d]) \subseteq Elements(cscan[d])
        BY <2>4, <2>5
      <4> QED
        BY <1>1, <2>1, <2>5, <4>1 DEF LifeInv, Real
    <3> QED
      BY <1>1, <2>1, <2>5, <3>1, <3>2 DEF LifeInv, Real
  <2>7. ASSUME ~Overlap PROVE Solo' /\ Known' /\ Stopped'
    <3>1. Solo /\ Known /\ \A d \in Client \ {c} : cpc[d] = "idle"
      BY <2>1, <2>7 DEF LifeInv, Solo
    <3>2. cpc'[c] \in DestroyPC \cup {"sd_empty"}
      BY <2>4
    <3>3. Solo'
      BY <2>1, <2>4, <3>1, <3>2 DEF Solo
    <3>4. \A w \in Worker : (Alive(w))' => w \in Elements(workers)
      BY <2>1, <2>5, <3>1 DEF Known
    <3>5. \A w \in Worker : Alive(w) => w \in Elements(cscan[c])
      BY <2>1, <3>1 DEF Known
    <3>6. \A w \in Worker : (Alive(w))' => w \in Elements(cscan'[c])
      <4>1. CASE cscan'[c] = cscan[c]
        BY <2>5, <3>5, <4>1
      <4>2. CASE cscan'[c] = Tail(cscan[c]) /\ wpc'[n] = "gone"
        <5>1. ~(Alive(n))'
          BY <4>2 DEF Alive
        <5> QED
          BY <2>2, <2>3, <2>5, <3>5, <4>2, <5>1
      <4> QED
        BY <2>4, <4>1, <4>2
    <3>7. cpc'[c] = "sd_empty" => Elements(cscan'[c]) = {}
      BY <2>2, <2>4
    <3>8. Known'
      BY <2>1, <2>4, <3>1, <3>2, <3>4, <3>6, <3>7 DEF Known
    <3>9. Stopped'
      BY <3>2 DEF Stopped
    <3> QED
      BY <3>3, <3>8, <3>9
  <2> QED
    BY <2>6, <2>7 DEF LifeInv
<1>6. CASE ShutdownEmpty(c)
  <2>1. /\ cpc[c] = "sd_empty" /\ cpc' = [cpc EXCEPT ![c] = "sd_end"] /\ workers' = <<>>
        /\ UNCHANGED <<start, stop_source, wpc, tasks, cscan, cworker, shutdowns>>
    BY <1>6 DEF ShutdownEmpty, worker
  <2>2. cpc'[c] = "sd_end" /\ \A d \in Client \ {c} : cpc'[d] = cpc[d]
    BY <1>1, <2>1
  <2>3. Real'
    BY <1>2, <2>1 DEF LifeInv, Real, Alive
  <2>4. ASSUME ~Overlap PROVE Solo' /\ Known' /\ Stopped'
    <3>1. /\ Solo /\ Known /\ \A d \in Client \ {c} : cpc[d] = "idle"
          /\ \A w \in Worker : ~Alive(w) /\ ~(Alive(w))'
      BY <2>1, <2>4 DEF LifeInv, Solo, Known, Alive
    <3>2. Solo'
      BY <2>1, <2>2, <3>1 DEF Solo
    <3>3. Known'
      BY <2>2, <3>1 DEF Known
    <3>4. Stopped'
      BY <2>2 DEF Stopped
    <3> QED
      BY <3>2, <3>3, <3>4
  <2> QED
    BY <2>3, <2>4 DEF LifeInv
<1>7. CASE ShutdownEnd(c)
  <2>1. /\ cpc[c] = "sd_end" /\ cpc' = [cpc EXCEPT ![c] = "idle"] /\ start' = FALSE
        /\ UNCHANGED <<stop_source, workers, wpc, tasks, cscan, cworker, shutdowns>>
    BY <1>7 DEF ShutdownEnd, worker
  <2>2. cpc'[c] = "idle" /\ \A d \in Client \ {c} : cpc'[d] = cpc[d]
    BY <1>1, <2>1
  <2>3. Real'
    BY <2>1 DEF LifeInv, Real, Alive
  <2>4. ASSUME ~Overlap PROVE Solo' /\ Known' /\ Stopped'
    <3>1. /\ Solo /\ Known /\ \A d \in Client \ {c} : cpc[d] = "idle"
          /\ \A w \in Worker : ~Alive(w) /\ ~(Alive(w))'
      BY <2>1, <2>4 DEF LifeInv, Solo, Known, Alive
    <3>2. \A d \in Client : cpc'[d] = "idle"
      BY <2>2, <3>1
    <3>3. Solo'
      <4>1. workers = <<>>
        BY <2>1, <3>1 DEF Solo
      <4> QED
        BY <2>1, <3>2, <4>1 DEF Solo
    <3>4. Known'
      BY <3>1, <3>2 DEF Known
    <3>5. Stopped'
      BY <2>1, <3>1 DEF Stopped, Alive
    <3> QED
      BY <3>3, <3>4, <3>5
  <2> QED
    BY <2>3, <2>4 DEF LifeInv
<1> QED
  BY <1>3, <1>4, <1>5, <1>6, <1>7

(* LifeInv holds in every reachable state.                                  *)
LEMMA LifeHolds == Spec => []LifeInv
<1>1. Init => LifeInv
  <2> SUFFICES ASSUME Init PROVE LifeInv
    OBVIOUS
  <2>1. Elements(<<>>) = {}
    BY DEF Elements
  <2>2. Real
    <3>1. \A c \in Client : cscan[c] = <<>> /\ \A w \in Worker : cworker[c] # w
      BY DEF Init
    <3>2. \A c \in Client : /\ \A w \in Elements(cscan[c]) : wpc[w] # "none"
                            /\ \A w \in Worker : cworker[c] = w => wpc[w] # "none"
      BY <2>1, <3>1
    <3>3. Elements(workers) = {} /\ \A w \in Worker : tasks[w] = <<>>
      BY <2>1 DEF Init
    <3>4. start = FALSE /\ stop_source = FALSE /\ shutdowns = 0
      BY DEF Init
    <3>5. shutdowns \in Nat /\ ~(shutdowns > 0)
      BY <3>4
    <3>6. start \in BOOLEAN /\ stop_source \in BOOLEAN
      BY <3>4
    <3>7. \A w \in Elements(workers) : wpc[w] # "none"
      BY <3>3
    <3> QED
      BY <3>2, <3>3, <3>5, <3>6, <3>7, Zenon DEF Real
  <2>3. Solo
    BY DEF Init, Solo, StartupPC, SubmitPC, ShutdownPC, DestroyPC
  <2>4. Known /\ Stopped
    BY DEF Init, Known, Stopped, Alive, DestroyPC
  <2> QED
    BY <2>2, <2>3, <2>4 DEF LifeInv
<1>2. CustodyInv /\ LifeInv /\ [Next]_vars => LifeInv'
  <2> SUFFICES ASSUME CustodyInv, LifeInv, [Next]_vars PROVE LifeInv'
    OBVIOUS
  <2>1. ASSUME NEW c \in Client,
               \/ StartupBegin(c) \/ ShutdownBegin(c) \/ ClientStep(c)
               \/ \E t \in Task : SubmitBegin(c, t)
        PROVE  LifeInv'
    BY <2>1, StartupKeepsLife, SubmitKeepsLife, ShutdownKeepsLife DEF ClientStep
  <2>2. ASSUME NEW w \in Worker, SpuriousWake(w) \/ WorkerStep(w) PROVE LifeInv'
    BY <2>2, WorkerKeepsLife
  <2>3. CASE UNCHANGED vars
    <3>1. UNCHANGED <<start, stop_source, workers, wpc, tasks, cpc, cscan, cworker, shutdowns>>
      BY <2>3 DEF vars, pool, worker, client
    <3> QED
      BY <3>1 DEF LifeInv, Real, Solo, Known, Stopped, Alive
  <2> QED
    BY <2>1, <2>2, <2>3 DEF Next
<1> QED
  BY <1>1, <1>2, CustodyHolds, PTL DEF Spec

(* After a Shutdown that overlapped no other call every worker thread is     *)
(* joined and no task that was handed over is left unsettled, for any        *)
(* number of clients, workers and tasks (thread_pool.h 90-94, 136-142).      *)
THEOREM ShutdownAlwaysSettles == Spec => []ShutdownSettles
<1>1. CustodyInv /\ LifeInv => ShutdownSettles
  <2> SUFFICES ASSUME CustodyInv, LifeInv, ~Overlap, ~start, Idle
               PROVE  /\ \A w \in Worker : wpc[w] \in {"none", "gone"}
                      /\ \A t \in Task : fate[t] # "pending"
    BY DEF ShutdownSettles
  <2>1. \A w \in Worker : ~Alive(w)
    <3>1. Solo /\ Known /\ Elements(workers) = {}
      BY DEF LifeInv, Solo, Elements
    <3> QED
      BY <3>1 DEF Known, Idle
  <2>2. \A w \in Worker : wpc[w] \in {"none", "gone"} /\ tasks[w] = <<>>
    BY <2>1 DEF LifeInv, Real, Alive
  <2>3. ASSUME NEW t \in Task, fate[t] = "pending" PROVE FALSE
    <3>1. PICK x \in Site : x[1] # "dec" /\ t \in Hold[x]
      BY <2>3 DEF CustodyInv, Custody
    <3>2. \A c \in Client : t \notin Hold[<<"hand", c>>] /\ t \notin Hold[<<"push", c>>]
      <4>1. \A c \in Client : c \notin InHand(t)
        BY DEF InHand, Idle, CustodyInv, Locals, SubmitPC
      <4> QED
        BY <4>1, PlacesAreSites
    <3>3. \A w \in Worker : t \notin Hold[<<"queue", w>>] /\ t \notin Hold[<<"run", w>>]
      <4>1. \A w \in Worker : ~(\E i \in 1 .. Len(tasks[w]) : tasks[w][i] = t)
        BY <2>2
      <4>2. \A w \in Worker : w \notin Running(t)
        BY <2>2 DEF Running
      <4>3. /\ \A w \in Worker : (\E i \in 1 .. Len(tasks[w]) : tasks[w][i] = t) <=> t \in Hold[<<"queue", w>>]
            /\ \A w \in Worker : w \in Running(t) <=> t \in Hold[<<"run", w>>]
        BY PlacesAreSites
      <4> QED
        BY <4>1, <4>2, <4>3, Zenon
    <3>4. x = <<x[1], x[2]>> /\ (\/ x[1] \in {"hand", "push"} /\ x[2] \in Client
                                 \/ x[1] \in {"queue", "run", "dec"} /\ x[2] \in Worker)
      BY SiteIs
    <3>5. \/ \E c \in Client : x = <<"hand", c>> \/ x = <<"push", c>>
          \/ \E w \in Worker : x = <<"queue", w>> \/ x = <<"run", w>>
      BY <3>1, <3>4
    <3> QED
      BY <3>1, <3>2, <3>3, <3>5
  <2> QED
    BY <2>2, <2>3
<1> QED
  BY <1>1, CustodyHolds, LifeHolds, PTL

(* Once a Shutdown has returned, no worker ever takes a task again, not even *)
(* after another Startup: the stop source stays requested, and each new      *)
(* worker ends at its loop condition (thread_pool.h 78, 138).                *)
THEOREM RestartNeverRuns == Spec => []RestartRunsNothing
<1>1. LifeInv => RestartRunsNothing
  BY DEF LifeInv, Real, Stopped, ShuttingDown, RestartRunsNothing
<1> QED
  BY <1>1, LifeHolds, PTL

-----------------------------------------------------------------------------
(***************************************************************************)
(* QueuesRefine: every step is, for the queue of each worker, a step of      *)
(* SyncQueue or none.  The step of a worker is one of its own queue alone;   *)
(* a client's is one of the queue it pushes to or destroys; request_stop in  *)
(* Shutdown makes the condition of every Pop true at once.                   *)
(***************************************************************************)
(* The places of a worker outside Pop, and where Pop is at the others.       *)
Outside == {"none", "loop", "idle", "got", "run", "dec", "done", "gone"}

Place(p) == IF p = "pred" THEN "lock" ELSE IF p \in {"sleep", "wait", "take"} THEN p ELSE "idle"

(* Client c is between the two steps of Stop on the queue of w.              *)
Notifying(c, w) == cpc[c] = "sd_notify" /\ Head(cscan[c]) = w

QueueTypes ==
  /\ tasks_stop \in [Worker -> BOOLEAN]
  /\ \A w \in Worker : wpc[w] = "ub" => crashed # "no"

(* What the queue of a worker sees of the threads, before and after a step.  *)
LEMMA QueueSees ==
  ASSUME NEW w \in Worker
  PROVE  /\ QueuePC(w) = [t \in Client \cup {w} |->
                            IF t = w THEN Place(wpc[w])
                            ELSE IF Notifying(t, w) THEN "notify" ELSE "idle"]
         /\ QueuePC(w)' = [t \in Client \cup {w} |->
                             IF t = w THEN Place(wpc'[w])
                             ELSE IF Notifying(t, w)' THEN "notify" ELSE "idle"]
  BY DEF QueuePC, Place, Notifying

(* A step of one thread, as a queue sees it.                                *)
LEMMA OneMoves ==
  ASSUME NEW D, NEW f, NEW g, f = [t \in D |-> f[t]], g = [t \in D |-> g[t]],
         NEW w \in D, NEW x, \A t \in D : g[t] = IF t = w THEN x ELSE f[t]
  PROVE  g = [f EXCEPT ![w] = x]
  OBVIOUS

(* A step of one thread moves the queue's view of that thread only.         *)
LEMMA OneIsSeen ==
  ASSUME NEW w \in Worker, NEW t \in Client \cup {w}, NEW x,
         IF t = w THEN x = Place(wpc'[w]) ELSE x = IF Notifying(t, w)' THEN "notify" ELSE "idle",
         \A c \in Client \ {t} : Notifying(c, w)' <=> Notifying(c, w),
         t # w => Place(wpc'[w]) = Place(wpc[w])
  PROVE  QueuePC(w)' = [QueuePC(w) EXCEPT ![t] = x]
<1>1. PICK D : D = Client \cup {w}
  OBVIOUS
<1>2. PICK f : f = QueuePC(w)
  OBVIOUS
<1>3. PICK g : g = QueuePC(w)'
  OBVIOUS
<1>4. f = [u \in D |-> f[u]] /\ g = [u \in D |-> g[u]]
  BY <1>1, <1>2, <1>3, QueueSees
<1>5. ASSUME NEW u \in D PROVE g[u] = IF u = t THEN x ELSE f[u]
  <2>1. /\ f[u] = IF u = w THEN Place(wpc[w]) ELSE IF Notifying(u, w) THEN "notify" ELSE "idle"
        /\ g[u] = IF u = w THEN Place(wpc'[w]) ELSE IF Notifying(u, w)' THEN "notify" ELSE "idle"
    BY <1>1, <1>2, <1>3, QueueSees
  <2> QED
    BY <1>1, <2>1
<1>6. g = [f EXCEPT ![t] = x]
  BY ONLY <1>1, <1>4, <1>5, OneMoves, t \in Client \cup {w}
<1> QED
  BY <1>2, <1>3, <1>6

(* A step that the queue of w does not see.                                 *)
Unseen(w) ==
  /\ tasks'[w] = tasks[w] /\ tasks_stop'[w] = tasks_stop[w]
  /\ stop_source' = stop_source /\ task_opt'[w] = task_opt[w]
  /\ wpc'[w] = wpc[w] \/ (wpc[w] \in Outside /\ wpc'[w] \in Outside)
  /\ \A c \in Client : Notifying(c, w)' <=> Notifying(c, w)

(* A step that touches nothing of a worker's queue is a stutter of that     *)
(* queue.                                                                   *)
LEMMA UnseenStutters ==
  ASSUME NEW w \in Worker, Unseen(w)
  PROVE  UNCHANGED Queue(w)!vars
<1>1. Place(wpc'[w]) = Place(wpc[w]) /\ ((wpc'[w] = "ub") <=> (wpc[w] = "ub"))
  BY DEF Unseen, Place, Outside
<1>2. QueuePC(w)' = QueuePC(w)
  BY <1>1, QueueSees DEF Unseen
<1>3. QueueFree(w)' <=> QueueFree(w)
  BY DEF Unseen, QueueFree, Outside
<1> QED
  BY <1>1, <1>2, <1>3 DEF Unseen, Queue!vars

(* A worker's step is one of its own Pop, or no step of its queue            *)
(* (thread_pool.h 76-87).                                                   *)
LEMMA WorkerUsesQueue ==
  ASSUME CustodyInv, QueueTypes, crashed = "no", NEW v \in Worker, SpuriousWake(v) \/ WorkerStep(v),
         NEW w \in Worker
  PROVE  Queue(w)!Next \/ UNCHANGED Queue(w)!vars
<1>1. /\ wpc \in [Worker -> WPC] /\ tasks \in [Worker -> Seq(Task)]
      /\ task_opt \in [Worker -> Task \cup {nil}] /\ wpc[w] # "ub"
  BY DEF CustodyInv, PoolTypes, QueueTypes
<1>2. UNCHANGED <<stop_source, tasks_stop, cpc, cscan>>
  BY DEF SpuriousWake, WorkerStep, WorkerLoop, WorkerIdle, PopTest, PopSleep, PopTake, WorkerBusy,
         WorkerRun, WorkerCountOff, pool, client
<1>3. /\ \E x : wpc' = [wpc EXCEPT ![v] = x] \/ wpc' = wpc
      /\ \E x : task_opt' = [task_opt EXCEPT ![v] = x] \/ task_opt' = task_opt
      /\ tasks' = tasks \/ tasks' = [tasks EXCEPT ![v] = Tail(@)]
  BY DEF SpuriousWake, WorkerStep, WorkerLoop, WorkerIdle, PopTest, PopSleep, PopTake, WorkerBusy,
         WorkerRun, WorkerCountOff
<1>4. \A c \in Client : Notifying(c, w)' <=> Notifying(c, w)
  BY <1>2 DEF Notifying
<1>5. CASE v # w
  <2>1. Unseen(w)
    BY <1>1, <1>2, <1>3, <1>4, <1>5 DEF Unseen
  <2> QED
    BY <2>1, UnseenStutters
<1>6. CASE v = w
  <2>1. ASSUME NEW x \in WPC \ {"ub"}, wpc' = [wpc EXCEPT ![w] = x],
               tasks' = tasks, task_opt' = task_opt
        PROVE  /\ wpc'[w] = x
               /\ QueuePC(w)' = [QueuePC(w) EXCEPT ![w] = Place(x)]
               /\ QueuePC(w)[w] = Place(wpc[w])
               /\ QueueFree(w)' <=> x \notin {"sleep", "take"}
               /\ QueueFree(w) <=> wpc[w] \notin {"sleep", "take"}
               /\ UNCHANGED <<tasks[w], tasks_stop[w], stop_source, [c \in {w} |-> task_opt[w]],
                              wpc[w] = "ub">>
    <3>1. wpc'[w] = x
      BY <1>1, <2>1
    <3>2. QueuePC(w)' = [QueuePC(w) EXCEPT ![w] = Place(x)]
      BY <1>4, <3>1, OneIsSeen
    <3>3. QueuePC(w)[w] = Place(wpc[w])
      BY QueueSees
    <3> QED
      BY <1>1, <1>2, <2>1, <3>1, <3>2, <3>3 DEF QueueFree
  <2>2. CASE WorkerLoop(w) \/ WorkerBusy(w) \/ WorkerRun(w) \/ WorkerCountOff(w)
    <3>1. /\ wpc'[w] = wpc[w] \/ (wpc[w] \in Outside /\ wpc'[w] \in Outside)
          /\ UNCHANGED <<tasks, task_opt>>
      BY <1>1, <2>2 DEF WorkerLoop, WorkerBusy, WorkerRun, WorkerCountOff, Outside
    <3>2. Unseen(w)
      BY <1>2, <1>4, <3>1 DEF Unseen
    <3> QED
      BY <3>2, UnseenStutters
  <2>3. CASE WorkerIdle(w)
    <3>1. /\ wpc[w] = "idle" /\ wpc' = [wpc EXCEPT ![w] = "pred"]
          /\ tasks' = tasks /\ task_opt' = task_opt
      BY <2>3 DEF WorkerIdle
    <3>2. Queue(w)!PopCall(w)
      BY <2>1, <3>1 DEF Queue!PopCall, Place, WPC
    <3> QED
      BY <1>1, <3>2 DEF Queue!Next
  <2>4. CASE PopTest(w)
    <3>1. PICK x \in {"take", "sleep"} :
             /\ wpc[w] = "pred" /\ wpc' = [wpc EXCEPT ![w] = x]
             /\ x = "take" <=> (tasks[w] # <<>> \/ tasks_stop[w] \/ stop_source)
             /\ tasks' = tasks /\ task_opt' = task_opt
      BY <2>4 DEF PopTest
    <3>2. x = IF Queue(w)!Predicate(w) THEN "take" ELSE "sleep"
      BY <3>1 DEF Queue!Predicate
    <3>3. Queue(w)!PopTest(w)
      BY <2>1, <3>1, <3>2 DEF Queue!PopTest, Place, WPC
    <3> QED
      BY <1>1, <3>3 DEF Queue!Next
  <2>5. CASE PopSleep(w)
    <3>1. /\ wpc[w] = "sleep" /\ wpc' = [wpc EXCEPT ![w] = "wait"]
          /\ tasks' = tasks /\ task_opt' = task_opt
      BY <2>5 DEF PopSleep
    <3>2. Queue(w)!PopSleep(w)
      BY <2>1, <3>1 DEF Queue!PopSleep, Place, WPC
    <3> QED
      BY <1>1, <3>2 DEF Queue!Next
  <2>6. CASE SpuriousWake(w)
    <3>1. /\ wpc[w] = "wait" /\ wpc' = [wpc EXCEPT ![w] = "pred"]
          /\ tasks' = tasks /\ task_opt' = task_opt
      BY <2>6 DEF SpuriousWake
    <3>2. Queue(w)!SpuriousWake(w)
      BY <2>1, <3>1 DEF Queue!SpuriousWake, Place, WPC
    <3> QED
      BY <1>1, <3>2 DEF Queue!Next
  <2>7. CASE PopTake(w)
    <3>1. wpc[w] = "take" /\ wpc'[w] \in {"got", "ub"}
      BY <1>1, <2>7 DEF PopTake
    <3>2. /\ QueuePC(w)' = [QueuePC(w) EXCEPT ![w] = "idle"] /\ QueuePC(w)[w] = "take"
          /\ ~QueueFree(w) /\ QueueFree(w)'
      <4>1. Place(wpc'[w]) = "idle" /\ Place(wpc[w]) = "take" /\ ~QueueFree(w) /\ QueueFree(w)'
        BY <3>1 DEF Place, QueueFree
      <4>2. QueuePC(w)' = [QueuePC(w) EXCEPT ![w] = "idle"]
        BY <1>4, <4>1, OneIsSeen
      <4> QED
        BY <4>1, <4>2, QueueSees
    <3>3. PICK m : m = [c \in {w} |-> task_opt[w]]
      OBVIOUS
    <3>4. \A x : [m EXCEPT ![w] = x] = [c \in {w} |-> x]
      BY <3>3
    <3>5. \/ /\ tasks_stop[w] /\ task_opt'[w] = nil
             /\ tasks'[w] = tasks[w] /\ wpc'[w] = "got"
          \/ /\ ~tasks_stop[w] /\ tasks[w] # <<>> /\ task_opt'[w] = Head(tasks[w])
             /\ tasks'[w] = Tail(tasks[w]) /\ wpc'[w] = "got"
          \/ /\ ~tasks_stop[w] /\ tasks[w] = <<>> /\ task_opt'[w] = task_opt[w]
             /\ tasks'[w] = tasks[w] /\ wpc'[w] = "ub"
      BY <1>1, <2>7 DEF PopTake
    <3>6. Queue(w)!PopTake(w)
      BY <1>1, <1>2, <3>2, <3>3, <3>4, <3>5 DEF Queue!PopTake
    <3> QED
      BY <1>1, <3>6 DEF Queue!Next
  <2> QED
    BY <1>6, <2>2, <2>3, <2>4, <2>5, <2>6, <2>7 DEF WorkerStep
<1> QED
  BY <1>5, <1>6

(* A client's own place, as the queues see it.                              *)
LEMMA ClientPlace ==
  ASSUME NEW w \in Worker, NEW c \in Client
  PROVE  c # w /\ QueuePC(w)[c] = IF Notifying(c, w) THEN "notify" ELSE "idle"
<1>1. c # w
  BY PoolQueuesAssumption
<1> QED
  BY <1>1, QueueSees

(* Startup, and Submit up to its push, do nothing to the queues.            *)
LEMMA ClientLeavesQueue ==
  ASSUME CustodyInv, NEW c \in Client,
         \/ StartupBegin(c) \/ (\E t \in Task : SubmitBegin(c, t))
         \/ StartupCreate(c) \/ SubmitLock(c) \/ SubmitScan(c) \/ SubmitRandom(c) \/ SubmitThrow(c)
         \/ SubmitExpand(c) \/ SubmitCount(c) \/ SubmitDangling(c) \/ ShutdownDangling(c)
         \/ ShutdownEmpty(c) \/ ShutdownEnd(c),
         NEW w \in Worker
  PROVE  UNCHANGED Queue(w)!vars
<1>1. /\ wpc \in [Worker -> WPC] /\ cpc \in [Client -> CPC] /\ cscan \in [Client -> Seq(Worker)]
      /\ created \in Nat /\ \A v \in Worker : v > created => wpc[v] = "none"
  BY DEF CustodyInv, PoolTypes, Locals
<1>2. UNCHANGED <<stop_source, tasks, tasks_stop, task_opt>>
  BY DEF StartupBegin, SubmitBegin, StartupCreate, SubmitLock, SubmitScan, SubmitRandom, SubmitThrow,
         SubmitExpand, SubmitCount, SubmitDangling, ShutdownDangling, Dangling, ShutdownEmpty, ShutdownEnd,
         pool, worker
<1>3. \A d \in Client : Notifying(d, w)' <=> Notifying(d, w)
  <2>1. \A d \in Client \ {c} : cpc'[d] = cpc[d] /\ cscan'[d] = cscan[d]
    BY <1>1 DEF StartupBegin, SubmitBegin, StartupCreate, SubmitLock, SubmitScan, SubmitRandom, SubmitThrow,
         SubmitExpand, SubmitCount, SubmitDangling, ShutdownDangling, Dangling, ShutdownEmpty, ShutdownEnd,
         Leave, client
  <2>2. \/ cpc[c] # "sd_notify" /\ cpc'[c] # "sd_notify"
        \/ UNCHANGED <<cpc, cscan>>
    BY <1>1 DEF StartupBegin, SubmitBegin, StartupCreate, SubmitLock, SubmitScan, SubmitRandom, SubmitThrow,
         SubmitExpand, SubmitCount, SubmitDangling, ShutdownDangling, Dangling, ShutdownEmpty, ShutdownEnd,
         Leave, client
  <2> QED
    BY <2>1, <2>2 DEF Notifying
<1>4. wpc'[w] = wpc[w] \/ (wpc[w] \in Outside /\ wpc'[w] \in Outside)
  <2>1. CASE StartupCreate(c) \/ SubmitExpand(c)
    <3>1. PICK n : Spawn(n) /\ (n = create_count \/ n = 1)
      BY <2>1 DEF StartupCreate, SubmitExpand
    <3>2. w \in created + 1 .. created + n => wpc[w] = "none"
      <4>1. n \in Nat /\ w \in Nat
        BY <3>1 DEF create_count, Worker
      <4> QED
        BY <1>1, <4>1
    <3>3. wpc'[w] = IF w \in created + 1 .. created + n THEN "loop" ELSE wpc[w]
      BY <3>1 DEF Spawn
    <3> QED
      BY <3>2, <3>3 DEF Outside
  <2>2. CASE ~(StartupCreate(c) \/ SubmitExpand(c))
    BY <2>2 DEF StartupBegin, SubmitBegin, SubmitLock, SubmitScan, SubmitRandom, SubmitThrow,
         SubmitCount, SubmitDangling, ShutdownDangling, Dangling, ShutdownEmpty, ShutdownEnd, worker
  <2> QED
    BY <2>1, <2>2
<1>5. Unseen(w)
  BY <1>2, <1>3, <1>4 DEF Unseen
<1> QED
  BY <1>5, UnseenStutters

(* A queue never holds all the tasks while one more is pushed.               *)
LEMMA RoomInQueue ==
  ASSUME CustodyInv, NEW c \in Client, cpc[c] = "sb_push", NEW w \in Worker
  PROVE  ctask[c] \in Task /\ Len(tasks[w]) < Cardinality(Task)
<1>1. PICK t \in Task : t = ctask[c]
  BY DEF CustodyInv, PoolTypes, Locals, SubmitPC
<1>2. PICK q \in Seq(Task) : q = tasks[w] /\ Injective(q)
  BY DEF CustodyInv, PoolTypes, Locals
<1>3. \A i \in 1 .. Len(q) : q[i] # t
  <2>1. t \in Hold[<<"push", c>>]
    BY <1>1, PlacesAreSites DEF InHand
  <2>2. t \notin Hold[<<"queue", w>>]
    <3>1. <<"push", c>> # <<"queue", w>>
      OBVIOUS
    <3> QED
      BY <2>1, <3>1, SiteIs DEF CustodyInv, Custody
  <2>3. ~(\E i \in 1 .. Len(tasks[w]) : tasks[w][i] = t)
    BY <2>2, PlacesAreSites
  <2> QED
    BY <1>2, <2>3
<1>4. PICK n \in Nat : n = Len(q)
  BY <1>2
<1>5. q \in Injection(1 .. n, Task)
  BY <1>2, <1>4 DEF Injective, Injection, IsInjective
<1>6. q \notin Surjection(1 .. n, Task)
  BY <1>1, <1>3, <1>4 DEF Surjection
<1>7. Cardinality(1 .. n) = n
  <2>1. 1 \in Int /\ n \in Int
    OBVIOUS
  <2>2. Cardinality(1 .. n) = IF 1 > n THEN 0 ELSE n - 1 + 1
    BY ONLY <2>1, FS_Interval
  <2> QED
    BY <2>2
<1>8. n <= Cardinality(Task) /\ n # Cardinality(Task) /\ Cardinality(Task) \in Nat
  BY <1>5, <1>6, <1>7, FS_Injection, FS_CardinalityType
<1> QED
  BY <1>1, <1>2, <1>4, <1>8

(* Submit pushes to the queue it has chosen, and Shutdown clears and stops    *)
(* the queue of the worker it destroys (thread_pool.h 90-105).               *)
LEMMA ClientUsesQueue ==
  ASSUME CustodyInv, QueueTypes, crashed = "no", NEW c \in Client,
         \/ ShutdownBegin(c) \/ SubmitPush(c) \/ WorkerClear(c) \/ WorkerStop(c) \/ WorkerNotify(c)
         \/ WorkerJoin(c),
         NEW w \in Worker
  PROVE  Queue(w)!Next \/ UNCHANGED Queue(w)!vars
<1>1. /\ wpc \in [Worker -> WPC] /\ cpc \in [Client -> CPC] /\ cscan \in [Client -> Seq(Worker)]
      /\ tasks \in [Worker -> Seq(Task)] /\ tasks_stop \in [Worker -> BOOLEAN]
      /\ wpc[w] # "ub" /\ cworker[c] \in Worker \cup {nil}
  BY DEF CustodyInv, PoolTypes, QueueTypes
<1>2. /\ c # w /\ QueuePC(w)[c] = IF Notifying(c, w) THEN "notify" ELSE "idle"
      /\ c \in Client \cup {w}
  BY ClientPlace
<1>3. \A d \in Client \ {c} : Notifying(d, w)' <=> Notifying(d, w)
  <2>1. \A d \in Client \ {c} : cpc'[d] = cpc[d] /\ cscan'[d] = cscan[d]
    BY <1>1 DEF ShutdownBegin, SubmitPush, Leave, WorkerClear, WorkerStop, WorkerNotify, WorkerJoin
  <2> QED
    BY <2>1 DEF Notifying
<1>4. ASSUME cpc[c] # "sd_notify", cpc'[c] # "sd_notify", Place(wpc'[w]) = Place(wpc[w])
      PROVE  QueuePC(w)[c] = "idle" /\ QueuePC(w)' = QueuePC(w)
  <2>1. \A d \in Client : Notifying(d, w)' <=> Notifying(d, w)
    BY <1>3, <1>4 DEF Notifying
  <2> QED
    BY <1>2, <1>4, <2>1, QueueSees DEF Notifying
<1>5. CASE ShutdownBegin(c)
  <2>1. /\ cpc[c] # "sd_notify" /\ cpc'[c] # "sd_notify" /\ stop_source' = TRUE
        /\ UNCHANGED <<wpc, tasks, tasks_stop, task_opt>>
    BY <1>1, <1>5 DEF ShutdownBegin, worker
  <2>2. QueuePC(w)' = QueuePC(w) /\ (QueueFree(w)' <=> QueueFree(w))
    BY <1>4, <2>1 DEF QueueFree
  <2>3. Queue(w)!SetCond
    BY <2>1, <2>2 DEF Queue!SetCond
  <2> QED
    BY <1>1, <2>3 DEF Queue!Next
<1>6. CASE SubmitPush(c)
  <2>1. /\ cpc[c] = "sb_push" /\ cpc'[c] = "idle" /\ cworker[c] \in Worker /\ QueueFree(cworker[c])
        /\ tasks' = [tasks EXCEPT ![cworker[c]] = Append(@, ctask[c])]
        /\ wpc' = [wpc EXCEPT ![cworker[c]] = IF @ = "wait" THEN "pred" ELSE @]
        /\ UNCHANGED <<stop_source, tasks_stop, task_opt>>
    BY <1>1, <1>6 DEF SubmitPush, Leave, Notify, CustodyInv, Locals
  <2>2. CASE cworker[c] # w
    <3>1. tasks'[w] = tasks[w] /\ wpc'[w] = wpc[w]
      BY <1>1, <2>1, <2>2
    <3>2. \A d \in Client : Notifying(d, w)' <=> Notifying(d, w)
      BY <1>3, <2>1 DEF Notifying
    <3>3. Unseen(w)
      BY <2>1, <3>1, <3>2 DEF Unseen
    <3> QED
      BY <3>3, UnseenStutters
  <2>3. CASE cworker[c] = w
    <3>1. PICK t \in Task : t = ctask[c] /\ Len(tasks[w]) < Cardinality(Task)
      BY <2>1, RoomInQueue
    <3>2. /\ tasks'[w] = Append(tasks[w], t) /\ wpc'[w] = IF wpc[w] = "wait" THEN "pred" ELSE wpc[w]
          /\ QueueFree(w) /\ QueueFree(w)' /\ (wpc'[w] = "ub" <=> wpc[w] = "ub")
      BY <1>1, <2>1, <2>3, <3>1 DEF QueueFree
    <3>3. Queue(w)!NotifyOne
      <4>1. CASE wpc[w] = "wait"
        <5>1. w \in Queue(w)!Blocked
          BY <4>1, QueueSees DEF Queue!Blocked, Place
        <5>2. \A d \in Client : Notifying(d, w)' <=> Notifying(d, w)
          BY <1>3, <2>1 DEF Notifying
        <5>3. QueuePC(w)' = [QueuePC(w) EXCEPT ![w] = "lock"]
          BY <3>2, <4>1, <5>2, OneIsSeen DEF Place
        <5> QED
          BY <5>1, <5>3 DEF Queue!NotifyOne
      <4>2. CASE wpc[w] # "wait"
        <5>1. Queue(w)!Blocked = {}
          BY <4>2, QueueSees DEF Queue!Blocked, Place
        <5>2. QueuePC(w)' = QueuePC(w)
          BY <1>4, <2>1, <3>2, <4>2
        <5> QED
          BY <5>1, <5>2 DEF Queue!NotifyOne
      <4> QED
        BY <4>1, <4>2
    <3>4. Queue(w)!Push(c, t)
      BY <1>2, <2>1, <3>1, <3>2, <3>3 DEF Queue!Push, Notifying
    <3> QED
      BY <1>1, <1>2, <3>1, <3>4 DEF Queue!Next
  <2> QED
    BY <2>2, <2>3
<1>7. CASE WorkerClear(c) \/ WorkerJoin(c)
  <2>1. PICK h : h = Head(cscan[c])
    OBVIOUS
  <2>2. /\ cpc[c] # "sd_notify" /\ cpc'[c] # "sd_notify" /\ wpc[h] \notin {"sleep", "take"}
        /\ tasks' = [tasks EXCEPT ![h] = <<>>]
        /\ wpc' = wpc \/ (wpc[h] = "done" /\ wpc' = [wpc EXCEPT ![h] = "gone"])
        /\ UNCHANGED <<stop_source, tasks_stop, task_opt>>
    BY <1>1, <1>7, <2>1 DEF WorkerClear, WorkerJoin, QueueFree, pool
  <2>3. wpc'[w] = wpc[w] \/ (w = h /\ wpc[w] = "done" /\ wpc'[w] = "gone")
    BY <1>1, <2>2
  <2>4. QueuePC(w)[c] = "idle" /\ QueuePC(w)' = QueuePC(w)
    <3>1. Place(wpc'[w]) = Place(wpc[w])
      BY <2>3 DEF Place
    <3> QED
      BY <1>4, <2>2, <3>1
  <2>5. CASE h # w
    <3>1. tasks'[w] = tasks[w] /\ wpc'[w] = wpc[w]
      BY <1>1, <2>2, <2>3, <2>5
    <3>2. \A d \in Client : Notifying(d, w)' <=> Notifying(d, w)
      BY <1>3, <2>2 DEF Notifying
    <3>3. Unseen(w)
      BY <2>2, <3>1, <3>2 DEF Unseen
    <3> QED
      BY <3>3, UnseenStutters
  <2>6. CASE h = w
    <3>1. /\ tasks'[w] = <<>> /\ QueueFree(w) /\ QueueFree(w)'
          /\ (wpc'[w] = "ub" <=> wpc[w] = "ub")
      BY <1>1, <2>2, <2>3, <2>6 DEF QueueFree
    <3>2. Queue(w)!Clear(c)
      BY <2>2, <2>4, <3>1 DEF Queue!Clear
    <3> QED
      BY <1>1, <1>2, <3>2 DEF Queue!Next
  <2> QED
    BY <2>5, <2>6
<1>8. CASE WorkerStop(c)
  <2>1. PICK h : h = Head(cscan[c])
    OBVIOUS
  <2>2. /\ cpc[c] = "sd_stop" /\ cpc'[c] = "sd_notify" /\ cscan' = cscan
        /\ tasks_stop' = [tasks_stop EXCEPT ![h] = TRUE]
        /\ UNCHANGED <<stop_source, tasks, wpc, task_opt>>
    BY <1>1, <1>8, <2>1 DEF WorkerStop, pool
  <2>3. ~Notifying(c, w) /\ (Notifying(c, w)' <=> h = w)
    BY <2>1, <2>2 DEF Notifying
  <2>4. CASE h # w
    <3>1. tasks_stop'[w] = tasks_stop[w]
      BY <1>1, <2>2, <2>4
    <3>2. \A d \in Client : Notifying(d, w)' <=> Notifying(d, w)
      BY <1>3, <2>3, <2>4
    <3>3. Unseen(w)
      BY <2>2, <3>1, <3>2 DEF Unseen
    <3> QED
      BY <3>3, UnseenStutters
  <2>5. CASE h = w
    <3>1. tasks_stop'[w] = TRUE /\ (QueueFree(w)' <=> QueueFree(w))
      BY <1>1, <2>2, <2>5 DEF QueueFree
    <3>2. QueuePC(w)' = [QueuePC(w) EXCEPT ![c] = "notify"]
      BY <1>2, <1>3, <2>2, <2>3, <2>5, OneIsSeen
    <3>3. Queue(w)!StopRequest(c)
      BY <1>2, <2>2, <2>3, <3>1, <3>2 DEF Queue!StopRequest
    <3> QED
      BY <1>1, <1>2, <3>3 DEF Queue!Next
  <2> QED
    BY <2>4, <2>5
<1>9. CASE WorkerNotify(c)
  <2>1. PICK h : h = Head(cscan[c])
    OBVIOUS
  <2>2. /\ cpc[c] = "sd_notify" /\ cpc'[c] = "sd_join"
        /\ wpc' = [wpc EXCEPT ![h] = IF @ = "wait" THEN "pred" ELSE @]
        /\ UNCHANGED <<stop_source, tasks, tasks_stop, task_opt>>
    BY <1>1, <1>9, <2>1 DEF WorkerNotify, Notify, pool
  <2>3. (Notifying(c, w) <=> h = w) /\ ~Notifying(c, w)'
    BY <2>1, <2>2 DEF Notifying
  <2>4. CASE h # w
    <3>1. wpc'[w] = wpc[w]
      BY <1>1, <2>2, <2>4
    <3>2. \A d \in Client : Notifying(d, w)' <=> Notifying(d, w)
      BY <1>3, <2>3, <2>4
    <3>3. Unseen(w)
      BY <2>2, <3>1, <3>2 DEF Unseen
    <3> QED
      BY <3>3, UnseenStutters
  <2>5. CASE h = w
    <3>1. /\ wpc'[w] = IF wpc[w] = "wait" THEN "pred" ELSE wpc[w]
          /\ (wpc'[w] = "ub" <=> wpc[w] = "ub")
      BY <1>1, <2>2, <2>5
    <3>2. QueueFree(w)' <=> QueueFree(w)
      BY <3>1 DEF QueueFree
    <3>3. Place(wpc'[w]) = IF Place(wpc[w]) = "wait" THEN "lock" ELSE Place(wpc[w])
      BY <3>1 DEF Place
    <3>4. QueuePC(w)' = [u \in Client \cup {w} |-> IF u = c THEN "idle"
                           ELSE IF QueuePC(w)[u] = "wait" THEN "lock" ELSE QueuePC(w)[u]]
      <4>1. ASSUME NEW u \in Client \cup {w}
            PROVE  QueuePC(w)'[u] = IF u = c THEN "idle"
                     ELSE IF QueuePC(w)[u] = "wait" THEN "lock" ELSE QueuePC(w)[u]
        <5>1. /\ QueuePC(w)[u] = IF u = w THEN Place(wpc[w])
                                  ELSE IF Notifying(u, w) THEN "notify" ELSE "idle"
              /\ QueuePC(w)'[u] = IF u = w THEN Place(wpc'[w])
                                   ELSE IF Notifying(u, w)' THEN "notify" ELSE "idle"
          BY QueueSees
        <5>2. CASE u = c
          BY <1>2, <2>3, <5>1, <5>2
        <5>3. CASE u = w
          BY <1>2, <3>3, <5>1, <5>3
        <5>4. CASE u # c /\ u # w
          BY <1>3, <5>1, <5>4
        <5> QED
          BY <5>2, <5>3, <5>4
      <4>2. QueuePC(w)' = [u \in Client \cup {w} |-> QueuePC(w)'[u]]
        BY QueueSees
      <4> QED
        BY <4>1, <4>2
    <3>5. Queue(w)!StopNotify(c)
      BY <1>2, <2>2, <2>3, <2>5, <3>1, <3>2, <3>4 DEF Queue!StopNotify
    <3> QED
      BY <1>1, <1>2, <3>5 DEF Queue!Next
  <2> QED
    BY <2>4, <2>5
<1> QED
  BY <1>5, <1>6, <1>7, <1>8, <1>9

(* A worker past a front() of an empty queue has ended the process.          *)
LEMMA QueueTypesHold == Spec => []QueueTypes
<1>1. Init => QueueTypes
  BY DEF Init, QueueTypes
<1>2. CustodyInv /\ QueueTypes /\ [Next]_vars => QueueTypes'
  <2> SUFFICES ASSUME CustodyInv, QueueTypes, [Next]_vars PROVE QueueTypes'
    OBVIOUS
  <2>1. wpc \in [Worker -> WPC] /\ tasks_stop \in [Worker -> BOOLEAN]
    BY DEF CustodyInv, PoolTypes, QueueTypes
  <2>2. CASE UNCHANGED vars
    BY <2>2 DEF vars, worker, QueueTypes
  <2>3. CASE Next
    <3>1. crashed = "no" /\ \A w \in Worker : wpc[w] # "ub"
      BY <2>3 DEF Next, QueueTypes
    <3>2. ASSUME NEW c \in Client,
                 \/ StartupBegin(c) \/ ShutdownBegin(c) \/ ClientStep(c)
                 \/ \E t \in Task : SubmitBegin(c, t)
          PROVE  /\ tasks_stop' \in [Worker -> BOOLEAN]
                 /\ \A w \in Worker : wpc'[w] # "ub"
      <4>1. CASE StartupCreate(c) \/ SubmitExpand(c)
        BY <2>1, <3>1, <4>1 DEF StartupCreate, SubmitExpand, Spawn
      <4>2. CASE SubmitPush(c) \/ WorkerNotify(c) \/ WorkerJoin(c) \/ WorkerStop(c)
        BY <2>1, <3>1, <4>2 DEF SubmitPush, WorkerNotify, Notify, WorkerJoin, WorkerStop
      <4>3. CASE UNCHANGED <<wpc, tasks_stop>>
        BY <2>1, <3>1, <4>3
      <4> QED
        BY <3>2, <4>1, <4>2, <4>3 DEF ClientStep, StartupBegin, SubmitBegin, SubmitLock, SubmitScan,
           SubmitRandom, SubmitThrow, SubmitCount, SubmitDangling, ShutdownBegin, WorkerClear,
           ShutdownDangling, Dangling, ShutdownEmpty, ShutdownEnd, worker
    <3>3. ASSUME NEW v \in Worker, SpuriousWake(v) \/ WorkerStep(v)
          PROVE  /\ tasks_stop' \in [Worker -> BOOLEAN]
                 /\ \A w \in Worker : wpc'[w] = "ub" => crashed' # "no"
      BY <2>1, <3>1, <3>3 DEF SpuriousWake, WorkerStep, WorkerLoop, WorkerIdle, PopTest, PopSleep,
         PopTake, WorkerBusy, WorkerRun, WorkerCountOff
    <3> QED
      BY <2>3, <3>2, <3>3 DEF Next, QueueTypes
  <2> QED
    BY <2>2, <2>3
<1> QED
  BY <1>1, <1>2, CustodyHolds, PTL DEF Spec

(* For any number of clients, tasks and workers, and with Startup and        *)
(* Shutdown overlapping Submit or not, the queue of every worker behaves as  *)
(* module SyncQueue says, so that what is proved of SyncQueue holds of it    *)
(* (thread_pool.h 80, 91-92, 104, 111).                                      *)
THEOREM PoolUsesQueues == Spec => QueuesRefine
<1>1. Init => \A w \in Worker : Queue(w)!Init
  <2> SUFFICES ASSUME Init, NEW w \in Worker PROVE Queue(w)!Init
    OBVIOUS
  <2>1. QueuePC(w) = [t \in Client \cup {w} |-> "idle"]
    BY DEF Init, QueuePC
  <2>2. QueueFree(w)
    BY DEF Init, QueueFree
  <2> QED
    BY <2>1, <2>2 DEF Init, Queue!Init
<1>2. CustodyInv /\ QueueTypes /\ [Next]_vars
        => [\A w \in Worker : Queue(w)!Next \/ UNCHANGED Queue(w)!vars]_vars
  <2> SUFFICES ASSUME CustodyInv, QueueTypes, Next, NEW w \in Worker
               PROVE  Queue(w)!Next \/ UNCHANGED Queue(w)!vars
    OBVIOUS
  <2>1. crashed = "no"
    BY DEF Next
  <2>2. ASSUME NEW v \in Worker, SpuriousWake(v) \/ WorkerStep(v)
        PROVE  Queue(w)!Next \/ UNCHANGED Queue(w)!vars
    BY <2>1, <2>2, WorkerUsesQueue
  <2>3. ASSUME NEW c \in Client,
               \/ StartupBegin(c) \/ ShutdownBegin(c) \/ ClientStep(c)
               \/ \E t \in Task : SubmitBegin(c, t)
        PROVE  Queue(w)!Next \/ UNCHANGED Queue(w)!vars
    BY <2>1, <2>3, ClientUsesQueue, ClientLeavesQueue DEF ClientStep
  <2> QED
    BY <2>2, <2>3 DEF Next
<1> QED
  BY <1>1, <1>2, CustodyHolds, QueueTypesHold, PTL DEF Spec, QueuesRefine

-----------------------------------------------------------------------------
(***************************************************************************)
(* What SyncQueueProofs proves of every queue, for the queue of a worker of  *)
(* the pool: aWorker stands for any of them.                                *)
(***************************************************************************)
CONSTANT aWorker

P == INSTANCE SyncQueueProofs WITH
  Thread <- Client \cup {aWorker}, Consumer <- {aWorker}, CondConsumer <- {aWorker},
  Value <- Task, nullopt <- nil, NoThread <- nil, MaxLen <- Cardinality(Task),
  queue_ <- tasks[aWorker], mutex_ <- IF QueueFree(aWorker) THEN nil ELSE aWorker,
  stop_source_ <- tasks_stop[aWorker], cond <- stop_source, pc <- QueuePC(aWorker),
  ret <- [c \in {aWorker} |-> task_opt[aWorker]], crashed <- wpc[aWorker] = "ub"

(* The pool's threads and tasks are what a queue assumes of its own.         *)
LEMMA QueueAssumption ==
  ASSUME aWorker \in Worker
  PROVE  P!SyncQueueAssumption
<1>1. IsFiniteSet(Client \cup {aWorker})
  BY FS_Singleton, FS_Union
<1>2. Cardinality(Task) \in Nat
  BY FS_CardinalityType
<1> QED
  BY <1>1, <1>2 DEF P!SyncQueueAssumption, P!IsFiniteSet, IsFiniteSet

(* A step of the queue of aWorker in PoolQueues is one of P.                 *)
LEMMA QueueStep ==
  ASSUME aWorker \in Worker, Queue(aWorker)!Next
  PROVE  P!Next
<1> DEFINE D == Client \cup {aWorker}
<1>1. ASSUME NEW t \in D, NEW v \in Task, Queue(aWorker)!Push(t, v) PROVE P!Push(t, v)
  BY <1>1 DEF Queue!Push, Queue!NotifyOne, Queue!Blocked, P!Push, P!NotifyOne, P!Blocked
<1>2. ASSUME NEW t \in D, Queue(aWorker)!Clear(t) PROVE P!Clear(t)
  BY <1>2 DEF Queue!Clear, P!Clear
<1>3. ASSUME NEW t \in D, Queue(aWorker)!StopRequest(t) PROVE P!StopRequest(t)
  BY <1>3 DEF Queue!StopRequest, P!StopRequest
<1>4. ASSUME NEW t \in D, Queue(aWorker)!StopNotify(t) PROVE P!StopNotify(t)
  BY <1>4 DEF Queue!StopNotify, P!StopNotify
<1>5. ASSUME NEW t \in {aWorker}, Queue(aWorker)!PopCall(t) PROVE P!PopCall(t)
  BY <1>5 DEF Queue!PopCall, P!PopCall
<1>6. ASSUME NEW t \in {aWorker}, Queue(aWorker)!PopTest(t) PROVE P!PopTest(t)
  BY <1>6 DEF Queue!PopTest, Queue!Predicate, P!PopTest, P!Predicate
<1>7. ASSUME NEW t \in {aWorker}, Queue(aWorker)!PopSleep(t) PROVE P!PopSleep(t)
  BY <1>7 DEF Queue!PopSleep, P!PopSleep
<1>8. ASSUME NEW t \in {aWorker}, Queue(aWorker)!SpuriousWake(t) PROVE P!SpuriousWake(t)
  BY <1>8 DEF Queue!SpuriousWake, P!SpuriousWake
<1>9. ASSUME NEW t \in {aWorker}, Queue(aWorker)!PopTake(t) PROVE P!PopTake(t)
  BY <1>9 DEF Queue!PopTake, P!PopTake
<1>10. Queue(aWorker)!SetCond => P!SetCond
  BY DEF Queue!SetCond, P!SetCond
<1> QED
  BY <1>1, <1>2, <1>3, <1>4, <1>5, <1>6, <1>7, <1>8, <1>9, <1>10 DEF Queue!Next, P!Next

(* So every queue of the pool is a SyncQueue.                               *)
LEMMA PoolUsesQueue ==
  ASSUME aWorker \in Worker
  PROVE  Spec => P!Spec
<1>1. (\A w \in Worker : Queue(w)!Init) => P!Init
  BY DEF Queue!Init, P!Init
<1>2. [\A w \in Worker : Queue(w)!Next \/ UNCHANGED Queue(w)!vars]_vars => [P!Next]_(P!vars)
  <2>1. ASSUME \A w \in Worker : Queue(w)!Next \/ UNCHANGED Queue(w)!vars
        PROVE  [P!Next]_(P!vars)
    <3>1. CASE Queue(aWorker)!Next
      BY <3>1, QueueStep
    <3>2. CASE UNCHANGED Queue(aWorker)!vars
      BY <3>2 DEF Queue!vars, P!vars
    <3> QED
      BY <2>1, <3>1, <3>2
  <2>2. ASSUME UNCHANGED vars PROVE UNCHANGED P!vars
    <3>1. Unseen(aWorker)
      BY <2>2 DEF Unseen, Notifying, vars, pool, worker, client
    <3>2. UNCHANGED Queue(aWorker)!vars
      BY <3>1, UnseenStutters
    <3> QED
      BY <3>2 DEF Queue!vars, P!vars
  <2> QED
    BY <2>1, <2>2
<1> QED
  BY <1>1, <1>2, PoolUsesQueues, PTL DEF QueuesRefine, P!Spec

(* Each worker is given tasks by a FIFO: its queue implements the abstract    *)
(* queue, so it runs tasks in the order they were pushed to it, none of them  *)
(* twice, and gets none any more once its queue was stopped                 *)
(* (thread_pool.h 76-92, sync_queue.h 62-98).                               *)
THEOREM PoolQueueIsFifo ==
  ASSUME aWorker \in Worker
  PROVE  Spec => P!FifoSpec
  BY QueueAssumption, PoolUsesQueue, P!ImplementsFifo, PTL

(* No worker sleeps while its open queue holds a task: Submit's notify_one    *)
(* reaches it, whatever the other clients and Shutdown do                    *)
(* (thread_pool.h 80, 91-92; sync_queue.h 63-80).                            *)
THEOREM NoTaskStranded ==
  ASSUME aWorker \in Worker
  PROVE  Spec => []P!NoStrandedItem
  BY QueueAssumption, PoolUsesQueue, P!NotifyOneSuffices, PTL

(* A worker that leaves its wait finds a task or a stopped queue, unless the  *)
(* pool is being shut down: only then can its Pop(cond) read the front of an  *)
(* empty queue (thread_pool.h 80, sync_queue.h 78-87).                       *)
THEOREM WorkerPopsSafely ==
  ASSUME aWorker \in Worker
  PROVE  Spec => []P!PopFindsItem
  BY QueueAssumption, PoolUsesQueue, P!PopSafe, PTL

(* No worker sleeps in its Pop's wait on an open queue that holds a task: the *)
(* notify_one of every Push reaches it (thread_pool.h 80 and 104,             *)
(* sync_queue.h 63-67 and 78-82).                                            *)
THEOREM SleeperHasNoTask ==
  ASSUME aWorker \in Worker
  PROVE  Spec => [](wpc[aWorker] = "wait" /\ ~tasks_stop[aWorker] => tasks[aWorker] = <<>>)
<1>1. PoolTypes /\ P!NoStrandedItem
        => (wpc[aWorker] = "wait" /\ ~tasks_stop[aWorker] => tasks[aWorker] = <<>>)
  <2> SUFFICES ASSUME PoolTypes, P!NoStrandedItem, wpc[aWorker] = "wait", ~tasks_stop[aWorker]
               PROVE  tasks[aWorker] = <<>>
    OBVIOUS
  <2>1. /\ QueuePC(aWorker)[aWorker] = "wait"
        /\ \A c \in Client : c # aWorker => QueuePC(aWorker)[c] \in {"notify", "idle"}
    BY DEF QueuePC
  <2>2. P!Blocked # {} /\ P!Active = {}
    BY <2>1 DEF P!Blocked, P!Active
  <2>3. Len(tasks[aWorker]) <= P!Cardinality({})
    BY <2>2 DEF P!NoStrandedItem
  <2>4. P!Cardinality({}) = 0
    <3>1. P!Cardinality({}) = Cardinality({})
      BY DEF P!Cardinality, Cardinality
    <3> QED
      BY <3>1, FS_EmptySet
  <2>5. tasks[aWorker] \in Seq(Task)
    BY DEF PoolTypes
  <2> QED
    BY <2>3, <2>4, <2>5
<1>2. CustodyInv => PoolTypes
  BY DEF CustodyInv
<1> QED
  BY <1>1, <1>2, CustodyHolds, NoTaskStranded, PTL

-----------------------------------------------------------------------------
(* The types that no other invariant needs.                                  *)
OtherTypes ==
  /\ start \in BOOLEAN /\ stop_source \in BOOLEAN /\ allow_expand \in BOOLEAN
  /\ worker_mtx \in Client \cup {nil}
  /\ busy \in [Worker -> BOOLEAN]
  /\ shutdowns \in 0 .. MaxShutdowns
  /\ crashed \in {"no", "empty_pop", "dangling", "terminate"}

(* A step keeps them.                                                       *)
LEMMA OtherTypesKept == OtherTypes /\ [Next]_vars => OtherTypes'
<1> SUFFICES ASSUME OtherTypes, [Next]_vars PROVE OtherTypes'
  OBVIOUS
<1> USE DEF OtherTypes
<1>1. CASE UNCHANGED vars
  BY <1>1 DEF vars, pool, worker, client
<1>2. ASSUME NEW w \in Worker, SpuriousWake(w) \/ WorkerStep(w) PROVE OtherTypes'
  <2>1. UNCHANGED <<start, stop_source, allow_expand, worker_mtx, shutdowns>>
    BY <1>2 DEF SpuriousWake, WorkerStep, WorkerLoop, WorkerIdle, PopTest, PopSleep, PopTake,
       WorkerBusy, WorkerRun, WorkerCountOff, pool, client
  <2>2. busy' = busy \/ \E b \in BOOLEAN : busy' = [busy EXCEPT ![w] = b]
    BY <1>2 DEF SpuriousWake, WorkerStep, WorkerLoop, WorkerIdle, PopTest, PopSleep, PopTake,
       WorkerBusy, WorkerRun, WorkerCountOff
  <2>3. crashed' = crashed \/ crashed' \in {"empty_pop", "terminate"}
    BY <1>2 DEF SpuriousWake, WorkerStep, WorkerLoop, WorkerIdle, PopTest, PopSleep, PopTake,
       WorkerBusy, WorkerRun, WorkerCountOff
  <2>4. busy' \in [Worker -> BOOLEAN]
    BY <2>2
  <2> QED
    BY <2>1, <2>3, <2>4
<1>3. ASSUME NEW c \in Client, StartupBegin(c) \/ StartupCreate(c) PROVE OtherTypes'
  <2>1. CASE StartupBegin(c)
    <3>1. allow_expand' \in BOOLEAN
      BY <2>1, ThreadPoolAssumption DEF StartupBegin
    <3> QED
      BY <2>1, <3>1 DEF StartupBegin, worker
  <2>2. CASE StartupCreate(c)
    BY <2>2 DEF StartupCreate
  <2> QED
    BY <1>3, <2>1, <2>2
<1>4. ASSUME NEW c \in Client, NEW t \in Task, SubmitBegin(c, t) PROVE OtherTypes'
  BY <1>4 DEF SubmitBegin, pool, worker
<1>5. ASSUME NEW c \in Client, SubmitLock(c) PROVE OtherTypes'
  BY <1>5 DEF SubmitLock, Leave, worker
<1>6. ASSUME NEW c \in Client, SubmitScan(c) \/ SubmitRandom(c) \/ SubmitCount(c) PROVE OtherTypes'
  BY <1>6 DEF SubmitScan, SubmitRandom, SubmitCount, pool, worker
<1>7. ASSUME NEW c \in Client, SubmitThrow(c) \/ SubmitExpand(c) \/ SubmitPush(c) PROVE OtherTypes'
  BY <1>7 DEF SubmitThrow, SubmitExpand, SubmitPush, Leave, Spawn, worker
<1>8. ASSUME NEW c \in Client, SubmitDangling(c) \/ ShutdownDangling(c) PROVE OtherTypes'
  BY <1>8 DEF SubmitDangling, ShutdownDangling, Dangling, pool, worker, client
<1>9. ASSUME NEW c \in Client, ShutdownBegin(c) PROVE OtherTypes'
  BY <1>9 DEF ShutdownBegin, worker
<1>10. ASSUME NEW c \in Client, WorkerClear(c) \/ WorkerStop(c) \/ WorkerNotify(c) \/ WorkerJoin(c)
       PROVE  OtherTypes'
  BY <1>10 DEF WorkerClear, WorkerStop, WorkerNotify, WorkerJoin, pool, worker
<1>11. ASSUME NEW c \in Client, ShutdownEmpty(c) \/ ShutdownEnd(c) PROVE OtherTypes'
  BY <1>11 DEF ShutdownEmpty, ShutdownEnd, worker
<1> QED
  BY <1>1, <1>2, <1>3, <1>4, <1>5, <1>6, <1>7, <1>8, <1>9, <1>10, <1>11 DEF Next, ClientStep

(* Every variable of the pool keeps its type.  In particular the unsigned     *)
(* counter of tasks never goes below zero, although a worker subtracts from   *)
(* it without looking (thread_pool.h 83-87).                                *)
THEOREM PoolTypeCorrect == Spec => []TypeOK
<1>1. Init => OtherTypes
  <2> SUFFICES ASSUME Init PROVE OtherTypes
    OBVIOUS
  <2>1. /\ start = FALSE /\ stop_source = FALSE /\ allow_expand = TRUE
        /\ worker_mtx = nil /\ crashed = "no"
    BY DEF Init
  <2>2. busy = [w \in Worker |-> FALSE]
    BY DEF Init
  <2>3. shutdowns \in 0 .. MaxShutdowns
    BY ThreadPoolAssumption DEF Init
  <2>4. busy \in [Worker -> BOOLEAN]
    BY <2>2
  <2> QED
    BY <2>1, <2>3, <2>4 DEF OtherTypes
<1>2. CustodyInv /\ CapacityInv /\ QueueTypes /\ OtherTypes => TypeOK
  <2> SUFFICES ASSUME CustodyInv, CapacityInv, QueueTypes, OtherTypes PROVE TypeOK
    OBVIOUS
  <2>1. curr_task_count \in Nat
    <3>1. Counted(Hold, fate) \subseteq Task
      BY DEF Counted
    <3>2. IsFiniteSet(Counted(Hold, fate))
      BY <3>1, FS_Subset
    <3> QED
      BY <3>2, FS_CardinalityType DEF CustodyInv
  <2> QED
    BY <2>1 DEF CustodyInv, PoolTypes, CapacityInv, CountTypes, QueueTypes, OtherTypes, TypeOK
<1> QED
  BY <1>1, <1>2, OtherTypesKept, CustodyHolds, CapacityInvHolds, QueueTypesHold, PTL DEF Spec
=============================================================================
