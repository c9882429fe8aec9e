------------------------------ MODULE SyncQueue ------------------------------
(***************************************************************************)
(* ema::SyncQueue<T> (include/container/sync_queue.h): a std::queue guarded *)
(* by a mutex, a condition variable that Pop waits on, and a stop source.   *)
(*                                                                         *)
(* A critical section whose effects no other thread can see half-done is    *)
(* one step taken while the mutex is free (Push, Clear).  Pop is split at   *)
(* the points where another thread may come in: taking the mutex and        *)
(* testing the wait predicate, going to sleep (which releases the mutex),   *)
(* and the section after the wait.  Stop never takes the mutex, so its two steps    *)
(* may fall anywhere, in particular between a false predicate and the sleep *)
(* that follows it.                                                        *)
(***************************************************************************)
EXTENDS Naturals, Sequences, FiniteSets

CONSTANTS
  Thread,        \* every thread that uses the queue
  Consumer,      \* the threads that call Pop
  CondConsumer,  \* the consumers that call Pop(cond); the others call Pop()
  Value,         \* what is pushed
  nullopt,       \* the empty std::optional
  NoThread,      \* the owner of a free mutex
  MaxLen         \* model bound: no Push on a queue of this length

ASSUME SyncQueueAssumption ==
  /\ IsFiniteSet(Thread)
  /\ Consumer \subseteq Thread
  /\ CondConsumer \subseteq Consumer
  /\ NoThread \notin Thread
  /\ nullopt \notin Value
  /\ MaxLen \in Nat

VARIABLES
  queue_,        \* the std::queue, front first
  mutex_,        \* the thread that holds the mutex, or NoThread
  stop_source_,  \* stop_requested() of the queue's own stop source
  cond,          \* what the cond passed to Pop(cond) evaluates to
  pc,            \* where each thread is
  ret,           \* the last result of Pop, per consumer
  crashed        \* a thread has read front() of an empty queue

vars == <<queue_, mutex_, stop_source_, cond, pc, ret, crashed>>

(***************************************************************************)
(* A thread is outside the queue ("idle"), or in Pop: waiting for the mutex *)
(* ("lock"), holding it and about to sleep ("sleep") or to leave ("take"),  *)
(* or asleep on the condition variable ("wait"); or it is in Stop, between  *)
(* request_stop and notify_all ("notify").                                  *)
(***************************************************************************)
PC == {"idle", "lock", "sleep", "wait", "take", "notify"}

Holding == {"sleep", "take"}

Blocked == {t \in Thread : pc[t] = "wait"}

Active == {t \in Thread : pc[t] \in {"lock", "take"}}

TypeOK ==
  /\ queue_ \in Seq(Value)
  /\ mutex_ \in Thread \cup {NoThread}
  /\ stop_source_ \in BOOLEAN
  /\ cond \in BOOLEAN
  /\ pc \in [Thread -> PC]
  /\ ret \in [Consumer -> Value \cup {nullopt}]
  /\ crashed \in BOOLEAN

Init ==
  /\ queue_ = <<>>
  /\ mutex_ = NoThread
  /\ stop_source_ = FALSE
  /\ cond = FALSE
  /\ pc = [t \in Thread |-> "idle"]
  /\ ret = [c \in Consumer |-> nullopt]
  /\ crashed = FALSE

-----------------------------------------------------------------------------
(* Variant: Push forgets to notify.                                         *)
NotifyNobody == UNCHANGED pc

(* notify_one: one sleeping thread, if there is one, must take the mutex    *)
(* again and test its predicate.                                           *)
NotifyOne ==
  \/ /\ Blocked = {}
     /\ UNCHANGED pc
  \/ \E u \in Blocked : pc' = [pc EXCEPT ![u] = "lock"]

(* Variant: the new value goes to the front.                                *)
PushFront(t, v) ==
  /\ pc[t] = "idle"
  /\ mutex_ = NoThread
  /\ Len(queue_) < MaxLen
  /\ queue_' = <<v>> \o queue_
  /\ NotifyOne
  /\ UNCHANGED <<mutex_, stop_source_, cond, ret, crashed>>

Push(t, v) ==
  /\ pc[t] = "idle"
  /\ mutex_ = NoThread
  /\ Len(queue_) < MaxLen
  /\ queue_' = Append(queue_, v)
  /\ NotifyOne
  /\ UNCHANGED <<mutex_, stop_source_, cond, ret, crashed>>

Clear(t) ==
  /\ pc[t] = "idle"
  /\ mutex_ = NoThread
  /\ queue_' = <<>>
  /\ UNCHANGED <<mutex_, stop_source_, cond, pc, ret, crashed>>

-----------------------------------------------------------------------------
(* Pop, step by step.                                                       *)
PopCall(t) ==
  /\ pc[t] = "idle"
  /\ pc' = [pc EXCEPT ![t] = "lock"]
  /\ UNCHANGED <<queue_, mutex_, stop_source_, cond, ret, crashed>>

(* The wait predicate of Pop() and of Pop(cond).                            *)
Predicate(t) ==
  \/ queue_ # <<>>
  \/ stop_source_
  \/ t \in CondConsumer /\ cond

(* Variant: a wait without a predicate.                                     *)
PopUntested(t) ==
  /\ pc[t] = "lock"
  /\ mutex_ = NoThread
  /\ mutex_' = t
  /\ pc' = [pc EXCEPT ![t] = "take"]
  /\ UNCHANGED <<queue_, stop_source_, cond, ret, crashed>>

(* The mutex is taken, at first or after a wake-up, and the predicate tested. *)
PopTest(t) ==
  /\ pc[t] = "lock"
  /\ mutex_ = NoThread
  /\ mutex_' = t
  /\ pc' = [pc EXCEPT ![t] = IF Predicate(t) THEN "take" ELSE "sleep"]
  /\ UNCHANGED <<queue_, stop_source_, cond, ret, crashed>>

(* Variant: sleeping without giving the mutex back.                         *)
PopSleepHolding(t) ==
  /\ pc[t] = "sleep"
  /\ pc' = [pc EXCEPT ![t] = "wait"]
  /\ UNCHANGED <<queue_, mutex_, stop_source_, cond, ret, crashed>>

(* cv_.wait releases the mutex and blocks in one step.                      *)
PopSleep(t) ==
  /\ pc[t] = "sleep"
  /\ mutex_' = NoThread
  /\ pc' = [pc EXCEPT ![t] = "wait"]
  /\ UNCHANGED <<queue_, stop_source_, cond, ret, crashed>>

(* A condition variable may wake a thread that nobody notified.             *)
SpuriousWake(t) ==
  /\ pc[t] = "wait"
  /\ pc' = [pc EXCEPT ![t] = "lock"]
  /\ UNCHANGED <<queue_, mutex_, stop_source_, cond, ret, crashed>>

(* After the wait: the empty optional when stop was requested (read again,  *)
(* it may have been requested since the predicate was tested), the front    *)
(* otherwise.  front() of an empty queue is undefined behaviour: the checked *)
(* library aborts, the unchecked one reads through a null map or wraps the   *)
(* queue's size to the maximum, which the destructor then walks.  Every     *)
(* outcome ends the process.                                               *)
PopTake(t) ==
  /\ pc[t] = "take"
  /\ mutex_' = NoThread
  /\ pc' = [pc EXCEPT ![t] = "idle"]
  /\ \/ /\ stop_source_
        /\ ret' = [ret EXCEPT ![t] = nullopt]
        /\ UNCHANGED <<queue_, crashed>>
     \/ /\ ~stop_source_
        /\ queue_ # <<>>
        /\ ret' = [ret EXCEPT ![t] = Head(queue_)]
        /\ queue_' = Tail(queue_)
        /\ UNCHANGED crashed
     \/ /\ ~stop_source_
        /\ queue_ = <<>>
        /\ crashed' = TRUE
        /\ UNCHANGED <<queue_, ret>>
  /\ UNCHANGED <<stop_source_, cond>>

-----------------------------------------------------------------------------
(* Stop: request_stop, then notify_all, both without the mutex.             *)
StopRequest(t) ==
  /\ pc[t] = "idle"
  /\ stop_source_' = TRUE
  /\ pc' = [pc EXCEPT ![t] = "notify"]
  /\ UNCHANGED <<queue_, mutex_, cond, ret, crashed>>

StopNotify(t) ==
  /\ pc[t] = "notify"
  /\ pc' = [u \in Thread |-> IF u = t THEN "idle"
                             ELSE IF pc[u] = "wait" THEN "lock" ELSE pc[u]]
  /\ UNCHANGED <<queue_, mutex_, stop_source_, cond, ret, crashed>>

(* The user's condition comes true, without any notification.               *)
SetCond ==
  /\ cond' = TRUE
  /\ UNCHANGED <<queue_, mutex_, stop_source_, pc, ret, crashed>>

-----------------------------------------------------------------------------
PopStep(t) == PopTest(t) \/ PopSleep(t) \/ PopTake(t)

Next ==
  /\ ~crashed
  /\ \/ \E t \in Thread :
          \/ \E v \in Value : Push(t, v)
          \/ Clear(t)
          \/ StopRequest(t)
          \/ StopNotify(t)
     \/ \E t \in Consumer :
          \/ PopCall(t)
          \/ PopTest(t)
          \/ PopSleep(t)
          \/ SpuriousWake(t)
          \/ PopTake(t)
     \/ SetCond

Spec == Init /\ [][Next]_vars

(***************************************************************************)
(* A thread inside Pop or Stop that can move does move; nobody has to call  *)
(* anything and no spurious wake-up has to come.                            *)
(***************************************************************************)
Fairness ==
  /\ \A t \in Consumer : WF_vars(~crashed /\ PopStep(t))
  /\ \A t \in Thread : WF_vars(~crashed /\ StopNotify(t))

FairSpec == Spec /\ Fairness

-----------------------------------------------------------------------------
(* The mutex is held by the one thread inside a critical section of Pop     *)
(* (the lock_guard and unique_lock of sync_queue.h 64-86), and a thread     *)
(* about to sleep has seen an empty queue that is still empty.              *)
LockDiscipline ==
  \A t \in Thread :
    /\ (mutex_ = t) <=> (pc[t] \in Holding)
    /\ pc[t] = "sleep" => queue_ = <<>>

(* A Pop that leaves its wait finds a value or a stopped queue; only Pop(cond) *)
(* whose cond came true can find neither.  So Pop() never calls front() on   *)
(* an empty queue, whatever other threads push, pop, clear and stop          *)
(* (sync_queue.h 69-87).                                                    *)
PopFindsItem ==
  /\ \A t \in Consumer : pc[t] = "take" => Predicate(t)
  /\ crashed => (CondConsumer # {} /\ cond)

(* notify_one is enough: while some consumer sleeps on an open queue, there  *)
(* are at least as many consumers on their way to the queue as there are     *)
(* values in it, so no value is left to nobody (sync_queue.h 63-67, 71, 80). *)
NoStrandedItem ==
  (Blocked # {} /\ ~stop_source_) => Len(queue_) <= Cardinality(Active)

(* Whatever the interleaving, the queue behaves as a FIFO that is closed     *)
(* once: values leave in the order they came, each to one consumer, and      *)
(* nullopt is returned only after Stop.                                     *)
Fifo == INSTANCE FifoQueue WITH items <- queue_, closed <- stop_source_

FifoSpec == Fifo!Spec

(* A value does not stay in an open queue for ever while a consumer sleeps   *)
(* on it: Push's notification reaches somebody who takes it (63-67).         *)
ItemsGetOut == []<>(queue_ = <<>> \/ Blocked = {} \/ stop_source_ \/ crashed)
=============================================================================
