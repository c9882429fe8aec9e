-------------------------- MODULE SyncQueueProofs --------------------------
(***************************************************************************)
(* Proofs about module SyncQueue (include/container/sync_queue.h), for any  *)
(* number of threads, consumers and values.  The safety invariants are      *)
(* proved one after the other, each from the ones before it: the types,     *)
(* who holds the mutex, what a Pop that leaves its wait finds, and that     *)
(* notify_one is enough.  The refinement of FifoQueue needs none of them.   *)
(***************************************************************************)
EXTENDS SyncQueue, FiniteSetTheorems, TLAPS

USE SyncQueueAssumption

(* Every variable keeps its type: a Pop returns a pushed value or nullopt    *)
(* and nothing else (sync_queue.h 62-98).                                   *)
THEOREM TypeCorrect == Spec => []TypeOK
<1>1. Init => TypeOK
  <2> SUFFICES ASSUME Init PROVE TypeOK
    OBVIOUS
  <2>1. queue_ \in Seq(Value) /\ mutex_ \in Thread \cup {NoThread}
    BY DEF Init
  <2>2. pc \in [Thread -> PC]
    BY DEF Init, PC
  <2>3. ret \in [Consumer -> Value \cup {nullopt}]
    BY DEF Init
  <2>4. stop_source_ \in BOOLEAN /\ cond \in BOOLEAN /\ crashed \in BOOLEAN
    BY Zenon DEF Init
  <2> QED
    BY <2>1, <2>2, <2>3, <2>4 DEF TypeOK
<1>2. TypeOK /\ [Next]_vars => TypeOK'
  <2> SUFFICES ASSUME TypeOK, [Next]_vars PROVE TypeOK'
    OBVIOUS
  <2> USE DEF TypeOK, PC
  <2>1. ASSUME NEW t \in Thread, NEW v \in Value, Push(t, v) PROVE TypeOK'
    BY <2>1 DEF Push, NotifyOne, Blocked
  <2>2. ASSUME NEW t \in Thread, Clear(t) PROVE TypeOK'
    BY <2>2 DEF Clear
  <2>3. ASSUME NEW t \in Thread, StopRequest(t) PROVE TypeOK'
    BY <2>3 DEF StopRequest
  <2>4. ASSUME NEW t \in Thread, StopNotify(t) PROVE TypeOK'
    BY <2>4 DEF StopNotify
  <2>5. ASSUME NEW t \in Consumer, PopCall(t) PROVE TypeOK'
    BY <2>5 DEF PopCall
  <2>6. ASSUME NEW t \in Consumer, PopTest(t) PROVE TypeOK'
    BY <2>6 DEF PopTest
  <2>7. ASSUME NEW t \in Consumer, PopSleep(t) PROVE TypeOK'
    BY <2>7 DEF PopSleep
  <2>8. ASSUME NEW t \in Consumer, SpuriousWake(t) PROVE TypeOK'
    BY <2>8 DEF SpuriousWake
  <2>9. ASSUME NEW t \in Consumer, PopTake(t) PROVE TypeOK'
    <3>1. queue_' \in Seq(Value) /\ (queue_ # <<>> => Head(queue_) \in Value)
      BY <2>9, SMTT(30) DEF PopTake
    <3>2. ret' \in [Consumer -> Value \cup {nullopt}]
      BY <2>9, <3>1 DEF PopTake
    <3>3. mutex_' \in Thread \cup {NoThread} /\ pc' \in [Thread -> PC]
      BY <2>9 DEF PopTake
    <3>4. stop_source_' \in BOOLEAN /\ cond' \in BOOLEAN
      BY <2>9 DEF PopTake
    <3>5. crashed' \in BOOLEAN
      BY <2>9, Zenon DEF PopTake
    <3> QED
      BY <3>1, <3>2, <3>3, <3>4, <3>5
  <2>10. CASE SetCond
    BY <2>10 DEF SetCond
  <2>11. CASE UNCHANGED vars
    BY <2>11 DEF vars
  <2> QED
    BY <2>1, <2>2, <2>3, <2>4, <2>5, <2>6, <2>7, <2>8, <2>9, <2>10, <2>11 DEF Next
<1> QED
  BY <1>1, <1>2, PTL DEF Spec

(* Only the holder of the mutex is inside a critical section of Pop, and a   *)
(* thread that is about to sleep has an empty queue in front of it           *)
(* (sync_queue.h 64-86).                                                    *)
THEOREM MutexHeld == Spec => []LockDiscipline
<1>1. Init => LockDiscipline
  BY DEF Init, LockDiscipline, Holding
<1>2. TypeOK /\ LockDiscipline /\ [Next]_vars => LockDiscipline'
  <2> SUFFICES ASSUME TypeOK, LockDiscipline, [Next]_vars PROVE LockDiscipline'
    OBVIOUS
  <2> USE DEF TypeOK, PC, LockDiscipline, Holding
  <2>1. ASSUME NEW t \in Thread, NEW v \in Value, Push(t, v) PROVE LockDiscipline'
    BY <2>1 DEF Push, NotifyOne, Blocked
  <2>2. ASSUME NEW t \in Thread, Clear(t) PROVE LockDiscipline'
    BY <2>2 DEF Clear
  <2>3. ASSUME NEW t \in Thread, StopRequest(t) PROVE LockDiscipline'
    BY <2>3 DEF StopRequest
  <2>4. ASSUME NEW t \in Thread, StopNotify(t) PROVE LockDiscipline'
    BY <2>4 DEF StopNotify
  <2>5. ASSUME NEW t \in Consumer, PopCall(t) PROVE LockDiscipline'
    BY <2>5 DEF PopCall
  <2>6. ASSUME NEW t \in Consumer, PopTest(t) PROVE LockDiscipline'
    BY <2>6 DEF PopTest, Predicate
  <2>7. ASSUME NEW t \in Consumer, PopSleep(t) PROVE LockDiscipline'
    BY <2>7 DEF PopSleep
  <2>8. ASSUME NEW t \in Consumer, SpuriousWake(t) PROVE LockDiscipline'
    BY <2>8 DEF SpuriousWake
  <2>9. ASSUME NEW t \in Consumer, PopTake(t) PROVE LockDiscipline'
    BY <2>9 DEF PopTake
  <2>10. CASE SetCond
    BY <2>10 DEF SetCond
  <2>11. CASE UNCHANGED vars
    BY <2>11 DEF vars
  <2> QED
    BY <2>1, <2>2, <2>3, <2>4, <2>5, <2>6, <2>7, <2>8, <2>9, <2>10, <2>11 DEF Next
<1> QED
  BY <1>1, <1>2, TypeCorrect, PTL DEF Spec

(* Pop() never reads the front of an empty queue; Pop(cond) does so only     *)
(* when its cond came true (sync_queue.h 69-87).                             *)
THEOREM PopSafe == Spec => []PopFindsItem
<1>1. Init => PopFindsItem
  BY DEF Init, PopFindsItem
<1>2. TypeOK /\ LockDiscipline /\ PopFindsItem /\ [Next]_vars => PopFindsItem'
  <2> SUFFICES ASSUME TypeOK, LockDiscipline, PopFindsItem, [Next]_vars PROVE PopFindsItem'
    OBVIOUS
  <2> USE DEF TypeOK, PC, LockDiscipline, Holding, PopFindsItem, Predicate
  <2>1. ASSUME NEW t \in Thread, NEW v \in Value, Push(t, v) PROVE PopFindsItem'
    BY <2>1 DEF Push, NotifyOne, Blocked
  <2>2. ASSUME NEW t \in Thread, Clear(t) PROVE PopFindsItem'
    BY <2>2 DEF Clear
  <2>3. ASSUME NEW t \in Thread, StopRequest(t) PROVE PopFindsItem'
    BY <2>3 DEF StopRequest
  <2>4. ASSUME NEW t \in Thread, StopNotify(t) PROVE PopFindsItem'
    BY <2>4 DEF StopNotify
  <2>5. ASSUME NEW t \in Consumer, PopCall(t) PROVE PopFindsItem'
    BY <2>5 DEF PopCall
  <2>6. ASSUME NEW t \in Consumer, PopTest(t) PROVE PopFindsItem'
    BY <2>6 DEF PopTest
  <2>7. ASSUME NEW t \in Consumer, PopSleep(t) PROVE PopFindsItem'
    BY <2>7 DEF PopSleep
  <2>8. ASSUME NEW t \in Consumer, SpuriousWake(t) PROVE PopFindsItem'
    BY <2>8 DEF SpuriousWake
  <2>9. ASSUME NEW t \in Consumer, PopTake(t) PROVE PopFindsItem'
    BY <2>9 DEF PopTake
  <2>10. CASE SetCond
    BY <2>10 DEF SetCond
  <2>11. CASE UNCHANGED vars
    BY <2>11 DEF vars
  <2> QED
    BY <2>1, <2>2, <2>3, <2>4, <2>5, <2>6, <2>7, <2>8, <2>9, <2>10, <2>11 DEF Next
<1> QED
  BY <1>1, <1>2, TypeCorrect, MutexHeld, PTL DEF Spec

-----------------------------------------------------------------------------
(* Every set of active threads is finite, and its cardinality a number.      *)
LEMMA ActiveFinite == IsFiniteSet(Active) /\ Cardinality(Active) \in Nat
  BY FS_Subset, FS_CardinalityType DEF Active

(* The same of the next state.                                              *)
LEMMA ActiveFiniteNext == IsFiniteSet(Active') /\ Cardinality(Active') \in Nat
  BY FS_Subset, FS_CardinalityType DEF Active

(* A value does not wait for nobody: Push's single notification is enough    *)
(* (sync_queue.h 63-67, 71, 80).                                            *)
THEOREM NotifyOneSuffices == Spec => []NoStrandedItem
<1>1. Init => NoStrandedItem
  BY DEF Init, NoStrandedItem, Blocked
<1>2. TypeOK /\ LockDiscipline /\ NoStrandedItem /\ [Next]_vars => NoStrandedItem'
  <2> SUFFICES ASSUME TypeOK, LockDiscipline, NoStrandedItem, [Next]_vars,
                      Blocked' # {}, ~stop_source_'
               PROVE  Len(queue_') <= Cardinality(Active')
    BY DEF NoStrandedItem
  <2> DEFINE Goal == Len(queue_') <= Cardinality(Active')
  <2>0. /\ IsFiniteSet(Active) /\ Cardinality(Active) \in Nat
        /\ IsFiniteSet(Active') /\ Cardinality(Active') \in Nat
        /\ Len(queue_) \in Nat
    BY ActiveFinite, ActiveFiniteNext DEF TypeOK
  <2>1. ASSUME NEW t \in Thread, NEW v \in Value, Push(t, v) PROVE Goal
    <3>1. PICK u \in Blocked : pc' = [pc EXCEPT ![u] = "lock"]
      BY <2>1 DEF Push, NotifyOne, Blocked
    <3>2. Active' = Active \cup {u} /\ u \notin Active
      BY <3>1 DEF Active, Blocked, TypeOK
    <3>3. Cardinality(Active') = Cardinality(Active) + 1
      BY <3>2, <2>0, FS_AddElement
    <3>4. Len(queue_') = Len(queue_) + 1 /\ ~stop_source_
      BY <2>1 DEF Push, TypeOK
    <3>5. Len(queue_) <= Cardinality(Active)
      BY <3>1, <3>4 DEF NoStrandedItem
    <3> QED
      BY <3>3, <3>4, <3>5, <2>0
  <2>2. ASSUME NEW t \in Thread, Clear(t) PROVE Goal
    BY <2>2, <2>0 DEF Clear
  <2>3. ASSUME NEW t \in Thread, StopRequest(t) PROVE Goal
    BY <2>3 DEF StopRequest
  <2>4. ASSUME NEW t \in Thread, StopNotify(t) PROVE Goal
    BY <2>4 DEF StopNotify, Blocked, TypeOK
  <2>5. ASSUME NEW t \in Consumer, PopCall(t) \/ SpuriousWake(t) PROVE Goal
    <3>1. /\ pc' = [pc EXCEPT ![t] = "lock"]
          /\ pc[t] \in {"idle", "wait"}
          /\ queue_' = queue_ /\ stop_source_' = stop_source_
      BY <2>5 DEF PopCall, SpuriousWake
    <3>2. Active' = Active \cup {t} /\ t \notin Active
      BY <3>1 DEF Active, TypeOK
    <3>3. Cardinality(Active') = Cardinality(Active) + 1
      BY <3>2, <2>0, FS_AddElement
    <3>4. Blocked # {}
      BY <3>1 DEF Blocked, TypeOK
    <3> QED
      BY <3>1, <3>3, <3>4, <2>0 DEF NoStrandedItem
  <2>6. ASSUME NEW t \in Consumer, PopTest(t) PROVE Goal
    <3>1. CASE Predicate(t)
      <4>1. Active' = Active /\ Blocked' = Blocked
        BY <2>6, <3>1 DEF PopTest, Active, Blocked, TypeOK
      <4> QED
        BY <2>6, <4>1 DEF PopTest, NoStrandedItem
    <3>2. CASE ~Predicate(t)
      BY <2>6, <3>2, <2>0 DEF PopTest, Predicate
    <3> QED
      BY <3>1, <3>2
  <2>7. ASSUME NEW t \in Consumer, PopSleep(t) PROVE Goal
    BY <2>7, <2>0 DEF PopSleep, LockDiscipline
  <2>9. ASSUME NEW t \in Consumer, PopTake(t) PROVE Goal
    <3>1. ~stop_source_
      BY <2>9 DEF PopTake
    <3>2. CASE queue_ = <<>>
      BY <2>9, <3>1, <3>2, <2>0 DEF PopTake
    <3>3. CASE queue_ # <<>>
      <4>1. Active' = Active \ {t} /\ t \in Active /\ Blocked' = Blocked
        BY <2>9 DEF PopTake, Active, Blocked, TypeOK
      <4>2. Cardinality(Active') = Cardinality(Active) - 1
        BY <4>1, <2>0, FS_RemoveElement
      <4>3. Len(queue_') = Len(queue_) - 1
        BY <2>9, <3>1, <3>3 DEF PopTake, TypeOK
      <4>4. Len(queue_) <= Cardinality(Active)
        BY <4>1, <3>1 DEF NoStrandedItem
      <4> QED
        BY <4>2, <4>3, <4>4, <2>0
    <3> QED
      BY <3>2, <3>3
  <2>10. CASE SetCond
    BY <2>10 DEF SetCond, NoStrandedItem, Active, Blocked
  <2>11. CASE UNCHANGED vars
    BY <2>11 DEF vars, NoStrandedItem, Active, Blocked
  <2> QED
    BY <2>1, <2>2, <2>3, <2>4, <2>5, <2>6, <2>7, <2>9, <2>10, <2>11 DEF Next
<1> QED
  BY <1>1, <1>2, TypeCorrect, MutexHeld, PTL DEF Spec

-----------------------------------------------------------------------------
(* Any number of threads using the queue see a FIFO that closes once: values *)
(* leave in the order they came, each to one consumer, and nullopt means     *)
(* closed (sync_queue.h 62-98).                                             *)
THEOREM ImplementsFifo == Spec => FifoSpec
<1>1. Init => Fifo!Init
  BY DEF Init, Fifo!Init
<1>2. [Next]_vars => [Fifo!Next]_Fifo!vars
  <2> SUFFICES ASSUME [Next]_vars PROVE [Fifo!Next]_Fifo!vars
    OBVIOUS
  <2> USE DEF Fifo!Next, Fifo!vars
  <2>1. ASSUME NEW t \in Thread, NEW v \in Value, Push(t, v) PROVE Fifo!Next
    BY <2>1 DEF Push, Fifo!Put
  <2>2. ASSUME NEW t \in Thread, Clear(t) PROVE Fifo!Next
    BY <2>2 DEF Clear, Fifo!Drop
  <2>3. ASSUME NEW t \in Thread, StopRequest(t) PROVE Fifo!Next
    BY <2>3 DEF StopRequest, Fifo!Close
  <2>4. ASSUME NEW t \in Thread, StopNotify(t) PROVE UNCHANGED Fifo!vars
    BY <2>4 DEF StopNotify
  <2>5. ASSUME NEW t \in Consumer,
               PopCall(t) \/ PopTest(t) \/ PopSleep(t) \/ SpuriousWake(t)
        PROVE UNCHANGED Fifo!vars
    BY <2>5 DEF PopCall, PopTest, PopSleep, SpuriousWake
  <2>6. ASSUME NEW t \in Consumer, PopTake(t) PROVE [Fifo!Next]_Fifo!vars
    <3>1. CASE stop_source_
      BY <2>6, <3>1 DEF PopTake, Fifo!TakeNone
    <3>2. CASE ~stop_source_ /\ queue_ # <<>>
      BY <2>6, <3>2 DEF PopTake, Fifo!Take
    <3>3. CASE ~stop_source_ /\ queue_ = <<>>
      BY <2>6, <3>3 DEF PopTake
    <3> QED
      BY <3>1, <3>2, <3>3
  <2>7. CASE SetCond
    BY <2>7 DEF SetCond
  <2>8. CASE UNCHANGED vars
    BY <2>8 DEF vars
  <2> QED
    BY <2>1, <2>2, <2>3, <2>4, <2>5, <2>6, <2>7, <2>8 DEF Next
<1> QED
  BY <1>1, <1>2, PTL DEF Spec, FifoSpec, Fifo!Spec
=============================================================================
