---------------------------- MODULE LoggerProofs ----------------------------
(***************************************************************************)
(* Proofs about module Logger (src/logger/logger.cpp), for any number of     *)
(* clients, messages, sinks and calls of Init.  The logger's steps are steps *)
(* of its queue or leave it alone, so what SyncQueueProofs proves of every   *)
(* queue holds of the logger's, with its threads as consumers.               *)
(*                                                                         *)
(* SilentAfterUninit and LoggedInOrder need more than the queue: SilentInv    *)
(* says which threads are alive, and OrderInv where each message is on its   *)
(* way from the queue to a sink.                                            *)
(***************************************************************************)
EXTENDS Logger, FiniteSetTheorems, TLAPS

P == INSTANCE SyncQueueProofs WITH
  Thread <- Client \cup {owner} \cup LogThread, Consumer <- LogThread, CondConsumer <- {},
  Value <- Msg, nullopt <- nil, NoThread <- nil, MaxLen <- Cardinality(Msg)

(* The logger's threads and messages are what a queue assumes of its own.    *)
LEMMA QueueAssumption == P!SyncQueueAssumption
<1>1. IsFiniteSet(LogThread)
  BY LoggerAssumption, FS_Interval DEF LogThread
<1>2. IsFiniteSet(Client \cup {owner})
  BY LoggerAssumption, FS_Singleton, FS_Union
<1>3. IsFiniteSet(Client \cup {owner} \cup LogThread)
  BY <1>1, <1>2, FS_Union
<1>4. Cardinality(Msg) \in Nat
  BY LoggerAssumption, FS_CardinalityType
<1>5. nil \notin Client \cup {owner} \cup LogThread
  BY LoggerAssumption DEF LogThread
<1> QED
  BY <1>3, <1>4, <1>5, LoggerAssumption DEF P!SyncQueueAssumption, P!IsFiniteSet, IsFiniteSet

(* Every step of the logger is a step of its queue or leaves the queue as it *)
(* is: LogIt is Push, Uninit's Stop is Stop, and the thread's Pop is Pop     *)
(* (logger.cpp 36-57).                                                      *)
THEOREM UsesQueue == Spec => P!Spec
<1>1. Init => P!Init
  BY DEF Init, Q!Init, P!Init
<1>2. [Next]_vars => [P!Next]_P!vars
  <2> SUFFICES ASSUME [Next]_vars PROVE [P!Next]_P!vars
    OBVIOUS
  <2>1. CASE UNCHANGED vars
    BY <2>1 DEF vars, queuev, P!vars
  <2>2. ASSUME UNCHANGED queuev PROVE UNCHANGED P!vars
    BY <2>2 DEF queuev, P!vars
  <2>3. ASSUME NEW c \in Client, NEW m \in Msg, ~crashed, LogIt(c, m) PROVE P!Next
    <3>1. P!Push(c, m)
      BY <2>3 DEF LogIt, Q!Push, Q!NotifyOne, Q!Blocked, P!Push, P!NotifyOne, P!Blocked
    <3> QED
      BY <2>3, <3>1 DEF P!Next
  <2>4. ASSUME ~crashed, UninitStop \/ UninitNotify PROVE P!Next
    <3>1. P!StopRequest(owner) \/ P!StopNotify(owner)
      BY <2>4 DEF UninitStop, UninitNotify, Q!StopRequest, Q!StopNotify, P!StopRequest, P!StopNotify
    <3> QED
      BY <2>4, <3>1 DEF P!Next
  <2>5. ASSUME NEW t \in LogThread, ~crashed, LoopTest(t) PROVE P!Next \/ UNCHANGED queuev
    <3>1. P!PopCall(t) \/ UNCHANGED queuev
      BY <2>5 DEF LoopTest, Q!PopCall, P!PopCall
    <3> QED
      BY <2>5, <3>1 DEF P!Next
  <2>6. ASSUME NEW t \in LogThread, ~crashed, PopWait(t) PROVE P!Next
    <3>1. P!PopTest(t) \/ P!PopSleep(t)
      BY <2>6 DEF PopWait, Q!PopTest, Q!PopSleep, Q!Predicate, P!PopTest, P!PopSleep, P!Predicate
    <3> QED
      BY <2>6, <3>1 DEF P!Next
  <2>7. ASSUME NEW t \in LogThread, ~crashed, SpuriousWake(t) PROVE P!Next
    <3>1. P!SpuriousWake(t)
      BY <2>7 DEF SpuriousWake, Q!SpuriousWake, P!SpuriousWake
    <3> QED
      BY <2>7, <3>1 DEF P!Next
  <2>8. ASSUME NEW t \in LogThread, ~crashed, PopReturn(t) PROVE P!Next
    <3>1. P!PopTake(t)
      BY <2>8 DEF PopReturn, Q!PopTake, P!PopTake
    <3> QED
      BY <2>8, <3>1 DEF P!Next
  <2>9. ASSUME OwnerStep, ~UninitNotify PROVE UNCHANGED queuev
    BY <2>9 DEF OwnerStep, InitSinks, InitThread, InitJoin, UninitRequest, UninitJoin
  <2>10. ASSUME NEW t \in LogThread, ThreadStep(t), ~LoopTest(t), ~PopWait(t), ~PopReturn(t)
         PROVE  UNCHANGED queuev
    BY <2>10 DEF ThreadStep, WalkEnd, SinkLog
  <2>11. ASSUME NEW l \in BOOLEAN, InitAssign(l) PROVE UNCHANGED queuev
    BY <2>11 DEF InitAssign
  <2> QED
    BY <2>1, <2>2, <2>3, <2>4, <2>5, <2>6, <2>7, <2>8, <2>9, <2>10, <2>11 DEF Next
<1> QED
  BY <1>1, <1>2, PTL DEF Spec, P!Spec

(* A log thread that leaves its wait finds a message or a stopped queue.      *)
LEMMA PopFinds == Spec => []P!PopFindsItem
  BY QueueAssumption, UsesQueue, P!PopSafe, PTL

(* For any number of clients, messages and calls of Init, no log thread reads *)
(* the front of an empty queue, whatever Uninit does meanwhile               *)
(* (logger.cpp 38, sync_queue.h 69-76).                                      *)
THEOREM NeverPopsEmpty == Spec => []~crashed
<1>1. P!PopFindsItem => ~crashed
  BY DEF P!PopFindsItem
<1> QED
  BY <1>1, PopFinds, PTL

(* While a log thread sleeps and Uninit was not called, there are as many     *)
(* log threads awake in Pop as there are messages queued: LogIt's notify_one  *)
(* leaves no message to nobody, although a second Init adds a consumer        *)
(* (logger.cpp 36-38, 56; sync_queue.h 62-71).                               *)
THEOREM NoMessageStranded == Spec => []P!NoStrandedItem
  BY QueueAssumption, UsesQueue, P!NotifyOneSuffices, PTL

(* What the sinks are given comes from a FIFO: the logger's queue implements  *)
(* the abstract queue (logger.cpp 36-43, 55-57).                             *)
THEOREM LoggerQueueIsFifo == Spec => P!FifoSpec
  BY QueueAssumption, UsesQueue, P!ImplementsFifo, PTL

-----------------------------------------------------------------------------
(***************************************************************************)
(* SilentAfterUninit.  A thread that is walking the sinks would write; so    *)
(* the invariant says that on a stopped queue nobody walks unless Uninit is  *)
(* still waiting (Silent).  It holds when Uninit returns because the thread  *)
(* that was joined is the only one alive (OneAlive), which in turn rests on  *)
(* the threads being numbered in the order of their creation (Numbered).  A  *)
(* log thread that is in the queue is in the Pop of its loop (Inside).       *)
(***************************************************************************)
ThreadTypes ==
  /\ thread \in 0 .. MaxInits
  /\ tpc \in [LogThread -> {"none", "loop", "pop", "walk", "done"}]

Numbered ==
  /\ Cardinality(Created) \in 0 .. MaxInits
  /\ Created = 1 .. Cardinality(Created)
  /\ opc \in {"init_sinks", "init_thread"} => Cardinality(Created) < MaxInits

OneAlive ==
  \A t \in LogThread :
    tpc[t] \notin {"none", "done"} => t = thread \/ (opc = "init_join" /\ t = Cardinality(Created))

Silent ==
  (stop_source_ /\ opc \notin {"un_notify", "un_request", "un_join"}) =>
    \A t \in LogThread : tpc[t] # "walk"

Inside == \A t \in LogThread : pc[t] # "idle" => tpc[t] = "pop"

SilentInv == ThreadTypes /\ Numbered /\ OneAlive /\ Silent /\ Inside

(* What an Uninit in any order with Init leaves behind: no thread but the    *)
(* one that was joined (logger.cpp 26-53).                                  *)
LEMMA OwnerKeepsSilent ==
  ASSUME SilentInv, P!TypeOK,
         OwnerStep \/ UninitStop \/ \E l \in BOOLEAN : InitAssign(l)
  PROVE  SilentInv'
<1> USE LoggerAssumption
<1>0. Inside'
  <2>1. \A t \in LogThread : t # owner /\ t \in Client \cup {owner} \cup LogThread
    BY DEF LogThread
  <2>2. CASE UninitStop
    BY <2>1, <2>2 DEF UninitStop, Q!StopRequest, SilentInv, Inside, P!TypeOK
  <2>3. CASE UninitNotify
    BY <2>1, <2>3 DEF UninitNotify, Q!StopNotify, SilentInv, Inside, P!TypeOK
  <2>4. CASE InitThread
    <3>1. pc' = pc /\ tpc' = [tpc EXCEPT ![Cardinality(Created) + 1] = "loop"]
      BY <2>4 DEF InitThread, queuev
    <3>2. opc = "init_thread"
      BY <2>4 DEF InitThread
    <3>3. Cardinality(Created) + 1 \notin Created
      BY DEF SilentInv, Numbered
    <3> DEFINE k == Cardinality(Created) + 1
    <3>4. k \in LogThread => tpc[k] = "none"
      BY <3>3 DEF Created
    <3> HIDE DEF k
    <3>5. tpc' = [tpc EXCEPT ![k] = "loop"]
      BY <3>1 DEF k
    <3> QED
      BY <3>1, <3>4, <3>5 DEF SilentInv, Inside, ThreadTypes
  <2>5. CASE UNCHANGED <<pc, tpc>>
    BY <2>5 DEF SilentInv, Inside
  <2> QED
    BY <2>2, <2>3, <2>4, <2>5 DEF OwnerStep, InitAssign, InitSinks, InitJoin, UninitRequest,
       UninitJoin, queuev
<1>1. CASE \E l \in BOOLEAN : InitAssign(l)
  <2>1. UNCHANGED <<thread, tpc, stop_source_>> /\ opc = "idle" /\ opc' = "init_sinks"
        /\ Cardinality(Created) < MaxInits
    BY <1>1 DEF InitAssign, queuev
  <2>2. Created' = Created
    BY <2>1 DEF Created
  <2> QED
    BY <1>0, <2>1, <2>2 DEF SilentInv, ThreadTypes, Numbered, OneAlive, Silent
<1>2. CASE UninitStop
  <2>1. UNCHANGED <<thread, tpc>> /\ opc = "idle" /\ opc' = "un_notify"
    BY <1>2 DEF UninitStop
  <2>2. Created' = Created
    BY <2>1 DEF Created
  <2> QED
    BY <1>0, <2>1, <2>2 DEF SilentInv, ThreadTypes, Numbered, OneAlive, Silent
<1>3. CASE \E failed \in SUBSET FileSinks : InitSinks(failed)
  <2>1. UNCHANGED <<thread, tpc, stop_source_>> /\ opc = "init_sinks" /\ opc' \in {"init_thread", "idle"}
    BY <1>3 DEF InitSinks, queuev
  <2>2. Created' = Created
    BY <2>1 DEF Created
  <2> QED
    BY <1>0, <2>1, <2>2 DEF SilentInv, ThreadTypes, Numbered, OneAlive, Silent
<1>4. CASE InitThread
  <2> DEFINE n == Cardinality(Created)
  <2>1. opc = "init_thread" /\ UNCHANGED stop_source_ /\ tpc' = [tpc EXCEPT ![n + 1] = "loop"]
    BY <1>4 DEF InitThread, queuev
  <2>2. n \in Nat /\ n + 1 \in LogThread /\ Created = 1 .. n
    BY <2>1 DEF SilentInv, Numbered, LogThread
  <2> HIDE DEF n
  <2>3. Created' = 1 .. n + 1
    <3>1. Created' = Created \cup {n + 1}
      BY <2>1, <2>2 DEF Created, SilentInv, ThreadTypes
    <3> QED
      BY <2>2, <3>1
  <2>4. Cardinality(Created') = n + 1
    BY <2>2, <2>3, FS_Interval
  <2>5. \/ thread = 0 /\ thread' = n + 1 /\ opc' = "idle"
        \/ thread # 0 /\ thread' = thread /\ opc' = "init_join"
    BY <1>4 DEF InitThread, n
  <2>6. ThreadTypes'
    BY <2>1, <2>2, <2>5 DEF SilentInv, ThreadTypes, LogThread
  <2>7. Numbered'
    BY <2>2, <2>3, <2>4, <2>5 DEF Numbered, LogThread
  <2>8. OneAlive'
    BY <2>1, <2>2, <2>4, <2>5 DEF SilentInv, ThreadTypes, OneAlive, LogThread
  <2>9. Silent'
    BY <2>1, <2>2, <2>5 DEF SilentInv, ThreadTypes, Silent
  <2> QED
    BY <1>0, <2>6, <2>7, <2>8, <2>9 DEF SilentInv
<1>5. CASE InitJoin
  <2>1. UNCHANGED <<tpc, stop_source_>> /\ opc = "init_join" /\ opc' = "idle"
        /\ tpc[thread] = "done" /\ thread' = Cardinality(Created)
    BY <1>5 DEF InitJoin, queuev
  <2>2. Created' = Created
    BY <2>1 DEF Created
  <2> QED
    BY <1>0, <2>1, <2>2 DEF SilentInv, ThreadTypes, Numbered, OneAlive, Silent
<1>6. CASE UninitNotify
  <2>1. UNCHANGED <<thread, tpc, stop_source_>> /\ opc = "un_notify" /\ opc' = "un_request"
    BY <1>6 DEF UninitNotify, Q!StopNotify
  <2>2. Created' = Created
    BY <2>1 DEF Created
  <2> QED
    BY <1>0, <2>1, <2>2 DEF SilentInv, ThreadTypes, Numbered, OneAlive, Silent
<1>7. CASE UninitRequest
  <2>1. UNCHANGED <<thread, tpc, stop_source_>> /\ opc = "un_request"
        /\ (opc' = "un_join" \/ (opc' = "idle" /\ thread = 0))
    BY <1>7 DEF UninitRequest, queuev
  <2>2. Created' = Created
    BY <2>1 DEF Created
  <2>3. thread = 0 => \A t \in LogThread : tpc[t] # "walk"
    BY <2>1 DEF SilentInv, OneAlive, LogThread
  <2> QED
    BY <1>0, <2>1, <2>2, <2>3 DEF SilentInv, ThreadTypes, Numbered, OneAlive, Silent
<1>8. CASE UninitJoin
  <2>1. UNCHANGED <<tpc, stop_source_>> /\ opc = "un_join" /\ opc' = "idle"
        /\ tpc[thread] = "done" /\ thread' = 0
    BY <1>8 DEF UninitJoin, queuev
  <2>2. Created' = Created
    BY <2>1 DEF Created
  <2>3. \A t \in LogThread : tpc[t] \in {"none", "done"}
    BY <2>1 DEF SilentInv, OneAlive
  <2> QED
    BY <1>0, <2>1, <2>2, <2>3 DEF SilentInv, ThreadTypes, Numbered, OneAlive, Silent
<1> QED
  BY <1>1, <1>2, <1>3, <1>4, <1>5, <1>6, <1>7, <1>8 DEF OwnerStep

(* A log thread begins a walk only with a message, which a stopped queue     *)
(* does not give (logger.cpp 37-42, sync_queue.h 72).                        *)
LEMMA ThreadKeepsSilent ==
  ASSUME SilentInv, P!TypeOK, NEW t \in LogThread, ThreadStep(t) \/ SpuriousWake(t)
  PROVE  SilentInv'
<1>1. UNCHANGED <<thread, opc, stop_source_>>
  BY DEF ThreadStep, LoopTest, PopWait, PopReturn, WalkEnd, SinkLog, SpuriousWake, queuev,
         Q!PopCall, Q!PopTest, Q!PopSleep, Q!PopTake, Q!SpuriousWake
<1>2. \/ UNCHANGED tpc
      \/ /\ tpc[t] \in {"loop", "walk"}
         /\ \E w \in {"loop", "pop", "done"} : tpc' = [tpc EXCEPT ![t] = w]
      \/ PopReturn(t)
  BY DEF ThreadStep, LoopTest, PopWait, WalkEnd, SinkLog, SpuriousWake
<1>3. Inside'
  BY DEF SilentInv, Inside, ThreadTypes, P!TypeOK, ThreadStep, LoopTest, PopWait, PopReturn, WalkEnd,
         SinkLog, SpuriousWake, queuev, Q!PopCall, Q!PopTest, Q!PopSleep, Q!PopTake, Q!SpuriousWake
<1>4. ASSUME NEW w \in {"loop", "pop", "walk", "done"}, tpc' = [tpc EXCEPT ![t] = w],
             tpc[t] \in {"loop", "pop", "walk"}, w = "walk" => ~stop_source_
      PROVE  SilentInv'
  <2>1. Created' = Created
    BY <1>4 DEF Created, SilentInv, ThreadTypes
  <2> QED
    BY <1>1, <1>3, <1>4, <2>1 DEF SilentInv, ThreadTypes, Numbered, OneAlive, Silent
<1>5. CASE UNCHANGED tpc
  BY <1>1, <1>3, <1>5 DEF SilentInv, ThreadTypes, Numbered, OneAlive, Silent, Created
<1>6. CASE PopReturn(t)
  <2>1. tpc[t] = "pop"
    BY <1>6 DEF PopReturn, Q!PopTake, SilentInv, Inside
  <2>2. stop_source_ => ret'[t] = nil
    BY <1>6 DEF PopReturn, Q!PopTake, P!TypeOK
  <2>3. \E w \in {"loop", "walk"} :
          tpc' = [tpc EXCEPT ![t] = w] /\ (w = "walk" => ret'[t] # nil)
    BY <1>6 DEF PopReturn
  <2> QED
    BY <1>4, <2>1, <2>2, <2>3
<1> QED
  BY <1>2, <1>4, <1>5, <1>6

(* LogIt wakes a log thread and touches nothing else that matters here.      *)
LEMMA LogItKeepsSilent ==
  ASSUME SilentInv, P!TypeOK, NEW c \in Client, NEW m \in Msg, LogIt(c, m)
  PROVE  SilentInv'
<1>1. UNCHANGED <<thread, opc, tpc, stop_source_>>
  BY DEF LogIt, Q!Push
<1>2. Inside'
  BY <1>1 DEF LogIt, Q!Push, Q!NotifyOne, Q!Blocked, SilentInv, Inside, P!TypeOK
<1>3. Created' = Created
  BY <1>1 DEF Created
<1> QED
  BY <1>1, <1>2, <1>3 DEF SilentInv, ThreadTypes, Numbered, OneAlive, Silent

(* Every variable of the queue keeps its type in the logger.                 *)
LEMMA QueueTypes == Spec => []P!TypeOK
  BY QueueAssumption, UsesQueue, P!TypeCorrect, PTL

(* SilentInv is an invariant.                                               *)
LEMMA SilentInvariant == Spec => []SilentInv
<1>1. Init => SilentInv
  <2> SUFFICES ASSUME Init PROVE SilentInv
    OBVIOUS
  <2>1. Created = {}
    BY DEF Init, Created
  <2>2. Cardinality(Created) = 0
    BY <2>1, FS_EmptySet
  <2> QED
    BY <2>1, <2>2, LoggerAssumption
       DEF Init, Q!Init, SilentInv, ThreadTypes, Numbered, OneAlive, Silent, Inside
<1>2. SilentInv /\ P!TypeOK /\ [Next]_vars => SilentInv'
  <2> SUFFICES ASSUME SilentInv, P!TypeOK, [Next]_vars PROVE SilentInv'
    OBVIOUS
  <2>1. CASE UNCHANGED vars
    BY <2>1 DEF vars, queuev, SilentInv, ThreadTypes, Numbered, OneAlive, Silent, Inside, Created
  <2>2. CASE Next
    BY <2>2, OwnerKeepsSilent, ThreadKeepsSilent, LogItKeepsSilent DEF Next
  <2> QED
    BY <2>1, <2>2
<1> QED
  BY <1>1, <1>2, QueueTypes, PTL DEF Spec

(* Once Uninit has returned no sink is written to any more, for any number   *)
(* of clients, messages, sinks and calls of Init (logger.cpp 36-53).         *)
THEOREM StaysSilent == Spec => SilentAfterUninit
<1>1. SilentInv /\ [Next]_vars => [stop_source_ /\ opc = "idle" => out' = out]_vars
  <2> SUFFICES ASSUME SilentInv, Next, stop_source_, opc = "idle" PROVE out' = out
    BY DEF vars
  <2> QED
    BY DEF Next, OwnerStep, ThreadStep, LogIt, InitAssign, InitSinks, InitThread, InitJoin, UninitStop,
           UninitNotify, UninitRequest, UninitJoin, LoopTest, PopWait, SpuriousWake, PopReturn, SinkLog,
           WalkEnd, SilentInv, Silent
<1> QED
  BY <1>1, SilentInvariant, PTL DEF Spec, SilentAfterUninit

-----------------------------------------------------------------------------
(***************************************************************************)
(* LoggedInOrder.  It is not inductive: what a sink has written depends on   *)
(* the message that is on its way to it.  So the invariant adds that, until  *)
(* a race, one thread walks the sinks at a time (OneWalker), that it carries *)
(* the last of the messages that were due (Carried), and that every console  *)
(* sink is open while it walks (Opened).                                    *)
(***************************************************************************)
(* The empty sequence is a part of every sequence.                          *)
LEMMA PartEmpty ==
  ASSUME NEW b \in Seq(Msg)
  PROVE  Part(<<>>, b)
<1>1. PICK f \in [{} -> 1 .. Len(b)] : TRUE
  <2>1. [i \in {} |-> 1] \in [{} -> 1 .. Len(b)]
    OBVIOUS
  <2> QED
    BY <2>1
<1>2. 1 .. Len(<<>>) = {}
  OBVIOUS
<1> QED
  BY <1>1, <1>2 DEF Part

(* A part stays one when the whole grows.                                   *)
LEMMA PartOfLonger ==
  ASSUME NEW a \in Seq(Msg), NEW b \in Seq(Msg), NEW m \in Msg, Part(a, b)
  PROVE  Part(a, Append(b, m))
<1>1. PICK f \in [1 .. Len(a) -> 1 .. Len(b)] :
        /\ \A i, j \in 1 .. Len(a) : i < j => f[i] < f[j]
        /\ \A i \in 1 .. Len(a) : a[i] = b[f[i]]
  BY DEF Part
<1>2. /\ Len(Append(b, m)) = Len(b) + 1
      /\ \A i \in 1 .. Len(b) : Append(b, m)[i] = b[i]
  OBVIOUS
<1>3. f \in [1 .. Len(a) -> 1 .. Len(Append(b, m))]
  BY <1>2
<1>4. \A i \in 1 .. Len(a) : a[i] = Append(b, m)[f[i]]
  BY <1>1, <1>2
<1> QED
  BY <1>1, <1>3, <1>4 DEF Part

(* Both may grow by the same element.                                       *)
LEMMA PartGrows ==
  ASSUME NEW a \in Seq(Msg), NEW b \in Seq(Msg), NEW m \in Msg, Part(a, b)
  PROVE  Part(Append(a, m), Append(b, m))
<1>1. PICK f \in [1 .. Len(a) -> 1 .. Len(b)] :
        /\ \A i, j \in 1 .. Len(a) : i < j => f[i] < f[j]
        /\ \A i \in 1 .. Len(a) : a[i] = b[f[i]]
  BY DEF Part
<1>2. PICK n \in Nat, k \in Nat : n = Len(a) /\ k = Len(b)
  OBVIOUS
<1>3. /\ Len(Append(a, m)) = n + 1 /\ Len(Append(b, m)) = k + 1
      /\ \A i \in 1 .. n : Append(a, m)[i] = a[i]
      /\ \A i \in 1 .. k : Append(b, m)[i] = b[i]
      /\ Append(a, m)[n + 1] = m /\ Append(b, m)[k + 1] = m
  BY <1>2
<1>4. PICK g : g = [i \in 1 .. n + 1 |-> IF i = n + 1 THEN k + 1 ELSE f[i]]
  OBVIOUS
<1>5. \A i \in 1 .. n : f[i] \in 1 .. k
  BY <1>1, <1>2
<1>6. /\ g \in [1 .. n + 1 -> 1 .. k + 1]
      /\ \A i \in 1 .. n : g[i] = f[i]
      /\ g[n + 1] = k + 1
  BY <1>2, <1>4, <1>5
<1>7. \A i, j \in 1 .. n + 1 : i < j => g[i] < g[j]
  <2> SUFFICES ASSUME NEW i \in 1 .. n + 1, NEW j \in 1 .. n + 1, i < j PROVE g[i] < g[j]
    OBVIOUS
  <2>1. i \in 1 .. n /\ g[i] = f[i] /\ f[i] \in 1 .. k
    BY <1>5, <1>6
  <2>2. CASE j = n + 1
    BY <1>6, <2>1, <2>2
  <2>3. CASE j # n + 1
    <3>1. j \in 1 .. n /\ g[j] = f[j]
      BY <1>6, <2>3
    <3> QED
      BY <1>1, <1>2, <2>1, <3>1
  <2> QED
    BY <2>2, <2>3
<1>8. \A i \in 1 .. n + 1 : Append(a, m)[i] = Append(b, m)[g[i]]
  <2> SUFFICES ASSUME NEW i \in 1 .. n + 1 PROVE Append(a, m)[i] = Append(b, m)[g[i]]
    OBVIOUS
  <2>1. CASE i = n + 1
    BY <1>3, <1>6, <2>1
  <2>2. CASE i # n + 1
    <3>1. i \in 1 .. n
      BY <2>2
    <3> QED
      BY <1>1, <1>2, <1>3, <1>5, <1>6, <3>1
  <2> QED
    BY <2>1, <2>2
<1> QED
  BY <1>3, <1>6, <1>7, <1>8 DEF Part

OrderTypes ==
  /\ strict \in BOOLEAN /\ race \in BOOLEAN
  /\ sinks \in [Sink -> BOOLEAN]
  /\ at \in [LogThread -> 1 .. NSinks + 1]
  /\ out \in [Sink -> Seq(Msg)]
  /\ pushed \in Seq(Msg) /\ due \in Seq(Msg)

(* Until a race, one thread walks, and not while Init replaces the sinks.    *)
OneWalker ==
  ~race => \A t \in Walkers : opc # "init_sinks" /\ \A u \in Walkers : u = t

(* A message that passes the filter and is on its way was the last due.      *)
Carried ==
  ~race => \A t \in Walkers :
             /\ ret[t] \in Msg
             /\ Passes(ret[t]) => \E f \in Seq(Msg) : due = Append(f, ret[t])

(* Once Init has gone through, the console sinks stay open.                  *)
Opened ==
  (opc = "init_thread" \/ (Created # {} /\ opc # "init_sinks")) =>
    \A s \in Sink \ FileSinks : sinks[s]

(* What was pushed is what was popped and what is queued.                    *)
Popped ==
  \E p \in Seq(Msg) : pushed = p \o queue_ /\ (~race => Part(due, p))

(* What each sink has written, of the messages that have come to it.         *)
Wrote(s) == IF s \in FileSinks THEN Part(out[s], Arrived(s)) ELSE out[s] = Arrived(s)

OrderInv ==
  /\ OrderTypes /\ OneWalker /\ Carried /\ Opened /\ Popped
  /\ ~race => \A s \in Sink : Wrote(s)

(* Nothing changes for the sinks while the walk stands still.                *)
LEMMA SameWalk ==
  ASSUME Walkers' = Walkers, UNCHANGED <<at, strict, due, out>>,
         \A t \in Walkers : ret'[t] = ret[t], NEW s \in Sink
  PROVE  Wrote(s)' <=> Wrote(s)
<1>1. Arrived(s)' = Arrived(s)
  BY DEF Arrived, Passes
<1> QED
  BY <1>1 DEF Wrote

(* Steps that write, take and filter nothing keep the order.                 *)
LEMMA QuietKeepsOrder ==
  ASSUME OrderInv, ~race, UNCHANGED <<strict, at, out, pushed, queue_, due, race>>,
         sinks' \in [Sink -> BOOLEAN],
         Walkers' = Walkers, \A t \in Walkers : ret'[t] = ret[t],
         Walkers # {} => opc' # "init_sinks", Opened'
  PROVE  OrderInv'
<1>1. \A s \in Sink : Wrote(s)'
  BY SameWalk DEF OrderInv
<1>2. OrderTypes' /\ OneWalker' /\ Popped'
  BY DEF OrderInv, OrderTypes, OneWalker, Popped
<1>3. Carried'
  BY DEF OrderInv, Carried, Passes
<1> QED
  BY <1>1, <1>2, <1>3 DEF OrderInv

(* LogIt adds a message at both ends.                                       *)
LEMMA LogItKeepsOrder ==
  ASSUME OrderInv, P!TypeOK, ~race, NEW c \in Client, NEW m \in Msg, LogIt(c, m)
  PROVE  OrderInv'
<1>1. /\ UNCHANGED <<strict, sinks, opc, tpc, at, out, due, race, ret>>
      /\ pushed' = Append(pushed, m) /\ queue_' = Append(queue_, m)
  BY DEF LogIt, Q!Push
<1>2. Walkers' = Walkers /\ Created' = Created
  BY <1>1 DEF Walkers, Created
<1>3. \A s \in Sink : Wrote(s)'
  BY <1>1, <1>2, SameWalk DEF OrderInv
<1>4. OrderTypes'
  BY <1>1 DEF OrderInv, OrderTypes
<1>5. OneWalker' /\ Opened'
  BY <1>1, <1>2 DEF OrderInv, OneWalker, Opened
<1>6. Carried'
  BY <1>1, <1>2 DEF OrderInv, Carried, Passes
<1>7. Popped'
  <2>1. PICK p \in Seq(Msg) : pushed = p \o queue_ /\ Part(due, p)
    BY DEF OrderInv, Popped
  <2>2. queue_ \in Seq(Msg)
    BY DEF P!TypeOK
  <2>3. Append(p \o queue_, m) = p \o Append(queue_, m)
    BY <2>2
  <2> QED
    BY <1>1, <2>1, <2>3 DEF Popped
<1> QED
  BY <1>3, <1>4, <1>5, <1>6, <1>7 DEF OrderInv

(* Init and Uninit keep the order: an Init that meets a walk is a race, and  *)
(* nothing but Init closes a console sink (logger.cpp 26-53).               *)
LEMMA OwnerKeepsOrder ==
  ASSUME OrderInv, SilentInv, ~race,
         OwnerStep \/ UninitStop \/ \E l \in BOOLEAN : InitAssign(l)
  PROVE  OrderInv'
<1> USE LoggerAssumption
<1>1. CASE \E l \in BOOLEAN : InitAssign(l)
  <2>1. /\ UNCHANGED <<tpc, at, out, pushed, queue_, due, ret>>
        /\ strict' \in BOOLEAN /\ sinks' \in [Sink -> BOOLEAN]
        /\ opc' = "init_sinks" /\ race' = (Walkers # {})
    BY <1>1 DEF InitAssign, queuev
  <2>2. Walkers' = Walkers
    BY <2>1 DEF Walkers
  <2>3. OrderTypes' /\ Opened'
    BY <2>1 DEF OrderInv, OrderTypes, Opened
  <2>4. Popped'
    BY <2>1 DEF OrderInv, Popped
  <2>5. OneWalker' /\ Carried'
    BY <2>1, <2>2 DEF OneWalker, Carried
  <2>6. ~race' => \A s \in Sink : Wrote(s)'
    <3> SUFFICES ASSUME Walkers = {}, NEW s \in Sink PROVE Wrote(s)'
      BY <2>1
    <3>1. Arrived(s) = due /\ Arrived(s)' = due
      BY <2>1, <2>2 DEF Arrived
    <3>2. Wrote(s)
      BY DEF OrderInv
    <3> QED
      BY <2>1, <3>1, <3>2 DEF Wrote
  <2> QED
    BY <2>3, <2>4, <2>5, <2>6 DEF OrderInv
<1>2. CASE \E failed \in SUBSET FileSinks : InitSinks(failed)
  <2>1. /\ UNCHANGED <<strict, tpc, at, out, pushed, queue_, due, race, ret>>
        /\ sinks' \in [Sink -> BOOLEAN] /\ \A s \in Sink \ FileSinks : sinks'[s]
        /\ opc' # "init_sinks"
    BY <1>2 DEF InitSinks, queuev
  <2>2. Walkers' = Walkers
    BY <2>1 DEF Walkers
  <2>3. Opened'
    BY <2>1 DEF Opened
  <2> QED
    BY <2>1, <2>2, <2>3, QuietKeepsOrder
<1>3. CASE InitThread
  <2>1. /\ UNCHANGED <<strict, sinks, at, out, pushed, queue_, due, race, ret>>
        /\ opc = "init_thread" /\ opc' # "init_sinks"
        /\ tpc' = [tpc EXCEPT ![Cardinality(Created) + 1] = "loop"]
    BY <1>3 DEF InitThread, queuev
  <2>2. PICK k : k = Cardinality(Created) + 1
    OBVIOUS
  <2>3. k \in LogThread => tpc[k] = "none"
    <3>1. Cardinality(Created) + 1 \notin Created
      BY DEF SilentInv, Numbered
    <3> QED
      BY <2>2, <3>1 DEF Created
  <2>4. tpc' = [tpc EXCEPT ![k] = "loop"]
    BY <2>1, <2>2
  <2>5. Walkers' = Walkers
    BY <2>3, <2>4 DEF Walkers, SilentInv, ThreadTypes
  <2>6. Opened'
    BY <2>1 DEF OrderInv, Opened
  <2> QED
    BY <2>1, <2>5, <2>6, QuietKeepsOrder DEF OrderInv, OrderTypes
<1>4. CASE InitJoin \/ UninitNotify \/ UninitRequest \/ UninitStop
  <2>1. /\ UNCHANGED <<strict, sinks, tpc, at, out, pushed, queue_, due, race, ret>>
        /\ opc \notin {"init_sinks", "init_thread"} /\ opc' \notin {"init_sinks", "init_thread"}
    BY <1>4 DEF InitJoin, UninitNotify, UninitRequest, UninitStop, queuev, Q!StopNotify, Q!StopRequest
  <2>2. Walkers' = Walkers /\ Created' = Created
    BY <2>1 DEF Walkers, Created
  <2>3. Opened'
    BY <2>1, <2>2 DEF OrderInv, Opened
  <2> QED
    BY <2>1, <2>2, <2>3, QuietKeepsOrder DEF OrderInv, OrderTypes
<1>5. CASE UninitJoin
  <2>1. /\ UNCHANGED <<strict, tpc, at, out, pushed, queue_, due, race, ret>>
        /\ sinks' = [s \in Sink |-> sinks[s] /\ s \notin FileSinks]
        /\ opc = "un_join" /\ opc' = "idle"
    BY <1>5 DEF UninitJoin, queuev
  <2>2. Walkers' = Walkers /\ Created' = Created
    BY <2>1 DEF Walkers, Created
  <2>3. sinks' \in [Sink -> BOOLEAN]
    BY <2>1
  <2>4. Opened'
    BY <2>1, <2>2 DEF OrderInv, Opened
  <2> QED
    BY <2>1, <2>2, <2>3, <2>4, QuietKeepsOrder
<1> QED
  BY <1>1, <1>2, <1>3, <1>4, <1>5 DEF OwnerStep

(* A thread that pops takes the front to the sinks: nobody else is walking   *)
(* them, or it is a race (logger.cpp 37-42, sync_queue.h 69-76).             *)
LEMMA PopReturnKeepsOrder ==
  ASSUME OrderInv, SilentInv, P!TypeOK, P!PopFindsItem, ~race, NEW t \in LogThread, PopReturn(t)
  PROVE  OrderInv'
<1> USE LoggerAssumption
<1>1. tpc[t] = "pop" /\ pc[t] = "take"
  BY DEF PopReturn, Q!PopTake, SilentInv, Inside
<1>2. stop_source_ \/ queue_ # <<>>
  BY <1>1 DEF P!PopFindsItem, P!Predicate
<1>3. UNCHANGED <<strict, sinks, opc, out, pushed>> /\ t \notin Walkers
  BY <1>1 DEF PopReturn, Walkers
<1>4. CASE stop_source_
  <2>1. ret' = [ret EXCEPT ![t] = nil] /\ queue_' = queue_
    BY <1>4 DEF PopReturn, Q!PopTake
  <2>2. ret'[t] = nil /\ \A u \in LogThread \ {t} : ret'[u] = ret[u]
    BY <2>1 DEF P!TypeOK
  <2>3. tpc' = [tpc EXCEPT ![t] = "loop"] /\ UNCHANGED <<at, due, race>>
    BY <2>2 DEF PopReturn
  <2>4. Walkers' = Walkers /\ Created' = Created
    BY <1>1, <2>3 DEF Walkers, Created, SilentInv, ThreadTypes
  <2>5. \A u \in Walkers : ret'[u] = ret[u]
    BY <1>3, <2>2 DEF Walkers
  <2>6. Opened'
    BY <1>3, <2>4 DEF OrderInv, Opened
  <2>7. Walkers # {} => opc' # "init_sinks"
    BY <1>3 DEF OrderInv, OneWalker
  <2> QED
    BY <1>3, <2>1, <2>3, <2>4, <2>5, <2>6, <2>7, QuietKeepsOrder DEF OrderInv, OrderTypes
<1>5. CASE ~stop_source_
  <2>1. PICK m \in Msg : m = Head(queue_)
    BY <1>2, <1>5 DEF P!TypeOK
  <2>2. ret' = [ret EXCEPT ![t] = m] /\ queue_' = Tail(queue_) /\ queue_ # <<>>
    BY <1>2, <1>5, <2>1 DEF PopReturn, Q!PopTake
  <2>3. ret'[t] = m
    BY <2>2 DEF P!TypeOK
  <2>4. /\ tpc' = [tpc EXCEPT ![t] = "walk"]
        /\ at' = [at EXCEPT ![t] = 1]
        /\ due' = IF Passes(m) THEN Append(due, m) ELSE due
        /\ race' = (opc = "init_sinks" \/ Walkers # {})
    <3>1. m # nil
      OBVIOUS
    <3> QED
      BY <2>3, <3>1 DEF PopReturn
  <2>5. Walkers' = Walkers \cup {t} /\ Created' = Created
    BY <1>1, <2>4 DEF Walkers, Created, SilentInv, ThreadTypes
  <2>6. at'[t] = 1 /\ Passes(m)' = Passes(m)
    BY <1>3, <2>4 DEF OrderInv, OrderTypes, Passes
  <2>7. OrderTypes'
    <3>1. at' \in [LogThread -> 1 .. NSinks + 1]
      BY <2>4 DEF OrderInv, OrderTypes
    <3>2. due' \in Seq(Msg)
      BY <2>4 DEF OrderInv, OrderTypes
    <3> QED
      BY <1>3, <2>4, <3>1, <3>2 DEF OrderInv, OrderTypes
  <2>8. Opened'
    BY <1>3, <2>5 DEF OrderInv, Opened
  <2>9. Popped'
    <3>1. PICK p \in Seq(Msg) : pushed = p \o queue_ /\ Part(due, p)
      BY DEF OrderInv, Popped
    <3>2. queue_ \in Seq(Msg) /\ due \in Seq(Msg)
      BY DEF P!TypeOK, OrderInv, OrderTypes
    <3>3. Append(p, m) \in Seq(Msg) /\ p \o queue_ = Append(p, m) \o Tail(queue_)
      BY <2>1, <2>2, <3>2
    <3>4. Part(due', Append(p, m))
      BY <2>4, <3>1, <3>2, PartGrows, PartOfLonger
    <3> QED
      BY <1>3, <2>2, <3>1, <3>3, <3>4 DEF Popped
  <2>10. CASE race'
    BY <2>7, <2>8, <2>9, <2>10 DEF OrderInv, OneWalker, Carried
  <2>11. CASE ~race'
    <3>1. opc # "init_sinks" /\ Walkers = {}
      BY <2>4, <2>11
    <3>2. Walkers' = {t}
      BY <2>5, <3>1
    <3>3. OneWalker'
      BY <1>3, <3>1, <3>2 DEF OneWalker
    <3>4. Carried'
      BY <2>3, <2>4, <2>6, <3>2 DEF Carried, OrderInv, OrderTypes
    <3>5. ASSUME NEW s \in Sink PROVE Wrote(s)'
      <4>1. Arrived(s) = due /\ Wrote(s)
        BY <3>1 DEF Arrived, OrderInv
      <4>2. s \in Nat /\ at'[t] <= s
        BY <2>6 DEF Sink
      <4>3. Arrived(s)' = IF Passes(m) THEN SubSeq(due', 1, Len(due') - 1) ELSE due'
        BY <2>3, <2>6, <3>2, <4>2 DEF Arrived
      <4>4. due \in Seq(Msg)
        BY DEF OrderInv, OrderTypes
      <4>5. SubSeq(Append(due, m), 1, Len(Append(due, m)) - 1) = due
        BY <4>4
      <4>6. Arrived(s)' = due
        BY <2>4, <4>3, <4>5
      <4> QED
        BY <1>3, <4>1, <4>6 DEF Wrote
    <3> QED
      BY <2>7, <2>8, <2>9, <3>3, <3>4, <3>5 DEF OrderInv
  <2> QED
    BY <2>10, <2>11
<1> QED
  BY <1>4, <1>5

(* A sink that is open writes the message that has come to it; one that is   *)
(* not is a file sink (logger.cpp 40-42).                                   *)
LEMMA SinkLogKeepsOrder ==
  ASSUME OrderInv, SilentInv, ~race, NEW t \in LogThread, NEW closes \in BOOLEAN, SinkLog(t, closes)
  PROVE  OrderInv'
<1> USE LoggerAssumption
<1>1. PICK s \in Sink : s = at[t]
  BY DEF SinkLog
<1>2. PICK m \in Msg : m = ret[t]
  BY DEF SinkLog, OrderInv, Carried, Walkers
<1>3. /\ UNCHANGED <<strict, opc, tpc, pushed, queue_, due, race, ret>>
      /\ at' = [at EXCEPT ![t] = s + 1]
      /\ IF sinks[s] /\ Passes(m)
         THEN /\ out' = [out EXCEPT ![s] = Append(@, m)]
              /\ sinks' = [sinks EXCEPT ![s] = ~(closes /\ s \in FileSinks)]
         ELSE UNCHANGED <<out, sinks>>
  BY <1>1, <1>2 DEF SinkLog, queuev
<1>4. /\ Walkers = {t} /\ Walkers' = {t} /\ Created' = Created
      /\ opc # "init_sinks" /\ t \in Created
  BY <1>3 DEF SinkLog, Walkers, Created, OrderInv, OneWalker
<1>5. /\ at'[t] = s + 1 /\ s \in Nat
      /\ at' \in [LogThread -> 1 .. NSinks + 1]
  BY <1>3 DEF OrderInv, OrderTypes, Sink
<1>6. /\ out' \in [Sink -> Seq(Msg)] /\ sinks' \in [Sink -> BOOLEAN]
      /\ \A r \in Sink \ {s} : out'[r] = out[r]
      /\ \A r \in Sink \ FileSinks : sinks[r] => sinks'[r]
      /\ out'[s] = IF sinks[s] /\ Passes(m) THEN Append(out[s], m) ELSE out[s]
  <2>1. sinks \in [Sink -> BOOLEAN] /\ out \in [Sink -> Seq(Msg)]
    BY DEF OrderInv, OrderTypes
  <2>2. CASE sinks[s] /\ Passes(m)
    <3>1. /\ out' = [out EXCEPT ![s] = Append(@, m)]
          /\ sinks' = [sinks EXCEPT ![s] = ~(closes /\ s \in FileSinks)]
      BY <1>3, <2>2
    <3>2. sinks' \in [Sink -> BOOLEAN] /\ \A r \in Sink \ FileSinks : sinks[r] => sinks'[r]
      BY <2>1, <3>1
    <3> QED
      BY <2>1, <2>2, <3>1, <3>2
  <2>3. CASE ~(sinks[s] /\ Passes(m))
    <3>1. out' = out /\ sinks' = sinks
      BY <1>3, <2>3
    <3> QED
      BY <2>1, <2>3, <3>1
  <2> QED
    BY <2>2, <2>3
<1>7. OrderTypes'
  BY <1>3, <1>5, <1>6 DEF OrderInv, OrderTypes
<1>8. Opened'
  BY <1>3, <1>4, <1>6 DEF OrderInv, Opened
<1>9. OneWalker' /\ Popped'
  BY <1>3, <1>4 DEF OrderInv, OneWalker, Popped
<1>10. Carried'
  BY <1>3, <1>4 DEF OrderInv, Carried, Passes
<1>11. ASSUME NEW r \in Sink PROVE Wrote(r)'
  <2>1. Wrote(r) /\ r \in Nat /\ due \in Seq(Msg) /\ out[r] \in Seq(Msg)
    BY DEF OrderInv, OrderTypes, Sink
  <2>2. Arrived(r) = IF s <= r /\ Passes(m) THEN SubSeq(due, 1, Len(due) - 1) ELSE due
    BY <1>1, <1>2, <1>4 DEF Arrived
  <2>3. Arrived(r)' = IF s + 1 <= r /\ Passes(m) THEN SubSeq(due, 1, Len(due) - 1) ELSE due
    BY <1>2, <1>3, <1>4, <1>5 DEF Arrived, Passes
  <2>4. CASE r # s
    <3>1. Arrived(r)' = Arrived(r)
      BY <1>5, <2>1, <2>2, <2>3, <2>4
    <3> QED
      BY <1>6, <2>1, <2>4, <3>1 DEF Wrote
  <2>5. CASE r = s /\ ~Passes(m)
    BY <1>6, <2>1, <2>2, <2>3, <2>5 DEF Wrote
  <2>6. CASE r = s /\ Passes(m)
    <3>1. PICK f \in Seq(Msg) : due = Append(f, m)
      BY <1>2, <1>4, <2>6 DEF OrderInv, Carried
    <3>2. Arrived(r) = f /\ Arrived(r)' = Append(f, m)
      <4>1. SubSeq(Append(f, m), 1, Len(Append(f, m)) - 1) = f
        OBVIOUS
      <4>2. s <= r /\ ~(s + 1 <= r)
        BY <1>5, <2>6
      <4>3. Arrived(r) = SubSeq(due, 1, Len(due) - 1) /\ Arrived(r)' = due
        BY ONLY <2>2, <2>3, <2>6, <4>2
      <4> QED
        BY <3>1, <4>1, <4>3
    <3>3. CASE sinks[s]
      <4>1. out'[r] = Append(out[r], m)
        BY <1>6, <2>6, <3>3
      <4>2. CASE r \in FileSinks
        BY <2>1, <3>2, <4>1, <4>2, PartGrows DEF Wrote
      <4>3. CASE r \notin FileSinks
        BY <2>1, <3>2, <4>1, <4>3 DEF Wrote
      <4> QED
        BY <4>2, <4>3
    <3>4. CASE ~sinks[s]
      <4>1. s \in FileSinks
        BY <1>4, <3>4 DEF OrderInv, Opened
      <4> QED
        BY <1>6, <2>1, <2>6, <3>2, <3>4, <4>1, PartOfLonger DEF Wrote
    <3> QED
      BY <3>3, <3>4
  <2> QED
    BY <2>4, <2>5, <2>6
<1> QED
  BY <1>7, <1>8, <1>9, <1>10, <1>11 DEF OrderInv

(* A walk ends behind the last sink, with nothing on its way any more.       *)
LEMMA WalkEndKeepsOrder ==
  ASSUME OrderInv, SilentInv, ~race, NEW t \in LogThread, WalkEnd(t)
  PROVE  OrderInv'
<1> USE LoggerAssumption
<1>1. /\ UNCHANGED <<strict, sinks, opc, pushed, queue_, due, race, ret, at, out>>
      /\ tpc' = [tpc EXCEPT ![t] = "loop"] /\ tpc[t] = "walk" /\ at[t] > NSinks
  BY DEF WalkEnd, queuev
<1>2. Walkers = {t} /\ Walkers' = {} /\ Created' = Created
  BY <1>1 DEF Walkers, Created, OrderInv, OneWalker, SilentInv, ThreadTypes
<1>3. OrderTypes' /\ Popped'
  BY <1>1 DEF OrderInv, OrderTypes, Popped
<1>4. Opened' /\ OneWalker' /\ Carried'
  BY <1>1, <1>2 DEF OrderInv, Opened, OneWalker, Carried
<1>5. ASSUME NEW s \in Sink PROVE Wrote(s)'
  <2>1. s \in 1 .. NSinks /\ at[t] \in Nat /\ Wrote(s)
    BY DEF Sink, OrderInv, OrderTypes
  <2>2. ~(at[t] <= s)
    BY <1>1, <2>1
  <2>3. Arrived(s) = due /\ Arrived(s)' = due
    BY <1>1, <1>2, <2>2 DEF Arrived
  <2> QED
    BY <1>1, <2>1, <2>3 DEF Wrote
<1> QED
  BY <1>3, <1>4, <1>5 DEF OrderInv

(* The other steps of a log thread move it towards its Pop.                  *)
LEMMA LoopKeepsOrder ==
  ASSUME OrderInv, SilentInv, ~race, NEW t \in LogThread,
         LoopTest(t) \/ PopWait(t) \/ SpuriousWake(t)
  PROVE  OrderInv'
<1>1. UNCHANGED <<strict, sinks, opc, pushed, queue_, due, race, ret, at, out>>
  BY DEF LoopTest, PopWait, SpuriousWake, queuev, Q!PopCall, Q!PopTest, Q!PopSleep, Q!SpuriousWake
<1>2. \/ tpc' = tpc
      \/ tpc[t] = "loop" /\ \E w \in {"done", "pop"} : tpc' = [tpc EXCEPT ![t] = w]
  BY DEF LoopTest, PopWait, SpuriousWake
<1>3. Walkers' = Walkers /\ Created' = Created
  BY <1>2 DEF Walkers, Created, SilentInv, ThreadTypes
<1>4. Opened' /\ (Walkers # {} => opc' # "init_sinks")
  BY <1>1, <1>3 DEF OrderInv, Opened, OneWalker
<1> QED
  BY <1>1, <1>3, <1>4, QuietKeepsOrder DEF OrderInv, OrderTypes

(* OrderInv is an invariant.                                                *)
LEMMA OrderInvariant == Spec => []OrderInv
<1>1. Init => OrderInv
  <2> SUFFICES ASSUME Init PROVE OrderInv
    OBVIOUS
  <2>1. /\ Walkers = {} /\ Created = {} /\ opc = "idle" /\ race = FALSE /\ strict = FALSE
        /\ due = <<>> /\ pushed = <<>> /\ queue_ = <<>> /\ out = [s \in Sink |-> <<>>]
        /\ sinks = [s \in Sink |-> FALSE] /\ at = [t \in LogThread |-> 1]
    BY DEF Init, Q!Init, Walkers, Created
  <2>2. <<>> \in Seq(Msg) /\ <<>> = <<>> \o <<>>
    OBVIOUS
  <2>3. Part(<<>>, <<>>)
    BY <2>2, PartEmpty
  <2>4. OrderTypes
    <3>1. NSinks \in Nat /\ 1 \in 1 .. NSinks + 1
      BY LoggerAssumption
    <3>2. strict \in BOOLEAN /\ race \in BOOLEAN /\ sinks \in [Sink -> BOOLEAN]
      BY <2>1
    <3>3. at \in [LogThread -> 1 .. NSinks + 1]
      BY <2>1, <3>1
    <3>4. out \in [Sink -> Seq(Msg)] /\ pushed \in Seq(Msg) /\ due \in Seq(Msg)
      BY <2>1, <2>2
    <3> QED
      BY <3>2, <3>3, <3>4 DEF OrderTypes
  <2>5. Popped
    BY <2>1, <2>2, <2>3 DEF Popped
  <2>6. ASSUME NEW s \in Sink PROVE Wrote(s)
    <3>1. Arrived(s) = <<>> /\ out[s] = <<>>
      BY <2>1 DEF Arrived
    <3> QED
      BY <2>3, <3>1 DEF Wrote
  <2> QED
    BY <2>1, <2>4, <2>5, <2>6 DEF OrderInv, OneWalker, Carried, Opened
<1>2. OrderInv /\ SilentInv /\ P!TypeOK /\ P!PopFindsItem /\ [Next]_vars => OrderInv'
  <2> SUFFICES ASSUME OrderInv, SilentInv, P!TypeOK, P!PopFindsItem, [Next]_vars PROVE OrderInv'
    OBVIOUS
  <2>1. CASE UNCHANGED vars
    BY <2>1 DEF vars, queuev, OrderInv, OrderTypes, OneWalker, Carried, Opened, Popped, Wrote,
                Arrived, Passes, Walkers, Created
  <2>2. CASE Next
    <3>1. ~race
      BY <2>2 DEF Next
    <3>2. ASSUME NEW t \in LogThread, ThreadStep(t) \/ SpuriousWake(t) PROVE OrderInv'
      BY <3>1, <3>2, PopReturnKeepsOrder, SinkLogKeepsOrder, WalkEndKeepsOrder, LoopKeepsOrder
         DEF ThreadStep
    <3> QED
      BY <2>2, <3>1, <3>2, LogItKeepsOrder, OwnerKeepsOrder DEF Next
  <2> QED
    BY <2>1, <2>2
<1> QED
  BY <1>1, <1>2, SilentInvariant, QueueTypes, PopFinds, PTL DEF Spec

(* For any number of clients, messages, sinks and calls of Init, and until a *)
(* race: messages are logged in the order of LogIt, every console sink       *)
(* writes all that were due, whatever the file sinks do, and each file sink   *)
(* a part of them (logger.cpp 36-43, 55-57).                                *)
THEOREM AllInOrder == Spec => []LoggedInOrder
<1>1. OrderInv /\ P!TypeOK => LoggedInOrder
  <2> SUFFICES ASSUME OrderInv, P!TypeOK, ~race PROVE LoggedInOrder
    BY DEF LoggedInOrder
  <2>1. PICK p \in Seq(Msg) : pushed = p \o queue_ /\ Part(due, p)
    BY DEF OrderInv, Popped
  <2>2. queue_ \in Seq(Msg)
    BY DEF P!TypeOK
  <2>3. SubSeq(p \o queue_, 1, Len(p \o queue_) - Len(queue_)) = p
    <3>1. Len(p \o queue_) - Len(queue_) = Len(p)
      BY <2>2
    <3>2. SubSeq(p \o queue_, 1, Len(p)) = p
      BY <2>2
    <3> QED
      BY <3>1, <3>2
  <2>4. SubSeq(pushed, 1, Len(pushed) - Len(queue_)) = p
    BY <2>1, <2>3
  <2>5. \A s \in Sink : Wrote(s)
    BY DEF OrderInv
  <2> QED
    BY <2>1, <2>4, <2>5 DEF LoggedInOrder, Wrote
<1> QED
  BY <1>1, OrderInvariant, QueueTypes, PTL

-----------------------------------------------------------------------------
(* The types of the calling thread and of the stop tokens.                   *)
OwnerTypes ==
  /\ opc \in {"idle", "init_sinks", "init_thread", "init_join",
              "un_notify", "un_request", "un_join"}
  /\ token \in [LogThread -> BOOLEAN]

(* Logger: every variable of the logger keeps its type, with Init and Uninit  *)
(* called in any order while clients log; no log thread gets past the end of   *)
(* the vector of sinks (logger.cpp 13-57).                                   *)
THEOREM LoggerTypeCorrect == Spec => []TypeOK
<1>1. Init => OwnerTypes
  BY DEF Init, OwnerTypes
<1>2. OwnerTypes /\ [Next]_vars => OwnerTypes'
  <2> SUFFICES ASSUME OwnerTypes, [Next]_vars PROVE OwnerTypes'
    OBVIOUS
  <2>1. CASE UNCHANGED vars
    BY <2>1 DEF vars, OwnerTypes
  <2>2. ASSUME NEW t \in LogThread, ThreadStep(t) \/ SpuriousWake(t) PROVE OwnerTypes'
    BY <2>2 DEF OwnerTypes, ThreadStep, SpuriousWake, LoopTest, PopWait, PopReturn, WalkEnd, SinkLog
  <2>3. ASSUME NEW c \in Client, NEW m \in Msg, LogIt(c, m) PROVE OwnerTypes'
    BY <2>3 DEF OwnerTypes, LogIt
  <2>4. ASSUME OwnerStep \/ UninitStop \/ \E l \in BOOLEAN : InitAssign(l) PROVE OwnerTypes'
    <3>1. token' = token \/ token' = [token EXCEPT ![thread] = TRUE]
      BY <2>4 DEF OwnerStep, UninitStop, InitAssign, InitSinks, InitThread, InitJoin, UninitNotify,
         UninitRequest, UninitJoin
    <3>2. token' \in [LogThread -> BOOLEAN]
      BY <3>1 DEF OwnerTypes
    <3> QED
      BY <2>4, <3>2 DEF OwnerTypes, OwnerStep, UninitStop, InitAssign, InitSinks, InitThread, InitJoin,
         UninitNotify, UninitRequest, UninitJoin
  <2> QED
    BY <2>1, <2>2, <2>3, <2>4 DEF Next
<1>3. OwnerTypes /\ OrderInv /\ SilentInv /\ P!TypeOK => TypeOK
  <2>1. P!TypeOK => Q!TypeOK
    BY DEF P!TypeOK, Q!TypeOK, P!PC, Q!PC
  <2> QED
    BY <2>1 DEF OwnerTypes, OrderInv, OrderTypes, SilentInv, ThreadTypes, TypeOK
<1> QED
  BY <1>1, <1>2, <1>3, OrderInvariant, SilentInvariant, QueueTypes, PTL DEF Spec
=============================================================================
