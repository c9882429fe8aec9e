------------------------------- MODULE Logger -------------------------------
(***************************************************************************)
(* ema::log::Logger (src/logger/logger.cpp): LogIt pushes messages into a    *)
(* SyncQueue; the thread that Init starts pops them and hands each to every  *)
(* sink in turn; Uninit stops the queue, joins the thread and closes the     *)
(* sinks.                                                                   *)
(*                                                                         *)
(* The queue is module SyncQueue itself: its variables are variables of this *)
(* module, and every access is one of its actions.  Nothing prevents a       *)
(* second Init while a thread runs; unsynchronised accesses to _sinks, or to *)
(* one sink from two threads, are undefined and set `race', which ends the   *)
(* behaviour.                                                               *)
(***************************************************************************)
EXTENDS Naturals, Sequences, FiniteSets

CONSTANTS
  Client,     \* threads that call LogIt
  owner,      \* the thread that calls Init and Uninit
  Msg,        \* messages, each logged at most once
  Fine,       \* the messages below the level of a strict logger
  NSinks,     \* length of the vector of sinks
  FileSinks,  \* positions of file sinks in it; the others are console sinks
  MaxInits,   \* model bound: calls of Init
  nil

ASSUME LoggerAssumption ==
  /\ IsFiniteSet(Client) /\ owner \notin Client
  /\ Fine \subseteq Msg /\ IsFiniteSet(Msg) /\ nil \notin Msg
  /\ NSinks \in Nat /\ FileSinks \subseteq 1 .. NSinks
  /\ MaxInits \in Nat /\ (Client \cup {owner, nil}) \cap (1 .. MaxInits) = {}
  /\ nil \notin Client \cup {owner}

VARIABLES
  queue_, mutex_, stop_source_, cond, pc, ret, crashed,  \* _queue
  strict,     \* _lvl: messages in Fine are filtered
  sinks,      \* _sinks: is each open
  thread,     \* _thread: the log thread it holds, 0 when it is not joinable
  opc,        \* where the owner is
  tpc,        \* where each log thread is
  token,      \* stop_requested() of each log thread's token
  at,         \* the position of each log thread in _sinks
  out,        \* what each sink has written
  pushed,     \* the messages in the order of LogIt
  due,        \* the messages popped and not filtered, in the order of Pop
  race        \* undefined behaviour has happened

LogThread == 1 .. MaxInits
Sink == 1 .. NSinks

Q == INSTANCE SyncQueue WITH
  Thread <- Client \cup {owner} \cup LogThread, Consumer <- LogThread, CondConsumer <- {},
  Value <- Msg, nullopt <- nil, NoThread <- nil, MaxLen <- Cardinality(Msg)

queuev == <<queue_, mutex_, stop_source_, cond, pc, ret, crashed>>
vars == <<queuev, strict, sinks, thread, opc, tpc, token, at, out, pushed, due, race>>

Init ==
  /\ Q!Init
  /\ strict = FALSE
  /\ sinks = [s \in Sink |-> FALSE]
  /\ thread = 0
  /\ opc = "idle"
  /\ tpc = [t \in LogThread |-> "none"]
  /\ token = [t \in LogThread |-> FALSE]
  /\ at = [t \in LogThread |-> 1]
  /\ out = [s \in Sink |-> <<>>]
  /\ pushed = <<>> /\ due = <<>>
  /\ race = FALSE

Walkers == {t \in LogThread : tpc[t] = "walk"}
Created == {t \in LogThread : tpc[t] # "none"}

-----------------------------------------------------------------------------
LogIt(c, m) ==
  /\ m \notin {pushed[i] : i \in 1 .. Len(pushed)}
  /\ Q!Push(c, m)
  /\ pushed' = Append(pushed, m)
  /\ UNCHANGED <<strict, sinks, thread, opc, tpc, token, at, out, due, race>>

(* Init: the vector and the level are replaced, whatever a log thread does.  *)
InitAssign(l) ==
  /\ opc = "idle"
  /\ Cardinality(Created) < MaxInits
  /\ strict' = l
  /\ sinks' = [s \in Sink |-> FALSE]
  /\ race' = (Walkers # {})
  /\ opc' = "init_sinks"
  /\ UNCHANGED <<queuev, thread, tpc, token, at, out, pushed, due>>

(* Every sink is initialised, also after one of them has failed; a failure   *)
(* leaves the others open and starts no thread.                             *)
InitSinks(failed) ==
  /\ opc = "init_sinks"
  /\ sinks' = [s \in Sink |-> s \notin failed]
  /\ opc' = IF failed = {} THEN "init_thread" ELSE "idle"
  /\ UNCHANGED <<queuev, strict, thread, tpc, token, at, out, pushed, due, race>>

(* The new thread runs before the assignment to _thread, which asks a        *)
(* thread that is still there to stop and joins it.                         *)
InitThread ==
  LET t == Cardinality(Created) + 1
  IN /\ opc = "init_thread"
     /\ tpc' = [tpc EXCEPT ![t] = "loop"]
     /\ IF thread = 0
        THEN /\ thread' = t
             /\ opc' = "idle"
             /\ UNCHANGED token
        ELSE /\ token' = [token EXCEPT ![thread] = TRUE]
             /\ opc' = "init_join"
             /\ UNCHANGED thread
     /\ UNCHANGED <<queuev, strict, sinks, at, out, pushed, due, race>>

InitJoin ==
  /\ opc = "init_join"
  /\ tpc[thread] = "done"
  /\ thread' = Cardinality(Created)
  /\ opc' = "idle"
  /\ UNCHANGED <<queuev, strict, sinks, tpc, token, at, out, pushed, due, race>>

(* Uninit: the queue's Stop in its two steps, request_stop, join.  Without a *)
(* thread join throws, and the sinks stay as they are.                      *)
UninitStop ==
  /\ opc = "idle"
  /\ Q!StopRequest(owner)
  /\ opc' = "un_notify"
  /\ UNCHANGED <<strict, sinks, thread, tpc, token, at, out, pushed, due, race>>

UninitNotify ==
  /\ opc = "un_notify"
  /\ Q!StopNotify(owner)
  /\ opc' = "un_request"
  /\ UNCHANGED <<strict, sinks, thread, tpc, token, at, out, pushed, due, race>>

(* Variant: join without request_stop.                                      *)
UninitForget ==
  /\ opc = "un_request"
  /\ opc' = IF thread = 0 THEN "idle" ELSE "un_join"
  /\ UNCHANGED <<queuev, strict, sinks, thread, tpc, token, at, out, pushed, due, race>>

UninitRequest ==
  /\ opc = "un_request"
  /\ IF thread = 0
     THEN opc' = "idle" /\ UNCHANGED token
     ELSE opc' = "un_join" /\ token' = [token EXCEPT ![thread] = TRUE]
  /\ UNCHANGED <<queuev, strict, sinks, thread, tpc, at, out, pushed, due, race>>

(* Variant: the thread is let go instead of joined.                         *)
UninitDetach ==
  /\ opc = "un_join"
  /\ thread' = 0
  /\ opc' = "idle"
  /\ UNCHANGED <<queuev, strict, sinks, tpc, token, at, out, pushed, due, race>>

UninitJoin ==
  /\ opc = "un_join"
  /\ tpc[thread] = "done"
  /\ thread' = 0
  /\ sinks' = [s \in Sink |-> sinks[s] /\ s \notin FileSinks]
  /\ opc' = "idle"
  /\ UNCHANGED <<queuev, strict, tpc, token, at, out, pushed, due, race>>

-----------------------------------------------------------------------------
(* The log thread: the test of the loop, then Pop.                          *)
LoopTest(t) ==
  /\ tpc[t] = "loop"
  /\ IF token[t]
     THEN tpc' = [tpc EXCEPT ![t] = "done"] /\ UNCHANGED queuev
     ELSE tpc' = [tpc EXCEPT ![t] = "pop"] /\ Q!PopCall(t)
  /\ UNCHANGED <<strict, sinks, thread, opc, token, at, out, pushed, due, race>>

PopWait(t) ==
  /\ Q!PopTest(t) \/ Q!PopSleep(t)
  /\ UNCHANGED <<strict, sinks, thread, opc, tpc, token, at, out, pushed, due, race>>

SpuriousWake(t) ==
  /\ Q!SpuriousWake(t)
  /\ UNCHANGED <<strict, sinks, thread, opc, tpc, token, at, out, pushed, due, race>>

Passes(m) == ~(strict /\ m \in Fine)

(* A popped message is taken to the sinks.  Walking them while Init replaces *)
(* them, or while another thread does, is a race; a walk that begins later   *)
(* reads the new vector and level.                                          *)
PopReturn(t) ==
  /\ Q!PopTake(t)
  /\ LET m == ret'[t]
     IN IF m = nil
        THEN /\ tpc' = [tpc EXCEPT ![t] = "loop"]
             /\ UNCHANGED <<at, due, race>>
        ELSE /\ tpc' = [tpc EXCEPT ![t] = "walk"]
             /\ at' = [at EXCEPT ![t] = 1]
             /\ due' = IF Passes(m) THEN Append(due, m) ELSE due
             /\ race' = (opc = "init_sinks" \/ Walkers # {})
  /\ UNCHANGED <<strict, sinks, thread, opc, token, out, pushed>>

(* Variant: the first sink that fails ends the walk.                        *)
SinkLogAbort(t, closes) ==
  LET s == at[t]
      m == ret[t]
      fails == ~sinks[s] \/ (closes /\ s \in FileSinks)
  IN /\ tpc[t] = "walk"
     /\ s \in Sink
     /\ out' = IF sinks[s] /\ Passes(m) THEN [out EXCEPT ![s] = Append(@, m)] ELSE out
     /\ sinks' = [sinks EXCEPT ![s] = ~fails]
     /\ at' = [at EXCEPT ![t] = IF fails THEN NSinks + 1 ELSE s + 1]
     /\ UNCHANGED <<queuev, strict, thread, opc, tpc, token, pushed, due, race>>

(* Log of one sink.  Its result is ignored.  A file sink that is not open    *)
(* drops the message; one whose rotation fails is left without an open file. *)
SinkLog(t, closes) ==
  LET s == at[t]
      m == ret[t]
  IN /\ tpc[t] = "walk"
     /\ s \in Sink
     /\ IF sinks[s] /\ Passes(m)
        THEN /\ out' = [out EXCEPT ![s] = Append(@, m)]
             /\ sinks' = [sinks EXCEPT ![s] = ~(closes /\ s \in FileSinks)]
        ELSE UNCHANGED <<out, sinks>>
     /\ at' = [at EXCEPT ![t] = s + 1]
     /\ UNCHANGED <<queuev, strict, thread, opc, tpc, token, pushed, due, race>>

WalkEnd(t) ==
  /\ tpc[t] = "walk"
  /\ at[t] > NSinks
  /\ tpc' = [tpc EXCEPT ![t] = "loop"]
  /\ UNCHANGED <<queuev, strict, sinks, thread, opc, token, at, out, pushed, due, race>>

-----------------------------------------------------------------------------
OwnerStep ==
  \/ \E failed \in SUBSET FileSinks : InitSinks(failed)
  \/ InitThread \/ InitJoin \/ UninitNotify \/ UninitRequest \/ UninitJoin

ThreadStep(t) ==
  \/ LoopTest(t) \/ PopWait(t) \/ PopReturn(t) \/ WalkEnd(t)
  \/ \E closes \in BOOLEAN : SinkLog(t, closes)

Next ==
  /\ ~race /\ ~crashed
  /\ \/ \E c \in Client, m \in Msg : LogIt(c, m)
     \/ \E l \in BOOLEAN : InitAssign(l)
     \/ UninitStop
     \/ OwnerStep
     \/ \E t \in LogThread : ThreadStep(t) \/ SpuriousWake(t)

Spec == Init /\ [][Next]_vars

(***************************************************************************)
(* A thread that can move does move; nobody has to call anything, and       *)
(* spurious wake-ups come to an end.                                        *)
(***************************************************************************)
Fairness ==
  /\ WF_vars(~race /\ ~crashed /\ OwnerStep)
  /\ \A t \in LogThread : WF_vars(~race /\ ~crashed /\ ThreadStep(t))
  /\ <>[][\A t \in LogThread : ~SpuriousWake(t)]_vars

FairSpec == Spec /\ Fairness

-----------------------------------------------------------------------------
TypeOK ==
  /\ Q!TypeOK
  /\ strict \in BOOLEAN /\ race \in BOOLEAN
  /\ sinks \in [Sink -> BOOLEAN]
  /\ thread \in 0 .. MaxInits
  /\ opc \in {"idle", "init_sinks", "init_thread", "init_join",
              "un_notify", "un_request", "un_join"}
  /\ tpc \in [LogThread -> {"none", "loop", "pop", "walk", "done"}]
  /\ token \in [LogThread -> BOOLEAN]
  /\ at \in [LogThread -> 1 .. NSinks + 1]
  /\ out \in [Sink -> Seq(Msg)]
  /\ pushed \in Seq(Msg) /\ due \in Seq(Msg)

Elements(s) == {s[i] : i \in 1 .. Len(s)}

(* The messages that sink s should have written: those that were due, except *)
(* the one that is still on its way to s.                                   *)
Arrived(s) ==
  IF \E t \in Walkers : at[t] <= s /\ Passes(ret[t])
  THEN SubSeq(due, 1, Len(due) - 1)
  ELSE due

(* a is what is left of b when some elements are taken out.                 *)
Part(a, b) ==
  \E f \in [1 .. Len(a) -> 1 .. Len(b)] :
    /\ \A i, j \in 1 .. Len(a) : i < j => f[i] < f[j]
    /\ \A i \in 1 .. Len(a) : a[i] = b[f[i]]

(* Until a race, messages are logged in the order of LogIt, none twice and   *)
(* none out of nowhere: what is still queued is the end of what was pushed,  *)
(* what was due is a part of the rest in the same order, a console sink      *)
(* writes exactly what was due, whatever becomes of the other sinks, and a   *)
(* file sink a part of it (logger.cpp 36-43, 55-57; sync_queue.h 62-76).     *)
LoggedInOrder ==
  ~race =>
    LET popped == SubSeq(pushed, 1, Len(pushed) - Len(queue_))
    IN /\ pushed = popped \o queue_
       /\ Part(due, popped)
       /\ \A s \in Sink :
            IF s \in FileSinks THEN Part(out[s], Arrived(s)) ELSE out[s] = Arrived(s)

(* A call of Init or Uninit that does not come back waits in join for a      *)
(* thread that is asleep on the queue: in Uninit one that missed the         *)
(* notification of Stop, in a second Init one that nobody woke.  The only    *)
(* other way is a second Init on a stopped queue, on which the new thread    *)
(* spins and may keep the mutex from the old one (logger.cpp 36, 46-51;      *)
(* sync_queue.h 95-98).                                                     *)
Asleep == thread # 0 /\ opc \in {"init_join", "un_join"} /\ pc[thread] = "wait"
Spinning == opc = "init_join" /\ stop_source_

OnlySleepHolds == opc # "idle" ~> (opc = "idle" \/ Asleep \/ Spinning \/ race)

(* While a thread was started and nobody stops the queue, no message stays   *)
(* in it for ever (logger.cpp 36-43).                                       *)
MessagesLogged ==
  \A m \in Msg :
    (m \in Elements(queue_) /\ thread # 0) ~> (m \notin Elements(queue_) \/ stop_source_ \/ race)

(* Once Uninit has returned, no sink is written to any more, not even after  *)
(* another Init: the queue stays stopped (logger.cpp 36-38, 46-53;           *)
(* sync_queue.h 72).                                                        *)
SilentAfterUninit == [][stop_source_ /\ opc = "idle" => out' = out]_vars
=============================================================================
