------------------------------ MODULE EventBus ------------------------------
(***************************************************************************)
(* ema::EventBus and ema::EventHandler (include/event_bus/event_bus.h and   *)
(* event_handler.h).                                                        *)
(*                                                                         *)
(* Clients publish, subscribe handlers and register callbacks.  A handler   *)
(* owns a SyncQueue of events, a map from type names to callbacks guarded   *)
(* by its mutex, and a thread that pops events and calls the callback while *)
(* it holds that mutex.  Publish holds the mutex of the bus and takes the   *)
(* mutex and the queue of one handler after the other.  A callback may      *)
(* publish in its turn.  Each handler is started and stopped by one thread, *)
(* its owner.                                                              *)
(***************************************************************************)
EXTENDS Naturals, Sequences, FiniteSets

CONSTANTS
  Client,        \* threads that use the bus
  NHandlers,     \* the handlers are 1 .. NHandlers, in the order of std::set
  Msg,           \* the events, each published at most once
  Type,          \* type names
  TypeOf,        \* the type name an event is published under
  StringMsg,     \* the events published with Publish(type_name, any)
  Throwing,      \* the events whose callback throws
  Reply,         \* what the callback of an event publishes, or nil
  Kinds,         \* how callbacks are registered: "On", "OnType"
  Calls,         \* the other calls in use: "Unsubscribe", "Cancel", "Clear", "Stop"
  MaxStarts,     \* model bound: calls of Start per handler
  nil

Handler == 1 .. NHandlers
Thread == Client \cup Handler

ASSUME EventBusAssumption ==
  /\ NHandlers \in Nat
  /\ IsFiniteSet(Msg)
  /\ TypeOf \in [Msg -> Type]
  /\ StringMsg \subseteq Msg /\ Throwing \subseteq Msg
  /\ Reply \in [Msg -> Msg \cup {nil}]
  /\ Kinds \subseteq {"On", "OnType"}
  /\ Calls \subseteq {"Unsubscribe", "Cancel", "Clear", "Stop"}
  /\ MaxStarts \in Nat
  /\ nil \notin Msg \cup Thread \cup [msg : Msg, full : BOOLEAN]
  /\ Client \cap Handler = {}

VARIABLES
  bus_mutex,      \* the thread that holds the mutex of the bus, or nil
  handlers,       \* the subscribed handlers
  mutex,          \* who holds the mutex of each handler
  event_handles,  \* the kind of callback registered per handler and type
  events,         \* the queue of each handler: [msg, full]
  events_stop,    \* the stop source of that queue
  start, token,   \* _start and the stop token of the thread
  starts,         \* calls of Start so far
  hpc, cur,       \* where the thread is and the event it has popped
  opc,            \* where the owner is in Stop
  ppc, pmsg,      \* where a thread is in Publish, and with which event
  prest, pany,    \* the handlers still to visit; is the any still full?
  result,         \* what Publish has returned
  fate,           \* what has become of each event at each handler
  handled,        \* the events whose callback has been called, in order
  crashed         \* an exception has left a thread

busv == <<bus_mutex, handlers>>
queue == <<events, events_stop>>
thread == <<start, token, starts, hpc, cur, opc>>
publish == <<ppc, pmsg, prest, pany, result>>
trace == <<fate, handled>>
vars == <<busv, mutex, event_handles, queue, thread, publish, trace, crashed>>

(***************************************************************************)
(* The handler's thread: not started ("none"); at the loop condition        *)
(* ("loop"); in Pop ("pred", "sleep", "wait", "take"); with an event,       *)
(* about to take its own mutex ("lock"); in the callback ("call"), waiting  *)
(* for its Publish to return ("publish"), leaving it ("leave"); ended       *)
(* ("done").                                                               *)
(***************************************************************************)
HPC == {"none", "loop", "pred", "sleep", "wait", "take", "lock", "call", "publish",
        "leave", "done"}
OPC == {"idle", "source", "notify", "join", "clear"}
PPC == {"idle", "lock", "test", "deliver"}
Kind == {"none"} \cup Kinds
Event == [msg : Msg, full : BOOLEAN]

(* An event at a handler: not delivered, in its queue or hands ("queued"),   *)
(* its callback returned or threw, its any was empty ("empty"), or it was    *)
(* thrown away before a callback saw it ("dropped").                        *)
Fate == {"none", "queued", "handled", "threw", "empty", "dropped"}

TypeOK ==
  /\ bus_mutex \in Thread \cup {nil}
  /\ handlers \subseteq Handler
  /\ mutex \in [Handler -> Thread \cup {nil}]
  /\ event_handles \in [Handler -> [Type -> Kind]]
  /\ events \in [Handler -> Seq(Event)]
  /\ events_stop \in [Handler -> BOOLEAN]
  /\ start \in [Handler -> BOOLEAN]
  /\ token \in [Handler -> BOOLEAN]
  /\ starts \in [Handler -> 0 .. MaxStarts]
  /\ hpc \in [Handler -> HPC]
  /\ cur \in [Handler -> Event \cup {nil}]
  /\ opc \in [Handler -> OPC]
  /\ ppc \in [Thread -> PPC]
  /\ pmsg \in [Thread -> Msg \cup {nil}]
  /\ prest \in [Thread -> SUBSET Handler]
  /\ pany \in [Thread -> BOOLEAN]
  /\ result \in [Msg -> {"new", "busy", "true", "false", "threw"}]
  /\ fate \in [Handler -> [Msg -> Fate]]
  /\ handled \in [Handler -> Seq(Msg)]
  /\ crashed \in BOOLEAN

Init ==
  /\ bus_mutex = nil
  /\ handlers = {}
  /\ mutex = [h \in Handler |-> nil]
  /\ event_handles = [h \in Handler |-> [ty \in Type |-> "none"]]
  /\ events = [h \in Handler |-> <<>>]
  /\ events_stop = [h \in Handler |-> FALSE]
  /\ start = [h \in Handler |-> FALSE]
  /\ token = [h \in Handler |-> FALSE]
  /\ starts = [h \in Handler |-> 0]
  /\ hpc = [h \in Handler |-> "none"]
  /\ cur = [h \in Handler |-> nil]
  /\ opc = [h \in Handler |-> "idle"]
  /\ ppc = [x \in Thread |-> "idle"]
  /\ pmsg = [x \in Thread |-> nil]
  /\ prest = [x \in Thread |-> {}]
  /\ pany = [x \in Thread |-> TRUE]
  /\ result = [m \in Msg |-> "new"]
  /\ fate = [h \in Handler |-> [m \in Msg |-> "none"]]
  /\ handled = [h \in Handler |-> <<>>]
  /\ crashed = FALSE

-----------------------------------------------------------------------------
(* The mutex of the handler's queue is free: its thread is not inside Pop.   *)
QueueFree(h) == hpc[h] \notin {"sleep", "take"}

Queued(h) == {events[h][i].msg : i \in 1 .. Len(events[h])}

(* Clear of the queue: nobody will see these events.                        *)
DropAll(h) ==
  /\ QueueFree(h)
  /\ events' = [events EXCEPT ![h] = <<>>]
  /\ fate' = [fate EXCEPT ![h] = [m \in Msg |-> IF m \in Queued(h) THEN "dropped" ELSE @[m]]]

-----------------------------------------------------------------------------
(* Subscribing and registering, each one short critical section.            *)
Subscribe(h) ==
  /\ bus_mutex = nil
  /\ handlers' = handlers \cup {h}
  /\ UNCHANGED <<bus_mutex, mutex, event_handles, queue, thread, publish, trace, crashed>>

Unsubscribe(h) ==
  /\ "Unsubscribe" \in Calls
  /\ bus_mutex = nil
  /\ handlers' = handlers \ {h}
  /\ UNCHANGED <<bus_mutex, mutex, event_handles, queue, thread, publish, trace, crashed>>

(* On and OnType leave a callback that is there alone.                      *)
On(h, ty, kind) ==
  /\ mutex[h] = nil
  /\ event_handles[h][ty] = "none"
  /\ event_handles' = [event_handles EXCEPT ![h][ty] = kind]
  /\ UNCHANGED <<busv, mutex, queue, thread, publish, trace, crashed>>

Cancel(h, ty) ==
  /\ "Cancel" \in Calls
  /\ mutex[h] = nil
  /\ event_handles' = [event_handles EXCEPT ![h][ty] = "none"]
  /\ UNCHANGED <<busv, mutex, queue, thread, publish, trace, crashed>>

Clear(h) ==
  /\ "Clear" \in Calls
  /\ DropAll(h)
  /\ UNCHANGED <<busv, mutex, event_handles, events_stop, thread, publish, handled, crashed>>

-----------------------------------------------------------------------------
(* Publish, by a client or by a handler's thread inside a callback.         *)
Enter(x, m) ==
  /\ result[m] = "new"
  /\ result' = [result EXCEPT ![m] = "busy"]
  /\ ppc' = [ppc EXCEPT ![x] = "lock"]
  /\ pmsg' = [pmsg EXCEPT ![x] = m]
  /\ UNCHANGED <<prest, pany>>

PublishCall(x, m) ==
  /\ ppc[x] = "idle"
  /\ Enter(x, m)
  /\ UNCHANGED <<busv, mutex, event_handles, queue, thread, trace, crashed>>

(* Variant: Publish without the mutex of the bus.                           *)
PublishUnlocked(x) ==
  /\ ppc[x] = "lock"
  /\ bus_mutex' = x
  /\ prest' = [prest EXCEPT ![x] = handlers]
  /\ pany' = [pany EXCEPT ![x] = TRUE]
  /\ ppc' = [ppc EXCEPT ![x] = "test"]
  /\ UNCHANGED <<handlers, mutex, event_handles, queue, thread, pmsg, result, trace, crashed>>

PublishLock(x) ==
  /\ ppc[x] = "lock"
  /\ bus_mutex = nil
  /\ bus_mutex' = x
  /\ prest' = [prest EXCEPT ![x] = handlers]
  /\ pany' = [pany EXCEPT ![x] = TRUE]
  /\ ppc' = [ppc EXCEPT ![x] = "test"]
  /\ UNCHANGED <<handlers, mutex, event_handles, queue, thread, pmsg, result, trace, crashed>>

(* The loop visits the handlers in the order of the set.                    *)
First(x) == CHOOSE h \in prest[x] : \A g \in prest[x] : h <= g

(* _HasType: a short section of the handler's mutex.  A callback that        *)
(* publishes comes back to the mutex its own thread holds: undefined, the    *)
(* thread may get through (this step), stay blocked (not taking it), or the  *)
(* mutex throws (PublishThrow).                                             *)
PublishTest(x) ==
  /\ ppc[x] = "test"
  /\ prest[x] # {}
  /\ mutex[First(x)] \in {nil, x}
  /\ IF event_handles[First(x)][TypeOf[pmsg[x]]] # "none"
     THEN /\ ppc' = [ppc EXCEPT ![x] = "deliver"]
          /\ UNCHANGED prest
     ELSE /\ prest' = [prest EXCEPT ![x] = @ \ {First(x)}]
          /\ UNCHANGED ppc
  /\ UNCHANGED <<busv, mutex, event_handles, queue, thread, pmsg, pany, result, trace, crashed>>

(* Variant: nobody is woken.                                                *)
WakeNobody(h) == UNCHANGED hpc

(* notify_one on a queue with one consumer.                                 *)
Wake(h) == hpc' = [hpc EXCEPT ![h] = IF @ = "wait" THEN "pred" ELSE @]

(* _Deliver.  The typed overload copies the message into every event; the    *)
(* other moves its any into the first.                                      *)
PublishDeliver(x) ==
  LET h == First(x)
      m == pmsg[x]
  IN /\ ppc[x] = "deliver"
     /\ QueueFree(h)
     /\ events' = [events EXCEPT ![h] = Append(@, [msg |-> m, full |-> pany[x]])]
     /\ Wake(h)
     /\ pany' = [pany EXCEPT ![x] = m \notin StringMsg]
     /\ prest' = [prest EXCEPT ![x] = @ \ {h}]
     /\ ppc' = [ppc EXCEPT ![x] = "test"]
     /\ fate' = [fate EXCEPT ![h][m] = "queued"]
     /\ UNCHANGED <<busv, mutex, event_handles, events_stop, start, token, starts, cur, opc,
                    pmsg, result, handled, crashed>>

(* The result is whether some handler was given the event.                  *)
PublishReturn(x) ==
  /\ ppc[x] = "test"
  /\ prest[x] = {}
  /\ bus_mutex' = nil
  /\ result' = [result EXCEPT ![pmsg[x]] =
                  IF \E h \in Handler : fate[h][pmsg[x]] # "none" THEN "true" ELSE "false"]
  /\ ppc' = [ppc EXCEPT ![x] = "idle"]
  /\ pmsg' = [pmsg EXCEPT ![x] = nil]
  /\ hpc' = IF x \in Handler THEN [hpc EXCEPT ![x] = "leave"] ELSE hpc
  /\ UNCHANGED <<handlers, mutex, event_handles, queue, start, token, starts, cur, opc,
                 prest, pany, trace, crashed>>

-----------------------------------------------------------------------------
(* The owner.  Start makes a new thread with a new stop token; the queue     *)
(* keeps its stop source.                                                   *)
Start(h) ==
  /\ opc[h] = "idle"
  /\ ~start[h]
  /\ starts[h] < MaxStarts
  /\ starts' = [starts EXCEPT ![h] = @ + 1]
  /\ hpc' = [hpc EXCEPT ![h] = "loop"]
  /\ token' = [token EXCEPT ![h] = FALSE]
  /\ start' = [start EXCEPT ![h] = TRUE]
  /\ UNCHANGED <<busv, mutex, event_handles, queue, cur, opc, publish, trace, crashed>>

StopRequest(h) ==
  /\ "Stop" \in Calls
  /\ opc[h] = "idle"
  /\ start[h]
  /\ token' = [token EXCEPT ![h] = TRUE]
  /\ opc' = [opc EXCEPT ![h] = "source"]
  /\ UNCHANGED <<busv, mutex, event_handles, queue, start, starts, hpc, cur, publish, trace,
                 crashed>>

StopSource(h) ==
  /\ opc[h] = "source"
  /\ events_stop' = [events_stop EXCEPT ![h] = TRUE]
  /\ opc' = [opc EXCEPT ![h] = "notify"]
  /\ UNCHANGED <<busv, mutex, event_handles, events, start, token, starts, hpc, cur, publish,
                 trace, crashed>>

StopNotify(h) ==
  /\ opc[h] = "notify"
  /\ Wake(h)
  /\ opc' = [opc EXCEPT ![h] = "join"]
  /\ UNCHANGED <<busv, mutex, event_handles, queue, start, token, starts, cur, publish, trace,
                 crashed>>

StopJoin(h) ==
  /\ opc[h] = "join"
  /\ hpc[h] = "done"
  /\ opc' = [opc EXCEPT ![h] = "clear"]
  /\ UNCHANGED <<busv, mutex, event_handles, queue, start, token, starts, hpc, cur, publish,
                 trace, crashed>>

StopClear(h) ==
  /\ opc[h] = "clear"
  /\ DropAll(h)
  /\ start' = [start EXCEPT ![h] = FALSE]
  /\ opc' = [opc EXCEPT ![h] = "idle"]
  /\ UNCHANGED <<busv, mutex, event_handles, events_stop, token, starts, hpc, cur, publish,
                 handled, crashed>>

-----------------------------------------------------------------------------
(* The handler's thread.                                                   *)
Goto(h, where) == hpc' = [hpc EXCEPT ![h] = where]

HandlerLoop(h) ==
  /\ hpc[h] = "loop"
  /\ Goto(h, IF token[h] THEN "done" ELSE "pred")
  /\ UNCHANGED <<busv, mutex, event_handles, queue, start, token, starts, cur, opc, publish,
                 trace, crashed>>

(* Pop, without a condition of its own.                                     *)
PopTest(h) ==
  /\ hpc[h] = "pred"
  /\ Goto(h, IF events[h] # <<>> \/ events_stop[h] THEN "take" ELSE "sleep")
  /\ UNCHANGED <<busv, mutex, event_handles, queue, start, token, starts, cur, opc, publish,
                 trace, crashed>>

PopSleep(h) ==
  /\ hpc[h] = "sleep"
  /\ Goto(h, "wait")
  /\ UNCHANGED <<busv, mutex, event_handles, queue, start, token, starts, cur, opc, publish,
                 trace, crashed>>

SpuriousWake(h) ==
  /\ hpc[h] = "wait"
  /\ Goto(h, "pred")
  /\ UNCHANGED <<busv, mutex, event_handles, queue, start, token, starts, cur, opc, publish,
                 trace, crashed>>

(* Variant: the front is returned and left in the queue.                    *)
PopPeek(h) ==
  /\ hpc[h] = "take"
  /\ IF events_stop[h]
     THEN /\ Goto(h, "loop")
          /\ UNCHANGED cur
     ELSE /\ Goto(h, "lock")
          /\ cur' = [cur EXCEPT ![h] = Head(events[h])]
  /\ UNCHANGED <<busv, mutex, event_handles, queue, start, token, starts, opc, publish,
                 trace, crashed>>

(* Variant: a stopped queue still hands out what it holds.                  *)
PopStopped(h) ==
  /\ hpc[h] = "take"
  /\ IF events[h] = <<>>
     THEN /\ Goto(h, "loop")
          /\ UNCHANGED <<events, cur>>
     ELSE /\ Goto(h, "lock")
          /\ cur' = [cur EXCEPT ![h] = Head(events[h])]
          /\ events' = [events EXCEPT ![h] = Tail(@)]
  /\ UNCHANGED <<busv, mutex, event_handles, events_stop, start, token, starts, opc, publish,
                 trace, crashed>>

PopTake(h) ==
  /\ hpc[h] = "take"
  /\ IF events_stop[h]
     THEN /\ Goto(h, "loop")
          /\ UNCHANGED <<events, cur>>
     ELSE /\ Goto(h, "lock")
          /\ cur' = [cur EXCEPT ![h] = Head(events[h])]
          /\ events' = [events EXCEPT ![h] = Tail(@)]
  /\ UNCHANGED <<busv, mutex, event_handles, events_stop, start, token, starts, opc, publish,
                 trace, crashed>>

(* The callback is looked up under the mutex, and called under it.          *)
HandlerLock(h) ==
  /\ hpc[h] = "lock"
  /\ mutex[h] = nil
  /\ IF event_handles[h][TypeOf[cur[h].msg]] = "none"
     THEN /\ Goto(h, "loop")
          /\ cur' = [cur EXCEPT ![h] = nil]
          /\ fate' = [fate EXCEPT ![h][cur[h].msg] = "dropped"]
          /\ UNCHANGED mutex
     ELSE /\ Goto(h, "call")
          /\ mutex' = [mutex EXCEPT ![h] = h]
          /\ UNCHANGED <<cur, fate>>
  /\ UNCHANGED <<busv, event_handles, queue, start, token, starts, opc, publish, handled,
                 crashed>>

(* Variant: the guard outlives the callback.                                *)
LeaveLocked(h, f) ==
  /\ UNCHANGED mutex
  /\ Goto(h, "loop")
  /\ cur' = [cur EXCEPT ![h] = nil]
  /\ fate' = [fate EXCEPT ![h][cur[h].msg] = f]

(* Leaving the callback: the guard goes, the loop goes on.                  *)
Leave(h, f) ==
  /\ mutex' = [mutex EXCEPT ![h] = nil]
  /\ Goto(h, "loop")
  /\ cur' = [cur EXCEPT ![h] = nil]
  /\ fate' = [fate EXCEPT ![h][cur[h].msg] = f]

(* The wrapper of On casts the any first, and swallows the failure.         *)
CastFails(h) == event_handles[h][TypeOf[cur[h].msg]] = "On" /\ ~cur[h].full

(* Variant: the event is acknowledged although no callback saw it.           *)
HandlerAckEmpty(h) ==
  /\ hpc[h] = "call"
  /\ CastFails(h)
  /\ Leave(h, "handled")
  /\ UNCHANGED <<busv, event_handles, queue, start, token, starts, opc, publish, handled,
                 crashed>>

HandlerCast(h) ==
  /\ hpc[h] = "call"
  /\ CastFails(h)
  /\ Leave(h, "empty")
  /\ UNCHANGED <<busv, event_handles, queue, start, token, starts, opc, publish, handled,
                 crashed>>

(* The callback publishes its reply, or there is none to publish.           *)
HandlerCall(h) ==
  LET m == cur[h].msg
  IN /\ hpc[h] = "call"
     /\ ~CastFails(h)
     /\ handled' = [handled EXCEPT ![h] = Append(@, m)]
     /\ IF Reply[m] # nil /\ result[Reply[m]] = "new"
        THEN /\ Goto(h, "publish")
             /\ Enter(h, Reply[m])
        ELSE /\ Goto(h, "leave")
             /\ UNCHANGED publish
     /\ UNCHANGED <<busv, mutex, event_handles, queue, start, token, starts, cur, opc, fate,
                    crashed>>

(* The callback returns, and On's wrapper acknowledges; or it throws, which  *)
(* On's wrapper swallows and OnType's callback does not.                    *)
HandlerLeave(h) ==
  LET m == cur[h].msg
  IN /\ hpc[h] = "leave"
     /\ IF m \in Throwing
        THEN /\ Leave(h, "threw")
             /\ crashed' = (event_handles[h][TypeOf[m]] = "OnType")
        ELSE /\ Leave(h, "handled")
             /\ UNCHANGED crashed
     /\ UNCHANGED <<busv, event_handles, queue, start, token, starts, opc, publish, handled>>

(* Locking the mutex it holds throws out of the callback's Publish, whose     *)
(* guard releases the bus, and then out of the callback.                     *)
PublishThrow(h) ==
  /\ ppc[h] = "test"
  /\ prest[h] # {}
  /\ mutex[First(h)] = h
  /\ bus_mutex' = nil
  /\ result' = [result EXCEPT ![pmsg[h]] = "threw"]
  /\ ppc' = [ppc EXCEPT ![h] = "idle"]
  /\ pmsg' = [pmsg EXCEPT ![h] = nil]
  /\ Leave(h, "threw")
  /\ crashed' = (event_handles[h][TypeOf[cur[h].msg]] = "OnType")
  /\ UNCHANGED <<handlers, event_handles, queue, start, token, starts, opc, prest, pany, handled>>

-----------------------------------------------------------------------------
PublishStep(x) ==
  PublishLock(x) \/ PublishTest(x) \/ PublishDeliver(x) \/ PublishReturn(x)

OwnerStep(h) == StopSource(h) \/ StopNotify(h) \/ StopJoin(h) \/ StopClear(h)

HandlerStep(h) ==
  \/ HandlerLoop(h) \/ PopTest(h) \/ PopSleep(h) \/ PopTake(h)
  \/ HandlerLock(h) \/ HandlerCast(h) \/ HandlerCall(h) \/ HandlerLeave(h) \/ PublishThrow(h)

Next ==
  /\ ~crashed
  /\ \/ \E x \in Client, m \in Msg : PublishCall(x, m)
     \/ \E x \in Thread : PublishStep(x)
     \/ \E h \in Handler :
          \/ Subscribe(h)
          \/ Unsubscribe(h)
          \/ \E ty \in Type : Cancel(h, ty) \/ \E kind \in Kinds : On(h, ty, kind)
          \/ Clear(h)
          \/ Start(h)
          \/ StopRequest(h)
          \/ OwnerStep(h)
          \/ HandlerStep(h)
          \/ SpuriousWake(h)

Spec == Init /\ [][Next]_vars

(***************************************************************************)
(* A thread that can move does move; nobody has to call anything, and       *)
(* spurious wake-ups come to an end.                                        *)
(***************************************************************************)
Fairness ==
  /\ \A x \in Thread : WF_vars(~crashed /\ PublishStep(x))
  /\ \A h \in Handler : WF_vars(~crashed /\ HandlerStep(h)) /\ WF_vars(~crashed /\ OwnerStep(h))
  /\ <>[][\A h \in Handler : ~SpuriousWake(h)]_vars

FairSpec == Spec /\ Fairness

-----------------------------------------------------------------------------
InQueue(h, m) == {i \in 1 .. Len(events[h]) : events[h][i].msg = m}
InHand(h, m) == cur[h] # nil /\ cur[h].msg = m
Called(h) == {handled[h][i] : i \in 1 .. Len(handled[h])}

(* No event is lost or doubled on its way: one that was delivered to a       *)
(* handler is in its queue or in the hands of its thread, once, until it     *)
(* is settled; a callback that was called is still running, has returned or  *)
(* has thrown, and an event is acknowledged or failed only if its callback   *)
(* was called (event_handler.h 52-60, 81-87, 124-126).                       *)
EventAccounted ==
  \A h \in Handler, m \in Msg :
    /\ Cardinality(InQueue(h, m)) + (IF InHand(h, m) THEN 1 ELSE 0)
         = IF fate[h][m] = "queued" THEN 1 ELSE 0
    /\ fate[h][m] \in {"handled", "threw"} => m \in Called(h)
    /\ m \in Called(h) => \/ fate[h][m] \in {"handled", "threw"}
                          \/ InHand(h, m) /\ hpc[h] \in {"publish", "leave"}

(* All handlers see the events they have in common in one order, and none    *)
(* sees an event twice: Publish visits all handlers under the mutex of the   *)
(* bus, replies published by callbacks included (event_bus.h 35-42, 47-54).  *)
Before(h, m, n) ==
  \E i, j \in 1 .. Len(handled[h]) : i < j /\ handled[h][i] = m /\ handled[h][j] = n

SameOrder ==
  \A g, h \in Handler : \A m, n \in Msg : ~(Before(g, m, n) /\ Before(h, n, m))

(* A handler that has been stopped calls no callback any more, not even      *)
(* after it was started again, since its queue stays stopped                 *)
(* (event_handler.h 53, 65-72).                                             *)
StoppedForGood ==
  [][\A h \in Handler : events_stop[h] /\ opc[h] = "idle" => handled'[h] = handled[h]]_vars

(* An event that a running handler has been given does not stay with it for  *)
(* ever: its callback is called, or it is thrown away (event_handler.h       *)
(* 52-60).                                                                 *)
EventsSettle ==
  \A h \in Handler, m \in Msg :
    (fate[h][m] = "queued" /\ start[h] /\ ~events_stop[h])
      ~> (fate[h][m] # "queued" \/ events_stop[h] \/ crashed)

(* Publish returns, whatever handlers do, as long as no callback publishes:  *)
(* the mutex of the bus is taken before those of the handlers and never      *)
(* after.  A restarted handler spins on its stopped queue and may keep its   *)
(* mutex from the publisher (event_bus.h 33-56, event_handler.h 52-54).      *)
PublishReturns ==
  (\A m \in Msg : Reply[m] = nil) =>
    \A m \in Msg :
      result[m] = "busy" ~> \/ result[m] \in {"true", "false"}
                            \/ \E h \in Handler : starts[h] > 1
                            \/ crashed

-----------------------------------------------------------------------------
(* What a test says of the bus, and the code does not do.                   *)

(* "handler1->Stop(); EXPECT_FALSE(handler1->IsStart());"                    *)
(* (test_event_bus.h:79): Stop comes to its end.                            *)
StopReturns == \A h \in Handler : opc[h] # "idle" ~> (opc[h] = "idle" \/ crashed)
=============================================================================
