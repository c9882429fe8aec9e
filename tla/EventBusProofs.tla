--------------------------- MODULE EventBusProofs ---------------------------
(***************************************************************************)
(* Proofs about module EventBus (include/event_bus/event_bus.h and          *)
(* event_handler.h), for any number of clients, handlers, events and types, *)
(* and with callbacks that publish.                                         *)
(*                                                                         *)
(* The inductive invariant has four parts beside the types: what a thread    *)
(* inside Publish has done with its event (Publishing), where the events of  *)
(* a handler are (Accounts), what a stopped handler's thread can be doing    *)
(* (Stops), and the order of the events in the handlers' streams (Ordered).  *)
(* What Accounts and Ordered say of a handler is written as an operator on   *)
(* its queue, its thread and its trace, so that the effect of a step is a    *)
(* fact about values and not about states.                                  *)
(***************************************************************************)
EXTENDS EventBus, SequenceTheorems, FiniteSetTheorems, WellFoundedInduction, TLAPS

(* A thread in Publish.  Its event is its own, no handler it has still to    *)
(* visit has been given it, and from the lock on it holds the bus.           *)
Publishing ==
  /\ \A x \in Thread :
       ppc[x] # "idle" =>
         /\ pmsg[x] \in Msg /\ result[pmsg[x]] = "busy"
         /\ \A y \in Thread : y # x /\ ppc[y] # "idle" => pmsg[y] # pmsg[x]
         /\ ppc[x] = "lock" => \A h \in Handler : fate[h][pmsg[x]] = "none"
         /\ ppc[x] # "lock" => bus_mutex = x
         /\ ppc[x] # "lock" => \A h \in prest[x] : fate[h][pmsg[x]] = "none"
         /\ ppc[x] = "deliver" => prest[x] # {}
         /\ x \in Handler => hpc[x] = "publish"
  /\ \A m \in Msg : result[m] = "new" => \A h \in Handler : fate[h][m] = "none"

(* A handler's thread has an event from the pop to the end of the callback.  *)
Busy == {"lock", "call", "publish", "leave"}

(* The events in a queue q, and those a list t of called callbacks is about. *)
Names(q) == {q[i].msg : i \in 1 .. Len(q)}
Distinct(q) == \A i, j \in 1 .. Len(q) : q[i].msg = q[j].msg => i = j
Seen(t) == {t[i] : i \in 1 .. Len(t)}

(* A handler with queue q, stopped if s, whose thread is at p with event c,  *)
(* whose events have met the fates f and whose callbacks have seen t.        *)
Holds(c, m) == c # nil /\ c.msg = m

Account(q, s, c, p, f, t) ==
  /\ p \in Busy <=> c # nil
  /\ p = "take" => q # <<>> \/ s
  /\ Distinct(q)
  /\ c # nil => c.msg \notin Names(q)
  /\ \A m \in Msg :
       /\ f[m] = "queued" <=> m \in Names(q) \/ Holds(c, m)
       /\ m \in Seen(t) <=> \/ f[m] \in {"handled", "threw"}
                            \/ Holds(c, m) /\ p \in {"publish", "leave"}

Accounts ==
  \A h \in Handler :
    Account(events[h], events_stop[h], cur[h], hpc[h], fate[h], handled[h])

(* A handler that is not started has no thread that runs; one whose queue is *)
(* stopped does not take an event once its Stop is over.                    *)
Stops ==
  \A h \in Handler :
    /\ ~start[h] => hpc[h] \in {"none", "done"}
    /\ opc[h] = "clear" => hpc[h] = "done"
    /\ events_stop[h] /\ opc[h] = "idle" => hpc[h] \notin Busy

BusInv == TypeOK /\ Publishing /\ Accounts /\ Stops

(* The events of a handler in the order in which it was given them: those    *)
(* its callbacks have seen, the one its thread is about to show them, and    *)
(* those in the queue.                                                      *)
Upcoming(c, p, m) == Holds(c, m) /\ p \in {"lock", "call"}
Waits(q, m, n) == \E i, j \in 1 .. Len(q) : i < j /\ q[i].msg = m /\ q[j].msg = n
Saw(t, m, n) == \E i, j \in 1 .. Len(t) : i < j /\ t[i] = m /\ t[j] = n

Stream(q, c, p, t, m, n) ==
  \/ Saw(t, m, n)
  \/ m \in Seen(t) /\ (Upcoming(c, p, n) \/ n \in Names(q))
  \/ Upcoming(c, p, m) /\ n \in Names(q)
  \/ Waits(q, m, n)

Precedes(h, m, n) == Stream(events[h], cur[h], hpc[h], handled[h], m, n)

(* No two streams disagree, and nothing follows the event that is being      *)
(* delivered.                                                               *)
Ordered ==
  /\ \A g, h \in Handler : \A m, n \in Msg : ~(Precedes(g, m, n) /\ Precedes(h, n, m))
  /\ \A x \in Thread : ppc[x] \in {"test", "deliver"} =>
       \A g \in Handler, n \in Msg : ~Precedes(g, pmsg[x], n)

-----------------------------------------------------------------------------
(* First(x), the least handler still to visit, exists.                      *)
LEMMA FirstIn ==
  ASSUME NEW x, prest[x] \subseteq Handler, prest[x] # {}
  PROVE  First(x) \in prest[x]
<1> DEFINE less == OpToRel(<, Nat)
<1>1. prest[x] \subseteq Nat
  BY DEF Handler
<1>2. IsWellFoundedOn(less, Nat)
  BY NatLessThanWellFounded
<1>3. PICK h \in prest[x] : \A g \in prest[x] : ~ (<<g, h>> \in less)
  BY <1>1, <1>2, WFMin
<1>4. \A g \in prest[x] : h <= g
  <2>1. TAKE g \in prest[x]
  <2>2. g \in Nat /\ h \in Nat
    BY <1>1
  <2>3. ~(g < h)
    BY <1>3, <2>2 DEF OpToRel
  <2> HIDE DEF less
  <2> QED
    BY <2>2, <2>3
<1> QED
  BY <1>4 DEF First

(* What queues and lists of calls hold after a step.                         *)
LEMMA AppendedNames ==
  ASSUME NEW q \in Seq(Event), NEW e \in Event
  PROVE  /\ Append(q, e) \in Seq(Event)
         /\ Names(Append(q, e)) = Names(q) \cup {e.msg}
         /\ Distinct(q) /\ e.msg \notin Names(q) => Distinct(Append(q, e))
         /\ \A m, n : Waits(Append(q, e), m, n)
                        => Waits(q, m, n) \/ (m \in Names(q) /\ n = e.msg)
<1>1. /\ Append(q, e) \in Seq(Event) /\ Len(Append(q, e)) = Len(q) + 1 /\ Len(q) \in Nat
      /\ \A i \in 1 .. Len(q) : Append(q, e)[i] = q[i]
      /\ Append(q, e)[Len(q) + 1] = e
  OBVIOUS
<1>2. PICK a : a = Append(q, e)
  OBVIOUS
<1>3. 1 .. Len(a) = (1 .. Len(q)) \cup {Len(q) + 1}
  BY <1>1, <1>2
<1>4. Names(a) = Names(q) \cup {e.msg}
  BY <1>1, <1>2, <1>3 DEF Names
<1>5. Distinct(q) /\ e.msg \notin Names(q) => Distinct(a)
  BY <1>1, <1>2, <1>3 DEF Names, Distinct
<1>6. \A m, n : Waits(a, m, n) => Waits(q, m, n) \/ (m \in Names(q) /\ n = e.msg)
  BY <1>1, <1>2, <1>3 DEF Names, Waits
<1> QED
  BY <1>1, <1>2, <1>4, <1>5, <1>6

(* What is left of a queue when its first event is popped.                  *)
LEMMA TailNames ==
  ASSUME NEW q \in Seq(Event), q # <<>>
  PROVE  /\ Tail(q) \in Seq(Event) /\ Head(q) \in Event
         /\ Names(q) = Names(Tail(q)) \cup {Head(q).msg}
         /\ Distinct(q) => Distinct(Tail(q)) /\ Head(q).msg \notin Names(Tail(q))
         /\ \A m, n : Waits(Tail(q), m, n) => Waits(q, m, n)
         /\ \A n : n \in Names(Tail(q)) => Waits(q, Head(q).msg, n)
<1>1. /\ Tail(q) \in Seq(Event) /\ Len(Tail(q)) = Len(q) - 1 /\ Len(q) \in Nat /\ Len(q) > 0
      /\ \A i \in 1 .. Len(q) - 1 : Tail(q)[i] = q[i + 1]
      /\ Head(q) = q[1] /\ Head(q) \in Event
  OBVIOUS
<1>2. PICK a, b : a = Tail(q) /\ b = Head(q)
  OBVIOUS
<1>3. /\ 1 \in 1 .. Len(q) /\ b = q[1]
      /\ \A i \in 1 .. Len(a) : i + 1 \in 1 .. Len(q) /\ i + 1 > 1 /\ i \in Nat /\ a[i] = q[i + 1]
      /\ \A j \in 1 .. Len(q) : j # 1 => j - 1 \in 1 .. Len(a) /\ a[j - 1] = q[j]
  BY <1>1, <1>2
<1>4. Names(q) = Names(a) \cup {b.msg}
  <2>1. \A i \in 1 .. Len(q) : q[i].msg \in Names(a) \cup {b.msg}
    BY <1>3 DEF Names
  <2>2. \A i \in 1 .. Len(a) : a[i].msg \in Names(q)
    BY <1>3 DEF Names
  <2>3. b.msg \in Names(q)
    BY <1>3 DEF Names
  <2>4. Names(q) \subseteq Names(a) \cup {b.msg}
    BY <2>1, Zenon DEF Names
  <2>5. Names(a) \subseteq Names(q)
    BY <2>2, Zenon DEF Names
  <2> QED
    BY <2>3, <2>4, <2>5
<1>5. ASSUME Distinct(q) PROVE Distinct(a) /\ b.msg \notin Names(a)
  <2>1. b.msg \notin Names(a)
    <3>1. SUFFICES ASSUME NEW i \in 1 .. Len(a), a[i].msg = b.msg PROVE FALSE
      BY DEF Names
    <3>2. i + 1 \in 1 .. Len(q) /\ q[i + 1].msg = q[1].msg /\ i + 1 > 1 /\ i \in Nat
      BY <1>3, <3>1
    <3>3. i + 1 = 1
      BY <1>3, <1>5, <3>2, Zenon DEF Distinct
    <3> QED
      BY <3>2, <3>3
  <2>2. ASSUME NEW i \in 1 .. Len(a), NEW j \in 1 .. Len(a), a[i].msg = a[j].msg
        PROVE  i = j
    <3>1. /\ i + 1 \in 1 .. Len(q) /\ j + 1 \in 1 .. Len(q) /\ i \in Nat /\ j \in Nat
          /\ q[i + 1].msg = q[j + 1].msg
      BY <1>3, <2>2
    <3>2. i + 1 = j + 1
      BY <1>5, <3>1, Zenon DEF Distinct
    <3> QED
      BY <3>1, <3>2
  <2> QED
    BY <2>1, <2>2 DEF Distinct
<1>6. ASSUME NEW m, NEW n, Waits(a, m, n) PROVE Waits(q, m, n)
  <2>1. PICK i, j \in 1 .. Len(a) : i < j /\ a[i].msg = m /\ a[j].msg = n
    BY <1>6 DEF Waits
  <2>2. i + 1 < j + 1 /\ i + 1 \in 1 .. Len(q) /\ j + 1 \in 1 .. Len(q)
        /\ q[i + 1].msg = m /\ q[j + 1].msg = n
    BY <1>3, <2>1
  <2> QED
    BY <2>2 DEF Waits
<1>7. ASSUME NEW n, n \in Names(a) PROVE Waits(q, b.msg, n)
  <2>1. PICK i \in 1 .. Len(a) : a[i].msg = n
    BY <1>7 DEF Names
  <2> QED
    BY <1>3, <2>1 DEF Waits
<1> QED
  BY <1>1, <1>2, <1>4, <1>5, <1>6, <1>7

(* The callbacks called, once one more has been.                            *)
LEMMA AppendedCalls ==
  ASSUME NEW t \in Seq(Msg), NEW k \in Msg
  PROVE  /\ Append(t, k) \in Seq(Msg)
         /\ Seen(Append(t, k)) = Seen(t) \cup {k}
         /\ \A m, n : Saw(Append(t, k), m, n) => Saw(t, m, n) \/ (m \in Seen(t) /\ n = k)
<1>1. /\ Append(t, k) \in Seq(Msg) /\ Len(Append(t, k)) = Len(t) + 1 /\ Len(t) \in Nat
      /\ \A i \in 1 .. Len(t) : Append(t, k)[i] = t[i]
      /\ Append(t, k)[Len(t) + 1] = k
  OBVIOUS
<1>2. PICK a : a = Append(t, k)
  OBVIOUS
<1>3. 1 .. Len(a) = (1 .. Len(t)) \cup {Len(t) + 1}
  BY <1>1, <1>2
<1>4. Seen(a) = Seen(t) \cup {k}
  BY <1>1, <1>2, <1>3 DEF Seen
<1>5. \A m, n : Saw(a, m, n) => Saw(t, m, n) \/ (m \in Seen(t) /\ n = k)
  BY <1>1, <1>2, <1>3 DEF Seen, Saw
<1> QED
  BY <1>1, <1>2, <1>4, <1>5

(* Nothing is in an empty queue.                                            *)
LEMMA EmptyNames ==
  Names(<<>>) = {} /\ Distinct(<<>>) /\ \A m, n : ~Waits(<<>>, m, n)
BY DEF Names, Distinct, Waits

-----------------------------------------------------------------------------
(* The accounts of a handler after each kind of step.  A step that moves its *)
(* thread and changes no event:                                             *)
LEMMA AccountMoved ==
  ASSUME NEW q, NEW s, NEW c, NEW p, NEW f, NEW t, NEW s2, NEW p2,
         Account(q, s, c, p, f, t),
         p2 \in Busy <=> p \in Busy,
         p2 \in {"publish", "leave"} <=> p \in {"publish", "leave"},
         p2 = "take" => q # <<>> \/ s2
  PROVE  Account(q, s2, c, p2, f, t)
BY Zenon DEF Account

(* The queue is cleared.                                                    *)
LEMMA AccountDropped ==
  ASSUME NEW q, NEW s, NEW c, NEW p, NEW f \in [Msg -> Fate], NEW t, NEW f2,
         Account(q, s, c, p, f, t), p # "take",
         f2 = [m \in Msg |-> IF m \in Names(q) THEN "dropped" ELSE f[m]]
  PROVE  Account(<<>>, s, c, p, f2, t)
<1>1. ASSUME NEW m \in Msg
      PROVE  /\ f2[m] = "queued" <=> m \in Names(<<>>) \/ Holds(c, m)
             /\ m \in Seen(t) <=> \/ f2[m] \in {"handled", "threw"}
                                  \/ Holds(c, m) /\ p \in {"publish", "leave"}
  BY EmptyNames DEF Account, Holds
<1> QED
  BY <1>1, EmptyNames DEF Account

(* The front of the queue is taken.                                         *)
LEMMA AccountPopped ==
  ASSUME NEW q \in Seq(Event), NEW s, NEW c \in Event \cup {nil}, NEW p,
         NEW f, NEW t, Account(q, s, c, p, f, t), p = "take", ~s, nil \notin Event
  PROVE  /\ q # <<>>
         /\ Account(Tail(q), s, Head(q), "lock", f, t)
<1>1. q # <<>> /\ c = nil
  BY DEF Account, Busy
<1>2. PICK r, e : r = Tail(q) /\ e = Head(q)
  OBVIOUS
<1>3. /\ e \in Event /\ e # nil /\ Names(q) = Names(r) \cup {e.msg}
      /\ Distinct(r) /\ e.msg \notin Names(r)
  BY <1>1, <1>2, TailNames DEF Account
<1>4. ASSUME NEW m \in Msg
      PROVE  /\ f[m] = "queued" <=> m \in Names(r) \/ Holds(e, m)
             /\ m \in Seen(t) <=> \/ f[m] \in {"handled", "threw"}
                                  \/ Holds(e, m) /\ "lock" \in {"publish", "leave"}
  <2>1. f[m] = "queued" <=> m \in Names(q)
    BY <1>1 DEF Account, Holds
  <2>2. m \in Seen(t) <=> f[m] \in {"handled", "threw"}
    BY <1>1 DEF Account, Holds
  <2> QED
    BY <1>3, <2>1, <2>2 DEF Holds
<1>5. Account(r, s, e, "lock", f, t)
  BY <1>3, <1>4 DEF Account, Busy
<1> QED
  BY <1>1, <1>2, <1>5

(* An event that the handler has not seen is pushed.                        *)
LEMMA AccountPushed ==
  ASSUME NEW q \in Seq(Event), NEW s, NEW c \in Event \cup {nil}, NEW p, NEW f \in [Msg -> Fate],
         NEW t, NEW e \in Event, NEW f2, NEW p2,
         Account(q, s, c, p, f, t), f[e.msg] = "none", e.msg \in Msg,
         f2 = [f EXCEPT ![e.msg] = "queued"],
         p2 = IF p = "wait" THEN "pred" ELSE p
  PROVE  Account(Append(q, e), s, c, p2, f2, t)
<1>1. PICK a : a = Append(q, e)
  OBVIOUS
<1>2. e.msg \notin Names(q) /\ ~Holds(c, e.msg) /\ e.msg \notin Seen(t)
  BY DEF Account
<1>3. Names(a) = Names(q) \cup {e.msg} /\ Distinct(a) /\ a # <<>>
  BY <1>1, <1>2, AppendedNames, EmptyNames DEF Account
<1>4. ASSUME NEW m \in Msg
      PROVE  /\ f2[m] = "queued" <=> m \in Names(a) \/ Holds(c, m)
             /\ m \in Seen(t) <=> \/ f2[m] \in {"handled", "threw"}
                                  \/ Holds(c, m) /\ p2 \in {"publish", "leave"}
  <2>1. CASE m = e.msg
    BY <1>2, <1>3, <2>1
  <2>2. CASE m # e.msg
    BY <1>3, <2>2 DEF Account
  <2> QED
    BY <2>1, <2>2
<1>5. c # nil => c.msg \notin Names(a)
  BY <1>2, <1>3 DEF Account, Holds
<1>6. p2 \in Busy <=> c # nil
  BY DEF Account, Busy
<1>7. Account(a, s, c, p2, f2, t)
  BY <1>3, <1>4, <1>5, <1>6 DEF Account
<1> QED
  BY <1>1, <1>7

(* The callback is called.                                                  *)
LEMMA AccountCalled ==
  ASSUME NEW q, NEW s, NEW c \in Event, NEW p, NEW f, NEW t \in Seq(Msg), NEW p2,
         Account(q, s, c, p, f, t), p = "call", c.msg \in Msg, p2 \in {"publish", "leave"}
  PROVE  Account(q, s, c, p2, f, Append(t, c.msg))
<1>1. PICK u : u = Append(t, c.msg)
  OBVIOUS
<1>2. Seen(u) = Seen(t) \cup {c.msg}
  BY <1>1, AppendedCalls
<1>3. ASSUME NEW m \in Msg
      PROVE  m \in Seen(u) <=> \/ f[m] \in {"handled", "threw"}
                               \/ Holds(c, m) /\ p2 \in {"publish", "leave"}
  BY <1>2 DEF Account, Holds, Busy
<1>4. p2 \in Busy <=> c # nil
  BY DEF Account, Busy
<1>5. Account(q, s, c, p2, f, u)
  BY <1>3, <1>4 DEF Account
<1> QED
  BY <1>1, <1>5

(* The thread is done with its event: before the callback saw it, or after.  *)
LEMMA AccountSettled ==
  ASSUME NEW q, NEW s, NEW c \in Event, NEW p, NEW f \in [Msg -> Fate], NEW t, NEW out \in Fate,
         NEW f2, Account(q, s, c, p, f, t), c.msg \in Msg, p \in Busy,
         f2 = [f EXCEPT ![c.msg] = out],
         \/ p \in {"lock", "call"} /\ out \in {"dropped", "empty"}
         \/ p \in {"publish", "leave"} /\ out \in {"threw", "handled"}
  PROVE  Account(q, s, nil, "loop", f2, t)
<1>1. ASSUME NEW m \in Msg
      PROVE  /\ f2[m] = "queued" <=> m \in Names(q) \/ Holds(nil, m)
             /\ m \in Seen(t) <=> \/ f2[m] \in {"handled", "threw"}
                                  \/ Holds(nil, m) /\ "loop" \in {"publish", "leave"}
  <2>1. CASE m = c.msg
    BY <2>1 DEF Account, Holds, Busy
  <2>2. CASE m # c.msg
    BY <2>2 DEF Account, Holds, Busy
  <2> QED
    BY <2>1, <2>2
<1> QED
  BY <1>1 DEF Account, Busy

-----------------------------------------------------------------------------
(* The stream of a handler after each kind of step: only a push adds to it,  *)
(* and that at its end.                                                     *)
LEMMA StreamMoved ==
  ASSUME NEW q, NEW c, NEW p, NEW t, NEW p2, NEW m, NEW n,
         p2 \in {"lock", "call"} <=> p \in {"lock", "call"},
         Stream(q, c, p2, t, m, n)
  PROVE  Stream(q, c, p, t, m, n)
BY Zenon DEF Stream, Upcoming

(* A pair of events in the stream of an emptied queue was there before      *)
(* Clear.                                                                   *)
LEMMA StreamDropped ==
  ASSUME NEW q, NEW c, NEW p, NEW t, NEW m, NEW n, Stream(<<>>, c, p, t, m, n)
  PROVE  Stream(q, c, p, t, m, n)
BY EmptyNames DEF Stream

(* Popping an event leaves every pair of events of the stream as it was.    *)
LEMMA StreamPopped ==
  ASSUME NEW q \in Seq(Event), NEW c, NEW p, NEW t, NEW m, NEW n,
         q # <<>>, Stream(Tail(q), Head(q), "lock", t, m, n)
  PROVE  Stream(q, c, p, t, m, n)
<1>1. PICK r, e : r = Tail(q) /\ e = Head(q)
  OBVIOUS
<1>2. /\ Names(q) = Names(r) \cup {e.msg}
      /\ Waits(r, m, n) => Waits(q, m, n)
      /\ n \in Names(r) => Waits(q, e.msg, n)
  BY <1>1, TailNames
<1>3. Stream(r, e, "lock", t, m, n)
  BY <1>1
<1> QED
  BY <1>2, <1>3 DEF Stream, Upcoming, Holds

(* A push adds to the stream only pairs that end in the pushed event.       *)
LEMMA StreamPushed ==
  ASSUME NEW q \in Seq(Event), NEW c, NEW p, NEW t, NEW e \in Event, NEW p2, NEW m, NEW n,
         p2 \in {"lock", "call"} <=> p \in {"lock", "call"},
         Stream(Append(q, e), c, p2, t, m, n)
  PROVE  \/ Stream(q, c, p, t, m, n)
         \/ n = e.msg /\ (m \in Seen(t) \/ Holds(c, m) \/ m \in Names(q))
<1>1. PICK a : a = Append(q, e)
  OBVIOUS
<1>2. Names(a) = Names(q) \cup {e.msg} /\ (Waits(a, m, n) => Waits(q, m, n) \/ (m \in Names(q) /\ n = e.msg))
  BY <1>1, AppendedNames
<1>3. Stream(a, c, p2, t, m, n)
  BY <1>1
<1> QED
  BY <1>2, <1>3 DEF Stream, Upcoming

(* A callback that is called takes its event from the hand to the trace.    *)
LEMMA StreamCalled ==
  ASSUME NEW q, NEW c \in Event, NEW t \in Seq(Msg), NEW p2, NEW m, NEW n,
         c.msg \in Msg, c # nil, p2 \in {"publish", "leave"},
         Stream(q, c, p2, Append(t, c.msg), m, n)
  PROVE  Stream(q, c, "call", t, m, n)
<1>1. PICK u : u = Append(t, c.msg)
  OBVIOUS
<1>2. Seen(u) = Seen(t) \cup {c.msg} /\ (Saw(u, m, n) => Saw(t, m, n) \/ (m \in Seen(t) /\ n = c.msg))
  BY <1>1, AppendedCalls
<1>3. Stream(q, c, p2, u, m, n)
  BY <1>1
<1> QED
  BY <1>2, <1>3 DEF Stream, Upcoming, Holds

(* An event that is settled or dropped adds no pair to the stream.          *)
LEMMA StreamSettled ==
  ASSUME NEW q, NEW c, NEW p, NEW t, NEW m, NEW n, Stream(q, nil, "loop", t, m, n)
  PROVE  Stream(q, c, p, t, m, n)
BY DEF Stream, Upcoming, Holds

(* What is in a stream has been given to the handler.                       *)
LEMMA StreamKnown ==
  ASSUME NEW q, NEW s, NEW c, NEW p, NEW f, NEW t, NEW m \in Msg,
         Account(q, s, c, p, f, t), f[m] = "none"
  PROVE  /\ ~(m \in Seen(t) \/ Holds(c, m) \/ m \in Names(q))
         /\ \A n : ~Stream(q, c, p, t, m, n)
<1>1. ~(m \in Seen(t) \/ Holds(c, m) \/ m \in Names(q))
  BY DEF Account
<1>2. \A n : ~Waits(q, m, n) /\ ~Saw(t, m, n)
  BY <1>1 DEF Waits, Saw, Names, Seen
<1> QED
  BY <1>1, <1>2 DEF Stream, Upcoming

-----------------------------------------------------------------------------
(* What the invariant says of one handler, of the handler a publisher is     *)
(* about to serve, and of a thread that has an event.                       *)
LEMMA NilIsNoEvent == nil \notin Event /\ nil \notin Msg /\ nil \notin Thread
BY EventBusAssumption DEF Event, Thread

(* The handler a publishing thread serves next has not been given its       *)
(* event.                                                                   *)
LEMMA ServedHandler ==
  ASSUME TypeOK, Publishing, NEW x \in Thread, ppc[x] \in {"test", "deliver"}, prest[x] # {}
  PROVE  /\ First(x) \in prest[x] /\ First(x) \in Handler
         /\ pmsg[x] \in Msg /\ fate[First(x)][pmsg[x]] = "none"
<1>1. prest[x] \subseteq Handler
  BY DEF TypeOK
<1>2. First(x) \in prest[x]
  BY <1>1, FirstIn
<1> QED
  BY <1>1, <1>2 DEF Publishing

(* From the pop to the end of the callback the handler's thread has an      *)
(* event.                                                                   *)
LEMMA EventInHand ==
  ASSUME TypeOK, Accounts, NEW h \in Handler, hpc[h] \in Busy
  PROVE  cur[h] \in Event /\ cur[h] # nil /\ cur[h].msg \in Msg
BY DEF TypeOK, Accounts, Account, Event

(* What the steps with more than one outcome do.                            *)
LEMMA TestEffect ==
  ASSUME NEW x, PublishTest(x)
  PROVE  /\ ppc[x] = "test" /\ prest[x] # {}
         /\ UNCHANGED <<bus_mutex, handlers, mutex, event_handles, events, events_stop, start, token,
                        starts, hpc, cur, opc, pmsg, pany, result, fate, handled, crashed>>
         /\ \/ ppc' = [ppc EXCEPT ![x] = "deliver"] /\ prest' = prest
            \/ prest' = [prest EXCEPT ![x] = @ \ {First(x)}] /\ ppc' = ppc
BY Zenon DEF PublishTest, busv, queue, thread, trace

(* What HandlerLock does: it drops an event nobody handles, or takes the    *)
(* mutex.                                                                   *)
LEMMA LockEffect ==
  ASSUME NEW h, HandlerLock(h)
  PROVE  /\ hpc[h] = "lock"
         /\ UNCHANGED <<bus_mutex, handlers, event_handles, events, events_stop, start, token, starts,
                        opc, ppc, pmsg, prest, pany, result, handled, crashed>>
         /\ \/ /\ hpc' = [hpc EXCEPT ![h] = "loop"] /\ cur' = [cur EXCEPT ![h] = nil]
               /\ fate' = [fate EXCEPT ![h][cur[h].msg] = "dropped"] /\ mutex' = mutex
            \/ /\ hpc' = [hpc EXCEPT ![h] = "call"] /\ mutex' = [mutex EXCEPT ![h] = h]
               /\ cur' = cur /\ fate' = fate
BY Zenon DEF HandlerLock, Goto, busv, queue, publish

(* What HandlerCall does: the callback is called, and may enter Publish.    *)
LEMMA CallEffect ==
  ASSUME NEW h, HandlerCall(h)
  PROVE  /\ hpc[h] = "call" /\ handled' = [handled EXCEPT ![h] = Append(@, cur[h].msg)]
         /\ UNCHANGED <<bus_mutex, handlers, mutex, event_handles, events, events_stop, start, token,
                        starts, cur, opc, fate, crashed>>
         /\ \/ /\ Reply[cur[h].msg] # nil /\ result[Reply[cur[h].msg]] = "new"
               /\ hpc' = [hpc EXCEPT ![h] = "publish"] /\ Enter(h, Reply[cur[h].msg])
            \/ /\ hpc' = [hpc EXCEPT ![h] = "leave"]
               /\ UNCHANGED <<ppc, pmsg, prest, pany, result>>
BY Zenon DEF HandlerCall, Goto, busv, queue, publish

(* The types hold.                                                          *)
LEMMA TypeInit == Init => TypeOK
<1> SUFFICES ASSUME Init PROVE TypeOK
  OBVIOUS
<1>1. /\ <<>> \in Seq(Event) /\ <<>> \in Seq(Msg) /\ 0 \in 0 .. MaxStarts
  BY EventBusAssumption
<1>2. /\ events \in [Handler -> Seq(Event)] /\ handled \in [Handler -> Seq(Msg)]
      /\ starts \in [Handler -> 0 .. MaxStarts]
  BY <1>1 DEF Init
<1>3. /\ event_handles \in [Handler -> [Type -> Kind]] /\ hpc \in [Handler -> HPC]
      /\ opc \in [Handler -> OPC] /\ ppc \in [Thread -> PPC]
      /\ fate \in [Handler -> [Msg -> Fate]]
      /\ result \in [Msg -> {"new", "busy", "true", "false", "threw"}]
  BY DEF Init, HPC, OPC, PPC, Kind, Fate
<1>4. /\ bus_mutex \in Thread \cup {nil} /\ handlers \subseteq Handler
      /\ mutex \in [Handler -> Thread \cup {nil}] /\ cur \in [Handler -> Event \cup {nil}]
      /\ pmsg \in [Thread -> Msg \cup {nil}] /\ prest \in [Thread -> SUBSET Handler]
  BY DEF Init
<1>5. /\ events_stop \in [Handler -> BOOLEAN] /\ start \in [Handler -> BOOLEAN]
      /\ token \in [Handler -> BOOLEAN] /\ pany \in [Thread -> BOOLEAN] /\ crashed \in BOOLEAN
  BY DEF Init
<1> QED
  BY <1>2, <1>3, <1>4, <1>5 DEF TypeOK

(* Every step keeps the types.                                              *)
LEMMA TypeStep ==
  ASSUME BusInv, Next
  PROVE  TypeOK'
<1> USE DEF busv, queue, thread, publish, trace
<1>t. TypeOK /\ Publishing /\ Accounts
  BY DEF BusInv
<1>1. ASSUME NEW x \in Client, NEW m \in Msg, PublishCall(x, m) PROVE TypeOK'
  BY <1>t, <1>1 DEF TypeOK, PublishCall, Enter, PPC, Thread
<1>2. ASSUME NEW x \in Thread, PublishLock(x) PROVE TypeOK'
  BY <1>t, <1>2 DEF TypeOK, PublishLock, PPC
<1>3. ASSUME NEW x \in Thread, PublishTest(x) PROVE TypeOK'
  <2>1. ppc' \in [Thread -> PPC] /\ prest' \in [Thread -> SUBSET Handler]
    <3>1. PICK f : f = First(x)
      OBVIOUS
    <3>2. \/ ppc' = [ppc EXCEPT ![x] = "deliver"] /\ prest' = prest
          \/ prest' = [prest EXCEPT ![x] = @ \ {f}] /\ ppc' = ppc
      BY <1>3, <3>1, TestEffect, Zenon
    <3> QED
      BY <1>t, <3>2 DEF TypeOK, PPC
  <2> QED
    BY <1>t, <1>3, <2>1 DEF TypeOK, PublishTest
<1>4. ASSUME NEW x \in Thread, PublishDeliver(x) PROVE TypeOK'
  <2>1. PICK h \in Handler, m \in Msg : h = First(x) /\ m = pmsg[x]
    BY <1>t, <1>4, ServedHandler DEF PublishDeliver, Publishing
  <2>2. PICK e \in Event : e = [msg |-> m, full |-> pany[x]]
    BY <1>t DEF TypeOK, Event
  <2>3. events' \in [Handler -> Seq(Event)]
    BY <1>t, <1>4, <2>1, <2>2 DEF TypeOK, PublishDeliver
  <2>4. /\ hpc' \in [Handler -> HPC] /\ fate' \in [Handler -> [Msg -> Fate]]
        /\ ppc' \in [Thread -> PPC] /\ prest' \in [Thread -> SUBSET Handler]
    BY <1>t, <1>4, <2>1 DEF TypeOK, PublishDeliver, Wake, HPC, Fate, PPC
  <2>5. pany' \in [Thread -> BOOLEAN]
    BY <1>t, <1>4, Zenon DEF TypeOK, PublishDeliver
  <2> QED
    BY <1>t, <1>4, <2>3, <2>4, <2>5 DEF TypeOK, PublishDeliver
<1>5. ASSUME NEW x \in Thread, PublishReturn(x) PROVE TypeOK'
  BY <1>t, <1>5 DEF TypeOK, PublishReturn, PPC, HPC
<1>6. ASSUME NEW h \in Handler, Subscribe(h) \/ Unsubscribe(h) PROVE TypeOK'
  BY <1>t, <1>6 DEF TypeOK, Subscribe, Unsubscribe
<1>7. ASSUME NEW h \in Handler, NEW ty \in Type, NEW kind \in Kinds, On(h, ty, kind)
      PROVE  TypeOK'
  <2>1. event_handles' \in [Handler -> [Type -> Kind]]
    BY <1>t, <1>7 DEF TypeOK, On, Kind
  <2> QED
    BY <1>t, <1>7, <2>1 DEF TypeOK, On
<1>8. ASSUME NEW h \in Handler, NEW ty \in Type, Cancel(h, ty) PROVE TypeOK'
  <2>1. event_handles' \in [Handler -> [Type -> Kind]]
    BY <1>t, <1>8 DEF TypeOK, Cancel, Kind
  <2> QED
    BY <1>t, <1>8, <2>1 DEF TypeOK, Cancel
<1>9. ASSUME NEW h \in Handler, DropAll(h)
      PROVE  events' \in [Handler -> Seq(Event)] /\ fate' \in [Handler -> [Msg -> Fate]]
  BY <1>t, <1>9 DEF TypeOK, DropAll, Fate
<1>10. ASSUME NEW h \in Handler, Clear(h) \/ StopClear(h) PROVE TypeOK'
  <2>1. events' \in [Handler -> Seq(Event)] /\ fate' \in [Handler -> [Msg -> Fate]]
    BY <1>9, <1>10, Zenon DEF Clear, StopClear
  <2>2. CASE Clear(h)
    BY <1>t, <2>1, <2>2 DEF TypeOK, Clear
  <2>3. CASE StopClear(h)
    <3>1. start' \in [Handler -> BOOLEAN] /\ opc' \in [Handler -> OPC]
      BY <1>t, <2>3 DEF TypeOK, StopClear, OPC
    <3> QED
      BY <1>t, <2>1, <2>3, <3>1 DEF TypeOK, StopClear
  <2> QED
    BY <1>10, <2>2, <2>3
<1>11. ASSUME NEW h \in Handler,
              Start(h) \/ StopRequest(h) \/ StopSource(h) \/ StopNotify(h) \/ StopJoin(h)
       PROVE  TypeOK'
  <2>1. CASE Start(h)
    <3>1. starts' \in [Handler -> 0 .. MaxStarts]
      BY <1>t, <2>1, EventBusAssumption DEF TypeOK, Start
    <3> QED
      BY <1>t, <2>1, <3>1 DEF TypeOK, Start, HPC
  <2>2. CASE StopRequest(h)
    BY <1>t, <2>2 DEF TypeOK, StopRequest, OPC
  <2>3. CASE StopSource(h)
    BY <1>t, <2>3 DEF TypeOK, StopSource, OPC
  <2>4. CASE StopNotify(h)
    BY <1>t, <2>4 DEF TypeOK, StopNotify, Wake, OPC, HPC
  <2>5. CASE StopJoin(h)
    BY <1>t, <2>5 DEF TypeOK, StopJoin, OPC
  <2> QED
    BY <1>11, <2>1, <2>2, <2>3, <2>4, <2>5
<1>12. ASSUME NEW h \in Handler,
              HandlerLoop(h) \/ PopTest(h) \/ PopSleep(h) \/ SpuriousWake(h)
       PROVE  TypeOK'
  BY <1>t, <1>12 DEF TypeOK, HandlerLoop, PopTest, PopSleep, SpuriousWake, Goto, HPC
<1>13. ASSUME NEW h \in Handler, PopTake(h) PROVE TypeOK'
  <2>1. CASE events_stop[h]
    BY <1>t, <1>13, <2>1 DEF TypeOK, PopTake, Goto, HPC
  <2>2. CASE ~events_stop[h]
    <3>1. events[h] # <<>> /\ events[h] \in Seq(Event)
      BY <1>t, <1>13, <2>2 DEF TypeOK, Accounts, Account, PopTake
    <3>2. Head(events[h]) \in Event /\ Tail(events[h]) \in Seq(Event)
      BY <3>1, TailNames
    <3> QED
      BY <1>t, <1>13, <2>2, <3>2 DEF TypeOK, PopTake, Goto, HPC
  <2> QED
    BY <2>1, <2>2
<1>14. ASSUME NEW h \in Handler, NEW f \in Fate, Leave(h, f)
       PROVE  /\ mutex' \in [Handler -> Thread \cup {nil}] /\ hpc' \in [Handler -> HPC]
              /\ cur' \in [Handler -> Event \cup {nil}] /\ fate' \in [Handler -> [Msg -> Fate]]
  BY <1>t, <1>14 DEF TypeOK, Leave, Goto, HPC
<1>15. ASSUME NEW h \in Handler, HandlerLock(h) PROVE TypeOK'
  <2>1. /\ mutex' \in [Handler -> Thread \cup {nil}] /\ hpc' \in [Handler -> HPC]
        /\ cur' \in [Handler -> Event \cup {nil}]
    <3>1. \/ hpc' = [hpc EXCEPT ![h] = "loop"] /\ cur' = [cur EXCEPT ![h] = nil] /\ mutex' = mutex
          \/ hpc' = [hpc EXCEPT ![h] = "call"] /\ cur' = cur /\ mutex' = [mutex EXCEPT ![h] = h]
      BY <1>15, LockEffect
    <3>2. /\ mutex \in [Handler -> Thread \cup {nil}] /\ hpc \in [Handler -> HPC]
          /\ cur \in [Handler -> Event \cup {nil}] /\ h \in Thread /\ "loop" \in HPC /\ "call" \in HPC
      BY <1>t DEF TypeOK, HPC, Thread
    <3> QED
      BY <3>1, <3>2
  <2>2. fate' \in [Handler -> [Msg -> Fate]]
    <3>1. PICK m \in Msg : m = cur[h].msg
      BY <1>t, <1>15, LockEffect, EventInHand DEF Busy
    <3>2. fate' = [fate EXCEPT ![h][m] = "dropped"] \/ fate' = fate
      BY <1>15, <3>1, LockEffect
    <3>3. fate \in [Handler -> [Msg -> Fate]] /\ "dropped" \in Fate
      BY <1>t DEF TypeOK, Fate
    <3> QED
      BY <3>2, <3>3
  <2> QED
    BY <1>t, <1>15, <2>1, <2>2 DEF TypeOK, HandlerLock
<1>16. ASSUME NEW h \in Handler, HandlerCast(h) PROVE TypeOK'
  <2>1. Leave(h, "empty") /\ "empty" \in Fate
    BY <1>16 DEF HandlerCast, Fate
  <2> QED
    BY <1>t, <1>16, <1>14, <2>1 DEF TypeOK, HandlerCast
<1>17. ASSUME NEW h \in Handler, HandlerCall(h) PROVE TypeOK'
  <2>1. PICK m \in Msg : m = cur[h].msg
    BY <1>t, <1>17, EventInHand DEF HandlerCall, Busy
  <2>2. handled' = [handled EXCEPT ![h] = Append(@, m)]
    BY <1>17, <2>1 DEF HandlerCall
  <2>3. handled' \in [Handler -> Seq(Msg)]
    BY <1>t, <2>2 DEF TypeOK
  <2>4. hpc' \in [Handler -> HPC]
    BY <1>t, <1>17, CallEffect DEF TypeOK, HPC
  <2>5. CASE Reply[m] # nil /\ result[Reply[m]] = "new"
    <3>1. Reply[m] \in Msg /\ Enter(h, Reply[m])
      BY <1>17, <2>1, <2>5, EventBusAssumption DEF HandlerCall
    <3>2. PICK n \in Msg : n = Reply[m]
      BY <3>1
    <3>3. /\ ppc' \in [Thread -> PPC] /\ pmsg' \in [Thread -> Msg \cup {nil}]
          /\ result' \in [Msg -> {"new", "busy", "true", "false", "threw"}]
      BY <1>t, <3>1, <3>2 DEF TypeOK, Enter, PPC, Thread
    <3> QED
      BY <1>t, <1>17, <2>3, <2>4, <3>1, <3>3 DEF TypeOK, HandlerCall, Enter
  <2>6. CASE ~(Reply[m] # nil /\ result[Reply[m]] = "new")
    <3>1. UNCHANGED publish
      BY <1>17, <2>1, <2>6 DEF HandlerCall
    <3> QED
      BY <1>t, <1>17, <2>3, <2>4, <3>1 DEF TypeOK, HandlerCall
  <2> QED
    BY <2>5, <2>6
<1>18. ASSUME NEW h \in Handler, HandlerLeave(h) PROVE TypeOK'
  <2>1. PICK f \in Fate : Leave(h, f)
    BY <1>18 DEF HandlerLeave, Fate
  <2>2. crashed' \in BOOLEAN
    BY <1>t, <1>18, Zenon DEF TypeOK, HandlerLeave
  <2> QED
    BY <1>t, <1>18, <1>14, <2>1, <2>2 DEF TypeOK, HandlerLeave
<1>19. ASSUME NEW h \in Handler, PublishThrow(h) PROVE TypeOK'
  <2>1. Leave(h, "threw") /\ "threw" \in Fate
    BY <1>19 DEF PublishThrow, Fate
  <2>2. crashed' \in BOOLEAN
    BY <1>19, Zenon DEF PublishThrow
  <2>3. /\ bus_mutex' = nil /\ ppc' = [ppc EXCEPT ![h] = "idle"] /\ pmsg' = [pmsg EXCEPT ![h] = nil]
        /\ result' = [result EXCEPT ![pmsg[h]] = "threw"]
        /\ UNCHANGED <<handlers, event_handles, queue, start, token, starts, opc, prest, pany, handled>>
    BY <1>19 DEF PublishThrow
  <2> QED
    BY <1>t, <1>14, <2>1, <2>2, <2>3 DEF TypeOK, PPC
<1> QED
  BY <1>1, <1>2, <1>3, <1>4, <1>5, <1>6, <1>7, <1>8, <1>10, <1>11, <1>12, <1>13, <1>15, <1>16,
     <1>17, <1>18, <1>19 DEF Next, PublishStep, OwnerStep, HandlerStep

-----------------------------------------------------------------------------
(* The handlers of events that are cleared, or that a thread is done with,   *)
(* had been given them.                                                     *)
LEMMA DropEffect ==
  ASSUME TypeOK, Accounts, NEW h \in Handler, DropAll(h)
  PROVE  /\ events' = [events EXCEPT ![h] = <<>>]
         /\ fate' = [fate EXCEPT ![h] = [m \in Msg |-> IF m \in Names(events[h]) THEN "dropped"
                                                       ELSE fate[h][m]]]
         /\ hpc[h] # "take"
         /\ \A g \in Handler, m \in Msg : fate[g][m] = "none" => fate'[g][m] = "none"
<1>1. /\ events' = [events EXCEPT ![h] = <<>>]
      /\ fate' = [fate EXCEPT ![h] = [m \in Msg |-> IF m \in Names(events[h]) THEN "dropped"
                                                    ELSE fate[h][m]]]
      /\ hpc[h] # "take"
  BY DEF DropAll, Queued, Names, QueueFree
<1>2. \A m \in Msg : m \in Names(events[h]) => fate[h][m] = "queued"
  BY DEF Accounts, Account
<1>3. \A g \in Handler, m \in Msg : fate[g][m] = "none" => fate'[g][m] = "none"
  BY <1>1, <1>2 DEF TypeOK
<1> QED
  BY <1>1, <1>3

(* Settling the event in hand touches none that the handler has not been    *)
(* given.                                                                   *)
LEMMA LeaveEffect ==
  ASSUME TypeOK, Accounts, NEW h \in Handler, hpc[h] \in Busy, NEW out,
         fate' = [fate EXCEPT ![h][cur[h].msg] = out]
  PROVE  \A g \in Handler, m \in Msg : fate[g][m] = "none" => fate'[g][m] = "none"
<1>1. PICK k \in Msg : k = cur[h].msg
  BY EventInHand
<1>2. fate[h][k] = "queued"
  BY <1>1, EventInHand DEF Accounts, Account, Holds
<1>3. fate' = [fate EXCEPT ![h][k] = out]
  BY <1>1
<1> QED
  BY <1>2, <1>3 DEF TypeOK

(* A step in which no thread comes further in Publish.                      *)
PublishSame ==
  /\ UNCHANGED <<ppc, pmsg, prest, result, bus_mutex>>
  /\ \A g \in Handler, m \in Msg : fate[g][m] = "none" => fate'[g][m] = "none"
  /\ \A g \in Handler : hpc[g] = "publish" => hpc'[g] = "publish"

(* A step that leaves Publish's variables alone keeps what Publish relies   *)
(* on.                                                                      *)
LEMMA PublishingSame ==
  ASSUME TypeOK, Publishing, PublishSame
  PROVE  Publishing'
<1>1. ASSUME NEW x \in Thread, ppc'[x] # "idle"
      PROVE  /\ pmsg'[x] \in Msg /\ result'[pmsg'[x]] = "busy"
             /\ \A y \in Thread : y # x /\ ppc'[y] # "idle" => pmsg'[y] # pmsg'[x]
             /\ ppc'[x] = "lock" => \A h \in Handler : fate'[h][pmsg'[x]] = "none"
             /\ ppc'[x] # "lock" => bus_mutex' = x
             /\ ppc'[x] # "lock" => \A h \in prest'[x] : fate'[h][pmsg'[x]] = "none"
             /\ ppc'[x] = "deliver" => prest'[x] # {}
             /\ x \in Handler => hpc'[x] = "publish"
  <2>1. ppc[x] # "idle" /\ pmsg[x] \in Msg /\ prest[x] \subseteq Handler
    BY <1>1 DEF PublishSame, Publishing, TypeOK
  <2> QED
    BY <2>1 DEF PublishSame, Publishing
<1>2. \A m \in Msg : result'[m] = "new" => \A h \in Handler : fate'[h][m] = "none"
  BY DEF PublishSame, Publishing
<1> QED
  BY <1>1, <1>2 DEF Publishing

(* A thread enters Publish.                                                 *)
LEMMA PublishingEnter ==
  ASSUME TypeOK, Publishing, NEW x \in Thread, NEW k \in Msg, ppc[x] = "idle", Enter(x, k),
         UNCHANGED <<bus_mutex, fate>>,
         \A g \in Handler : hpc[g] = "publish" => hpc'[g] = "publish",
         x \in Handler => hpc'[x] = "publish"
  PROVE  Publishing'
<1>1. /\ result[k] = "new" /\ result' = [result EXCEPT ![k] = "busy"]
      /\ ppc' = [ppc EXCEPT ![x] = "lock"] /\ pmsg' = [pmsg EXCEPT ![x] = k]
      /\ prest' = prest
  BY DEF Enter
<1>2. \A y \in Thread : ppc[y] # "idle" => y # x /\ pmsg[y] # k /\ pmsg[y] \in Msg
  BY <1>1 DEF Publishing
<1>3. ASSUME NEW y \in Thread, ppc'[y] # "idle"
      PROVE  /\ pmsg'[y] \in Msg /\ result'[pmsg'[y]] = "busy"
             /\ \A z \in Thread : z # y /\ ppc'[z] # "idle" => pmsg'[z] # pmsg'[y]
             /\ ppc'[y] = "lock" => \A h \in Handler : fate'[h][pmsg'[y]] = "none"
             /\ ppc'[y] # "lock" => bus_mutex' = y
             /\ ppc'[y] # "lock" => \A h \in prest'[y] : fate'[h][pmsg'[y]] = "none"
             /\ ppc'[y] = "deliver" => prest'[y] # {}
             /\ y \in Handler => hpc'[y] = "publish"
  <2>1. CASE y = x
    BY <1>1, <1>2, <2>1 DEF Publishing, TypeOK
  <2>2. CASE y # x
    <3>1. ppc'[y] = ppc[y] /\ pmsg'[y] = pmsg[y] /\ ppc[y] # "idle"
      BY <1>1, <1>3, <2>2 DEF TypeOK
    <3>2. result'[pmsg[y]] = "busy" /\ pmsg[y] \in Msg
      BY <1>1, <1>2, <3>1 DEF Publishing, TypeOK
    <3>3. \A z \in Thread : z # y /\ ppc'[z] # "idle" => pmsg'[z] # pmsg'[y]
      BY <1>1, <1>2, <3>1 DEF Publishing, TypeOK
    <3> QED
      BY <1>1, <3>1, <3>2, <3>3 DEF Publishing
  <2> QED
    BY <2>1, <2>2
<1>4. \A m \in Msg : result'[m] = "new" => \A h \in Handler : fate'[h][m] = "none"
  BY <1>1 DEF Publishing, TypeOK
<1> QED
  BY <1>3, <1>4 DEF Publishing

(* The thread that has, or gets, the mutex of the bus comes further.        *)
LEMMA PublishingOn ==
  ASSUME TypeOK, Publishing, NEW x \in Thread, ppc[x] # "idle", bus_mutex \in {nil, x},
         bus_mutex' = x, NEW k \in {"test", "deliver"}, ppc' = [ppc EXCEPT ![x] = k],
         NEW S \in SUBSET Handler, prest' = [prest EXCEPT ![x] = S],
         k = "deliver" => S # {},
         UNCHANGED <<pmsg, result>>,
         \A g \in Handler : hpc[g] = "publish" => hpc'[g] = "publish",
         \A h \in S : fate'[h][pmsg[x]] = "none",
         \A h \in Handler, m \in Msg : m # pmsg[x] => (fate[h][m] = "none" => fate'[h][m] = "none")
  PROVE  Publishing'
<1>1. pmsg[x] \in Msg /\ result[pmsg[x]] = "busy"
  BY DEF Publishing
<1>2. \A y \in Thread : y # x /\ ppc[y] # "idle" => ppc[y] = "lock"
  BY NilIsNoEvent DEF Publishing
<1>3. ASSUME NEW y \in Thread, ppc'[y] # "idle"
      PROVE  /\ pmsg'[y] \in Msg /\ result'[pmsg'[y]] = "busy"
             /\ \A z \in Thread : z # y /\ ppc'[z] # "idle" => pmsg'[z] # pmsg'[y]
             /\ ppc'[y] = "lock" => \A h \in Handler : fate'[h][pmsg'[y]] = "none"
             /\ ppc'[y] # "lock" => bus_mutex' = y
             /\ ppc'[y] # "lock" => \A h \in prest'[y] : fate'[h][pmsg'[y]] = "none"
             /\ ppc'[y] = "deliver" => prest'[y] # {}
             /\ y \in Handler => hpc'[y] = "publish"
  <2>1. \A z \in Thread : ppc'[z] # "idle" => ppc[z] # "idle"
    BY DEF TypeOK
  <2>2. \A z \in Thread : z # y /\ ppc'[z] # "idle" => pmsg'[z] # pmsg'[y]
    BY <1>3, <2>1 DEF Publishing
  <2>3. /\ pmsg'[y] \in Msg /\ result'[pmsg'[y]] = "busy"
        /\ y \in Handler => hpc'[y] = "publish"
    BY <1>3, <2>1 DEF Publishing
  <2>4. CASE y = x
    BY <2>2, <2>3, <2>4 DEF TypeOK
  <2>5. CASE y # x
    <3>1. ppc'[y] = ppc[y] /\ ppc[y] = "lock" /\ pmsg[y] # pmsg[x]
      BY <1>2, <1>3, <2>5 DEF TypeOK, Publishing
    <3>2. \A h \in Handler : fate'[h][pmsg'[y]] = "none"
      BY <3>1, <2>3 DEF Publishing
    <3> QED
      BY <2>2, <2>3, <3>1, <3>2
  <2> QED
    BY <2>4, <2>5
<1>4. \A m \in Msg : result'[m] = "new" => \A h \in Handler : fate'[h][m] = "none"
  BY <1>1 DEF Publishing
<1> QED
  BY <1>3, <1>4 DEF Publishing

(* The thread leaves Publish, with the mutex of the bus released.            *)
LEMMA PublishingEnd ==
  ASSUME TypeOK, Publishing, NEW x \in Thread, ppc[x] = "test",
         NEW r \in {"true", "false", "threw"}, result' = [result EXCEPT ![pmsg[x]] = r],
         ppc' = [ppc EXCEPT ![x] = "idle"], pmsg' = [pmsg EXCEPT ![x] = nil],
         \A g \in Handler, m \in Msg : fate[g][m] = "none" => fate'[g][m] = "none",
         \A g \in Handler : g # x => hpc'[g] = hpc[g]
  PROVE  Publishing'
<1>1. PICK k \in Msg : k = pmsg[x] /\ result' = [result EXCEPT ![k] = r]
  BY DEF Publishing
<1>2. /\ ppc[x] = "test" /\ ppc' = [ppc EXCEPT ![x] = "idle"] /\ pmsg' = [pmsg EXCEPT ![x] = nil]
      /\ \A g \in Handler, m \in Msg : fate[g][m] = "none" => fate'[g][m] = "none"
      /\ bus_mutex = x
      /\ \A g \in Handler : g # x => hpc'[g] = hpc[g]
  BY DEF Publishing
<1>3. \A y \in Thread : y # x /\ ppc[y] # "idle" => ppc[y] = "lock"
  BY <1>2, NilIsNoEvent DEF Publishing
<1>4. ASSUME NEW y \in Thread, ppc'[y] # "idle"
      PROVE  /\ pmsg'[y] \in Msg /\ result'[pmsg'[y]] = "busy"
             /\ \A z \in Thread : z # y /\ ppc'[z] # "idle" => pmsg'[z] # pmsg'[y]
             /\ ppc'[y] = "lock" => \A h \in Handler : fate'[h][pmsg'[y]] = "none"
             /\ ppc'[y] # "lock" => bus_mutex' = y
             /\ ppc'[y] # "lock" => \A h \in prest'[y] : fate'[h][pmsg'[y]] = "none"
             /\ ppc'[y] = "deliver" => prest'[y] # {}
             /\ y \in Handler => hpc'[y] = "publish"
  <2>1. \A z \in Thread : ppc'[z] # "idle" => z # x /\ ppc[z] = ppc'[z] /\ pmsg'[z] = pmsg[z]
    BY <1>2 DEF TypeOK
  <2>2. y # x /\ ppc[y] = "lock" /\ ppc'[y] = "lock" /\ pmsg'[y] = pmsg[y]
    BY <1>3, <1>4, <2>1
  <2>3. \A z \in Thread : z # y /\ ppc'[z] # "idle" => pmsg'[z] # pmsg'[y]
    BY <1>4, <2>1, <2>2 DEF Publishing
  <2>4. pmsg[y] # k /\ pmsg[y] \in Msg /\ result[pmsg[y]] = "busy"
    BY <1>1, <1>2, <2>2 DEF Publishing
  <2>5. result'[pmsg[y]] = "busy"
    BY <1>1, <2>4 DEF TypeOK
  <2>6. \A h \in Handler : fate'[h][pmsg[y]] = "none"
    BY <1>2, <2>2, <2>4 DEF Publishing
  <2>7. y \in Handler => hpc'[y] = "publish"
    BY <1>2, <2>2 DEF Publishing
  <2> QED
    BY <2>2, <2>3, <2>4, <2>5, <2>6, <2>7
<1>5. \A m \in Msg : result'[m] = "new" => \A h \in Handler : fate'[h][m] = "none"
  BY <1>1, <1>2 DEF Publishing, TypeOK
<1> QED
  BY <1>4, <1>5 DEF Publishing

(* Nobody publishes at first.                                               *)
LEMMA PublishingInit == Init => Publishing
BY DEF Init, Publishing

(* Every step keeps what a thread in Publish relies on.                     *)
LEMMA PublishingStep ==
  ASSUME BusInv, Next
  PROVE  Publishing'
<1> USE DEF busv, queue, thread, publish, trace
<1>t. TypeOK /\ Publishing /\ Accounts /\ Stops
  BY DEF BusInv
<1>1. ASSUME NEW x \in Client, NEW m \in Msg, PublishCall(x, m) PROVE Publishing'
  <2>1. x \in Thread /\ x \notin Handler
    BY EventBusAssumption DEF Thread
  <2>2. ppc[x] = "idle" /\ Enter(x, m) /\ UNCHANGED <<bus_mutex, fate, hpc>>
    BY <1>1 DEF PublishCall
  <2> QED
    BY <1>t, <2>1, <2>2, PublishingEnter
<1>2. ASSUME NEW x \in Thread, PublishLock(x) PROVE Publishing'
  <2>1. /\ ppc[x] = "lock" /\ bus_mutex = nil /\ bus_mutex' = x
        /\ ppc' = [ppc EXCEPT ![x] = "test"] /\ prest' = [prest EXCEPT ![x] = handlers]
        /\ UNCHANGED <<pmsg, result, hpc, fate>>
    BY <1>2 DEF PublishLock
  <2>2. PICK S \in SUBSET Handler : S = handlers
    BY <1>t DEF TypeOK
  <2>3. \A h \in S : fate'[h][pmsg[x]] = "none"
    BY <1>t, <2>1 DEF Publishing
  <2> QED
    BY <1>t, <2>1, <2>2, <2>3, PublishingOn
<1>3. ASSUME NEW x \in Thread, PublishTest(x) PROVE Publishing'
  <2>1. /\ ppc[x] = "test" /\ prest[x] # {} /\ UNCHANGED <<bus_mutex, pmsg, result, hpc, fate>>
        /\ \/ ppc' = [ppc EXCEPT ![x] = "deliver"] /\ prest' = prest
           \/ prest' = [prest EXCEPT ![x] = @ \ {First(x)}] /\ ppc' = ppc
    BY <1>3, TestEffect
  <2>2. bus_mutex = x /\ bus_mutex' = x
    BY <1>t, <2>1 DEF Publishing
  <2>3. PICK k \in {"test", "deliver"}, S \in SUBSET Handler :
           /\ ppc' = [ppc EXCEPT ![x] = k] /\ prest' = [prest EXCEPT ![x] = S]
           /\ k = "deliver" => S # {}
           /\ S \subseteq prest[x]
    <3>1. PICK f : f = First(x)
      OBVIOUS
    <3>2. CASE ppc' = [ppc EXCEPT ![x] = "deliver"] /\ prest' = prest
      <4>1. prest' = [prest EXCEPT ![x] = prest[x]] /\ prest[x] \in SUBSET Handler
        BY <1>t, <3>2 DEF TypeOK
      <4> QED
        BY <2>1, <3>2, <4>1
    <3>3. CASE prest' = [prest EXCEPT ![x] = @ \ {First(x)}] /\ ppc' = ppc
      <4>1. ppc' = [ppc EXCEPT ![x] = "test"]
        BY <1>t, <2>1, <3>3 DEF TypeOK
      <4>2. PICK S \in SUBSET Handler : S = prest[x] \ {f}
        BY <1>t DEF TypeOK
      <4> QED
        BY <3>1, <3>3, <4>1, <4>2
    <3> QED
      BY <2>1, <3>2, <3>3
  <2>4. \A h \in S : fate'[h][pmsg[x]] = "none"
    BY <1>t, <2>1, <2>3 DEF Publishing
  <2>5. /\ ppc[x] # "idle" /\ bus_mutex \in {nil, x}
        /\ \A g \in Handler : hpc[g] = "publish" => hpc'[g] = "publish"
        /\ \A h \in Handler, m \in Msg : m # pmsg[x] => (fate[h][m] = "none" => fate'[h][m] = "none")
    BY <2>1, <2>2
  <2> QED
    BY <1>t, <2>1, <2>2, <2>3, <2>4, <2>5, PublishingOn, Zenon
<1>4. ASSUME NEW x \in Thread, PublishDeliver(x) PROVE Publishing'
  <2>1. ppc[x] = "deliver" /\ prest[x] # {} /\ bus_mutex = x
    BY <1>t, <1>4 DEF PublishDeliver, Publishing
  <2>2. PICK h \in Handler, k \in Msg : h = First(x) /\ k = pmsg[x]
    BY <1>t, <2>1, ServedHandler
  <2>3. /\ fate' = [fate EXCEPT ![h][k] = "queued"] /\ prest' = [prest EXCEPT ![x] = @ \ {h}]
        /\ ppc' = [ppc EXCEPT ![x] = "test"] /\ UNCHANGED <<bus_mutex, pmsg, result>>
        /\ hpc' = [hpc EXCEPT ![h] = IF @ = "wait" THEN "pred" ELSE @]
    BY <1>4, <2>2 DEF PublishDeliver, Wake
  <2>4. PICK S \in SUBSET Handler : S = prest[x] \ {h}
    BY <1>t DEF TypeOK
  <2>5. \A g \in S : fate'[g][pmsg[x]] = "none"
    BY <1>t, <2>1, <2>2, <2>3, <2>4 DEF Publishing, TypeOK
  <2>6. \A g \in Handler, m \in Msg : m # pmsg[x] => (fate[g][m] = "none" => fate'[g][m] = "none")
    BY <1>t, <2>2, <2>3 DEF TypeOK
  <2>7. \A g \in Handler : hpc[g] = "publish" => hpc'[g] = "publish"
    BY <1>t, <2>3 DEF TypeOK
  <2>8. prest' = [prest EXCEPT ![x] = S] /\ bus_mutex' = x /\ ppc[x] # "idle" /\ bus_mutex \in {nil, x}
    BY <2>1, <2>3, <2>4
  <2>9. PICK j \in {"test", "deliver"} : j = "test"
    OBVIOUS
  <2>10. ppc' = [ppc EXCEPT ![x] = j] /\ (j = "deliver" => S # {}) /\ UNCHANGED <<pmsg, result>>
    BY <2>3, <2>9
  <2> QED
    BY <1>t, <2>5, <2>6, <2>7, <2>8, <2>10, PublishingOn, Zenon
<1>5. ASSUME NEW x \in Thread, PublishReturn(x) PROVE Publishing'
  <2>1. PICK r \in {"true", "false", "threw"} : result' = [result EXCEPT ![pmsg[x]] = r]
    BY <1>5 DEF PublishReturn
  <2>2. /\ ppc[x] = "test" /\ ppc' = [ppc EXCEPT ![x] = "idle"] /\ pmsg' = [pmsg EXCEPT ![x] = nil]
        /\ UNCHANGED fate /\ \A g \in Handler : g # x => hpc'[g] = hpc[g]
    BY <1>t, <1>5 DEF PublishReturn, TypeOK
  <2> QED
    BY <1>t, <2>1, <2>2, PublishingEnd
<1>15. ASSUME NEW x \in Handler, PublishThrow(x) PROVE Publishing'
  <2>1. /\ ppc[x] = "test" /\ ppc' = [ppc EXCEPT ![x] = "idle"] /\ pmsg' = [pmsg EXCEPT ![x] = nil]
        /\ result' = [result EXCEPT ![pmsg[x]] = "threw"]
        /\ fate' = [fate EXCEPT ![x][cur[x].msg] = "threw"] /\ hpc' = [hpc EXCEPT ![x] = "loop"]
    BY <1>15 DEF PublishThrow, Leave, Goto
  <2>2. x \in Thread /\ hpc[x] = "publish"
    BY <1>t, <2>1 DEF Publishing, Thread
  <2>3. \A g \in Handler, m \in Msg : fate[g][m] = "none" => fate'[g][m] = "none"
    BY <1>t, <2>1, <2>2, LeaveEffect DEF Busy
  <2>4. \A g \in Handler : g # x => hpc'[g] = hpc[g]
    BY <1>t, <2>1 DEF TypeOK
  <2> QED
    BY <1>t, <2>1, <2>2, <2>3, <2>4, PublishingEnd
<1>6. ASSUME NEW h \in Handler, HandlerCall(h) PROVE Publishing'
  <2>1. PICK m \in Msg : m = cur[h].msg
    BY <1>t, <1>6, CallEffect, EventInHand DEF Busy
  <2>2. hpc[h] = "call" /\ h \in Thread /\ ppc[h] = "idle"
    BY <1>t, <1>6, CallEffect DEF Publishing, Thread
  <2>3. CASE Reply[m] # nil /\ hpc' = [hpc EXCEPT ![h] = "publish"] /\ Enter(h, Reply[m])
    <3>1. PICK k \in Msg : k = Reply[m]
      BY <2>3, EventBusAssumption
    <3>2. UNCHANGED <<bus_mutex, fate>> /\ Enter(h, k)
      BY <1>6, <2>3, <3>1, CallEffect
    <3>3. /\ \A g \in Handler : hpc[g] = "publish" => hpc'[g] = "publish"
          /\ hpc'[h] = "publish"
      BY <1>t, <2>3 DEF TypeOK
    <3> QED
      BY <1>t, <2>2, <3>2, <3>3, PublishingEnter
  <2>4. CASE hpc' = [hpc EXCEPT ![h] = "leave"] /\ UNCHANGED <<ppc, pmsg, prest, pany, result>>
    <3>1. PublishSame
      BY <1>t, <1>6, <2>2, <2>4, CallEffect DEF PublishSame, TypeOK
    <3> QED
      BY <1>t, <3>1, PublishingSame
  <2> QED
    BY <1>6, <2>1, <2>3, <2>4, CallEffect, Zenon
<1>7. ASSUME NEW h \in Handler, Clear(h) \/ StopClear(h) PROVE PublishSame
  BY <1>t, <1>7, DropEffect DEF PublishSame, Clear, StopClear
<1>8. ASSUME NEW h \in Handler, Start(h) PROVE PublishSame
  BY <1>t, <1>8 DEF PublishSame, Start, Stops, TypeOK
<1>9. ASSUME NEW h \in Handler, StopNotify(h) PROVE PublishSame
  BY <1>t, <1>9 DEF PublishSame, StopNotify, Wake, TypeOK
<1>10. ASSUME NEW h \in Handler,
              HandlerLoop(h) \/ PopTest(h) \/ PopSleep(h) \/ SpuriousWake(h) \/ PopTake(h)
       PROVE  PublishSame
  <2>1. /\ UNCHANGED <<ppc, pmsg, prest, result, bus_mutex, fate>>
        /\ hpc[h] # "publish" /\ \E p : hpc' = [hpc EXCEPT ![h] = p]
    BY <1>10 DEF HandlerLoop, PopTest, PopSleep, SpuriousWake, PopTake, Goto
  <2> QED
    BY <1>t, <2>1 DEF PublishSame, TypeOK
<1>11. ASSUME NEW h \in Handler, HandlerLock(h) PROVE PublishSame
  <2>1. \A g \in Handler, m \in Msg : fate[g][m] = "none" => fate'[g][m] = "none"
    BY <1>t, <1>11, LockEffect, LeaveEffect DEF Busy
  <2> QED
    BY <1>t, <1>11, <2>1, LockEffect DEF PublishSame, TypeOK
<1>12. ASSUME NEW h \in Handler, HandlerCast(h) \/ HandlerLeave(h) PROVE PublishSame
  <2>1. /\ hpc[h] \in {"call", "leave"} /\ hpc' = [hpc EXCEPT ![h] = "loop"]
        /\ \E out : fate' = [fate EXCEPT ![h][cur[h].msg] = out]
        /\ UNCHANGED <<ppc, pmsg, prest, result, bus_mutex>>
    BY <1>12 DEF HandlerCast, HandlerLeave, Leave, Goto
  <2>2. \A g \in Handler, m \in Msg : fate[g][m] = "none" => fate'[g][m] = "none"
    BY <1>t, <2>1, LeaveEffect DEF Busy
  <2> QED
    BY <1>t, <2>1, <2>2 DEF PublishSame, TypeOK
<1>13. ASSUME NEW h \in Handler,
              \/ Subscribe(h) \/ Unsubscribe(h) \/ StopRequest(h) \/ StopSource(h) \/ StopJoin(h)
              \/ \E ty \in Type : Cancel(h, ty) \/ \E kind \in Kinds : On(h, ty, kind)
       PROVE  PublishSame
  BY <1>13 DEF PublishSame, Subscribe, Unsubscribe, StopRequest, StopSource, StopJoin, Cancel, On
<1>14. PublishSame => Publishing'
  BY <1>t, PublishingSame
<1> QED
  BY <1>1, <1>2, <1>3, <1>4, <1>5, <1>6, <1>7, <1>8, <1>9, <1>10, <1>11, <1>12, <1>13, <1>14, <1>15
     DEF Next, PublishStep, OwnerStep, HandlerStep

-----------------------------------------------------------------------------
(* What a step does at handler g: its thread moves, at most; its queue is    *)
(* cleared; its thread takes an event, shows it to the callback, is done     *)
(* with it; or an event e is pushed.                                        *)
SameTrace(g) == events'[g] = events[g] /\ fate'[g] = fate[g] /\ handled'[g] = handled[g]

Moves(g) ==
  /\ SameTrace(g) /\ cur'[g] = cur[g]
  /\ hpc'[g] \in Busy <=> hpc[g] \in Busy
  /\ hpc'[g] \in {"publish", "leave"} <=> hpc[g] \in {"publish", "leave"}
  /\ hpc'[g] \in {"lock", "call"} <=> hpc[g] \in {"lock", "call"}
  /\ hpc'[g] = "take" => events[g] # <<>> \/ events_stop'[g]

Drops(g) ==
  /\ events'[g] = <<>> /\ hpc[g] # "take"
  /\ fate'[g] = [m \in Msg |-> IF m \in Names(events[g]) THEN "dropped" ELSE fate[g][m]]
  /\ cur'[g] = cur[g] /\ hpc'[g] = hpc[g] /\ handled'[g] = handled[g]
  /\ events_stop'[g] = events_stop[g]

Takes(g) ==
  /\ hpc[g] = "take" /\ hpc'[g] = "lock" /\ ~events_stop[g] /\ events_stop'[g] = events_stop[g]
  /\ cur'[g] = Head(events[g]) /\ events'[g] = Tail(events[g])
  /\ fate'[g] = fate[g] /\ handled'[g] = handled[g]

Shows(g) ==
  /\ hpc[g] = "call" /\ hpc'[g] \in {"publish", "leave"}
  /\ handled'[g] = Append(handled[g], cur[g].msg)
  /\ cur'[g] = cur[g] /\ events'[g] = events[g] /\ fate'[g] = fate[g]
  /\ events_stop'[g] = events_stop[g]

Settles(g) ==
  /\ hpc[g] \in Busy /\ hpc'[g] = "loop" /\ cur'[g] = nil
  /\ \E out \in Fate :
       /\ fate'[g] = [fate[g] EXCEPT ![cur[g].msg] = out]
       /\ \/ hpc[g] \in {"lock", "call"} /\ out \in {"dropped", "empty"}
          \/ hpc[g] \in {"publish", "leave"} /\ out \in {"threw", "handled"}
  /\ events'[g] = events[g] /\ handled'[g] = handled[g]
  /\ events_stop'[g] = events_stop[g]

Gets(g, e) ==
  /\ events'[g] = Append(events[g], e)
  /\ fate'[g] = [fate[g] EXCEPT ![e.msg] = "queued"]
  /\ hpc'[g] = IF hpc[g] = "wait" THEN "pred" ELSE hpc[g]
  /\ cur'[g] = cur[g] /\ handled'[g] = handled[g] /\ events_stop'[g] = events_stop[g]

Own(g) == Moves(g) \/ Drops(g) \/ Takes(g) \/ Shows(g) \/ Settles(g)

Delivery(x) ==
  /\ ppc[x] = "deliver"
  /\ \E e \in Event : e.msg = pmsg[x] /\ Gets(First(x), e)
  /\ \A g \in Handler \ {First(x)} : Moves(g)

(* At a handler a step leaves alone, it leaves everything alone.             *)
LEMMA OthersMove ==
  ASSUME TypeOK, Accounts, NEW g \in Handler, SameTrace(g), cur'[g] = cur[g],
         hpc'[g] = hpc[g], events_stop[g] => events_stop'[g]
  PROVE  Moves(g)
<1>1. hpc'[g] = "take" => events[g] # <<>> \/ events_stop'[g]
  BY DEF Accounts, Account
<1> QED
  BY <1>1, Zenon DEF Moves

(* A step delivers one event to one handler, or is each handler's own       *)
(* affair.                                                                  *)
LEMMA Steps ==
  ASSUME BusInv, Next
  PROVE  /\ \A x \in Thread : PublishDeliver(x) => Delivery(x)
         /\ (\A g \in Handler : Own(g)) \/ (\E x \in Thread : PublishDeliver(x))
<1> USE DEF busv, queue, thread, publish, trace
<1>t. TypeOK /\ Publishing /\ Accounts /\ Stops
  BY DEF BusInv
<1>o. ASSUME UNCHANGED <<events, fate, handled, cur>>,
             \A g \in Handler : events_stop[g] => events_stop'[g],
             NEW h \in Handler, NEW p, hpc' = [hpc EXCEPT ![h] = p],
             p \in Busy <=> hpc[h] \in Busy,
             p \in {"publish", "leave"} <=> hpc[h] \in {"publish", "leave"},
             p \in {"lock", "call"} <=> hpc[h] \in {"lock", "call"},
             p = "take" => events[h] # <<>> \/ events_stop'[h]
      PROVE  \A g \in Handler : Own(g)
  <2>1. TAKE g \in Handler
  <2>2. SameTrace(g) /\ cur'[g] = cur[g] /\ (events_stop[g] => events_stop'[g])
    BY <1>o DEF SameTrace
  <2>3. CASE g = h
    <3>1. hpc'[g] = p
      BY <1>t, <1>o, <2>3 DEF TypeOK
    <3> QED
      BY <1>o, <2>2, <2>3, <3>1, Zenon DEF Moves, Own
  <2>4. CASE g # h
    <3>1. hpc'[g] = hpc[g]
      BY <1>t, <1>o, <2>4 DEF TypeOK
    <3> QED
      BY <1>t, <2>2, <3>1, OthersMove DEF Own
  <2> QED
    BY <2>3, <2>4
<1>u. ASSUME UNCHANGED <<events, fate, handled, cur, hpc>>,
             \A g \in Handler : events_stop[g] => events_stop'[g]
      PROVE  \A g \in Handler : Own(g)
  <2>1. TAKE g \in Handler
  <2>2. SameTrace(g) /\ cur'[g] = cur[g] /\ hpc'[g] = hpc[g] /\ (events_stop[g] => events_stop'[g])
    BY <1>u DEF SameTrace
  <2> QED
    BY <1>t, <2>2, OthersMove DEF Own
<1>1. ASSUME NEW x \in Client, NEW m \in Msg, PublishCall(x, m) PROVE \A g \in Handler : Own(g)
  BY <1>1, <1>u DEF PublishCall
<1>2. ASSUME NEW x \in Thread, PublishLock(x) \/ PublishTest(x) PROVE \A g \in Handler : Own(g)
  BY <1>2, <1>u DEF PublishLock, PublishTest
<1>3. ASSUME NEW h \in Handler,
             \/ Subscribe(h) \/ Unsubscribe(h) \/ StopRequest(h) \/ StopJoin(h)
             \/ \E ty \in Type : Cancel(h, ty) \/ \E kind \in Kinds : On(h, ty, kind)
      PROVE  \A g \in Handler : Own(g)
  BY <1>3, <1>u DEF Subscribe, Unsubscribe, StopRequest, StopJoin, Cancel, On
<1>4. ASSUME NEW h \in Handler, StopSource(h) PROVE \A g \in Handler : Own(g)
  <2>1. /\ UNCHANGED <<events, fate, handled, cur, hpc>>
        /\ \A g \in Handler : events_stop[g] => events_stop'[g]
    BY <1>t, <1>4 DEF StopSource, TypeOK
  <2> QED
    BY <2>1, <1>u
<1>5. ASSUME NEW x \in Thread, PublishReturn(x) PROVE \A g \in Handler : Own(g)
  <2>1. UNCHANGED <<events, fate, handled, cur, events_stop>>
    BY <1>5 DEF PublishReturn
  <2>2. CASE x \in Handler
    <3>1. hpc' = [hpc EXCEPT ![x] = "leave"] /\ hpc[x] = "publish"
      BY <1>t, <1>5, <2>2 DEF PublishReturn, Publishing
    <3> QED
      BY <2>1, <2>2, <3>1, <1>o DEF Busy
  <2>3. CASE x \notin Handler
    BY <1>5, <2>1, <2>3, <1>u DEF PublishReturn
  <2> QED
    BY <2>2, <2>3
<1>6. ASSUME NEW h \in Handler, Start(h) PROVE \A g \in Handler : Own(g)
  <2>1. /\ UNCHANGED <<events, fate, handled, cur, events_stop>>
        /\ hpc' = [hpc EXCEPT ![h] = "loop"] /\ hpc[h] \in {"none", "done"}
    BY <1>t, <1>6 DEF Start, Stops
  <2> QED
    BY <2>1, <1>o DEF Busy
<1>7. ASSUME NEW h \in Handler,
             StopNotify(h) \/ HandlerLoop(h) \/ PopTest(h) \/ PopSleep(h) \/ SpuriousWake(h)
      PROVE  \A g \in Handler : Own(g)
  <2>1. UNCHANGED <<events, fate, handled, cur, events_stop>>
    BY <1>7 DEF StopNotify, HandlerLoop, PopTest, PopSleep, SpuriousWake
  <2>2. PICK p : /\ hpc' = [hpc EXCEPT ![h] = p]
                 /\ \/ p \notin Busy /\ hpc[h] \notin Busy
                    \/ p = hpc[h]
                 /\ p = "take" => events[h] # <<>> \/ events_stop[h]
    <3>1. CASE StopNotify(h)
      <4>1. hpc[h] = "take" => events[h] # <<>> \/ events_stop[h]
        BY <1>t DEF Accounts, Account
      <4> QED
        BY <3>1, <4>1 DEF StopNotify, Wake, Busy
    <3>2. CASE ~StopNotify(h)
      BY <1>7, <3>2 DEF HandlerLoop, PopTest, PopSleep, SpuriousWake, Goto, Busy
    <3> QED
      BY <3>1, <3>2
  <2> QED
    BY <2>1, <2>2, <1>o DEF Busy
<1>8. ASSUME NEW h \in Handler, Clear(h) \/ StopClear(h) PROVE \A g \in Handler : Own(g)
  <2>1. DropAll(h) /\ UNCHANGED <<handled, cur, hpc, events_stop>>
    BY <1>8 DEF Clear, StopClear
  <2>2. TAKE g \in Handler
  <2>3. CASE g = h
    <3>1. Drops(g)
      BY <1>t, <2>1, <2>3, DropEffect DEF Drops, TypeOK
    <3> QED
      BY <3>1 DEF Own
  <2>4. CASE g # h
    <3>1. SameTrace(g)
      BY <1>t, <2>1, <2>4, DropEffect DEF SameTrace, TypeOK
    <3> QED
      BY <1>t, <2>1, <3>1, OthersMove DEF Own
  <2> QED
    BY <2>3, <2>4
<1>9. ASSUME NEW h \in Handler, PopTake(h) PROVE \A g \in Handler : Own(g)
  <2>1. CASE events_stop[h]
    BY <1>9, <2>1, <1>o DEF PopTake, Goto, Busy
  <2>2. CASE ~events_stop[h]
    <3>1. TAKE g \in Handler
    <3>2. CASE g = h
      BY <1>t, <1>9, <2>2, <3>2 DEF PopTake, Goto, Takes, Own, TypeOK
    <3>3. CASE g # h
      <4>1. SameTrace(g) /\ cur'[g] = cur[g] /\ hpc'[g] = hpc[g] /\ events_stop'[g] = events_stop[g]
        BY <1>t, <1>9, <2>2, <3>3 DEF PopTake, Goto, SameTrace, TypeOK
      <4> QED
        BY <1>t, <4>1, OthersMove DEF Own
    <3> QED
      BY <3>2, <3>3
  <2> QED
    BY <2>1, <2>2
<1>s. ASSUME NEW h \in Handler, hpc[h] \in Busy, NEW out \in Fate,
             \/ hpc[h] \in {"lock", "call"} /\ out \in {"dropped", "empty"}
             \/ hpc[h] \in {"publish", "leave"} /\ out \in {"threw", "handled"},
             hpc' = [hpc EXCEPT ![h] = "loop"], cur' = [cur EXCEPT ![h] = nil],
             fate' = [fate EXCEPT ![h][cur[h].msg] = out],
             UNCHANGED <<events, handled, events_stop>>
      PROVE  \A g \in Handler : Own(g)
  <2>1. TAKE g \in Handler
  <2>2. CASE g = h
    <3>1. /\ hpc'[g] = "loop" /\ cur'[g] = nil
          /\ fate'[g] = [fate[g] EXCEPT ![cur[g].msg] = out]
          /\ events'[g] = events[g] /\ handled'[g] = handled[g] /\ events_stop'[g] = events_stop[g]
      BY <1>t, <1>s, <2>2 DEF TypeOK
    <3> QED
      BY <1>s, <2>2, <3>1, Zenon DEF Settles, Own
  <2>3. CASE g # h
    <3>1. SameTrace(g) /\ cur'[g] = cur[g] /\ hpc'[g] = hpc[g] /\ events_stop'[g] = events_stop[g]
      BY <1>t, <1>s, <2>3 DEF SameTrace, TypeOK
    <3> QED
      BY <1>t, <3>1, OthersMove DEF Own
  <2> QED
    BY <2>2, <2>3
<1>10. ASSUME NEW h \in Handler, HandlerLock(h) PROVE \A g \in Handler : Own(g)
  <2>1. hpc[h] = "lock" /\ UNCHANGED <<events, handled, events_stop>>
    BY <1>10, LockEffect
  <2>2. CASE /\ hpc' = [hpc EXCEPT ![h] = "loop"] /\ cur' = [cur EXCEPT ![h] = nil]
             /\ fate' = [fate EXCEPT ![h][cur[h].msg] = "dropped"]
    BY <2>1, <2>2, <1>s DEF Busy, Fate
  <2>3. CASE hpc' = [hpc EXCEPT ![h] = "call"] /\ cur' = cur /\ fate' = fate
    BY <2>1, <2>3, <1>o DEF Busy
  <2> QED
    BY <1>10, <2>2, <2>3, LockEffect
<1>11. ASSUME NEW h \in Handler, HandlerCast(h) PROVE \A g \in Handler : Own(g)
  <2>1. /\ hpc[h] = "call" /\ hpc' = [hpc EXCEPT ![h] = "loop"] /\ cur' = [cur EXCEPT ![h] = nil]
        /\ fate' = [fate EXCEPT ![h][cur[h].msg] = "empty"]
        /\ UNCHANGED <<events, handled, events_stop>>
    BY <1>11 DEF HandlerCast, Leave, Goto
  <2> QED
    BY <2>1, <1>s DEF Busy, Fate
<1>12. ASSUME NEW h \in Handler, HandlerLeave(h) PROVE \A g \in Handler : Own(g)
  <2>1. PICK out \in {"threw", "handled"} :
        /\ hpc[h] = "leave" /\ hpc' = [hpc EXCEPT ![h] = "loop"] /\ cur' = [cur EXCEPT ![h] = nil]
        /\ fate' = [fate EXCEPT ![h][cur[h].msg] = out]
        /\ UNCHANGED <<events, handled, events_stop>>
    BY <1>12, Zenon DEF HandlerLeave, Leave, Goto
  <2>2. out \in Fate /\ hpc[h] \in Busy
    BY <2>1 DEF Busy, Fate
  <2> QED
    BY <2>1, <2>2, <1>s
<1>15. ASSUME NEW h \in Handler, PublishThrow(h) PROVE \A g \in Handler : Own(g)
  <2>1. /\ ppc[h] = "test" /\ hpc' = [hpc EXCEPT ![h] = "loop"] /\ cur' = [cur EXCEPT ![h] = nil]
        /\ fate' = [fate EXCEPT ![h][cur[h].msg] = "threw"]
        /\ UNCHANGED <<events, handled, events_stop>>
    BY <1>15 DEF PublishThrow, Leave, Goto
  <2>2. hpc[h] = "publish"
    BY <1>t, <2>1 DEF Publishing, Thread
  <2>3. "threw" \in Fate /\ hpc[h] \in Busy
    BY <2>2 DEF Busy, Fate
  <2> QED
    BY <2>1, <2>2, <2>3, <1>s
<1>13. ASSUME NEW h \in Handler, HandlerCall(h) PROVE \A g \in Handler : Own(g)
  <2>1. TAKE g \in Handler
  <2>2. PICK p \in {"publish", "leave"} : hpc' = [hpc EXCEPT ![h] = p]
    BY <1>13, CallEffect
  <2>3. /\ hpc[h] = "call" /\ handled' = [handled EXCEPT ![h] = Append(@, cur[h].msg)]
        /\ UNCHANGED <<events, fate, cur, events_stop>>
    BY <1>13, CallEffect
  <2>4. CASE g = h
    BY <1>t, <2>2, <2>3, <2>4 DEF Shows, Own, TypeOK
  <2>5. CASE g # h
    <3>1. SameTrace(g) /\ cur'[g] = cur[g] /\ hpc'[g] = hpc[g] /\ events_stop'[g] = events_stop[g]
      BY <1>t, <2>2, <2>3, <2>5 DEF SameTrace, TypeOK
    <3> QED
      BY <1>t, <3>1, OthersMove DEF Own
  <2> QED
    BY <2>4, <2>5
<1>14. ASSUME NEW x \in Thread, PublishDeliver(x) PROVE Delivery(x)
  <2>1. ppc[x] = "deliver" /\ prest[x] # {}
    BY <1>t, <1>14 DEF PublishDeliver, Publishing
  <2>2. PICK h \in Handler, k \in Msg : h = First(x) /\ k = pmsg[x]
    BY <1>t, <2>1, ServedHandler
  <2>3. PICK e \in Event : e = [msg |-> k, full |-> pany[x]] /\ e.msg = k
    <3>1. pany[x] \in BOOLEAN
      BY <1>t DEF TypeOK
    <3>2. PICK b \in BOOLEAN : b = pany[x]
      BY <3>1
    <3>3. [msg |-> k, full |-> b] \in Event /\ [msg |-> k, full |-> b].msg = k
      BY DEF Event
    <3> QED
      BY <3>2, <3>3, Zenon
  <2>4. /\ events' = [events EXCEPT ![h] = Append(@, e)] /\ fate' = [fate EXCEPT ![h][k] = "queued"]
        /\ hpc' = [hpc EXCEPT ![h] = IF @ = "wait" THEN "pred" ELSE @]
        /\ UNCHANGED <<events_stop, cur, handled>>
    BY <1>14, <2>2, <2>3 DEF PublishDeliver, Wake
  <2>5. Gets(h, e)
    BY <1>t, <2>3, <2>4 DEF Gets, TypeOK
  <2>6. ASSUME NEW g \in Handler, g # h PROVE Moves(g)
    <3>1. SameTrace(g) /\ cur'[g] = cur[g] /\ hpc'[g] = hpc[g] /\ events_stop'[g] = events_stop[g]
      BY <1>t, <2>4, <2>6 DEF SameTrace, TypeOK
    <3> QED
      BY <1>t, <3>1, OthersMove
  <2> QED
    BY <2>1, <2>2, <2>3, <2>5, <2>6 DEF Delivery
<1> QED
  BY <1>1, <1>2, <1>3, <1>4, <1>5, <1>6, <1>7, <1>8, <1>9, <1>10, <1>11, <1>12, <1>13, <1>14, <1>15
     DEF Next, PublishStep, OwnerStep, HandlerStep

-----------------------------------------------------------------------------
(* The accounts are kept.                                                   *)
LEMMA AccountsInit == Init => Accounts
<1> SUFFICES ASSUME Init, NEW h \in Handler
             PROVE  Account(events[h], events_stop[h], cur[h], hpc[h], fate[h], handled[h])
  BY DEF Accounts
<1>1. /\ events[h] = <<>> /\ cur[h] = nil /\ hpc[h] = "none" /\ handled[h] = <<>>
      /\ \A m \in Msg : fate[h][m] = "none"
  BY DEF Init
<1>2. Seen(<<>>) = {}
  BY DEF Seen
<1> QED
  BY <1>1, <1>2, EmptyNames DEF Account, Holds, Busy

(* Every step keeps the account of each handler's events.                   *)
LEMMA AccountsStep ==
  ASSUME BusInv, Next
  PROVE  Accounts'
<1>t. TypeOK /\ Publishing /\ Accounts
  BY DEF BusInv
<1>1. ASSUME NEW g \in Handler
      PROVE  /\ Account(events[g], events_stop[g], cur[g], hpc[g], fate[g], handled[g])
             /\ events[g] \in Seq(Event) /\ cur[g] \in Event \cup {nil}
             /\ fate[g] \in [Msg -> Fate] /\ handled[g] \in Seq(Msg)
  BY <1>t DEF Accounts, TypeOK
<1>2. ASSUME NEW g \in Handler, Own(g)
      PROVE  Account(events'[g], events_stop'[g], cur'[g], hpc'[g], fate'[g], handled'[g])
  <2>1. CASE Moves(g)
    BY <1>1, <2>1, AccountMoved DEF Moves, SameTrace
  <2>2. CASE Drops(g)
    BY <1>1, <2>2, AccountDropped DEF Drops
  <2>3. CASE Takes(g)
    <3>1. Account(Tail(events[g]), events_stop[g], Head(events[g]), "lock", fate[g], handled[g])
      BY <1>1, <2>3, AccountPopped, NilIsNoEvent DEF Takes
    <3> QED
      BY <2>3, <3>1, Zenon DEF Takes
  <2>4. CASE Shows(g)
    <3>1. cur[g] \in Event /\ cur[g].msg \in Msg
      BY <1>t, <2>4, EventInHand DEF Shows, Busy
    <3>2. Account(events[g], events_stop[g], cur[g], hpc'[g], fate[g], Append(handled[g], cur[g].msg))
      BY <1>1, <2>4, <3>1, AccountCalled, Zenon DEF Shows
    <3> QED
      BY <2>4, <3>2, Zenon DEF Shows
  <2>5. CASE Settles(g)
    BY <1>t, <1>1, <2>5, AccountSettled, EventInHand DEF Settles
  <2> QED
    BY <1>2, <2>1, <2>2, <2>3, <2>4, <2>5 DEF Own
<1>3. ASSUME NEW x \in Thread, Delivery(x), NEW g \in Handler
      PROVE  Account(events'[g], events_stop'[g], cur'[g], hpc'[g], fate'[g], handled'[g])
  <2>1. CASE g # First(x)
    BY <1>2, <1>3, <2>1 DEF Delivery, Own
  <2>2. CASE g = First(x)
    <3>1. PICK e \in Event : e.msg = pmsg[x] /\ Gets(g, e)
      BY <1>3, <2>2 DEF Delivery
    <3>2. e.msg \in Msg /\ fate[g][e.msg] = "none"
      BY <1>t, <1>3, <2>2, <3>1, ServedHandler DEF Delivery, Publishing
    <3> QED
      <4>1. Account(Append(events[g], e), events_stop[g], cur[g], hpc'[g], fate'[g], handled[g])
        <5>1. PICK q, c, f, s, p, t :
                 /\ q \in Seq(Event) /\ c \in Event \cup {nil} /\ f \in [Msg -> Fate]
                 /\ q = events[g] /\ c = cur[g] /\ f = fate[g]
                 /\ s = events_stop[g] /\ p = hpc[g] /\ t = handled[g]
          BY <1>1, Zenon
        <5>2. PICK f2, p2 : f2 = fate'[g] /\ p2 = hpc'[g]
          OBVIOUS
        <5>3. /\ Account(q, s, c, p, f, t) /\ f[e.msg] = "none" /\ e.msg \in Msg
              /\ f2 = [f EXCEPT ![e.msg] = "queued"] /\ p2 = IF p = "wait" THEN "pred" ELSE p
          BY <1>1, <3>1, <3>2, <5>1, <5>2, Zenon DEF Gets
        <5>4. Account(Append(q, e), s, c, p2, f2, t)
          BY ONLY <5>1, <5>3, AccountPushed
        <5> QED
          BY <5>1, <5>2, <5>4, Zenon
      <4> QED
        BY <3>1, <4>1, Zenon DEF Gets
  <2> QED
    BY <2>1, <2>2
<1> QED
  BY <1>2, <1>3, Steps DEF Accounts

(* The threads of handlers that are not started, and of stopped ones.        *)
LEMMA StopsStep ==
  ASSUME BusInv, Next
  PROVE  Stops'
<1> USE DEF busv, queue, thread, publish, trace
<1>t. TypeOK /\ Publishing /\ Accounts /\ Stops
  BY DEF BusInv
<1>o. ASSUME UNCHANGED <<start, opc, events_stop, hpc>> PROVE Stops'
  BY <1>t, <1>o DEF Stops
<1>m. ASSUME UNCHANGED <<start, opc, events_stop>>, NEW h \in Handler, NEW p,
             hpc' = [hpc EXCEPT ![h] = p], hpc[h] \notin {"none", "done"},
             p \in Busy /\ events_stop[h] => hpc[h] \in Busy
      PROVE  Stops'
  BY <1>t, <1>m DEF Stops, TypeOK
<1>1. ASSUME NEW x \in Client, NEW m \in Msg, PublishCall(x, m) PROVE Stops'
  BY <1>1, <1>o DEF PublishCall
<1>2. ASSUME NEW x \in Thread, PublishLock(x) \/ PublishTest(x) PROVE Stops'
  BY <1>2, <1>o DEF PublishLock, PublishTest
<1>3. ASSUME NEW x \in Thread, PublishDeliver(x) PROVE Stops'
  <2>1. PICK h \in Handler : h = First(x)
    BY <1>t, <1>3, ServedHandler DEF PublishDeliver, Publishing
  <2>2. /\ hpc' = [hpc EXCEPT ![h] = IF @ = "wait" THEN "pred" ELSE @]
        /\ UNCHANGED <<start, opc, events_stop>>
    BY <1>3, <2>1 DEF PublishDeliver, Wake
  <2> QED
    BY <1>t, <2>2 DEF Stops, TypeOK, Busy
<1>4. ASSUME NEW x \in Thread, PublishReturn(x) PROVE Stops'
  <2>1. UNCHANGED <<start, opc, events_stop>>
    BY <1>4 DEF PublishReturn
  <2>2. CASE x \in Handler
    <3>1. hpc' = [hpc EXCEPT ![x] = "leave"] /\ hpc[x] = "publish"
      BY <1>t, <1>4, <2>2 DEF PublishReturn, Publishing
    <3> QED
      BY <2>1, <2>2, <3>1, <1>m DEF Busy
  <2>3. CASE x \notin Handler
    BY <1>4, <2>1, <2>3, <1>o DEF PublishReturn
  <2> QED
    BY <2>2, <2>3
<1>5. ASSUME NEW h \in Handler,
             \/ Subscribe(h) \/ Unsubscribe(h) \/ Clear(h)
             \/ \E ty \in Type : Cancel(h, ty) \/ \E kind \in Kinds : On(h, ty, kind)
      PROVE  Stops'
  BY <1>5, <1>o DEF Subscribe, Unsubscribe, Clear, Cancel, On
<1>6. ASSUME NEW h \in Handler, Start(h) PROVE Stops'
  BY <1>t, <1>6 DEF Start, Stops, TypeOK, Busy
<1>7. ASSUME NEW h \in Handler, StopRequest(h) \/ StopSource(h) PROVE Stops'
  BY <1>t, <1>7 DEF StopRequest, StopSource, Stops, TypeOK
<1>8. ASSUME NEW h \in Handler, StopNotify(h) PROVE Stops'
  BY <1>t, <1>8 DEF StopNotify, Wake, Stops, TypeOK
<1>9. ASSUME NEW h \in Handler, StopJoin(h) \/ StopClear(h) PROVE Stops'
  BY <1>t, <1>9 DEF StopJoin, StopClear, Stops, TypeOK, Busy
<1>10. ASSUME NEW h \in Handler,
              HandlerLoop(h) \/ PopTest(h) \/ PopSleep(h) \/ SpuriousWake(h) \/ PopTake(h)
       PROVE  Stops'
  <2>1. PICK p : /\ hpc' = [hpc EXCEPT ![h] = p] /\ UNCHANGED <<start, opc, events_stop>>
                 /\ hpc[h] \notin {"none", "done"} /\ ~(p \in Busy /\ events_stop[h])
    BY <1>10 DEF HandlerLoop, PopTest, PopSleep, SpuriousWake, PopTake, Goto, Busy
  <2> QED
    BY <2>1, <1>m
<1>11. ASSUME NEW h \in Handler, HandlerLock(h) \/ HandlerCall(h) PROVE Stops'
  <2>1. PICK p : /\ hpc' = [hpc EXCEPT ![h] = p] /\ UNCHANGED <<start, opc, events_stop>>
                 /\ hpc[h] \in {"lock", "call"}
    BY <1>11, LockEffect, CallEffect
  <2> QED
    BY <2>1, <1>m DEF Busy
<1>12. ASSUME NEW h \in Handler, HandlerCast(h) \/ HandlerLeave(h) PROVE Stops'
  <2>1. /\ hpc' = [hpc EXCEPT ![h] = "loop"] /\ UNCHANGED <<start, opc, events_stop>>
        /\ hpc[h] \in {"call", "leave"}
    BY <1>12 DEF HandlerCast, HandlerLeave, Leave, Goto
  <2> QED
    BY <2>1, <1>m DEF Busy
<1>13. ASSUME NEW h \in Handler, PublishThrow(h) PROVE Stops'
  <2>1. /\ hpc' = [hpc EXCEPT ![h] = "loop"] /\ UNCHANGED <<start, opc, events_stop>>
        /\ ppc[h] = "test"
    BY <1>13 DEF PublishThrow, Leave, Goto
  <2>2. hpc[h] = "publish"
    BY <1>t, <2>1 DEF Publishing, Thread
  <2> QED
    BY <2>1, <2>2, <1>m DEF Busy
<1> QED
  BY <1>1, <1>2, <1>3, <1>4, <1>5, <1>6, <1>7, <1>8, <1>9, <1>10, <1>11, <1>12, <1>13
     DEF Next, PublishStep, OwnerStep, HandlerStep

(* A stuttering step keeps the invariant.                                   *)
LEMMA BusStutter ==
  ASSUME BusInv, UNCHANGED vars
  PROVE  BusInv'
<1> USE DEF vars, busv, queue, thread, publish, trace
<1>1. TypeOK' /\ Publishing' /\ Stops'
  BY DEF BusInv, TypeOK, Publishing, Stops
<1>2. Accounts'
  BY DEF BusInv, Accounts
<1> QED
  BY <1>1, <1>2 DEF BusInv

(* The types, Publishing, Accounts and Stops hold in every reachable        *)
(* state.                                                                   *)
LEMMA BusInvariant == Spec => []BusInv
<1>1. Init => BusInv
  <2>1. Init => Stops
    BY DEF Init, Stops
  <2> QED
    BY <2>1, TypeInit, PublishingInit, AccountsInit DEF BusInv
<1>2. BusInv /\ [Next]_vars => BusInv'
  BY TypeStep, PublishingStep, AccountsStep, StopsStep, BusStutter DEF BusInv
<1> QED
  BY <1>1, <1>2, PTL DEF Spec

(* EventBus: every variable of the bus and of its handlers keeps its type,    *)
(* callbacks that publish, Start and Stop in any order included               *)
(* (event_bus.h 16-54, event_handler.h 40-130).                              *)
THEOREM BusTypeCorrect == Spec => []TypeOK
<1>1. BusInv => TypeOK
  BY DEF BusInv
<1> QED
  BY <1>1, BusInvariant, PTL

-----------------------------------------------------------------------------
(* EventBus: a handler that has been stopped calls no callback any more, not *)
(* even after it was started again (event_handler.h 53, 65-72).             *)
THEOREM StaysStopped == Spec => StoppedForGood
<1>1. ASSUME BusInv, [Next]_vars, NEW h \in Handler, events_stop[h], opc[h] = "idle"
      PROVE  handled'[h] = handled[h]
  <2>1. CASE Next
    <3>1. hpc[h] \notin Busy
      BY <1>1 DEF BusInv, Stops
    <3>2. ASSUME Own(h) PROVE handled'[h] = handled[h]
      BY <3>1, <3>2 DEF Own, Moves, SameTrace, Drops, Takes, Shows, Settles, Busy
    <3>3. ASSUME NEW x \in Thread, Delivery(x) PROVE handled'[h] = handled[h]
      BY <3>3 DEF Delivery, Gets, Moves, SameTrace
    <3> QED
      BY <1>1, <2>1, <3>2, <3>3, Steps
  <2>2. CASE UNCHANGED vars
    BY <2>2 DEF vars, trace
  <2> QED
    BY <1>1, <2>1, <2>2
<1>2. BusInv /\ [Next]_vars
        => [\A h \in Handler : events_stop[h] /\ opc[h] = "idle" => handled'[h] = handled[h]]_vars
  BY <1>1
<1> QED
  BY <1>2, BusInvariant, PTL DEF Spec, StoppedForGood

-----------------------------------------------------------------------------
(* EventBus: an event delivered to a handler is in its queue or in the hands *)
(* of its thread, once, until it is settled; exactly the events whose        *)
(* callback was called are acknowledged or failed, or still in the callback  *)
(* (event_handler.h 52-60, 81-87, 124-126).                                 *)
THEOREM EventsAccounted == Spec => []EventAccounted
<1>1. BusInv => EventAccounted
  <2> SUFFICES ASSUME BusInv, NEW h \in Handler, NEW m \in Msg
               PROVE  /\ Cardinality(InQueue(h, m)) + (IF InHand(h, m) THEN 1 ELSE 0)
                           = IF fate[h][m] = "queued" THEN 1 ELSE 0
                      /\ fate[h][m] \in {"handled", "threw"} => m \in Called(h)
                      /\ m \in Called(h) => \/ fate[h][m] \in {"handled", "threw"}
                                            \/ InHand(h, m) /\ hpc[h] \in {"publish", "leave"}
    BY DEF EventAccounted
  <2>1. /\ Distinct(events[h]) /\ (cur[h] # nil => cur[h].msg \notin Names(events[h]))
        /\ fate[h][m] = "queued" <=> m \in Names(events[h]) \/ Holds(cur[h], m)
        /\ m \in Seen(handled[h]) <=> \/ fate[h][m] \in {"handled", "threw"}
                                      \/ Holds(cur[h], m) /\ hpc[h] \in {"publish", "leave"}
    BY DEF BusInv, Accounts, Account
  <2>2. (InHand(h, m) <=> Holds(cur[h], m)) /\ Called(h) = Seen(handled[h])
    BY DEF InHand, Holds, Called, Seen
  <2>3. CASE m \in Names(events[h])
    <3>1. PICK i \in 1 .. Len(events[h]) : events[h][i].msg = m
      BY <2>3 DEF Names
    <3>2. InQueue(h, m) = {i}
      BY <2>1, <3>1 DEF InQueue, Distinct
    <3>3. Cardinality(InQueue(h, m)) = 1
      BY <3>2, FS_Singleton, Zenon
    <3>4. ~InHand(h, m) /\ fate[h][m] = "queued"
      BY <2>1, <2>2, <2>3 DEF Holds
    <3> QED
      BY <2>1, <2>2, <3>3, <3>4
  <2>4. CASE m \notin Names(events[h])
    <3>1. InQueue(h, m) = {}
      BY <2>4 DEF InQueue, Names
    <3>2. Cardinality(InQueue(h, m)) = 0
      BY <3>1, FS_EmptySet, Zenon
    <3> QED
      BY <2>1, <2>2, <2>4, <3>2
  <2> QED
    BY <2>3, <2>4
<1> QED
  BY <1>1, BusInvariant, PTL

-----------------------------------------------------------------------------
(* The stream of a handler: a step of its own adds nothing to it.            *)
LEMMA OwnStream ==
  ASSUME BusInv, NEW g \in Handler, Own(g), NEW m, NEW n, Precedes(g, m, n)'
  PROVE  Precedes(g, m, n)
<1>t. TypeOK /\ Accounts
  BY DEF BusInv
<1>1. Stream(events'[g], cur'[g], hpc'[g], handled'[g], m, n)
  BY DEF Precedes
<1>2. /\ events[g] \in Seq(Event) /\ cur[g] \in Event \cup {nil} /\ handled[g] \in Seq(Msg)
      /\ Account(events[g], events_stop[g], cur[g], hpc[g], fate[g], handled[g])
  BY <1>t DEF Accounts, TypeOK
<1>3. CASE Moves(g)
  BY <1>1, <1>3, StreamMoved DEF Moves, SameTrace, Precedes
<1>4. CASE Drops(g)
  BY <1>1, <1>4, StreamDropped DEF Drops, Precedes
<1>5. CASE Takes(g)
  <2>1. events[g] # <<>>
    BY <1>2, <1>5 DEF Account, Takes
  <2>2. Stream(Tail(events[g]), Head(events[g]), "lock", handled[g], m, n)
    BY <1>1, <1>5, Zenon DEF Takes
  <2> QED
    BY <1>2, <2>1, <2>2, StreamPopped, Zenon DEF Precedes
<1>6. CASE Shows(g)
  <2>1. cur[g] \in Event /\ cur[g] # nil /\ cur[g].msg \in Msg
    BY <1>t, <1>6, EventInHand DEF Shows, Busy
  <2>2. Stream(events[g], cur[g], hpc'[g], Append(handled[g], cur[g].msg), m, n)
    BY <1>1, <1>6, Zenon DEF Shows
  <2> QED
    BY <1>2, <1>6, <2>1, <2>2, StreamCalled, Zenon DEF Precedes, Shows
<1>7. CASE Settles(g)
  BY <1>1, <1>7, StreamSettled DEF Settles, Precedes
<1> QED
  BY <1>3, <1>4, <1>5, <1>6, <1>7 DEF Own

(* A delivery adds its event at the end of one stream, and it is new there.  *)
LEMMA DeliveredStream ==
  ASSUME BusInv, NEW x \in Thread, Delivery(x), NEW g \in Handler, NEW m \in Msg, NEW n,
         Precedes(g, m, n)'
  PROVE  Precedes(g, m, n) \/ (n = pmsg[x] /\ m # pmsg[x])
<1>t. TypeOK /\ Accounts /\ Publishing
  BY DEF BusInv
<1>1. CASE g # First(x)
  BY <1>1, OwnStream DEF Delivery, Own
<1>2. CASE g = First(x)
  <2>1. PICK e \in Event : e.msg = pmsg[x] /\ Gets(g, e)
    BY <1>2 DEF Delivery
  <2>2. pmsg[x] \in Msg /\ fate[g][pmsg[x]] = "none"
    BY <1>t, <1>2, ServedHandler DEF Delivery, Publishing
  <2>3. /\ events[g] \in Seq(Event)
        /\ Account(events[g], events_stop[g], cur[g], hpc[g], fate[g], handled[g])
    BY <1>t DEF Accounts, TypeOK
  <2>4. Stream(Append(events[g], e), cur[g], hpc'[g], handled[g], m, n)
    BY <2>1, Zenon DEF Gets, Precedes
  <2>5. hpc'[g] \in {"lock", "call"} <=> hpc[g] \in {"lock", "call"}
    BY <2>1 DEF Gets
  <2>6. \/ Stream(events[g], cur[g], hpc[g], handled[g], m, n)
        \/ n = e.msg /\ (m \in Seen(handled[g]) \/ Holds(cur[g], m) \/ m \in Names(events[g]))
    BY <2>3, <2>4, <2>5, StreamPushed, Zenon
  <2>7. ~(pmsg[x] \in Seen(handled[g]) \/ Holds(cur[g], pmsg[x]) \/ pmsg[x] \in Names(events[g]))
    BY <2>2, <2>3, StreamKnown, Zenon
  <2> QED
    BY <2>1, <2>6, <2>7, Zenon DEF Precedes
<1> QED
  BY <1>1, <1>2

(* No stream has two events at first.                                       *)
LEMMA OrderedInit == Init => Ordered
<1> SUFFICES ASSUME Init PROVE Ordered
  OBVIOUS
<1>1. ASSUME NEW g \in Handler, NEW m, NEW n PROVE ~Precedes(g, m, n)
  <2>1. events[g] = <<>> /\ cur[g] = nil /\ handled[g] = <<>>
    BY DEF Init
  <2>2. Seen(<<>>) = {} /\ ~Saw(<<>>, m, n)
    BY DEF Seen, Saw
  <2> QED
    BY <2>1, <2>2, EmptyNames DEF Precedes, Stream, Upcoming, Holds
<1> QED
  BY <1>1 DEF Ordered, Init

(* Every step keeps the order of events the same in all streams.            *)
LEMMA OrderedStep ==
  ASSUME BusInv, Ordered, Next
  PROVE  Ordered'
<1> USE DEF busv, queue, thread, publish, trace
<1>t. TypeOK /\ Publishing /\ Accounts
  BY DEF BusInv
(* An event nobody was given is in no stream.                               *)
<1>1. ASSUME NEW m \in Msg, \A g \in Handler : fate[g][m] = "none", NEW g \in Handler, NEW n
      PROVE  ~Precedes(g, m, n)
  <2>1. Account(events[g], events_stop[g], cur[g], hpc[g], fate[g], handled[g])
    BY <1>t DEF Accounts
  <2> QED
    BY <1>1, <2>1, StreamKnown DEF Precedes
(* Who is inside Publish after the step, and was not delivering.             *)
<1>2. ASSUME ~(\E y \in Thread : PublishDeliver(y)), NEW x \in Thread, ppc'[x] \in {"test", "deliver"}
      PROVE  /\ pmsg'[x] = pmsg[x] /\ pmsg[x] \in Msg
             /\ \A g \in Handler, n \in Msg : ~Precedes(g, pmsg[x], n)
  <2>1. CASE ppc[x] \in {"test", "deliver"} /\ pmsg'[x] = pmsg[x]
    BY <1>t, <2>1 DEF Ordered, Publishing
  <2>2. CASE ppc[x] = "lock" /\ pmsg'[x] = pmsg[x]
    BY <1>t, <1>1, <2>2 DEF Publishing
  <2>3. ASSUME UNCHANGED <<ppc, pmsg>> PROVE ppc[x] \in {"test", "deliver"} /\ pmsg'[x] = pmsg[x]
    BY <1>2, <2>3
  <2>4. ASSUME NEW y \in Thread, NEW k \in Msg \cup {nil},
               \/ ppc' = [ppc EXCEPT ![y] = "lock"]
               \/ ppc' = [ppc EXCEPT ![y] = "idle"],
               pmsg' = [pmsg EXCEPT ![y] = k]
        PROVE  ppc[x] \in {"test", "deliver"} /\ pmsg'[x] = pmsg[x]
    BY <1>t, <1>2, <2>4 DEF TypeOK
  <2>5. ASSUME NEW y \in Client, NEW m \in Msg, PublishCall(y, m)
        PROVE  ppc[x] \in {"test", "deliver"} /\ pmsg'[x] = pmsg[x]
    BY <2>4, <2>5 DEF PublishCall, Enter, Thread
  <2>6. ASSUME NEW y \in Thread, PublishLock(y) \/ PublishTest(y)
        PROVE  ppc[x] \in {"test", "deliver", "lock"} /\ pmsg'[x] = pmsg[x]
    <3>1. CASE PublishLock(y)
      BY <1>t, <1>2, <3>1 DEF PublishLock, TypeOK
    <3>2. CASE PublishTest(y)
      <4>1. ppc[y] = "test" /\ pmsg' = pmsg /\ (ppc' = ppc \/ ppc' = [ppc EXCEPT ![y] = "deliver"])
        BY <3>2, TestEffect
      <4> QED
        BY <1>t, <1>2, <4>1 DEF TypeOK
    <3> QED
      BY <2>6, <3>1, <3>2
  <2>7. ASSUME NEW y \in Thread, PublishReturn(y) \/ PublishThrow(y)
        PROVE  ppc[x] \in {"test", "deliver"} /\ pmsg'[x] = pmsg[x]
    BY <2>4, <2>7 DEF PublishReturn, PublishThrow
  <2>8. ASSUME NEW h \in Handler, HandlerCall(h)
        PROVE  ppc[x] \in {"test", "deliver"} /\ pmsg'[x] = pmsg[x]
    <3>1. CASE UNCHANGED <<ppc, pmsg>>
      BY <2>3, <3>1
    <3>2. CASE Reply[cur[h].msg] # nil /\ Enter(h, Reply[cur[h].msg])
      <4>1. cur[h].msg \in Msg
        BY <1>t, <2>8, CallEffect, EventInHand DEF Busy
      <4>2. Reply[cur[h].msg] \in Msg
        BY <3>2, <4>1, EventBusAssumption
      <4>3. PICK k \in Msg : Enter(h, k)
        BY <3>2, <4>2
      <4> QED
        BY <2>4, <4>3 DEF Enter, Thread
    <3> QED
      BY <2>8, <3>1, <3>2, CallEffect
  <2>9. ASSUME NEW h \in Handler,
               \/ Subscribe(h) \/ Unsubscribe(h) \/ Clear(h) \/ Start(h) \/ StopRequest(h)
               \/ OwnerStep(h) \/ SpuriousWake(h)
               \/ \E ty \in Type : Cancel(h, ty) \/ \E kind \in Kinds : On(h, ty, kind)
               \/ HandlerLoop(h) \/ PopTest(h) \/ PopSleep(h) \/ PopTake(h)
               \/ HandlerLock(h) \/ HandlerCast(h) \/ HandlerLeave(h)
        PROVE  ppc[x] \in {"test", "deliver"} /\ pmsg'[x] = pmsg[x]
    <3>1. UNCHANGED <<ppc, pmsg>>
      BY <2>9, Zenon
         DEF Subscribe, Unsubscribe, Clear, Start, StopRequest, OwnerStep, StopSource, StopNotify,
             StopJoin, StopClear, SpuriousWake, Cancel, On, HandlerLoop, PopTest, PopSleep,
             PopTake, HandlerLock, HandlerCast, HandlerLeave
    <3> QED
      BY <2>3, <3>1
  <2>10. ppc[x] \in {"test", "deliver", "lock"} /\ pmsg'[x] = pmsg[x]
    BY <1>2, <2>5, <2>6, <2>7, <2>8, <2>9 DEF Next, PublishStep, HandlerStep, Thread
  <2> QED
    BY <2>1, <2>2, <2>10
<1>3. ASSUME NEW x \in Thread, PublishDeliver(x), Delivery(x) PROVE Ordered'
  <2>1. ppc[x] = "deliver" /\ bus_mutex = x /\ pmsg[x] \in Msg
    BY <1>t, <1>3 DEF Delivery, Publishing
  <2>2. \A g \in Handler, n \in Msg : ~Precedes(g, pmsg[x], n)
    BY <2>1 DEF Ordered
  <2>3. ASSUME NEW g \in Handler, NEW h \in Handler, NEW m \in Msg, NEW n \in Msg,
               Precedes(g, m, n)', Precedes(h, n, m)'
        PROVE  FALSE
    <3>1. Precedes(g, m, n) \/ (n = pmsg[x] /\ m # pmsg[x])
      BY <1>3, <2>3, DeliveredStream
    <3>2. Precedes(h, n, m) \/ (m = pmsg[x] /\ n # pmsg[x])
      BY <1>3, <2>3, DeliveredStream
    <3> QED
      BY <2>2, <3>1, <3>2 DEF Ordered
  <2>4. ASSUME NEW y \in Thread, ppc'[y] \in {"test", "deliver"}
        PROVE  y = x /\ pmsg'[y] = pmsg[x]
    <3>1. ppc' = [ppc EXCEPT ![x] = "test"] /\ pmsg' = pmsg
      BY <1>3 DEF PublishDeliver
    <3>2. y # x => ppc[y] \in {"test", "deliver"}
      BY <1>t, <2>4, <3>1 DEF TypeOK
    <3>3. y = x
      BY <1>t, <2>1, <3>2 DEF Publishing
    <3> QED
      BY <3>1, <3>3
  <2>5. ASSUME NEW g \in Handler, NEW n \in Msg, Precedes(g, pmsg[x], n)' PROVE FALSE
    <3>1. PICK k \in Msg : k = pmsg[x] /\ k = pmsg'[x]
      BY <1>3, <2>1 DEF PublishDeliver
    <3>2. Precedes(g, k, n)'
      BY <2>5, <3>1, Zenon DEF Precedes
    <3>3. Precedes(g, k, n) \/ (n = pmsg[x] /\ k # pmsg[x])
      BY <1>3, <3>2, DeliveredStream
    <3> QED
      BY <2>2, <3>1, <3>3
  <2> QED
    BY <2>3, <2>4, <2>5 DEF Ordered
<1>4. ASSUME \A g \in Handler : Own(g), ~(\E y \in Thread : PublishDeliver(y)) PROVE Ordered'
  <2>1. ASSUME NEW g \in Handler, NEW h \in Handler, NEW m \in Msg, NEW n \in Msg,
               Precedes(g, m, n)', Precedes(h, n, m)'
        PROVE  FALSE
    BY <1>4, <2>1, OwnStream DEF Ordered
  <2>2. ASSUME NEW x \in Thread, ppc'[x] \in {"test", "deliver"}, NEW g \in Handler, NEW n \in Msg,
               Precedes(g, pmsg[x], n)'
        PROVE  FALSE
    <3>1. PICK k \in Msg : k = pmsg[x] /\ k = pmsg'[x]
      BY <1>2, <1>4, <2>2
    <3>2. Precedes(g, k, n)'
      BY <2>2, <3>1, Zenon DEF Precedes
    <3>3. Precedes(g, k, n)
      BY <1>4, <3>2, OwnStream
    <3> QED
      BY <1>2, <1>4, <2>2, <3>1, <3>3
  <2> QED
    BY <2>1, <2>2 DEF Ordered
<1> QED
  BY <1>3, <1>4, Steps

(* The order of events is the same in all streams in every reachable        *)
(* state.                                                                   *)
LEMMA OrderedInvariant == Spec => [](BusInv /\ Ordered)
<1>1. BusInv /\ Ordered /\ UNCHANGED vars => Ordered'
  BY DEF vars, queue, thread, publish, trace, Ordered, Precedes
<1>2. BusInv /\ Ordered /\ [Next]_vars => Ordered'
  BY <1>1, OrderedStep
<1> QED
  BY <1>2, OrderedInit, BusInvariant, PTL DEF Spec

(* EventBus: all handlers see the events they have in common in one order,   *)
(* and none sees an event twice, whoever publishes, callbacks included       *)
(* (event_bus.h 35-42, 47-54).                                              *)
THEOREM OneOrder == Spec => []SameOrder
<1>1. ASSUME NEW h \in Handler, NEW m, NEW n, Before(h, m, n) PROVE Precedes(h, m, n)
  BY <1>1 DEF Before, Precedes, Stream, Saw
<1>2. Ordered => SameOrder
  BY <1>1 DEF Ordered, SameOrder
<1> QED
  BY <1>2, OrderedInvariant, PTL
=============================================================================
