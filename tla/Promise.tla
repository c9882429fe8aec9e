------------------------------ MODULE Promise ------------------------------
(***************************************************************************)
(* ema::Promise and ema::Future (include/thread/thread.h): two kinds of     *)
(* handles on a shared state that is settled once, by SetSuccessed or       *)
(* SetFailed, and then calls the callback that Then or Fail has left.       *)
(*                                                                         *)
(* A handle is an atomic pointer.  Every call loads it once and then works  *)
(* on the state; a move is a load, a store and a second store that clears   *)
(* the source, and other threads may use either handle between them.  A     *)
(* callback runs while its caller holds the mutex of the state.  Both types *)
(* of the template are taken not to be void; a void callback is called in   *)
(* the same cases, without a value.                                        *)
(***************************************************************************)
EXTENDS Naturals, FiniteSets

CONSTANTS
  Thread,     \* the threads that use the handles
  Prom, Fut,  \* Promise and Future objects
  ThenCb,     \* callbacks handed to Then, each once
  FailCb,     \* callbacks handed to Fail, each once
  Reentrant,  \* the callbacks that ask or settle the state they are called for
  Fragile,    \* the states whose value has a constructor that may throw
  MaxMoves,   \* model bound: handles copied, moved or got
  nil

(* Promise() makes a state of its own, named after the object.              *)
State == Prom
Handle == Prom \cup Fut
Callback == ThenCb \cup FailCb

ASSUME PromiseAssumption ==
  /\ Prom \cap Fut = {}
  /\ ThenCb \cap FailCb = {}
  /\ Reentrant \subseteq Callback
  /\ Fragile \subseteq Prom
  /\ MaxMoves \in Nat
  /\ nil \notin Thread \cup Handle \cup Callback

VARIABLES
  ptr,           \* _state of each handle, nil when moved from
  moves,         \* transfers so far
  mutex,         \* who holds the mutex of each state, or nil
  is_finished, is_successed,
  s_func, f_func,  \* _s_func and _f_func of each state, or nil
  value,         \* the optional of the settled side: "none", "full", "moved"
  pc,            \* where each thread is
  state,         \* the pointer it has loaded
  from, to,      \* the handles of its transfer; from is nil in a copy
  arg,           \* its argument: a callback, or TRUE for success
  on,            \* the state each callback was handed to, or nil
  got            \* what has become of each callback

handles == <<ptr, moves>>
shared == <<mutex, is_finished, is_successed, s_func, f_func, value>>
local == <<pc, state, from, to, arg>>
vars == <<handles, shared, local, on, got>>

(***************************************************************************)
(* A thread is outside ("idle"), in a transfer before the store ("store")   *)
(* or before clearing the source ("clear"), about to take the mutex to      *)
(* settle ("settle") or to register ("register"), or in a callback          *)
(* ("call").  A callback has not been handed over ("new"), is on its way or *)
(* stored ("pending"), was replaced ("replaced"), was called with the value *)
(* ("value") or with what a move has left of it ("moved"), or was thrown    *)
(* away because the settled state has no value ("dropped").                 *)
(***************************************************************************)
PC == {"idle", "store", "clear", "settle", "register", "call"}
Got == {"new", "pending", "replaced", "value", "moved", "dropped"}
Called == {"value", "moved"}

TypeOK ==
  /\ ptr \in [Handle -> State \cup {nil}]
  /\ moves \in 0 .. MaxMoves
  /\ mutex \in [State -> Thread \cup {nil}]
  /\ is_finished \in [State -> BOOLEAN]
  /\ is_successed \in [State -> BOOLEAN]
  /\ s_func \in [State -> ThenCb \cup {nil}]
  /\ f_func \in [State -> FailCb \cup {nil}]
  /\ value \in [State -> {"none", "full", "moved"}]
  /\ pc \in [Thread -> PC]
  /\ state \in [Thread -> State \cup {nil}]
  /\ from \in [Thread -> Handle \cup {nil}]
  /\ to \in [Thread -> Handle \cup {nil}]
  /\ arg \in [Thread -> Callback \cup BOOLEAN \cup {nil}]
  /\ on \in [Callback -> State \cup {nil}]
  /\ got \in [Callback -> Got]

Init ==
  /\ ptr = [h \in Handle |-> IF h \in Prom THEN h ELSE nil]
  /\ moves = 0
  /\ mutex = [s \in State |-> nil]
  /\ is_finished = [s \in State |-> FALSE]
  /\ is_successed = [s \in State |-> FALSE]
  /\ s_func = [s \in State |-> nil]
  /\ f_func = [s \in State |-> nil]
  /\ value = [s \in State |-> "none"]
  /\ pc = [t \in Thread |-> "idle"]
  /\ state = [t \in Thread |-> nil]
  /\ from = [t \in Thread |-> nil]
  /\ to = [t \in Thread |-> nil]
  /\ arg = [t \in Thread |-> nil]
  /\ on = [c \in Callback |-> nil]
  /\ got = [c \in Callback |-> "new"]

-----------------------------------------------------------------------------
Return(t) ==
  /\ pc' = [pc EXCEPT ![t] = "idle"]
  /\ state' = [state EXCEPT ![t] = nil]
  /\ from' = [from EXCEPT ![t] = nil]
  /\ to' = [to EXCEPT ![t] = nil]
  /\ arg' = [arg EXCEPT ![t] = nil]

(* Transfers of handles.                                                    *)
Load(t, a, b, source) ==
  /\ pc[t] = "idle"
  /\ moves < MaxMoves
  /\ moves' = moves + 1
  /\ pc' = [pc EXCEPT ![t] = "store"]
  /\ state' = [state EXCEPT ![t] = ptr[a]]
  /\ from' = [from EXCEPT ![t] = source]
  /\ to' = [to EXCEPT ![t] = b]
  /\ UNCHANGED <<ptr, shared, arg, on, got>>

(* GetFuture of a promise that was moved from throws and changes nothing.    *)
GetFuture(t, p, f) == ptr[p] # nil /\ Load(t, p, f, nil)

CopyFuture(t, f, g) == f # g /\ Load(t, f, g, nil)

MoveFuture(t, f, g) == f # g /\ Load(t, f, g, f)

(* Promise has no test for a move to itself.                                *)
MovePromise(t, p, q) == Load(t, p, q, p)

Store(t) ==
  /\ pc[t] = "store"
  /\ ptr' = [ptr EXCEPT ![to[t]] = state[t]]
  /\ IF from[t] = nil
     THEN Return(t)
     ELSE pc' = [pc EXCEPT ![t] = "clear"] /\ UNCHANGED <<state, from, to, arg>>
  /\ UNCHANGED <<moves, shared, on, got>>

ClearSource(t) ==
  /\ pc[t] = "clear"
  /\ ptr' = [ptr EXCEPT ![from[t]] = nil]
  /\ Return(t)
  /\ UNCHANGED <<moves, shared, on, got>>

-----------------------------------------------------------------------------
(* Calls on a handle that holds a state; on one that does not, nothing       *)
(* happens.                                                                *)
SetCall(t, p, ok) ==
  /\ pc[t] = "idle"
  /\ ptr[p] # nil
  /\ pc' = [pc EXCEPT ![t] = "settle"]
  /\ state' = [state EXCEPT ![t] = ptr[p]]
  /\ arg' = [arg EXCEPT ![t] = ok]
  /\ UNCHANGED <<handles, shared, from, to, on, got>>

ThenCall(t, f, c) ==
  /\ pc[t] = "idle"
  /\ ptr[f] # nil
  /\ got[c] = "new"
  /\ pc' = [pc EXCEPT ![t] = "register"]
  /\ state' = [state EXCEPT ![t] = ptr[f]]
  /\ arg' = [arg EXCEPT ![t] = c]
  /\ on' = [on EXCEPT ![c] = ptr[f]]
  /\ got' = [got EXCEPT ![c] = "pending"]
  /\ UNCHANGED <<handles, shared, from, to>>

(* Variant: the value is copied, not moved.                                 *)
InvokeCopy(t, s, c, v) ==
  /\ mutex' = [mutex EXCEPT ![s] = t]
  /\ pc' = [pc EXCEPT ![t] = "call"]
  /\ arg' = [arg EXCEPT ![t] = c]
  /\ got' = [got EXCEPT ![c] = IF v = "full" THEN "value" ELSE "moved"]
  /\ value' = [value EXCEPT ![s] = "full"]
  /\ UNCHANGED <<state, from, to>>

(* A callback is called under the mutex; the optional stays, emptied.       *)
Invoke(t, s, c, v) ==
  /\ mutex' = [mutex EXCEPT ![s] = t]
  /\ pc' = [pc EXCEPT ![t] = "call"]
  /\ arg' = [arg EXCEPT ![t] = c]
  /\ got' = [got EXCEPT ![c] = IF v = "full" THEN "value" ELSE "moved"]
  /\ value' = [value EXCEPT ![s] = "moved"]
  /\ UNCHANGED <<state, from, to>>

Func(s, ok) == IF ok THEN s_func[s] ELSE f_func[s]

(* Variant: the outcome is set before the test.                             *)
SettleAgain(t) ==
  LET s == state[t]
  IN /\ pc[t] = "settle"
     /\ mutex[s] = nil
     /\ is_finished' = [is_finished EXCEPT ![s] = TRUE]
     /\ is_successed' = [is_successed EXCEPT ![s] = arg[t]]
     /\ IF ~is_finished[s] /\ Func(s, arg[t]) # nil
        THEN Invoke(t, s, Func(s, arg[t]), "full")
        ELSE /\ Return(t)
             /\ value' = [value EXCEPT ![s] = IF is_finished[s] THEN @ ELSE "full"]
             /\ UNCHANGED <<mutex, got>>
     /\ UNCHANGED <<handles, s_func, f_func, on>>

(* SetSuccessed and SetFailed: the first to take the mutex settles.  The     *)
(* outcome is set before the value is constructed; a constructor that throws *)
(* leaves the state settled without a value, and no callback is called.      *)
Settle(t) ==
  LET s == state[t]
      c == Func(s, arg[t])
  IN /\ pc[t] = "settle"
     /\ mutex[s] = nil
     /\ \/ /\ is_finished[s]
           /\ Return(t)
           /\ UNCHANGED <<mutex, is_finished, is_successed, value, got>>
        \/ /\ ~is_finished[s]
           /\ is_finished' = [is_finished EXCEPT ![s] = TRUE]
           /\ is_successed' = [is_successed EXCEPT ![s] = arg[t]]
           /\ \/ /\ c # nil
                 /\ Invoke(t, s, c, "full")
              \/ /\ c = nil
                 /\ Return(t)
                 /\ value' = [value EXCEPT ![s] = "full"]
                 /\ UNCHANGED <<mutex, got>>
              \/ /\ s \in Fragile
                 /\ Return(t)
                 /\ UNCHANGED <<mutex, value, got>>
     /\ UNCHANGED <<handles, s_func, f_func, on>>

(* SetSuccessFunc and SetFailFunc: called at once if the state was settled   *)
(* their way and has a value, thrown away if it has none, and stored         *)
(* otherwise, in the place of the one before.                               *)
(* Variant: any settled state will do.                                      *)
FitsAny(s, c) == is_finished[s]

(* Variant: the outcome is not looked at.                                   *)
FitsNever(s, c) == FALSE

Fits(s, c) == is_finished[s] /\ is_successed[s] = (c \in ThenCb)

Keep(s, c) ==
  LET old == Func(s, c \in ThenCb)
  IN /\ IF c \in ThenCb
        THEN s_func' = [s_func EXCEPT ![s] = c] /\ UNCHANGED f_func
        ELSE f_func' = [f_func EXCEPT ![s] = c] /\ UNCHANGED s_func
     /\ got' = [d \in Callback |-> IF d = old THEN "replaced" ELSE got[d]]

Register(t) ==
  LET s == state[t]
      c == arg[t]
  IN /\ pc[t] = "register"
     /\ mutex[s] = nil
     /\ \/ /\ Fits(s, c)
           /\ value[s] # "none"
           /\ Invoke(t, s, c, value[s])
           /\ UNCHANGED <<s_func, f_func>>
        \/ /\ Fits(s, c)
           /\ value[s] = "none"
           /\ got' = [got EXCEPT ![c] = "dropped"]
           /\ Return(t)
           /\ UNCHANGED <<mutex, s_func, f_func, value>>
        \/ /\ ~Fits(s, c)
           /\ Keep(s, c)
           /\ Return(t)
           /\ UNCHANGED <<mutex, value>>
     /\ UNCHANGED <<handles, is_finished, is_successed, on>>

(* Variant: the mutex stays locked.                                         *)
CallEndLocked(t) ==
  /\ pc[t] = "call"
  /\ Return(t)
  /\ UNCHANGED <<handles, shared, on, got>>

(* The callback returns or throws.  One that takes the mutex of its state    *)
(* again is undefined: it may never come back, or throw.                    *)
CallEnd(t) ==
  /\ pc[t] = "call"
  /\ mutex' = [mutex EXCEPT ![state[t]] = nil]
  /\ Return(t)
  /\ UNCHANGED <<handles, is_finished, is_successed, s_func, f_func, value, on, got>>

-----------------------------------------------------------------------------
Next ==
  \E t \in Thread :
    \/ \E p \in Prom, f \in Fut : GetFuture(t, p, f)
    \/ \E f, g \in Fut : CopyFuture(t, f, g) \/ MoveFuture(t, f, g)
    \/ \E p, q \in Prom : MovePromise(t, p, q)
    \/ Store(t)
    \/ ClearSource(t)
    \/ \E p \in Prom, ok \in BOOLEAN : SetCall(t, p, ok)
    \/ \E f \in Fut, c \in Callback : ThenCall(t, f, c)
    \/ Settle(t)
    \/ Register(t)
    \/ CallEnd(t)

Spec == Init /\ [][Next]_vars

(* A thread inside a call moves when it can; a callback that comes back to   *)
(* the mutex of its own state need not end.                                 *)
Fairness ==
  \A t \in Thread :
    /\ WF_vars(Store(t) \/ ClearSource(t))
    /\ WF_vars(Settle(t) \/ Register(t))
    /\ WF_vars(arg[t] \notin Reentrant /\ CallEnd(t))

FairSpec == Spec /\ Fairness

-----------------------------------------------------------------------------
OutcomeKept ==
  \A s \in State : is_finished[s] => is_finished'[s] /\ is_successed'[s] = is_successed[s]

(* The outcome is final.  Moves of a promise can leave two handles on one    *)
(* state and threads can settle it at the same time in both ways; the first  *)
(* wins (thread.h 113-149, 258-271).                                        *)
SettledOnce == [][OutcomeKept]_vars

(* A registration and the settlement may cross: of the callbacks handed to   *)
(* Then, over any future of a state, the last one stored before the state    *)
(* succeeds is called, and so is every later one; the same for Fail.  Not    *)
(* called are replaced callbacks, those of the other side, those whose       *)
(* registration still waits for the mutex, and all callbacks of a state      *)
(* whose value was lost, because its constructor threw after _is_finished    *)
(* was set: a later callback of its side is thrown away, and that happens    *)
(* to no other (thread.h 89-149).                                           *)
Registering(c) == \E t \in Thread : pc[t] = "register" /\ arg[t] = c

Lost(s) == s \in Fragile /\ is_finished[s] /\ value[s] = "none"

LastCallbackCalled ==
  \A c \in Callback :
    /\ (got[c] = "pending" /\ ~Registering(c)) =>
          /\ Func(on[c], c \in ThenCb) = c
          /\ is_finished[on[c]] => is_successed[on[c]] # (c \in ThenCb) \/ Lost(on[c])
    /\ got[c] = "dropped" => Lost(on[c]) /\ is_successed[on[c]] = (c \in ThenCb)

(* Never are callbacks of both sides of a state called (92, 104, 116, 135).  *)
OneSide ==
  \A c \in ThenCb, d \in FailCb :
    (got[c] \in Called /\ got[d] \in Called) => on[c] # on[d]

(* The value of a settled state is in one place: still in the state, or      *)
(* moved into the first callback that was called; callbacks after it get     *)
(* what the move has left.  Only if its constructor threw is it in none,     *)
(* and then no callback of the state is called, with a value or without      *)
(* (thread.h 94, 106, 118-128, 137-147).                                    *)
Holders(s) == {c \in Callback : on[c] = s /\ got[c] = "value"}

ValueInOnePlace ==
  /\ \A s \in State :
       Cardinality(Holders(s)) + (IF value[s] = "full" THEN 1 ELSE 0)
         = IF is_finished[s] /\ ~Lost(s) THEN 1 ELSE 0
  /\ \A c \in Callback : got[c] \in Called => is_finished[on[c]] /\ ~Lost(on[c])

(* Every call on a promise or a future comes back, unless a callback that    *)
(* comes back to its own state holds the mutex for ever: callbacks run under *)
(* it (thread.h 91-148).                                                    *)
CallsReturn ==
  \A t \in Thread :
    pc[t] # "idle" ~> \/ pc[t] = "idle"
                      \/ \E u \in Thread : pc[u] = "call" /\ arg[u] \in Reentrant
=============================================================================
