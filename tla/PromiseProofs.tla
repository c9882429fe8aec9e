--------------------------- MODULE PromiseProofs ---------------------------
(***************************************************************************)
(* Proofs about module Promise, for any threads, handles and callbacks.     *)
(* Types are inductive only together with what a thread inside a call has   *)
(* loaded: a settling thread carries a state and an outcome, a registering  *)
(* one a state and a callback, a transferring one its handles.              *)
(***************************************************************************)
EXTENDS Promise, FiniteSetTheorems, TLAPS

(* What a thread carries at each point of its call.                         *)
Operands ==
  \A t \in Thread :
    /\ pc[t] = "store" => to[t] \in Handle
    /\ pc[t] = "clear" => from[t] \in Handle
    /\ pc[t] \in {"settle", "register", "call"} => state[t] \in State
    /\ pc[t] = "settle" => arg[t] \in BOOLEAN
    /\ pc[t] = "register" => arg[t] \in Callback

TypeInv == TypeOK /\ Operands

(* Transfers, calls and ends of calls keep the types.                       *)
LEMMA HandlesKeepTypes ==
  ASSUME TypeInv, NEW t \in Thread,
         \/ \E a \in Prom, b \in Fut : GetFuture(t, a, b)
         \/ \E a, b \in Fut : CopyFuture(t, a, b) \/ MoveFuture(t, a, b)
         \/ \E a, b \in Prom : MovePromise(t, a, b)
         \/ Store(t) \/ ClearSource(t)
         \/ \E a \in Prom, ok \in BOOLEAN : SetCall(t, a, ok)
         \/ \E a \in Fut, c \in Callback : ThenCall(t, a, c)
         \/ CallEnd(t)
  PROVE  TypeInv'
<1> USE PromiseAssumption DEF TypeInv, TypeOK, Operands, PC, Handle, shared, handles
<1>1. ASSUME NEW a \in Handle, NEW b \in Handle, NEW c \in Handle \cup {nil},
             c = nil \/ c = a, Load(t, a, b, c)
      PROVE  TypeInv'
  BY <1>1 DEF Load
<1>2. CASE \E a \in Prom, b \in Fut : GetFuture(t, a, b)
  BY <1>1, <1>2 DEF GetFuture
<1>3. CASE \E a, b \in Fut : CopyFuture(t, a, b) \/ MoveFuture(t, a, b)
  BY <1>1, <1>3 DEF CopyFuture, MoveFuture
<1>4. CASE \E a, b \in Prom : MovePromise(t, a, b)
  BY <1>1, <1>4 DEF MovePromise
<1>5. CASE Store(t)
  BY <1>5 DEF Store, Return
<1>6. CASE ClearSource(t)
  BY <1>6 DEF ClearSource, Return
<1>7. CASE \E a \in Prom, ok \in BOOLEAN : SetCall(t, a, ok)
  BY <1>7 DEF SetCall
<1>8. CASE \E a \in Fut, c \in Callback : ThenCall(t, a, c)
  BY <1>8 DEF ThenCall, Got
<1>9. CASE CallEnd(t)
  BY <1>9 DEF CallEnd, Return
<1> QED
  BY <1>2, <1>3, <1>4, <1>5, <1>6, <1>7, <1>8, <1>9

(* The call of a callback keeps the types.                                  *)
LEMMA InvokeKeepsTypes ==
  ASSUME TypeInv, NEW t \in Thread, NEW s \in State, state[t] = s,
         NEW c \in Callback, NEW v, Invoke(t, s, c, v),
         is_finished' \in [State -> BOOLEAN], is_successed' \in [State -> BOOLEAN],
         UNCHANGED <<handles, s_func, f_func, on>>
  PROVE  TypeInv'
  BY PromiseAssumption DEF TypeInv, TypeOK, Operands, PC, Got, handles, Invoke

(* Settling keeps the types.                                                *)
LEMMA SettleKeepsTypes ==
  ASSUME TypeInv, NEW t \in Thread, Settle(t)
  PROVE  TypeInv'
<1> DEFINE s == state[t]
           c == Func(s, arg[t])
<1>1. s \in State /\ arg[t] \in BOOLEAN /\ pc[t] = "settle"
  BY DEF TypeInv, Operands, Settle
<1>2. c \in Callback \cup {nil}
  BY <1>1 DEF TypeInv, TypeOK, Func, Callback
<1>3. CASE is_finished[s]
  BY <1>1, <1>3, PromiseAssumption DEF Settle, TypeInv, TypeOK, Operands, PC, Return, handles
<1>4. CASE ~is_finished[s]
  <2>1. /\ is_finished' \in [State -> BOOLEAN]
        /\ is_successed' \in [State -> BOOLEAN]
        /\ UNCHANGED <<handles, s_func, f_func, on>>
    BY <1>1, <1>4 DEF Settle, TypeInv, TypeOK
  <2>2. CASE c # nil /\ Invoke(t, s, c, "full")
    BY <1>1, <1>2, <2>1, <2>2, InvokeKeepsTypes
  <2>3. CASE Return(t) /\ value' \in {value, [value EXCEPT ![s] = "full"]} /\ UNCHANGED <<mutex, got>>
    BY <1>1, <1>4, <2>1, <2>3, PromiseAssumption
       DEF Settle, TypeInv, TypeOK, Operands, PC, Return, handles
  <2> QED
    BY <1>4, <2>2, <2>3 DEF Settle
<1> QED
  BY <1>3, <1>4

(* Registering a callback keeps the types.                                  *)
LEMMA RegisterKeepsTypes ==
  ASSUME TypeInv, NEW t \in Thread, Register(t)
  PROVE  TypeInv'
<1> DEFINE s == state[t]
           c == arg[t]
<1>1. s \in State /\ c \in Callback /\ pc[t] = "register"
  BY DEF TypeInv, Operands, Register
<1>2. /\ is_finished' \in [State -> BOOLEAN]
      /\ is_successed' \in [State -> BOOLEAN]
      /\ UNCHANGED <<handles, is_finished, is_successed, on>>
  BY DEF Register, TypeInv, TypeOK
<1>3. CASE Fits(s, c) /\ value[s] # "none"
  <2>1. Invoke(t, s, c, value[s]) /\ UNCHANGED <<s_func, f_func>>
    BY <1>3 DEF Register
  <2> QED
    BY <1>1, <1>2, <2>1, InvokeKeepsTypes
<1>5. CASE Fits(s, c) /\ value[s] = "none"
  BY <1>1, <1>2, <1>5, PromiseAssumption
     DEF Register, Return, TypeInv, TypeOK, Operands, PC, Got, handles
<1>4. CASE ~Fits(s, c)
  <2>1. Keep(s, c) /\ Return(t) /\ UNCHANGED <<mutex, value>>
    BY <1>4 DEF Register
  <2>2. /\ s_func' \in [State -> ThenCb \cup {nil}]
        /\ f_func' \in [State -> FailCb \cup {nil}]
        /\ got' \in [Callback -> Got]
    BY <1>1, <2>1 DEF Keep, TypeInv, TypeOK, Callback, Got
  <2> QED
    BY <1>1, <1>2, <2>1, <2>2, PromiseAssumption
       DEF Return, TypeInv, TypeOK, Operands, PC, handles
<1> QED
  BY <1>3, <1>4, <1>5

(* TypeInv is an invariant: every reachable state has its type, and every    *)
(* thread carries what the rest of its call needs (thread.h 210-286).        *)
LEMMA TypeInvariant == Spec => []TypeInv
<1>1. Init => TypeInv
  BY PromiseAssumption DEF Init, TypeInv, TypeOK, Operands, Handle, State, PC, Got, Callback
<1>2. TypeInv /\ [Next]_vars => TypeInv'
  <2> SUFFICES ASSUME TypeInv, [Next]_vars PROVE TypeInv'
    OBVIOUS
  <2>1. CASE Next
    BY <2>1, HandlesKeepTypes, SettleKeepsTypes, RegisterKeepsTypes DEF Next
  <2>2. CASE UNCHANGED vars
    BY <2>2 DEF vars, handles, shared, local, TypeInv, TypeOK, Operands
  <2> QED
    BY <2>1, <2>2
<1> QED
  BY <1>1, <1>2, PTL DEF Spec

(* Every variable keeps its type; no call works on a null state once it has  *)
(* begun (thread.h 210-286).                                                *)
THEOREM TypeCorrect == Spec => []TypeOK
<1>1. TypeInv => TypeOK
  BY DEF TypeInv
<1> QED
  BY <1>1, TypeInvariant, PTL

(* The outcome of a state is final, however many handles and threads settle  *)
(* it: SetFailed and SetSuccessed return under the mutex when it is finished *)
(* (thread.h 113-149).                                                      *)
THEOREM OutcomeFinal == Spec => SettledOnce
<1>1. TypeInv /\ [Next]_vars => [OutcomeKept]_vars
  <2> SUFFICES ASSUME TypeInv, Next PROVE OutcomeKept
    OBVIOUS
  <2>1. CASE \E t \in Thread : Settle(t)
    <3>1. PICK t \in Thread : Settle(t)
      BY <2>1
    <3>2. state[t] \in State
      BY <3>1 DEF TypeInv, Operands, Settle
    <3> QED
      BY <3>1, <3>2 DEF Settle, TypeInv, TypeOK, OutcomeKept
  <2>2. CASE UNCHANGED <<is_finished, is_successed>>
    BY <2>2 DEF OutcomeKept
  <2> QED
    BY <2>1, <2>2 DEF Next, GetFuture, CopyFuture, MoveFuture, MovePromise, Load, Store,
                      ClearSource, SetCall, ThenCall, Register, CallEnd, shared
<1> QED
  BY <1>1, TypeInvariant, PTL DEF Spec, SettledOnce

-----------------------------------------------------------------------------
(* A stored callback, and one on its way, was handed to that very state.     *)
Placed ==
  /\ \A s \in State : s_func[s] # nil => on[s_func[s]] = s /\ got[s_func[s]] # "new"
  /\ \A s \in State : f_func[s] # nil => on[f_func[s]] = s /\ got[f_func[s]] # "new"
  /\ \A t \in Thread : pc[t] = "register" => on[arg[t]] = state[t] /\ got[arg[t]] # "new"

(* A callback that was handed over has a state, and one that was called is   *)
(* on the side its state was settled to, with a value.                      *)
CalledFits ==
  \A c \in Callback :
    /\ got[c] # "new" => on[c] \in State
    /\ got[c] \in Called => /\ is_finished[on[c]] /\ is_successed[on[c]] = (c \in ThenCb)
                            /\ value[on[c]] # "none"

(* There is no value before the state is settled, and one afterwards unless  *)
(* its constructor has thrown.                                              *)
Unset ==
  \A s \in State :
    /\ ~is_finished[s] => value[s] = "none"
    /\ is_finished[s] /\ s \notin Fragile => value[s] # "none"

CallbackInv == TypeInv /\ Placed /\ CalledFits /\ Unset /\ LastCallbackCalled

(* Steps that touch neither callbacks nor outcomes keep the invariant.       *)
LEMMA OtherStepsKeepCallbacks ==
  ASSUME CallbackInv, TypeInv',
         UNCHANGED <<is_finished, is_successed, s_func, f_func, value, on, got>>,
         \A u \in Thread : (pc[u] = "register" \/ pc'[u] = "register") =>
                             pc'[u] = pc[u] /\ arg'[u] = arg[u] /\ state'[u] = state[u]
  PROVE  CallbackInv'
  BY DEF CallbackInv, Placed, CalledFits, Unset, LastCallbackCalled, Registering, Func, Lost

(* Handing a callback over keeps the invariant: it is on its way.            *)
LEMMA ThenKeepsCallbacks ==
  ASSUME CallbackInv, TypeInv', NEW t \in Thread, NEW f \in Fut, NEW c \in Callback,
         ThenCall(t, f, c)
  PROVE  CallbackInv'
<1> USE DEF CallbackInv, TypeInv, TypeOK, ThenCall, shared, handles
<1>1. /\ ptr[f] \in State /\ got[c] = "new"
      /\ on' = [on EXCEPT ![c] = ptr[f]] /\ got' = [got EXCEPT ![c] = "pending"]
      /\ UNCHANGED <<is_finished, is_successed, s_func, f_func, value>>
  BY DEF Handle
<1>2. \A u \in Thread \ {t} : pc'[u] = pc[u] /\ arg'[u] = arg[u] /\ state'[u] = state[u]
  OBVIOUS
<1>3. pc[t] = "idle" /\ pc'[t] = "register" /\ arg'[t] = c /\ state'[t] = ptr[f]
  OBVIOUS
<1>4. Placed'
  BY <1>1, <1>2, <1>3 DEF Placed, Operands, Callback
<1>5. CalledFits'
  BY <1>1 DEF CalledFits, Called
<1>6. LastCallbackCalled'
  BY <1>1, <1>2, <1>3 DEF LastCallbackCalled, Registering, Func, Lost
<1>7. Unset'
  BY <1>1 DEF Unset
<1> QED
  BY <1>4, <1>5, <1>6, <1>7

(* Settling keeps the invariant: the callback stored for the outcome is      *)
(* called in the same critical section, or the value is lost.               *)
LEMMA SettleKeepsCallbacks ==
  ASSUME CallbackInv, TypeInv', NEW t \in Thread, Settle(t)
  PROVE  CallbackInv'
<1> DEFINE s == state[t]
           c == Func(s, arg[t])
<1>1. s \in State /\ arg[t] \in BOOLEAN /\ pc[t] = "settle"
  BY DEF CallbackInv, TypeInv, Operands, Settle
<1>2. UNCHANGED <<s_func, f_func, on>>
  BY DEF Settle
<1>3. \A u \in Thread : (pc[u] = "register" \/ pc'[u] = "register") =>
                         pc'[u] = pc[u] /\ arg'[u] = arg[u] /\ state'[u] = state[u]
  BY <1>1 DEF Settle, Invoke, Return, CallbackInv, TypeInv, TypeOK
<1>4. CASE is_finished[s]
  <2>1. UNCHANGED <<is_finished, is_successed, s_func, f_func, value, on, got>>
    BY <1>4, <1>2 DEF Settle
  <2> QED
    BY <2>1, <1>3, OtherStepsKeepCallbacks
<1>5. CASE ~is_finished[s]
  <2>1. /\ is_finished' = [is_finished EXCEPT ![s] = TRUE]
        /\ is_successed' = [is_successed EXCEPT ![s] = arg[t]]
    BY <1>5 DEF Settle
  <2>2. \/ c # nil /\ got' = [got EXCEPT ![c] = "value"] /\ value' = [value EXCEPT ![s] = "moved"]
        \/ c = nil /\ got' = got /\ value' = [value EXCEPT ![s] = "full"]
        \/ s \in Fragile /\ got' = got /\ value' = value
    BY <1>5 DEF Settle, Invoke
  <2>3. c # nil => /\ c \in Callback /\ on[c] = s /\ got[c] # "new"
                   /\ (c \in ThenCb) = arg[t]
    BY <1>1, PromiseAssumption DEF Func, CallbackInv, TypeInv, TypeOK, Placed, Callback
  <2>4. \A d \in Callback : \/ got'[d] = got[d]
                            \/ d = c /\ c # nil /\ got'[d] = "value" /\ value'[s] # "none"
    BY <1>1, <2>2, <2>3 DEF CallbackInv, TypeInv, TypeOK
  <2>8. value[s] = "none" /\ \A r \in State \ {s} : value'[r] = value[r]
    BY <1>1, <1>5, <2>2 DEF CallbackInv, Unset, TypeInv, TypeOK
  <2>9. Unset'
    <3>1. s \in Fragile \/ value'[s] # "none"
      BY <1>1, <2>2 DEF CallbackInv, TypeInv, TypeOK
    <3> QED
      BY <1>1, <2>1, <2>8, <3>1 DEF Unset, CallbackInv, TypeInv, TypeOK
  <2>5. Placed'
    BY <1>1, <1>2, <1>3, <2>4 DEF Placed, CallbackInv, TypeInv, TypeOK, Operands, Callback
  <2>6. CalledFits'
    BY <1>1, <1>2, <1>5, <2>1, <2>3, <2>4, <2>8
       DEF CalledFits, Called, CallbackInv, TypeInv, TypeOK
  <2>7. LastCallbackCalled'
    <3>1. ASSUME NEW d \in Callback, got'[d] = "pending", ~Registering(d)'
          PROVE  /\ Func(on[d], d \in ThenCb)' = d
                 /\ is_finished'[on'[d]] =>
                      is_successed'[on'[d]] # (d \in ThenCb) \/ Lost(on[d])'
      <4>1. got[d] = "pending" /\ ~Registering(d)
        BY <1>3, <2>4, <3>1 DEF Registering
      <4>2. /\ Func(on[d], d \in ThenCb) = d /\ on[d] \in State
            /\ is_finished[on[d]] => is_successed[on[d]] # (d \in ThenCb) \/ Lost(on[d])
        BY <4>1 DEF CallbackInv, LastCallbackCalled, CalledFits
      <4>3. CASE on[d] = s /\ arg[t] = (d \in ThenCb)
        <5>1. d = c /\ d # nil
          BY <4>2, <4>3, PromiseAssumption
        <5>2. s \in Fragile /\ got' = got /\ value' = value
          BY <2>2, <3>1, <5>1 DEF CallbackInv, TypeInv, TypeOK
        <5> QED
          BY <1>1, <1>2, <2>1, <2>8, <4>2, <4>3, <5>2
             DEF Func, Lost, CallbackInv, TypeInv, TypeOK
      <4>4. CASE on[d] = s /\ arg[t] # (d \in ThenCb)
        BY <1>1, <1>2, <2>1, <4>2, <4>4 DEF Func, CallbackInv, TypeInv, TypeOK
      <4>5. CASE on[d] # s
        BY <1>1, <1>2, <2>1, <2>8, <4>2, <4>5 DEF Func, Lost, CallbackInv, TypeInv, TypeOK
      <4> QED
        BY <4>3, <4>4, <4>5
    <3>2. ASSUME NEW d \in Callback, got'[d] = "dropped"
          PROVE  Lost(on[d])' /\ is_successed'[on'[d]] = (d \in ThenCb)
      <4>1. got[d] = "dropped" /\ on[d] \in State
        BY <2>4, <3>2 DEF CallbackInv, CalledFits
      <4>2. Lost(on[d]) /\ is_successed[on[d]] = (d \in ThenCb) /\ on[d] # s
        BY <1>5, <4>1 DEF CallbackInv, LastCallbackCalled, Lost
      <4> QED
        BY <1>1, <1>2, <2>1, <2>8, <4>1, <4>2 DEF Lost, CallbackInv, TypeInv, TypeOK
    <3> QED
      BY <3>1, <3>2 DEF LastCallbackCalled
  <2> QED
    BY <2>5, <2>6, <2>7, <2>9 DEF CallbackInv
<1> QED
  BY <1>4, <1>5

(* Registering keeps the invariant: under the mutex the callback is called   *)
(* at once, finds that the value was lost, or takes the place of the one     *)
(* before.                                                                 *)
LEMMA RegisterKeepsCallbacks ==
  ASSUME CallbackInv, TypeInv', NEW t \in Thread, Register(t)
  PROVE  CallbackInv'
<1> DEFINE s == state[t]
           c == arg[t]
<1>1. /\ s \in State /\ c \in Callback /\ pc[t] = "register"
      /\ on[c] = s /\ got[c] # "new"
  BY DEF CallbackInv, TypeInv, Operands, Register, Placed
<1>2. UNCHANGED <<is_finished, is_successed, on>>
  BY DEF Register
<1>3. /\ \A u \in Thread \ {t} : pc'[u] = pc[u] /\ arg'[u] = arg[u] /\ state'[u] = state[u]
      /\ pc'[t] # "register"
  BY <1>1 DEF Register, Invoke, Return, CallbackInv, TypeInv, TypeOK
<1>4. \A d \in Callback : d # c => (Registering(d)' <=> Registering(d))
  BY <1>1, <1>3 DEF Registering
<1>8. ASSUME Fits(s, c)
      PROVE  /\ UNCHANGED <<s_func, f_func>> /\ \A d \in Callback \ {c} : got'[d] = got[d]
             /\ \A r \in State : value'[r] = value[r] \/ (value[r] # "none" /\ value'[r] = "moved")
             /\ \/ value[s] # "none" /\ got'[c] \in Called
                \/ value[s] = "none" /\ got'[c] = "dropped"
  BY <1>1, <1>8 DEF Register, Invoke, Called, CallbackInv, TypeInv, TypeOK
<1>5. CASE Fits(s, c)
  <2>1. \A r \in State : value'[r] = "none" <=> value[r] = "none"
    BY <1>5, <1>8
  <2>2. Placed'
    BY <1>1, <1>2, <1>3, <1>5, <1>8
       DEF Placed, Called, CallbackInv, TypeInv, TypeOK, Operands, Callback
  <2>3. CalledFits'
    BY <1>1, <1>2, <1>5, <1>8, <2>1 DEF CalledFits, Called, Fits, CallbackInv
  <2>5. Unset'
    BY <1>2, <2>1 DEF Unset, CallbackInv
  <2>4. LastCallbackCalled'
    <3>1. \A d \in Callback \ {c} : on[d] \in State => (Lost(on[d])' <=> Lost(on[d]))
      BY <1>2, <2>1 DEF Lost
    <3>2. \A d \in Callback \ {c} : got[d] # "new" => on[d] \in State
      BY DEF CallbackInv, CalledFits
    <3>3. ASSUME NEW d \in Callback, d = c, got'[d] = "dropped"
          PROVE  Lost(on[d])' /\ is_successed'[on'[d]] = (d \in ThenCb)
      <4>1. Fits(s, d) /\ on'[d] = s /\ is_finished' = is_finished /\ is_successed' = is_successed
        BY <1>1, <1>2, <1>5, <3>3
      <4>2. value'[s] = "none"
        BY <1>1, <1>5, <1>8, <2>1, <3>3 DEF Called
      <4>3. value[s] = "none" /\ is_finished[s]
        BY <1>1, <2>1, <4>1, <4>2 DEF Fits
      <4>4. s \in Fragile
        BY <1>1, <4>3 DEF CallbackInv, Unset
      <4> QED
        BY <4>1, <4>2, <4>4 DEF Lost, Fits
    <3>4. ASSUME NEW d \in Callback, d # c
          PROVE  /\ (got'[d] = "pending" /\ ~Registering(d)') =>
                      /\ Func(on[d], d \in ThenCb)' = d
                      /\ is_finished'[on'[d]] =>
                           is_successed'[on'[d]] # (d \in ThenCb) \/ Lost(on[d])'
                 /\ got'[d] = "dropped" =>
                      Lost(on[d])' /\ is_successed'[on'[d]] = (d \in ThenCb)
      BY <1>2, <1>4, <1>5, <1>8, <3>1, <3>2, <3>4 DEF LastCallbackCalled, Func, CallbackInv
    <3>5. got'[c] # "pending"
      BY <1>5, <1>8 DEF Called
    <3> QED
      BY <3>3, <3>4, <3>5 DEF LastCallbackCalled
  <2> QED
    BY <2>2, <2>3, <2>4, <2>5 DEF CallbackInv
<1>6. CASE ~Fits(s, c)
  <2> DEFINE old == Func(s, c \in ThenCb)
  <2>1. /\ c \in ThenCb => s_func' = [s_func EXCEPT ![s] = c] /\ f_func' = f_func
        /\ c \notin ThenCb => f_func' = [f_func EXCEPT ![s] = c] /\ s_func' = s_func
        /\ got' = [d \in Callback |-> IF d = old THEN "replaced" ELSE got[d]]
        /\ value' = value
    BY <1>6 DEF Register, Keep
  <2>2. \A d \in Callback : got'[d] = got[d] \/ (d = old /\ got'[d] = "replaced")
    BY <2>1
  <2>3. old = nil \/ (old \in Callback /\ on[old] = s /\ got[old] # "new")
    BY <1>1 DEF Func, Placed, CallbackInv, TypeInv, TypeOK, Callback
  <2>4. Placed'
    BY <1>1, <1>2, <1>3, <2>1, <2>2
       DEF Placed, CallbackInv, TypeInv, TypeOK, Operands, Callback
  <2>5. CalledFits'
    BY <1>2, <2>1, <2>2, <2>3, PromiseAssumption DEF CalledFits, Called, CallbackInv
  <2>7. Unset'
    BY <1>2, <2>1 DEF Unset, CallbackInv
  <2>6. LastCallbackCalled'
    <3> SUFFICES ASSUME NEW d \in Callback
                 PROVE  /\ (got'[d] = "pending" /\ ~Registering(d)') =>
                             /\ Func(on[d], d \in ThenCb)' = d
                             /\ is_finished'[on'[d]] =>
                                  is_successed'[on'[d]] # (d \in ThenCb) \/ Lost(on[d])'
                        /\ got'[d] = "dropped" =>
                             Lost(on[d])' /\ is_successed'[on'[d]] = (d \in ThenCb)
      BY DEF LastCallbackCalled
    <3>1. Lost(on[d])' <=> Lost(on[d])
      BY <1>2, <2>1 DEF Lost
    <3>2. ASSUME got'[d] = "dropped"
          PROVE  Lost(on[d])' /\ is_successed'[on'[d]] = (d \in ThenCb)
      BY <1>2, <2>2, <3>1, <3>2 DEF CallbackInv, LastCallbackCalled
    <3>3. ASSUME d = c, got'[d] = "pending"
          PROVE  /\ Func(on[d], d \in ThenCb)' = d
                 /\ is_finished'[on'[d]] => is_successed'[on'[d]] # (d \in ThenCb)
      BY <1>1, <1>2, <1>6, <2>1, <3>3 DEF Func, Fits, CallbackInv, TypeInv, TypeOK
    <3>4. ASSUME d # c, got'[d] = "pending", ~Registering(d)'
          PROVE  /\ Func(on[d], d \in ThenCb)' = d
                 /\ is_finished'[on'[d]] =>
                      is_successed'[on'[d]] # (d \in ThenCb) \/ Lost(on[d])'
      <4>1. got[d] = "pending" /\ ~Registering(d) /\ d # old
        BY <1>4, <2>1, <2>2, <3>4
      <4>2. /\ Func(on[d], d \in ThenCb) = d /\ on[d] \in State
            /\ is_finished[on[d]] => is_successed[on[d]] # (d \in ThenCb) \/ Lost(on[d])
        BY <4>1 DEF CallbackInv, LastCallbackCalled, CalledFits
      <4>3. Func(on[d], d \in ThenCb)' = d
        BY <1>1, <1>2, <2>1, <4>1, <4>2 DEF Func, CallbackInv, TypeInv, TypeOK
      <4> QED
        BY <1>2, <3>1, <4>2, <4>3
    <3> QED
      BY <3>2, <3>3, <3>4
  <2> QED
    BY <2>4, <2>5, <2>6, <2>7 DEF CallbackInv
<1> QED
  BY <1>5, <1>6

(* CallbackInv is an invariant.                                             *)
LEMMA CallbackInvariant == Spec => []CallbackInv
<1>1. Init /\ TypeInv => CallbackInv
  BY DEF Init, CallbackInv, Placed, CalledFits, Unset, LastCallbackCalled, Called
<1>2. CallbackInv /\ TypeInv' /\ [Next]_vars => CallbackInv'
  <2> SUFFICES ASSUME CallbackInv, TypeInv', [Next]_vars PROVE CallbackInv'
    OBVIOUS
  <2> USE OtherStepsKeepCallbacks DEF CallbackInv, TypeInv, TypeOK, shared
  <2>1. CASE UNCHANGED vars
    BY <2>1 DEF vars, local
  <2>2. ASSUME NEW t \in Thread, Store(t) \/ ClearSource(t) \/ CallEnd(t) PROVE CallbackInv'
    BY <2>2 DEF Store, ClearSource, CallEnd, Return
  <2>3. ASSUME NEW t \in Thread, NEW a, NEW b, NEW h, Load(t, a, b, h) PROVE CallbackInv'
    BY <2>3 DEF Load
  <2>4. ASSUME NEW t \in Thread, NEW a \in Prom, NEW ok \in BOOLEAN, SetCall(t, a, ok)
        PROVE  CallbackInv'
    BY <2>4 DEF SetCall
  <2> QED
    BY <2>1, <2>2, <2>3, <2>4, ThenKeepsCallbacks, SettleKeepsCallbacks, RegisterKeepsCallbacks
       DEF Next, GetFuture, CopyFuture, MoveFuture, MovePromise
<1> QED
  BY <1>1, <1>2, TypeInvariant, PTL DEF Spec

(* For any number of threads, futures and callbacks, a registration that     *)
(* crosses the settlement is not lost: the last callback stored, and every   *)
(* later one, is called, unless the constructor of the value threw; only     *)
(* then is a callback thrown away (thread.h 89-149).                         *)
THEOREM NoCallbackLost == Spec => []LastCallbackCalled
<1>1. CallbackInv => LastCallbackCalled
  BY DEF CallbackInv
<1> QED
  BY <1>1, CallbackInvariant, PTL

(* A state never calls both a Then and a Fail callback (thread.h 89-149).     *)
THEOREM OneSideOnly == Spec => []OneSide
<1>1. CallbackInv => OneSide
  BY PromiseAssumption DEF CallbackInv, CalledFits, OneSide, Callback
<1> QED
  BY <1>1, CallbackInvariant, PTL

-----------------------------------------------------------------------------
(* A callback whose registration waits for the mutex is there for the first  *)
(* time: nobody has called it, stored it or registers it as well.            *)
FirstTime ==
  \A t \in Thread : pc[t] = "register" =>
    /\ got[arg[t]] = "pending"
    /\ \A s \in State : s_func[s] # arg[t] /\ f_func[s] # arg[t]
    /\ \A u \in Thread : pc[u] = "register" /\ arg[u] = arg[t] => u = t

(* Callback c was called with the value of state s.                          *)
Has(s, c) == on[c] = s /\ got[c] = "value"

(* Where the value of a state is: nowhere before it is settled, then in the  *)
(* state, then with one callback; or nowhere for good.                      *)
Whereabouts ==
  \A s \in State :
    /\ ~is_finished[s] => value[s] = "none"
    /\ value[s] \in {"none", "full"} => \A c \in Callback : ~Has(s, c)
    /\ value[s] = "moved" =>
         \E c \in Callback : Has(s, c) /\ \A d \in Callback : Has(s, d) => d = c

ValueInv == CallbackInv /\ FirstTime /\ Whereabouts

(* Steps that touch neither callbacks nor outcomes keep the invariant.       *)
LEMMA OtherStepsKeepValue ==
  ASSUME ValueInv, CallbackInv',
         UNCHANGED <<is_finished, s_func, f_func, value, on, got>>,
         \A u \in Thread : pc'[u] = "register" => pc[u] = "register" /\ arg'[u] = arg[u]
  PROVE  ValueInv'
<1>1. FirstTime'
  BY DEF ValueInv, FirstTime
<1>2. Whereabouts'
  BY DEF ValueInv, Whereabouts, Has
<1> QED
  BY <1>1, <1>2 DEF ValueInv

(* Handing a callback over keeps the invariant: it was new.                  *)
LEMMA ThenKeepsValue ==
  ASSUME ValueInv, CallbackInv', NEW t \in Thread, NEW f \in Fut, NEW c \in Callback,
         ThenCall(t, f, c)
  PROVE  ValueInv'
<1>1. /\ got[c] = "new" /\ pc[t] = "idle"
      /\ \A d \in Callback : got'[d] = IF d = c THEN "pending" ELSE got[d]
      /\ \A d \in Callback : d # c => on'[d] = on[d]
      /\ \A u \in Thread : pc'[u] = IF u = t THEN "register" ELSE pc[u]
      /\ \A u \in Thread : arg'[u] = IF u = t THEN c ELSE arg[u]
      /\ UNCHANGED <<is_finished, s_func, f_func, value>>
  BY DEF ThenCall, shared, ValueInv, CallbackInv, TypeInv, TypeOK
<1>2. /\ \A s \in State : s_func[s] # c /\ f_func[s] # c
      /\ \A u \in Thread : pc[u] = "register" => arg[u] # c /\ arg[u] \in Callback
  <2>1. /\ s_func \in [State -> ThenCb \cup {nil}] /\ f_func \in [State -> FailCb \cup {nil}]
        /\ c # nil
    BY PromiseAssumption DEF ValueInv, CallbackInv, TypeInv, TypeOK
  <2> QED
    BY <1>1, <2>1 DEF ValueInv, CallbackInv, Placed, TypeInv, Operands
<1>3. FirstTime'
  BY <1>1, <1>2 DEF ValueInv, FirstTime
<1>4. \A s \in State, d \in Callback : Has(s, d)' <=> Has(s, d)
  BY <1>1 DEF Has
<1>5. Whereabouts'
  BY <1>1, <1>4 DEF ValueInv, Whereabouts
<1> QED
  BY <1>3, <1>5 DEF ValueInv

(* Settling keeps the invariant: the value is new, and goes to the callback  *)
(* that was stored for the outcome or stays in the state.                   *)
LEMMA SettleKeepsValue ==
  ASSUME ValueInv, CallbackInv', NEW t \in Thread, Settle(t)
  PROVE  ValueInv'
<1>1. PICK s \in State : s = state[t]
  BY DEF ValueInv, CallbackInv, TypeInv, Operands, Settle
<1>2. /\ UNCHANGED <<s_func, f_func, on>>
      /\ \A u \in Thread : pc'[u] = "register" => pc[u] = "register" /\ arg'[u] = arg[u]
  BY DEF Settle, Invoke, Return, ValueInv, CallbackInv, TypeInv, TypeOK
<1>3. CASE is_finished[s]
  <2>1. UNCHANGED <<is_finished, s_func, f_func, value, on, got>>
    BY <1>1, <1>2, <1>3 DEF Settle
  <2> QED
    BY <1>2, <2>1, OtherStepsKeepValue
<1>5. CASE ~is_finished[s] /\ got' = got /\ value' = value
  <2>1. is_finished' = [is_finished EXCEPT ![s] = TRUE]
    BY <1>1, <1>5 DEF Settle
  <2>2. FirstTime'
    BY <1>2, <1>5 DEF ValueInv, FirstTime
  <2>3. Whereabouts'
    BY <1>1, <1>2, <1>5, <2>1 DEF ValueInv, Whereabouts, Has, CallbackInv, TypeInv, TypeOK
  <2> QED
    BY <2>2, <2>3 DEF ValueInv
<1>4. CASE ~is_finished[s] /\ ~(got' = got /\ value' = value)
  <2>1. PICK c : c = Func(s, arg[t])
    OBVIOUS
  <2>2. /\ is_finished' = [is_finished EXCEPT ![s] = TRUE]
        /\ \/ c # nil /\ got' = [got EXCEPT ![c] = "value"] /\ value' = [value EXCEPT ![s] = "moved"]
           \/ c = nil /\ got' = got /\ value' = [value EXCEPT ![s] = "full"]
    BY <1>1, <1>4, <2>1 DEF Settle, Invoke
  <2>3. /\ \A r \in State : is_finished'[r] = IF r = s THEN TRUE ELSE is_finished[r]
        /\ \A r \in State \ {s} : value'[r] = value[r]
        /\ \/ c # nil /\ value'[s] = "moved"
              /\ \A d \in Callback : got'[d] = IF d = c THEN "value" ELSE got[d]
           \/ c = nil /\ value'[s] = "full" /\ \A d \in Callback : got'[d] = got[d]
    BY <2>2 DEF ValueInv, CallbackInv, TypeInv, TypeOK
  <2>4. c # nil => c \in Callback /\ on[c] = s /\ \E r \in State : s_func[r] = c \/ f_func[r] = c
    BY <2>1 DEF Func, ValueInv, CallbackInv, Placed, TypeInv, TypeOK, Callback
  <2>5. \A d \in Callback : ~Has(s, d)
    BY <1>4 DEF ValueInv, Whereabouts
  <2>6. FirstTime'
    <3>1. \A u \in Thread : pc[u] = "register" => arg[u] \in Callback /\ (c # nil => arg[u] # c)
      BY <2>4 DEF ValueInv, FirstTime, CallbackInv, TypeInv, Operands
    <3> QED
      BY <1>2, <2>3, <3>1 DEF ValueInv, FirstTime
  <2>7. \A r \in State, d \in Callback :
          Has(r, d)' <=> (Has(r, d) \/ (r = s /\ c # nil /\ d = c))
    BY <1>2, <2>3, <2>4 DEF Has
  <2>8. Whereabouts'
    <3> SUFFICES ASSUME NEW r \in State
                 PROVE  /\ ~is_finished'[r] => value'[r] = "none"
                        /\ value'[r] \in {"none", "full"} => \A d \in Callback : ~Has(r, d)'
                        /\ value'[r] = "moved" =>
                             \E d \in Callback :
                               Has(r, d)' /\ \A e \in Callback : Has(r, e)' => e = d
      BY DEF Whereabouts
    <3>1. CASE r = s
      BY <2>3, <2>4, <2>5, <2>7, <3>1
    <3>2. CASE r # s
      BY <2>3, <2>7, <3>2 DEF ValueInv, Whereabouts
    <3> QED
      BY <3>1, <3>2
  <2> QED
    BY <2>6, <2>8 DEF ValueInv
<1> QED
  BY <1>3, <1>4, <1>5

(* Registering keeps the invariant: a callback that is called at once gets   *)
(* the value if it is still there, one that is thrown away or replaced was   *)
(* not called.                                                             *)
LEMMA RegisterKeepsValue ==
  ASSUME ValueInv, CallbackInv', NEW t \in Thread, Register(t)
  PROVE  ValueInv'
<1>1. PICK s \in State, c \in Callback :
        s = state[t] /\ c = arg[t] /\ pc[t] = "register" /\ on[c] = s /\ got[c] = "pending"
  BY DEF ValueInv, CallbackInv, TypeInv, Operands, Register, Placed, FirstTime
<1>2. /\ UNCHANGED <<is_finished, is_successed, on>>
      /\ \A u \in Thread : pc'[u] = "register" =>
                             u # t /\ pc[u] = "register" /\ arg'[u] = arg[u] /\ arg[u] # c
  <2>1. /\ UNCHANGED <<is_finished, is_successed, on>> /\ pc'[t] # "register"
        /\ \A u \in Thread \ {t} : pc'[u] = pc[u] /\ arg'[u] = arg[u]
    BY <1>1 DEF Register, Invoke, Return, ValueInv, CallbackInv, TypeInv, TypeOK
  <2> QED
    BY <1>1, <2>1 DEF ValueInv, FirstTime
<1>5. CASE Fits(s, c) /\ value[s] = "none"
  <2>1. /\ UNCHANGED <<s_func, f_func, value>>
        /\ \A d \in Callback : got'[d] = IF d = c THEN "dropped" ELSE got[d]
    BY <1>1, <1>5 DEF Register, ValueInv, CallbackInv, TypeInv, TypeOK
  <2>2. \A u \in Thread : pc[u] = "register" => arg[u] \in Callback
    BY DEF ValueInv, CallbackInv, TypeInv, Operands
  <2>3. FirstTime'
    BY <1>2, <2>1, <2>2 DEF ValueInv, FirstTime
  <2>4. \A r \in State, d \in Callback : Has(r, d)' <=> Has(r, d)
    BY <1>1, <1>2, <2>1 DEF Has
  <2>5. Whereabouts'
    BY <1>2, <2>1, <2>4 DEF ValueInv, Whereabouts
  <2> QED
    BY <2>3, <2>5 DEF ValueInv
<1>3. CASE Fits(s, c) /\ value[s] # "none"
  <2>1. /\ UNCHANGED <<s_func, f_func>>
        /\ got' = [got EXCEPT ![c] = IF value[s] = "full" THEN "value" ELSE "moved"]
        /\ value' = [value EXCEPT ![s] = "moved"]
    BY <1>1, <1>3 DEF Register, Invoke
  <2>2. /\ \A d \in Callback : got'[d] = IF d = c THEN IF value[s] = "full" THEN "value" ELSE "moved"
                                                  ELSE got[d]
        /\ \A r \in State : value'[r] = IF r = s THEN "moved" ELSE value[r]
    BY <2>1 DEF ValueInv, CallbackInv, TypeInv, TypeOK
  <2>3. FirstTime'
    <3>1. \A u \in Thread : pc[u] = "register" => arg[u] \in Callback
      BY DEF ValueInv, CallbackInv, TypeInv, Operands
    <3> QED
      BY <1>2, <2>1, <2>2, <3>1 DEF ValueInv, FirstTime
  <2>4. \A r \in State, d \in Callback :
          Has(r, d)' <=> (Has(r, d) \/ (r = s /\ d = c /\ value[s] = "full"))
    BY <1>1, <1>2, <2>2 DEF Has
  <2>5. is_finished[s] /\ value[s] \in {"full", "moved"}
    BY <1>3 DEF Fits, ValueInv, CallbackInv, TypeInv, TypeOK
  <2>6. Whereabouts'
    <3> SUFFICES ASSUME NEW r \in State
                 PROVE  /\ ~is_finished'[r] => value'[r] = "none"
                        /\ value'[r] \in {"none", "full"} => \A d \in Callback : ~Has(r, d)'
                        /\ value'[r] = "moved" =>
                             \E d \in Callback :
                               Has(r, d)' /\ \A e \in Callback : Has(r, e)' => e = d
      BY DEF Whereabouts
    <3>1. CASE r = s /\ value[s] = "full"
      BY <1>1, <1>2, <2>2, <2>4, <2>5, <3>1 DEF ValueInv, Whereabouts
    <3>2. CASE r # s \/ value[s] = "moved"
      BY <1>2, <2>2, <2>4, <2>5, <3>2 DEF ValueInv, Whereabouts
    <3> QED
      BY <2>5, <3>1, <3>2
  <2> QED
    BY <2>3, <2>6 DEF ValueInv
<1>4. CASE ~Fits(s, c)
  <2>1. PICK old : old = Func(s, c \in ThenCb)
    OBVIOUS
  <2>2. /\ c \in ThenCb => s_func' = [s_func EXCEPT ![s] = c] /\ f_func' = f_func
        /\ c \notin ThenCb => f_func' = [f_func EXCEPT ![s] = c] /\ s_func' = s_func
        /\ got' = [d \in Callback |-> IF d = old THEN "replaced" ELSE got[d]]
        /\ value' = value
    BY <1>1, <1>4, <2>1 DEF Register, Keep
  <2>3. /\ \A r \in State : s_func'[r] \in {s_func[r], c} /\ f_func'[r] \in {f_func[r], c}
        /\ \A d \in Callback : got'[d] = IF d = old THEN "replaced" ELSE got[d]
    BY <2>2 DEF ValueInv, CallbackInv, TypeInv, TypeOK
  <2>4. old \in Callback =>
          /\ \E r \in State : s_func[r] = old \/ f_func[r] = old
          /\ on[old] = s /\ (old \in ThenCb <=> c \in ThenCb)
    BY <1>1, <2>1, PromiseAssumption
       DEF Func, ValueInv, CallbackInv, Placed, TypeInv, TypeOK, Callback
  <2>5. old \in Callback => got[old] # "value"
    BY <1>4, <2>4 DEF Fits, ValueInv, CallbackInv, CalledFits, Called
  <2>6. FirstTime'
    <3>1. \A u \in Thread : pc[u] = "register" => arg[u] \in Callback /\ arg[u] # old
      BY <2>4 DEF ValueInv, FirstTime, CallbackInv, TypeInv, Operands
    <3>2. \A u \in Thread : pc'[u] = "register" =>
            /\ got'[arg'[u]] = "pending"
            /\ \A r \in State : s_func'[r] # arg'[u] /\ f_func'[r] # arg'[u]
      BY <1>2, <2>3, <3>1 DEF ValueInv, FirstTime
    <3> QED
      BY <1>2, <3>2 DEF ValueInv, FirstTime
  <2>7. \A r \in State, d \in Callback : Has(r, d)' <=> Has(r, d)
    BY <1>2, <2>3, <2>5 DEF Has
  <2>8. Whereabouts'
    BY <1>2, <2>2, <2>7 DEF ValueInv, Whereabouts
  <2> QED
    BY <2>6, <2>8 DEF ValueInv
<1> QED
  BY <1>3, <1>4, <1>5

(* ValueInv is an invariant.                                                *)
LEMMA ValueInvariant == Spec => []ValueInv
<1>1. Init /\ CallbackInv => ValueInv
  BY DEF Init, ValueInv, FirstTime, Whereabouts, Has
<1>2. ValueInv /\ CallbackInv' /\ [Next]_vars => ValueInv'
  <2> SUFFICES ASSUME ValueInv, CallbackInv', [Next]_vars PROVE ValueInv'
    OBVIOUS
  <2> USE OtherStepsKeepValue DEF ValueInv, CallbackInv, TypeInv, TypeOK, shared
  <2>1. CASE UNCHANGED vars
    BY <2>1 DEF vars, local
  <2>2. ASSUME NEW t \in Thread, Store(t) \/ ClearSource(t) \/ CallEnd(t) PROVE ValueInv'
    BY <2>2 DEF Store, ClearSource, CallEnd, Return
  <2>3. ASSUME NEW t \in Thread, NEW a, NEW b, NEW h, Load(t, a, b, h) PROVE ValueInv'
    BY <2>3 DEF Load
  <2>4. ASSUME NEW t \in Thread, NEW a \in Prom, NEW ok \in BOOLEAN, SetCall(t, a, ok)
        PROVE  ValueInv'
    BY <2>4 DEF SetCall
  <2> QED
    BY <2>1, <2>2, <2>3, <2>4, ThenKeepsValue, SettleKeepsValue, RegisterKeepsValue
       DEF Next, GetFuture, CopyFuture, MoveFuture, MovePromise
<1> QED
  BY <1>1, <1>2, CallbackInvariant, PTL DEF Spec

(* For any number of threads and callbacks, the value of a settled state is   *)
(* in the state or with exactly one callback, never copied; it is nowhere    *)
(* only if its constructor threw, and then no callback of the state is       *)
(* called (thread.h 89-149).                                                *)
THEOREM ValueNeverCopied == Spec => []ValueInOnePlace
<1>1. ASSUME ValueInv, NEW s \in State
      PROVE  Cardinality(Holders(s)) + (IF value[s] = "full" THEN 1 ELSE 0)
               = IF is_finished[s] /\ ~Lost(s) THEN 1 ELSE 0
  <2>1. CASE value[s] \in {"none", "full"}
    <3>1. Holders(s) = {}
      BY <1>1, <2>1 DEF ValueInv, Whereabouts, Has, Holders
    <3>2. Cardinality(Holders(s)) = 0
      BY <3>1, FS_EmptySet
    <3> QED
      BY <1>1, <2>1, <3>2 DEF ValueInv, Whereabouts, Lost, CallbackInv, Unset, TypeInv, TypeOK
  <2>2. CASE value[s] = "moved"
    <3>1. PICK c \in Callback : Has(s, c) /\ \A d \in Callback : Has(s, d) => d = c
      BY <1>1, <2>2 DEF ValueInv, Whereabouts
    <3>2. Holders(s) = {c}
      BY <3>1 DEF Has, Holders
    <3>3. Cardinality(Holders(s)) = 1
      BY <3>2, FS_Singleton
    <3>4. is_finished[s] /\ ~Lost(s)
      BY <1>1, <2>2 DEF ValueInv, Whereabouts, Lost, CallbackInv, TypeInv, TypeOK
    <3> QED
      BY <2>2, <3>3, <3>4
  <2> QED
    BY <1>1, <2>1, <2>2 DEF ValueInv, CallbackInv, TypeInv, TypeOK
<1>2. ASSUME ValueInv, NEW c \in Callback, got[c] \in Called
      PROVE  is_finished[on[c]] /\ ~Lost(on[c])
  BY <1>2 DEF ValueInv, CallbackInv, CalledFits, Lost
<1>3. ValueInv => ValueInOnePlace
  BY <1>1, <1>2 DEF ValueInOnePlace
<1> QED
  BY <1>3, ValueInvariant, PTL
=============================================================================
