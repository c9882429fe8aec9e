------------------------------ MODULE FifoQueue ------------------------------
(***************************************************************************)
(* What ema::SyncQueue (include/container/sync_queue.h) promises to its    *)
(* users, with locks, condition variable and threads left out: a FIFO of   *)
(* values that can be emptied and can be closed for good.  A consumer that *)
(* pops gets the oldest value while the queue is open and the empty        *)
(* optional once it is closed, never anything else.                        *)
(***************************************************************************)
EXTENDS Naturals, Sequences

CONSTANTS
  Value,     \* what can be pushed
  Consumer,  \* the threads that pop
  nullopt    \* the empty std::optional

VARIABLES
  items,     \* the values in the queue, oldest first
  closed,    \* stop has been requested
  ret        \* what the last Pop of each consumer returned

vars == <<items, closed, ret>>

Init ==
  /\ items = <<>>
  /\ closed = FALSE
  /\ ret = [c \in Consumer |-> nullopt]

Put(v) ==
  /\ items' = Append(items, v)
  /\ UNCHANGED <<closed, ret>>

Take(c) ==
  /\ ~closed
  /\ items # <<>>
  /\ ret' = [ret EXCEPT ![c] = Head(items)]
  /\ items' = Tail(items)
  /\ UNCHANGED closed

TakeNone(c) ==
  /\ closed
  /\ ret' = [ret EXCEPT ![c] = nullopt]
  /\ UNCHANGED <<items, closed>>

Drop ==
  /\ items' = <<>>
  /\ UNCHANGED <<closed, ret>>

Close ==
  /\ closed' = TRUE
  /\ UNCHANGED <<items, ret>>

Next ==
  \/ \E v \in Value : Put(v)
  \/ \E c \in Consumer : Take(c) \/ TakeNone(c)
  \/ Drop
  \/ Close

Spec == Init /\ [][Next]_vars
=============================================================================
