# libenigma in TLA+

libenigma (namespace `ema`) is a C++20 utility library for Windows. Its logic
lies in a blocking queue and in the three things built on it: a thread pool, an
event bus and a logger with rotating files. Beside them stand promises, a byte
buffer, a wrapper of SQLite and a string class. The repository has no design
documents; its tests (`test/`) are the only statement of what the code is
meant to do. This directory holds TLA+ models of that logic, the TLC
configurations that check them on small instances, and proofs, checked by
TLAPS, of theorems that hold for every instance.

## 1. Inventory

| component | state | operations | uses | what makes it correct |
|---|---|---|---|---|
| `SyncQueue<T>` (`container/sync_queue.h`) | queue, mutex, condition variable, stop source | `Push`, `Pop()`, `Pop(cond)`, `Clear`, `Stop`, `Size` | – | a FIFO; no value is stranded while a consumer sleeps; `Pop` never touches an empty queue; `Stop` ends every `Pop` |
| `ThreadPool`, `Worker` (`thread/thread_pool.h`) | workers, `_start`, stop source, counter, limit; per worker a thread, `_busy`, a queue | `Startup`, `Shutdown`, `Submit`, `exec`, the worker loop, `~Worker` | one `SyncQueue` per worker | every task runs at most once and is settled once; the counter and both limits are right; accepted tasks run; `Shutdown` returns and leaves no future open |
| `EventBus`, `EventHandler` (`event_bus/`) | set of handlers, bus mutex; per handler a queue, a map of callbacks, a mutex, a thread | `Publish` (two overloads), `Subscribe`, `Unsubscribe`, `On`, `OnType`, `Cancel`, `Clear`, `Start`, `Stop` | one `SyncQueue` per handler; callbacks may call the bus again | an event reaches each handler once, in one order for all; it settles; `Publish` and `Stop` return |
| `FileSink`, `LogFile` (`src/logger/`) | open log, its size, the directory | `Init`, `Uninit`, `Log`, `RoutingLogs` | file system | rotation loses nothing but the oldest log, whatever crashes or fails |
| `Logger` (`src/logger/logger.cpp`) | queue, sinks, thread, level | `Init`, `Uninit`, `LogIt` | `SyncQueue`, sinks | messages reach every sink in order, whatever the other sinks do; none is written after `Uninit`; `Init` and `Uninit` return |
| `Promise`, `Future` (`thread/thread.h`) | shared state with mutex, flags, value, two callbacks | `SetSuccessed`, `SetFailed`, `Then`, `Fail`, moves | – | settled once; the callback is called once, with the value; a value whose constructor throws calls nobody |
| `packet` (`network/packet.h`) | buffer, size, write and read position | `write`, `read`, `clear`, `free`, copy, move | – | a stream of bytes per packet; a buffer has one owner; positions stay in the buffer |
| `Sqlite3cpp` (`src/db/sqlite3/sqlite3_impl.cpp`) | connection; prepared statements in the caller's contexts | `Open`, `Close`, `Error`, `Begin`, `Commit`, `Rollback`, `Exec`, `Prepare`, `BindValue(s)`, `Step`, `Finalize` | SQLite | handles are valid when used and freed once; `Exec` ends |
| `String` (`src/string/str.cpp`) | – | `trim`, `replace`, `split`, conversions | – | agreement with a reference definition, termination |
| native wrappers, bit mask, clock, format | none | single calls | platform | – |
| WebSocket client and server | none yet (empty classes) | – | Boost.Beast (vendored) | – |

What is hard here: threads that meet at the queue (wake-ups lost, doubled or
late), `Stop` working without the queue's mutex, values checked under a lock or
in an atomic and used after it (`_busy`, `_HasType`, `cond`), calls that start
and stop a component while others use it, callbacks that run under a lock,
exceptions that leave a thread, pointers that are handed on, freed and kept,
and a rotation of several renames that a crash
or a failing call can cut anywhere. `PROJECT.json` lists each at its line.

## 2. Plan

Done, in this order; each step builds on the one before it.

1. `FifoQueue`, `SyncQueue`, `SyncQueueProofs`: the queue everything rests on.
2. `ThreadPool`, `PoolQueues`, `ThreadPoolProofs`: the pool and the
   composition with one queue per worker.
3. `EventBus`, `MCEventBus`: the bus, its handlers and their threads.
4. `FileSink`: rotation with crashes and failures.
5. `Promise`, `PromiseProofs`: the shared state and its two kinds of handles.
6. `Logger`: the logging thread, on `SyncQueue`'s own actions.
7. `ByteStreams`, `Packet`: the buffer and the streams it implements;
   `Sqlite3cpp`: the wrapper, with SQLite as a nondeterministic environment.
8. `StringOps`: `replace`, `split`, `trim`, `from_wstring` over all short
   texts, each against a reference definition. `MCSequential` puts the file
   sink, the packets, the SQLite wrapper and the strings into one run.
9. `LoggerProofs`: the queue's theorems carried over to the logger, and
   `SilentAfterUninit`.
10. `EventBusProofs`, `FileSinkProofs`, `PacketProofs`, `SequentialProofs`, and
   more of `ThreadPoolProofs`, `PromiseProofs` and `LoggerProofs`: every safety
   property that a run checks, for every instance; the types of every
   component; the queue's theorems carried over to the pool's queues.

What is left is liveness, which the prover does not reach (section 5).

## 3. Modules and code

Names in the modules are the source's without the leading underscore. One step
of a model ends where another thread can see or change what the next step
uses: at an access to an atomic, at taking a mutex, at a blocking call. A
critical section that nobody can see half-done is one step, enabled while the
mutex is free. Undefined behaviour is a choice over what the build can do; an
outcome that ends the process sets `crashed`, after which nothing happens.
Definitions marked *Variant* are plausible slips of the code (a dropped
notification, an off-by-one, a swapped order). No specification uses them;
each is a defect that some property of a run must detect.

**FifoQueue** is the promise of the queue: items leave in order, each to one
consumer, until it is closed, and `nullopt` is returned only when it is closed.

**SyncQueue.** `queue_`, `mutex_`, `stop_source_` are the members; `pc` says
where each thread is in `Pop` or `Stop`. `Pop` is split into taking the mutex
and testing the predicate (`PopTest`), the atomic release-and-sleep of
`cv_.wait` (`PopSleep`), and the section after the wait (`PopTake`). `Stop`
is two steps (`StopRequest`, `StopNotify`) that need no mutex and may fall
between `PopTest` and `PopSleep`. `SpuriousWake` is the condition variable's
licence. `cond` is the user's condition of `Pop(cond)`; it comes true at any
time, without notification, as the pool's stop token does. `SyncQueue INSTANCE`s
`FifoQueue` with `items <- queue_`, `closed <- stop_source_`.

**ThreadPool.** Clients run `StartupBegin/Create`, `SubmitBegin/Lock/Scan/…`,
`ShutdownBegin … ShutdownEnd`; `~Worker` is `WorkerClear`, `WorkerStop`,
`WorkerNotify`, `WorkerJoin`, once per worker in the order of the vector. The
worker's loop is `WorkerLoop`, `WorkerIdle` (`_busy = false`), the three steps
of `Pop(cond)`, `WorkerBusy`, `WorkerRun`, `WorkerCountOff`. A task carries a
`fate`: new, pending, refused, value, exception or broken (destroyed unrun,
which breaks the promise of `exec`). `Overlap` says whether `Startup` and
`Shutdown` may overlap calls of other clients. The code does nothing to prevent
it; with it a thread can reach a destroyed worker (`SubmitDangling`,
`ShutdownDangling`) or index an empty vector (`SubmitThrow`).

**PoolQueues** maps the pool's variables to one `SyncQueue` per worker, with the
worker as its one consumer, and states that each behaves as that module says
(`QueuesRefine`). So the queue's theorems apply to the pool's queues.

**EventBus.** A thread in `Publish` holds `bus_mutex` from `PublishLock` to
`PublishReturn` and visits the handlers in the order of the set: `PublishTest`
is `_HasType`, `PublishDeliver` is `_Deliver` with its `Push`. A callback that
publishes comes to `_HasType` of its own handler with that handler's mutex held,
which is undefined: it passes, blocks, or throws out of `Publish` and so out of
the callback (`PublishThrow`). The handler's
thread is `HandlerLoop`, the three steps of `Pop()`, `HandlerLock` (its mutex,
and the lookup), then `HandlerCast` for an empty `any`, or `HandlerCall` and
`HandlerLeave` around a callback that may publish a reply or throw. `Stop` is
five steps of the handler's owner. An event in a queue says whether its `any`
is full: the string overload of `Publish` moves it into the first event.

**FileSink.** The directory is `exists` (indices with a file, 0 is `app.log`)
and `disk` (the numbered messages in each). `Log` writes and, when the log is
full, begins `RoutingLogs`: `Shift` is one rename, `Shifted` the comparison
with `max_file_count`, `Recycle` the rename of the oldest log to `app.log`,
`Reopen` the truncating open. `Fail` and `Crash` can come between any two.
The configuration is chosen in `SinkInit`.

**Promise.** A handle (`Promise` or `Future`) is an atomic pointer, `ptr`. A
transfer is `Load`, `Store` and, for a move, `ClearSource`; in between other
threads use both handles. `SetCall` and `ThenCall` load the pointer; `Settle`
is the critical section of `SetSuccessed` and `SetFailed`, `Register` that of
`SetSuccessFunc` and `SetFailFunc`. When either calls a callback, the mutex
stays taken until `CallEnd`. A callback in `Reentrant` takes that mutex
again, which is undefined: it may throw (`CallEnd`) or never come back (no
fairness). `got` records what each callback received. The code marks the state
finished and only then constructs the value (`thread.h:118-127`, `137-146`): for
the states in `Fragile` the constructor may throw, which leaves the state settled
without a value and its stored callback uncalled, and `Register` then finds no
value (`has_value()`, lines 94 and 106) and drops the callback.

**Logger.** The variables of `SyncQueue` are variables of this module, and
every access to the queue is one of that module's actions: `LogIt` is `Push`,
the thread's `Pop` is `LoopTest`, `PopWait` and `PopReturn`, and `Uninit` begins
with the two steps of `Stop`. Then it requests the thread's stop and joins
(`UninitRequest`, `UninitJoin`). `Init` is `InitAssign` (the vector and the
level), `InitSinks`, `InitThread` and, when a thread was there, `InitJoin`: the
assignment of the new `jthread` asks the old one to stop and waits for it. The
thread hands a message to one sink per step (`SinkLog`). The logger has no
lock for its vector; a walk that meets an `Init` sets `race` and ends the
behaviour. A file sink is open or not; its files are module `FileSink`'s.

**ByteStreams** is the promise of `packet`: each packet is a sequence of bytes
with a read position, and no operation on one changes another. **Packet** has
the four members of each packet and a heap of blocks. A growing buffer stays in
place or moves (`Realloc`); `malloc` fails when the heap is exhausted, which
happens because neither the destructor nor a move frees anything. `Add` is the
addition of `u64`. Accesses are checked against the block they meet, and one
outside of it sets `fault`. `Packet INSTANCE`s `ByteStreams` with the bytes up to
`offset_` of each buffer. What a write is given and what a read returns is visible
in both (`io`), so the bytes that are stored must be the ones that were written;
a byte that was never written is `junk`, and one of a cleared buffer `zero`. The
read position survives copies and moves, in both.

**Sqlite3cpp.** `db` is the member, `conns` and `stmts` are what SQLite holds,
`ctx` the statements in the caller's contexts. SQLite answers with any of its
codes that fits the state of the statement, and remembers the code, `ROW` and
`DONE` too, as `sqlite3_step` does. `Error` frees the connection and keeps the
pointer; later use of it is undefined and sets `ub`. `Exec` is `ExecBegin`, then
`ExecRow` and `ExecDone`. The loop has no exit for a row: `MaxRows` is how many
fit into memory, after which `bad_alloc` leaves `Exec`. When the first code is
neither a row nor the end, the loop runs on without a step, which is how a loop
without effect looks. A statement that `Exec` runs may itself begin or end a
transaction (`TxAfter`), and a `Commit` may meet a lock or fail otherwise, with
the transaction rolled back or not.

**StringOps.** A behaviour is one call. Each turn of the loop of `replace` and
`split` is a step; `trim` and `from_wstring` are one step. `trim` finds its
start with one test (`StartsAt`) and its end with another (`EndsAt`), which
hands a plain `char` to `::isspace`: for a character of `High`, 0x80 and above,
that is undefined, so each may be taken for a space, and a build with assertions
ends the program (`aborted`), as it does when the iterators that `clear()`
invalidated are compared. The references do not scan and do not recurse. `Cuts`
has never more than one member (`CutsUnique`): the sequence of occurrences that
do not overlap and that overlap every other occurrence from its left.
`ReplaceRight` says where each character of the result comes from, `SplitRight`
that the tokens are the wanted pieces between the cuts, none left out and in
order. `Encoded` gives each byte of UTF-8 by its place: `BytesBefore` counts the
bytes of the characters before. `TrimRight` says that the result is a part of
the text with nothing but spaces around it and none at its ends.

**MCSequential** extends the four modules without threads, `FileSink`, `Packet`,
`Sqlite3cpp` and `StringOps`, which share nothing: `part` says which of them a
behaviour is of, and the others stay as they began. For that their
specifications have names of their own (`SinkSpec`, `PacketSpec`, `SqlSpec`,
`StringSpec`).

## 4. Runs

Passing runs.

| run | instance | shows |
|---|---|---|
| `queue` | 2 consumers, one of them with `Pop(cond)`, a third thread; 2 values, length ≤ 3; 11,334 states | `LockDiscipline`, `PopFindsItem`, `NoStrandedItem`, refinement of `FifoQueue` (`FifoSpec`), `ItemsGetOut` |
| `pool` | 2 clients, 3 tasks (`exec` and `Submit`, one throwing), limit 1, 1 thread growing to 2, expansion on and off, 2 shutdowns with a restart; 110,666 states | `CounterExact`, `ShutdownSettles`, `QueuesRefine`, `AcceptedRuns`, `ShutdownNeverHangs` |
| `pool_overlap` | the same with overlapping `Startup` and `Shutdown`, 3 workers and a plain task that throws; 5.2 million states | what holds up to the crash: `OneHolder` |
| `bus_order` | 2 clients, 2 handlers, 2 events, the second also a reply published by the callback of the first; 189,392 states | `SameOrder`, `EventAccounted` with empty events |
| `bus` | 1 client, 1 handler with every call, 2 types, both overloads, both kinds of callback, one throws, 2 starts; 57,774 states | `EventAccounted`, `StoppedForGood`, `EventsSettle`, `PublishReturns` |
| `promise` | 2 threads, 2 promises, 2 futures, 2 `Then` and 1 `Fail` callbacks, one of them re-entrant, one promise whose value may throw, 2 transfers; 793,760 states | `SettledOnce`, `LastCallbackCalled`, `OneSide`, `ValueInOnePlace`, `CallsReturn` |
| `logger` | 1 client, an owner, 3 messages, one below the level, a file and a console sink, 2 `Init`s; 94,144 states | `LoggedInOrder`, `OnlySleepHolds`, `MessagesLogged`, `SilentAfterUninit` |
| `sequential` | the four parts below, one at a time; 600,978 states | |
| – the file sink | limits of 0, 1, 3 bytes, 0–3 files, both modes, 9 messages, 3 faults; 75,565 states | `NothingClobbered`, `LatestInOrder`, `LatestKept`, `CountBound`; no rename misses its file (deadlock) |
| – packets | 2 packets, 3 blocks, objects of up to 3 bytes, writes of 1 and 2 bytes, sums modulo 7; 338,093 states | `BuffersOwned`, `NoBadAccess`, refinement of `ByteStreams` (`StreamSpec`) |
| – SQLite | 2 connections, 2 statements, 1 context; 172,084 states | `SafeUntilReported` |
| – strings | all texts of up to 5 and patterns of up to 2 characters, 2 characters and one of `High` for `trim`; 15,236 states | `ReplaceRight`, `SplitRight`, `TrimRight`, `FromWstringRight`, `Returns` |

Four runs are violated: what a test says, and the code does not do.

| run | property | shows |
|---|---|---|
| `bus_stop` | `StopReturns` | `EventHandler::Stop` hangs when request and notification fall between the thread's test and its sleep; `test_event_bus.h:79-80` expects it to return |
| `pool_restart` | `RestartRuns` | the stop source of the pool is never replaced, so a restarted pool accepts a task and never runs it; `test_thread_pool.h:33`: "Should be able to start up again after shutdown" |
| `pool_limit` | `LimitKept` | `Submit` compares with `>` before it counts (`thread_pool.h:151`), so a pool without expansion holds one task more than its limit; `test_thread_pool.h:76`: "Submissions beyond max_task_count should fail" |
| `pool_shutdown` | `ShutdownSafe` | a worker that enters `Pop(cond)` between the pool's `request_stop` and the `Stop` of its queue reads `front()` of an empty queue, though `Shutdown` overlaps no other call; `test_thread_pool.h:30`: "Shutdown should not cause any issues" |

Several properties that hold say how far the code goes, and where it stops
short of what one would expect.

- `SilentAfterUninit` and `StoppedForGood` say of a logger and an event handler
  that are started again what `pool_restart` shows of the pool: the queue stays
  stopped.
- `CounterExact`: `~Worker` never counts destroyed tasks off, so a restarted
  pool still counts them.
- `PopFindsItem` exempts `Pop(cond)`, and `ShutdownNeverHangs` accepts the crash
  that `pool_shutdown` shows, and no other, as an end.
- `EventAccounted` knows empty events: the string overload of `Publish` moves
  its `any` into the first handler's event, and every other handler's callback
  is skipped.
- `LastCallbackCalled` and `ValueInOnePlace` except a state whose value's
  constructor threw: it is settled, has no value and calls nobody, ever.
- `OnlySleepHolds`: `Uninit` hangs for the reason of `bus_stop`, and a second
  `Init` waits for a thread that sleeps until somebody logs.
- `SafeUntilReported`: the end of the rows is reported as a failure and frees
  the connection; the `Finalize` that follows uses freed memory.
- `FromWstringRight`: a text with a character outside ASCII is never returned
  whole. `Returns`: `replace` and `split` do not return for an empty pattern.
- `TrimRight`: characters of 0x80 and above at the end of a text may be cut off
  with the spaces.

That `Exec` of the SQLite wrapper ends is not among the properties: a query with
rows collects its first row until memory is exhausted, and one that meets a lock
or an error never returns. All of this is in the model and none of it is denied
by a test.

A remark on `bus_stop`: `Shutdown` of the pool uses the same `Stop` and does not
hang (`ShutdownNeverHangs`). `~Worker` calls `Clear` first, which waits for the
queue's mutex after the stop was requested, so a worker either tests its
predicate after the request or is asleep before the notification.

**Bounds, and why they suffice.** Two consumers are needed for a stolen wake-up
and one more thread to push and stop; a queue of three can hold more values than
there are consumers. Three tasks pass a limit of one twice. Two clients are
needed for a race in `Submit`, one worker that may become two exercises the
scan, the expansion and the random choice. Four workers ever created cover two
generations of two. Two handlers and two events are what a difference of order
takes. Nine messages fill three files of one message three times over, and three
faults cut three rotations in a row, which is what it takes for leftovers of one
crash to meet the next. `MaxIndex` of the sink and `MaxLen` of the pool's queues
are never reached. Two transfers let a future be obtained and one handle be
moved while both threads use it, which is where two handles meet on one state; a
third transfer with one future fewer was checked too and shows nothing new. A
second `Init` of the logger is what it takes to meet the first one's thread,
before and after `Uninit`; three messages leave one queued while one is walked
and one filtered. Two packets are the two sides of every copy and move, three
blocks let one be lost and one grow elsewhere, writes of one and two bytes meet
every boundary of a block, and `MaxObject` 3 with `W` 7 is the smallest space in
which a doubled size does not wrap, as with 64 bits; byte values are symmetric.
With two connections a context can outlive the one it was prepared on; its
statement and the one of an `Exec` are two on one connection. Two
characters of pattern give patterns that overlap themselves, and replacements
that contain them.

`CHECK_DEADLOCK FALSE` is set where the system may rightly stop: all tasks
handed over, all events published or logged, all handles moved from, the heap
exhausted, the call returned, the process crashed, or a `Stop` that hangs and is
the subject of a run of its own. `sequential` runs with the check; there `Idle`
says which parts may stop, and the file sink is not one of them.

**Fairness.** Weak fairness on the steps of every thread that is inside a call
or a loop: the operating system schedules runnable threads. No fairness on
calls: nobody has to push, submit, publish or shut down. Spurious wake-ups may
happen at any time but, in the pool, the bus and the logger, not for ever
(`<>[]`), since a thread that is woken again and again need not sleep. In
`SyncQueue` even that is not needed. No strong fairness is assumed for mutexes;
the liveness properties that would need it are not stated. For that reason
`PublishReturns` makes an exception for a restarted handler, which spins on its
stopped queue and takes its queue's mutex again and again; `OnlySleepHolds`
makes the same one. `Sqlite3cpp` and `StringOps` are sequential: a call runs on
until it returns.

## 5. Proofs

A component's theorems are in a module of their own. Hardly any of the
properties below is inductive; each bullet names the invariant that is, and why
it is needed. TLC checked every one of these invariants on the instance of the
component's run.

`SyncQueueProofs`, for any sets of threads, consumers and values:

- `TypeCorrect`: `Spec => []TypeOK`.
- `MutexHeld`: `[]LockDiscipline`, inductive with `TypeOK`. The second half
  (a thread about to sleep faces an empty queue) needs the first: whoever pushes
  must have found the mutex free.
- `PopSafe`: `[]PopFindsItem`. A thread at `take` has seen its predicate true
  and holds the mutex since, so nobody else took the value; flags never fall.
- `NotifyOneSuffices`: `[]NoStrandedItem`, while somebody sleeps there are as
  many consumers on their way (at `lock` or `take`) as values. A push adds one
  of each, a take removes one of each, and a thread goes to sleep only when the
  queue is empty (`LockDiscipline`). The cardinalities come from
  `FiniteSetTheorems`; `Thread` is assumed finite.
- `ImplementsFifo`: `Spec => FifoSpec`, by the mapping above: `Push`, `Clear`,
  the successful `PopTake` and `StopRequest` are the abstract actions, all other
  steps stutter.

`ThreadPoolProofs`, for any clients, tasks, limits and workers, overlapping
calls included:

- `CapacityHolds`: `Spec => []CapacityBound`, the count is at most one above the
  limit: how far `pool_limit` can go. Between the check and the increment other
  steps happen. `CapacityInv` adds that a client past the check holds
  `_worker_mtx` and that, until it has counted its task, there is room left.
  Only the holder of the mutex increments; workers only decrement.
- `OneHolderAlways` (`OneHolder`) and `CounterAlwaysExact` (`CounterExact`), from
  `CustodyInv`. The places that can hold a task are *sites*: a client's hand
  before and after the count, a queue, a worker before and after the run. No task
  is at two sites, the pending ones are those at a site before the count-off, and
  the counter is the number of tasks at the sites that count plus the ones that
  were destroyed. Lemmas on functions from sites to sets (`MoveKeeps`,
  `RunKeeps`, `CountOffKeeps`, `MoveCounts`, …) say what moving, running and
  dropping tasks does to that; each action is then shown to be one of these.
- `ShutdownAlwaysSettles` (`ShutdownSettles`) and `RestartNeverRuns`
  (`RestartRunsNothing`, the general form of `pool_restart`), from `LifeInv`
  beside `CustodyInv`: whatever the vector and the clients' iterators name has
  been constructed, and only a live worker has tasks queued (`Real`); when calls
  do not overlap, every live worker is in the vector or in the hand of the
  `Submit` that made it, `Shutdown` has still to come to each one (`Known`), and
  afterwards what is alive is at its loop condition (`Stopped`).
- `PoolUsesQueues` (`QueuesRefine`): a step of the pool is for each worker's queue
  a step of `SyncQueue` or none (`WorkerUsesQueue`, `ClientUsesQueue`). That
  `Push` stays within the queue's bound takes `CustodyInv`: a queue holds no task
  twice and not the one that is pushed.
- `PoolQueueIsFifo`, `NoTaskStranded`, `WorkerPopsSafely`: with `aWorker` any
  worker, `SyncQueueProofs` is instantiated for its queue, and a behaviour of the
  pool is one of that instance (`PoolUsesQueue`, from `PoolUsesQueues`), so the
  theorems of the queue hold of it. As the worker is the only consumer,
  `SleeperHasNoTask` follows: it sleeps on an open queue only while that is empty.
- `PoolTypeCorrect`: `Spec => []TypeOK`. That the unsigned counter of tasks is
  never subtracted below zero is not a matter of types: it follows from
  `CustodyInv`, which makes it the size of a set.

`EventBusProofs`, for any clients, handlers, events and types:

- `BusTypeCorrect`, `EventsAccounted` (`EventAccounted`) and `StaysStopped`
  (`StoppedForGood`), from `BusInv`: a publishing thread holds the bus and has
  not yet given its event to any handler it has still to visit (`Publishing`);
  an event that is queued by its fate is in the queue or in the thread's hand,
  and there once (`Accounts`); the thread of a stopped handler has no event once
  `Stop` is over (`Stops`).
- `OneOrder` (`SameOrder`): `Ordered` extends the order of the callbacks called to
  the whole *stream* of a handler, the event in hand and those in the queue
  included. No two streams disagree, and in none does anything follow the event
  that is being delivered. The second part makes the first inductive: a delivery
  appends to one stream an event that is last in all others. It needs the mutex
  of the bus, so that there is only one such event.

`FileSinkProofs`, for every configuration, any number of messages, and any
number of crashes and failed calls:

- `SinkTypeCorrect`, `NothingLost` (`NothingClobbered`), `CountBounded`
  (`CountBound`) and `LatestStay` (`LatestKept`), from `SinkInv`. A directory is
  *tight* when no index is higher than the number of logs up to it. A rotation
  renames from the highest index down, to the number of logs up to it, so in a
  tight directory the target is free; and a rotation that is cut short leaves a
  tight directory (`TightRefilled`). `Room` bounds the logs by the faults so
  far. `Aged` counts, for each message, the logs younger than its own, one
  message each.
- `ReadsInOrder` (`LatestInOrder`), with `Ordered` in addition: while nothing has
  failed, a log with a higher index is older, except that the log a rotation
  takes back is the oldest of all under index 0, and what was removed is older
  than what is left.

`PromiseProofs`, for any threads, handles and callbacks:

- `TypeCorrect` and `OutcomeFinal` (`SettledOnce`). Types are inductive with
  `Operands`, what a thread inside a call carries.
- `NoCallbackLost` (`LastCallbackCalled`) and `OneSideOnly` (`OneSide`), from
  `CallbackInv`: a stored callback and one on its way were handed to that very
  state (`Placed`), a called one is on the side its state was settled to, with a
  value (`CalledFits`), and a settled state without a value is one whose value's
  constructor may throw (`Unset`). The settlement looks for a callback, and the
  registration for an outcome, in one critical section each, so whichever comes
  second sees the other.
- `ValueNeverCopied` (`ValueInOnePlace`), from `ValueInv`: a callback whose
  registration waits is there for the first time (`FirstTime`), and the value is
  nowhere, then in the state, then with one callback (`Whereabouts`); after a
  constructor that threw it stays nowhere and no callback of the state is called.

`LoggerProofs`, for any clients, messages, sinks and calls of `Init`:

- `UsesQueue`: `Spec` implements `SyncQueue`'s, so that the theorems of
  `SyncQueueProofs`, instantiated for the logger's threads, apply:
  `NeverPopsEmpty`, `NoMessageStranded`, `LoggerQueueIsFifo`.
- `StaysSilent`: `Spec => SilentAfterUninit`, from `SilentInv`. On a stopped queue
  nobody walks the sinks unless `Uninit` still waits (`Silent`); when `Uninit`
  returns, the thread it joined was the only one alive (`OneAlive`), for which
  threads are numbered as they are created (`Numbered`) and are in the queue only
  inside their loop's `Pop` (`Inside`).
- `AllInOrder` (`LoggedInOrder`), from `OrderInv` for each sink: until a race one
  thread walks the sinks (`OneWalker`) and the message it carries is the last that
  was due (`Carried`); what was pushed is what was popped and what is queued
  (`Popped`); a sink has written what has come to it, or a part (`Wrote`). The
  lemmas on `Part` say when a sequence stays a part of a growing one.
- `LoggerTypeCorrect`: `Spec => []TypeOK`, from both invariants and the queue's
  `TypeCorrect`.

`PacketProofs`, for any packets, heap, word size and largest object:

- `OneOwner` (`BuffersOwned`), `InBounds` (`NoBadAccess`) and `ImplementsStreams`
  (`StreamSpec`), from `SafeInv`, the types and `BuffersOwned`. Positions and sizes
  are at most `MaxObject`, a stale read position too, so no sum wraps (`NoWrap`);
  each operation is then the stream operation on its own packet, with the bytes
  it was given or returns, and, as buffers
  have one owner, leaves the bytes of all others.

`SequentialProofs` holds the proofs of the two sequential components. For any
contexts, connections and statements of `Sqlite3cpp`:

- `SqliteTypeCorrect` and `SafeBeforeFailure` (`SafeUntilReported`), from
  `SafeInv`: a statement that can be reached is live, belongs to a connection
  and is reached from one place only (`Reached`), and memory is given back only
  by a failure that is reported (`NothingFreed`). That a statement is fresh when
  it is made follows from the order of their numbers (`InOrder`).

For texts, patterns and replacements of `StringOps` of any length:

- `ReplaceIsRight` (`ReplaceRight`) and `SplitIsRight` (`SplitRight`), from
  `StringInv`. No induction over the text is needed, because each turn of a loop
  is a step and the induction is over the steps. While a call runs there is a
  sequence of cuts that is right for the text up to the place the scan has come
  to (`Scanned`). What `replace` has built is the reference's result around those
  cuts, followed by the text that is left as it was (`Replaced`); what `split` has
  collected are the wanted pieces before that place (`Listed`). A turn adds the
  next occurrence to the cuts, or finds that there is none and the cuts are
  complete. The property asks for some member of `Cuts`; `CutsUnique` shows that
  there is no other.
- `TrimIsRight` (`TrimRight`): the two searches leave out spaces only, or
  characters of `High` at the end, and stop at a character that is none.
- `FromWstringIsRight` (`FromWstringRight`): the bytes needed are more than the
  characters exactly when one of them is wide, and then the last is missing.
- `LoopsShrink`: with a pattern that is not empty every turn ends the call or
  leaves strictly less text to scan, and never less than none. That is the
  safety half of `Returns`; that turns go on being taken is fairness.

Assumptions on constants are the named `ASSUME`s of the modules; TLC evaluates
them in every run. They are: finite sets of threads, tasks and messages; `nil`
outside of the sets it is used beside; clients and workers of the pool are
different threads (`PoolQueuesAssumption`); for the packet, that twice the
largest object is less than `W`, as no allocation has half of 2^64 bytes; and,
for `from_wstring`, that the zero a buffer is filled with is no byte of a
character (`StringAssumption`): texts hold no NUL. `aWorker`, declared in
`ThreadPoolProofs`, stands for any worker; each theorem that uses it assumes that
it is one.

Only model-checked: liveness (`ItemsGetOut`, `AcceptedRuns`,
`ShutdownNeverHangs`, `EventsSettle`, `PublishReturns`, `CallsReturn`,
`OnlySleepHolds`, `MessagesLogged`, `Returns`). The prover does not
reason about fairness and `ENABLED`. Every invariant, action property and
refinement that a passing run checks is also a theorem.

## 6. Not modelled

- Vendored code: SQLite's amalgamation, nlohmann json, fmt, Boost.Beast and
  googletest. It is 99 of 100 lines under `src/`, is developed and verified
  elsewhere, and libenigma only calls it. SQLite's result codes enter
  `Sqlite3cpp` as an environment; the calls of the others have no state that the
  library's own logic depends on.
- Calls that return before they change anything: an empty file name, SQL text or
  vector of sinks, a null connection or context.
- The values bound to statements and read from rows. `BindValues` binds each of
  its values to the first parameter. A bound text stays the caller's and may be
  gone when `Step` needs it (`TextEnds`); nobody promises otherwise.
- `to_lower`, `to_upper`, `to_wstring` and the assignments of `String`: single
  calls of the standard library or of Win32. The pattern and the replacement
  are other strings than the text.
- Texts of 2^31 characters and more, where `from_wstring` narrows the length to
  an `int`.
- A write to the log file that fails in the stream: `LogFile::Write` ignores it and
  counts the bytes all the same. Renames and opens are what fails in `FileSink`.
- Memory that runs out while a promise stores a callback.
- More than one thread that calls `Init` and `Uninit` of the logger.
- `SyncQueue`'s copy and move: they call a member that does not exist and do not
  compile. `Size` and `GetTaskCount` change nothing.
- Tasks that submit to or wait for their own pool, `EventHandler::Stop` from a
  callback (a thread joining itself), several owners of one handler.
- Callbacks of a promise that use another promise; the copy constructor of
  `Future`, which does not compile; `void` as a type of the template, where the
  same callbacks are called without a value.
- Memory orderings: all atomics of the code are sequentially consistent.
- Files that somebody else deletes or creates in the log directory. Gaps of two
  or more indices that such deletions leave can make a rotation rename one log
  over another.
- Text of log lines, native wrappers (single calls of Win32), small headers,
  WebSocket classes (empty).
