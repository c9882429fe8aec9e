CONSTANTS
  Client = {a, b}
  Task = {t1, t2, t3}
  ExecTask = {t1, t2}
  Throwing = {t2}
  thread_count = 1
  max_task_arg = 1
  expand_args = {TRUE, FALSE}
  hw_concurrency = 1
  Overlap = FALSE
  MaxWorkers = 4
  MaxShutdowns = 2
  nil = nil
SPECIFICATION FairSpec
INVARIANTS CounterExact ShutdownSettles
PROPERTIES QueuesRefine AcceptedRuns ShutdownNeverHangs
CHECK_DEADLOCK FALSE
