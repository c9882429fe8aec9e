CONSTANTS
  Client = {a, b}
  Task = {t1, t2, t3}
  ExecTask = {t1, t2}
  Throwing = {t3}
  thread_count = 1
  max_task_arg = 1
  expand_args = {TRUE, FALSE}
  hw_concurrency = 1
  Overlap = TRUE
  MaxWorkers = 3
  MaxShutdowns = 2
  nil = nil
SPECIFICATION Spec
INVARIANTS OneHolder
CHECK_DEADLOCK FALSE
