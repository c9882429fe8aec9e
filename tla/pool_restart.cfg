CONSTANTS
  Client = {a}
  Task = {t1, t2, t3}
  ExecTask = {t1, t2}
  Throwing = {t2}
  thread_count = 1
  max_task_arg = 1
  expand_args = {FALSE}
  hw_concurrency = 1
  Overlap = FALSE
  MaxWorkers = 2
  MaxShutdowns = 1
  nil = nil
SPECIFICATION FairSpec
PROPERTIES RestartRuns
CHECK_DEADLOCK FALSE
