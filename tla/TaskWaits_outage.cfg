\* listener.py: TaskFailedError means that the task failed.
SPECIFICATION FairSpec
CONSTANTS
  t1 = t1
  t2 = t2
  NoTask = NoTask
  Tasks = {t1, t2}
INVARIANTS
  FailedMeansFailed
CHECK_DEADLOCK FALSE
