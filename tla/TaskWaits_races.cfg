\* Two tasks; messages, polls, poll failures and timeouts race, and every wait
\* ends.
SPECIFICATION FairSpec
CONSTANTS
  t1 = t1
  t2 = t2
  NoTask = NoTask
  Tasks = {t1, t2}
INVARIANTS
  WaitsMatchEntries
  ClaimedUnsettled
PROPERTIES
  ImplementsFairly
  EndIsReported
CHECK_DEADLOCK FALSE
