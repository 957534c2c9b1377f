\* Three builds in two slices, two of them from one URL; updates of two
\* builds; one failing call.
SPECIFICATION FairSpec
CONSTANTS
  t1 = t1
  t2 = t2
  t3 = t3
  t4 = t4
  url1 = url1
  url2 = url2
  Triggers = {t1, t2, t3, t4}
  Urls = {url1, url2}
  ScmUrl <- MCScmUrl
  NumSlices = 2
  Order <- MCOrder
  Routes = {"bodhi", "tagging", "scratch"}
  BatchSize = 2
  MaxSingle = 2
  MaxFaults = 1
INVARIANTS
  DenylistedFailedTwice
  BoundedAttempts
  NothingDropped
PROPERTIES
  ImplementsBatchRun
  GivesUpOnSameSet
  RunTerminates
CHECK_DEADLOCK FALSE
