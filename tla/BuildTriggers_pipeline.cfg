\* Events of a component and of a foreign one, a manual rebuild of one of two
\* builds of the component, one fault anywhere; fair scheduling.
SPECIFICATION FairSpec
CONSTANTS
  x = x
  y = y
  z = z
  u1 = u1
  u2 = u2
  NoUrl = NoUrl
  NumTags = 2
  NumElnBuilds = 1
  Components = {x, y, z}
  Eligible = {x, y}
  Urls = {u1, u2}
  CompOf <- MCCompOfMixed
  ScmUrl <- MCScmUrlMixed
  MaxFaults = 1
  MaxManual = 1
INVARIANTS
  NoLostTrigger
  CompletedInOrder
  RunOncePerFault
  CompletedForAReason
PROPERTIES
  ImplementsLedger
  EventuallyStored
  EventuallyCompleted
  NoRegression
  DenylistRespected
CHECK_DEADLOCK FALSE
