\* RELEASENOTES: no batch starts while processing is paused.
SPECIFICATION Spec
CONSTANTS
  x = x
  y = y
  z = z
  u1 = u1
  u2 = u2
  NoUrl = NoUrl
  NumTags = 2
  NumElnBuilds = 1
  Components = {x, y, z}
  Eligible = {x, y}
  Urls = {u1, u2}
  CompOf <- MCCompOf
  ScmUrl <- MCScmUrl
  MaxFaults = 1
  MaxManual = 0
PROPERTIES
  NoBatchWhilePaused
CHECK_DEADLOCK FALSE
