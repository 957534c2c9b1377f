\* Two builds, one of which may be inherited, a side-tag given up and the next; one fault.
SPECIFICATION FairSpec
CONSTANTS
  n1 = n1
  n2 = n2
  Nvrs = {n1, n2}
  BaseBuilds = {n1}
  MaxTags = 2
  MaxFaults = 1
INVARIANTS
  WaitsMatchEntries
  LeaksAccounted
PROPERTIES
  ImplementsOffer
  EventuallyReady
CHECK_DEADLOCK FALSE
