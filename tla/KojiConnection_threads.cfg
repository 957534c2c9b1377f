\* Two threads, of one and two requests, two tries of a call and of a renewal.
SPECIFICATION FairSpec
CONSTANTS
  c1 = c1
  c2 = c2
  Callers = {c1, c2}
  Sessions = {1, 2}
  NoSession = 0
  Requests <- MCRequests
  Free = Free
  Lifetime = 3
  Threshold = 2
  MaxTries = 2
  MaxRenewals = 2
INVARIANTS
  RequestKeepsItsSession
  NoSessionLeak
  TicketOutlivesTheWait
PROPERTIES
  ImplementsService
  EveryCallEnds
CHECK_DEADLOCK FALSE
