\* Two logins, two callbacks, two sessions, one request; one restart.
SPECIFICATION FairSpec
CONSTANTS
  f1 = f1
  f2 = f2
  h1 = h1
  h2 = h2
  s1 = s1
  s2 = s2
  r1 = r1
  Flows = {f1, f2}
  Handlers = {h1, h2}
  Sessions = {s1, s2}
  Requests = {r1}
  NoFlow = NoFlow
  NoSession = NoSession
  MaxCrashes = 1
INVARIANTS
  AdmittedByALiveSession
PROPERTIES
  ImplementsGrants
  SessionsGo
  TokensGo
  AcknowledgedIsRun
CHECK_DEADLOCK FALSE
