CONSTANTS
  r1 = r1
  r2 = r2
  s1 = s1
  s2 = s2
  NoRequest = NoRequest
  NoSession = NoSession
  Requests <- MCRequests
  Sessions <- MCSessions
  Bound = 1
  Modes <- MCInterruptedScope
SPECIFICATION Spec
CHECK_DEADLOCK FALSE
INVARIANTS
  SessionReturned
