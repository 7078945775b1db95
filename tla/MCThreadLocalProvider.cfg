SPECIFICATION Spec
CONSTANTS
  t1 = t1
  t2 = t2
  s1 = s1
  s2 = s2
  h1 = h1
  h2 = h2
  h3 = h3
  o1 = o1
  Nobody = Nobody
  NoSession = NoSession
  Unmade = Unmade
  Threads <- TheThreads
  Sessions <- TheSessions
  Handles <- TheHandles
  Oops <- TheOops
SYMMETRY Symmetry
CONSTRAINT RemovalsBound
INVARIANTS ExportSetFollowsHandles NoSessionForgotten
