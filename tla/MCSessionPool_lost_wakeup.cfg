CONSTANTS
  w1 = w1
  w2 = w2
  w3 = w3
  sw = sw
  s1 = s1
  s2 = s2
  s3 = s3
  NoThread = NoThread
  NoSession = NoSession
  Workers <- MCWorkers3
  Sweeper = sw
  Sessions <- MCSessions3
  MaxSize = 2
  MinSize = 1
  Timed = FALSE
  Faults <- RecycleOnly
SPECIFICATION Spec
SYMMETRY Symmetry3
CHECK_DEADLOCK FALSE
INVARIANT BlockedOnlyAtCapacity
