CONSTANTS
  w1 = w1
  w2 = w2
  w3 = w3
  sw = sw
  s1 = s1
  s2 = s2
  s3 = s3
  NoThread = NoThread
  NoSession = NoSession
  Workers <- MCWorkers
  Sweeper = sw
  Sessions <- MCSessions3
  MaxSize = 2
  MinSize = 1
  Timed = TRUE
  Faults <- AllFaults
SPECIFICATION FairSpec
CHECK_DEADLOCK FALSE
INVARIANTS
  TypeOK
  ClosedPoolEmpty
  CapacityAccounted
  NoOrphanSession
  ExclusiveSessions
  IdleSessionsReady
PROPERTIES
  LeasingSpec
  CallsEnd
