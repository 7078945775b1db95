SPECIFICATION FairSpec
CONSTANTS
  t1 = t1
  t2 = t2
  s1 = s1
  s2 = s2
  Sweeper = Sweeper
  NoSession = NoSession
  NoTask = NoTask
  Tasks <- TheTasks
  Sessions <- TheSessions
  Modes <- TheModes
  MaxSize = 2
  MinSize = 1
CHECK_DEADLOCK FALSE
INVARIANT SessionsAccounted
PROPERTIES LeasingSpec CallsEnd
