SPECIFICATION Spec
CONSTANTS
  r1 = r1
  r2 = r2
  a = a
  b = b
  i1 = i1
  i2 = i2
  i3 = i3
  NoStep = NoStep
  Base = Base
  NoSum = NoSum
  Table = Table
  Lock = Lock
  Nobody = Nobody
  Runners <- TheRunners
  Ids <- TheIds
  Modes <- TheModes
  ChunkSize = 2
CHECK_DEADLOCK FALSE
INVARIANT MigratedWhenDone
