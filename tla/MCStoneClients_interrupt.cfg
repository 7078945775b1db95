CONSTANTS
  c1 = c1
  c2 = c2
  c3 = c3
  k1 = k1
  k2 = k2
  Clients <- MCClients2
  Keys <- MCKey
  Entry = Entry
  Absent = Absent
  Modes <- MCModesInterrupted
  MaxRetries = 2
  Attempts = 2
SPECIFICATION Spec
CHECK_DEADLOCK FALSE
INVARIANTS
  OnlyCleanExitsLand
