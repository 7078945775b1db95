\* A computation ends, and so may the tasks.
SPECIFICATION Spec
CHECK_DEADLOCK FALSE
CONSTANTS
  Size = 4096
  CodePoints = 8
  MaxChar = 5
  NoStep = "none"
  Base = "base"
  NoSum = 0
  Contents <- TheContents
  StepNames <- TheNames
  Checksums <- TheSums
  Keys <- TheKeys
  Stored <- TheStored
  s1 = s1
  s2 = s2
  owner = owner
  guest = guest
  Sessions <- TheSessions
  MaxBlocks = 2
  MaxLevel = 3
  Owner = owner
  Guests <- TheGuests
  MaxCancels = 2
CONSTRAINT LeakBound
INVARIANTS BlocksMatchServer BlocksStayApart ConversionsAgree PlansAgree CollectionsAgree
           TextsAgree CallsAgree QueriesAgree PackagesAgree ReleasesAgree ToolsAgree
