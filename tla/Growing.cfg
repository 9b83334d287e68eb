SPECIFICATION FairSpec
CONSTANTS
  Files <- MCFiles
  SegMs = 4
  Tick = 2
  LeadMax = 2
  Requests = {r1, r2}
  None = None
  MaxAsks = 2
  MaxFaults = 1
CHECK_DEADLOCK FALSE
INVARIANTS BoundsArePlanned  InitAsPlanned
PROPERTIES ListOnlyGrows EventuallyClosed
