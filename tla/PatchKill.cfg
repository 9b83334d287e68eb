SPECIFICATION FairSpec
CONSTANTS
  NumZones = 3
  Jobs = {"reindex", "reindexFull", "retime"}
  CrashModel = "kill"
  MaxCrashes = 3
  MaxFaults = 0
INVARIANTS TypeOK NoLoss
PROPERTIES EventuallyFinished
