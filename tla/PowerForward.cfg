SPECIFICATION Spec
CONSTANTS
  NumZones = 3
  Jobs = {"reindex", "reindexFull", "retime"}
  CrashModel = "power"
  MaxCrashes = 1
  MaxFaults = 0
INVARIANTS Barrier AnswersHold
