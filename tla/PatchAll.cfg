SPECIFICATION Spec
CONSTANTS
  NumZones = 3
  Jobs = {"reindex", "reindexFull", "retime"}
  CrashModel = "torn"
  MaxCrashes = 2
  MaxFaults = 2
INVARIANTS WriteAhead SurvivesOne
PROPERTIES AtomicSpec
