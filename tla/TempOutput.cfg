SPECIFICATION Spec
CONSTANTS
  Runs = {r1, r2, r3}
  Orig = Orig
  None = None
  Kinds = {"write", "writeSync", "replace", "keep"}
  PowerCuts = TRUE
  MaxCrashes = 1
  MaxFaults = 1
SYMMETRY Symmetry
INVARIANTS  FailureKeepsOutput AckedSurvives OriginalKept
