SPECIFICATION Spec
CONSTANTS
  Runs = {r1, r2}
  Orig = Orig
  None = None
  Kinds = {"write"}
  PowerCuts = FALSE
  MaxCrashes = 0
  MaxFaults = 0
INVARIANTS NothingHalfWritten
