SPECIFICATION Spec
CONSTANTS
  MaxEdits = 4
  MaxCrashes = 3
  MaxFaults = 2
CHECK_DEADLOCK FALSE
INVARIANTS AlwaysReadable NeverHalfEdited EditKept StaysEditable
