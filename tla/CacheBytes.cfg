SPECIFICATION Spec
CONSTANTS
  Requests = {r1, r2, r3, r4}
  Windows = {w1, w2}
  None = None
  Video = {v}
  Audio = {a1, a2}
  Bytes <- MCBytes
  WinBudgets <- MCBudgets
  MinBudget = 1
  Caps <- MCNoCap
  MaxLeaves = 0
  MaxFaults = 0
SYMMETRY Symmetry
INVARIANTS BytesAccounted CacheConsistent
