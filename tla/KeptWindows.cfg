SPECIFICATION FairSpec
CONSTANTS
  r1 = r1
  r2 = r2
  r3 = r3
  r4 = r4
  m1 = m1
  m2 = m2
  s = s
  v = v
  a = a
  Requests = {r1, r2, r3, r4}
  Windows = {1, 2}
  None = None
  Mkv = {m1, m2}
  Mp4 = {s}
  Asks <- MCAsks
  Video = {v}
  Audio = {a}
  Size <- MCSize
  Span <- MCSpan
  Budget = 4
  PlanTables = 1
  Tables = 1
  Leavers = {r1}
  MaxFaults = 1
  MaxPanics = 1
CHECK_DEADLOCK FALSE
INVARIANTS Conserved WithinBudget NoDeadWindow
PROPERTIES Answered
