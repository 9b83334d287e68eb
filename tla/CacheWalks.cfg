SPECIFICATION FairSpec
CONSTANTS
  Requests = {r1, r2, r3}
  Windows = {w1}
  None = None
  Video = {v}
  Audio = {}
  Bytes <- MCBytes
  WinBudgets = {0}
  MinBudget = 1
  Caps <- MCOneThenTwo
  MaxLeaves = 2
  MaxFaults = 1
INVARIANTS NotAbandoned OneBuild FailsForItself SlotsMatchWalks
PROPERTIES AbandonedEnd EveryRequestReturns
