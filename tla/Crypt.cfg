SPECIFICATION FairSpec
CONSTANTS
  Requests = {r1, r2, r3}
  Slots = 1
  MaxSamples = 2
INVARIANTS SlotsConserved NoIdleSlot
PROPERTIES NoOvertaking WaitersServed
