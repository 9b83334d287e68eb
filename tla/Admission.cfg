SPECIFICATION FairAdmission
CONSTANTS
  Callers = {r1, r2, r3, r4, r5}
  MaxInFlight = 2
  MaxWaiting = 1
INVARIANTS WaitingBounded CounterExact
PROPERTIES EveryRequestAnswered
