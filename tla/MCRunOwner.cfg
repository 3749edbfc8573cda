SPECIFICATION FairSpec
CONSTANTS
  a = a
  b = b
  i1 = i1
  i2 = i2
  Session = {a, b}
  LeaseId = {i1, i2}
  Nobody = Nobody
  MaxFaults = 2
  MaxRuns = 1
INVARIANTS TypeOK OwnerIsBacked LaunchIsTraced UnconfirmedServesNothing
PROPERTIES HandoffEnds NoAdoptionOverInput
CHECK_DEADLOCK FALSE
