SPECIFICATION FairSpec
CONSTANTS
  a = a
  b = b
  i1 = i1
  i2 = i2
  Session = {a, b}
  LeaseId = {i1, i2}
  Nobody = Nobody
  MaxFaults = 0
  MaxRuns = 1
PROPERTIES NoHandoffOverLaunch
CHECK_DEADLOCK FALSE
