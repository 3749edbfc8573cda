SPECIFICATION FairSpec
CONSTANTS
  Thread = {t1, t2}
  Worker = {w1}
  MaxLease = 1
  MaxRev = 1
  MaxWaiting = 1
  MaxFaults = 1
  Crashing = FALSE
PROPERTIES GrantSettles ReleaseSettles
CHECK_DEADLOCK FALSE
