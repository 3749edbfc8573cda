SPECIFICATION Spec
CONSTANTS
  Thread = {t1, t2}
  Worker = {w1, w2}
  MaxLease = 2
  MaxRev = 2
  MaxWaiting = 1
  MaxFaults = 0
  Crashing = TRUE
SYMMETRY ThreadSymmetry
INVARIANTS CompletedRestartsClean
