SPECIFICATION Spec
CONSTANTS
  Thread = {t1, t2}
  Worker = {w1, w2}
  MaxLease = 2
  MaxRev = 1
  MaxWaiting = 1
  MaxFaults = 1
  Crashing = TRUE
SYMMETRY ThreadSymmetry
INVARIANTS TypeOK GrantIsRecoverable PublishedIsDurable
PROPERTIES ImplementsWriteLease
