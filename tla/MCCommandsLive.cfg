SPECIFICATION FairSpec
CONSTANTS
  MaxCommand = 2
  MaxInstance = 2
  MaxLease = 1
  MaxRestart = 0
  MaxQueue = 1
  RetiredLimit = 1
  Exec <- MCExec
  Timed <- MCExec
  Fenced <- MCExec
  Releasable <- MCPlain
  Retried <- MCExec
PROPERTIES SilenceEnds
CHECK_DEADLOCK FALSE
