SPECIFICATION Spec
CONSTANTS
  MaxCommand = 2
  MaxInstance = 2
  MaxLease = 2
  MaxRestart = 1
  MaxQueue = 1
  RetiredLimit = 1
  Exec <- MCExec
  Timed <- MCNone
  Fenced <- MCExec
  Releasable <- MCPlain
  Retried <- MCExec
INVARIANTS QueueTypeOK CommittedIsTracked DroppedNeverRan RoomKept
PROPERTIES DeliveredUnderLease AnswerFromReceiver
CHECK_DEADLOCK FALSE
