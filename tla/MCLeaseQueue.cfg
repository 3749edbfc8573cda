SPECIFICATION Spec
CONSTANTS
  a = a
  b = b
  t1 = t1
  t2 = t2
  t3 = t3
  Client = {a, b}
  Thread = {t1, t2, t3}
  Of <- MCTwice
  MaxQueue = 1
  MaxTomb = 1
  MaxWaits = 1
  MaxPref = 1
  Plain = FALSE
  Faithful = {}
INVARIANTS TypeOK RoomKept CancelHolds
CHECK_DEADLOCK FALSE
