SPECIFICATION FairSpec
CONSTANTS
  a = a
  b = b
  t1 = t1
  t2 = t2
  t3 = t3
  Client = {a, b}
  Thread = {t1, t2}
  Of <- MCEach
  MaxQueue = 2
  MaxTomb = 1
  MaxWaits = 2
  MaxPref = 1
  Plain = TRUE
  Faithful = {b}
INVARIANTS PreferenceBounded
PROPERTIES OrderKept Served
CHECK_DEADLOCK FALSE
