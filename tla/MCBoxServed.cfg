SPECIFICATION FairWaitSpec
CONSTANTS
  a = a
  b = b
  c = c
  s1 = s1
  s2 = s2
  Session = {s1, s2}
  NoSession = NoSession
  SessionTTL = 2
  ClaimTTL = 2
  TombstoneTTL = 1
  MaxQueue = 3
  MaxTombstones = 8
  MaxTicket = 8
  Wait = {a, b}
  SessionOf <- Siblings
  MaxLost = 2
  Again = FALSE
  Barging = FALSE
  Prompt = TRUE
PROPERTIES Served
