SPECIFICATION WaitSpec
CONSTANTS
  a = a
  b = b
  c = c
  s1 = s1
  s2 = s2
  Session = {s1, s2}
  NoSession = NoSession
  SessionTTL = 1
  ClaimTTL = 2
  TombstoneTTL = 1
  MaxQueue = 2
  MaxTombstones = 1
  MaxTicket = 4
  Wait = {a, b, c}
  SessionOf <- TwoSessions
  MaxLost = 1
  Again = TRUE
  Barging = TRUE
  Prompt = FALSE
INVARIANTS TypeOK ClaimedTicketIsHead NotRevived Footprint WaitTypeOK OrphansAreLosses ClaimIsUsed
