\* A reconnect and a departure, with the two locks.
SPECIFICATION FairSpec
CONSTANTS
  c1 = c1
  c2 = c2
  c3 = c3
  s1 = s1
  s2 = s2
  Free = Free
  NoEntry = NoEntry
  Controls = {c1, c2}
  Slots = {}
  MaxRosters = 0
PROPERTIES
  DisconnectedReturns
CHECK_DEADLOCK FALSE
