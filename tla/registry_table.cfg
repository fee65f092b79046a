\* Two overlapping Control streams and a slot of one node, one roster.
SPECIFICATION Spec
CONSTANTS
  c1 = c1
  c2 = c2
  c3 = c3
  s1 = s1
  s2 = s2
  Free = Free
  NoEntry = NoEntry
  Controls = {c1, c2}
  Slots = {s1}
  MaxRosters = 1
SYMMETRY StreamSymmetry
INVARIANTS
  ConnectedExact
  NoEntryLeak
  MaintenanceCurrent
  RosterReachesAll
CHECK_DEADLOCK FALSE
