SPECIFICATION FairSpec
CONSTANTS
  Slots = {s1}
  MinSlots = 1
  LowWatermark = 1
  NodeTotalSlots = 1
  Replicas = {1, 2}
  Hints <- WideHint
  StreamsFail = TRUE
PROPERTY Refills
PROPERTY StopEnds

