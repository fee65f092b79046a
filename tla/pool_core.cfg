SPECIFICATION Spec
CONSTANTS
  Slots = {s1, s2}
  MinSlots = 1
  LowWatermark = 1
  NodeTotalSlots = 2
  Replicas = {}
  Hints <- NoHints
  StreamsFail = TRUE
INVARIANT WatermarkSettles
INVARIANT ServingSettles
SYMMETRY SlotSymmetry
