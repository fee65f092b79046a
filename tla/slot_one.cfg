\* One stream, reused by two calls that share a request id.
SPECIFICATION FairSpec
CONSTANTS
  s1 = s1
  s2 = s2
  c1 = c1
  c2 = c2
  NoCall = NoCall
  Slots = {s1}
  Calls = {c1, c2}
  Ids = {"id"}
  IdOf <- TwoCallsOneId
  BodyCalls = {c1}
  BigCalls = {c2}
  Chunks = 1
  MaxData = 1
  MaxRequestsPerSlot = 2
  NetworkFails = TRUE
  PoolRetires = TRUE
  NodeDrains = TRUE
INVARIANTS
  ExclusiveUse
  CleanOffer
  NoSpuriousFault
  OwnCancelOnly
  CompleteResponse
  BodyIntact
CHECK_DEADLOCK FALSE
PROPERTIES
  EveryCallEnds
  AbandonedSlotReclaimed
