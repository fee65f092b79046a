SPECIFICATION FairSpec
CONSTANTS
  r1 = r1
  r2 = r2
  c1 = c1
  c2 = c2
  Requests = {r1, r2}
  Candidates = {c1, c2}
  Kinds = {"messages", "submit", "pinned"}
  FailureThreshold = 1
  BaseCooldown = 1
  MaxCooldown = 1
  MaxShift = 0
  LimitCooldown = 1
  MaxLimitCooldown = 1
  RetryAfters = {0, 2}
  QueueMaxWait = 1
  QueueRetryInterval = 1
  QueueMaxWaiters = 1
INVARIANTS
  TypeOK
  CoolingMeansUntried
  QueueExact
PROPERTIES
  CallsEnd
  Reprobed
CHECK_DEADLOCK FALSE
