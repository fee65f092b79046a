\* One workflow submission and two nodes.
SPECIFICATION Spec
CONSTANTS
  r1 = r1
  r2 = r2
  c1 = c1
  c2 = c2
  Requests = {r1}
  Candidates = {c1, c2}
  Kinds = {"submit"}
  FailureThreshold = 2
  BaseCooldown = 1
  MaxCooldown = 1
  MaxShift = 0
  LimitCooldown = 1
  MaxLimitCooldown = 1
  RetryAfters = {0}
  QueueMaxWait = 0
  QueueRetryInterval = 1
  QueueMaxWaiters = 1
INVARIANT NoSecondRun
CHECK_DEADLOCK FALSE
