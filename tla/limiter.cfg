\* Both limiters, with a script that runs late and a response that costs more
\* than is repaid before its bucket is forgotten.
SPECIFICATION FairSpec
CONSTANTS
  r1 = r1
  r2 = r2
  r3 = r3
  Requests = {r1, r2, r3}
  RequestsPerMinute = 2
  TokensPerMinute = 1
  MaxConcurrent = 2
  Minute = 2
  Costs = {0, 3}
  IdleTTL = 2
  BucketTTL = 3
  LeaseTTL = 2
  MaxDelay = 1
  MaxAge = 3
INVARIANTS
  InflightExact
PROPERTIES
  Implements
  RefusalIsFree
  LeakedSlotReturns
CHECK_DEADLOCK FALSE
