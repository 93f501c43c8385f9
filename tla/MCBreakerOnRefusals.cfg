SPECIFICATION Spec
CONSTANTS
  Requests = {r1, r2}
  FailureThreshold = 2
  ResetTimeout = 2
  MaxRetries = 1
  RetryOnSealed = TRUE
  InitialDelays = {1}
  MaxBackoff = 2
  MaxRetryAfter = 1
INVARIANTS TripsOnOutage
