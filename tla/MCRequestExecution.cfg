SPECIFICATION Spec
CONSTANTS
  Requests = {r1, r2}
  FailureThreshold = 2
  ResetTimeout = 2
  MaxRetries = 2
  RetryOnSealed = TRUE
  InitialDelays = {0, 1}
  MaxBackoff = 2
  MaxRetryAfter = 3
INVARIANTS TypeOK RetryBudget AlwaysHasAPause
PROPERTIES GivesUpLate CallsEnd RecordsCalls
