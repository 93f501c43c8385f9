SPECIFICATION FairSpec
CONSTANTS
  Requests = {r1, r2, r3}
  FailureThreshold = 2
  ResetTimeout = 3
INVARIANTS TypeOK CountsEveryFailure
PROPERTIES ProbesAreSpaced Recovers ImplementsGate
