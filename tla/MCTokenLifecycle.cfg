SPECIFICATION FairSpec
CONSTANTS
  Callers = {c1, c2}
  Daemon = daemon
  Wrapped = {c2}
  HasAuthMethod = TRUE
  Leases = {0, 1}
  MaxTokens = 2
INVARIANTS TypeOK OneRenewalAtATime SharesRenewal TokenIsAnnounced
PROPERTIES RefreshedBeforeUse ImplementsService CallsEnd
