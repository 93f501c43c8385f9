SPECIFICATION FairSpec
CONSTANTS
  Retries = {1}
  MaxSettings = 3
  MaxDepth = 3
  CustomCalls <- MCCustomCalls
INVARIANTS TypeOK LibraryLoginsDoNotReenter LocksAreReleased
  SuccessIsReal RepeatsAsConfigured SecretsAreChecked
PROPERTIES TokenOnlyFromLogins CallsEnd
\* A builder without an address builds nothing, and a login that waits for the
\* lock its own caller holds waits for ever.
CHECK_DEADLOCK FALSE
