SPECIFICATION Spec
CONSTANTS
  Callers = {c1}
  Daemon = daemon
  Wrapped = {}
  HasAuthMethod = FALSE
  Leases = {1}
  MaxTokens = 2
PROPERTIES SetTokenSticks
