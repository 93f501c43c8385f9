SPECIFICATION Spec
CONSTANTS
  Callers = {c1}
  Daemon = daemon
  Wrapped = {c1}
  HasAuthMethod = TRUE
  Leases = {1}
  MaxTokens = 2
PROPERTIES AlwaysRefreshed
