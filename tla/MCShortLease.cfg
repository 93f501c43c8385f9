SPECIFICATION Spec
CONSTANTS
  Modes = {"watch"}
  Ttls = {10}
  MaxJitter = 4
  IdlePoll = 3
  Capacity = 2
PROPERTIES RenewsBeforeExpiry
\* The task ends and its owner lets go of it: there is nothing left to do.
CHECK_DEADLOCK FALSE
