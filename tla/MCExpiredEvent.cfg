SPECIFICATION Spec
CONSTANTS
  Modes = {"events"}
  Ttls = {6}
  MaxJitter = 0
  IdlePoll = 3
  Capacity = 2
PROPERTIES ExpiredMeansExpired
\* The task ends and its owner lets go of it: there is nothing left to do.
CHECK_DEADLOCK FALSE
