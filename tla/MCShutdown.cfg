SPECIFICATION FairSpec
CONSTANTS
  Modes = {"events"}
  Ttls = {2}
  MaxJitter = 0
  IdlePoll = 3
  Capacity = 2
PROPERTIES ShutdownEnds
\* The task ends and its owner lets go of it: there is nothing left to do.
CHECK_DEADLOCK FALSE
