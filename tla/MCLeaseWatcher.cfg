SPECIFICATION FairSpec
CONSTANTS
  Modes = {"token", "watch", "events", "rotate"}
  Ttls = {0, 4}
  MaxJitter = 2
  IdlePoll = 3
  Capacity = 2
INVARIANTS TypeOK RotationBudget
PROPERTIES ExpiredIsFinal ImplementsStream LapseIsNoticed DaemonKeepsTrying DropStopsTask ShutdownEndsUnlessFull
\* The task ends and its owner lets go of it: there is nothing left to do.
CHECK_DEADLOCK FALSE
