SPECIFICATION FollowSpec
CONSTANTS
  Setups <- MCSetups
  MaxFaults = 1
PROPERTY
  EveryFollowEnds
CHECK_DEADLOCK FALSE
