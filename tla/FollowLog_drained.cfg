\* attach beside a run that may end without a log, or write much at its end.
SPECIFICATION FollowFairSpec
CHECK_DEADLOCK FALSE
CONSTANTS
  MaxLog = 5
  Chunk = 2
PROPERTY FollowedToTheEnd
