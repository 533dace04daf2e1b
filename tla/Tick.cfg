SPECIFICATION FairSpec
CONSTANTS
  Lanes <- MCLanes
  MaxQuick = 3
  MaxRefreshes = 2
  MaxFailures = 5
INVARIANT StopsAndRetries
PROPERTIES BeginsOnlyWhenFree AskedIsServed
CHECK_DEADLOCK FALSE
