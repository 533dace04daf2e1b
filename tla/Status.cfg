\* The default windows (750 ms and 500 ms) in ticks of 250 ms.
SPECIFICATION FairSpec
CONSTANTS
  ConflictWindow = 3
  DedupWindow = 2
  MaxPark = 3
  LastInput = 6
  Horizon = 10
  Nothing = Nothing
INVARIANTS TypeOK HookWins
PROPERTIES ReportsTurns LastWordTold
CHECK_DEADLOCK FALSE
