\* A reader that falls behind, pauses and resumes at any time, over resizes.
SPECIFICATION FairSpec
CONSTANTS
  RingMax = 3
  MaxSendBuffer = 2
  HighWater = 2
  LowWater = 1
  SnapshotSize = 1
  FrameSize = 1
  MaxTotal = 5
  MaxSize = 2
INVARIANT StreamIsRight
PROPERTIES PausedIsQuiet CaughtUp
