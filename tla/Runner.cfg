\* A lane whose configuration changes, back and forth, while it starts and stops.
SPECIFICATION FairSpec
CONSTANTS
  Configs = {on, other, off}
  Open = {on, other}
  None = none
  MaxPollers = 4
  MaxRequests = 4
INVARIANT LaneFollowsConfig
PROPERTY RequestsServed
CHECK_DEADLOCK FALSE
