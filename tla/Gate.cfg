\* A resume and three children of one parent, with room for two sessions and for
\* two spawns in the parent's life.
SPECIFICATION FairSpec
CONSTANTS
  p1 = p1
  Resumes = {r1}
  Spawns = {s1, s2, s3}
  Parents = {p1}
  ParentOf <- OneParent
  Memory = 2
  MaxInFlight = 1
  MaxLiveChildren = 1
  MaxLifetimeSpawns = 2
  MayFailToRead = FALSE
INVARIANT CountsHold
PROPERTIES AdmitsWhatFits UnwantedLeave
CHECK_DEADLOCK FALSE
