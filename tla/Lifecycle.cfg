SPECIFICATION FairSpec

CONSTANTS
  Pids = {p1, p2, p3}
  Trees = {t1, t2}
  NoProcess = NoProcess
  NoTree = NoTree
  Operator = Operator
  Options <- AllKinds
  MaxRequests = 3
  p1 = p1
  p2 = p2
  p3 = p3
  t1 = t1
  t2 = t2

INVARIANTS
  TypeOK
  NoStrayProcess
  StateTellsProcess
  PatientOwnsWorktree
  HooksFollowProcess

PROPERTIES
  OldExitNeverEndsNew
  PatientClosesOnlyOnOwnExit
  AwaitsEnd

CHECK_DEADLOCK FALSE
