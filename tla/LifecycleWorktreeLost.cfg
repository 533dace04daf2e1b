SPECIFICATION Spec

CONSTANTS
  Pids = {p1, p2}
  Trees = {t1, t2}
  NoProcess = NoProcess
  NoTree = NoTree
  Operator = Operator
  Options <- ImpatientLocal
  MaxRequests = 2
  p1 = p1
  p2 = p2
  t1 = t1
  t2 = t2

INVARIANTS
  OwnWorktree

CHECK_DEADLOCK FALSE
