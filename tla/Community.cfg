\* A forum question and one that is judged, a new poller, a crash, a re-run.
SPECIFICATION CommunityFairSpec
CONSTANTS
  Questions = {q1, d1}
  Discord = {d1}
  MaxRuns = 1
  MaxPollers = 2
  MaxEvents = 2
INVARIANT QuestionsKept
PROPERTY Researched
CHECK_DEADLOCK FALSE
