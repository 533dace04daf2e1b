\* An agent and a shell whose hooks come in any order, once, twice or never.
SPECIFICATION GateFairSpec
CONSTANTS
  Agents = {a1}
  Shells = {s1}
  None = None
  AgentTtl = 3
  ShellTtl = 3
  Delivery = 2
  Settle = 2
  MaxSignals = 5
INVARIANT HeldIsWatched
PROPERTIES CompletesInTime HeldTurnEnds
CHECK_DEADLOCK TRUE
