\* Room for one ping, slow saves and a server that stops twice.
SPECIFICATION FairSpec

CONSTANTS
  LastPing = 2
  MaxEntries = 1
  MaxAttempts = 3
  MaxCrashes = 2
  PromptDisk = FALSE

INVARIANTS
  TypeOK
  SavedUntilSettled
  AttemptsAreLives
  OneReplay
  NeverForgotten

PROPERTY
  RetriedUntilSettled

CHECK_DEADLOCK FALSE
