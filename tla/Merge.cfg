\* Merges, discards, a finish, an exit and the check, in every order.
CONSTANTS
  MaxRequests = 3
  MaxEdits = 2
  MaxChecks = 1
  NoCheck = NoCheck
SPECIFICATION FairSpec
INVARIANT TypeOK
PROPERTIES WorkKept TeardownsEnd
CHECK_DEADLOCK FALSE
