SPECIFICATION Spec
CONSTANTS
  Wrappers = {w1, w2, w3}
  Suspended = {w3}
  MaxRequests = 3
INVARIANTS
  TypeOK
  LoadedHasComponent
  FollowsNewer
  SharedLoad
  FailedForAReason
  NobodyStranded
PROPERTY Decided
CHECK_DEADLOCK FALSE
