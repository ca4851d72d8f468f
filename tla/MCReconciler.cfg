SPECIFICATION Spec
CONSTANTS
  FiberCount = 2
  MaxUpdates = 3
  MaxRequests = 2
  MaxWaits = 1
INVARIANTS
  TypeOK
  NothingLost
  CallbackWhenShown
  NothingStranded
  NoTearing
PROPERTIES
  Settles
CHECK_DEADLOCK FALSE
