SPECIFICATION Spec
CONSTANTS
  Locations = {a, b}
  NoLocation = NoLocation
  LoadedLocation = a
  Options <- OptionsDef
  Deltas <- DeltasDef
  Phases = 1
  MaxNavigations = 4
  MaxPending = 2
  MaxGos = 2
  MaxUnmounts = 1
INVARIANTS
  TypeOK
  DeltaIsDistance
  UrlShowsRoute
PROPERTIES
  NewestWins
  RefusalIsUndone
CHECK_DEADLOCK FALSE
