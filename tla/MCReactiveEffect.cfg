SPECIFICATION Spec
CONSTANTS
  Keys = {k}
  Computeds = {c}
  Effects = {e}
  Scheduled = {job}
  AllowRecurse = {job}
  None = none
  MaxMarkerBits = 2
  Writers = {none, e}
  StopsOuter = FALSE
  MayThrow = TRUE
  MaxOps = 2
  MaxDepth = 4
INVARIANTS
  TypeOK
  DepsExact
  MarksCleared
  Settled
  ReadsAreFresh
