SPECIFICATION Spec
CONSTANTS
  Keys = {k}
  Computeds = {c}
  Effects = {e}
  Scheduled = {}
  AllowRecurse = {}
  None = none
  MaxMarkerBits = 2
  Writers = {none, e}
  StopsOuter = FALSE
  MayThrow = FALSE
  MaxOps = 2
  MaxDepth = 3
INVARIANT ToldOfNextChange
