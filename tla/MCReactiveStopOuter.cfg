SPECIFICATION Spec
CONSTANTS
  Keys = {k}
  Computeds = {}
  Effects = {e1, e2}
  Scheduled = {}
  AllowRecurse = {}
  None = none
  MaxMarkerBits = 2
  Writers = {none, e1, e2}
  StopsOuter = TRUE
  MayThrow = FALSE
  MaxOps = 2
  MaxDepth = 3
INVARIANT StoppedStaysStopped
