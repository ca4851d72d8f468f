SPECIFICATION Spec
CONSTANTS
  Keys = {k1, k2}
  Computeds = {}
  Effects = {e1, e2}
  Scheduled = {}
  AllowRecurse = {}
  None = none
  MaxMarkerBits = 1
  Writers = {none, e1, e2}
  StopsOuter = FALSE
  MayThrow = TRUE
  MaxOps = 3
  MaxDepth = 5
SYMMETRY Symmetry
PROPERTY TracksExactly
