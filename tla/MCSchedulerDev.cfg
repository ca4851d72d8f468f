SPECIFICATION FairSpec
CONSTANTS
  Updates = {"parent", "child"}
  PreJobs = {"watcher"}
  Cbs = {"hook"}
  Main = "main"
  Infinity = 9
  AllowRecurse = {"parent", "child"}
  CallRender = {"watcher", "hook"}
  DEV = TRUE
  RecursionLimit = 1
  MayThrow = FALSE
  MaxOps = 2
  MaxDepth = 4
  MaxQueue = 4
  MaxPost = 2
  IdOf <- MCIdOf
PROPERTIES
  FlushDrains
  OwedRuns
