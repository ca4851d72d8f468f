SPECIFICATION Spec
CONSTANTS
  Updates = {"parent", "child"}
  PreJobs = {"watcher", "global"}
  Cbs = {"ref", "hook"}
  Main = "main"
  Infinity = 9
  AllowRecurse = {"parent", "child"}
  CallRender = {"child", "global", "hook", "main"}
  DEV = FALSE
  RecursionLimit = 0
  MayThrow = TRUE
  MaxOps = 2
  MaxDepth = 5
  MaxQueue = 4
  MaxPost = 3
  IdOf <- MCIdOf
INVARIANTS
  TypeOK
  NoDuplicateJob
  QueueSorted
  SearchIsExact
  NoLostJob
  NoLostPostCb
  FlushArmed
  WatchersBeforeRender
PROPERTY ServesRequests
