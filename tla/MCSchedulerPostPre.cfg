SPECIFICATION Spec
CONSTANTS
  Updates = {"parent", "child"}
  PreJobs = {"watcher"}
  Cbs = {"hook"}
  Main = "main"
  Infinity = 9
  AllowRecurse = {"parent", "child"}
  CallRender = {"parent", "child", "watcher", "hook", "main"}
  DEV = FALSE
  RecursionLimit = 0
  MayThrow = FALSE
  MaxOps = 2
  MaxDepth = 6
  MaxQueue = 4
  MaxPost = 2
  IdOf <- MCIdOf
INVARIANTS
  WatchersFlushed
