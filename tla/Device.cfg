SPECIFICATION Spec
CONSTANTS
  Word <- MCWord
  Stocks <- MCStocks
  Lists <- MCLists
  Partitions = {"vendor"}
  BinDir <- MCBinDir
  Applets = {"su"}
  Libs = {"lib", "lib64"}
  Pids = {z, c1}
  Zygote = z
  Mods = {m1}
  Methods = {"app", "spec", "server"}
  MaxCalls = 3
  Users = {u1, u2}
  Ro = {"ro"}
  Persist = {"p1", "p2"}
  Values = {"a", "b"}
  Long = "long"
  MaxOps = 2
  Versions = {0, 7, 8, 9, 10, 11, 12, 13}
  MaxFiles = 3
  MaxCrashes = 1
  MaxTime = 3
  Plans <- MCPlans
  Lag = 2
  OptionLists <- MCOptionLists
  Terminals = {"tty", "file", "closed"}
  Modes = {"Global", "Requester", "Isolate"}
  Codes = {0, 2}
INVARIANTS MountedView FdTableClean UnloadSafe  ZygoteIntact StoredIsCurrent OneDatabase BlockedBounded  SuReturns
 
CHECK_DEADLOCK FALSE
