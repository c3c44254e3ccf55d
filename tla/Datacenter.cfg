\* Five commands: a topology can be loaded, its cells removed, and their ids used
\* again; and one process that dies.
SPECIFICATION FairSpec
CONSTANTS
  a = a
  b = b
  e0 = e0
  e1 = e1
  None = None
  Id = {a, b}
  Rpc = {1, 2}
  Name = {e0, e1}
  Topology <- MCTopology
  Ends <- MCEnds
  Careful = TRUE
  MaxCommands = 5
  MaxFaults = 1
INVARIANTS TypeOK QuitLeavesNothing ProxyReachesOwnCell LoadedIsWired
 
CHECK_DEADLOCK FALSE
