\* Two ports of a cell, one of them on an interface; threads keep up with their timers.
SPECIFICATION FairSpec
CONSTANTS
  None = None
  Name = {p, q}
  Virtual = {p}
  Prompt = TRUE
  Rebinding = FALSE
  Capacity = 1
  MaxPuts = 2
  MaxBinds = 2
  MaxUps = 1
  MaxHeard = 2
INVARIANTS TypeOK TablesAgree LiveThreadsAreBound
PROPERTIES  ShutdownEnds
CHECK_DEADLOCK FALSE
