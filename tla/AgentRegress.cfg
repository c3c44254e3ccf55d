\* Two nodes joined by two links, one of which fails and comes back.
SPECIFICATION Spec
CONSTANTS
  None = None
  Port <- PairPorts
  NodeOf <- PairOwner
  PeerOf <- Pair
  Client <- PairClient
  Root = "a1"
  Lossy = FALSE
  Preemption = FALSE
  MaxDowns = 2
  MaxPath = 3
PROPERTIES InstancesMoveOn
CHECK_DEADLOCK FALSE
