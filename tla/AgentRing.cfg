\* Three nodes in a ring; links come up once, at any time and in any order.
SPECIFICATION FairSpec
CONSTANTS
  None = None
  Port <- RingPorts
  NodeOf <- RingOwner
  PeerOf <- Ring
  Client <- RingClient
  Root = "a1"
  Lossy = FALSE
  Preemption = FALSE
  MaxDowns = 0
  MaxPath = 6
INVARIANTS AgentsSurvive RootwardLeadsToRoot LeafwardPortsAreChildren
PROPERTIES TreeIsBuilt
CHECK_DEADLOCK FALSE
