\* Two nodes, a lossy link that fails up to four times, and agents that are
\* preempted in the middle of a visit.
SPECIFICATION Spec
CONSTANTS
  None = None
  Port <- WirePorts
  NodeOf <- WireOwner
  PeerOf <- Wire
  Client <- WireClient
  Root = "a1"
  Lossy = TRUE
  Preemption = TRUE
  MaxDowns = 4
  MaxPath = 3
INVARIANTS TypeOK PathsAreWalkable GatheredPathsAreCurrent
CHECK_DEADLOCK FALSE
