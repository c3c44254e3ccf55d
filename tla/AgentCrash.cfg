\* A row of three nodes in which one socket closes; nothing is lost.
SPECIFICATION Spec
CONSTANTS
  None = None
  Port <- RowPorts
  NodeOf <- RowOwner
  PeerOf <- Row
  Client <- RowClient
  Root = "a1"
  Lossy = FALSE
  Preemption = FALSE
  MaxDowns = 1
  MaxPath = 3
INVARIANTS AgentsSurvive
CHECK_DEADLOCK FALSE
