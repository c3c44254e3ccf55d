\* Sessions that fail at either end, datagrams lost and overtaken.
SPECIFICATION Spec
CONSTANTS
  Lossy = TRUE
  Reordering = TRUE
  MaxItems = 3
  MaxLiveness = 2
  MaxSessions = 3
  MaxFailures = 2
INVARIANTS TypeOK OneToken InOrder OneLossPerSession
PROPERTIES TransferSpec
CHECK_DEADLOCK FALSE
