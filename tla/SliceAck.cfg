\* One session without loss or reordering.
SPECIFICATION Spec
CONSTANTS
  Lossy = FALSE
  Reordering = FALSE
  MaxItems = 3
  MaxLiveness = 2
  MaxSessions = 1
  MaxFailures = 0
INVARIANT AckMeansDelivered
