\* One session over a network that neither loses nor reorders.
SPECIFICATION BusySpec
CONSTANTS
  Lossy = FALSE
  Reordering = FALSE
  MaxItems = 3
  MaxLiveness = 2
  MaxSessions = 1
  MaxFailures = 0
INVARIANTS NoDataDiscarded
PROPERTIES EverythingArrives
