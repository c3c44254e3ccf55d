\* A pipe holds one small message and most of another; the large one does not fit.
SPECIFICATION FairSpec
CONSTANTS
  s = s
  l = l
  Message = {s, l}
  Size <- MCSize
  Capacity = 5
  Atomic = 3
  Page = 2
  MaxPuts = 3
  MaxSessions = 2
INVARIANT TypeOK
PROPERTIES QueuesAreFifos PutEnds AgentEnds
CHECK_DEADLOCK FALSE
