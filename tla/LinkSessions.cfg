\* A lossy, reordering network, late timers, discovery that may fail.
SPECIFICATION FairSpec
CONSTANTS
  Lossy = TRUE
  Reordering = TRUE
  Punctual = FALSE
  Discovery = TRUE
  MaxOpens = 3
  MaxNet = 2
INVARIANTS TypeOK SessionsMatched ConnectedIsWatched NoTaskLeftBehind
PROPERTIES SignalsAlternate ServiceSpec SilenceIsNoticed LeftServerNotices PortComesBack
CHECK_DEADLOCK FALSE
