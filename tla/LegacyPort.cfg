\* Two addresses for each end, in every order, and a change of each.
SPECIFICATION FairSpec
CONSTANTS
  AddressOf <- MCAddressOf
  Overlap = FALSE
  MaxMoves = 1
INVARIANTS TypeOK NeighbourIsAnother
PROPERTY SearchEnds
CHECK_DEADLOCK FALSE
