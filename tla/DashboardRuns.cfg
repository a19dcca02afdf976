SPECIFICATION FairSpec
CONSTANTS
  NHosts = 3
  Cards <- TwoCards
  Endless = {2}
  Slots = {1, 2, 3}
INVARIANTS
  TypeOK
  NoPileUp
  RowsWhole
PROPERTIES
  CursorStays
  Refreshes
CHECK_DEADLOCK FALSE
