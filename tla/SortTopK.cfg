SPECIFICATION FairSpec
CONSTANTS
  NumCtas = 2
  Half = 2
  Capacity = 2
  Inputs <- MCInputs
  MinScore <- MCMinScore
INVARIANTS
  BestStayInFront
  TopKInFront
  NoLostEntry
PROPERTY SortEnds
CHECK_DEADLOCK FALSE
