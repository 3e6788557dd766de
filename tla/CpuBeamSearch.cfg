SPECIFICATION Spec
CONSTANTS
  Keys <- MCKeys
  Proposals <- MCProposals
  Orders <- MCOrders
  NumOutpos = 4
  BeamWidth <- MCBeamWidth
  LengthWeight <- MCLengthWeight
  TokenLimit <- MCTokenLimit
  SentLimit <- MCSentLimit
  Token <- MCToken
  Path <- MCPath
  ToNext <- MCToNext
  ToSelected <- MCToSelected
  Score <- MCScore
INVARIANTS
  QueuesKeepBest
  NoneDisplaced
  Ascending
PROPERTIES
  ImplementsSearch
CHECK_DEADLOCK FALSE
