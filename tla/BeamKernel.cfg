SPECIFICATION FairSpec
CONSTANTS
  NumCtas = 3
  Buffer = 40
  RadixThreshold = 8
  NumOutpos = 3
  EarlyExit = FALSE
  MaxBeamId = 9
  StaleSizes = {2}
  NoResult = NoResult
  Root <- MCRoot
  Token <- MCToken
  Path <- MCPath
  ToNext <- MCToNext
  ToSelected <- MCToSelected
  Score <- MCScore
  BeamWidth <- MCBeamWidth
INVARIANTS
  TypeOK
  NoFault
  BarriersAgree
  PhasesApart
  ParentsSaved
  BeamsBounded
  BestAnswer
PROPERTIES
  Termination
  ImplementsSearch
CHECK_DEADLOCK FALSE
