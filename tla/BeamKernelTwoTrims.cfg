SPECIFICATION FairSpec
CONSTANTS
  NumCtas = 1
  Buffer = 8
  RadixThreshold = 8
  NumOutpos = 2
  EarlyExit = FALSE
  MaxBeamId = 8
  StaleSizes = {0}
  NoResult = NoResult
  Root <- MCRoot
  Token <- MCToken
  Path <- MCPath
  ToNext <- MCToNext
  ToSelected <- MCToSelected
  Score <- MCScore
  BeamWidth <- MCWidth
INVARIANT BestAnswer
CHECK_DEADLOCK FALSE
