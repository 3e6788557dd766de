SPECIFICATION FairSpec
CONSTANTS
  NumCtas = 2
  Buffer = 24
  RadixThreshold = 8
  NumOutpos = 2
  EarlyExit = FALSE
  MaxBeamId = 4
  StaleSizes = {0}
  NoResult = NoResult
  Root <- MCRoot
  Token <- MCToken
  Path <- MCPath
  ToNext <- MCToNext
  ToSelected <- MCToSelected
  Score <- MCScore
  BeamWidth <- MCWidth
INVARIANT NoFault
CHECK_DEADLOCK FALSE
