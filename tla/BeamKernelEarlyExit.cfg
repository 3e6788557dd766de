SPECIFICATION FairSpec
CONSTANTS
  NumCtas = 2
  Buffer = 24
  RadixThreshold = 8
  NumOutpos = 3
  EarlyExit = TRUE
  MaxBeamId = 8
  StaleSizes = {0}
  NoResult = NoResult
  Root <- MCRoot
  Token <- MCToken
  Path <- MCPath
  ToNext <- MCToNext
  ToSelected <- MCToSelected
  Score <- MCScore
  BeamWidth <- MCBeamWidthTwo
PROPERTY Termination
CHECK_DEADLOCK FALSE
