SPECIFICATION FairSpec
CONSTANTS
  NumCtas = 2
  Buffer = 4
  RadixThreshold = 8
  NumOutpos = 2
  EarlyExit = FALSE
  MaxBeamId = 4
  StaleSizes = {0}
  NoResult = NoResult
  Root <- MCRoot
  Token <- MCToken
  Path <- MCPath
  ToNext <- MCToNextShort
  ToSelected <- MCToSelectedShort
  Score <- MCScore
  BeamWidth <- MCWidthOne
INVARIANT BestAnswer
PROPERTY Termination
CHECK_DEADLOCK FALSE
