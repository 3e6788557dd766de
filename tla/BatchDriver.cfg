SPECIFICATION Spec
CONSTANTS
  Garbage = Garbage
  BlockSize = 2
  MaxOutBeams = 3
  MaxOutTokens = 6
  Thread = {0, 1}
  Request <- MCRequest
  FinalBeam <- MCFinalBeam
  NumOutpos <- MCNumOutpos
  Answer <- MCAnswer
  Sms = 3
  BlocksPerSm = 1
  MaxBatchLimit = 2
  MaxVersion = 2
  MaxCalls = 3
  MaxFailures = 1
INVARIANTS
  TypeOK
  OwnAnswers
  GridsFit
  
PROPERTIES
  CallsReturn
CHECK_DEADLOCK FALSE
