SPECIFICATION Spec
CONSTANTS
  UnitBits = 4
  LinearBlocks = 1
  Lanes = 2
  Runs = {1, 7, 33}
  MaxRuns = 4
  Values = {0, 1, 5, 6, 7}
  MaxValues = 5
  Memories <- MCMemories
  BaseBlockSize = 3
  ExtraBlockSize = 2
  KeyBlockSize = 2
  Lengths = {0, 1, 2, 3}
  MaxPushes = 4
  MaxResets = 1
  Tries <- MCTries
  Burst = 7
  MaxWrites = 2
  MaxCrashes = 1
  Strings <- MCStrings
  MaxSorted = 4
  MaxInt = 2147483647
  Threshold = 2
INVARIANTS
  IndexAnswers
  ValuesKept
  KeysReadBack
  ReadsWhatWasWritten
  SortsKeys
PROPERTIES
  FailureKeepsTrie
\* A container that was filled up to the bounds stays as it is.
CHECK_DEADLOCK FALSE
