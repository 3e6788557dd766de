SPECIFICATION WalkSpec
CONSTANTS
  Label = {1, 2}
  MaxKeys = 4
  MaxLength = 3
  MaxDepth = 4
  KeySets <- MCKeySets
INVARIANT CpuOnlyKeys
CHECK_DEADLOCK FALSE
