SPECIFICATION WalkSpec
CONSTANTS
  Label = {1, 2}
  MaxKeys = 4
  MaxLength = 3
  MaxDepth = 4
  KeySets <- MCKeySets
INVARIANTS
  TypeOK
  GpuStaysOnKeys
  KeysFound
  PrefixesKept
  SearchesAgree
CHECK_DEADLOCK FALSE
