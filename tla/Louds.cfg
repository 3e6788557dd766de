SPECIFICATION Spec
CONSTANTS
  Keysets <- MCKeysets
  Configs <- MCConfigs
  Queries <- MCQueries
  QueryIds <- MCIds
  BaseSize = 4
  CacheSize = 2
  CacheLevel = 1
INVARIANTS
  TypeOK
  IdsAgree
  CacheTrue
PROPERTIES
  AnswersInLabelOrder
  ImplementsDictionary
CHECK_DEADLOCK FALSE
