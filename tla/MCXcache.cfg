CONSTANTS
  Line = {"a", "b", "c", "u", "e", "f", "g", "code", "boot"}
  CacheableLine = {"a", "b", "c", "e", "g", "code"}
  NbWords = 3
  NbWays = 1
  NbSlots = 2
  FifoDepth = 2
  Programs <- SomePrograms
  TargetOf <- Targets
  Contents <- SomeContents
  ErrorLine = {"e", "f", "g"}
  DmaLine = {"b"}
SPECIFICATION Spec
INVARIANTS
  TypeOK
  ReadsOwnWrites
  FetchesRight
  NoWriteLost
  SyncDrains
  ResponsesAccounted
  InvalidatedFresh
PROPERTIES
  RequestsAnswered
