CONSTANTS
  MaxWord = 3
  RandPairs <- SomePairs
  NbInitiator = 3
  NbTarget = 3
  CounterSize = 1
  Base <- Straight
SPECIFICATION Spec
INVARIANTS
  TypeOK
  OneTransaction
  BusyOnlyWhilePolled
  ResultIsGcd
PROPERTIES
  ImplementsService
  RequestsAnswered
