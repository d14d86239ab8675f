CONSTANTS
  MaxWord = 7
  RandPairs <- AllPairs
SPECIFICATION Spec
INVARIANTS
  TypeOK
  Lockstep
  ResultIsGcd
  OneZeroNeverAnswered
PROPERTIES
  ImplementsService
  RequestsAnswered
