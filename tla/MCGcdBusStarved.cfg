CONSTANTS
  MaxWord = 3
  RandPairs <- ZeroPairs
  NbInitiator = 2
  NbTarget = 2
  CounterSize = 1
  Base <- Straight
SPECIFICATION Spec
PROPERTIES
  RequestsGranted
