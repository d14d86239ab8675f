CONSTANTS
  Systems <- MCSystems
  Maps <- MCMaps
  WordSize = 32
  LineSize = 3
SPECIFICATION FairSpec
INVARIANTS TypeOK DecodesRight ContextKept CharactersInOrder NumbersKept
PROPERTIES InterruptsServed TasksTakeTurns
\* sc_main stops when a map is refused, and a program that exits loops for ever.
CHECK_DEADLOCK FALSE
