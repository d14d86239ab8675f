CONSTANTS
  Systems <- RaceSystems
  Maps <- MCMaps
  WordSize = 32
  LineSize = 3
SPECIFICATION Spec
INVARIANTS ReadsWhatWasTyped
CHECK_DEADLOCK FALSE
