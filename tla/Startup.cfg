SPECIFICATION Spec
CONSTANTS
  Instants <- MCInstants
  DataLen = 3
  SdTries = 2
  MaxTicks = 3
  MaxMisses = 1
  MaxResets = 2
INVARIANTS TypeOK TimeNotAhead
PROPERTIES LogInOrder StartEnds StartProgress
