SPECIFICATION Spec
CONSTANTS
  Instants <- MCInstants
  DataLen = 21
  SdTries = 10
  MaxTicks = 0
  MaxMisses = 0
  MaxResets = 1
PROPERTIES FirstStartOnce
