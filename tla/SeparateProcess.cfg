SPECIFICATION Spec
CONSTANTS
  NTests = 2
  MaxRetries = 1
  ExitCodes <- MCExitCodes
  MaxRaised = 1
  MaxStops = 2
INVARIANTS
  ExactFailures
  NoneLeftBehind
PROPERTIES
  RunEnds
