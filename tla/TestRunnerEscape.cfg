SPECIFICATION Spec
CONSTANTS
  Depth = 2
  OuterTests = 2
  NestedTests = 1
  Repeat = 1
  Escapes = TRUE
  MaxRuns = 2
  MaxFailures = 2
INVARIANTS
  StateOfInnermost
