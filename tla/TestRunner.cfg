SPECIFICATION Spec
CONSTANTS
  Depth = 2
  OuterTests = 2
  NestedTests = 1
  Repeat = 2
  Escapes = FALSE
  MaxRuns = 2
  MaxFailures = 2
INVARIANTS
  StateOfInnermost
  JumpsMatchSections
  FailuresAttributed
  EveryTestFinished
