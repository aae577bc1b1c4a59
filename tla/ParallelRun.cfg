SPECIFICATION Spec
CONSTANTS
  Groups <- MCGroups
  Registries <- MCRegistries
  Workers = 2
  Separate <- MCSeparate
  Outcomes <- MCOutcomes
  Faults <- MCFaults
INVARIANTS
  MergedTotals
  GreenMeansAll
  ReplayInWorkerOrder
  NothingLeftBehind
PROPERTIES
  RunEnds
  KeepsPromise
