SPECIFICATION Spec
CONSTANTS
  Global = Global
  Named = {drawing}
  Types = {Point, Line}
  Comparators = {exact, fuzzy}
  MAX_C_ADAPTERS = 2
  Suites <- MCAdapterSuites
  MaxEntries = 2
INVARIANTS
  BoundAsInstalled
