SPECIFICATION Spec
CONSTANTS
  Global = Global
  Named = {drawing}
  Types = {Point}
  Comparators = {exact, fuzzy}
  MAX_C_ADAPTERS = 2
  Suites <- MCSuites
  MaxEntries = 2
INVARIANTS
  BindSourceAlive
  FreshScopes
PROPERTIES
  KeepsTree
