SPECIFICATION Spec
CONSTANTS
  Addrs = {a1, a2, a3}
  Kinds <- MCKinds
  Sizes <- MCSizes
  FL_MAX_DEPTH = 1
  Headline = 130
  MaxSaves = 2
  MaxOverwrites = 1
  MaxExpected = 1
SYMMETRY Symmetry
INVARIANTS
  OneOwner
  WrongFreesFail
  TrackingRestored
PROPERTIES
  LeaksCharged
