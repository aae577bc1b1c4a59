SPECIFICATION Spec
CONSTANTS
  sp = sp
  ml = ml
  mp = mp
  sp2 = sp2
  ml2 = ml2
  mp2 = mp2
  Default = Default
  Inner = Inner
  SetPointer = {sp, sp2}
  LeakWarning = {ml, ml2}
  MockSupport = {mp, mp2}
  FirstLeakWarning = ml
  Home <- MCHome
  Starts <- MCStarts
  Pointers = {x, y}
  MAX_SET = 2
  MaxEntries = 1
  NULL = NULL
  MaxTests = 3
  MaxSteps = 3
  MaxOffers = 2
  MaxChanges = 1
SYMMETRY MCPointers
INVARIANTS
  PointersRestored
  LeaksToTheirTest
  AdaptersPerTest
