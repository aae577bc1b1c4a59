SPECIFICATION Spec
CONSTANTS
  draw = draw
  erase = erase
  xpos = xpos
  ypos = ypos
  buf = buf
  objP = objP
  objQ = objQ
  AnyObject = AnyObject
  Wants <- MCWants
  Amounts <- MCAmounts
  Orders <- MCOrders
  Functions <- MCFunctions
  Inputs <- MCInputs
  Outputs <- MCOutputs
  Copiers <- MCCopiers
  Objects <- MCObjects
  Suites <- MCSuites
  MaxWants = 2
  MaxCalls = 3
  MaxArgs = 2
  MaxTests = 3
INVARIANTS
  NeverOvercharged
  CallFits
  ExactFitWins
  OutputsFromCharged
  GreenMeansMet
  OrderKept
PROPERTIES
  FreshMock
