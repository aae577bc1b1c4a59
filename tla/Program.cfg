SPECIFICATION ProgramSpec
CONSTANTS
  t1 = t1
  t2 = t2
  t3 = t3
  Tests = {t1, t2, t3}
  NIL = NIL
  Levels <- MCLevels
  MaxShuffles = 1
  PluginArguments <- MCPluginArguments
  Group <- MCGroup
  Name <- MCName
  DotsPerLine = 2
  IgnoredTests = {t3}
  Outcomes <- MCOutcomes
  RightWishes <- MCRightWishes
  WrongWishes <- MCWrongWishes
  StatusRange = 4
  MaxUnwritable = 1
INVARIANTS
  ListKept
  SelectedShown
  ReportsTrue
  ExitHonest
