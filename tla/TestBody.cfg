SPECIFICATION BodySpec
CONSTANTS
  INT_MAX = 1
  LONG_MAX = 3
  WINDOW = 4
  CHAR_BITS = 2
  NullPointer = NullPointer
  Global = Global
  Topics <- MCTopics
  Assertable <- MCAssertable
  Scopes <- MCScopes
  Answers <- MCAnswers
  Values <- MCValues
  Compared <- MCCompared
  Wants <- MCWants
  Chars <- MCChars
  Texts <- MCTexts
  MaxChecks = 1
  MaxCalls <- MCMaxCalls
  MaxLength = 4
INVARIANTS
  AssertsRightly
  MessageShowsDifference
  ValuesKept
  InterfacesAgree
  TextKept
