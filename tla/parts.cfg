SPECIFICATION MCSpec
CONSTANTS
  x = x
  y = y
  Chars <- MCChars
  StrMaxSize = 3
  MaxLen = 2
  Int64Max = 3
  Numbers <- MCNumbers
  Word = "word"
  Messages = 3
  Rounds = 3
  n1 = n1
  n2 = n2
  Nodes <- MCNodes
  Apps <- MCApps
  AppOf <- MCAppOf
  Contained <- MCContained
  Everybody = "**"
  r1 = r1
  r2 = r2
  Requests <- MCRequests
  MaxVersion = 2
  MaxEvents = 2
INVARIANTS AnswersExplained SumTruthful StreamsWhole OutlivedExplained StaleExplained OneVoice Isolation
PROPERTIES StreamsEnd ListedInTheEnd Drained Answered
CHECK_DEADLOCK FALSE
