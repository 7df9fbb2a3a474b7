CONSTANTS
  Name = {a, b}
  Bit <- SomeBits
  Lists <- SomeLists
  WordBits = 64
  WordBytes = 8
  LeastWords = 8
  MaxWords = 20
  Inputs <- SomeInputs
  RuleDepth = 3
  PlaceDepth = 3
  Nodes <- SomeNodes
  MaxSorts = 2
  Texts <- SomeTexts
  MaxMarks = 2
  Sources <- SomeSources
  Settings <- SomeSettings
  TOKEN_FILL_BUFFER_INCREMENT = 2
  MaxTokenMarks = 2
  MaxRules = 2
  Files <- SomeFiles
  Skipped = {"space"}
  Junk = {"junk"}
  MaxInt = 99
  Windows <- SomeWindows
  Formats <- SomeFormats
  BufferSize = 10
  MaxBuffer = 15
  Bodies <- SomeBodies
  Top = "inner"
  JunkNum = 25000000
SPECIFICATION Spec
CHECK_DEADLOCK FALSE
INVARIANT OverridesSeen
