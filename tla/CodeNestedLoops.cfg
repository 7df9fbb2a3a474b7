CONSTANTS
  Programs <- NestedPrograms
  constTable <- MCConstTable
  NilConst = 0
  MaxHeight = 8
  MaxIndex = 127
  Starts <- SomeValues
  Answers <- SomeValues
  MaxEvents = 5
SPECIFICATION Spec
INVARIANT CodeMeansTree
