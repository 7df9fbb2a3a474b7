CONSTANTS
  Programs <- AllPrograms
  constTable <- MCConstTable
  NilConst = 0
  MaxHeight = 8
  MaxIndex = 127
  Starts <- SomeValues
  Answers <- SomeValues
  MaxEvents = 6
SPECIFICATION Spec
INVARIANT TypeOK
INVARIANT CodeMeansTree
INVARIANT GeneratorBalanced
