CONSTANTS
  Name = {a, b}
  a = a
  b = b
  MaxTables = 2
  MaxRules = 3
  MaxErrors = 1
SYMMETRY Symmetric
SPECIFICATION Spec
INVARIANT SlotsDense
INVARIANT AssertionsHold
INVARIANT LocalsFit
