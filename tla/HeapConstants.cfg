CONSTANTS
  NObj = 5
  Text = {gc, lit}
  Builtin = {gc}
  Func = {fn}
  Script <- OneScript
  Main = main
  Argv <- NoArgs
  FuncsOf <- OneFuncOf
  Literals <- OwnLiterals
  LocalSpace <- OneSlotFn
  ArgCount <- OneParam
  MaxLen = 1
  MaxDepth = 3
  Nil = Nil
  Num = Num
  None = None
  main = main
  lib = lib
  fn = fn
  gc = gc
  lit = lit
SPECIFICATION Spec
INVARIANTS ConstantsStayLive
