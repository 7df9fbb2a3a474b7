CONSTANTS
  NObj = 5
  Text = {gc, lit}
  Builtin = {gc}
  Func = {fn}
  Script <- TwoScripts
  Main = main
  Argv <- OneArg
  FuncsOf <- OneFuncOf
  Literals <- LibLiterals
  LocalSpace <- OneSlotFn
  ArgCount <- OneParam
  MaxLen = 1
  MaxDepth = 3
  Nil = Nil
  Num = Num
  None = None
  main = main
  lib = lib
  fn = fn
  gc = gc
  lit = lit
SPECIFICATION Spec
INVARIANT TypeOK
INVARIANT OnlyScriptConstantsDangle
INVARIANT InternCanonical
INVARIANT ListIsHeap
INVARIANT SweptAreScanned
INVARIANT CleanShutdown
