CONSTANTS
  Parts = {"stack"}
  Func = {main, fn, leaf}
  Script = main
  NArgs = 1
  CodeLen <- Code
  ArgsAt <- Passes
  LocalSpace <- Space
  ArgCount <- Params
  Value = {Nil, x}
  Nil = Nil
  StackReserve = 5
  FrameReserve = 4
  None = None
  main = main
  fn = fn
  leaf = leaf
  LocalIds <- LocalsUpTo8
  Consts = {}
  Offsets = {32}
  Callers <- SomeCallers
  MaxMoves = 0
SPECIFICATION MCSpec
PROPERTY ResultArrives
