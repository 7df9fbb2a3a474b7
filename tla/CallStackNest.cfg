CONSTANTS
  Parts = {"stack", "jit"}
  Func = {main, fn, leaf}
  Script = main
  NArgs = 1
  CodeLen <- Code
  ArgsAt <- Passes
  LocalSpace <- Space
  ArgCount <- Params
  Value = {Nil, x}
  Nil = Nil
  StackReserve = 6
  FrameReserve = 4
  None = None
  main = main
  fn = fn
  leaf = leaf
  LocalIds <- LocalsBelow8
  Consts <- ConstsBelow8
  Offsets <- Aligned32
  Callers <- SomeCallers
  MaxMoves = 2
SPECIFICATION MCSpec
INVARIANTS TypeOK FramesNest LinesInRange EndsRestored
INVARIANTS MovesLikeInterpreter CalleeSaved OnlyStraddlingFaults
PROPERTY ImplementsActivations
