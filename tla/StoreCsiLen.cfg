SPECIFICATION Spec
CONSTANTS
  p1 = p1
  p2 = p2
  Procs <- One
  Shapes <- FullOnly
  GarbageLens = {0}
  MaxMsgs = 1
  MaxStarts = 1
  MaxFails = 0
  MaxErrors = 0
INVARIANTS StatusCsiLen
CHECK_DEADLOCK FALSE
