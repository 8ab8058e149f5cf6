SPECIFICATION Spec
CONSTANTS
  p1 = p1
  p2 = p2
  Procs <- Two
  Shapes <- FullOnly
  GarbageLens = {0}
  MaxMsgs = 2
  MaxStarts = 1
  MaxFails = 0
  MaxErrors = 0
INVARIANTS OwnRow
SYMMETRY Swap
CHECK_DEADLOCK FALSE
