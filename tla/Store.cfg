SPECIFICATION Spec
CONSTANTS
  p1 = p1
  p2 = p2
  Procs <- Two
  Shapes <- Both
  GarbageLens = {0}
  MaxMsgs = 3
  MaxStarts = 2
  MaxFails = 1
  MaxErrors = 1
INVARIANTS TypeOK Attribution StoredOnce StorePrefix TablesReady
PROPERTIES Captured
SYMMETRY Swap
CHECK_DEADLOCK FALSE
