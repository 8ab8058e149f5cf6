SPECIFICATION SpecW
CONSTANTS
  Lens = {165}
  GarbageLens = {0}
  Block = 4096
  MaxReports = 1
  MaxErrors = 0
INVARIANTS QuitKeepsLog
CHECK_DEADLOCK FALSE
