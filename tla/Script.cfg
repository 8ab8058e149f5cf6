SPECIFICATION Spec
CONSTANTS
  Rounds = 4
  MaxReports = 4
INVARIANTS TypeOK Stragglers OwnRounds
PROPERTIES AllEnd
CHECK_DEADLOCK FALSE
