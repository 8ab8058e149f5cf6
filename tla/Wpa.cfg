SPECIFICATION Spec
CONSTANTS
  Sta = {"a", "b"}
  Version <- Versions
  Nonces <- SNonces
  UPDATE_COUNT = 2
  MAX_RETRIES = 2
  MaxAssoc = 2
  MaxExtra = 1
INVARIANTS TypeOK GKeyDone KeyWaits Confirmed
CHECK_DEADLOCK FALSE
