SPECIFICATION Spec
CONSTANTS
  Sta = {"a"}
  Version <- Versions
  Nonces <- SNonces
  UPDATE_COUNT = 2
  MAX_RETRIES = 2
  MaxAssoc = 2
  MaxExtra = 0
PROPERTIES GtkRenewed
CHECK_DEADLOCK FALSE
