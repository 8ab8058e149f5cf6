SPECIFICATION Spec
CONSTANTS
  Sta = {"c"}
  Version <- Versions
  Nonces <- SNonces
  UPDATE_COUNT = 4
  MAX_RETRIES = 4
  MaxAssoc = 3
  MaxExtra = 1
PROPERTIES HandshakeEnds
CHECK_DEADLOCK FALSE
