SPECIFICATION Spec
CONSTANTS
  Addrs = {a, b}
  NumIds = 3
  NumServers <- Two
  Secret <- Different
  FIRST_WAIT = 1
  MAX_WAIT = 3
  MAX_RETRIES = 3
  MAX_ENTRIES = 2
  NUM_FAILOVER = 1
  MaxRequests = 4
  MaxErrors = 1
  MaxPrimary = 1
INVARIANTS TypeOK UniqueIds Armed OneInterim SignedAuth
PROPERTIES GivenUp
CHECK_DEADLOCK FALSE
