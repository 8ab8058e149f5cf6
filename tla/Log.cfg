SPECIFICATION FairSpec
CONSTANTS
  Lens = {25, 165, 3927}
  GarbageLens = {0, 500, 6000}
  Block = 4096
  MaxReports = 4
  MaxErrors = 1
  Jumps = {900, 4000}
  FieldLens = {0, 65535}
INVARIANTS TypeOK Layout LogExact FaithfulRecords WithinFile EarlyReturned
PROPERTIES ReaderEnds Captured
CHECK_DEADLOCK FALSE
