SPECIFICATION SpecQ
CONSTANTS
  MaxNr = 2
  MaxNc = 3
  MaxTones = 3
  BufLen = 47
  Buffers <- Few
  MaxCalls = 2
  TsDigits = {20}
  Ids = {2147483647}
INVARIANTS TypeOK RegisterInv ReadsInReport Decoded Statement Fits
CHECK_DEADLOCK FALSE
