SPECIFICATION FairSpec
CONSTANTS
  Counts <- SomeCounts
  Seconds <- SomeSeconds
INVARIANTS TypeOK FrameCount Pace
PROPERTIES Terminates
CHECK_DEADLOCK FALSE
