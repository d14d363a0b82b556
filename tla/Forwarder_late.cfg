SPECIFICATION FairSpec
CONSTANTS
  Source <- Sources
  Chunks <- TwoOfTheFirst
  Batch = 1
  Cap = 2
  MaxReads = 2
  MaxLate = 1
  MaxFaults = 1
CHECK_DEADLOCK FALSE
PROPERTY RetriedNextCycle
