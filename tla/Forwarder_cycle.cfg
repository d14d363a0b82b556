SPECIFICATION FairSpec
CONSTANTS
  Source <- Sources
  Chunks <- TwoOfTheFirst
  Batch = 1
  Cap = 2
  MaxReads = 2
  MaxLate = 1
  MaxFaults = 1
INVARIANT TypeOK
INVARIANT PostedOnceAsOwn
INVARIANT LossIsExcused
PROPERTY StopEnds
PROPERTY ReadUnlessLate
CHECK_DEADLOCK FALSE
