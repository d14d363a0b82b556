SPECIFICATION Spec
CONSTANTS
  Client = {1, 2}
  Homes <- OneOrTwoGateways
  Peers = 2
  Chunks = 4
  Batch = 2
  Cap = 5
  MaxDrained = 1
  MaxIter = 2
  Attempts = 2
  Reads = 2
  Modes = {"drain", "probe"}
  MaxPasses = 2
  MaxFaults = 3
  MaxCrowded = 1
INVARIANTS
  TypeOK
  ToldOnceInOrder
  LossIsExcused
CHECK_DEADLOCK FALSE
