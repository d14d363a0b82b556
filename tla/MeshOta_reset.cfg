SPECIFICATION Spec
CONSTANTS
  N = 3
  Ring = 3
  Depth = 2
  Back = 1
  Passes = 3
  HostTries = 2
  SendTries = 2
  RpcTries = 2
  Lossy = TRUE
  Shared = FALSE
  ResetFinalizes = TRUE
  Mixed = FALSE
CHECK_DEADLOCK FALSE
INVARIANTS
  UpgradeNeedsCommit
