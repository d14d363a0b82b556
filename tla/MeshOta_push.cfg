SPECIFICATION Spec
CONSTANTS
  N = 3
  Ring = 3
  Depth = 2
  Back = 1
  Passes = 3
  HostTries = 2
  SendTries = 2
  RpcTries = 2
  Lossy = TRUE
  Shared = TRUE
  ResetFinalizes = FALSE
  Mixed = FALSE
CHECK_DEADLOCK FALSE
INVARIANTS
  TypeOK
  ImageIsPrefix
  UpgradeIsWhole
  AloneWritesLand
  AnsweredCommitStages
PROPERTIES
  HostEnds
