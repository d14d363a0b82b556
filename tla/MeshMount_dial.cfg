SPECIFICATION FairSpec
CONSTANTS
  Thread = {h1, h2}
  Peer = {A, B}
  Slot = {s1, s2}
  Fid = {f1}
  Attempts = 2
  Polls = 2
  MaxOps = 3
  MaxFaults = 1
  None = None
  Named = A
INVARIANT TypeOK
INVARIANT OneLeakAFault
INVARIANT ReplyIsOwn
INVARIANT DialsNewPeer
PROPERTY OpsReturn
CHECK_DEADLOCK FALSE
