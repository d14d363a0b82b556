SPECIFICATION Spec
CONSTANTS
  Thread = {mon, host}
  Monitor = mon
  Spare = 4
  Frame = 2
  Buf = 2
  MaxFaults = 1
  None = None
INVARIANTS
  TypeOK
  RepliesArrive
PROPERTIES
  LinkComesBack
