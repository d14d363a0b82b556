SPECIFICATION Spec
CONSTANTS
  o1 = o1
  N = 2
  Batch = 2
  Op = {o1}
  Ops = {"confirm", "conv"}
  Faults = {"crash", "write"}
  BareAttach = FALSE
  NoOne = NoOne
INVARIANTS
  TypeOK
  OpHeals
  CompletedIsWhole
PROPERTIES
  LiveSessionKept
