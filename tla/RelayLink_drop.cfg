SPECIFICATION Spec
CONSTANTS
  o1 = o1
  N = 1
  Batch = 1
  Op = {}
  Ops = {}
  Faults = {"gone"}
  BareAttach = TRUE
  NoOne = NoOne
PROPERTIES
  OpsReturn
  LinkHeals
