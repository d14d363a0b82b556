SPECIFICATION Spec
CONSTANTS
  o1 = o1
  N = 1
  Batch = 1
  Op = {o1}
  Ops = {"status"}
  Faults = {}
  BareAttach = FALSE
  NoOne = NoOne
PROPERTIES
  AutoConfirms
