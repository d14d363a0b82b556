SPECIFICATION Spec
CONSTANTS
  p1 = p1
  p2 = p2
  Ring = 2
  Peer = {p1, p2}
  Kind = {"op", "read"}
  Ids = 4
  Workers = 1
  Nobody = Nobody
INVARIANTS
  TypeOK
  NothingLeftBehind
PROPERTIES
  QueueSpec
