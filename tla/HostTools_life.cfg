SPECIFICATION Spec
CONSTANTS
  Slots = 3
  Depth = 1
  Modes = {"hold", "bstatus", "bsendn", "brecv", "recv", "sendn", "crecv", "iso", "concurrent", "bridge", "probe", "default"}
  Later = {"recv"}
  MaxRuns = 2
  MaxRx = 2
  Others = 1
INVARIANT TypeOK
INVARIANT BoundToolsRelease
INVARIANT OwnDataOnly
PROPERTY ToolsEnd
CHECK_DEADLOCK FALSE
