SPECIFICATION Spec
CONSTANTS
  Users = {u1, u2}
  Period = 1
  CancelAfter = 2
  Chunk = 1
  MaxDraws = 2
  MaxTime = 3
  MaxFailures = 2
CHECK_DEADLOCK FALSE
PROPERTY OnlyOpenWedges
