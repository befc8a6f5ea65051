SPECIFICATION Spec
CONSTANTS
  Proc = {p1, p2}
  InitProc = p1
  Id = {1, 2}
  NPAGE = 2
  NFRAME = 8
  MaxSz = 2
INVARIANTS FreedOnce
CHECK_DEADLOCK FALSE
