SPECIFICATION DisciplinedSpec
CONSTANTS
  Proc = {p1, p2, p3}
  InitProc = p1
  Id = {1, 2}
  NPAGE = 2
  NFRAME = 5
  MaxSz = 2
INVARIANTS TypeOK SharedFrame RefsCountOpeners FramesAccounted NoPanic
CHECK_DEADLOCK FALSE
