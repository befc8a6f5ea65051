SPECIFICATION Spec
CONSTANTS
  a = a
  b = b
  Proc = {p1, p2}
  Name = {a, b}
  Call <- MCCall
  NINODES = 3
  NINODE = 3
  NFILE = 2
  NOFILE = 1
  None = None
INVARIANTS TypeOK RefsExact InodesLive
SYMMETRY Symmetry
CHECK_DEADLOCK FALSE
