SPECIFICATION Spec
CONSTANTS
  Proc = {p1}
  Block = {b1, b2, b3, b4}
  Val = {v0}
  MAXOPBLOCKS = 2
  OpBlocks = 1
  Copier = {p1}
  LOGSIZE = 4
  SIZE = 4
  Zero = v0
  None = None
INVARIANTS NoPanic
