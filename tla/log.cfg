SPECIFICATION FairSpec
CONSTANTS
  Proc = {p1,p2}
  Block = {b1,b2,b3}
  Val = {v0, v1}
  MAXOPBLOCKS = 2
  OpBlocks = 1
  Copier = {}
  LOGSIZE = 4
  SIZE = 4
  Zero = v0
  None = None
INVARIANTS TypeOK NoPanic PinnedUntilInstalled NoLostWakeup
PROPERTIES ImplementsAtomicDisk SleepersWake
