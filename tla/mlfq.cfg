SPECIFICATION FairSpec
CONSTANTS
  NPROC = 3
  CPU = {c0}
  BootCPU = c0
  AGING_THRESHOLD = 1
  MaxClock = 1
  MaxRank = 1
  MaxChange = 1
  None = None
INVARIANTS TypeOK
PROPERTIES RoundRobinProgress NoStarvation
