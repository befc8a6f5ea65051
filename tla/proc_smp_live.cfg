SPECIFICATION FairSpec
CONSTANTS
  NPROC = 2
  CPU = {c0, c1}
  BootCPU = c0
  MaxPid = 2
  MaxSleep = 1
  KillPid = {0, 2, 3}
  None = None
  Ticks = Ticks
PROPERTIES ControlReturns
CHECK_DEADLOCK FALSE
