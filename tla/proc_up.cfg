SPECIFICATION FairSpec
CONSTANTS
  NPROC = 3
  CPU = {c0}
  BootCPU = c0
  MaxPid = 3
  MaxSleep = 1
  KillPid = {2}
  None = None
  Ticks = Ticks
PROPERTIES KilledExits SleepEnds OrphanReaped ControlReturns
