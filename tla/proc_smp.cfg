SPECIFICATION Spec
CONSTANTS
  NPROC = 3
  CPU = {c0, c1}
  BootCPU = c0
  MaxPid = 5
  MaxSleep = 1
  KillPid = {2, 3}
  None = None
  Ticks = Ticks
INVARIANTS TypeOK LockHandoff OneCpuPerStack NoLostWakeup ParentAlive EmbryoOwned PidUnique
PROPERTIES LegalTransition
CHECK_DEADLOCK FALSE
