SPECIFICATION FairSpec
CONSTANTS
  Pid = {3, 4, 5, 6, 7}
  NPROC = 5
INVARIANTS TypeOK MutualExclusion QueueIsWaiters NoLostHandoff
PROPERTIES ImplementsMutex Served
