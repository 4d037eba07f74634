SPECIFICATION FairSpec
CONSTANTS
  Pid = {p1, p2, p3}
  NoPid = nopid
  MinHealthy = 4
  RestartDelay = 2
  Faults = {"spawn", "alloc", "kill"}
CHECK_DEADLOCK FALSE
INVARIANTS TypeOK OneWorker NoOrphanRuns NoHandleLeaks
PROPERTIES StartsApart WorkerComesBack
