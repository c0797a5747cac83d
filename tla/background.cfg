SPECIFICATION SideSpec
CONSTANTS
  Submitters = {c1, c2}
  Threads = {t1, t2}
  QueueCap = 2
  Requests = {r1, r2, r3}
  Scans = {n1, n2}
  BatchRows = 2
  Kinds = {1, 2}
  Scanners = {w1}
  Slices = 2
  MaxChanges = 1
  MaxFaults = 1
  Procs = {1, 2}
  Readers = {1}
  MaxInstances = 2
  MemoryRequests = {r1, r2}
  MaxActivity = 6
INVARIANTS MetricsAreAccounted LeaseCoversService
PROPERTIES  AcceptedIsExecuted ChangesAreScanned IdleIsReclaimed
CHECK_DEADLOCK FALSE
