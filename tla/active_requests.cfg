SPECIFICATION ManagementSpec
CONSTANTS
  Parts = {"update"}
  Callers = {c1, c2}
  Configs = {"empty", "keyed", "reserved", "broken"}
  Default = "empty"
  Refs <- UsedRefs
  Unbuildable = {"broken"}
  Malformed = "malformed"
  Secrets <- UsedSecrets
  Management = "management"
  Ops = {"commit", "reload", "create", "delete"}
  Faults = {"write", "sync", "unlock", "load", "secret", "panic", "power", "edit"}
  MaxRevision = 1
  MaxVersion = 3
  MaxPid = 4
  MaxAttempts = 2
  UpdateFaults = {}
  MaxFaults = 0
INVARIANT ActiveRequestsAreReported
CHECK_DEADLOCK FALSE
