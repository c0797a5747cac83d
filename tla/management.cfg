SPECIFICATION ManagementSpec
CONSTANTS
  Parts = {"providers", "update"}
  Callers = {c1, c2}
  Configs = {"empty", "keyed", "reserved", "broken"}
  Default = "empty"
  Refs <- UsedRefs
  Unbuildable = {"broken"}
  Malformed = "malformed"
  Secrets <- UsedSecrets
  Management = "management"
  Ops = {"commit", "reload", "create", "delete"}
  Faults = {"write", "sync", "unlock", "load", "secret", "panic", "power", "edit"}
  MaxRevision = 1
  MaxVersion = 3
  MaxPid = 3
  MaxAttempts = 2
  UpdateFaults = {"io", "lost", "slow", "service", "kill", "crash", "foreign", "user"}
  MaxFaults = 2
INVARIANTS PublishedIsSound OldExecutableKept OutcomeTellsTheState
PROPERTIES  ServiceComesBack
CHECK_DEADLOCK FALSE
