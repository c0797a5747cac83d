SPECIFICATION Spec
CONSTANTS
  Machines = {"removal", "pinned", "snapshots", "messages", "lists", "replay", "roots", "forks"}
  Handles = {h1, h2}
  Nobody = nobody
  Names = {n1, n2}
  Own <- OwnFiles
  Foreign = {f1}
  NoFile = none
  Partial = partial
  Slots = {0, 1}
  MaxCrashes = 1
  Platforms = {"unnamed", "named"}
  MaxWrites = 2
  MaxMeddling = 2
  FailureKeys = {k1, k2}
  MaxTime = 3
  MaxMade = 3
  QueueCap = 2
  Cooldown = 2
  Window = 2
  WriteBudget = 2
  MaxKeys = 1
  Kept = 1
  OpenFaults = FALSE
  Kinds = {"codex", "claude", "gemini", "legacy"}
  MaxItem = 8
  MessageBytes = 5
  Limit = 2
  MaxChanges = 4
  RowKeys = {1, 2, 3, 4}
  MaxRank = 2
  Titled = {1, 3}
  PageRows = 2
  ListBytes = 3
  MaxMoves = 1
  MaxPages = 3
  MaxTx = 2
  SliceEntries = 2
  PerDirectory = 3
  TotalEntries = 9
  TotalSessions = 3
  MaxDepth = 1
  MaxSubagents = 2
  MaxTreeChanges = 2
  MaxEvents = 2
  MaxSecond = 1
  MaxHarm = 1
  ReplayLimit = 2
  MaxChildren = 1
  BatchRows = 2
  Stop = 2
INVARIANTS OnlyAskedIsLost NewestAreKept 
 
CHECK_DEADLOCK FALSE
