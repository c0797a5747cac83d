SPECIFICATION AllSpec
CONSTANTS
  Scanners = {"codex", "claude", "gemini"}
  Sources = {1, 2}
  Disturbed = {1}
  LineBytes = 1
  Window = 2
  MaxSize = 3
  MaxBody = 3
  FirstBodies = {1}
  Malformed = {2}
  MalformedLine = 3
  BatchRows = 2
  CleanupRows = 2
  Controls = {2}
  Faults = {"rewrite", "move", "crash"}
  MaxFaults = 2
  WholeFileFaults = 1
INVARIANT GenerationsAreAccounted
  
