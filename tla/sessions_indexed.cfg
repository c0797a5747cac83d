SPECIFICATION Spec
CONSTANTS
  Sources = {1}
  Disturbed = {1}
  LineBytes = 1
  Window = 2
  MaxSize = 3
  MaxBody = 1
  FirstBodies = {1}
  Malformed = {}
  MalformedLine = 3
  BatchRows = 2
  CleanupRows = 2
  Controls = {1}
  Faults = {}
  MaxFaults = 0
PROPERTY FilesAreIndexed
