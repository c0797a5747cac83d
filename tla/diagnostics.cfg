SPECIFICATION Spec
CONSTANTS
  MaxSegment = 2
  MaxClosed = 1
  Producers = 2
  IngressCap = 2
  InternalCap = 1
  DurableCap = 1
  BatchMax = 2
  MaxSeq = 3
  Levels = {"durable", "transient"}
  Faults = {"crash", "io", "deadline"}
INVARIANTS
  NoSilentLoss
  WriterFailsForAReason
PROPERTIES
  FilesSurvive
  ShutdownCompletes
