SPECIFICATION Spec
CONSTANTS
  NoClient = none
  Clients = {c1, c2}
  Loggers = {l1}
  Readers = {c1, c2, l1}
  MaxEvent = 3  RingCap = 2  SegmentCap = 1  PageMax = 1  ReadFaults = TRUE
  Ways = {"stream", "publish"}
  Large = {2}  Matching = {1, 2, 3}  Budget = 3
  Chunks = 2  QueueDepth = 1
  LogKey <- Keys
  Sources <- PackageSources  MaxEvents = 3  Omitted = 1
  LogMatching = {1, 2, 3}  Limit = 1  Long = {3}  PageBytes = 2
INVARIANTS PackageTellsTheTruth PagesAreSound
PROPERTY OneExportAtATime
CHECK_DEADLOCK FALSE
