SPECIFICATION MCSpec
CONSTANTS
  Requests = {r1}
  Controllers = {c1}
  Owner = owner
  Readers = {s1}
  Ops = {"begin_drain", "cancel_drain", "request_stop"}
  NoOne = none
  MaxActive = 1
  MaxRevision = 4
  MaxGeneration = 2
  MaxActivity = 0
  ReaderRevision = 3
INVARIANTS
  QuiescentAnswers
  SnapshotIsAtomic
PROPERTIES
  DrainAnswerIsFresh
  DrainReturns
