SPECIFICATION RequestSpec
CONSTANTS
  Asks <- ClientAsks
  Machines = {"route", "translation", "call", "edit", "accounts", "tokens"}
  MaxEdits = 3
  MaxParts = 3
  PlainParts = 1
  MaxInput = 3
  MaxCollection = 2
  Operations = {"text", "stream", "count_tokens", "generation", "edit"}
  a1 = a1  a2 = a2  a3 = a3
  NoAccount = none
  Statuses = {200, 400, 401, 408, 429, 500, 504}
  BodyLimit = 2
  MaxFields = 3
  PartLimit = 2
  TotalLimit = 3
  TextLimit = 1
  WireLimit = 9
  ReadBytes = 2
  UploadCap = 2
  Requests = {1, 2}
  FailureKinds = {"rate_limited", "credentials", "never"}
  Hints = {0, 3}
  BaseDelay = 1
  MaxDelay = 2
  BaseCooldown = 2
  MaxCooldown = 4
  FailureWidth = 255
  RestorableFailures = 64
  MaxTime = 2
  MaxSelections = 5
  MaxIssued = 2
  MaxArrivals = 3
  MaxStarts = 2
INVARIANTS
  
  
  
  AttemptsAreSpread
  VerdictsAreDue
  DrainedIsSettled
 
CHECK_DEADLOCK FALSE
