\* Two logs, one destination, ports that panic, a changing row limit, failing writes, crashes.
CONSTANTS
  AttemptLimit = 2
  MaxId = 3
  MaxHistoryLimit = 2
  MaxRetries = 1
  Installed = {"DpsReport"}
  Records = {}
  Outcomes = {"Succeeded", "RetryAfter", "Failed"}
  EnqueueOutcomes = {"Accepted", "Panicked"}
  Files = {f1, f2}
  Unstorable = {}
  Selections = {{"DpsReport"}}
  HistoryCapacity = 2
  WritesMayFail = TRUE
  MayCrash = TRUE
  Limits = {1, 2}
  MaxSessions = 2
SPECIFICATION SavedSpec
INVARIANTS SessionTypeOK DispatchedIsDurable ActiveIffInFlight SuccessesAreSaved
PROPERTIES NoAutomaticResend EvictsOldestIdle
CHECK_DEADLOCK FALSE
