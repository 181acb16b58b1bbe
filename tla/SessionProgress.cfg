\* Three logs, one of which the history cannot hold, two of them accepted in a session:
\* failing writes, a crash, a row limit that changes.
CONSTANTS
  AttemptLimit = 2
  MaxId = 2
  MaxHistoryLimit = 2
  MaxRetries = 1
  Installed = {"DpsReport"}
  Records = {}
  Outcomes = {"Succeeded", "RetryAfter"}
  EnqueueOutcomes = {"Accepted"}
  Files = {f1, f2, f3}
  Unstorable = {f3}
  Selections = {{"DpsReport"}}
  HistoryCapacity = 2
  WritesMayFail = TRUE
  MayCrash = TRUE
  Limits = {1, 2}
  MaxSessions = 1
SPECIFICATION FairSessionSpec
PROPERTY StorableRowsSettle
CHECK_DEADLOCK FALSE
