\* One log and its uploads, an orderly restart after a Reupload.
CONSTANTS
  AttemptLimit = 3
  MaxId = 1
  MaxHistoryLimit = 1
  MaxRetries = 1
  Installed = {"DpsReport", "Wingman", "DonBot"}
  Records = {}
  Outcomes = {"Succeeded", "Failed"}
  EnqueueOutcomes = {"Accepted"}
  Files = {f1}
  Unstorable = {}
  Selections = {{"DpsReport", "DonBot"}}
  HistoryCapacity = 2
  WritesMayFail = FALSE
  MayCrash = FALSE
  Limits = {1}
  MaxSessions = 2
SPECIFICATION SessionSpec
PROPERTY NoDiscordReplay
CHECK_DEADLOCK FALSE
