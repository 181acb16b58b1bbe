\* One row with all four destinations, new or restored: routing, refused dispatches, retries, the user.
CONSTANTS
  AttemptLimit = 2
  MaxId = 2
  MaxHistoryLimit = 1
  MaxRetries = 1
  Installed = {"DpsReport", "Wingman", "DonBot", "Twitch"}
  Records <- InterruptedRecords
  Outcomes = {"Succeeded", "RetryAfter", "Failed", "TwitchDropped", "Skipped", "Cancelled", "Malformed"}
  EnqueueOutcomes = {"Accepted", "Refused"}
SPECIFICATION Spec
INVARIANTS TypeOK WaitingHasWaker ReportsAreCurrent
PROPERTIES NoAutomaticReplay
