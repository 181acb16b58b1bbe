\* Settings, two secrets and the history; one failing call, one damaged file, one power failure.
SPECIFICATION Spec
CONSTANTS
  Paths <- MCPaths
  AttemptLimit = 2
  TickNanos = 2
  MilliNanos = 4
  EpochTicks = 3
  MaxTicks = 9
  MaxRecords = 3
  Capacity = 2
  Settings = {"s1", "s2"}
  SecretIds = {"donbot", "twitch"}
  SecretValues = {"v1", "v2"}
  Names = {"a", "b", "c"}
  Updates <- MCUpdates
  MaxOps = 3
  MaxFaults = 1
  MaxDamage = 1
  MaxFailures = 1
INVARIANTS SettingsSurvive SecretsAreExact HistoryReadsBack
CHECK_DEADLOCK FALSE
