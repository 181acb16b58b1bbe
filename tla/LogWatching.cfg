\* Two paths, one of them nested, changing selections, a lossy monitor, a full list of identities.
CONSTANTS
  Paths <- TwoPaths
  Versions <- FourVersions
  PendingLimit = 2
  HistoryLimit = 1
  Stability <- TwoToFour
  Nested <- SecondNested
  Existing <- FirstExists
  MonitorLimit = 2
  MaxChanges = 3
  MaxFaults = 1
  Requests <- SomeRequests
  PollInterval = 1
  RefreshInterval = 3
SPECIFICATION FairWatchSpec
INVARIANTS WatchIsTracked
PROPERTIES SubmissionsAreSound ScansKeepStability StableFilesAreSubmitted
