\* Uploads to three services whose answers may be lost, refused or late.
SPECIFICATION Spec
CONSTANTS
  Requests <- MCRequests
  Choices <- MCChoices
  MaxAttempts <- MCMaxAttempts
  Rounds <- MCRounds
  TicketInterval = 1
  TicketTimeout = 2
  CheckInterval = 2
  CheckTimeout = 3
  OperationTime = 2
INVARIANTS DonBotAsAsked SettledTruthfully
PROPERTIES UploadsEnd
CHECK_DEADLOCK FALSE
