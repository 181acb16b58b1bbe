\* One poster and one report: the connection through restarts, crashes and one failing call.
SPECIFICATION Spec
CONSTANTS
  p1 = p1
  p2 = p2
  k1 = k1
  k2 = k2
  Tester = Tester
  Posters <- OnePoster
  Keys <- OneKey
  LedgerCapacity = 1
  AuthCapacity = 1
  MaxFaults = 1
  MaxEvents = 3
INVARIANTS ConnectedIsSaved DisconnectIsFinal
PROPERTIES TwitchSettles
