\* Two posters, two reports, a ledger that forgets, two failing calls.
SPECIFICATION Spec
CONSTANTS
  p1 = p1
  p2 = p2
  k1 = k1
  k2 = k2
  Tester = Tester
  Posters <- TwoPosters
  Keys <- TwoKeys
  LedgerCapacity = 1
  AuthCapacity = 1
  MaxFaults = 2
  MaxEvents = 3
INVARIANTS HeldOnce RotationNotUndone PostedOnce
