----------------------------- MODULE MCLogWatch -----------------------------
(* Instances of LogWatch for TLC.                                          *)
EXTENDS LogWatch

TwoPaths == {1, 2}
SecondNested == {2}
FirstExists == {1}
FourVersions == 1..4
TwoToFour == 2..4

(* The window, the recursion, the candidate limit and the threshold all    *)
(* change between these. Under the last one no file is ever observed often *)
(* enough between two refreshes.                                           *)
SomeRequests ==
  {[mode |-> "New", recursive |-> TRUE, limit |-> 2, stability |-> 2],
   [mode |-> "Last24Hours", recursive |-> FALSE, limit |-> 1, stability |-> 3],
   [mode |-> "Last24Hours", recursive |-> FALSE, limit |-> 1, stability |-> 4]}
=============================================================================
