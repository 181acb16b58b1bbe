------------------------------- MODULE MCTwitch -------------------------------
(* Instances of TwitchService for TLC. *)
EXTENDS TwitchService, TLC

CONSTANTS p1, p2, k1, k2

OnePoster == {p1}
TwoPosters == {p1, p2}
OneKey == {k1}
TwoKeys == {k1, k2}
=============================================================================
