---------------------------- MODULE MCAddonStorage ----------------------------
(* An instance of AddonStorage for TLC. *)
EXTENDS AddonStorage

(* Three logs, one of them seen again under a verbatim path with its work done;  *)
(* one file time lies between two ticks and cannot be stored.                    *)
Row(name, verbatim, written, detected, state) ==
  [path |-> [name |-> name, verbatim |-> verbatim], size |-> 1, written |-> written,
   detected |-> detected,
   job |-> [NewJob({"DpsReport", "DonBot"}) EXCEPT
              !.st["DpsReport"] = state, !.att["DpsReport"] = 1, !.meta = "PvE",
              !.report = IF state = "Succeeded" THEN 1 ELSE 0,
              !.receipt["Twitch"] = IF state = "Succeeded" THEN "Dropped" ELSE "None"]]

MCPaths == {"settings", "settings.bak", "history", "donbot", "twitch"}

MCUpdates ==
  { <<Row("a", TRUE, 4, -5, "Active")>>,
    <<Row("a", FALSE, 4, -5, "Succeeded"), Row("b", TRUE, -2, 5, "RetryDue")>>,
    <<Row("c", TRUE, 3, 0, "Failed")>> }
=============================================================================
