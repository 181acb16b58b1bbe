------------------------ MODULE MCUploadCoordinator ------------------------
(* Instances of UploadCoordinator for TLC.                                 *)
EXTENDS UploadCoordinator

(* A row whose dps.report upload was under way when the last session ended *)
(* and a row whose Twitch message was dropped.                             *)
InterruptedRecords ==
  LET row == [NewJob({"DpsReport", "Twitch"}) EXCEPT !.meta = "PvE", !.att["DpsReport"] = 1]
  IN {[row EXCEPT !.st["DpsReport"] = "Active"],
      [row EXCEPT !.st = [p \in Providers |-> CASE p = "DpsReport" -> "Succeeded"
                                                [] p = "Twitch" -> "Failed"
                                                [] OTHER -> "Disabled"],
                  !.report = 1, !.att["Twitch"] = 1, !.receipt["Twitch"] = "Dropped"]}
=============================================================================
