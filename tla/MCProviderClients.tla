--------------------------- MODULE MCProviderClients ---------------------------
(* ProviderClients with two logs and the requests a session makes of them.       *)
EXTENDS ProviderClients

Req(provider, log, intent, imported) ==
  [provider |-> provider, log |-> log, intent |-> intent, imported |-> imported,
   report |-> "None", wvw |-> FALSE]

ToDonBot(log, intent, imported, report) ==
  [Req("DonBot", log, intent, imported) EXCEPT !.report = report]

Dps == {Req("DpsReport", "a", "Automatic", FALSE), Req("DpsReport", "b", "Automatic", FALSE)}
Wing == {Req("Wingman", "a", "Automatic", FALSE), Req("Wingman", "b", "Automatic", TRUE),
         [Req("Wingman", "c", "Automatic", FALSE) EXCEPT !.wvw = TRUE]}

(* A direct upload; a report that is imported, imported again by a retry, and     *)
(* followed by the report of a reupload.                                         *)
Bot == {ToDonBot("a", "Automatic", FALSE, "u1")}
BotAgain == {ToDonBot("b", "Automatic", TRUE, "p1"), ToDonBot("b", "Reupload", TRUE, "p2")}

MCChoices ==
  {NoGuild, [guild |-> "g1", delivery |-> FALSE], [guild |-> "g1", delivery |-> TRUE],
   [guild |-> "g2", delivery |-> TRUE]}

MCRequests == Dps \cup Wing \cup Bot \cup BotAgain
MCMaxAttempts == [r \in MCRequests |-> IF r.intent = "Automatic" THEN 2 ELSE 1]
MCRounds == {Dps, Bot, BotAgain} \cup {{r} : r \in Wing}
=============================================================================
