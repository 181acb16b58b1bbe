---------------------------- MODULE DonBotAggregate ----------------------------
(* src/rust/src/application/donbot_aggregate.rs, the slot of                     *)
(* src/rust/src/application/runtime.rs through which the interface asks for an   *)
(* aggregate, and src/rust/src/providers/donbot/aggregate_worker.rs: one message *)
(* for several logs, sent once, with the route the user was shown.  Which logs   *)
(* is one fact, whether all of them still have a DonBot fight; receipts are      *)
(* reduced to whether a message went out.                                        *)
EXTENDS DonBotConfiguration

VARIABLES
  eligible,   \* every chosen log is a row with a fight of its own
  slot,       \* the command the interface has left for the application thread
  agg,        \* the controller: [state, command, active, next, last]
  courier,    \* the worker: [id, request, step, out]
  delivered   \* history: requests whose message reached Discord

aggVars == <<eligible, slot, agg, courier, delivered>>

NoRoute == [base |-> None, guild |-> None, route |-> None]
NoCommand == [revision |-> 0, bot |-> 0, shown |-> NoRoute]
NoDelivery == [id |-> 0, request |-> NoRoute, shown |-> NoRoute, step |-> "Empty", out |-> None]
NewAggregate == [state |-> "Idle", command |-> NoCommand, active |-> 0, next |-> 1, last |-> 0]

Submit(a, command) ==
  IF a.command # NoCommand \/ a.active # 0 THEN a
  ELSE [a EXCEPT !.command = command, !.state = "Queued", !.last = 0]


TakeResult(a) ==
  IF courier.out = None \/ courier.id # a.active THEN a
  ELSE [a EXCEPT !.active = 0, !.state = courier.out]

(* Mutant: the revisions the user saw are not compared. *)
StaleUnchecked(command) == FALSE

Stale(command) == command.revision # revision \/ command.bot # bot.revision

Unavailable ==
  \/ bot.guild \notin DOMAIN bot.identity.guilds \/ bot.refreshing
  \/ ~bot.identity.aggregate \/ ~bot.identity.guilds[bot.guild].aggregate
  \/ AggregateRoute(settings, bot) = None

(* The tick of the controller: the result first, then the command.  The worker  *)
(* takes one request at a time and refuses while a result of an earlier one is  *)
(* waiting; a dispatch that panics may have left the request behind.            *)
AggregateTick(command, io) ==
  LET a == TakeResult(IF command = NoCommand THEN agg ELSE Submit(agg, command))
      taken == IF courier.out = None THEN courier ELSE NoDelivery
      ready == a.command # NoCommand
      idle == [a EXCEPT !.command = NoCommand]
      request == [NoDelivery EXCEPT !.id = a.next, !.step = "Queued", !.shown = a.command.shown,
                    !.request = [base |-> bot.base, guild |-> settings.bot.guild,
                                 route |-> AggregateRoute(settings, bot)]]
      sent == [idle EXCEPT !.next = @ + 1, !.last = a.next]
  IN  /\ UNCHANGED <<eligible, delivered>>
      /\ CASE ~ready -> agg' = a /\ courier' = taken
           [] ready /\ (Stale(a.command) \/ Unavailable \/ ~eligible) ->
                agg' = [idle EXCEPT !.state = "Failed"] /\ courier' = taken
           [] OTHER ->
                IF taken # NoDelivery \/ "dispatch" \in io
                THEN agg' = [sent EXCEPT !.state = "Failed"] /\ courier' = taken
                ELSE /\ courier' = request
                     /\ agg' = IF "panic" \in io THEN [sent EXCEPT !.state = "Ambiguous"]
                               ELSE [sent EXCEPT !.active = a.next, !.state = "Sending"]

------------------------------------------------------------------------------
(* The worker: load the key, send, judge the answer. *)
CourierLoads(io) ==
  /\ courier.step = "Queued"
  /\ courier' = IF key = None \/ "secret" \in io
                THEN [courier EXCEPT !.step = "Done", !.out = "Failed"]
                ELSE [courier EXCEPT !.step = "Sending"]
  /\ UNCHANGED <<eligible, slot, agg, delivered>>

Judge(answer) ==
  CASE answer = "sent" -> "Succeeded"
    [] answer \in {"skipped", "refused"} -> "Failed"
    [] OTHER -> "Ambiguous"

CourierSends ==
  /\ courier.step = "Sending"
  /\ \E answer \in {"sent", "skipped", "refused", "uncertain"}, reached \in BOOLEAN :
       /\ answer = "sent" => reached
       /\ answer \in {"skipped", "refused"} => ~reached
       /\ courier' = [courier EXCEPT !.step = "Done", !.out = Judge(answer)]
       /\ delivered' = IF reached THEN delivered \cup {courier.id} ELSE delivered
  /\ UNCHANGED <<eligible, slot, agg>>
=============================================================================
