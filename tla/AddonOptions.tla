----------------------------- MODULE AddonOptions -----------------------------
(* src/rust/src/application/nexus_options_controller.rs, nexus_options.rs,       *)
(* recent_log_actions.rs and the part of runtime.rs around them: the interface   *)
(* leaves commands in bounded queues and works from a published snapshot, the    *)
(* application thread takes them one by one in its tick, applies the settings    *)
(* to the providers, sends aggregates and publishes again, and an unload closes  *)
(* the three doors one after the other in the middle of all this.  Uploads and   *)
(* the history save of the tick are UploadSession's; here a tick may dispatch    *)
(* one automatic DonBot upload.  The Twitch connection is busy or not.           *)
EXTENDS DonBotAggregate

CONSTANTS
  Guilds,
  Clients,       \* Twitch application client ids
  SavedSettings, \* settings the disk may hold when the addon is first loaded
  Commands,      \* the commands the interface submits: <<operation, argument>>
  Capacity,      \* of either queue, 32 and 64 in the code
  TickBudget,    \* commands taken in one tick, 8 in the code
  MaxFaults,     \* failing storage, queue and provider calls
  MaxEvents      \* submissions, timers, restarts and changes from outside

(* Saved settings, and what DonBot says of an account and of its guilds. *)
BotSettings == [enabled : BOOLEAN, base : Bases, guild : Guilds \cup {None}, deliver : BOOLEAN,
                channel : Channels \cup {None}]
Settings == [bot : BotSettings, dps : BOOLEAN, twitch : BOOLEAN, client : Clients,
             visible : {"on", "off"}]
DeliveryPolicy == [enabled : BOOLEAN, summary : BOOLEAN, defaults : BOOLEAN, channels : SUBSET Channels,
                   aggregate : BOOLEAN, aggregateDefaults : BOOLEAN]
Verification == [summary : BOOLEAN, aggregate : BOOLEAN,
                 guilds : UNION {[listed -> DeliveryPolicy] : listed \in SUBSET Guilds}]

ASSUME OptionsConstants ==
  /\ TickBudget \in 1 .. Capacity /\ Capacity \in Nat
  /\ MaxFaults \in Nat /\ MaxEvents \in Nat
  /\ SavedSettings \subseteq Settings /\ \A s \in SavedSettings : ValidSettings(s)
  /\ Identities \subseteq Verification
  /\ \A c \in Commands : /\ c[1] = "SaveOrdinary" => c[2] \in Clients
                         /\ c[1] = "SetWindowVisible" => c[2] \in {"on", "off"}
                         /\ c[1] = "Verify" => c[2] \in Bases

VARIABLES
  options,  \* [queue, accepting, taken]: taken is the ticket of the last command executed
  actions,  \* the same for the actions on rows
  tick,     \* [step, budget]: where the application thread is in its tick
  applied,  \* [client, policy]: what the Twitch client and the DonBot provider have
  twitch,   \* [busy, client]: the connection and the client it was begun with
  shown,    \* what the published snapshot says
  upload,   \* the options the last automatic upload was dispatched with
  closing,  \* doors the unload has closed
  visible,  \* history: the last visibility command executed
  faults, events

vars == <<configVars, aggVars, options, actions, tick, applied, twitch, shown, upload, closing,
          visible, faults, events>>

(* Any of the calls a step makes may fail. *)
Fault(io) == faults' = faults + Cardinality(io) /\ faults' <= MaxFaults
Calls(made, names) == IF made THEN names ELSE {}
Event == events' = events + 1 /\ events' <= MaxEvents
NewQueue == [queue |-> <<>>, accepting |-> TRUE, taken |-> 0]
AtRest == [step |-> "Rest", budget |-> 0]
Lesser(m, n) == IF m < n THEN m ELSE n

(* What configure_provider is given for DonBot. *)
Policy(s, b) == [base |-> s.bot.base, guild |-> s.bot.guild, route |-> AuthorizedDelivery(s, b)]

(* What the interface has to show when the application thread publishes. *)
Snapshot(w, aggregate) ==
  [visible |-> w.settings.visible, revision |-> w.revision, bot |-> w.bot.revision,
   route |-> [base |-> w.bot.base, guild |-> w.settings.bot.guild,
              route |-> AggregateRoute(w.settings, w.bot)],
   aggregate |-> aggregate]
Publish ==
  shown' = Snapshot([settings |-> settings', revision |-> revision', bot |-> bot'],
                    IF slot' # NoCommand THEN "Queued" ELSE agg'.state)

------------------------------------------------------------------------------
(* The interface. *)
UIFrame == UNCHANGED <<configVars, tick, applied, twitch, upload, closing, visible, faults>>

(* A command and, for an ordinary draft, what the draft was made from. *)
SubmitOption ==
  /\ options.accepting /\ Len(options.queue) < Capacity /\ Event
  /\ \E c \in Commands :
       options' = [options EXCEPT !.queue =
                     Append(@, [op |-> c[1], arg |-> c[2], seen |-> shown.visible,
                                ticket |-> events'])]
  /\ UIFrame /\ UNCHANGED <<aggVars, actions, shown>>

SubmitAction ==
  /\ actions.accepting /\ Len(actions.queue) < Capacity /\ Event
  /\ actions' = [actions EXCEPT !.queue = Append(@, [ticket |-> events'])]
  /\ UIFrame /\ UNCHANGED <<aggVars, options, shown>>

SubmitAggregate ==
  /\ closing < 3 /\ slot = NoCommand /\ shown.aggregate \notin {"Queued", "Sending"} /\ Event
  /\ slot' = [revision |-> shown.revision, bot |-> shown.bot, shown |-> shown.route]
  /\ shown' = [shown EXCEPT !.aggregate = "Queued"]
  /\ UIFrame /\ UNCHANGED <<eligible, agg, courier, delivered, options, actions>>

(* close_admission: stop_accepting, the actions' shutdown, the runtime's door. *)
CloseAdmission ==
  /\ closing < 3 /\ closing' = closing + 1
  /\ IF closing = 0 THEN Event ELSE UNCHANGED events
  /\ options' = IF closing # 0 THEN options ELSE [options EXCEPT !.queue = <<>>, !.accepting = FALSE]
  /\ actions' = IF closing # 1 THEN actions ELSE [actions EXCEPT !.queue = <<>>, !.accepting = FALSE]
  /\ slot' = IF closing # 2 THEN slot ELSE NoCommand
  /\ UNCHANGED <<configVars, eligible, agg, courier, delivered, tick, applied, twitch, shown,
                 upload, visible, faults>>

------------------------------------------------------------------------------
(* Executing a command. *)
SaveOrdinary(w, s, io) == IF SaveFails(s, io) THEN w ELSE SaveSettings(w, s)

(* An ordinary draft over the settings as they are by now. *)
Merge(w, c, io) ==
  IF c.arg # w.settings.client /\ twitch.busy THEN w
  ELSE SaveOrdinary(w, [w.settings EXCEPT !.client = c.arg], io)

SetEnabled(w, on, io) ==
  LET b == IF on THEN [w.settings.bot EXCEPT !.enabled = TRUE]
           ELSE [ClearDelivery(w.settings.bot) EXCEPT !.enabled = FALSE]
      s == [w.settings EXCEPT !.bot = b]
      allowed == /\ w.bot.state = "Verified" /\ w.settings.bot.base = w.bot.base
                 /\ w.settings.bot.guild = w.bot.guild
                 /\ w.bot.guild \in DOMAIN w.bot.identity.guilds
  IN  IF w.bot.pending.id # 0 \/ (on /\ ~allowed) \/ SaveFails(s, io) THEN w
      ELSE IF on THEN BeginSaved(SaveSettings(w, s), "Refresh", io) ELSE SaveSettings(w, s)

Execute(w, c, io) ==
  LET on == c.arg = "on"
      s == w.settings
  IN  CASE c.op = "SaveOrdinary" -> Merge(w, c, io)
        [] c.op = "SetWindowVisible" -> SaveOrdinary(w, [s EXCEPT !.visible = c.arg], io)
        [] c.op = "SetDpsReport" ->
             SaveOrdinary(w, [s EXCEPT !.dps = on, !.twitch = on /\ @], io)
        [] c.op = "SetTwitch" ->
             IF on /\ ~twitch.busy THEN w ELSE SaveOrdinary(w, [s EXCEPT !.twitch = on], io)
        [] c.op = "Verify" -> BeginVerification(w, c.arg, io)
        [] c.op = "Refresh" -> BeginSaved(w, "Refresh", io)
        [] c.op = "SelectGuild" -> SelectGuild(w, c.arg, io)
        [] c.op = "SetEnabled" -> SetEnabled(w, on, io)
        [] c.op = "SetDelivery" -> SetDelivery(w, on, io)
        [] c.op = "SelectChannel" -> SelectChannel(w, c.arg, io)
        [] c.op = "Disconnect" -> DisconnectBot(w, io)
        [] OTHER -> w

------------------------------------------------------------------------------
(* The tick of the application thread. *)
OwnerFrame == UNCHANGED <<closing, events>>
NoAggregate == UNCHANGED <<eligible, slot, agg, courier, delivered>>

ClientApplies(io) == "apply" \notin io \/ settings'.client = applied.client

(* After each part of the options tick the client id is applied; when that fails *)
(* the tick is over and later commands stay queued.                              *)
Then(step, budget, io) ==
  IF ClientApplies(io)
  THEN /\ applied' = [applied EXCEPT !.client = settings'.client]
       /\ tick' = [step |-> step, budget |-> budget] /\ UNCHANGED shown
  ELSE applied' = applied /\ tick' = AtRest /\ Publish

TickBegin ==
  /\ tick.step = "Rest" /\ options.accepting
  /\ NoAggregate /\ UNCHANGED configVars
  /\ \E io \in SUBSET Calls(settings.client # applied.client, {"apply"}) :
       /\ Fault(io)
       /\ Then("Commands", Lesser(Len(options.queue), TickBudget), io)
  /\ upload' = NoRoute
  /\ OwnerFrame /\ UNCHANGED <<options, actions, twitch, visible>>

(* Mutant: the newest command is taken first. *)
PopNewest(q) == q[Len(q)]

Pop(q) == Head(q)

CallsOf(c) ==
  CASE c.op = "Verify" -> {"dispatch"}
    [] c.op = "Refresh" -> {"secret", "dispatch"}
    [] c.op = "SetEnabled" -> {"save", "secret", "dispatch"}
    [] c.op = "Disconnect" -> {"save", "secret"}
    [] c.op = "SaveOrdinary" -> {"save", "apply"}
    [] c.op = "ConnectTwitch" -> {}
    [] OTHER -> {"save"}

TickCommand ==
  /\ tick.step = "Commands" /\ tick.budget > 0 /\ options.accepting
  /\ NoAggregate
  /\ LET c == Pop(options.queue) IN \E io \in SUBSET CallsOf(c) :
       LET w == Execute(Config, c, io)
       IN  /\ Fault(io)
           /\ Configure(w)
           /\ options' = [options EXCEPT !.queue = Tail(@), !.taken = c.ticket]
           /\ visible' = IF c.op = "SetWindowVisible" /\ ~SaveFails(settings, io)
                         THEN c.arg ELSE visible
           /\ twitch' = IF c.op = "ConnectTwitch" /\ ~twitch.busy
                        THEN [busy |-> TRUE, client |-> applied.client] ELSE twitch
           /\ Then("Commands", tick.budget - 1, io)
  /\ OwnerFrame /\ UNCHANGED <<actions, upload>>

TickPoll ==
  /\ tick.step = "Commands" /\ (tick.budget = 0 \/ ~options.accepting)
  /\ NoAggregate
  /\ \E io \in SUBSET Calls(verifier.ok, {"save", "secret"}) :
       /\ Fault(io)
       /\ Configure(IF options.accepting THEN PollVerification(Config, io) ELSE Config)
       /\ Then("Apply", 0, io)
  /\ OwnerFrame /\ UNCHANGED <<options, actions, twitch, upload, visible>>

(* apply_configuration: the providers get what changed. *)
PolicyApplies(io) == "configure" \notin io /\ applied.policy # Policy(settings, bot)

(* The saved account is looked up again every few minutes. *)
RefreshDue == settings.bot.enabled /\ bot.state = "Verified" /\ ~bot.refreshing

TickApply ==
  /\ tick.step = "Apply" /\ NoAggregate
  /\ \E due \in {FALSE, RefreshDue}, configure \in SUBSET {"configure"} :
     \E secret \in SUBSET Calls(due, {"secret", "dispatch"}) :
       LET io == configure \cup secret
           w == IF due THEN BeginSaved(Config, "Refresh", io) ELSE Config
           refused == "configure" \in io /\ applied.policy # Policy(settings, bot)
           stops == refused \/ (due /\ ~w.bot.refreshing) \/ ~actions.accepting
       IN  /\ Fault(io)
           /\ "configure" \in io => refused
           /\ IF due THEN Event /\ ~refused ELSE UNCHANGED events
           /\ applied' = IF PolicyApplies(io) THEN [applied EXCEPT !.policy = Policy(settings, bot)]
                         ELSE applied
           /\ Configure(w)
           /\ tick' = IF stops THEN AtRest
                      ELSE [step |-> "Actions", budget |-> Lesser(Len(actions.queue), TickBudget)]
           /\ IF stops THEN Publish ELSE UNCHANGED shown
  /\ UNCHANGED <<options, actions, twitch, upload, closing, visible>>

(* One action, as long as the budget lasts and the queue is open. *)
TickAction ==
  /\ tick.step = "Actions"
  /\ IF tick.budget = 0 \/ ~actions.accepting
     THEN tick' = [tick EXCEPT !.step = "Aggregate"] /\ UNCHANGED actions
     ELSE /\ actions' = [actions EXCEPT !.queue = Tail(@), !.taken = Pop(actions.queue).ticket]
          /\ tick' = [tick EXCEPT !.budget = @ - 1]
  /\ OwnerFrame /\ NoAggregate
  /\ UNCHANGED <<configVars, options, applied, twitch, shown, upload, visible, faults>>

TickAggregate ==
  /\ tick.step = "Aggregate"
  /\ \E io \in SUBSET Calls(slot # NoCommand, {"dispatch", "panic"}) :
       Fault(io) /\ Cardinality(io) < 2 /\ AggregateTick(slot, io)
  /\ slot' = NoCommand
  /\ tick' = [tick EXCEPT !.step = "Pump"]
  /\ OwnerFrame
  /\ UNCHANGED <<configVars, options, actions, applied, twitch, shown, upload, visible>>

(* The pump, with or without a new log for DonBot, and the publication. *)
TickPump ==
  /\ tick.step = "Pump"
  /\ upload' \in {NoRoute} \cup (IF settings.bot.enabled THEN {applied.policy} ELSE {})
  /\ tick' = AtRest
  /\ NoAggregate /\ UNCHANGED configVars /\ Publish
  /\ OwnerFrame
  /\ UNCHANGED <<options, actions, applied, twitch, visible, faults>>

Tick == \/ TickBegin \/ TickCommand \/ TickPoll \/ TickApply \/ TickAction \/ TickAggregate
        \/ TickPump

Courier == \/ \E io \in SUBSET {"secret"} : Fault(io) /\ CourierLoads(io)
           \/ CourierSends /\ UNCHANGED faults
Workers ==
  /\ \/ VerifierAnswers /\ UNCHANGED <<aggVars, faults>>
     \/ Courier /\ UNCHANGED configVars
  /\ UNCHANGED <<options, actions, tick, applied, twitch, shown, upload, closing, visible, events>>

------------------------------------------------------------------------------
(* Start, end, and what happens outside. *)

(* initialize: settings are normalised, applied, and saved accounts verified. *)
Started(s, k, io) ==
  LET n == IF s.bot.enabled THEN s ELSE [s EXCEPT !.bot.channel = None]
      w == [settings |-> n, key |-> k, revision |-> 1, bot |-> NewBot(n.bot.base),
            verifier |-> NoRequest]
  IN  IF n.bot.guild = None THEN w ELSE BeginSaved(w, "Saved", io)

NewApplied(s) == [client |-> s.client, policy |-> Policy(s, NewBot(s.bot.base))]

Init ==
  /\ \E saved \in SavedSettings, busy \in BOOLEAN :
       LET w == Started(saved, IF saved.bot.guild = None THEN None ELSE saved.bot.base, {})
       IN  /\ settings = w.settings /\ key = w.key /\ revision = w.revision /\ bot = w.bot
           /\ verifier = w.verifier
           /\ applied = NewApplied(w.settings) /\ shown = Snapshot(w, "Idle")
           /\ twitch = [busy |-> busy, client |-> saved.client]
  /\ options = NewQueue /\ actions = NewQueue /\ tick = AtRest /\ closing = 0 /\ upload = NoRoute
  /\ slot = NoCommand /\ agg = NewAggregate /\ courier = NoDelivery /\ delivered = {}
  /\ eligible = TRUE /\ visible = settings.visible /\ faults = 0 /\ events = 0

Restarted(s, k) ==
  \E io \in SUBSET {"secret"}, busy \in BOOLEAN :
    LET w == Started(s, k, io)
    IN  /\ Fault(io) /\ Configure(w)
        /\ applied' = NewApplied(w.settings) /\ shown' = Snapshot(w, "Idle")
        /\ twitch' = [busy |-> busy, client |-> s.client]
        /\ options' = NewQueue /\ actions' = NewQueue /\ tick' = AtRest /\ closing' = 0
        /\ slot' = NoCommand /\ agg' = NewAggregate /\ courier' = NoDelivery /\ delivered' = {}
        /\ upload' = NoRoute

(* The process ends anywhere, or starts again after a shutdown. *)
Restart ==
  /\ Event /\ Restarted(settings, key)
  /\ UNCHANGED <<eligible, visible>>

(* The process ends between the two writes of a verification or a disconnect. *)
Halfway ==
  (IF /\ tick.step = "Commands" /\ tick.budget = 0 /\ options.accepting
      /\ verifier.ok /\ bot.pending.source = "Candidate"
   THEN {CandidateWrites(Config, bot.pending)[1]} ELSE {})
  \cup
  (IF tick.step = "Commands" /\ tick.budget > 0 /\ options.accepting
   THEN {DisconnectWrites(Config)[1] : c \in {d \in {Head(options.queue)} : d.op = "Disconnect"}}
   ELSE {})

EndsHalfway ==
  /\ Event
  /\ \E disk \in Halfway : Restarted(disk.settings, disk.key)
  /\ UNCHANGED <<eligible, visible>>

Shutdown ==
  /\ tick.step = "Rest" /\ closing = 3
  /\ tick' = [step |-> "Stopped", budget |-> 0]
  /\ bot' = [Advance(ClearIdentity(bot)) EXCEPT !.state = "ShuttingDown", !.pending = NoPending]
  /\ agg' = [agg EXCEPT !.state = "ShuttingDown", !.command = NoCommand, !.active = 0]
  /\ revision' = revision + 1
  /\ verifier' = NoRequest /\ courier' = NoDelivery /\ upload' = NoRoute
  /\ UNCHANGED <<settings, key, eligible, slot, delivered, options, actions, applied, twitch, shown,
                 closing, visible, faults, events>>

(* A row goes or comes back; the Twitch connection ends. *)
Outside ==
  /\ Event
  /\ \/ eligible' = ~eligible /\ UNCHANGED twitch
     \/ twitch.busy /\ twitch' = [twitch EXCEPT !.busy = FALSE] /\ UNCHANGED eligible
  /\ UNCHANGED <<configVars, slot, agg, courier, delivered, options, actions, tick, applied, shown,
                 upload, closing, visible, faults>>

Stopped == tick.step = "Stopped" /\ UNCHANGED vars

Next ==
  \/ SubmitOption \/ SubmitAction \/ SubmitAggregate \/ CloseAdmission
  \/ Tick \/ Workers
  \/ Restart \/ EndsHalfway \/ Shutdown \/ Outside \/ Stopped

(* The application thread ticks until it is told to stop, calls of the workers   *)
(* end, and an unload that has begun closes all its doors.                       *)
Spec ==
  /\ Init /\ [][Next]_vars
  /\ WF_vars(Tick) /\ WF_vars(Workers) /\ WF_vars(Shutdown)
  /\ WF_vars(closing > 0 /\ CloseAdmission)
------------------------------------------------------------------------------
(* Properties. *)

(* The state has the shape the code gives it.                                    *)
OptionsTypeOK ==
  /\ settings.bot.base \in Bases /\ settings.bot.guild \in Guilds \cup {None}
  /\ settings.bot.channel \in Channels \cup {None} /\ settings.client \in Clients
  /\ key \in Bases \cup {None} /\ ValidSettings(settings)
  /\ bot.state \in {"Unverified", "Verifying", "Verified", "Error", "ShuttingDown"}
  /\ bot.identity \in Identities \cup {NoIdentity}
  /\ agg.state \in {"Idle", "Queued", "Sending", "Succeeded", "Failed", "Ambiguous", "ShuttingDown"}
  /\ Len(options.queue) <= Capacity /\ Len(actions.queue) <= Capacity
  /\ closing \in 0 .. 3

(* Wherever the process ends, a saved guild never stands beside a key that was   *)
(* verified for another endpoint: the poll disables DonBot before it replaces    *)
(* the key, and a disconnect before it erases it.                                *)
KeyMatchesBase == settings.bot.guild # None => key = settings.bot.base

(* What a verification allowed bounds what is saved: while an account counts as  *)
(* verified its saved guild is one of the guilds the last verification listed,   *)
(* and automatic delivery is saved only with a route that is authorised now.     *)
SavedWithinIdentity ==
  bot.state = "Verified" /\ settings.bot.base = bot.base =>
    /\ settings.bot.guild \in DOMAIN bot.identity.guilds \cup {None}
    /\ settings.bot.deliver => AuthorizedDelivery(settings, bot) # None

(* An automatic upload takes the guild and the Discord route of the settings and *)
(* the verification as they are when the pump dispatches it, although a command, *)
(* a verification or a refresh may have changed either in the same tick. It does *)
(* not say that a verification stands behind it: while the saved account is      *)
(* being verified, and after that failed, the pump goes on dispatching to the    *)
(* saved guild, although the documents say that discovery waits and that a       *)
(* failed verification cannot send to a persisted guild.                         *)
UploadRouteIsCurrent == upload # NoRoute => upload = Policy(settings, bot)

(* What holds of such an upload is that it asks for no Discord message: one that *)
(* does is for a guild, at an endpoint, of the account that is verified now.     *)
UnverifiedStaysSilent ==
  upload.route # None =>
    bot.state = "Verified" /\ bot.base = upload.base /\ upload.guild \in DOMAIN bot.identity.guilds

(* The aggregate message goes to the endpoint, guild and channel that were on    *)
(* the screen when the user asked for it, whatever changed between that and the  *)
(* tick that sends it.                                                           *)
AggregateAsShown == courier.id # 0 => courier.request = courier.shown

(* An aggregate reported as failed has not reached Discord, so asking again is   *)
(* safe; a call that may have been delivered ends as ambiguous.                  *)
AggregateTruthful == agg.state = "Failed" /\ agg.last # 0 => agg.last \notin delivered

(* Saving an ordinary draft never takes back a visibility command executed after *)
(* the draft was made.                                                           *)
DraftKeepsVisibility == settings.visible = visible

(* While a Twitch connection is there, the saved client id, the one given to the *)
(* Twitch client and the one the connection was begun with are the same.         *)
ConnectionKeepsClient ==
  twitch.busy => settings.client = twitch.client /\ applied.client = twitch.client

(* Both queues run in the order of submission, nothing runs twice, and once a    *)
(* queue is closed what it held never runs.                                      *)
CommandsInOrder ==
  \A q \in {options, actions} :
    /\ \A i \in DOMAIN q.queue : q.queue[i].ticket > q.taken
    /\ \A i, j \in DOMAIN q.queue : i < j => q.queue[i].ticket < q.queue[j].ticket
    /\ ~q.accepting => q.queue = <<>>

(* An aggregate the user has asked for is settled in the end, or the addon stops *)
(* first: a failed tick, a refused dispatch or a lost command never leaves it    *)
(* queued or sending.                                                            *)
AggregateSettles ==
  shown.aggregate \in {"Queued", "Sending"} ~>
    shown.aggregate \notin {"Queued", "Sending"} \/ tick.step = "Stopped"

(* A verification or refresh that has begun ends.                                *)
VerificationSettles == bot.pending.id # 0 ~> bot.pending.id = 0

(* What is saved, what the clients were given and what was verified agree after  *)
(* every step, although each is changed by its own call that may fail.           *)
ConfigurationAgrees ==
  /\ OptionsTypeOK /\ KeyMatchesBase /\ SavedWithinIdentity
  /\ DraftKeepsVisibility /\ ConnectionKeepsClient

(* Whatever leaves the add-on for Discord goes where the settings, or the screen *)
(* the user acted on, say it goes, and is reported for what became of it.        *)
DeliveriesAsShown ==
  UploadRouteIsCurrent /\ UnverifiedStaysSilent /\ AggregateAsShown /\ AggregateTruthful

==============================================================================
