------------------------- MODULE DonBotConfiguration -------------------------
(* src/rust/src/application/configuration_service.rs and                        *)
(* src/rust/src/application/donbot_configuration.rs with the verification       *)
(* worker: the settings and the protected key on disk, and the workflow that    *)
(* verifies a DonBot account and keeps the saved guild and Discord route within *)
(* what the verification returned.  Every operation runs on the application     *)
(* thread under the configuration lock, so it is an operator on the world of    *)
(* settings, key and controller; a process that ends between two writes of one  *)
(* operation leaves the first of them.  The saved key is named by the base it   *)
(* was verified for; an override channel and its explicit marker are one field. *)
EXTENDS Naturals, FiniteSets, Sequences

CONSTANTS
  Bases,       \* DonBot endpoints
  Channels,    \* Discord channels
  Identities   \* what a verification may return: [summary, aggregate, guilds]

VARIABLES
  settings,  \* the saved settings: [bot, dps, twitch, client, visible]
  key,       \* the base the saved key was verified for, or None
  revision,  \* of the configuration snapshot
  bot,       \* the controller
  verifier   \* the verification worker: its request and the answer

configVars == <<settings, key, revision, bot, verifier>>

None == "None"
NoIdentity == [summary |-> FALSE, aggregate |-> FALSE, guilds |-> [g \in {} |-> None]]
NoPending == [id |-> 0, base |-> None, from |-> None, source |-> None]
NoRequest == [id |-> 0, answered |-> FALSE, ok |-> FALSE, identity |-> NoIdentity]

NewBot(base) ==
  [state |-> "Unverified", base |-> base, identity |-> NoIdentity, guild |-> None,
   refreshing |-> FALSE, revision |-> 1, pending |-> NoPending, next |-> 1]

Config == [settings |-> settings, key |-> key, revision |-> revision, bot |-> bot,
           verifier |-> verifier]
Configure(w) ==
  /\ settings' = w.settings /\ key' = w.key /\ revision' = w.revision
  /\ bot' = w.bot /\ verifier' = w.verifier

------------------------------------------------------------------------------
(* The configuration service. *)
ValidSettings(s) ==
  /\ s.bot.enabled => s.bot.guild # None
  /\ s.bot.deliver => s.bot.enabled
  /\ s.twitch => s.dps

(* io: the parts of one step that fail. *)
SaveFails(s, io) == "save" \in io \/ ~ValidSettings(s)
SaveSettings(w, s) == [w EXCEPT !.settings = s, !.revision = @ + 1]

ClearDelivery(b) == [b EXCEPT !.deliver = FALSE, !.channel = None]
Disable(b) == [ClearDelivery(b) EXCEPT !.enabled = FALSE, !.guild = None]

------------------------------------------------------------------------------
(* What a verified identity allows. *)
HasRoute(policy, channel) ==
  IF channel = None THEN policy.defaults ELSE channel \in policy.channels

Sanitize(b, identity) ==
  IF b.guild \notin DOMAIN identity.guilds THEN Disable(b)
  ELSE LET policy == identity.guilds[b.guild]
       IN  CASE ~b.enabled \/ ~identity.summary \/ ~policy.enabled
                \/ (b.channel # None /\ b.channel \notin policy.channels) -> ClearDelivery(b)
             [] OTHER -> [b EXCEPT !.deliver = @ /\ policy.summary /\ HasRoute(policy, b.channel)]

AuthorizedRoute(s, b) ==
  IF /\ s.bot.enabled /\ b.state = "Verified" /\ b.identity.summary
     /\ s.bot.base = b.base /\ s.bot.guild = b.guild
     /\ b.guild \in DOMAIN b.identity.guilds
     /\ b.identity.guilds[b.guild].enabled
     /\ HasRoute(b.identity.guilds[b.guild], s.bot.channel)
  THEN IF s.bot.channel = None THEN "Defaults" ELSE s.bot.channel
  ELSE None

AuthorizedDelivery(s, b) ==
  IF /\ s.bot.deliver /\ s.bot.guild \in DOMAIN b.identity.guilds
     /\ b.identity.guilds[s.bot.guild].summary
  THEN AuthorizedRoute(s, b) ELSE None

AggregateRoute(s, b) ==
  LET route == AuthorizedRoute(s, b)
  IN  IF route = "Defaults" /\ ~b.identity.guilds[b.guild].aggregateDefaults THEN None ELSE route

------------------------------------------------------------------------------
(* The verification workflow. *)
Advance(b) == [b EXCEPT !.revision = @ + 1]
ClearIdentity(b) == [b EXCEPT !.identity = NoIdentity, !.guild = None, !.refreshing = FALSE]

FailBot(w, source) ==
  [w EXCEPT !.bot =
     Advance(IF source = "Refresh" THEN [@ EXCEPT !.refreshing = FALSE]
             ELSE [ClearIdentity(@) EXCEPT !.state = "Error"])]

WhenIdle(w, result) == IF w.bot.pending.id # 0 THEN w ELSE result
WhenVerified(w, result) ==
  WhenIdle(w, CASE w.bot.state # "Verified" -> w
                [] w.bot.state = "Verified" /\ w.settings.bot.base # w.bot.base -> FailBot(w, "Saved")
                [] OTHER -> result)

Dispatch(w, base, source, io) ==
  LET begun == IF source = "Refresh" THEN [w.bot EXCEPT !.refreshing = TRUE]
               ELSE [ClearIdentity(w.bot) EXCEPT !.state = "Verifying"]
      request == [id |-> w.bot.next, base |-> base, from |-> w.settings.bot.base,
                  source |-> source]
  IN  IF "dispatch" \in io THEN FailBot([w EXCEPT !.bot.next = @ + 1], source)
      ELSE [w EXCEPT
        !.verifier = [NoRequest EXCEPT !.id = w.bot.next],
        !.bot = Advance([begun EXCEPT !.base = base, !.next = @ + 1, !.pending = request])]

BeginVerification(w, base, io) == WhenIdle(w, Dispatch(w, base, "Candidate", io))

BeginSaved(w, source, io) ==
  LET begin == IF w.key = None \/ "secret" \in io THEN FailBot(w, source)
               ELSE Dispatch(w, w.settings.bot.base, source, io)
  IN  IF source = "Refresh" THEN WhenVerified(w, begin) ELSE WhenIdle(w, begin)

(* Mutant: the key is replaced before DonBot is disabled. *)
CandidateWritesKeyFirst(w, p) ==
  LET off == [w.settings EXCEPT !.bot = [Disable(@) EXCEPT !.base = p.base]]
  IN  << [settings |-> w.settings, key |-> p.base], [settings |-> off, key |-> p.base] >>

(* What is on disk after each write that takes over a candidate. *)
CandidateWrites(w, p) ==
  LET off == [w.settings EXCEPT !.bot = [Disable(@) EXCEPT !.base = p.base]]
  IN  << [settings |-> off, key |-> w.key], [settings |-> off, key |-> p.base] >>

Verified(w, p, identity) ==
  [w EXCEPT !.bot = Advance([@ EXCEPT !.state = "Verified", !.base = p.base, !.identity = identity,
                                      !.guild = w.settings.bot.guild, !.refreshing = FALSE])]

AcceptCandidate(w, p, identity, io) ==
  LET disk == CandidateWrites(w, p)
      off == SaveSettings(w, disk[1].settings)
  IN  CASE SaveFails(disk[1].settings, io) -> FailBot(w, p.source)
        [] ~SaveFails(disk[1].settings, io) /\ "secret" \in io ->
             FailBot([off EXCEPT !.key = disk[1].key], p.source)
        [] OTHER -> Verified([off EXCEPT !.settings = disk[2].settings, !.key = disk[2].key],
                             p, identity)

AcceptSaved(w, p, identity, io) ==
  LET s == [w.settings EXCEPT !.bot = Sanitize(@, identity)]
  IN  CASE s = w.settings -> Verified(w, p, identity)
        [] s # w.settings /\ SaveFails(s, io) -> FailBot(w, p.source)
        [] OTHER -> Verified(SaveSettings(w, s), p, identity)

Settled(w) == [w EXCEPT !.bot.pending = NoPending, !.verifier = NoRequest]

(* At most one result a tick, a stale one included. *)
PollVerification(w, io) ==
  LET p == w.bot.pending
      d == Settled(w)
      accepted == IF p.source = "Candidate" THEN AcceptCandidate(d, p, w.verifier.identity, io)
                  ELSE AcceptSaved(d, p, w.verifier.identity, io)
  IN  IF ~w.verifier.answered THEN w
      ELSE IF w.verifier.id # p.id THEN [w EXCEPT !.verifier = NoRequest]
      ELSE IF ~w.verifier.ok \/ w.settings.bot.base # p.from THEN FailBot(d, p.source)
      ELSE accepted

------------------------------------------------------------------------------
(* Commands of the user. *)
SaveBot(w, b, io) ==
  LET s == [w.settings EXCEPT !.bot = b]
  IN  IF SaveFails(s, io) THEN FailBot(w, "Saved")
      ELSE [SaveSettings(w, s) EXCEPT !.bot = Advance(@)]

SelectGuild(w, guild, io) ==
  LET b == w.settings.bot
      chosen == [(IF b.guild = guild THEN b ELSE ClearDelivery(b)) EXCEPT !.guild = guild]
      saved == SaveBot(w, chosen, io)
  IN  WhenVerified(w, IF guild \notin DOMAIN w.bot.identity.guilds THEN w
                      ELSE IF SaveFails([w.settings EXCEPT !.bot = chosen], io) THEN saved
                      ELSE [saved EXCEPT !.bot.guild = guild])

SetDelivery(w, on, io) ==
  LET b == [w.settings.bot EXCEPT !.deliver = on]
  IN  WhenVerified(w, IF on /\ AuthorizedDelivery([w.settings EXCEPT !.bot = b], w.bot) = None
                      THEN w ELSE SaveBot(w, b, io))

SelectChannel(w, channel, io) ==
  LET guilds == w.bot.identity.guilds
      g == w.settings.bot.guild
  IN  WhenVerified(w,
        IF /\ g \in DOMAIN guilds /\ w.bot.identity.summary
           /\ guilds[g].enabled /\ HasRoute(guilds[g], channel)
        THEN SaveBot(w, [w.settings.bot EXCEPT !.channel = channel], io) ELSE w)

DisconnectWrites(w) ==
  LET off == [w.settings EXCEPT !.bot = Disable(@)]
  IN  << [settings |-> off, key |-> w.key], [settings |-> off, key |-> None] >>

DisconnectBot(w, io) ==
  LET disk == DisconnectWrites(w)
      off == [SaveSettings(w, disk[1].settings) EXCEPT
                !.bot = [ClearIdentity(@) EXCEPT !.state = "Unverified",
                                                 !.base = disk[1].settings.bot.base]]
  IN  WhenIdle(w, CASE SaveFails(disk[1].settings, io) -> FailBot(w, "Saved")
                    [] ~SaveFails(disk[1].settings, io) /\ "secret" \in io -> FailBot(off, "Saved")
                    [] OTHER -> [off EXCEPT !.key = disk[2].key, !.bot = Advance(@)])

(* The worker has an answer: an identity, or a failure of any kind. *)
VerifierAnswers ==
  /\ verifier.id # 0 /\ ~verifier.answered
  /\ \/ verifier' = [verifier EXCEPT !.answered = TRUE]
     \/ \E i \in Identities :
          verifier' = [verifier EXCEPT !.answered = TRUE, !.ok = TRUE, !.identity = i]
  /\ UNCHANGED <<settings, key, revision, bot>>
=============================================================================
