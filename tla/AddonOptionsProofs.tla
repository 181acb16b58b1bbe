-------------------------- MODULE AddonOptionsProofs --------------------------
(***************************************************************************)
(* Machine-checked proofs about AddonOptions: the settings, the DonBot     *)
(* account and the deliveries under the application thread's tick, for any *)
(* endpoints, guilds, channels and commands, queues of any capacity, any   *)
(* number of failing calls, and restarts anywhere, in the middle of an     *)
(* operation that writes twice too.                                        *)
(*                                                                         *)
(* Operations under the configuration lock take a world of settings, key,  *)
(* account and worker to another.  Sound says what holds of the world      *)
(* between two operations, Leads and Takes what an operation does to it;   *)
(* one lemma per operation shows that it is of that kind, and the steps of *)
(* the tick conclude from that.                                            *)
(***************************************************************************)
EXTENDS AddonOptions, SequenceTheorems, TLAPS

------------------------------------------------------------------------------
(* What is kept, and the operations on a world.                             *)

(* What the controller may hold of an account.                              *)
Details == Identities \cup {NoIdentity}

(* Requests under verification.                                             *)
Pendings == [id : Nat \ {0}, base : Bases, from : Bases, source : {"Candidate", "Saved", "Refresh"}]

(* DonBotVerificationState.                                                 *)
BotStates == {"Unverified", "Verifying", "Verified", "Error", "ShuttingDown"}

(* What the controller may be.                                              *)
Bots == [state : BotStates, base : Bases, identity : Details, guild : Guilds \cup {None},
         refreshing : BOOLEAN, revision : Nat \ {0}, pending : Pendings \cup {NoPending},
            next : Nat \ {0}]

(* The worker: a request and its answer.                                    *)
Verifiers == [id : Nat, answered : BOOLEAN, ok : BOOLEAN, identity : Details]

(* Settings, key, revision, controller and worker together.                 *)
Worlds == [settings : Settings, key : Bases \cup {None}, revision : Nat \ {0}, bot : Bots,
           verifier : Verifiers]

(* A saved account counts as verified only for the saved endpoint and key,  *)
(* with a guild the verification listed, and saved delivery is authorised   *)
(* by it.                                                                   *)
AccountInv(s, k, b) ==
  b.state = "Verified" =>
    /\ b.base = s.bot.base /\ k = s.bot.base /\ b.guild = s.bot.guild
    /\ s.bot.guild \in DOMAIN b.identity.guilds \cup {None}
    /\ s.bot.deliver => AuthorizedDelivery(s, b) # None

(* A saved account is being looked up only for the endpoint and the key     *)
(* that are saved.                                                          *)
LookupInv(s, k, b) ==
  b.pending \in Pendings /\ b.pending.source # "Candidate" =>
    b.pending.base = s.bot.base /\ k = s.bot.base

(* A saved guild never stands beside a key for another endpoint.            *)
KeyInv(s, k) == s.bot.guild # None => k = s.bot.base

(* An answer belongs to a request; an identity to a good answer.            *)
AnswerInv(v) == /\ v.answered => v.id # 0
                /\ v.ok => v.identity \in Identities

(* What holds of the world between any two operations under the             *)
(* configuration lock.                                                      *)
Sound(w) ==
  /\ w \in Worlds
  /\ ValidSettings(w.settings)
  /\ KeyInv(w.settings, w.key)
  /\ AccountInv(w.settings, w.key, w.bot)
  /\ LookupInv(w.settings, w.key, w.bot)
  /\ AnswerInv(w.verifier)

(* What the interface shows of the aggregate route.                         *)
Route(s, b) == [base |-> b.base, guild |-> s.bot.guild, route |-> AggregateRoute(s, b)]

(* What was seen at these revisions is seen now if they are the present     *)
(* ones. This is what makes comparing revisions enough: no operation        *)
(* changes the route without raising one of the two.                        *)
Follows(w, r, b, route) ==
  /\ r \in Nat /\ b \in Nat /\ r <= w.revision /\ b <= w.bot.revision
  /\ r = w.revision /\ b = w.bot.revision => route = Route(w.settings, w.bot)

(* The published snapshot was true at its revisions.                        *)
ShownSeen == Follows(Config, shown.revision, shown.bot, shown.route)

(* So is what the aggregate command was given from it.                      *)
SlotSeen == slot # NoCommand => Follows(Config, slot.revision, slot.bot, slot.shown)

(* DonBotAggregateStatus.                                                   *)
AggStates == {"Idle", "Queued", "Sending", "Succeeded", "Failed", "Ambiguous", "ShuttingDown"}

(* What may have become of a delivery.                                      *)
Outs == {None, "Succeeded", "Failed", "Ambiguous"}

(* The aggregate controller, its worker and what reached Discord: requests  *)
(* are numbered, the worker has one at a time, and a request reported as    *)
(* failed, or not sent yet, has not reached Discord.                        *)
AggInv(a, c, d) ==
  /\ a = [state |-> a.state, command |-> NoCommand, active |-> a.active, next |-> a.next,
          last |-> a.last]
  /\ a.state \in AggStates /\ a.next \in Nat \ {0} /\ a.last \in 0 .. a.next - 1
  /\ a.active \in {0, a.last} /\ (a.active # 0 => a.state = "Sending")
  /\ c = [id |-> c.id, request |-> c.request, shown |-> c.shown, step |-> c.step, out |-> c.out]
  /\ c.id \in 0 .. a.next - 1 /\ c.step \in {"Empty", "Queued", "Sending", "Done"}
  /\ c.out \in Outs
  /\ c.id = 0 => c = NoDelivery
  /\ c.id # 0 => c.step # "Empty" /\ (c.out # None <=> c.step = "Done") /\ c.request = c.shown
  /\ c.out = "Failed" => c.id \notin d
  /\ c.step \in {"Queued", "Sending"} => c.id \notin d
  /\ d \subseteq 1 .. a.next - 1
  /\ a.state = "Failed" /\ a.last # 0 => a.last \notin d /\ c.id # a.last

(* The slot holds a command, or none.                                       *)
SlotInv == slot = [revision |-> slot.revision, bot |-> slot.bot, shown |-> slot.shown]

(* Commands in the queue.                                                   *)
Entries == {[op |-> c[1], arg |-> c[2], seen |-> v, ticket |-> t] :
              c \in Commands, v \in {"on", "off"}, t \in Nat}

(* A bounded queue holds what was submitted after the last command taken,   *)
(* oldest first, and nothing once it is closed.                             *)
QueueInv(q, entries, now) ==
  /\ q = [queue |-> q.queue, accepting |-> q.accepting, taken |-> q.taken]
  /\ q.queue \in Seq(entries) /\ Len(q.queue) <= Capacity
  /\ q.accepting \in BOOLEAN /\ (~q.accepting => q.queue = <<>>)
  /\ q.taken \in 0 .. now
  /\ \A i \in 1 .. Len(q.queue) : q.queue[i].ticket \in q.taken + 1 .. now
  /\ \A i, j \in 1 .. Len(q.queue) : i < j => q.queue[i].ticket < q.queue[j].ticket

(* Actions in the queue.                                                    *)
Tickets == [ticket : Nat]

(* Where the application thread may be.                                     *)
Steps == {"Rest", "Commands", "Apply", "Actions", "Aggregate", "Pump", "Stopped"}

(* The budget of a tick does not exceed what is queued, unless the queue is *)
(* closed meanwhile.                                                        *)
TickInv ==
  /\ tick = [step |-> tick.step, budget |-> tick.budget]
  /\ tick.step \in Steps /\ tick.budget \in Nat
  /\ tick.step = "Commands" /\ options.accepting => tick.budget <= Len(options.queue)
  /\ tick.step = "Actions" /\ actions.accepting => tick.budget <= Len(actions.queue)

(* Both queues.                                                             *)
QueuesInv ==
  /\ events \in Nat /\ closing \in 0 .. 3
  /\ QueueInv(options, Entries, events) /\ QueueInv(actions, Tickets, events)

(* What the clients were given: the Twitch client id while commands are     *)
(* taken, the DonBot policy from the apply on to the end of the tick.       *)
AppliedInv ==
  /\ applied = [client |-> applied.client, policy |-> applied.policy]
  /\ tick.step = "Commands" => settings.client = applied.client
  /\ tick.step \in {"Actions", "Aggregate", "Pump"} => applied.policy = Policy(settings, bot)

(* A connection keeps the client id it was begun with.                      *)
TwitchInv ==
  /\ twitch = [busy |-> twitch.busy, client |-> twitch.client] /\ twitch.busy \in BOOLEAN
  /\ twitch.busy => settings.client = twitch.client /\ applied.client = twitch.client

(* The last automatic upload went where the policy says; only a rest lies   *)
(* between.                                                                 *)
UploadInv == upload # NoRoute => tick.step = "Rest" /\ upload = Policy(settings, bot)

(* The shape of the snapshot.                                               *)
ShownInv ==
  /\ shown = [visible |-> shown.visible, revision |-> shown.revision, bot |-> shown.bot,
              route |-> shown.route, aggregate |-> shown.aggregate]
  /\ shown.visible \in {"on", "off"}

(* The visibility is the last one commanded.                                *)
VisibleInv == visible = settings.visible

(* The inductive invariant.                                                 *)
OptionsInv ==
  /\ Sound(Config) /\ ShownSeen /\ SlotSeen /\ AggInv(agg, courier, delivered) /\ SlotInv
  /\ TickInv /\ QueuesInv /\ AppliedInv /\ TwitchInv /\ UploadInv /\ ShownInv /\ VisibleInv

(* What an operation does to the world: it stays sound, revisions only      *)
(* grow, and if neither does the route is as it was.                        *)
Leads(w, v) ==
  /\ Sound(v)
  /\ v.revision >= w.revision /\ v.bot.revision >= w.bot.revision
  /\ v.revision = w.revision /\ v.bot.revision = w.bot.revision =>
       Route(v.settings, v.bot) = Route(w.settings, w.bot)

(* Such an operation that leaves the client id and the visibility alone.    *)
Takes(w, v) ==
  /\ Leads(w, v)
  /\ v.settings.client = w.settings.client /\ v.settings.visible = w.settings.visible

(* Two settings and two controllers that allow the same.                    *)
Alike(s, t, b, c) ==
  /\ s.bot = t.bot
  /\ b.state = c.state /\ b.base = c.base /\ b.identity = c.identity /\ b.guild = c.guild

(* What is authorised depends on nothing else.                              *)
LEMMA AlikeAllow ==
  ASSUME NEW s, NEW t, NEW b, NEW c, Alike(s, t, b, c)
  PROVE  /\ AuthorizedRoute(s, b) = AuthorizedRoute(t, c)
         /\ AuthorizedDelivery(s, b) = AuthorizedDelivery(t, c)
         /\ Route(s, b) = Route(t, c) /\ Policy(s, b) = Policy(t, c)
<1>1. AuthorizedRoute(s, b) = AuthorizedRoute(t, c)
  BY DEF Alike, AuthorizedRoute
<1>2. AuthorizedDelivery(s, b) = AuthorizedDelivery(t, c)
  BY <1>1 DEF Alike, AuthorizedDelivery
<1>3. AggregateRoute(s, b) = AggregateRoute(t, c)
  BY <1>1 DEF Alike, AggregateRoute
<1> QED BY <1>1, <1>2, <1>3 DEF Alike, Route, Policy

(* The fields of a world.                                                   *)
LEMMA WorldFields ==
  ASSUME NEW w \in Worlds
  PROVE  /\ w.settings \in Settings /\ w.key \in Bases \cup {None} /\ w.revision \in Nat \ {0}
         /\ w.bot \in Bots /\ w.verifier \in Verifiers
         /\ w.settings.bot \in BotSettings
         /\ w.bot.state \in BotStates /\ w.bot.base \in Bases /\ w.bot.identity \in Details
         /\ w.bot.guild \in Guilds \cup {None} /\ w.bot.refreshing \in BOOLEAN
         /\ w.bot.revision \in Nat \ {0} /\ w.bot.next \in Nat \ {0}
         /\ w.bot.pending \in Pendings \cup {NoPending}
BY DEF Worlds, Bots, Settings

(* Replacing the controller of a world.                                     *)
LEMMA BotReplaced ==
  ASSUME NEW w \in Worlds, NEW b \in Bots
  PROVE  /\ [w EXCEPT !.bot = b] \in Worlds
         /\ [w EXCEPT !.bot = b].bot = b
         /\ [w EXCEPT !.bot = b].settings = w.settings /\ [w EXCEPT !.bot = b].key = w.key
         /\ [w EXCEPT !.bot = b].revision = w.revision /\ [w EXCEPT !.bot = b].verifier = w.verifier
BY DEF Worlds

(* Replacing the worker of a world.                                         *)
LEMMA VerifierReplaced ==
  ASSUME NEW w \in Worlds, NEW v \in Verifiers
  PROVE  /\ [w EXCEPT !.verifier = v] \in Worlds
         /\ [w EXCEPT !.verifier = v].verifier = v
         /\ [w EXCEPT !.verifier = v].settings = w.settings /\ [w EXCEPT !.verifier = v].key = w.key
         /\ [w EXCEPT !.verifier = v].revision = w.revision /\ [w EXCEPT !.verifier = v].bot = w.bot
BY DEF Worlds

(* advance_revision raises the revision and nothing else.                   *)
LEMMA Advanced ==
  ASSUME NEW b \in Bots
  PROVE  /\ Advance(b) \in Bots /\ Advance(b).revision = b.revision + 1
         /\ Advance(b).state = b.state /\ Advance(b).base = b.base
         /\ Advance(b).identity = b.identity
         /\ Advance(b).guild = b.guild /\ Advance(b).refreshing = b.refreshing
         /\ Advance(b).pending = b.pending /\ Advance(b).next = b.next
BY DEF Bots, Advance

(* clear_identity forgets the account.                                      *)
LEMMA AccountCleared ==
  ASSUME NEW b \in Bots
  PROVE  /\ ClearIdentity(b) \in Bots /\ ClearIdentity(b).revision = b.revision
         /\ ClearIdentity(b).state = b.state /\ ClearIdentity(b).base = b.base
         /\ ClearIdentity(b).identity = NoIdentity /\ ClearIdentity(b).guild = None
         /\ ClearIdentity(b).refreshing = FALSE
         /\ ClearIdentity(b).pending = b.pending /\ ClearIdentity(b).next = b.next
<1> DEFINE x == [b EXCEPT !.identity = NoIdentity]
           y == [x EXCEPT !.guild = None]
<1>1. x \in Bots /\ x.identity = NoIdentity /\ x.revision = b.revision /\ x.state = b.state
      /\ x.base = b.base /\ x.pending = b.pending /\ x.next = b.next
  BY DEF Bots, Details
<1>2. y \in Bots /\ y.identity = NoIdentity /\ y.revision = b.revision /\ y.state = b.state
      /\ y.base = b.base /\ y.pending = b.pending /\ y.next = b.next /\ y.guild = None
  <2> HIDE DEF x
  <2> QED BY <1>1 DEF Bots
<1>3. PICK f : f = FALSE
  OBVIOUS
<1>4. ClearIdentity(b) = [y EXCEPT !.refreshing = f]
  BY <1>3 DEF ClearIdentity
<1> HIDE DEF y
<1> QED BY <1>2, <1>3, <1>4 DEF Bots

(* A failed refresh keeps the account; any other failure ends in the error  *)
(* state.                                                                   *)
LEMMA FailFields ==
  ASSUME NEW w \in Worlds, NEW source
  PROVE  /\ FailBot(w, source) \in Worlds /\ FailBot(w, source).settings = w.settings
         /\ FailBot(w, source).key = w.key /\ FailBot(w, source).revision = w.revision
         /\ FailBot(w, source).verifier = w.verifier
         /\ FailBot(w, source).bot.revision = w.bot.revision + 1
         /\ FailBot(w, source).bot.pending = w.bot.pending
         /\ FailBot(w, source).bot.next = w.bot.next
         /\ FailBot(w, source).bot.base = w.bot.base
         /\ FailBot(w, source).bot.refreshing = FALSE
         /\ source = "Refresh" => Alike(w.settings, w.settings, FailBot(w, source).bot, w.bot)
         /\ source # "Refresh" => FailBot(w, source).bot.state = "Error"
<1> DEFINE x == [w.bot EXCEPT !.refreshing = FALSE]
           y == [ClearIdentity(w.bot) EXCEPT !.state = "Error"]
           v == FailBot(w, source)
<1>0. w.bot \in Bots
  BY WorldFields
<1>1. CASE source = "Refresh"
  <2>1. PICK f : f = FALSE
    OBVIOUS
  <2>2. x \in Bots /\ x.revision = w.bot.revision /\ x.pending = w.bot.pending
        /\ x.next = w.bot.next /\ x.base = w.bot.base
        /\ x.state = w.bot.state /\ x.identity = w.bot.identity /\ x.guild = w.bot.guild
        /\ x.refreshing = f
    <3>1. x = [w.bot EXCEPT !.refreshing = f]
      BY <2>1
    <3> HIDE DEF x
    <3> QED BY <1>0, <2>1, <3>1 DEF Bots
  <2>3. v = [w EXCEPT !.bot = Advance(x)]
    BY <1>1 DEF FailBot
  <2> HIDE DEF x
  <2>4. Advance(x) \in Bots
    BY <2>2, Advanced
  <2>5. v \in Worlds /\ v.bot = Advance(x) /\ v.settings = w.settings /\ v.key = w.key
        /\ v.revision = w.revision /\ v.verifier = w.verifier
    BY <2>3, <2>4, BotReplaced
  <2> QED BY <1>1, <2>1, <2>2, <2>5, Advanced DEF Alike
<1>2. CASE source # "Refresh"
  <2>1. ClearIdentity(w.bot) \in Bots /\ ClearIdentity(w.bot).revision = w.bot.revision
        /\ ClearIdentity(w.bot).pending = w.bot.pending
        /\ ClearIdentity(w.bot).next = w.bot.next /\ ClearIdentity(w.bot).base = w.bot.base
        /\ ClearIdentity(w.bot).refreshing = FALSE
    BY <1>0, AccountCleared
  <2>2. y \in Bots /\ y.revision = w.bot.revision /\ y.pending = w.bot.pending
        /\ y.next = w.bot.next /\ y.base = w.bot.base
        /\ y.state = "Error" /\ y.refreshing = FALSE
    BY <2>1 DEF Bots, BotStates
  <2>3. v = [w EXCEPT !.bot = Advance(y)]
    BY <1>2 DEF FailBot
  <2> HIDE DEF y
  <2>4. Advance(y) \in Bots
    BY <2>2, Advanced
  <2>5. v \in Worlds /\ v.bot = Advance(y) /\ v.settings = w.settings /\ v.key = w.key
        /\ v.revision = w.revision /\ v.verifier = w.verifier
    BY <2>3, <2>4, BotReplaced
  <2> QED BY <1>2, <2>2, <2>5, Advanced
<1> QED BY <1>1, <1>2

(* Failing is such an operation.                                            *)
LEMMA FailKeeps ==
  ASSUME NEW w, Sound(w), NEW source
  PROVE  Takes(w, FailBot(w, source))
<1> DEFINE v == FailBot(w, source)
<1>1. w \in Worlds
  BY DEF Sound
<1>2. /\ v \in Worlds /\ v.settings = w.settings /\ v.key = w.key /\ v.revision = w.revision
      /\ v.verifier = w.verifier /\ v.bot.revision = w.bot.revision + 1
      /\ v.bot.pending = w.bot.pending /\ v.bot.base = w.bot.base
      /\ source = "Refresh" => Alike(w.settings, w.settings, v.bot, w.bot)
      /\ source # "Refresh" => v.bot.state = "Error"
  BY <1>1, FailFields
<1> HIDE DEF v
<1>3. AccountInv(v.settings, v.key, v.bot)
  <2>1. CASE source = "Refresh"
    BY <1>2, <2>1, AlikeAllow DEF Sound, AccountInv, Alike
  <2>2. CASE source # "Refresh"
    BY <1>2, <2>2 DEF AccountInv
  <2> QED BY <2>1, <2>2
<1>4. Sound(v)
  BY <1>2, <1>3 DEF Sound, KeyInv, LookupInv
<1>5. w.revision \in Nat /\ w.bot.revision \in Nat
  BY <1>1, WorldFields
<1>6. Takes(w, v)
  BY <1>2, <1>4, <1>5 DEF Takes, Leads
<1> QED BY <1>6 DEF v

------------------------------------------------------------------------------
(* Requests for verification.                                               *)

(* Doing nothing is one.                                                    *)
LEMMA TakesItself ==
  ASSUME NEW w, Sound(w)
  PROVE  Takes(w, w)
<1>1. w.revision \in Nat /\ w.bot.revision \in Nat
  BY WorldFields DEF Sound
<1> QED BY <1>1 DEF Takes, Leads

(* One after the other is one.                                              *)
LEMMA TakesOn ==
  ASSUME NEW u, NEW v, NEW w, Sound(u), Takes(u, v), Takes(v, w)
  PROVE  Takes(u, w)
<1>1. u.revision \in Nat /\ u.bot.revision \in Nat /\ v.revision \in Nat /\ v.bot.revision \in Nat
      /\ w.revision \in Nat /\ w.bot.revision \in Nat
  BY WorldFields DEF Sound, Takes, Leads
<1> QED BY <1>1 DEF Takes, Leads

(* Failing makes a world sound whose account was not, since it ends in the  *)
(* error state: the way out of a save that was half done.                   *)
LEMMA FailSettles ==
  ASSUME NEW w \in Worlds, NEW source, source # "Refresh",
         ValidSettings(w.settings), KeyInv(w.settings, w.key),
         LookupInv(w.settings, w.key, w.bot), AnswerInv(w.verifier)
  PROVE  Sound(FailBot(w, source))
<1> DEFINE v == FailBot(w, source)
<1>1. /\ v \in Worlds /\ v.settings = w.settings /\ v.key = w.key /\ v.verifier = w.verifier
      /\ v.bot.pending = w.bot.pending /\ v.bot.state = "Error"
  BY FailFields
<1> HIDE DEF v
<1>2. Sound(v)
  BY <1>1 DEF Sound, AccountInv, LookupInv, KeyInv
<1> QED BY <1>2 DEF v

(* The request a dispatch leaves.                                           *)
Asked(w, base, source) ==
  [id |-> w.bot.next, base |-> base, from |-> w.settings.bot.base, source |-> source]

(* A dispatch leaves its request with the worker and the controller.        *)
LEMMA DispatchedBot ==
  ASSUME NEW w \in Worlds, NEW base \in Bases, NEW source \in {"Candidate", "Saved", "Refresh"},
         NEW io, "dispatch" \notin io
  PROVE  LET v == Dispatch(w, base, source, io) IN
         /\ v \in Worlds /\ v.settings = w.settings /\ v.key = w.key /\ v.revision = w.revision
         /\ v.verifier = [NoRequest EXCEPT !.id = w.bot.next]
         /\ v.bot.revision = w.bot.revision + 1
         /\ v.bot.pending = Asked(w, base, source) /\ v.bot.base = base
         /\ source # "Refresh" => v.bot.state # "Verified"
         /\ source = "Refresh" => /\ v.bot.state = w.bot.state /\ v.bot.identity = w.bot.identity
                                  /\ v.bot.guild = w.bot.guild
<1> DEFINE s1 == [w.bot EXCEPT !.refreshing = TRUE]
           s2 == [ClearIdentity(w.bot) EXCEPT !.state = "Verifying"]
           start == IF source = "Refresh" THEN s1 ELSE s2
           b1 == [start EXCEPT !.base = base]
           b2 == [b1 EXCEPT !.next = @ + 1]
           b3 == [b2 EXCEPT !.pending = Asked(w, base, source)]
           c3 == [start EXCEPT !.base = base, !.next = @ + 1, !.pending = Asked(w, base, source)]
           r == [NoRequest EXCEPT !.id = w.bot.next]
           w1 == [w EXCEPT !.verifier = r]
           v == Dispatch(w, base, source, io)
<1>0. w.bot \in Bots /\ w.bot.next \in Nat \ {0} /\ w.settings.bot.base \in Bases
  BY WorldFields DEF BotSettings
<1>1. s1 \in Bots /\ s1.revision = w.bot.revision /\ s1.state = w.bot.state
      /\ s1.identity = w.bot.identity /\ s1.guild = w.bot.guild /\ s1.next = w.bot.next
  <2>1. PICK f : f = TRUE
    OBVIOUS
  <2>2. s1 = [w.bot EXCEPT !.refreshing = f]
    BY <2>1
  <2> HIDE DEF s1
  <2> QED BY <1>0, <2>1, <2>2 DEF Bots
<1>2. s2 \in Bots /\ s2.revision = w.bot.revision /\ s2.state = "Verifying" /\ s2.next = w.bot.next
  <2>1. ClearIdentity(w.bot) \in Bots /\ ClearIdentity(w.bot).revision = w.bot.revision
        /\ ClearIdentity(w.bot).next = w.bot.next
    BY <1>0, AccountCleared
  <2> QED BY <2>1 DEF Bots, BotStates
<1> HIDE DEF s1, s2
<1>3. /\ start \in Bots /\ start.revision = w.bot.revision /\ start.next = w.bot.next
      /\ source # "Refresh" => start.state # "Verified"
      /\ source = "Refresh" => /\ start.state = w.bot.state /\ start.identity = w.bot.identity
                               /\ start.guild = w.bot.guild
  BY <1>1, <1>2
<1>4. v = [w1 EXCEPT !.bot = Advance(b3)]
  <2>1. v = [w1 EXCEPT !.bot = Advance(c3)]
    BY DEF Dispatch, Asked, s1, s2
  <2>2. c3 = b3
    OBVIOUS
  <2> QED BY <2>1, <2>2
<1> HIDE DEF c3
<1> HIDE DEF start
<1>5. /\ b1 \in Bots /\ b1.revision = start.revision /\ b1.next = start.next /\ b1.base = base
      /\ b1.state = start.state /\ b1.identity = start.identity /\ b1.guild = start.guild
  BY <1>3 DEF Bots
<1> HIDE DEF b1
<1>6. /\ b2 \in Bots /\ b2.revision = start.revision /\ b2.base = base
      /\ b2.state = start.state /\ b2.identity = start.identity /\ b2.guild = start.guild
  BY <1>0, <1>5 DEF Bots
<1> HIDE DEF b2
<1>7. Asked(w, base, source) \in Pendings
  BY <1>0 DEF Asked, Pendings
<1>8. /\ b3 \in Bots /\ b3.revision = start.revision /\ b3.base = base
      /\ b3.pending = Asked(w, base, source)
      /\ b3.state = start.state /\ b3.identity = start.identity /\ b3.guild = start.guild
  BY <1>6, <1>7 DEF Bots
<1> HIDE DEF b3
<1>9. /\ Advance(b3) \in Bots /\ Advance(b3).revision = start.revision + 1
      /\ Advance(b3).base = base
      /\ Advance(b3).pending = Asked(w, base, source)
      /\ Advance(b3).state = start.state /\ Advance(b3).identity = start.identity
      /\ Advance(b3).guild = start.guild
  BY <1>8, Advanced
<1>10. r \in Verifiers
  BY <1>0 DEF NoRequest, Verifiers, Details
<1> HIDE DEF r
<1>11. w1 \in Worlds /\ w1.verifier = r /\ w1.settings = w.settings /\ w1.key = w.key
       /\ w1.revision = w.revision
  BY <1>10, VerifierReplaced
<1> HIDE DEF w1
<1>12. v \in Worlds /\ v.bot = Advance(b3) /\ v.settings = w.settings /\ v.key = w.key
       /\ v.revision = w.revision /\ v.verifier = r
  BY <1>4, <1>9, <1>11, BotReplaced
<1> HIDE DEF v
<1>13. QED BY <1>3, <1>9, <1>12 DEF v, r

(* A refused dispatch only uses a number up, and fails.                     *)
LEMMA RefusedBot ==
  ASSUME NEW w \in Worlds, NEW base, NEW source, NEW io, "dispatch" \in io
  PROVE  \E u \in Worlds :
           /\ Dispatch(w, base, source, io) = FailBot(u, source)
           /\ u.settings = w.settings /\ u.key = w.key /\ u.revision = w.revision
           /\ u.verifier = w.verifier /\ Alike(w.settings, w.settings, u.bot, w.bot)
           /\ u.bot.revision = w.bot.revision /\ u.bot.pending = w.bot.pending
<1> DEFINE b == [w.bot EXCEPT !.next = @ + 1]
           u == [w EXCEPT !.bot = b]
<1>1. w.bot \in Bots
  BY WorldFields
<1>2. b \in Bots /\ b.state = w.bot.state /\ b.base = w.bot.base /\ b.identity = w.bot.identity
      /\ b.guild = w.bot.guild /\ b.revision = w.bot.revision /\ b.pending = w.bot.pending
  BY <1>1 DEF Bots
<1>3. Dispatch(w, base, source, io) = FailBot(u, source)
  BY DEF Dispatch
<1> HIDE DEF b
<1>4. u \in Worlds /\ u.bot = b /\ u.settings = w.settings /\ u.key = w.key
      /\ u.revision = w.revision /\ u.verifier = w.verifier
  BY <1>2, BotReplaced
<1> HIDE DEF u
<1> QED BY <1>2, <1>3, <1>4 DEF Alike

(* The account stays as good when the controller allows the same.           *)
LEMMA AccountStays ==
  ASSUME NEW s, NEW k, NEW b, NEW c, Alike(s, s, b, c), AccountInv(s, k, c)
  PROVE  AccountInv(s, k, b)
<1>1. AuthorizedDelivery(s, b) = AuthorizedDelivery(s, c)
  BY AlikeAllow
<1> QED BY <1>1 DEF Alike, AccountInv

(* A dispatch keeps the world sound, and a refresh keeps what is            *)
(* authorised.                                                              *)
LEMMA DispatchKeeps ==
  ASSUME NEW w, Sound(w), NEW source \in {"Candidate", "Saved", "Refresh"}, NEW base \in Bases,
     NEW io,
         source # "Candidate" => base = w.settings.bot.base /\ w.key = base,
         source = "Refresh" => base = w.bot.base
  PROVE  /\ Takes(w, Dispatch(w, base, source, io))
         /\ source = "Refresh" =>
              Alike(w.settings, w.settings, Dispatch(w, base, source, io).bot, w.bot)
         /\ Dispatch(w, base, source, io).settings = w.settings
<1> DEFINE v == Dispatch(w, base, source, io)
<1>0. w \in Worlds /\ w.revision \in Nat /\ w.bot.revision \in Nat /\ w.bot.next \in Nat \ {0}
  BY WorldFields DEF Sound
<1>1. CASE "dispatch" \in io
  <2>1. PICK u \in Worlds :
           /\ Dispatch(w, base, source, io) = FailBot(u, source)
           /\ u.settings = w.settings /\ u.key = w.key /\ u.revision = w.revision
           /\ u.verifier = w.verifier /\ Alike(w.settings, w.settings, u.bot, w.bot)
           /\ u.bot.revision = w.bot.revision /\ u.bot.pending = w.bot.pending
    BY <1>0, <1>1, RefusedBot
  <2>2. AccountInv(u.settings, u.key, u.bot)
    BY <2>1, AccountStays DEF Sound
  <2>3. Sound(u)
    BY <2>1, <2>2 DEF Sound, LookupInv
  <2>4. Takes(u, v)
    BY <2>1, <2>3, FailKeeps
  <2>5. Takes(w, u)
    <3>1. Route(w.settings, u.bot) = Route(w.settings, w.bot)
      BY <2>1, AlikeAllow
    <3> QED BY <1>0, <2>1, <2>3, <3>1 DEF Takes, Leads
  <2>6. v.settings = u.settings
        /\ (source = "Refresh" => Alike(u.settings, u.settings, v.bot, u.bot))
    <3>1. v = FailBot(u, source)
      BY <2>1
    <3> HIDE DEF v
    <3> QED BY <3>1, FailFields
  <2>7. Takes(w, v)
    BY <2>4, <2>5, TakesOn
  <2> QED BY <2>1, <2>6, <2>7 DEF Alike
<1>2. CASE "dispatch" \notin io
  <2>1. /\ v \in Worlds /\ v.settings = w.settings /\ v.key = w.key /\ v.revision = w.revision
        /\ v.verifier = [NoRequest EXCEPT !.id = w.bot.next]
        /\ v.bot.revision = w.bot.revision + 1
        /\ v.bot.pending = Asked(w, base, source) /\ v.bot.base = base
        /\ source # "Refresh" => v.bot.state # "Verified"
        /\ source = "Refresh" => /\ v.bot.state = w.bot.state /\ v.bot.identity = w.bot.identity
                                 /\ v.bot.guild = w.bot.guild
    BY <1>0, <1>2, DispatchedBot
  <2> HIDE DEF v
  <2>2. source = "Refresh" => Alike(w.settings, w.settings, v.bot, w.bot)
    BY <2>1 DEF Alike
  <2>3. AccountInv(v.settings, v.key, v.bot)
    <3>1. CASE source = "Refresh"
      BY <2>1, <2>2, <3>1, AccountStays DEF Sound
    <3>2. CASE source # "Refresh"
      BY <2>1, <3>2 DEF AccountInv
    <3> QED BY <3>1, <3>2
  <2>4. AnswerInv(v.verifier)
    <3>1. v.verifier.answered = FALSE /\ v.verifier.ok = FALSE
      BY <2>1 DEF NoRequest
    <3> QED BY <3>1 DEF AnswerInv
  <2>5. LookupInv(v.settings, v.key, v.bot)
    BY <2>1 DEF LookupInv, Asked
  <2>6. Sound(v)
    BY <2>1, <2>3, <2>4, <2>5 DEF Sound
  <2>7. Takes(w, v)
    BY <1>0, <2>1, <2>6 DEF Takes, Leads
  <2> QED BY <2>1, <2>2, <2>7 DEF v
<1> QED BY <1>1, <1>2

(* So does looking up a saved account.                                      *)
LEMMA BeginSavedKeeps ==
  ASSUME NEW w, Sound(w), NEW source \in {"Saved", "Refresh"}, NEW io,
         source = "Saved" => w.settings.bot.guild # None
  PROVE  /\ Takes(w, BeginSaved(w, source, io))
         /\ source = "Refresh" =>
              Alike(w.settings, w.settings, BeginSaved(w, source, io).bot, w.bot)
         /\ BeginSaved(w, source, io).settings = w.settings
<1> DEFINE begin == IF w.key = None \/ "secret" \in io THEN FailBot(w, source)
                    ELSE Dispatch(w, w.settings.bot.base, source, io)
<1>0. w \in Worlds /\ w.settings.bot.base \in Bases
  BY WorldFields DEF Sound, BotSettings
<1>1. w.key # None /\ w.settings.bot.guild # None => w.key = w.settings.bot.base
  BY DEF Sound, KeyInv
<1>2. Takes(w, w) /\ Alike(w.settings, w.settings, w.bot, w.bot)
  BY TakesItself DEF Alike
<1>3. ASSUME source = "Refresh" => w.bot.state = "Verified" /\ w.bot.base = w.settings.bot.base
      PROVE  Takes(w, begin) /\ begin.settings = w.settings
             /\ (source = "Refresh" => Alike(w.settings, w.settings, begin.bot, w.bot))
  <2>1. CASE w.key = None \/ "secret" \in io
    <3>1. begin = FailBot(w, source)
      BY <2>1
    <3> HIDE DEF begin
    <3> QED BY <1>0, <3>1, FailKeeps, FailFields
  <2>2. CASE ~(w.key = None \/ "secret" \in io)
    <3>1. w.key = w.settings.bot.base
      BY <1>1, <1>3, <2>2 DEF Sound, AccountInv
    <3>2. begin = Dispatch(w, w.settings.bot.base, source, io)
      BY <2>2
    <3> HIDE DEF begin
    <3> QED BY <1>0, <1>3, <3>1, <3>2, DispatchKeeps
  <2> QED BY <2>1, <2>2
<1> DEFINE v == BeginSaved(w, source, io)
<1>4. CASE source = "Saved"
  <2>1. v = WhenIdle(w, begin)
    BY <1>4 DEF BeginSaved
  <2>2. Takes(w, begin) /\ begin.settings = w.settings
    BY <1>3, <1>4
  <2> HIDE DEF v, begin
  <2>3. v = w \/ v = begin
    BY <2>1 DEF WhenIdle
  <2>4. Takes(w, v) /\ v.settings = w.settings
    BY <1>2, <2>2, <2>3
  <2> QED BY <1>4, <2>4 DEF v
<1>5. CASE source = "Refresh"
  <2>1. v = WhenVerified(w, begin)
    BY <1>5 DEF BeginSaved
  <2>2. w.bot.state = "Verified" => w.settings.bot.base = w.bot.base
    BY DEF Sound, AccountInv
  <2>3. w.bot.state = "Verified" =>
          Takes(w, begin) /\ begin.settings = w.settings
          /\ Alike(w.settings, w.settings, begin.bot, w.bot)
    BY <1>3, <1>5, <2>2
  <2> HIDE DEF v, begin
  <2>4. v = w \/ (w.bot.state = "Verified" /\ v = begin)
    <3>1. CASE w.bot.state # "Verified"
      BY <2>1, <3>1, Zenon DEF WhenVerified, WhenIdle
    <3>2. CASE w.bot.state = "Verified"
      <4>1. ~(w.bot.state # "Verified") /\ ~(w.bot.state = "Verified"
            /\ w.settings.bot.base # w.bot.base)
        BY <2>2, <3>2
      <4> QED BY <2>1, <3>2, <4>1, Zenon DEF WhenVerified, WhenIdle
    <3> QED BY <3>1, <3>2
  <2>5. Takes(w, v) /\ v.settings = w.settings /\ Alike(w.settings, w.settings, v.bot, w.bot)
    BY <1>2, <2>3, <2>4
  <2> QED BY <2>5 DEF v
<1> QED BY <1>4, <1>5

(* And verifying a candidate.                                               *)
LEMMA BeginVerificationKeeps ==
  ASSUME NEW w, Sound(w), NEW base \in Bases, NEW io
  PROVE  Takes(w, BeginVerification(w, base, io))
<1>1. Takes(w, Dispatch(w, base, "Candidate", io))
  BY DispatchKeeps
<1>2. Takes(w, w)
  BY TakesItself
<1> QED BY <1>1, <1>2 DEF BeginVerification, WhenIdle

------------------------------------------------------------------------------
(* Saving settings.                                                         *)

(* Replacing the DonBot part of the settings.                               *)
LEMMA BotSaved ==
  ASSUME NEW s \in Settings, NEW b \in BotSettings
  PROVE  /\ [s EXCEPT !.bot = b] \in Settings /\ [s EXCEPT !.bot = b].bot = b
         /\ [s EXCEPT !.bot = b].client = s.client /\ [s EXCEPT !.bot = b].visible = s.visible
         /\ [s EXCEPT !.bot = b].dps = s.dps /\ [s EXCEPT !.bot = b].twitch = s.twitch
BY DEF Settings

(* A save replaces the settings and raises the revision.                    *)
LEMMA SavedFields ==
  ASSUME NEW w \in Worlds, NEW s \in Settings
  PROVE  /\ SaveSettings(w, s) \in Worlds /\ SaveSettings(w, s).settings = s
         /\ SaveSettings(w, s).revision = w.revision + 1 /\ SaveSettings(w, s).key = w.key
         /\ SaveSettings(w, s).bot = w.bot /\ SaveSettings(w, s).verifier = w.verifier
<1> DEFINE u == [w EXCEPT !.settings = s]
<1>1. u \in Worlds /\ u.settings = s /\ u.revision = w.revision /\ u.key = w.key
      /\ u.bot = w.bot /\ u.verifier = w.verifier
  BY DEF Worlds
<1>2. SaveSettings(w, s) = [u EXCEPT !.revision = @ + 1]
  BY DEF SaveSettings
<1> HIDE DEF u
<1> QED BY <1>1, <1>2 DEF Worlds

(* A save of settings that agree with key and account keeps the world       *)
(* sound.                                                                   *)
LEMMA SavedKeeps ==
  ASSUME NEW w, Sound(w), NEW s \in Settings, ValidSettings(s), KeyInv(s, w.key),
         AccountInv(s, w.key, w.bot), s.bot.base = w.settings.bot.base
  PROVE  Leads(w, SaveSettings(w, s))
<1> DEFINE v == SaveSettings(w, s)
<1>0. w \in Worlds /\ w.revision \in Nat /\ w.bot.revision \in Nat
  BY WorldFields DEF Sound
<1>1. v \in Worlds /\ v.settings = s /\ v.revision = w.revision + 1 /\ v.key = w.key
      /\ v.bot = w.bot /\ v.verifier = w.verifier
  BY <1>0, SavedFields
<1> HIDE DEF v
<1>2. Sound(v)
  BY <1>1 DEF Sound, LookupInv
<1>3. Leads(w, v)
  BY <1>0, <1>1, <1>2 DEF Leads
<1> QED BY <1>3 DEF v

(* A save that leaves the DonBot part alone always does.                    *)
LEMMA OrdinaryKeeps ==
  ASSUME NEW w, Sound(w), NEW s \in Settings, NEW io, s.bot = w.settings.bot
  PROVE  Leads(w, SaveOrdinary(w, s, io))
<1>1. Leads(w, w)
  BY TakesItself DEF Takes
<1>2. ASSUME ValidSettings(s) PROVE Leads(w, SaveSettings(w, s))
  <2>1. Alike(s, w.settings, w.bot, w.bot)
    BY DEF Alike
  <2>2. AuthorizedDelivery(s, w.bot) = AuthorizedDelivery(w.settings, w.bot)
    BY <2>1, AlikeAllow
  <2>3. AccountInv(s, w.key, w.bot) /\ KeyInv(s, w.key)
    BY <2>2 DEF Sound, AccountInv, KeyInv
  <2> QED BY <1>2, <2>3, SavedKeeps
<1> QED BY <1>1, <1>2 DEF SaveOrdinary, SaveFails

(* Raising the revision of the controller alone.                            *)
LEMMA AdvancedKeeps ==
  ASSUME NEW w, Sound(w)
  PROVE  /\ Sound([w EXCEPT !.bot = Advance(@)])
         /\ [w EXCEPT !.bot = Advance(@)].settings = w.settings
         /\ [w EXCEPT !.bot = Advance(@)].revision = w.revision
         /\ [w EXCEPT !.bot = Advance(@)].bot.revision = w.bot.revision + 1
         /\ [w EXCEPT !.bot = Advance(@)].bot = Advance(w.bot)
         /\ [w EXCEPT !.bot = Advance(@)].key = w.key
         /\ [w EXCEPT !.bot = Advance(@)].verifier = w.verifier
         /\ Alike(w.settings, w.settings, Advance(w.bot), w.bot)
         /\ Takes(w, [w EXCEPT !.bot = Advance(@)])
<1> DEFINE b == Advance(w.bot)
           v == [w EXCEPT !.bot = b]
<1>0. w \in Worlds /\ w.bot \in Bots /\ w.revision \in Nat /\ w.bot.revision \in Nat
  BY WorldFields DEF Sound
<1>1. b \in Bots /\ b.revision = w.bot.revision + 1 /\ b.pending = w.bot.pending
      /\ Alike(w.settings, w.settings, b, w.bot)
  BY <1>0, Advanced DEF Alike
<1> HIDE DEF b
<1>2. v \in Worlds /\ v.bot = b /\ v.settings = w.settings /\ v.key = w.key
      /\ v.revision = w.revision /\ v.verifier = w.verifier
  BY <1>0, <1>1, BotReplaced
<1>3. v = [w EXCEPT !.bot = Advance(@)]
  BY DEF b
<1> HIDE DEF v
<1>4. AccountInv(w.settings, w.key, b)
  BY <1>1, AccountStays DEF Sound
<1>5. Sound(v)
  BY <1>1, <1>2, <1>4 DEF Sound, LookupInv
<1>6. Takes(w, v)
  BY <1>0, <1>1, <1>2, <1>5 DEF Takes, Leads
<1>7. Alike(w.settings, w.settings, Advance(w.bot), w.bot)
  BY <1>1 DEF b
<1> QED BY <1>1, <1>2, <1>3, <1>5, <1>6, <1>7 DEF b

(* A save of the DonBot part, or its failure.                               *)
LEMMA SaveBotKeeps ==
  ASSUME NEW w, Sound(w), NEW b \in BotSettings, NEW io,
         b.base = w.settings.bot.base, b.guild # None => w.key = b.base,
         AccountInv([w.settings EXCEPT !.bot = b], w.key, w.bot)
  PROVE  Takes(w, SaveBot(w, b, io))
<1> DEFINE s == [w.settings EXCEPT !.bot = b]
           u == SaveSettings(w, s)
           v == [u EXCEPT !.bot = Advance(@)]
<1>0. w \in Worlds /\ w.settings \in Settings
  BY WorldFields DEF Sound
<1>1. s \in Settings /\ s.bot = b /\ s.client = w.settings.client /\ s.visible = w.settings.visible
  BY <1>0, BotSaved
<1>2. AccountInv(s, w.key, w.bot)
  OBVIOUS
<1> HIDE DEF s
<1>3. CASE SaveFails(s, io)
  <2>1. SaveBot(w, b, io) = FailBot(w, "Saved")
    BY <1>3 DEF SaveBot, s
  <2> QED BY <2>1, FailKeeps
<1>4. CASE ~SaveFails(s, io)
  <2>1. SaveBot(w, b, io) = v
    BY <1>4 DEF SaveBot, s
  <2>2. ValidSettings(s) /\ KeyInv(s, w.key)
    BY <1>1, <1>4 DEF SaveFails, KeyInv
  <2>3. Leads(w, u) /\ u.settings = s
    BY <1>0, <1>1, <1>2, <2>2, SavedKeeps, SavedFields
  <2>4. Takes(w, u)
    BY <1>1, <2>3 DEF Takes
  <2> HIDE DEF u
  <2>5. Takes(u, v)
    BY <2>4, AdvancedKeeps DEF Takes, Leads
  <2> HIDE DEF v
  <2> QED BY <2>1, <2>4, <2>5, TakesOn
<1> QED BY <1>3, <1>4

------------------------------------------------------------------------------
(* Commands of the user.                                                    *)

(* A command for a verified account that is idle, or the failure of one     *)
(* whose endpoint has changed.                                              *)
LEMMA WhenVerifiedKeeps ==
  ASSUME NEW w, Sound(w), NEW r,
         w.bot.state = "Verified" /\ w.bot.pending.id = 0 => Takes(w, r)
  PROVE  Takes(w, WhenVerified(w, r))
<1> DEFINE v == WhenVerified(w, r)
<1>1. w.bot.state = "Verified" => w.settings.bot.base = w.bot.base
  BY DEF Sound, AccountInv
<1>2. v = w \/ (w.bot.state = "Verified" /\ w.bot.pending.id = 0 /\ v = r)
  <2>1. CASE w.bot.state # "Verified"
    BY <2>1, Zenon DEF WhenVerified, WhenIdle
  <2>2. CASE w.bot.state = "Verified"
    <3>1. ~(w.bot.state # "Verified") /\ ~(w.bot.state = "Verified"
          /\ w.settings.bot.base # w.bot.base)
      BY <1>1, <2>2
    <3> QED BY <2>2, <3>1, Zenon DEF WhenVerified, WhenIdle
  <2> QED BY <2>1, <2>2
<1> HIDE DEF v
<1>3. Takes(w, v)
  BY <1>2, TakesItself
<1> QED BY <1>3 DEF v

(* clear_delivery forgets delivery and channel.                             *)
LEMMA DeliveryCleared ==
  ASSUME NEW b \in BotSettings
  PROVE  /\ ClearDelivery(b) \in BotSettings /\ ClearDelivery(b).deliver = FALSE
         /\ ClearDelivery(b).channel = None /\ ClearDelivery(b).enabled = b.enabled
         /\ ClearDelivery(b).base = b.base /\ ClearDelivery(b).guild = b.guild
<1>1. PICK f : f = FALSE
  OBVIOUS
<1> DEFINE x == [b EXCEPT !.deliver = f]
<1>2. x \in BotSettings /\ x.deliver = f /\ x.enabled = b.enabled /\ x.base = b.base
      /\ x.guild = b.guild
  BY <1>1 DEF BotSettings
<1>3. ClearDelivery(b) = [x EXCEPT !.channel = None]
  BY <1>1 DEF ClearDelivery
<1> HIDE DEF x
<1> QED BY <1>1, <1>2, <1>3 DEF BotSettings

(* disable forgets the guild too.                                           *)
LEMMA DisabledFields ==
  ASSUME NEW b \in BotSettings
  PROVE  /\ Disable(b) \in BotSettings /\ Disable(b).deliver = FALSE /\ Disable(b).enabled = FALSE
         /\ Disable(b).channel = None /\ Disable(b).guild = None /\ Disable(b).base = b.base
<1>1. PICK f : f = FALSE
  OBVIOUS
<1> DEFINE c == ClearDelivery(b)
           x == [c EXCEPT !.enabled = f]
<1>2. c \in BotSettings /\ c.deliver = f /\ c.channel = None /\ c.base = b.base
  BY <1>1, DeliveryCleared
<1>3. Disable(b) = [x EXCEPT !.guild = None]
  BY <1>1 DEF Disable
<1> HIDE DEF c
<1>4. x \in BotSettings /\ x.deliver = f /\ x.enabled = f /\ x.channel = None /\ x.base = b.base
  BY <1>1, <1>2 DEF BotSettings
<1> HIDE DEF x
<1> QED BY <1>1, <1>3, <1>4 DEF BotSettings

(* The guilds of an account are guilds, with their policies.                *)
LEMMA DetailsFields ==
  ASSUME NEW i \in Details
  PROVE  /\ i \in Verification \cup {NoIdentity} /\ DOMAIN i.guilds \subseteq Guilds
         /\ \A g \in DOMAIN i.guilds : i.guilds[g] \in DeliveryPolicy
<1>1. i \in Verification \cup {NoIdentity}
  BY OptionsConstants DEF Details
<1>2. ASSUME i \in Verification
      PROVE  /\ DOMAIN i.guilds \subseteq Guilds
      /\ \A g \in DOMAIN i.guilds : i.guilds[g] \in DeliveryPolicy
  <2>1. i.guilds \in UNION {[listed -> DeliveryPolicy] : listed \in SUBSET Guilds}
    BY <1>2 DEF Verification
  <2>2. PICK listed \in SUBSET Guilds : i.guilds \in [listed -> DeliveryPolicy]
    BY <2>1
  <2> QED BY <2>2
<1>3. DOMAIN NoIdentity.guilds = {}
  BY DEF NoIdentity
<1> QED BY <1>1, <1>2, <1>3

(* Delivery is switched on only when it is authorised.                      *)
LEMMA SetDeliveryKeeps ==
  ASSUME NEW w, Sound(w), NEW on \in BOOLEAN, NEW io
  PROVE  Takes(w, SetDelivery(w, on, io))
<1> DEFINE b == [w.settings.bot EXCEPT !.deliver = on]
           s == [w.settings EXCEPT !.bot = b]
           r == IF on /\ AuthorizedDelivery(s, w.bot) = None THEN w ELSE SaveBot(w, b, io)
<1>0. w.settings \in Settings /\ w.settings.bot \in BotSettings
  BY WorldFields DEF Sound
<1>1. b \in BotSettings /\ b.deliver = on /\ b.base = w.settings.bot.base
      /\ b.guild = w.settings.bot.guild
  BY <1>0 DEF BotSettings
<1>2. s.bot = b
  BY <1>0, <1>1, BotSaved
<1>3. SetDelivery(w, on, io) = WhenVerified(w, r)
  BY DEF SetDelivery
<1> HIDE DEF s
<1>4. ASSUME w.bot.state = "Verified" PROVE Takes(w, r)
  <2>1. CASE on /\ AuthorizedDelivery(s, w.bot) = None
    BY <2>1, TakesItself
  <2>2. CASE ~(on /\ AuthorizedDelivery(s, w.bot) = None)
    <3>1. r = SaveBot(w, b, io)
      BY <2>2, Zenon
    <3> HIDE DEF b
    <3>2. AccountInv(s, w.key, w.bot)
      BY <1>1, <1>2, <2>2 DEF Sound, AccountInv
    <3>3. AccountInv([w.settings EXCEPT !.bot = b], w.key, w.bot)
      BY <3>2 DEF s
    <3>4. b.guild # None => w.key = b.base
      BY <1>1 DEF Sound, KeyInv
    <3> HIDE DEF r
    <3> QED BY <1>1, <3>1, <3>3, <3>4, SaveBotKeeps
  <2> QED BY <2>1, <2>2
<1> HIDE DEF r
<1> QED BY <1>3, <1>4, WhenVerifiedKeeps

(* A channel is selected only among those of the guild, so that delivery    *)
(* stays authorised.                                                        *)
LEMMA SelectChannelKeeps ==
  ASSUME NEW w, Sound(w), NEW channel, NEW io
  PROVE  Takes(w, SelectChannel(w, channel, io))
<1> DEFINE guilds == w.bot.identity.guilds
           g == w.settings.bot.guild
           ok == /\ g \in DOMAIN guilds /\ w.bot.identity.summary
                 /\ guilds[g].enabled /\ HasRoute(guilds[g], channel)
           b == [w.settings.bot EXCEPT !.channel = channel]
           s == [w.settings EXCEPT !.bot = b]
           r == IF ok THEN SaveBot(w, b, io) ELSE w
<1>0. w.settings \in Settings /\ w.settings.bot \in BotSettings /\ w.bot.identity \in Details
  BY WorldFields DEF Sound
<1>1. SelectChannel(w, channel, io) = WhenVerified(w, r)
  BY DEF SelectChannel
<1>2. ASSUME w.bot.state = "Verified", ok PROVE Takes(w, SaveBot(w, b, io))
  <2>1. guilds[g] \in DeliveryPolicy
    BY <1>0, <1>2, DetailsFields
  <2>2. channel \in Channels \cup {None}
    BY <1>2, <2>1 DEF HasRoute, DeliveryPolicy
  <2>3. b \in BotSettings /\ b.channel = channel /\ b.base = w.settings.bot.base
        /\ b.guild = g /\ b.deliver = w.settings.bot.deliver /\ b.enabled = w.settings.bot.enabled
    BY <1>0, <2>2 DEF BotSettings
  <2> HIDE DEF b
  <2>4. s.bot = b
    BY <1>0, <2>3, BotSaved
  <2> HIDE DEF s
  <2>5. ASSUME b.deliver PROVE AuthorizedDelivery(s, w.bot) # None
    <3>1. AuthorizedDelivery(w.settings, w.bot) # None
      BY <1>2, <2>3, <2>5 DEF Sound, AccountInv
    <3>2. /\ guilds[g].summary /\ AuthorizedRoute(w.settings, w.bot) # None
      BY <3>1 DEF AuthorizedDelivery
    <3>3. /\ w.settings.bot.enabled /\ w.settings.bot.base = w.bot.base /\ g = w.bot.guild
      BY <3>2 DEF AuthorizedRoute
    <3>4. AuthorizedRoute(s, w.bot) = IF channel = None THEN "Defaults" ELSE channel
      BY <1>2, <2>3, <2>4, <3>3 DEF AuthorizedRoute
    <3>5. AuthorizedRoute(s, w.bot) # None
      BY <3>4 DEF None
    <3> QED BY <1>2, <2>3, <2>4, <2>5, <3>2, <3>5 DEF AuthorizedDelivery
  <2>6. AccountInv(s, w.key, w.bot)
    BY <1>2, <2>3, <2>4, <2>5 DEF Sound, AccountInv
  <2>7. AccountInv([w.settings EXCEPT !.bot = b], w.key, w.bot)
    BY <2>6 DEF s
  <2>8. b.guild # None => w.key = b.base
    BY <2>3 DEF Sound, KeyInv
  <2> QED BY <2>3, <2>7, <2>8, SaveBotKeeps
<1>3. ASSUME w.bot.state = "Verified" PROVE Takes(w, r)
  <2>1. CASE ok
    <3>1. r = SaveBot(w, b, io)
      BY <2>1
    <3> QED BY <1>2, <1>3, <2>1, <3>1
  <2>2. CASE ~ok
    <3>1. r = w
      BY <2>2
    <3> QED BY <3>1, TakesItself
  <2> QED BY <2>1, <2>2
<1> HIDE DEF r
<1> QED BY <1>1, <1>3, WhenVerifiedKeeps

(* Another guild is selected without delivery, so that nothing has to be    *)
(* authorised for it.                                                       *)
LEMMA GuildSelected ==
  ASSUME NEW w, Sound(w), NEW guild \in DOMAIN w.bot.identity.guilds, NEW io,
         w.bot.state = "Verified",
         NEW b, b = [(IF w.settings.bot.guild = guild THEN w.settings.bot
                      ELSE ClearDelivery(w.settings.bot)) EXCEPT !.guild = guild],
         ~SaveFails([w.settings EXCEPT !.bot = b], io)
  PROVE  Takes(w, [SaveBot(w, b, io) EXCEPT !.bot.guild = guild])
<1> DEFINE s == [w.settings EXCEPT !.bot = b]
           u == SaveSettings(w, s)
           a == Advance(w.bot)
           c == [a EXCEPT !.guild = guild]
           v1 == [u EXCEPT !.bot = a]
           v == [v1 EXCEPT !.bot = c]
           old == w.settings.bot
           cleared == ClearDelivery(old)
           chosen == IF old.guild = guild THEN old ELSE cleared
<1>0. w \in Worlds /\ w.settings \in Settings /\ w.settings.bot \in BotSettings
      /\ w.bot.identity \in Details /\ w.revision \in Nat /\ w.bot.revision \in Nat
      /\ w.bot \in Bots
  BY WorldFields DEF Sound
<1>1. guild \in Guilds
  BY <1>0, DetailsFields
<1>2. cleared \in BotSettings /\ cleared.deliver = FALSE /\ cleared.base = old.base
  BY <1>0, DeliveryCleared
<1>3. b = [chosen EXCEPT !.guild = guild]
  OBVIOUS
<1> HIDE DEF cleared
<1>4. /\ chosen \in BotSettings /\ chosen.base = old.base
      /\ old.guild # guild => chosen.deliver = FALSE
      /\ old.guild = guild => chosen = old
  BY <1>0, <1>2
<1> HIDE DEF chosen
<1>5. /\ b \in BotSettings /\ b.base = old.base /\ b.guild = guild
      /\ b.deliver = chosen.deliver
  BY <1>1, <1>3, <1>4 DEF BotSettings
<1>6. old.guild = guild => b = old
  BY <1>0, <1>3, <1>4 DEF BotSettings
<1>7. s \in Settings /\ s.bot = b /\ s.client = w.settings.client /\ s.visible = w.settings.visible
  BY <1>0, <1>5, BotSaved
<1>8. ~SaveFails(s, io)
  OBVIOUS
<1>9. SaveBot(w, b, io) = [u EXCEPT !.bot = Advance(@)]
  BY <1>8 DEF SaveBot
<1> HIDE DEF s
<1>10. u \in Worlds /\ u.settings = s /\ u.revision = w.revision + 1 /\ u.key = w.key
       /\ u.bot = w.bot /\ u.verifier = w.verifier
  BY <1>0, <1>7, SavedFields
<1> HIDE DEF u
<1>11. SaveBot(w, b, io) = v1
  BY <1>9, <1>10
<1>12. a \in Bots /\ a.revision = w.bot.revision + 1 /\ a.pending = w.bot.pending
       /\ a.state = w.bot.state /\ a.base = w.bot.base /\ a.identity = w.bot.identity
       /\ a.guild = w.bot.guild
  BY <1>0, Advanced
<1> HIDE DEF a
<1>13. c \in Bots /\ c.revision = w.bot.revision + 1 /\ c.pending = w.bot.pending
       /\ c.state = w.bot.state /\ c.base = w.bot.base /\ c.identity = w.bot.identity
       /\ c.guild = guild
  BY <1>1, <1>12 DEF Bots
<1>14. v1 \in Worlds /\ v1.bot = a /\ v1.settings = s /\ v1.key = w.key
       /\ v1.revision = u.revision /\ v1.verifier = w.verifier
  BY <1>10, <1>12, BotReplaced
<1>15. [SaveBot(w, b, io) EXCEPT !.bot.guild = guild] = v
  BY <1>11, <1>14
<1> HIDE DEF v1, c
<1>16. v \in Worlds /\ v.bot = c /\ v.settings = s /\ v.key = w.key
       /\ v.revision = w.revision + 1 /\ v.verifier = w.verifier
  BY <1>10, <1>13, <1>14, BotReplaced
<1> HIDE DEF v
<1>17. w.bot.base = old.base /\ w.key = old.base /\ w.bot.guild = old.guild
       /\ (old.deliver => AuthorizedDelivery(w.settings, w.bot) # None)
  BY DEF Sound, AccountInv
<1>18. ASSUME s.bot.deliver PROVE AuthorizedDelivery(s, c) # None
  <2>1. old.guild = guild /\ b = old
    BY <1>4, <1>5, <1>6, <1>7, <1>18
  <2>2. Alike(s, w.settings, c, w.bot)
    BY <1>7, <1>13, <1>17, <2>1 DEF Alike
  <2>3. AuthorizedDelivery(s, c) = AuthorizedDelivery(w.settings, w.bot)
    BY <2>2, AlikeAllow
  <2> QED BY <1>7, <1>17, <1>18, <2>1, <2>3
<1>19. AccountInv(s, w.key, c)
  BY <1>5, <1>7, <1>13, <1>17, <1>18 DEF AccountInv
<1>20. KeyInv(s, w.key) /\ LookupInv(s, w.key, c) /\ ValidSettings(s)
  BY <1>5, <1>7, <1>8, <1>13, <1>17 DEF KeyInv, LookupInv, Sound, SaveFails
<1>21. Sound(v)
  BY <1>16, <1>19, <1>20 DEF Sound
<1>22. Takes(w, v)
  BY <1>0, <1>7, <1>13, <1>16, <1>21 DEF Takes, Leads
<1> QED BY <1>15, <1>22

(* Selecting a guild, saved or not.                                         *)
LEMMA SelectGuildKeeps ==
  ASSUME NEW w, Sound(w), NEW guild, NEW io
  PROVE  Takes(w, SelectGuild(w, guild, io))
<1> DEFINE b == [(IF w.settings.bot.guild = guild THEN w.settings.bot
                  ELSE ClearDelivery(w.settings.bot)) EXCEPT !.guild = guild]
           saved == SaveBot(w, b, io)
           fails == SaveFails([w.settings EXCEPT !.bot = b], io)
           r == IF guild \notin DOMAIN w.bot.identity.guilds THEN w
                ELSE IF fails THEN saved
                ELSE [saved EXCEPT !.bot.guild = guild]
<1>1. SelectGuild(w, guild, io) = WhenVerified(w, r)
  BY DEF SelectGuild
<1>2. fails => saved = FailBot(w, "Saved")
  BY DEF SaveBot
<1>3. ASSUME w.bot.state = "Verified", guild \in DOMAIN w.bot.identity.guilds, ~fails
      PROVE  Takes(w, [saved EXCEPT !.bot.guild = guild])
  BY <1>3, GuildSelected
<1> HIDE DEF saved, fails
<1>4. ASSUME w.bot.state = "Verified" PROVE Takes(w, r)
  <2>1. CASE guild \notin DOMAIN w.bot.identity.guilds
    BY <2>1, TakesItself
  <2>2. CASE guild \in DOMAIN w.bot.identity.guilds /\ fails
    <3>1. r = FailBot(w, "Saved")
      BY <1>2, <2>2
    <3> QED BY <3>1, FailKeeps
  <2>3. CASE guild \in DOMAIN w.bot.identity.guilds /\ ~fails
    <3>1. r = [saved EXCEPT !.bot.guild = guild]
      BY <2>3
    <3> QED BY <1>3, <1>4, <2>3, <3>1
  <2> QED BY <2>1, <2>2, <2>3
<1> HIDE DEF r
<1> QED BY <1>1, <1>4, WhenVerifiedKeeps

(* Replacing the key of a world.                                            *)
LEMMA KeyReplaced ==
  ASSUME NEW w \in Worlds, NEW k \in Bases \cup {None}
  PROVE  /\ [w EXCEPT !.key = k] \in Worlds /\ [w EXCEPT !.key = k].key = k
         /\ [w EXCEPT !.key = k].settings = w.settings /\ [w EXCEPT !.key = k].bot = w.bot
         /\ [w EXCEPT !.key = k].revision = w.revision /\ [w EXCEPT !.key = k].verifier = w.verifier
BY DEF Worlds

(* Replacing the settings of a world.                                       *)
LEMMA SettingsReplaced ==
  ASSUME NEW w \in Worlds, NEW s \in Settings
  PROVE  /\ [w EXCEPT !.settings = s] \in Worlds /\ [w EXCEPT !.settings = s].settings = s
         /\ [w EXCEPT !.settings = s].key = w.key /\ [w EXCEPT !.settings = s].bot = w.bot
         /\ [w EXCEPT !.settings = s].revision = w.revision
         /\ [w EXCEPT !.settings = s].verifier = w.verifier
BY DEF Worlds

(* A disconnect disables DonBot before it erases the key: a key that cannot *)
(* be erased stays without a guild beside it.                               *)
LEMMA DisconnectKeeps ==
  ASSUME NEW w, Sound(w), NEW io
  PROVE  Takes(w, DisconnectBot(w, io))
<1> DEFINE s == DisconnectWrites(w)[1].settings
           u == SaveSettings(w, s)
           c0 == ClearIdentity(u.bot)
           c1 == [c0 EXCEPT !.state = "Unverified"]
           c2 == [c1 EXCEPT !.base = s.bot.base]
           off == [u EXCEPT !.bot = c2]
           x == [off EXCEPT !.key = DisconnectWrites(w)[2].key]
           v == [x EXCEPT !.bot = Advance(@)]
           fails == SaveFails(s, io)
           r == CASE fails -> FailBot(w, "Saved")
                  [] ~fails /\ "secret" \in io -> FailBot(off, "Saved")
                  [] OTHER -> v
<1>0. w \in Worlds /\ w.settings \in Settings /\ w.settings.bot \in BotSettings
      /\ w.revision \in Nat /\ w.bot.revision \in Nat /\ w.bot \in Bots
      /\ w.bot.pending \in Pendings \cup {NoPending}
  BY WorldFields DEF Sound
<1>1. s = [w.settings EXCEPT !.bot = Disable(@)] /\ DisconnectWrites(w)[2].key = None
  BY DEF DisconnectWrites
<1>2. /\ s \in Settings /\ s.client = w.settings.client /\ s.visible = w.settings.visible
      /\ s.bot.guild = None /\ s.bot.deliver = FALSE /\ s.bot.enabled = FALSE
      /\ s.bot.base = w.settings.bot.base
  <2> DEFINE d == Disable(w.settings.bot)
  <2>1. d \in BotSettings /\ d.guild = None /\ d.deliver = FALSE /\ d.enabled = FALSE
        /\ d.base = w.settings.bot.base
    BY <1>0, DisabledFields
  <2>2. s = [w.settings EXCEPT !.bot = d]
    BY <1>1
  <2> HIDE DEF d, s
  <2> QED BY <1>0, <2>1, <2>2, BotSaved
<1>3. s.bot.base \in Bases
  BY <1>2 DEF Settings, BotSettings
<1>4. DisconnectBot(w, io) = WhenIdle(w, r)
  <2>1. [x EXCEPT !.bot = Advance(@)] = [off EXCEPT !.key = DisconnectWrites(w)[2].key,
     !.bot = Advance(@)]
    OBVIOUS
  <2>2. off = [SaveSettings(w, DisconnectWrites(w)[1].settings) EXCEPT
                !.bot = [ClearIdentity(@) EXCEPT !.state = "Unverified",
                                                 !.base = DisconnectWrites(w)[1].settings.bot.base]]
    OBVIOUS
  <2> QED BY <2>1, <2>2, Zenon DEF DisconnectBot
<1> HIDE DEF s
<1>5. /\ u \in Worlds /\ u.settings = s /\ u.revision = w.revision + 1 /\ u.key = w.key
      /\ u.bot = w.bot /\ u.verifier = w.verifier
  BY <1>0, <1>2, SavedFields
<1> HIDE DEF u
<1>6. c0 \in Bots /\ c0.revision = w.bot.revision /\ c0.pending = w.bot.pending
  BY <1>0, <1>5, AccountCleared
<1> HIDE DEF c0
<1>7. c1 \in Bots /\ c1.revision = w.bot.revision /\ c1.pending = w.bot.pending
      /\ c1.state = "Unverified"
  BY <1>6 DEF Bots, BotStates
<1> HIDE DEF c1
<1>8. c2 \in Bots /\ c2.revision = w.bot.revision /\ c2.pending = w.bot.pending
      /\ c2.state = "Unverified"
  BY <1>3, <1>7 DEF Bots
<1> HIDE DEF c2
<1>9. /\ off \in Worlds /\ off.settings = s /\ off.revision = w.revision + 1 /\ off.key = w.key
      /\ off.bot = c2 /\ off.verifier = w.verifier
  BY <1>5, <1>8, BotReplaced
<1> HIDE DEF off
<1>10. /\ x \in Worlds /\ x.settings = s /\ x.revision = w.revision + 1 /\ x.key = None
       /\ x.bot = c2 /\ x.verifier = w.verifier
  BY <1>1, <1>9, KeyReplaced
<1> HIDE DEF x
<1>11. ASSUME ~fails, w.bot.pending.id = 0
       PROVE  Takes(w, FailBot(off, "Saved")) /\ Takes(w, v)
  <2>1. ValidSettings(s)
    BY <1>11 DEF SaveFails
  <2>2. w.bot.pending \notin Pendings
    BY <1>11 DEF Pendings
  <2>3. Sound(off)
    BY <1>2, <1>8, <1>9, <2>1, <2>2 DEF Sound, KeyInv, AccountInv, LookupInv
  <2>4. Sound(x)
    BY <1>2, <1>8, <1>10, <2>1, <2>2 DEF Sound, KeyInv, AccountInv, LookupInv
  <2>5. Takes(w, off)
    BY <1>0, <1>2, <1>8, <1>9, <2>3 DEF Takes, Leads
  <2>6. Takes(w, x)
    BY <1>0, <1>2, <1>8, <1>10, <2>4 DEF Takes, Leads
  <2>7. Takes(off, FailBot(off, "Saved"))
    BY <2>3, FailKeeps
  <2>8. Takes(x, v)
    BY <2>4, AdvancedKeeps
  <2> HIDE DEF v
  <2> QED BY <2>5, <2>6, <2>7, <2>8, TakesOn
<1> HIDE DEF v
<1>12. ASSUME w.bot.pending.id = 0 PROVE Takes(w, r)
  <2>1. CASE fails
    <3>1. r = FailBot(w, "Saved")
      BY <2>1, Zenon
    <3> HIDE DEF r
    <3> QED BY <3>1, FailKeeps
  <2>2. CASE ~fails /\ "secret" \in io
    <3>1. r = FailBot(off, "Saved")
      BY <2>2, Zenon
    <3> HIDE DEF r
    <3> QED BY <1>11, <1>12, <2>2, <3>1
  <2>3. CASE ~fails /\ "secret" \notin io
    <3>1. r = v
      BY <2>3, Zenon
    <3> HIDE DEF r
    <3> QED BY <1>11, <1>12, <2>3, <3>1
  <2> QED BY <2>1, <2>2, <2>3
<1> HIDE DEF r
<1>13. Takes(w, WhenIdle(w, r))
  BY <1>12, TakesItself DEF WhenIdle
<1> QED BY <1>4, <1>13

(* DonBot is enabled only with the verified guild, and disabled without     *)
(* delivery.                                                                *)
LEMMA SetEnabledKeeps ==
  ASSUME NEW w, Sound(w), NEW on \in BOOLEAN, NEW io
  PROVE  Takes(w, SetEnabled(w, on, io))
<1> DEFINE old == w.settings.bot
           b1 == [old EXCEPT !.enabled = TRUE]
           b2 == [ClearDelivery(old) EXCEPT !.enabled = FALSE]
           b == IF on THEN b1 ELSE b2
           s == [w.settings EXCEPT !.bot = b]
           allowed == /\ w.bot.state = "Verified" /\ w.settings.bot.base = w.bot.base
                      /\ w.settings.bot.guild = w.bot.guild
                      /\ w.bot.guild \in DOMAIN w.bot.identity.guilds
           u == SaveSettings(w, s)
           v == SetEnabled(w, on, io)
<1>0. w \in Worlds /\ w.settings \in Settings /\ old \in BotSettings
  BY WorldFields DEF Sound
<1>1. b1 \in BotSettings /\ b1.base = old.base /\ b1.guild = old.guild /\ b1.deliver = old.deliver
      /\ (old.enabled => b1 = old)
  <2>1. PICK f : f = TRUE
    OBVIOUS
  <2>2. b1 = [old EXCEPT !.enabled = f]
    BY <2>1
  <2> HIDE DEF b1
  <2> QED BY <1>0, <2>1, <2>2 DEF BotSettings
<1>2. b2 \in BotSettings /\ b2.base = old.base /\ b2.guild = old.guild /\ b2.deliver = FALSE
  <2>1. PICK f : f = FALSE
    OBVIOUS
  <2> DEFINE c == ClearDelivery(old)
  <2>2. c \in BotSettings /\ c.base = old.base /\ c.guild = old.guild /\ c.deliver = f
    BY <1>0, <2>1, DeliveryCleared
  <2>3. b2 = [c EXCEPT !.enabled = f]
    BY <2>1
  <2> HIDE DEF c, b2
  <2> QED BY <2>1, <2>2, <2>3 DEF BotSettings
<1>3. v = IF w.bot.pending.id # 0 \/ (on /\ ~allowed) \/ SaveFails(s, io) THEN w
          ELSE IF on THEN BeginSaved(u, "Refresh", io) ELSE u
  BY DEF SetEnabled
<1> HIDE DEF b1, b2
<1>4. /\ b \in BotSettings /\ b.base = old.base /\ b.guild = old.guild
      /\ b.deliver => on /\ old.deliver
      /\ on /\ old.enabled => b = old
  BY <1>1, <1>2
<1> HIDE DEF b
<1>5. s \in Settings /\ s.bot = b /\ s.client = w.settings.client /\ s.visible = w.settings.visible
  BY <1>0, <1>4, BotSaved
<1> HIDE DEF s
<1>6. AccountInv(s, w.key, w.bot)
  <2>1. CASE s.bot.deliver
    <3>1. old.enabled
      BY <1>4, <1>5, <2>1 DEF Sound, ValidSettings
    <3>2. Alike(s, w.settings, w.bot, w.bot)
      BY <1>4, <1>5, <2>1, <3>1 DEF Alike
    <3>3. AuthorizedDelivery(s, w.bot) = AuthorizedDelivery(w.settings, w.bot)
      BY <3>2, AlikeAllow
    <3> QED BY <3>2, <3>3 DEF Sound, AccountInv, Alike
  <2>2. CASE ~s.bot.deliver
    BY <1>4, <1>5, <2>2 DEF Sound, AccountInv
  <2> QED BY <2>1, <2>2
<1>7. ASSUME ~SaveFails(s, io) PROVE Takes(w, u) /\ Sound(u)
  <2>1. ValidSettings(s) /\ KeyInv(s, w.key)
    BY <1>4, <1>5, <1>7 DEF SaveFails, Sound, KeyInv
  <2>2. Leads(w, u)
    BY <1>4, <1>5, <1>6, <2>1, SavedKeeps
  <2>3. u.settings = s
    BY <1>0, <1>5, SavedFields
  <2> HIDE DEF u
  <2> QED BY <1>5, <2>2, <2>3 DEF Takes, Leads
<1> HIDE DEF u, v
<1>8. ASSUME ~SaveFails(s, io) PROVE Takes(w, BeginSaved(u, "Refresh", io))
  <2>1. Takes(u, BeginSaved(u, "Refresh", io))
    BY <1>7, <1>8, BeginSavedKeeps
  <2> QED BY <1>7, <1>8, <2>1, TakesOn
<1>9. v = w \/ (~SaveFails(s, io) /\ (v = u \/ v = BeginSaved(u, "Refresh", io)))
  BY <1>3
<1>10. Takes(w, v)
  BY <1>7, <1>8, <1>9, TakesItself
<1> QED BY <1>10 DEF v

------------------------------------------------------------------------------
(* Answers of the verification.                                             *)

(* Settling the request keeps the world sound.                              *)
LEMMA SettledKeeps ==
  ASSUME NEW w, Sound(w)
  PROVE  /\ Takes(w, Settled(w)) /\ Settled(w).bot.pending = NoPending
         /\ Settled(w).settings = w.settings /\ Settled(w).key = w.key
<1> DEFINE b == [w.bot EXCEPT !.pending = NoPending]
           u == [w EXCEPT !.bot = b]
           v == [u EXCEPT !.verifier = NoRequest]
<1>0. w \in Worlds /\ w.bot \in Bots /\ w.revision \in Nat /\ w.bot.revision \in Nat
  BY WorldFields DEF Sound
<1>1. /\ b \in Bots /\ b.revision = w.bot.revision /\ b.pending = NoPending
      /\ Alike(w.settings, w.settings, b, w.bot)
  BY <1>0 DEF Bots, Alike
<1>2. Settled(w) = v
  BY <1>0 DEF Settled
<1> HIDE DEF b
<1>3. u \in Worlds /\ u.bot = b /\ u.settings = w.settings /\ u.key = w.key
      /\ u.revision = w.revision
  BY <1>0, <1>1, BotReplaced
<1> HIDE DEF u
<1>4. NoRequest \in Verifiers /\ AnswerInv(NoRequest)
  BY DEF NoRequest, Verifiers, Details, AnswerInv
<1>5. v \in Worlds /\ v.bot = b /\ v.settings = w.settings /\ v.key = w.key
      /\ v.revision = w.revision /\ v.verifier = NoRequest
  BY <1>3, <1>4, VerifierReplaced
<1> HIDE DEF v
<1>6. AccountInv(v.settings, v.key, v.bot)
  BY <1>1, <1>5, AccountStays DEF Sound
<1>7. NoPending \notin Pendings
  BY DEF NoPending, Pendings
<1>8. Sound(v)
  BY <1>1, <1>4, <1>5, <1>6, <1>7 DEF Sound, LookupInv
<1>9. Route(w.settings, b) = Route(w.settings, w.bot)
  BY <1>1, AlikeAllow
<1>10. Takes(w, v)
  BY <1>0, <1>1, <1>5, <1>8, <1>9 DEF Takes, Leads
<1> QED BY <1>1, <1>2, <1>5, <1>10

(* What a verification leaves in the controller.                            *)
LEMMA VerifiedFields ==
  ASSUME NEW w \in Worlds, NEW p \in Pendings, NEW identity \in Details
  PROVE  LET v == Verified(w, p, identity) IN
         /\ v \in Worlds /\ v.settings = w.settings /\ v.key = w.key /\ v.revision = w.revision
         /\ v.verifier = w.verifier /\ v.bot.revision = w.bot.revision + 1
         /\ v.bot.pending = w.bot.pending /\ v.bot.state = "Verified" /\ v.bot.base = p.base
         /\ v.bot.identity = identity /\ v.bot.guild = w.settings.bot.guild
<1> DEFINE b1 == [w.bot EXCEPT !.state = "Verified"]
           b2 == [b1 EXCEPT !.base = p.base]
           b3 == [b2 EXCEPT !.identity = identity]
           b4 == [b3 EXCEPT !.guild = w.settings.bot.guild]
           b5 == [b4 EXCEPT !.refreshing = FALSE]
           v == Verified(w, p, identity)
<1>0. w.bot \in Bots /\ w.settings.bot.guild \in Guilds \cup {None}
  BY WorldFields DEF BotSettings
<1>1. p.base \in Bases
  BY DEF Pendings
<1>2. v = [w EXCEPT !.bot = Advance(b5)]
  BY DEF Verified
<1>3. b1 \in Bots /\ b1.state = "Verified" /\ b1.revision = w.bot.revision
      /\ b1.pending = w.bot.pending
  BY <1>0 DEF Bots, BotStates
<1> HIDE DEF b1
<1>4. b2 \in Bots /\ b2.state = "Verified" /\ b2.revision = w.bot.revision
      /\ b2.pending = w.bot.pending
      /\ b2.base = p.base
  BY <1>1, <1>3 DEF Bots
<1> HIDE DEF b2
<1>5. b3 \in Bots /\ b3.state = "Verified" /\ b3.revision = w.bot.revision
      /\ b3.pending = w.bot.pending
      /\ b3.base = p.base /\ b3.identity = identity
  BY <1>4 DEF Bots
<1> HIDE DEF b3
<1>6. b4 \in Bots /\ b4.state = "Verified" /\ b4.revision = w.bot.revision
      /\ b4.pending = w.bot.pending
      /\ b4.base = p.base /\ b4.identity = identity /\ b4.guild = w.settings.bot.guild
  BY <1>0, <1>5 DEF Bots
<1> HIDE DEF b4
<1>7. b5 \in Bots /\ b5.state = "Verified" /\ b5.revision = w.bot.revision
      /\ b5.pending = w.bot.pending
      /\ b5.base = p.base /\ b5.identity = identity /\ b5.guild = w.settings.bot.guild
  <2>1. PICK f : f = FALSE
    OBVIOUS
  <2>2. b5 = [b4 EXCEPT !.refreshing = f]
    BY <2>1
  <2> HIDE DEF b5
  <2> QED BY <1>6, <2>1, <2>2 DEF Bots
<1> HIDE DEF b5
<1>8. Advance(b5) \in Bots /\ Advance(b5).state = "Verified"
      /\ Advance(b5).revision = w.bot.revision + 1
      /\ Advance(b5).pending = w.bot.pending
      /\ Advance(b5).base = p.base /\ Advance(b5).identity = identity
      /\ Advance(b5).guild = w.settings.bot.guild
  BY <1>7, Advanced
<1>9. v \in Worlds /\ v.bot = Advance(b5) /\ v.settings = w.settings /\ v.key = w.key
      /\ v.revision = w.revision /\ v.verifier = w.verifier
  BY <1>2, <1>8, BotReplaced
<1> HIDE DEF v
<1>10. QED BY <1>8, <1>9 DEF v

(* Settings that are within what an identity allows.                        *)
Within(b, identity) ==
  /\ b.guild \in DOMAIN identity.guilds \cup {None}
  /\ b.deliver => /\ b.guild \in DOMAIN identity.guilds /\ identity.summary
                  /\ b.enabled /\ identity.guilds[b.guild].enabled
                  /\ identity.guilds[b.guild].summary
                  /\ HasRoute(identity.guilds[b.guild], b.channel)

(* Sanitizing brings the saved account within it.                           *)
LEMMA SanitizedWithin ==
  ASSUME NEW b \in BotSettings, NEW identity \in Details
  PROVE  /\ Sanitize(b, identity) \in BotSettings /\ Sanitize(b, identity).base = b.base
         /\ Sanitize(b, identity).guild \in {None, b.guild}
         /\ Within(Sanitize(b, identity), identity)
<1> DEFINE r == Sanitize(b, identity)
           policy == identity.guilds[b.guild]
           d == b.deliver /\ policy.summary /\ HasRoute(policy, b.channel)
           x == [b EXCEPT !.deliver = d]
           barred == ~b.enabled \/ ~identity.summary \/ ~policy.enabled
                     \/ (b.channel # None /\ b.channel \notin policy.channels)
<1>1. CASE b.guild \notin DOMAIN identity.guilds
  <2>1. r = Disable(b)
    BY <1>1 DEF Sanitize
  <2> HIDE DEF r
  <2>2. r \in BotSettings /\ r.base = b.base /\ r.guild = None /\ r.deliver = FALSE
    BY <2>1, DisabledFields
  <2>3. Within(r, identity)
    BY <2>2 DEF Within
  <2>4. r \in BotSettings /\ r.base = b.base /\ r.guild \in {None, b.guild} /\ Within(r, identity)
    BY <2>2, <2>3
  <2> QED BY <2>4 DEF r
<1>2. CASE b.guild \in DOMAIN identity.guilds /\ barred
  <2>1. r = ClearDelivery(b)
    BY <1>2, Zenon DEF Sanitize
  <2> HIDE DEF r
  <2>2. r \in BotSettings /\ r.base = b.base /\ r.guild = b.guild /\ r.deliver = FALSE
    BY <2>1, DeliveryCleared
  <2>3. Within(r, identity)
    BY <1>2, <2>2 DEF Within
  <2>4. r \in BotSettings /\ r.base = b.base /\ r.guild \in {None, b.guild} /\ Within(r, identity)
    BY <2>2, <2>3
  <2> QED BY <2>4 DEF r
<1>3. CASE b.guild \in DOMAIN identity.guilds /\ ~barred
  <2>1. r = x
    BY <1>3, Zenon DEF Sanitize
  <2>2. policy \in DeliveryPolicy
    BY <1>3, DetailsFields
  <2>3. b.deliver \in BOOLEAN
    BY DEF BotSettings
  <2>4. d \in BOOLEAN
    OBVIOUS
  <2>5. d => b.deliver /\ policy.summary /\ HasRoute(policy, b.channel)
    OBVIOUS
  <2> HIDE DEF d, r
  <2>6. x \in BotSettings /\ x.base = b.base /\ x.guild = b.guild /\ x.deliver = d
        /\ x.enabled = b.enabled /\ x.channel = b.channel
    BY <2>4 DEF BotSettings
  <2> HIDE DEF x
  <2>7. Within(x, identity)
    BY <1>3, <2>5, <2>6 DEF Within
  <2>8. r \in BotSettings /\ r.base = b.base /\ r.guild \in {None, b.guild} /\ Within(r, identity)
    BY <2>1, <2>6, <2>7
  <2> QED BY <2>8 DEF r
<1> QED BY <1>1, <1>2, <1>3

(* A verification of an account that is within its identity makes the world *)
(* sound.                                                                   *)
LEMMA VerifiedSound ==
  ASSUME NEW w \in Worlds, NEW p \in Pendings, NEW identity \in Details,
         ValidSettings(w.settings), AnswerInv(w.verifier), w.bot.pending = NoPending,
         p.base = w.settings.bot.base, w.key = p.base, Within(w.settings.bot, identity)
  PROVE  Sound(Verified(w, p, identity))
<1> DEFINE v == Verified(w, p, identity)
<1>1. /\ v \in Worlds /\ v.settings = w.settings /\ v.key = w.key /\ v.revision = w.revision
      /\ v.verifier = w.verifier
      /\ v.bot.pending = w.bot.pending /\ v.bot.state = "Verified" /\ v.bot.base = p.base
      /\ v.bot.identity = identity /\ v.bot.guild = w.settings.bot.guild
  BY VerifiedFields
<1> HIDE DEF v
<1>2. ASSUME w.settings.bot.deliver PROVE AuthorizedDelivery(w.settings, v.bot) # None
  <2>1. AuthorizedRoute(w.settings, v.bot) = IF w.settings.bot.channel = None THEN "Defaults"
                                              ELSE w.settings.bot.channel
    BY <1>1, <1>2 DEF AuthorizedRoute, Within
  <2>2. AuthorizedRoute(w.settings, v.bot) # None
    BY <2>1 DEF None
  <2> QED BY <1>1, <1>2, <2>2 DEF AuthorizedDelivery, Within
<1>3. AccountInv(v.settings, v.key, v.bot)
  BY <1>1, <1>2 DEF AccountInv, Within
<1>4. NoPending \notin Pendings
  BY DEF NoPending, Pendings
<1>5. Sound(v)
  BY <1>1, <1>3, <1>4 DEF Sound, KeyInv, LookupInv
<1> QED BY <1>5 DEF v

(* A verified saved account is sanitized, saved and taken over.             *)
LEMMA AcceptSavedKeeps ==
  ASSUME NEW w, Sound(w), NEW p \in Pendings, NEW identity \in Details, NEW io,
         w.bot.pending = NoPending, p.base = w.settings.bot.base, w.key = p.base
  PROVE  Takes(w, AcceptSaved(w, p, identity, io))
<1> DEFINE b == Sanitize(w.settings.bot, identity)
           s == [w.settings EXCEPT !.bot = b]
           u == SaveSettings(w, s)
           r == AcceptSaved(w, p, identity, io)
<1>0. w \in Worlds /\ w.settings \in Settings /\ w.settings.bot \in BotSettings
      /\ w.revision \in Nat /\ w.bot.revision \in Nat
  BY WorldFields DEF Sound
<1>1. b \in BotSettings /\ b.base = w.settings.bot.base /\ Within(b, identity)
  BY <1>0, SanitizedWithin
<1>2. r = CASE s = w.settings -> Verified(w, p, identity)
        [] s # w.settings /\ SaveFails(s, io) -> FailBot(w, p.source)
        [] OTHER -> Verified(u, p, identity)
  BY DEF AcceptSaved
<1> HIDE DEF b
<1>3. s \in Settings /\ s.bot = b /\ s.client = w.settings.client /\ s.visible = w.settings.visible
  BY <1>0, <1>1, BotSaved
<1> HIDE DEF s, r
<1>4. CASE s = w.settings
  <2>1. r = Verified(w, p, identity)
    BY <1>2, <1>4, Zenon
  <2>2. Within(w.settings.bot, identity)
    BY <1>1, <1>3, <1>4
  <2>3. Sound(r)
    BY <1>0, <2>1, <2>2, VerifiedSound DEF Sound
  <2>4. r.settings = w.settings /\ r.revision = w.revision /\ r.bot.revision = w.bot.revision + 1
    BY <1>0, <2>1, VerifiedFields
  <2>5. Takes(w, r)
    BY <1>0, <2>3, <2>4 DEF Takes, Leads
  <2> QED BY <2>5 DEF r
<1>5. CASE s # w.settings /\ SaveFails(s, io)
  <2>1. r = FailBot(w, p.source)
    BY <1>2, <1>5, Zenon
  <2>2. Takes(w, r)
    BY <2>1, FailKeeps
  <2> QED BY <2>2 DEF r
<1>6. CASE s # w.settings /\ ~SaveFails(s, io)
  <2>1. r = Verified(u, p, identity)
    BY <1>2, <1>6, Zenon
  <2>2. u \in Worlds /\ u.settings = s /\ u.revision = w.revision + 1 /\ u.key = w.key
        /\ u.bot = w.bot /\ u.verifier = w.verifier
    BY <1>0, <1>3, SavedFields
  <2> HIDE DEF u
  <2>3. ValidSettings(s) /\ AnswerInv(w.verifier)
    BY <1>6 DEF SaveFails, Sound
  <2>4. Sound(r)
    BY <1>1, <1>3, <2>1, <2>2, <2>3, VerifiedSound
  <2>5. r.settings = s /\ r.revision = w.revision + 1 /\ r.bot.revision = w.bot.revision + 1
    BY <2>1, <2>2, VerifiedFields
  <2>6. Takes(w, r)
    BY <1>0, <1>3, <2>4, <2>5 DEF Takes, Leads
  <2> QED BY <2>6 DEF r
<1> QED BY <1>4, <1>5, <1>6

(* The first write of a candidate disables DonBot, for the new endpoint,    *)
(* and leaves the key.                                                      *)
LEMMA CandidateWritten ==
  ASSUME NEW w \in Worlds, NEW p \in Pendings
  PROVE  LET s == CandidateWrites(w, p)[1].settings IN
         /\ s \in Settings /\ s.bot.base = p.base /\ s.bot.guild = None /\ s.bot.deliver = FALSE
         /\ s.bot.enabled = FALSE /\ s.bot.channel = None
         /\ s.client = w.settings.client /\ s.visible = w.settings.visible
         /\ s.dps = w.settings.dps /\ s.twitch = w.settings.twitch
         /\ CandidateWrites(w, p)[2].settings = s
         /\ CandidateWrites(w, p)[1].key = w.key /\ CandidateWrites(w, p)[2].key = p.base
<1> DEFINE d == Disable(w.settings.bot)
           b == [d EXCEPT !.base = p.base]
           s == [w.settings EXCEPT !.bot = b]
<1>0. w.settings \in Settings /\ w.settings.bot \in BotSettings /\ p.base \in Bases
  BY WorldFields DEF Pendings
<1>1. CandidateWrites(w, p)[1].settings = s /\ CandidateWrites(w, p)[2].settings = s
      /\ CandidateWrites(w, p)[1].key = w.key /\ CandidateWrites(w, p)[2].key = p.base
  BY DEF CandidateWrites
<1>2. d \in BotSettings /\ d.guild = None /\ d.deliver = FALSE /\ d.enabled = FALSE
      /\ d.channel = None
  BY <1>0, DisabledFields
<1> HIDE DEF d
<1>3. b \in BotSettings /\ b.guild = None /\ b.deliver = FALSE /\ b.enabled = FALSE
      /\ b.base = p.base /\ b.channel = None
  BY <1>0, <1>2 DEF BotSettings
<1> HIDE DEF b
<1>4. s \in Settings /\ s.bot = b /\ s.client = w.settings.client /\ s.visible = w.settings.visible
      /\ s.dps = w.settings.dps /\ s.twitch = w.settings.twitch
  BY <1>0, <1>3, BotSaved
<1> HIDE DEF s
<1> QED BY <1>1, <1>3, <1>4

(* A candidate is taken over in two writes; each of them leaves settings    *)
(* that agree with the key beside them.                                     *)
LEMMA AcceptCandidateKeeps ==
  ASSUME NEW w, Sound(w), NEW p \in Pendings, NEW identity \in Details, NEW io,
         w.bot.pending = NoPending, p.source = "Candidate"
  PROVE  Takes(w, AcceptCandidate(w, p, identity, io))
<1> DEFINE disk == CandidateWrites(w, p)
           s == disk[1].settings
           off == SaveSettings(w, s)
           half == [off EXCEPT !.key = disk[1].key]
           x1 == [off EXCEPT !.settings = disk[2].settings]
           x == [x1 EXCEPT !.key = disk[2].key]
           r == AcceptCandidate(w, p, identity, io)
<1>0. w \in Worlds /\ w.settings \in Settings /\ w.revision \in Nat /\ w.bot.revision \in Nat
      /\ w.key \in Bases \cup {None} /\ p.base \in Bases
  BY WorldFields DEF Sound, Pendings
<1>1. /\ s \in Settings /\ s.bot.base = p.base /\ s.bot.guild = None /\ s.bot.deliver = FALSE
      /\ s.client = w.settings.client /\ s.visible = w.settings.visible
      /\ disk[2].settings = s /\ disk[1].key = w.key /\ disk[2].key = p.base
  BY <1>0, CandidateWritten
<1>2. r = CASE SaveFails(s, io) -> FailBot(w, p.source)
        [] ~SaveFails(s, io) /\ "secret" \in io -> FailBot(half, p.source)
        [] OTHER -> Verified([off EXCEPT !.settings = disk[2].settings, !.key = disk[2].key],
                             p, identity)
  BY DEF AcceptCandidate
<1>3. [off EXCEPT !.settings = disk[2].settings, !.key = disk[2].key] = x
  OBVIOUS
<1> HIDE DEF s, disk, r
<1>4. off \in Worlds /\ off.settings = s /\ off.revision = w.revision + 1 /\ off.key = w.key
      /\ off.bot = w.bot /\ off.verifier = w.verifier
  BY <1>0, <1>1, SavedFields
<1> HIDE DEF off
<1>5. NoPending \notin Pendings
  BY DEF NoPending, Pendings
<1>6. CASE SaveFails(s, io)
  <2>1. r = FailBot(w, p.source)
    BY <1>2, <1>6, Zenon
  <2>2. Takes(w, r)
    BY <2>1, FailKeeps
  <2> QED BY <2>2 DEF r
<1>7. CASE ~SaveFails(s, io) /\ "secret" \in io
  <2>1. r = FailBot(half, p.source)
    BY <1>2, <1>7, Zenon
  <2>2. half \in Worlds /\ half.settings = s /\ half.revision = w.revision + 1 /\ half.key = w.key
        /\ half.bot = w.bot /\ half.verifier = w.verifier
    BY <1>0, <1>1, <1>4, KeyReplaced
  <2> HIDE DEF half
  <2>3. /\ ValidSettings(half.settings) /\ KeyInv(half.settings, half.key)
        /\ LookupInv(half.settings, half.key, half.bot) /\ AnswerInv(half.verifier)
    BY <1>1, <1>5, <1>7, <2>2 DEF SaveFails, KeyInv, LookupInv, Sound
  <2>4. p.source # "Refresh"
    OBVIOUS
  <2>5. Sound(r)
    BY <2>1, <2>2, <2>3, <2>4, FailSettles
  <2>6. r.settings = s /\ r.revision = w.revision + 1 /\ r.bot.revision = w.bot.revision + 1
    <3>1. /\ FailBot(half, p.source).settings = half.settings
          /\ FailBot(half, p.source).revision = half.revision
          /\ FailBot(half, p.source).bot.revision = half.bot.revision + 1
      BY <2>2, FailFields
    <3> QED BY <2>1, <2>2, <3>1
  <2>7. Takes(w, r)
    BY <1>0, <1>1, <2>5, <2>6 DEF Takes, Leads
  <2> QED BY <2>7 DEF r
<1>8. CASE ~SaveFails(s, io) /\ "secret" \notin io
  <2>1. r = Verified(x, p, identity)
    BY <1>2, <1>3, <1>8, Zenon
  <2>2. x1 \in Worlds /\ x1.settings = s /\ x1.revision = w.revision + 1
        /\ x1.bot = w.bot /\ x1.verifier = w.verifier
    BY <1>0, <1>1, <1>4, SettingsReplaced
  <2> HIDE DEF x1
  <2>3. x \in Worlds /\ x.settings = s /\ x.revision = w.revision + 1 /\ x.key = p.base
        /\ x.bot = w.bot /\ x.verifier = w.verifier
    BY <1>0, <1>1, <2>2, KeyReplaced
  <2> HIDE DEF x
  <2>4. ValidSettings(s) /\ AnswerInv(w.verifier) /\ Within(s.bot, identity)
    BY <1>1, <1>8 DEF SaveFails, Sound, Within
  <2>5. Sound(r)
    BY <1>1, <2>1, <2>3, <2>4, VerifiedSound
  <2>6. r.settings = s /\ r.revision = w.revision + 1 /\ r.bot.revision = w.bot.revision + 1
    BY <2>1, <2>3, VerifiedFields
  <2>7. Takes(w, r)
    BY <1>0, <1>1, <2>5, <2>6 DEF Takes, Leads
  <2> QED BY <2>7 DEF r
<1> QED BY <1>6, <1>7, <1>8

(* An answer of the worker touches nothing else.                            *)
LEMMA AnswerTaken ==
  ASSUME NEW w, Sound(w), NEW v \in Verifiers, AnswerInv(v)
  PROVE  Takes(w, [w EXCEPT !.verifier = v])
<1> DEFINE u == [w EXCEPT !.verifier = v]
<1>0. w \in Worlds /\ w.revision \in Nat /\ w.bot.revision \in Nat
  BY WorldFields DEF Sound
<1>1. u \in Worlds /\ u.verifier = v /\ u.settings = w.settings /\ u.key = w.key
      /\ u.revision = w.revision /\ u.bot = w.bot
  BY <1>0, VerifierReplaced
<1> HIDE DEF u
<1>2. Takes(w, u)
  BY <1>0, <1>1 DEF Takes, Leads, Sound
<1> QED BY <1>2 DEF u

(* A poll accepts an answer only for the request that is pending, from the  *)
(* endpoint that is still saved.                                            *)
LEMMA PollKeeps ==
  ASSUME NEW w, Sound(w), NEW io
  PROVE  Takes(w, PollVerification(w, io))
<1> DEFINE p == w.bot.pending
           d == Settled(w)
           i == w.verifier.identity
           accepted == IF p.source = "Candidate" THEN AcceptCandidate(d, p, i, io)
                       ELSE AcceptSaved(d, p, i, io)
           r == PollVerification(w, io)
<1>0. w \in Worlds /\ p \in Pendings \cup {NoPending}
  BY WorldFields DEF Sound
<1>1. Takes(w, d) /\ d.bot.pending = NoPending /\ d.settings = w.settings /\ d.key = w.key
  BY SettledKeeps
<1>2. r = IF ~w.verifier.answered THEN w
          ELSE IF w.verifier.id # p.id THEN [w EXCEPT !.verifier = NoRequest]
          ELSE IF ~w.verifier.ok \/ w.settings.bot.base # p.from THEN FailBot(d, p.source)
          ELSE accepted
  BY DEF PollVerification
<1> HIDE DEF d
<1>3. Sound(d)
  BY <1>1 DEF Takes, Leads
<1>4. ASSUME w.verifier.answered, w.verifier.id = p.id, w.verifier.ok PROVE Takes(w, accepted)
  <2>1. p \in Pendings
    BY <1>0, <1>4 DEF Sound, AnswerInv, NoPending
  <2>2. i \in Details
    BY <1>4 DEF Sound, AnswerInv, Details
  <2>3. CASE p.source = "Candidate"
    <3>1. accepted = AcceptCandidate(d, p, i, io)
      BY <2>3
    <3> HIDE DEF accepted, p, i
    <3> QED BY <1>1, <1>3, <2>1, <2>2, <2>3, <3>1, AcceptCandidateKeeps, TakesOn
  <2>4. CASE p.source # "Candidate"
    <3>1. accepted = AcceptSaved(d, p, i, io)
      BY <2>4
    <3>2. p.base = w.settings.bot.base /\ w.key = p.base
      BY <2>1, <2>4 DEF Sound, LookupInv
    <3> HIDE DEF accepted, p, i
    <3>3. p.base = d.settings.bot.base /\ d.key = p.base
      BY <1>1, <3>2
    <3>4. Takes(d, accepted)
      BY <1>1, <1>3, <2>1, <2>2, <3>1, <3>3, AcceptSavedKeeps
    <3> QED BY <1>1, <3>4, TakesOn
  <2> QED BY <2>3, <2>4
<1> HIDE DEF accepted, r
<1>5. Takes(w, FailBot(d, p.source))
  BY <1>1, <1>3, FailKeeps, TakesOn
<1>6. Takes(w, [w EXCEPT !.verifier = NoRequest])
  <2>1. NoRequest \in Verifiers /\ AnswerInv(NoRequest)
    BY DEF NoRequest, Verifiers, Details, AnswerInv
  <2> QED BY <2>1, AnswerTaken
<1>7. Takes(w, w)
  BY TakesItself
<1>8. Takes(w, r)
  BY <1>2, <1>4, <1>5, <1>6, <1>7
<1> QED BY <1>8 DEF r

------------------------------------------------------------------------------
(* Commands from the queue.                                                 *)

(* What a command may do to the world: a sound one, with the client id      *)
(* unchanged unless it saves one and no connection is there, and the        *)
(* visibility commanded.                                                    *)
CommandDone(w, c, io, v) ==
  /\ Leads(w, v)
  /\ v.settings.client # w.settings.client => ~twitch.busy /\ c.op = "SaveOrdinary"
  /\ v.settings.visible = IF c.op = "SetWindowVisible" /\ ~SaveFails(w.settings, io) THEN c.arg
                          ELSE w.settings.visible

(* Every command but the ordinary ones leaves both alone.                   *)
LEMMA TakenDone ==
  ASSUME NEW w, NEW c, NEW io, NEW v, Takes(w, v), c.op # "SetWindowVisible"
  PROVE  CommandDone(w, c, io, v)
BY DEF CommandDone, Takes

(* What an ordinary save leaves.                                            *)
LEMMA OrdinarySaved ==
  ASSUME NEW w, Sound(w), NEW s \in Settings, NEW io, s.bot = w.settings.bot
  PROVE  /\ SaveFails(s, io) => SaveOrdinary(w, s, io) = w
         /\ ~SaveFails(s, io) => SaveOrdinary(w, s, io).settings = s
<1>1. w \in Worlds
  BY DEF Sound
<1> QED BY <1>1, SavedFields DEF SaveOrdinary

(* The settings of a sound world, with their switches.                      *)
LEMMA SettingsFields ==
  ASSUME NEW w, Sound(w)
  PROVE  w.settings \in Settings /\ w.settings.dps \in BOOLEAN /\ w.settings.twitch \in BOOLEAN
BY DEF Sound, Worlds, Settings

(* An ordinary draft.                                                       *)
LEMMA MergeDone ==
  ASSUME NEW w, Sound(w), NEW c, NEW io, c.op = "SaveOrdinary", c.arg \in Clients
  PROVE  CommandDone(w, c, io, Merge(w, c, io))
<1> DEFINE s == [w.settings EXCEPT !.client = c.arg]
           v == Merge(w, c, io)
<1>1. s \in Settings /\ s.bot = w.settings.bot /\ s.visible = w.settings.visible
  BY SettingsFields DEF Settings
<1>2. v = IF c.arg # w.settings.client /\ twitch.busy THEN w ELSE SaveOrdinary(w, s, io)
  BY DEF Merge
<1>3. s.client = c.arg
  BY SettingsFields DEF Settings
<1> HIDE DEF s, v
<1>4. CASE c.arg # w.settings.client /\ twitch.busy
  <2>1. v = w
    BY <1>2, <1>4
  <2>2. Takes(w, v)
    BY <2>1, TakesItself
  <2> QED BY <2>2, TakenDone DEF v
<1>5. CASE ~(c.arg # w.settings.client /\ twitch.busy)
  <2>1. v = SaveOrdinary(w, s, io)
    BY <1>2, <1>5
  <2>2. Leads(w, v)
    BY <1>1, <2>1, OrdinaryKeeps
  <2>3. v = w \/ v.settings = s
    BY <1>1, <2>1, OrdinarySaved
  <2>4. CommandDone(w, c, io, v)
    BY <1>1, <1>3, <1>5, <2>2, <2>3 DEF CommandDone
  <2> QED BY <2>4 DEF v
<1> QED BY <1>4, <1>5

(* A visibility command.                                                    *)
LEMMA VisibleDone ==
  ASSUME NEW w, Sound(w), NEW c, NEW io, c.op = "SetWindowVisible", c.arg \in {"on", "off"}
  PROVE  CommandDone(w, c, io, SaveOrdinary(w, [w.settings EXCEPT !.visible = c.arg], io))
<1> DEFINE s == [w.settings EXCEPT !.visible = c.arg]
           v == SaveOrdinary(w, s, io)
<1>1. s \in Settings /\ s.bot = w.settings.bot /\ s.visible = c.arg /\ s.client = w.settings.client
      /\ s.twitch = w.settings.twitch /\ s.dps = w.settings.dps
  BY SettingsFields DEF Settings
<1> HIDE DEF s
<1>2. Leads(w, v)
  BY <1>1, OrdinaryKeeps
<1>3. SaveFails(s, io) <=> SaveFails(w.settings, io)
  BY <1>1 DEF SaveFails, ValidSettings
<1>4. (SaveFails(s, io) => v = w) /\ (~SaveFails(s, io) => v.settings = s)
  BY <1>1, OrdinarySaved
<1> HIDE DEF v
<1>5. CommandDone(w, c, io, v)
  BY <1>1, <1>2, <1>3, <1>4 DEF CommandDone
<1> QED BY <1>5 DEF v, s

(* The two switches.                                                        *)
LEMMA SwitchDone ==
  ASSUME NEW w, Sound(w), NEW c, NEW io, c.op # "SetWindowVisible", NEW on \in BOOLEAN, NEW s,
         \/ s = [w.settings EXCEPT !.dps = on, !.twitch = on /\ @]
         \/ s = [w.settings EXCEPT !.twitch = on]
  PROVE  CommandDone(w, c, io, SaveOrdinary(w, s, io))
<1> DEFINE v == SaveOrdinary(w, s, io)
<1>1. s \in Settings /\ s.bot = w.settings.bot /\ s.visible = w.settings.visible
      /\ s.client = w.settings.client
  <2>1. CASE s = [w.settings EXCEPT !.twitch = on]
    BY <2>1, SettingsFields DEF Settings
  <2>2. CASE s = [w.settings EXCEPT !.dps = on, !.twitch = on /\ @]
    <3> DEFINE a == [w.settings EXCEPT !.dps = on]
    <3>1. a \in Settings /\ a.bot = w.settings.bot /\ a.visible = w.settings.visible
          /\ a.client = w.settings.client /\ a.twitch = w.settings.twitch
      BY SettingsFields DEF Settings
    <3>2. PICK f \in BOOLEAN : f = (on /\ w.settings.twitch)
      BY SettingsFields, Zenon
    <3>3. s = [a EXCEPT !.twitch = f]
      BY <2>2, <3>2
    <3> HIDE DEF a
    <3> QED BY <3>1, <3>3 DEF Settings
  <2> QED BY <2>1, <2>2
<1>2. Leads(w, v)
  BY <1>1, OrdinaryKeeps
<1>3. v = w \/ v.settings = s
  BY <1>1, OrdinarySaved
<1> HIDE DEF v
<1>4. CommandDone(w, c, io, v)
  BY <1>1, <1>2, <1>3 DEF CommandDone
<1> QED BY <1>4 DEF v

(* Every command does what it may.                                          *)
LEMMA ExecuteDone ==
  ASSUME NEW w, Sound(w), NEW c \in Entries, NEW io
  PROVE  CommandDone(w, c, io, Execute(w, c, io))
<1> DEFINE v == Execute(w, c, io)
<1>0. /\ c.op = "SaveOrdinary" => c.arg \in Clients
      /\ c.op = "SetWindowVisible" => c.arg \in {"on", "off"}
      /\ c.op = "Verify" => c.arg \in Bases
  BY OptionsConstants DEF Entries
<1>1. PICK on \in BOOLEAN : on = (c.arg = "on")
  BY Zenon
<1>2. CASE c.op = "SaveOrdinary"
  <2>1. v = Merge(w, c, io)
    BY <1>2, Zenon DEF Execute
  <2> QED BY <1>0, <1>2, <2>1, MergeDone
<1>3. CASE c.op = "SetWindowVisible"
  <2>1. v = SaveOrdinary(w, [w.settings EXCEPT !.visible = c.arg], io)
    BY <1>3, Zenon DEF Execute
  <2>2. CommandDone(w, c, io, SaveOrdinary(w, [w.settings EXCEPT !.visible = c.arg], io))
    BY <1>0, <1>3, VisibleDone
  <2> QED BY <2>1, <2>2
<1>4. CASE c.op = "SetDpsReport"
  <2>1. v = SaveOrdinary(w, [w.settings EXCEPT !.dps = on, !.twitch = on /\ @], io)
    BY <1>1, <1>4, Zenon DEF Execute
  <2>2. c.op # "SetWindowVisible"
    BY <1>4
  <2> HIDE DEF v
  <2>3. CommandDone(w, c, io, v)
    BY <2>1, <2>2, SwitchDone, Zenon
  <2> QED BY <2>3 DEF v
<1>5. CASE c.op = "SetTwitch"
  <2>1. v = w \/ v = SaveOrdinary(w, [w.settings EXCEPT !.twitch = on], io)
    BY <1>1, <1>5, Zenon DEF Execute
  <2>2. c.op # "SetWindowVisible"
    BY <1>5
  <2> HIDE DEF v
  <2>3. CommandDone(w, c, io, w)
    BY <2>2, TakesItself, TakenDone
  <2>4. CommandDone(w, c, io, v)
    BY <2>1, <2>2, <2>3, SwitchDone, Zenon
  <2> QED BY <2>4 DEF v
<1>6. CASE c.op \notin {"SaveOrdinary", "SetWindowVisible", "SetDpsReport", "SetTwitch"}
  <2>1. CASE c.op = "Verify"
    <3>1. v = BeginVerification(w, c.arg, io)
      BY <2>1, Zenon DEF Execute
    <3> QED BY <1>0, <2>1, <3>1, BeginVerificationKeeps, TakenDone
  <2>2. CASE c.op = "Refresh"
    <3>1. v = BeginSaved(w, "Refresh", io)
      BY <2>2, Zenon DEF Execute
    <3>2. Takes(w, BeginSaved(w, "Refresh", io))
      BY BeginSavedKeeps
    <3> QED BY <2>2, <3>1, <3>2, TakenDone
  <2>3. CASE c.op = "SelectGuild"
    <3>1. v = SelectGuild(w, c.arg, io)
      BY <2>3, Zenon DEF Execute
    <3> QED BY <2>3, <3>1, SelectGuildKeeps, TakenDone
  <2>4. CASE c.op = "SetEnabled"
    <3>1. v = SetEnabled(w, on, io)
      BY <1>1, <2>4, Zenon DEF Execute
    <3> QED BY <2>4, <3>1, SetEnabledKeeps, TakenDone
  <2>5. CASE c.op = "SetDelivery"
    <3>1. v = SetDelivery(w, on, io)
      BY <1>1, <2>5, Zenon DEF Execute
    <3> QED BY <2>5, <3>1, SetDeliveryKeeps, TakenDone
  <2>6. CASE c.op = "SelectChannel"
    <3>1. v = SelectChannel(w, c.arg, io)
      BY <2>6, Zenon DEF Execute
    <3> QED BY <2>6, <3>1, SelectChannelKeeps, TakenDone
  <2>7. CASE c.op = "Disconnect"
    <3>1. v = DisconnectBot(w, io)
      BY <2>7, Zenon DEF Execute
    <3> QED BY <2>7, <3>1, DisconnectKeeps, TakenDone
  <2>8. CASE c.op \notin {"Verify", "Refresh", "SelectGuild", "SetEnabled", "SetDelivery",
                         "SelectChannel", "Disconnect"}
    <3>0. /\ c.op # "SaveOrdinary" /\ c.op # "SetWindowVisible" /\ c.op # "SetDpsReport"
          /\ c.op # "SetTwitch" /\ c.op # "Verify" /\ c.op # "Refresh"
          /\ c.op # "SelectGuild" /\ c.op # "SetEnabled" /\ c.op # "SetDelivery"
          /\ c.op # "SelectChannel" /\ c.op # "Disconnect"
      BY <1>6, <2>8
    <3>1. v = w
      BY <3>0, Zenon DEF Execute
    <3>2. c.op # "SetWindowVisible"
      BY <1>6
    <3> HIDE DEF v
    <3>3. Takes(w, v)
      BY <3>1, TakesItself
    <3>4. CommandDone(w, c, io, v)
      BY <3>2, <3>3, TakenDone
    <3> QED BY <3>4 DEF v
  <2> QED BY <2>1, <2>2, <2>3, <2>4, <2>5, <2>6, <2>7, <2>8
<1> QED BY <1>2, <1>3, <1>4, <1>5, <1>6

------------------------------------------------------------------------------
(* Queues, and what is shown.                                               *)

(* A queue stays in order as time goes on.                                  *)
LEMMA QueueLater ==
  ASSUME NEW q, NEW S, NEW n \in Nat, NEW m \in Nat, m >= n, QueueInv(q, S, n)
  PROVE  QueueInv(q, S, m)
<1>1. q.queue \in Seq(S)
  BY DEF QueueInv
<1> QED BY <1>1 DEF QueueInv

(* A record with the fields of a queue.                                     *)
QueueShape(q) == q = [queue |-> q.queue, accepting |-> q.accepting, taken |-> q.taken]

(* Replacing what is queued.                                                *)
LEMMA QueueReplaced ==
  ASSUME NEW q, QueueShape(q), NEW x
  PROVE  LET r == [q EXCEPT !.queue = x] IN
         /\ QueueShape(r) /\ r.queue = x
         /\ r.accepting = q.accepting /\ r.taken = q.taken
<1> DEFINE a == q.queue
           b == q.accepting
           c == q.taken
<1>1. q = [queue |-> a, accepting |-> b, taken |-> c]
  BY DEF QueueShape
<1> HIDE DEF a, b, c
<1>2. [q EXCEPT !.queue = x] = [queue |-> x, accepting |-> b, taken |-> c]
  BY <1>1
<1>3. q.queue = a /\ q.accepting = b /\ q.taken = c
  BY <1>1
<1> QED BY <1>2, <1>3 DEF QueueShape

(* Closing the door.                                                        *)
LEMMA AcceptingReplaced ==
  ASSUME NEW q, QueueShape(q), NEW x
  PROVE  LET r == [q EXCEPT !.accepting = x] IN
         /\ QueueShape(r) /\ r.accepting = x
         /\ r.queue = q.queue /\ r.taken = q.taken
<1> DEFINE a == q.queue
           b == q.accepting
           c == q.taken
<1>1. q = [queue |-> a, accepting |-> b, taken |-> c]
  BY DEF QueueShape
<1> HIDE DEF a, b, c
<1>2. [q EXCEPT !.accepting = x] = [queue |-> a, accepting |-> x, taken |-> c]
  BY <1>1
<1>3. q.queue = a /\ q.accepting = b /\ q.taken = c
  BY <1>1
<1> QED BY <1>2, <1>3 DEF QueueShape

(* Recording what was taken.                                                *)
LEMMA TakenReplaced ==
  ASSUME NEW q, QueueShape(q), NEW x
  PROVE  LET r == [q EXCEPT !.taken = x] IN
         /\ QueueShape(r) /\ r.taken = x
         /\ r.queue = q.queue /\ r.accepting = q.accepting
<1> DEFINE a == q.queue
           b == q.accepting
           c == q.taken
<1>1. q = [queue |-> a, accepting |-> b, taken |-> c]
  BY DEF QueueShape
<1> HIDE DEF a, b, c
<1>2. [q EXCEPT !.taken = x] = [queue |-> a, accepting |-> b, taken |-> x]
  BY <1>1
<1>3. q.queue = a /\ q.accepting = b /\ q.taken = c
  BY <1>1
<1> QED BY <1>2, <1>3 DEF QueueShape

(* An empty queue is in order.                                              *)
LEMMA QueueEmpty ==
  ASSUME NEW q, QueueShape(q), q.queue = <<>>, q.accepting \in BOOLEAN, NEW S, NEW n \in Nat,
         q.taken \in 0 .. n
  PROVE  QueueInv(q, S, n)
<1>1. <<>> \in Seq(S) /\ Len(<<>>) = 0 /\ \A i \in 1 .. 0 : FALSE
  OBVIOUS
<1> QED BY <1>1, OptionsConstants DEF QueueInv, QueueShape

(* So is a new one.                                                         *)
LEMMA QueueNew ==
  ASSUME NEW S, NEW n \in Nat
  PROVE  QueueInv(NewQueue, S, n) /\ NewQueue.accepting
<1>1. PICK f : f = TRUE
  OBVIOUS
<1> DEFINE q == [queue |-> <<>>, accepting |-> f, taken |-> 0]
<1>2. NewQueue = q
  BY <1>1 DEF NewQueue
<1>3. QueueShape(q) /\ q.queue = <<>> /\ q.accepting = f /\ q.taken = 0 /\ 0 \in 0 .. n
  BY DEF QueueShape
<1> HIDE DEF q
<1> QED BY <1>1, <1>2, <1>3, QueueEmpty

(* And one that is closed, which forgets what it held.                      *)
LEMMA QueueClosed ==
  ASSUME NEW q, NEW S, NEW n \in Nat, QueueInv(q, S, n)
  PROVE  LET r == [q EXCEPT !.queue = <<>>, !.accepting = FALSE]
         IN  QueueInv(r, S, n) /\ ~r.accepting
<1>1. PICK f : f = FALSE
  OBVIOUS
<1> DEFINE a == [q EXCEPT !.queue = <<>>]
           r == [a EXCEPT !.accepting = f]
<1>2. QueueShape(q) /\ q.taken \in 0 .. n
  BY DEF QueueInv, QueueShape
<1>3. QueueShape(a) /\ a.queue = <<>> /\ a.taken = q.taken
  BY <1>2, QueueReplaced
<1>4. [q EXCEPT !.queue = <<>>, !.accepting = FALSE] = r
  BY <1>1
<1> HIDE DEF a
<1>5. QueueShape(r) /\ r.queue = <<>> /\ r.taken = q.taken /\ r.accepting = f
  BY <1>3, AcceptingReplaced
<1> HIDE DEF r
<1>6. QueueInv(r, S, n)
  BY <1>1, <1>2, <1>5, QueueEmpty
<1> QED BY <1>1, <1>4, <1>5, <1>6

(* A submission comes after all others.                                     *)
LEMMA QueueAppended ==
  ASSUME NEW q, NEW S, NEW n \in Nat, QueueInv(q, S, n), q.accepting, Len(q.queue) < Capacity,
         NEW e \in S, e.ticket = n + 1
  PROVE  LET r == [q EXCEPT !.queue = Append(@, e)]
         IN  QueueInv(r, S, n + 1) /\ r.accepting = q.accepting /\ Len(r.queue) = Len(q.queue) + 1
<1> DEFINE s == q.queue
           t == Append(s, e)
           r == [q EXCEPT !.queue = t]
<1>1. r = [queue |-> r.queue, accepting |-> r.accepting, taken |-> r.taken]
      /\ r.queue = t /\ r.accepting = q.accepting /\ r.taken = q.taken
  <2> HIDE DEF t
  <2>1. QueueShape(q)
    BY DEF QueueInv, QueueShape
  <2>2. QueueShape(r) /\ r.queue = t /\ r.accepting = q.accepting /\ r.taken = q.taken
    BY <2>1, QueueReplaced, Zenon
  <2> QED BY <2>2 DEF QueueShape
<1>2. s \in Seq(S) /\ Len(s) \in Nat
  BY DEF QueueInv
<1>3. t \in Seq(S) /\ Len(t) = Len(s) + 1 /\ (\A i \in 1 .. Len(s) : t[i] = s[i])
      /\ t[Len(s) + 1] = e
  BY <1>2
<1>4. \A i \in 1 .. Len(t) : i \in 1 .. Len(s) \/ i = Len(s) + 1
  BY <1>2, <1>3
<1>5. /\ q.taken \in 0 .. n /\ \A i \in 1 .. Len(s) : s[i].ticket \in q.taken + 1 .. n
      /\ \A i, j \in 1 .. Len(s) : i < j => s[i].ticket < s[j].ticket
  BY DEF QueueInv
<1> HIDE DEF t, s, r
<1>6. \A i \in 1 .. Len(t) : t[i].ticket \in q.taken + 1 .. n + 1
  <2> TAKE i \in 1 .. Len(t)
  <2>1. CASE i \in 1 .. Len(s)
    <3>1. t[i] = s[i] /\ s[i].ticket \in q.taken + 1 .. n
      BY <1>3, <1>5, <2>1
    <3> QED BY <1>5, <3>1
  <2>2. CASE i = Len(s) + 1
    <3>1. t[i].ticket = n + 1
      BY <1>3, <2>2
    <3> QED BY <1>5, <3>1
  <2> QED BY <1>4, <2>1, <2>2
<1>7. \A i, j \in 1 .. Len(t) : i < j => t[i].ticket < t[j].ticket
  <2> SUFFICES ASSUME NEW i \in 1 .. Len(t), NEW j \in 1 .. Len(t), i < j
               PROVE  t[i].ticket < t[j].ticket
    OBVIOUS
  <2>1. i \in 1 .. Len(s)
    BY <1>2, <1>3
  <2>2. t[i] = s[i] /\ s[i].ticket \in q.taken + 1 .. n
    BY <1>3, <1>5, <2>1
  <2>3. CASE j \in 1 .. Len(s)
    BY <1>3, <1>5, <2>1, <2>3
  <2>4. CASE j = Len(s) + 1
    <3>1. t[j].ticket = n + 1
      BY <1>3, <2>4
    <3> QED BY <1>5, <2>2, <3>1
  <2> QED BY <1>4, <2>3, <2>4
<1>8. Len(s) < Capacity /\ Capacity \in Nat /\ q.accepting \in BOOLEAN /\ q.accepting
  BY OptionsConstants DEF QueueInv, s
<1>9. QueueInv(r, S, n + 1)
  BY <1>1, <1>2, <1>3, <1>5, <1>6, <1>7, <1>8 DEF QueueInv
<1> QED BY <1>1, <1>3, <1>9 DEF r, t, s

(* The oldest command is taken; all others come after it.                   *)
LEMMA QueuePopped ==
  ASSUME NEW q, NEW S, NEW n \in Nat, QueueInv(q, S, n), Len(q.queue) > 0
  PROVE  LET r == [q EXCEPT !.queue = Tail(@), !.taken = Head(q.queue).ticket]
         IN  /\ QueueInv(r, S, n) /\ r.accepting = q.accepting /\ Len(r.queue) = Len(q.queue) - 1
             /\ Head(q.queue) \in S
<1> DEFINE s == q.queue
           t == Tail(s)
           h == Head(s).ticket
           r == [q EXCEPT !.queue = t, !.taken = h]
<1>1. r = [queue |-> r.queue, accepting |-> r.accepting, taken |-> r.taken]
      /\ r.queue = t /\ r.accepting = q.accepting /\ r.taken = h
  <2> HIDE DEF t, h
  <2> DEFINE a == [q EXCEPT !.queue = t]
  <2>1. a = [queue |-> a.queue, accepting |-> a.accepting, taken |-> a.taken]
        /\ a.queue = t /\ a.accepting = q.accepting
    BY DEF QueueInv
  <2>2. r = [a EXCEPT !.taken = h]
    OBVIOUS
  <2> HIDE DEF a, r
  <2> QED BY <2>1, <2>2
<1>2. s \in Seq(S) /\ Len(s) \in Nat /\ Len(s) > 0 /\ Len(s) <= Capacity
  BY DEF QueueInv
<1>3. t \in Seq(S) /\ Len(t) = Len(s) - 1 /\ (\A i \in 1 .. Len(t) : t[i] = s[i + 1])
      /\ Head(s) = s[1] /\ Head(s) \in S
  BY <1>2
<1>4. \A i \in 1 .. Len(t) : i \in Nat /\ i + 1 \in 1 .. Len(s)
  BY <1>2, <1>3
<1>5. /\ q.taken \in 0 .. n /\ \A i \in 1 .. Len(s) : s[i].ticket \in q.taken + 1 .. n
      /\ \A i, j \in 1 .. Len(s) : i < j => s[i].ticket < s[j].ticket
  BY DEF QueueInv
<1>6. h = s[1].ticket /\ 1 \in 1 .. Len(s)
  BY <1>2, <1>3
<1> HIDE DEF t, s, r, h
<1>7. h \in 0 .. n
  BY <1>5, <1>6
<1>8. \A i \in 1 .. Len(t) : t[i].ticket \in h + 1 .. n
  <2> TAKE i \in 1 .. Len(t)
  <2>1. i + 1 \in 1 .. Len(s) /\ 1 < i + 1 /\ t[i] = s[i + 1]
    BY <1>3, <1>4
  <2>2. s[i + 1].ticket \in q.taken + 1 .. n /\ h < s[i + 1].ticket
    BY <1>5, <1>6, <2>1
  <2> QED BY <1>5, <1>7, <2>1, <2>2
<1>9. \A i, j \in 1 .. Len(t) : i < j => t[i].ticket < t[j].ticket
  <2> SUFFICES ASSUME NEW i \in 1 .. Len(t), NEW j \in 1 .. Len(t), i < j
               PROVE  t[i].ticket < t[j].ticket
    OBVIOUS
  <2>1. i + 1 \in 1 .. Len(s) /\ j + 1 \in 1 .. Len(s) /\ i + 1 < j + 1
    BY <1>4
  <2>2. s[i + 1].ticket < s[j + 1].ticket
    BY <1>5, <2>1
  <2> QED BY <1>3, <2>2
<1>10. q.accepting \in BOOLEAN /\ q.accepting
  BY <1>2 DEF QueueInv, s
<1>11. Capacity \in Nat /\ Len(t) <= Capacity
  BY <1>2, <1>3, OptionsConstants
<1>12. QueueInv(r, S, n)
  BY <1>1, <1>3, <1>7, <1>8, <1>9, <1>10, <1>11 DEF QueueInv
<1> QED BY <1>1, <1>3, <1>12 DEF r, t, s, h

(* Configure makes the world what it is given.                              *)
LEMMA Configured ==
  ASSUME NEW v \in Worlds, Configure(v)
  PROVE  Config' = v
BY DEF Configure, Config, Worlds

(* What was true at its revisions stays so.                                 *)
LEMMA FollowsOn ==
  ASSUME NEW w, NEW v, Sound(w), Leads(w, v), NEW r, NEW b, NEW route, Follows(w, r, b, route)
  PROVE  Follows(v, r, b, route)
<1>1. w.revision \in Nat /\ w.bot.revision \in Nat /\ v.revision \in Nat /\ v.bot.revision \in Nat
  BY WorldFields DEF Sound, Leads
<1> QED BY <1>1 DEF Follows, Leads

(* A snapshot is true when it is taken.                                     *)
LEMMA SnapshotFollows ==
  ASSUME NEW w, Sound(w), NEW aggregate
  PROVE  LET s == Snapshot(w, aggregate) IN
         /\ Follows(w, s.revision, s.bot, s.route)
         /\ s = [visible |-> s.visible, revision |-> s.revision, bot |-> s.bot, route |-> s.route,
                 aggregate |-> s.aggregate]
         /\ s.visible \in {"on", "off"}
<1>1. w.revision \in Nat /\ w.bot.revision \in Nat /\ w.settings.visible \in {"on", "off"}
  BY WorldFields DEF Sound, Settings
<1> QED BY <1>1 DEF Follows, Snapshot, Route

(* So publication shows what is.                                            *)
LEMMA Published ==
  ASSUME Sound(Config)', Publish
  PROVE  ShownSeen' /\ ShownInv'
<1> DEFINE w == [settings |-> settings', revision |-> revision', bot |-> bot']
           a == IF slot' # NoCommand THEN "Queued" ELSE agg'.state
<1>1. Snapshot(w, a) = Snapshot(Config', a)
  BY DEF Snapshot, Config
<1>2. shown' = Snapshot(Config', a)
  BY <1>1 DEF Publish
<1> HIDE DEF a, w
<1>3. Sound(Config')
  BY DEF Config
<1>4. Follows(Config', shown'.revision, shown'.bot, shown'.route)
  BY <1>2, <1>3, SnapshotFollows
<1>5. shown' = [visible |-> shown'.visible, revision |-> shown'.revision, bot |-> shown'.bot,
              route |-> shown'.route, aggregate |-> shown'.aggregate]
      /\ shown'.visible \in {"on", "off"}
  BY <1>2, <1>3, SnapshotFollows
<1> QED BY <1>4, <1>5 DEF ShownSeen, ShownInv

------------------------------------------------------------------------------
(* The interface.                                                           *)

(* Each part of the invariant is kept while its variables are.              *)
LEMMA PartsRest ==
  ASSUME OptionsInv
  PROVE  /\ UNCHANGED configVars => Config' = Config /\ Sound(Config)'
         /\ UNCHANGED <<configVars, shown>> => ShownSeen'
         /\ UNCHANGED shown => ShownInv'
         /\ UNCHANGED <<configVars, slot>> => SlotSeen'
         /\ UNCHANGED slot => SlotInv'
         /\ UNCHANGED <<agg, courier, delivered>> => AggInv(agg, courier, delivered)'
         /\ UNCHANGED <<tick, options, actions>> => TickInv'
         /\ UNCHANGED <<events, closing, options, actions>> => QueuesInv'
         /\ UNCHANGED <<configVars, applied, tick>> => AppliedInv'
         /\ UNCHANGED <<configVars, applied, twitch>> => TwitchInv'
         /\ UNCHANGED <<configVars, upload, tick>> => UploadInv'
         /\ UNCHANGED <<configVars, visible>> => VisibleInv'
<1>1. UNCHANGED configVars => Config' = Config /\ Sound(Config)'
  BY DEF OptionsInv, configVars, Config
<1>2. UNCHANGED <<configVars, shown>> => ShownSeen'
  BY <1>1 DEF OptionsInv, ShownSeen
<1>3. UNCHANGED shown => ShownInv'
  BY DEF OptionsInv, ShownInv
<1>4. UNCHANGED <<configVars, slot>> => SlotSeen'
  BY <1>1 DEF OptionsInv, SlotSeen
<1>5. UNCHANGED slot => SlotInv'
  BY DEF OptionsInv, SlotInv
<1>6. UNCHANGED <<agg, courier, delivered>> => AggInv(agg, courier, delivered)'
  BY DEF OptionsInv
<1>7. UNCHANGED <<tick, options, actions>> => TickInv'
  BY DEF OptionsInv, TickInv
<1>8. UNCHANGED <<events, closing, options, actions>> => QueuesInv'
  BY DEF OptionsInv, QueuesInv
<1>9. UNCHANGED <<configVars, applied, tick>> => AppliedInv'
  BY DEF OptionsInv, AppliedInv, configVars
<1>10. UNCHANGED <<configVars, applied, twitch>> => TwitchInv'
  BY DEF OptionsInv, TwitchInv, configVars
<1>11. UNCHANGED <<configVars, upload, tick>> => UploadInv'
  BY DEF OptionsInv, UploadInv, configVars
<1>12. UNCHANGED <<configVars, visible>> => VisibleInv'
  BY DEF OptionsInv, VisibleInv, configVars
<1> QED BY <1>1, <1>2, <1>3, <1>4, <1>5, <1>6, <1>7, <1>8, <1>9, <1>10, <1>11, <1>12

(* The interface submits a command.                                         *)
LEMMA SubmitOptionKeeps ==
  ASSUME OptionsInv, SubmitOption
  PROVE  OptionsInv'
<1>1. UNCHANGED <<configVars, shown, slot, agg, courier, delivered, actions, tick, closing, applied,
                  twitch, upload, visible>>
  BY DEF SubmitOption, UIFrame, aggVars
<1>2. /\ Sound(Config)' /\ ShownSeen' /\ ShownInv' /\ SlotSeen' /\ SlotInv' /\ AppliedInv'
      /\ AggInv(agg, courier, delivered)'
      /\ TwitchInv' /\ UploadInv' /\ VisibleInv'
  BY <1>1, PartsRest
<1>3. events \in Nat /\ events' = events + 1
  BY DEF OptionsInv, QueuesInv, SubmitOption, Event
<1>4. PICK c \in Commands :
        options' = [options EXCEPT !.queue =
                      Append(@, [op |-> c[1], arg |-> c[2], seen |-> shown.visible,
                         ticket |-> events'])]
  BY DEF SubmitOption
<1> DEFINE e == [op |-> c[1], arg |-> c[2], seen |-> shown.visible, ticket |-> events']
<1>5. e \in Entries /\ e.ticket = events + 1
  BY <1>3 DEF Entries, OptionsInv, ShownInv
<1>6. QueueInv(options, Entries, events) /\ options.accepting /\ Len(options.queue) < Capacity
  BY DEF SubmitOption, OptionsInv, QueuesInv
<1> HIDE DEF e
<1>7. options' = [options EXCEPT !.queue = Append(@, e)]
  BY <1>4 DEF e
<1>8. QueueInv(options', Entries, events + 1) /\ options'.accepting = options.accepting
      /\ Len(options'.queue) = Len(options.queue) + 1
  BY <1>3, <1>5, <1>6, <1>7, QueueAppended
<1>9. QueueInv(actions, Tickets, events + 1)
  BY <1>3, QueueLater DEF OptionsInv, QueuesInv
<1>10. QueuesInv'
  BY <1>1, <1>3, <1>8, <1>9 DEF OptionsInv, QueuesInv
<1>11. TickInv'
  BY <1>1, <1>6, <1>8 DEF OptionsInv, TickInv, QueueInv
<1> QED BY <1>2, <1>10, <1>11 DEF OptionsInv

(* It submits an action on a row.                                           *)
LEMMA SubmitActionKeeps ==
  ASSUME OptionsInv, SubmitAction
  PROVE  OptionsInv'
<1>1. UNCHANGED <<configVars, shown, slot, agg, courier, delivered, options, tick, closing, applied,
                  twitch, upload, visible>>
  BY DEF SubmitAction, UIFrame, aggVars
<1>2. /\ Sound(Config)' /\ ShownSeen' /\ ShownInv' /\ SlotSeen' /\ SlotInv' /\ AppliedInv'
      /\ AggInv(agg, courier, delivered)'
      /\ TwitchInv' /\ UploadInv' /\ VisibleInv'
  BY <1>1, PartsRest
<1>3. events \in Nat /\ events' = events + 1
  BY DEF OptionsInv, QueuesInv, SubmitAction, Event
<1> DEFINE e == [ticket |-> events']
<1>4. actions' = [actions EXCEPT !.queue = Append(@, e)]
  BY DEF SubmitAction
<1>5. e \in Tickets /\ e.ticket = events + 1
  BY <1>3 DEF Tickets
<1>6. QueueInv(actions, Tickets, events) /\ actions.accepting /\ Len(actions.queue) < Capacity
  BY DEF SubmitAction, OptionsInv, QueuesInv
<1> HIDE DEF e
<1>8. QueueInv(actions', Tickets, events + 1) /\ actions'.accepting = actions.accepting
      /\ Len(actions'.queue) = Len(actions.queue) + 1
  BY <1>3, <1>4, <1>5, <1>6, QueueAppended
<1>9. QueueInv(options, Entries, events + 1)
  BY <1>3, QueueLater DEF OptionsInv, QueuesInv
<1>10. QueuesInv'
  BY <1>1, <1>3, <1>8, <1>9 DEF OptionsInv, QueuesInv
<1>11. TickInv'
  BY <1>1, <1>6, <1>8 DEF OptionsInv, TickInv, QueueInv
<1> QED BY <1>2, <1>10, <1>11 DEF OptionsInv

(* It leaves an aggregate, with the revisions and the route of the snapshot *)
(* it works from.                                                           *)
LEMMA SubmitAggregateKeeps ==
  ASSUME OptionsInv, SubmitAggregate
  PROVE  OptionsInv'
<1>1. UNCHANGED <<configVars, agg, courier, delivered, options, actions, tick, closing, applied,
                  twitch, upload, visible>>
  BY DEF SubmitAggregate, UIFrame
<1>2. /\ Sound(Config)' /\ AppliedInv' /\ AggInv(agg, courier, delivered)'
      /\ TwitchInv' /\ UploadInv' /\ VisibleInv' /\ TickInv' /\ Config' = Config
  BY <1>1, PartsRest
<1>3. slot' = [revision |-> shown.revision, bot |-> shown.bot, shown |-> shown.route]
  BY DEF SubmitAggregate
<1>4. SlotInv' /\ SlotSeen'
  BY <1>2, <1>3 DEF OptionsInv, ShownSeen, SlotInv, SlotSeen
<1>5. shown' = [shown EXCEPT !.aggregate = "Queued"]
  BY DEF SubmitAggregate
<1>6. ShownInv' /\ shown'.revision = shown.revision /\ shown'.bot = shown.bot
      /\ shown'.route = shown.route
  <2> DEFINE a == shown.visible
             b == shown.revision
             c == shown.bot
             d == shown.route
             g == shown.aggregate
  <2>1. shown = [visible |-> a, revision |-> b, bot |-> c, route |-> d, aggregate |-> g]
        /\ a \in {"on", "off"}
    BY DEF OptionsInv, ShownInv
  <2> HIDE DEF a, b, c, d, g
  <2>2. shown' = [visible |-> a, revision |-> b, bot |-> c, route |-> d, aggregate |-> "Queued"]
    BY <1>5, <2>1
  <2>3. ShownInv'
    BY <2>1, <2>2 DEF ShownInv
  <2> QED BY <2>1, <2>2, <2>3
<1>7. ShownSeen'
  BY <1>2, <1>6 DEF OptionsInv, ShownSeen
<1>8. events \in Nat /\ events' \in Nat /\ events' >= events
  BY DEF OptionsInv, QueuesInv, SubmitAggregate, Event
<1>9. QueuesInv'
  <2>1. QueueInv(options, Entries, events') /\ QueueInv(actions, Tickets, events')
    BY <1>8, QueueLater DEF OptionsInv, QueuesInv
  <2> QED BY <1>1, <1>8, <2>1 DEF OptionsInv, QueuesInv
<1> QED BY <1>2, <1>4, <1>6, <1>7, <1>9 DEF OptionsInv

(* An unload closes a door.                                                 *)
LEMMA CloseAdmissionKeeps ==
  ASSUME OptionsInv, CloseAdmission
  PROVE  OptionsInv'
<1>1. UNCHANGED <<configVars, agg, courier, delivered, tick, applied, twitch, shown, upload,
   visible>>
  BY DEF CloseAdmission
<1>2. /\ Sound(Config)' /\ AppliedInv' /\ AggInv(agg, courier, delivered)' /\ ShownSeen'
      /\ ShownInv'
      /\ TwitchInv' /\ UploadInv' /\ VisibleInv' /\ Config' = Config
  BY <1>1, PartsRest
<1>3. events \in Nat /\ events' \in Nat /\ events' >= events /\ closing \in 0 .. 3
      /\ closing' \in 0 .. 3
  BY DEF OptionsInv, QueuesInv, CloseAdmission, Event
<1>4. SlotInv' /\ SlotSeen'
  <2>1. slot' = slot \/ slot' = NoCommand
    BY DEF CloseAdmission
  <2>2. CASE slot' = slot
    BY <1>1, <2>2, PartsRest
  <2>3. CASE slot' = NoCommand
    BY <2>3 DEF SlotInv, SlotSeen, NoCommand
  <2> QED BY <2>1, <2>2, <2>3
<1>5. QueueInv(options', Entries, events') /\ (options' = options \/ ~options'.accepting)
  <2>1. QueueInv(options, Entries, events')
    BY <1>3, QueueLater DEF OptionsInv, QueuesInv
  <2> DEFINE r == [options EXCEPT !.queue = <<>>, !.accepting = FALSE]
  <2>2. options' = options \/ options' = r
    BY DEF CloseAdmission
  <2>3. QueueInv(r, Entries, events') /\ ~r.accepting
    BY <1>3, <2>1, QueueClosed
  <2> HIDE DEF r
  <2> QED BY <2>1, <2>2, <2>3
<1>6. QueueInv(actions', Tickets, events') /\ (actions' = actions \/ ~actions'.accepting)
  <2>1. QueueInv(actions, Tickets, events')
    BY <1>3, QueueLater DEF OptionsInv, QueuesInv
  <2> DEFINE r == [actions EXCEPT !.queue = <<>>, !.accepting = FALSE]
  <2>2. actions' = actions \/ actions' = r
    BY DEF CloseAdmission
  <2>3. QueueInv(r, Tickets, events') /\ ~r.accepting
    BY <1>3, <2>1, QueueClosed
  <2> HIDE DEF r
  <2> QED BY <2>1, <2>2, <2>3
<1>7. QueuesInv'
  BY <1>3, <1>5, <1>6 DEF QueuesInv
<1>8. TickInv'
  BY <1>1, <1>5, <1>6 DEF OptionsInv, TickInv
<1> QED BY <1>2, <1>4, <1>7, <1>8 DEF OptionsInv

------------------------------------------------------------------------------
(* The tick.                                                                *)

(* An operation keeps what was seen of the world, and the world sound.      *)
LEMMA WorldMoves ==
  ASSUME OptionsInv, NEW v, Leads(Config, v), Configure(v)
  PROVE  /\ Config' = v /\ Sound(Config)' /\ settings' = v.settings /\ bot' = v.bot
         /\ UNCHANGED shown => ShownSeen'
         /\ UNCHANGED slot => SlotSeen'
<1>1. Sound(v) /\ v \in Worlds
  BY DEF Leads, Sound
<1>2. Config' = v
  BY <1>1, Configured
<1>3. Sound(Config)'
  BY <1>1, <1>2
<1>4. Sound(Config)
  BY DEF OptionsInv
<1>5. ASSUME UNCHANGED shown PROVE ShownSeen'
  <2>1. Follows(Config, shown.revision, shown.bot, shown.route)
    BY DEF OptionsInv, ShownSeen
  <2>2. Follows(v, shown.revision, shown.bot, shown.route)
    BY <1>4, <2>1, FollowsOn
  <2> QED BY <1>2, <1>5, <2>2 DEF ShownSeen
<1>6. ASSUME UNCHANGED slot PROVE SlotSeen'
  <2>1. slot # NoCommand => Follows(Config, slot.revision, slot.bot, slot.shown)
    BY DEF OptionsInv, SlotSeen
  <2>2. slot # NoCommand => Follows(v, slot.revision, slot.bot, slot.shown)
    BY <1>4, <2>1, FollowsOn
  <2> QED BY <1>2, <1>6, <2>2 DEF SlotSeen
<1>7. settings' = v.settings /\ bot' = v.bot
  BY DEF Configure
<1> QED BY <1>2, <1>3, <1>5, <1>6, <1>7

(* After it the client id is applied; if that fails the tick ends and       *)
(* publishes.                                                               *)
LEMMA ThenKeeps ==
  ASSUME OptionsInv, NEW v, Leads(Config, v), Configure(v), UNCHANGED <<slot, agg>>,
         NEW step \in {"Commands", "Apply"}, NEW budget, NEW io, Then(step, budget, io)
  PROVE  /\ Sound(Config)' /\ ShownSeen' /\ ShownInv' /\ SlotSeen' /\ AppliedInv'
         /\ tick' \in {AtRest, [step |-> step, budget |-> budget]}
         /\ applied'.client \in {applied.client, settings'.client}
<1>1. Sound(Config)' /\ SlotSeen' /\ (UNCHANGED shown => ShownSeen')
  BY WorldMoves
<1>2. CASE ClientApplies(io)
  <2>1. /\ applied' = [applied EXCEPT !.client = settings'.client]
        /\ tick' = [step |-> step, budget |-> budget] /\ UNCHANGED shown
    BY <1>2 DEF Then
  <2>2. ShownSeen' /\ ShownInv'
    BY <1>1, <2>1, PartsRest
  <2>3. applied' = [client |-> applied'.client, policy |-> applied'.policy]
        /\ applied'.client = settings'.client
    BY <2>1 DEF OptionsInv, AppliedInv
  <2>4. AppliedInv'
    BY <2>1, <2>3 DEF AppliedInv
  <2> QED BY <1>1, <2>1, <2>2, <2>3, <2>4
<1>3. CASE ~ClientApplies(io)
  <2>1. applied' = applied /\ tick' = AtRest /\ Publish
    BY <1>3 DEF Then
  <2>2. ShownSeen' /\ ShownInv'
    BY <1>1, <2>1, Published
  <2>3. AppliedInv'
    BY <2>1 DEF OptionsInv, AppliedInv, AtRest
  <2> QED BY <1>1, <2>1, <2>2, <2>3
<1> QED BY <1>2, <1>3

(* A step that leaves the configuration alone is such an operation.         *)
LEMMA ConfigStays ==
  ASSUME OptionsInv, UNCHANGED configVars
  PROVE  Leads(Config, Config) /\ Configure(Config)
<1>1. Takes(Config, Config)
  BY TakesItself DEF OptionsInv
<1> QED BY <1>1 DEF Takes, Configure, Config, configVars

(* The budget is within what is queued.                                     *)
LEMMA Fewer ==
  ASSUME NEW n \in Nat
  PROVE  Lesser(n, TickBudget) \in Nat /\ Lesser(n, TickBudget) <= n
BY OptionsConstants DEF Lesser

(* A tick begins, and the upload of the last one is history.                *)
LEMMA TickBeginKeeps ==
  ASSUME OptionsInv, TickBegin
  PROVE  OptionsInv'
<1>1. UNCHANGED <<configVars, eligible, slot, agg, courier, delivered, closing, events, options,
   actions,
                  twitch, visible>> /\ upload' = NoRoute /\ tick.step = "Rest"
  BY DEF TickBegin, NoAggregate, OwnerFrame
<1>2. PICK io : Then("Commands", Lesser(Len(options.queue), TickBudget), io)
  BY DEF TickBegin
<1>3. Leads(Config, Config) /\ Configure(Config)
  BY <1>1, ConfigStays
<1>4. /\ Sound(Config)' /\ ShownSeen' /\ ShownInv' /\ SlotSeen' /\ AppliedInv'
      /\ tick' \in {AtRest, [step |-> "Commands", budget |-> Lesser(Len(options.queue),
         TickBudget)]}
      /\ applied'.client \in {applied.client, settings'.client}
  BY <1>1, <1>2, <1>3, ThenKeeps
<1>5. /\ SlotInv' /\ AggInv(agg, courier, delivered)' /\ QueuesInv' /\ VisibleInv'
  BY <1>1, PartsRest
<1>6. UploadInv'
  BY <1>1 DEF UploadInv
<1>7. TwitchInv'
  BY <1>1, <1>4 DEF OptionsInv, TwitchInv, configVars
<1>8. Len(options.queue) \in Nat
  BY DEF OptionsInv, QueuesInv, QueueInv
<1>9. TickInv'
  <2>1. Lesser(Len(options.queue), TickBudget) \in Nat
        /\ Lesser(Len(options.queue), TickBudget) <= Len(options.queue)
    BY <1>8, Fewer
  <2> QED BY <1>1, <1>4, <2>1 DEF TickInv, AtRest, Steps
<1> QED BY <1>4, <1>5, <1>6, <1>7, <1>9 DEF OptionsInv

(* A command is executed.                                                   *)
LEMMA TickCommandKeeps ==
  ASSUME OptionsInv, TickCommand
  PROVE  OptionsInv'
<1>1. /\ UNCHANGED <<eligible, slot, agg, courier, delivered, closing, events, actions, upload>>
      /\ tick.step = "Commands" /\ tick.budget > 0 /\ options.accepting
  BY DEF TickCommand, NoAggregate, OwnerFrame
<1> DEFINE c == Pop(options.queue)
<1>2. PICK io :
        /\ Configure(Execute(Config, c, io))
        /\ options' = [options EXCEPT !.queue = Tail(@), !.taken = c.ticket]
        /\ visible' = IF c.op = "SetWindowVisible" /\ ~SaveFails(settings, io)
                      THEN c.arg ELSE visible
        /\ twitch' = IF c.op = "ConnectTwitch" /\ ~twitch.busy
                     THEN [busy |-> TRUE, client |-> applied.client] ELSE twitch
        /\ Then("Commands", tick.budget - 1, io)
  BY DEF TickCommand
<1>3. QueueInv(options, Entries, events) /\ events \in Nat /\ tick.budget \in Nat
      /\ tick.budget <= Len(options.queue) /\ Len(options.queue) \in Nat
  BY <1>1 DEF OptionsInv, QueuesInv, QueueInv, TickInv
<1>4. /\ QueueInv(options', Entries, events) /\ options'.accepting = options.accepting
      /\ Len(options'.queue) = Len(options.queue) - 1 /\ c \in Entries
  <2>1. options' = [options EXCEPT !.queue = Tail(@), !.taken = Head(options.queue).ticket]
    BY <1>2 DEF Pop
  <2>2. Len(options.queue) > 0
    BY <1>1, <1>3
  <2> QED BY <1>3, <2>1, <2>2, QueuePopped DEF Pop
<1> HIDE DEF c
<1> DEFINE v == Execute(Config, c, io)
<1>5. CommandDone(Config, c, io, v) /\ Configure(v)
  BY <1>2, <1>4, ExecuteDone DEF OptionsInv
<1> HIDE DEF v
<1>6. Leads(Config, v) /\ Config.settings = settings
  BY <1>5 DEF CommandDone, Config
<1>7. /\ Sound(Config)' /\ ShownSeen' /\ ShownInv' /\ SlotSeen' /\ AppliedInv'
      /\ tick' \in {AtRest, [step |-> "Commands", budget |-> tick.budget - 1]}
      /\ applied'.client \in {applied.client, settings'.client}
  BY <1>1, <1>2, <1>5, <1>6, ThenKeeps
<1>8. settings' = v.settings
  BY <1>5 DEF Configure
<1>9. /\ settings'.client # settings.client => ~twitch.busy /\ c.op = "SaveOrdinary"
      /\ settings'.visible = IF c.op = "SetWindowVisible" /\ ~SaveFails(settings, io) THEN c.arg
                             ELSE settings.visible
  BY <1>5, <1>6, <1>8 DEF CommandDone
<1>10. /\ SlotInv' /\ AggInv(agg, courier, delivered)'
  BY <1>1, PartsRest
<1>11. VisibleInv'
  BY <1>2, <1>9 DEF OptionsInv, VisibleInv
<1>12. UploadInv'
  BY <1>1 DEF OptionsInv, UploadInv
<1>13. TwitchInv'
  <2>1. settings.client = applied.client
    BY <1>1 DEF OptionsInv, AppliedInv
  <2>2. CASE c.op = "ConnectTwitch" /\ ~twitch.busy
    <3>1. PICK f : f = TRUE
      OBVIOUS
    <3>2. twitch' = [busy |-> f, client |-> applied.client]
      BY <1>2, <2>2, <3>1
    <3>3. settings'.client = settings.client
      BY <1>9, <2>2
    <3> QED BY <1>7, <2>1, <3>1, <3>2, <3>3 DEF TwitchInv
  <2>3. CASE ~(c.op = "ConnectTwitch" /\ ~twitch.busy)
    <3>1. twitch' = twitch
      BY <1>2, <2>3
    <3> QED BY <1>7, <1>9, <3>1 DEF OptionsInv, TwitchInv
  <2> QED BY <2>2, <2>3
<1>14. QueuesInv'
  BY <1>1, <1>4 DEF OptionsInv, QueuesInv
<1>15. TickInv'
  <2>1. tick.budget - 1 \in Nat /\ tick.budget - 1 <= Len(options'.queue)
    BY <1>1, <1>3, <1>4
  <2> QED BY <1>7, <2>1 DEF TickInv, AtRest, Steps
<1> QED BY <1>7, <1>10, <1>11, <1>12, <1>13, <1>14, <1>15 DEF OptionsInv

(* The verification is polled.                                              *)
LEMMA TickPollKeeps ==
  ASSUME OptionsInv, TickPoll
  PROVE  OptionsInv'
<1>1. /\ UNCHANGED <<eligible, slot, agg, courier, delivered, closing, events, options, actions, twitch,
                     upload, visible>>
      /\ tick.step = "Commands"
  BY DEF TickPoll, NoAggregate, OwnerFrame
<1>2. PICK io :
        /\ Configure(IF options.accepting THEN PollVerification(Config, io) ELSE Config)
        /\ Then("Apply", 0, io)
  BY DEF TickPoll
<1> DEFINE v == IF options.accepting THEN PollVerification(Config, io) ELSE Config
<1>3. Takes(Config, v)
  BY PollKeeps, TakesItself DEF OptionsInv
<1>4. Configure(v)
  BY <1>2
<1> HIDE DEF v
<1>5. Leads(Config, v) /\ settings' = v.settings /\ settings'.client = settings.client
      /\ settings'.visible = settings.visible
  BY <1>3, <1>4 DEF Takes, Configure, Config
<1>6. /\ Sound(Config)' /\ ShownSeen' /\ ShownInv' /\ SlotSeen' /\ AppliedInv'
      /\ tick' \in {AtRest, [step |-> "Apply", budget |-> 0]}
      /\ applied'.client \in {applied.client, settings'.client}
  BY <1>1, <1>2, <1>4, <1>5, ThenKeeps
<1>7. /\ SlotInv' /\ AggInv(agg, courier, delivered)' /\ QueuesInv'
  BY <1>1, PartsRest
<1>8. VisibleInv'
  BY <1>1, <1>5 DEF OptionsInv, VisibleInv
<1>9. UploadInv'
  BY <1>1 DEF OptionsInv, UploadInv
<1>10. TwitchInv'
  BY <1>1, <1>5, <1>6 DEF OptionsInv, TwitchInv, AppliedInv
<1>11. TickInv'
  BY <1>6 DEF TickInv, AtRest, Steps
<1> QED BY <1>6, <1>7, <1>8, <1>9, <1>10, <1>11 DEF OptionsInv

(* The configuration is applied and a refresh may begin. A refresh that     *)
(* begins authorises what was authorised before, so the policy stays the    *)
(* one applied; anything else ends the tick.                                *)
LEMMA TickApplyKeeps ==
  ASSUME OptionsInv, TickApply
  PROVE  OptionsInv'
<1>1. /\ UNCHANGED <<eligible, slot, agg, courier, delivered, options, actions, twitch, upload, closing,
                     visible>>
      /\ tick.step = "Apply"
  BY DEF TickApply, NoAggregate
<1>2. PICK due \in {FALSE, RefreshDue}, configure \in SUBSET {"configure"} :
      \E secret \in SUBSET Calls(due, {"secret", "dispatch"}) :
        LET io == configure \cup secret
            w == IF due THEN BeginSaved(Config, "Refresh", io) ELSE Config
            refused == "configure" \in io /\ applied.policy # Policy(settings, bot)
            stops == refused \/ (due /\ ~w.bot.refreshing) \/ ~actions.accepting
        IN  /\ "configure" \in io => refused
            /\ IF due THEN Event /\ ~refused ELSE UNCHANGED events
            /\ applied' = IF PolicyApplies(io) THEN [applied EXCEPT !.policy = Policy(settings,
               bot)]
                          ELSE applied
            /\ Configure(w)
            /\ tick' = IF stops THEN AtRest
                       ELSE [step |-> "Actions", budget |-> Lesser(Len(actions.queue), TickBudget)]
            /\ IF stops THEN Publish ELSE UNCHANGED shown
  BY DEF TickApply
<1>3. PICK io : \E stops \in BOOLEAN :
        LET w == IF due THEN BeginSaved(Config, "Refresh", io) ELSE Config
        IN  /\ "configure" \in io => applied.policy # Policy(settings, bot)
            /\ "configure" \in io /\ applied.policy # Policy(settings, bot) => stops
            /\ IF due THEN Event ELSE UNCHANGED events
            /\ applied' = IF PolicyApplies(io) THEN [applied EXCEPT !.policy = Policy(settings,
               bot)]
                          ELSE applied
            /\ Configure(w)
            /\ tick' = IF stops THEN AtRest
                       ELSE [step |-> "Actions", budget |-> Lesser(Len(actions.queue), TickBudget)]
            /\ IF stops THEN Publish ELSE UNCHANGED shown
  BY <1>2, Zenon
<1> DEFINE w == IF due THEN BeginSaved(Config, "Refresh", io) ELSE Config
<1>4. PICK stops \in BOOLEAN :
            /\ "configure" \in io => applied.policy # Policy(settings, bot)
            /\ "configure" \in io /\ applied.policy # Policy(settings, bot) => stops
            /\ IF due THEN Event ELSE UNCHANGED events
            /\ applied' = IF PolicyApplies(io) THEN [applied EXCEPT !.policy = Policy(settings,
               bot)]
                          ELSE applied
            /\ Configure(w)
            /\ tick' = IF stops THEN AtRest
                       ELSE [step |-> "Actions", budget |-> Lesser(Len(actions.queue), TickBudget)]
            /\ IF stops THEN Publish ELSE UNCHANGED shown
  BY <1>3
<1>5. Sound(Config)
  BY DEF OptionsInv
<1>6. Takes(Config, w) /\ w.settings = Config.settings
      /\ Alike(Config.settings, Config.settings, w.bot, Config.bot)
  <2>1. CASE due
    BY <1>5, <2>1, BeginSavedKeeps
  <2>2. CASE ~due
    <3>1. w = Config
      BY <2>2
    <3> HIDE DEF w
    <3>2. Takes(Config, w)
      BY <1>5, <3>1, TakesItself
    <3> QED BY <3>1, <3>2 DEF Alike
  <2> QED BY <2>1, <2>2
<1> HIDE DEF w
<1>7. Policy(w.settings, w.bot) = Policy(Config.settings, Config.bot)
  BY <1>6, AlikeAllow
<1>8. Leads(Config, w) /\ settings' = settings /\ Policy(settings', bot') = Policy(settings, bot)
  BY <1>4, <1>6, <1>7 DEF Takes, Configure, Config
<1>9. Sound(Config)' /\ SlotSeen' /\ (UNCHANGED shown => ShownSeen')
  BY <1>1, <1>4, <1>8, WorldMoves
<1>10. ShownSeen' /\ ShownInv'
  BY <1>4, <1>9, Published, PartsRest
<1>11. applied' = [client |-> applied'.client, policy |-> applied'.policy]
       /\ applied'.client = applied.client
       /\ (~stops => applied'.policy = Policy(settings, bot))
  <2> DEFINE a == applied.client
             b == applied.policy
             p == Policy(settings, bot)
  <2>1. applied = [client |-> a, policy |-> b]
    BY DEF OptionsInv, AppliedInv
  <2>2. PolicyApplies(io) <=> "configure" \notin io /\ b # p
    BY DEF PolicyApplies
  <2>3. applied' = IF PolicyApplies(io) THEN [applied EXCEPT !.policy = p] ELSE applied
    BY <1>4
  <2>4. ("configure" \in io => b # p) /\ ("configure" \in io /\ b # p => stops)
    BY <1>4
  <2> HIDE DEF a, b, p
  <2>5. CASE PolicyApplies(io)
    <3>1. applied' = [client |-> a, policy |-> p]
      BY <2>1, <2>3, <2>5
    <3>2. applied.client = a
      BY <2>1
    <3> QED BY <3>1, <3>2 DEF p
  <2>6. CASE ~PolicyApplies(io)
    <3>1. applied' = [client |-> a, policy |-> b]
      BY <2>1, <2>3, <2>6
    <3>2. applied.client = a
      BY <2>1
    <3>3. ~stops => b = p
      BY <2>2, <2>4, <2>6
    <3> QED BY <3>1, <3>2, <3>3 DEF p
  <2> QED BY <2>5, <2>6
<1>12. AppliedInv'
  BY <1>4, <1>8, <1>11 DEF AppliedInv, AtRest
<1>13. TwitchInv'
  BY <1>1, <1>8, <1>11 DEF OptionsInv, TwitchInv
<1>14. UploadInv'
  BY <1>1 DEF OptionsInv, UploadInv
<1>15. VisibleInv'
  BY <1>1, <1>8 DEF OptionsInv, VisibleInv
<1>16. SlotInv' /\ AggInv(agg, courier, delivered)'
  BY <1>1, PartsRest
<1>17. events \in Nat /\ events' \in Nat /\ events' >= events
  BY <1>4 DEF OptionsInv, QueuesInv, Event
<1>18. QueuesInv'
  <2>1. QueueInv(options, Entries, events') /\ QueueInv(actions, Tickets, events')
    BY <1>17, QueueLater DEF OptionsInv, QueuesInv
  <2> QED BY <1>1, <1>17, <2>1 DEF OptionsInv, QueuesInv
<1>19. TickInv'
  <2>1. Len(actions.queue) \in Nat
    BY DEF OptionsInv, QueuesInv, QueueInv
  <2>2. Lesser(Len(actions.queue), TickBudget) \in Nat
        /\ Lesser(Len(actions.queue), TickBudget) <= Len(actions.queue)
    BY <2>1, Fewer
  <2> QED BY <1>1, <1>4, <2>2 DEF TickInv, AtRest, Steps
<1> QED BY <1>9, <1>10, <1>12, <1>13, <1>14, <1>15, <1>16, <1>18, <1>19 DEF OptionsInv

(* An action is taken.                                                      *)
LEMMA TickActionKeeps ==
  ASSUME OptionsInv, TickAction
  PROVE  OptionsInv'
<1>1. /\ UNCHANGED <<configVars, eligible, slot, agg, courier, delivered, options, applied, twitch, shown,
                     upload, closing, visible, events>>
      /\ tick.step = "Actions"
  BY DEF TickAction, NoAggregate, OwnerFrame
<1>2. /\ Sound(Config)' /\ ShownSeen' /\ ShownInv' /\ SlotSeen' /\ SlotInv'
      /\ AggInv(agg, courier, delivered)' /\ TwitchInv' /\ VisibleInv'
  BY <1>1, PartsRest
<1>3. tick = [step |-> "Actions", budget |-> tick.budget] /\ tick.budget \in Nat
      /\ (actions.accepting => tick.budget <= Len(actions.queue))
  BY <1>1 DEF OptionsInv, TickInv
<1>4. applied.policy = Policy(settings, bot)
      /\ applied = [client |-> applied.client, policy |-> applied.policy]
  BY <1>1 DEF OptionsInv, AppliedInv
<1>5. upload = NoRoute
  BY <1>1 DEF OptionsInv, UploadInv
<1>6. UploadInv'
  BY <1>1, <1>5 DEF UploadInv
<1>7. QueueInv(actions, Tickets, events) /\ QueueInv(options, Entries, events) /\ events \in Nat
      /\ closing \in 0 .. 3
  BY DEF OptionsInv, QueuesInv
<1>8. CASE tick.budget = 0 \/ ~actions.accepting
  <2>1. tick' = [tick EXCEPT !.step = "Aggregate"] /\ UNCHANGED actions
    BY <1>8 DEF TickAction
  <2>2. tick' = [step |-> "Aggregate", budget |-> tick.budget]
    BY <1>3, <2>1
  <2>3. TickInv'
    BY <1>3, <2>2 DEF TickInv, Steps
  <2>4. AppliedInv'
    BY <1>1, <1>4, <2>2 DEF AppliedInv, configVars
  <2>5. QueuesInv'
    BY <1>1, <2>1, PartsRest
  <2> QED BY <1>2, <1>6, <2>3, <2>4, <2>5 DEF OptionsInv
<1>9. CASE ~(tick.budget = 0 \/ ~actions.accepting)
  <2>1. /\ actions' = [actions EXCEPT !.queue = Tail(@), !.taken = Head(actions.queue).ticket]
        /\ tick' = [tick EXCEPT !.budget = @ - 1]
    BY <1>9 DEF TickAction, Pop
  <2>2. tick' = [step |-> "Actions", budget |-> tick.budget - 1]
    BY <1>3, <2>1
  <2>3. Len(actions.queue) \in Nat /\ Len(actions.queue) > 0
    BY <1>3, <1>7, <1>9 DEF QueueInv
  <2>4. /\ QueueInv(actions', Tickets, events) /\ Len(actions'.queue) = Len(actions.queue) - 1
        /\ actions'.accepting = actions.accepting
    BY <1>7, <2>1, <2>3, QueuePopped
  <2>5. QueuesInv'
    BY <1>1, <1>7, <2>4 DEF QueuesInv
  <2>6. TickInv'
    BY <1>3, <1>9, <2>2, <2>3, <2>4 DEF TickInv, Steps
  <2>7. AppliedInv'
    BY <1>1, <1>4, <2>2 DEF AppliedInv, configVars
  <2> QED BY <1>2, <1>6, <2>5, <2>6, <2>7 DEF OptionsInv
<1> QED BY <1>8, <1>9

(* The pump dispatches with the policy that was applied, which is the       *)
(* present one, and the snapshot is published.                              *)
LEMMA TickPumpKeeps ==
  ASSUME OptionsInv, TickPump
  PROVE  OptionsInv'
<1>1. /\ UNCHANGED <<configVars, eligible, slot, agg, courier, delivered, options, actions, applied,
                     twitch, closing, visible, events>>
      /\ tick.step = "Pump" /\ tick' = AtRest /\ Publish
      /\ upload' \in {NoRoute, applied.policy}
  BY DEF TickPump, NoAggregate, OwnerFrame
<1>2. /\ Sound(Config)' /\ SlotSeen' /\ SlotInv' /\ QueuesInv'
      /\ AggInv(agg, courier, delivered)' /\ TwitchInv' /\ VisibleInv'
  BY <1>1, PartsRest
<1>3. ShownSeen' /\ ShownInv'
  BY <1>1, <1>2, Published
<1>4. AppliedInv' /\ UploadInv'
  BY <1>1 DEF OptionsInv, AppliedInv, UploadInv, AtRest, configVars
<1>5. TickInv'
  BY <1>1 DEF TickInv, AtRest, Steps
<1> QED BY <1>2, <1>3, <1>4, <1>5 DEF OptionsInv

(* The worker answers.                                                      *)
LEMMA VerifierKeeps ==
  ASSUME OptionsInv, VerifierAnswers,
         UNCHANGED <<aggVars, options, actions, tick, applied, twitch, shown, upload, closing,
            visible,
                     events>>
  PROVE  OptionsInv'
<1>1. UNCHANGED <<settings, key, revision, bot>> /\ verifier.id # 0 /\ ~verifier.answered
  BY DEF VerifierAnswers
<1>2. Sound(Config) /\ Config.verifier = verifier /\ verifier \in Verifiers /\ AnswerInv(verifier)
  <2>1. Sound(Config) /\ Config.verifier = verifier
    BY DEF OptionsInv, Config
  <2> QED BY <2>1, WorldFields DEF Sound
<1>3. verifier' \in Verifiers /\ AnswerInv(verifier')
  <2>1. PICK f : f = TRUE
    OBVIOUS
  <2> DEFINE a == [verifier EXCEPT !.answered = f]
             b == [a EXCEPT !.ok = f]
  <2>2. a \in Verifiers /\ a.id = verifier.id /\ a.ok = verifier.ok
        /\ a.identity = verifier.identity
    BY <1>2, <2>1 DEF Verifiers
  <2>3. verifier' = a \/ \E i \in Identities : verifier' = [b EXCEPT !.identity = i]
    BY <2>1 DEF VerifierAnswers
  <2> HIDE DEF a
  <2>4. CASE verifier' = a
    BY <1>1, <1>2, <2>2, <2>4 DEF AnswerInv
  <2>5. ASSUME NEW i \in Identities, verifier' = [b EXCEPT !.identity = i]
        PROVE  verifier' \in Verifiers /\ AnswerInv(verifier')
    <3>1. b \in Verifiers /\ b.id = verifier.id
      BY <2>1, <2>2 DEF Verifiers
    <3> HIDE DEF b
    <3>2. verifier' \in Verifiers /\ verifier'.id = verifier.id /\ verifier'.identity = i
      BY <2>5, <3>1 DEF Verifiers, Details
    <3> QED BY <1>1, <3>2 DEF AnswerInv
  <2> QED BY <2>3, <2>4, <2>5
<1> DEFINE v == [Config EXCEPT !.verifier = verifier']
<1>4. Takes(Config, v)
  BY <1>2, <1>3, AnswerTaken
<1>5. Configure(v)
  BY <1>1 DEF Config, Configure
<1> HIDE DEF v
<1>6. Sound(Config)' /\ ShownSeen' /\ SlotSeen'
  BY <1>4, <1>5, WorldMoves DEF Takes, aggVars
<1>7. /\ ShownInv' /\ SlotInv' /\ AggInv(agg, courier, delivered)' /\ TickInv' /\ QueuesInv'
  BY PartsRest DEF aggVars
<1>8. AppliedInv' /\ TwitchInv' /\ UploadInv' /\ VisibleInv'
  BY <1>1 DEF OptionsInv, AppliedInv, TwitchInv, UploadInv, VisibleInv
<1> QED BY <1>6, <1>7, <1>8 DEF OptionsInv

------------------------------------------------------------------------------
(* Aggregates.                                                              *)

(* The fields of an empty delivery.                                         *)
LEMMA NoDeliveryFields ==
  /\ NoDelivery = [id |-> NoDelivery.id, request |-> NoDelivery.request, shown |-> NoDelivery.shown,
                   step |-> NoDelivery.step, out |-> NoDelivery.out]
  /\ NoDelivery.id = 0 /\ NoDelivery.step = "Empty" /\ NoDelivery.out = None
BY DEF NoDelivery

(* The aggregate controller with no command left.                           *)
Account(s, active, n, last) ==
  [state |-> s, command |-> NoCommand, active |-> active, next |-> n, last |-> last]

(* Its fields, one by one.                                                  *)
LEMMA AccountFields ==
  ASSUME NEW s, NEW active, NEW n, NEW last, NEW x
  PROVE  LET a == Account(s, active, n, last) IN
         /\ [a EXCEPT !.state = x] = Account(x, active, n, last)
         /\ [a EXCEPT !.active = x] = Account(s, x, n, last)
         /\ [a EXCEPT !.next = x] = Account(s, active, x, last)
         /\ [a EXCEPT !.last = x] = Account(s, active, n, x)
         /\ a.command = NoCommand /\ a.state = s /\ a.active = active /\ a.next = n /\ a.last = last
<1>1. [Account(s, active, n, last) EXCEPT !.state = x] = Account(x, active, n, last)
  BY DEF Account
<1>2. [Account(s, active, n, last) EXCEPT !.active = x] = Account(s, x, n, last)
  BY DEF Account
<1>3. [Account(s, active, n, last) EXCEPT !.next = x] = Account(s, active, x, last)
  BY DEF Account
<1>4. [Account(s, active, n, last) EXCEPT !.last = x] = Account(s, active, n, x)
  BY DEF Account
<1> QED BY <1>1, <1>2, <1>3, <1>4 DEF Account

(* What the invariant says of it.                                           *)
LEMMA Settling ==
  ASSUME NEW c, NEW d, NEW s, NEW active, NEW n, NEW last, AggInv(Account(s, active, n, last), c, d)
  PROVE  /\ s \in AggStates /\ n \in Nat \ {0} /\ last \in 0 .. n - 1
         /\ active \in {0, last} /\ (active # 0 => s = "Sending")
         /\ c.id \in 0 .. n - 1 /\ c.out \in Outs
         /\ c.id = 0 => c = NoDelivery
         /\ c.out = "Failed" => c.id \notin d
         /\ d \subseteq 1 .. n - 1
         /\ s = "Failed" /\ last # 0 => last \notin d /\ c.id # last
<1> DEFINE a == Account(s, active, n, last)
<1>1. a.state = s /\ a.active = active /\ a.next = n /\ a.last = last
  BY DEF Account
<1>2. AggInv(a, c, d)
  OBVIOUS
<1> HIDE DEF a
<1> QED BY <1>1, <1>2 DEF AggInv

(* The invariant when the worker holds nothing.                             *)
LEMMA NoneLeft ==
  ASSUME NEW d, NEW s \in AggStates, NEW n \in Nat \ {0}, NEW last \in 0 .. n - 1,
         d \subseteq 1 .. n - 1, NEW active \in {0, last}, active # 0 => s = "Sending",
         s = "Failed" /\ last # 0 => last \notin d
  PROVE  AggInv(Account(s, active, n, last), NoDelivery, d)
<1> DEFINE a == Account(s, active, n, last)
<1>1. a = [state |-> a.state, command |-> NoCommand, active |-> a.active, next |-> a.next,
           last |-> a.last]
      /\ a.state = s /\ a.active = active /\ a.next = n /\ a.last = last
  BY DEF Account
<1> HIDE DEF a
<1>2. 0 \notin d /\ 0 \in 0 .. n - 1
  OBVIOUS
<1>3. AggInv(a, NoDelivery, d)
  BY <1>1, <1>2, NoDeliveryFields DEF AggInv, Outs
<1> QED BY <1>3 DEF a

(* The invariant when the worker keeps what it has and the controller gives *)
(* up on it, or on a request never made.                                    *)
LEMMA OneLeft ==
  ASSUME NEW c, NEW d, NEW s, NEW active, NEW n, NEW last, AggInv(Account(s, active, n, last), c,
     d),
         NEW t \in AggStates, NEW m \in Nat \ {0}, m >= n, NEW z \in 0 .. m - 1,
         t = "Failed" => z = 0 \/ z >= n
  PROVE  AggInv(Account(t, 0, m, z), c, d)
<1> DEFINE a == Account(s, active, n, last)
           b == Account(t, 0, m, z)
<1>1. a.state = s /\ a.active = active /\ a.next = n /\ a.last = last
  BY DEF Account
<1>2. b = [state |-> b.state, command |-> NoCommand, active |-> b.active, next |-> b.next,
           last |-> b.last]
      /\ b.state = t /\ b.active = 0 /\ b.next = m /\ b.last = z
  BY DEF Account
<1>3. AggInv(a, c, d)
  OBVIOUS
<1>4. n \in Nat \ {0} /\ c.id \in 0 .. n - 1 /\ d \subseteq 1 .. n - 1
  BY Settling
<1> HIDE DEF a, b
<1>5. c.id \in 0 .. m - 1 /\ d \subseteq 1 .. m - 1 /\ (t = "Failed" /\ z # 0 => z \notin d
      /\ c.id # z)
  BY <1>4
<1>6. AggInv(b, c, d)
  BY <1>1, <1>2, <1>3, <1>5 DEF AggInv
<1> QED BY <1>6 DEF b

(* A new request is with the worker.                                        *)
LEMMA OneSent ==
  ASSUME NEW d, NEW n \in Nat \ {0}, d \subseteq 1 .. n - 1, NEW route,
         NEW s \in {"Ambiguous", "Sending"}, NEW active \in {0, n}, active # 0 => s = "Sending"
  PROVE  AggInv(Account(s, active, n + 1, n),
                [NoDelivery EXCEPT !.id = n, !.step = "Queued", !.shown = route,
                   !.request = route], d)
<1> DEFINE b == Account(s, active, n + 1, n)
           c == [NoDelivery EXCEPT !.id = n, !.step = "Queued", !.shown = route, !.request = route]
<1>1. b = [state |-> b.state, command |-> NoCommand, active |-> b.active, next |-> b.next,
           last |-> b.last]
      /\ b.state = s /\ b.active = active /\ b.next = n + 1 /\ b.last = n
  BY DEF Account
<1>2. c = [id |-> c.id, request |-> c.request, shown |-> c.shown, step |-> c.step, out |-> c.out]
      /\ c.id = n /\ c.step = "Queued" /\ c.request = route /\ c.shown = route /\ c.out = None
  <2> DEFINE e == NoRoute
             c1 == [id |-> n, request |-> e, shown |-> e, step |-> "Empty", out |-> None]
             c2 == [id |-> n, request |-> e, shown |-> e, step |-> "Queued", out |-> None]
             c3 == [id |-> n, request |-> e, shown |-> route, step |-> "Queued", out |-> None]
             c4 == [id |-> n, request |-> route, shown |-> route, step |-> "Queued", out |-> None]
  <2>1. [NoDelivery EXCEPT !.id = n] = c1
    BY DEF NoDelivery
  <2>2. [c1 EXCEPT !.step = "Queued"] = c2
    OBVIOUS
  <2>3. [c2 EXCEPT !.shown = route] = c3
    OBVIOUS
  <2>4. [c3 EXCEPT !.request = route] = c4
    OBVIOUS
  <2>5. c = [[[[NoDelivery EXCEPT !.id = n] EXCEPT !.step = "Queued"] EXCEPT !.shown = route]
              EXCEPT !.request = route]
    OBVIOUS
  <2>6. c = c4
    <3> HIDE DEF c, c1, c2, c3, c4
    <3> QED BY <2>1, <2>2, <2>3, <2>4, <2>5
  <2> HIDE DEF c
  <2> QED BY <2>6
<1> HIDE DEF b, c
<1>3. n \notin d /\ d \subseteq 1 .. n /\ n \in 0 .. n
  OBVIOUS
<1>4. AggInv(b, c, d)
  BY <1>1, <1>2, <1>3 DEF AggInv, AggStates, Outs, None
<1> QED BY <1>4 DEF b, c

(* A tick of the aggregate: the result is taken, and a command that shows   *)
(* the present revisions and is available goes out with the route that was  *)
(* shown.                                                                   *)
LEMMA AggregateKeeps ==
  ASSUME OptionsInv, NEW io, AggregateTick(slot, io)
  PROVE  AggInv(agg, courier, delivered)'
<1> DEFINE c == courier
           d == delivered
           taken == IF c.out = None THEN c ELSE NoDelivery
<1>1. PICK s, active, n, last : agg = Account(s, active, n, last)
  BY DEF OptionsInv, AggInv, Account
<1>2. AggInv(Account(s, active, n, last), c, d)
  BY <1>1 DEF OptionsInv
<1>3. /\ s \in AggStates /\ n \in Nat \ {0} /\ last \in 0 .. n - 1
      /\ active \in {0, last} /\ (active # 0 => s = "Sending")
      /\ c.id \in 0 .. n - 1 /\ c.out \in Outs
      /\ c.id = 0 => c = NoDelivery
      /\ c.out = "Failed" => c.id \notin d
      /\ d \subseteq 1 .. n - 1
      /\ s = "Failed" /\ last # 0 => last \notin d /\ c.id # last
  BY <1>2, Settling
<1>4. c.out # None => c.id # 0
  BY <1>3, NoDeliveryFields
<1>5. delivered' = d
  BY DEF AggregateTick
<1> DEFINE sub == IF slot = NoCommand THEN agg ELSE Submit(agg, slot)
           a == TakeResult(sub)
<1>6. CASE slot = NoCommand \/ active # 0
  <2>1. sub = Account(s, active, n, last)
    BY <1>1, <1>6 DEF Submit, Account
  <2> DEFINE b == IF c.out = None \/ c.id # active THEN Account(s, active, n, last)
                  ELSE Account(c.out, 0, n, last)
  <2>2. a = b
    <3> DEFINE e == Account(s, active, n, last)
    <3>1. [e EXCEPT !.active = 0, !.state = c.out] = Account(c.out, 0, n, last)
      <4>1. [e EXCEPT !.active = 0] = Account(s, 0, n, last)
        BY AccountFields
      <4>2. [[e EXCEPT !.active = 0] EXCEPT !.state = c.out] = Account(c.out, 0, n, last)
        <5>1. [Account(s, 0, n, last) EXCEPT !.state = c.out] = Account(c.out, 0, n, last)
          BY AccountFields
        <5> QED BY <4>1, <5>1, Zenon
      <4> QED BY <4>2
    <3>2. e.active = active
      BY DEF Account
    <3>3. TakeResult(e) = IF c.out = None \/ c.id # e.active THEN e
                          ELSE [e EXCEPT !.active = 0, !.state = c.out]
      BY DEF TakeResult
    <3> HIDE DEF sub, e
    <3>4. TakeResult(sub) = TakeResult(e)
      BY <2>1 DEF e
    <3> QED BY <3>1, <3>2, <3>3, <3>4 DEF e
  <2>3. b.command = NoCommand
    BY DEF Account
  <2>4. agg' = b /\ courier' = taken
    <3> HIDE DEF b
    <3>1. a.command = NoCommand
      BY <2>2, <2>3
    <3>2. agg' = a /\ courier' = taken
      BY <3>1, Zenon DEF AggregateTick
    <3> QED BY <2>2, <3>2
  <2>5. AggInv(b, taken, d)
    <3>1. CASE c.out = None
      <4>1. b = Account(s, active, n, last) /\ taken = c
        BY <3>1
      <4> HIDE DEF b, taken, c
      <4> QED BY <1>2, <4>1
    <3>2. CASE c.out # None /\ c.id # active
      <4>1. b = Account(s, active, n, last) /\ taken = NoDelivery
        BY <3>2
      <4> HIDE DEF b, taken, c, d
      <4> QED BY <1>3, <4>1, NoneLeft
    <3>3. CASE c.out # None /\ c.id = active
      <4>1. b = Account(c.out, 0, n, last) /\ taken = NoDelivery
        BY <3>3
      <4>2. c.out \in AggStates /\ last = c.id
        BY <1>3, <1>4, <3>3 DEF Outs, AggStates
      <4> HIDE DEF b, taken, c, d
      <4> QED BY <1>3, <4>1, <4>2, NoneLeft
    <3> QED BY <3>1, <3>2, <3>3
  <2> HIDE DEF b, taken, c, d
  <2> QED BY <1>5, <2>4, <2>5
<1>7. CASE slot # NoCommand /\ active = 0
  <2> DEFINE b == [state |-> "Queued", command |-> slot, active |-> 0, next |-> n, last |-> 0]
  <2>1. sub = b
    <3>1. agg.command = NoCommand /\ agg.active = 0
      BY <1>1, <1>7 DEF Account
    <3>2. Submit(agg, slot) = [agg EXCEPT !.command = slot, !.state = "Queued", !.last = 0]
      BY <3>1 DEF Submit
    <3> QED BY <1>1, <1>7, <3>2 DEF Account
  <2>2. a = b
    <3>1. TakeResult(b) = b
      BY <1>4 DEF TakeResult
    <3> HIDE DEF sub, b
    <3> QED BY <2>1, <3>1
  <2> DEFINE bad == Stale(b.command) \/ Unavailable \/ ~eligible
             refused == taken # NoDelivery \/ "dispatch" \in io
             idle == [b EXCEPT !.command = NoCommand]
             sent == [idle EXCEPT !.next = @ + 1, !.last = b.next]
             route == [base |-> bot.base, guild |-> settings.bot.guild,
                route |-> AggregateRoute(settings, bot)]
             request == [NoDelivery EXCEPT !.id = b.next, !.step = "Queued",
                !.shown = b.command.shown,
                                           !.request = route]
  <2>3. b.command = slot /\ b.command # NoCommand /\ b.next = n
    BY <1>7
  <2>4. /\ bad => agg' = [idle EXCEPT !.state = "Failed"] /\ courier' = taken
        /\ ~bad /\ refused => agg' = [sent EXCEPT !.state = "Failed"] /\ courier' = taken
        /\ ~bad /\ ~refused =>
             /\ courier' = request
             /\ agg' = IF "panic" \in io THEN [sent EXCEPT !.state = "Ambiguous"]
                       ELSE [sent EXCEPT !.active = b.next, !.state = "Sending"]
    <3>1. LET e == TakeResult(IF slot = NoCommand THEN agg ELSE Submit(agg, slot))
              ready == e.command # NoCommand
              idl == [e EXCEPT !.command = NoCommand]
              req == [NoDelivery EXCEPT !.id = e.next, !.step = "Queued", !.shown = e.command.shown,
                    !.request = route]
              snt == [idl EXCEPT !.next = @ + 1, !.last = e.next]
          IN  CASE ~ready -> agg' = e /\ courier' = taken
                [] ready /\ (Stale(e.command) \/ Unavailable \/ ~eligible) ->
                     agg' = [idl EXCEPT !.state = "Failed"] /\ courier' = taken
                [] OTHER ->
                     IF taken # NoDelivery \/ "dispatch" \in io
                     THEN agg' = [snt EXCEPT !.state = "Failed"] /\ courier' = taken
                     ELSE /\ courier' = req
                          /\ agg' = IF "panic" \in io THEN [snt EXCEPT !.state = "Ambiguous"]
                                    ELSE [snt EXCEPT !.active = e.next, !.state = "Sending"]
      BY DEF AggregateTick
    <3>2. TakeResult(IF slot = NoCommand THEN agg ELSE Submit(agg, slot)) = b
      BY <2>2
    <3> HIDE DEF b, taken
    <3>3. (CASE ~(b.command # NoCommand) -> agg' = b /\ courier' = taken
            [] b.command # NoCommand /\ (Stale(b.command) \/ Unavailable \/ ~eligible) ->
                 agg' = [idle EXCEPT !.state = "Failed"] /\ courier' = taken
            [] OTHER ->
                 IF taken # NoDelivery \/ "dispatch" \in io
                 THEN agg' = [sent EXCEPT !.state = "Failed"] /\ courier' = taken
                 ELSE /\ courier' = request
                      /\ agg' = IF "panic" \in io THEN [sent EXCEPT !.state = "Ambiguous"]
                                ELSE [sent EXCEPT !.active = b.next, !.state = "Sending"])
      BY <3>1, <3>2, Zenon
    <3> HIDE DEF idle, sent, request
    <3>4. CASE bad
      BY <2>3, <3>3, <3>4, Zenon
    <3>5. CASE ~bad
      BY <2>3, <3>3, <3>5, Zenon
    <3> QED BY <3>4, <3>5
  <2>5. idle = Account("Queued", 0, n, 0)
    BY DEF Account
  <2>6. sent = Account("Queued", 0, n + 1, n)
    <3>1. idle.next = n /\ b.next = n
      BY <2>3, <2>5, AccountFields
    <3>2. sent = [[idle EXCEPT !.next = n + 1] EXCEPT !.last = n]
      BY <3>1
    <3> HIDE DEF idle, sent
    <3>3. [idle EXCEPT !.next = n + 1] = Account("Queued", 0, n + 1, 0)
      BY <2>5, AccountFields
    <3>4. [Account("Queued", 0, n + 1, 0) EXCEPT !.last = n] = Account("Queued", 0, n + 1, n)
      BY AccountFields
    <3> QED BY <3>2, <3>3, <3>4, Zenon
  <2>7. /\ [idle EXCEPT !.state = "Failed"] = Account("Failed", 0, n, 0)
        /\ [sent EXCEPT !.state = "Failed"] = Account("Failed", 0, n + 1, n)
        /\ [sent EXCEPT !.state = "Ambiguous"] = Account("Ambiguous", 0, n + 1, n)
    <3> HIDE DEF idle, sent
    <3> QED BY <2>5, <2>6, AccountFields
  <2>8. [sent EXCEPT !.active = b.next, !.state = "Sending"] = Account("Sending", n, n + 1, n)
    <3>1. [sent EXCEPT !.active = b.next, !.state = "Sending"] =
          [[sent EXCEPT !.active = n] EXCEPT !.state = "Sending"]
      BY <2>3
    <3> HIDE DEF idle, sent
    <3>2. [sent EXCEPT !.active = n] = Account("Queued", n, n + 1, n)
      BY <2>6, AccountFields
    <3>3. [Account("Queued", n, n + 1, n) EXCEPT !.state = "Sending"] = Account("Sending", n,
       n + 1, n)
      BY AccountFields
    <3> QED BY <3>1, <3>2, <3>3, Zenon
  <2>9. taken = c \/ taken = NoDelivery
    OBVIOUS
  <2>10. ASSUME ~bad PROVE slot.shown = route
    <3>1. slot.revision = revision /\ slot.bot = bot.revision
      BY <2>3, <2>10 DEF Stale
    <3>2. Follows(Config, slot.revision, slot.bot, slot.shown)
      BY <1>7 DEF OptionsInv, SlotSeen
    <3> QED BY <3>1, <3>2 DEF Follows, Config, Route
  <2>11. ~bad => request = [NoDelivery EXCEPT !.id = n, !.step = "Queued", !.shown = route,
                                              !.request = route]
    BY <2>3, <2>10
  <2>12. n + 1 \in Nat \ {0} /\ n + 1 >= n /\ n \in 0 .. (n + 1) - 1 /\ n >= n /\ 0 \in 0 .. n - 1
        /\ "Failed" \in AggStates /\ d \subseteq 1 .. (n + 1) - 1 /\ n \notin d
    BY <1>3 DEF AggStates
  <2>13. AggInv(Account("Failed", 0, n, 0), c, d) /\ AggInv(Account("Failed", 0, n + 1, n), c, d)
    <3>1. AggInv(Account("Failed", 0, n, 0), c, d)
      <4> HIDE DEF c, d
      <4> QED BY <1>2, <1>3, <2>12, OneLeft
    <3>2. AggInv(Account("Failed", 0, n + 1, n), c, d)
      <4> HIDE DEF c, d
      <4> QED BY <1>2, <1>3, <2>12, OneLeft
    <3> QED BY <3>1, <3>2
  <2>14. AggInv(Account("Failed", 0, n, 0), NoDelivery, d)
         /\ AggInv(Account("Failed", 0, n + 1, n), NoDelivery, d)
    <3>1. AggInv(Account("Failed", 0, n, 0), NoDelivery, d)
      <4> HIDE DEF c, d
      <4> QED BY <1>3, <2>12, NoneLeft
    <3>2. AggInv(Account("Failed", 0, n + 1, n), NoDelivery, d)
      <4> HIDE DEF c, d
      <4> QED BY <1>3, <2>12, NoneLeft
    <3> QED BY <3>1, <3>2
  <2> HIDE DEF bad, refused, idle, sent, request, route, b, taken, c
  <2>15. CASE bad
    BY <1>5, <2>4, <2>7, <2>9, <2>13, <2>14, <2>15
  <2>16. CASE ~bad /\ refused
    BY <1>5, <2>4, <2>7, <2>9, <2>13, <2>14, <2>16
  <2>17. CASE ~bad /\ ~refused
    <3>1. agg' \in {Account("Ambiguous", 0, n + 1, n), Account("Sending", n, n + 1, n)}
      BY <2>4, <2>7, <2>8, <2>17
    <3>2. courier' = [NoDelivery EXCEPT !.id = n, !.step = "Queued", !.shown = route,
       !.request = route]
      BY <2>4, <2>11, <2>17
    <3>3. AggInv(Account("Ambiguous", 0, n + 1, n),
                 [NoDelivery EXCEPT !.id = n, !.step = "Queued", !.shown = route,
                    !.request = route], d)
      <4> HIDE DEF d
      <4> QED BY <1>3, OneSent
    <3>4. AggInv(Account("Sending", n, n + 1, n),
                 [NoDelivery EXCEPT !.id = n, !.step = "Queued", !.shown = route,
                    !.request = route], d)
      <4> HIDE DEF d
      <4> QED BY <1>3, OneSent
    <3> QED BY <1>5, <3>1, <3>2, <3>3, <3>4
  <2> QED BY <2>15, <2>16, <2>17
<1> QED BY <1>3, <1>6, <1>7

(* The same as a step of the application thread.                            *)
LEMMA TickAggregateKeeps ==
  ASSUME OptionsInv, TickAggregate
  PROVE  OptionsInv'
<1>1. /\ UNCHANGED <<configVars, options, actions, applied, twitch, shown, upload, closing, visible,
                     events>>
      /\ tick.step = "Aggregate" /\ slot' = NoCommand /\ tick' = [tick EXCEPT !.step = "Pump"]
  BY DEF TickAggregate, OwnerFrame
<1>2. PICK io : AggregateTick(slot, io)
  BY DEF TickAggregate
<1>3. AggInv(agg, courier, delivered)'
  BY <1>2, AggregateKeeps
<1>4. /\ Sound(Config)' /\ ShownSeen' /\ ShownInv' /\ QueuesInv' /\ TwitchInv' /\ VisibleInv'
  BY <1>1, PartsRest
<1>5. SlotInv' /\ SlotSeen'
  BY <1>1 DEF SlotInv, SlotSeen, NoCommand
<1>6. tick' = [step |-> "Pump", budget |-> tick.budget] /\ tick.budget \in Nat
  BY <1>1 DEF OptionsInv, TickInv
<1>7. TickInv'
  BY <1>6 DEF TickInv, Steps
<1>8. AppliedInv' /\ UploadInv'
  BY <1>1, <1>6 DEF OptionsInv, AppliedInv, UploadInv, configVars
<1> QED BY <1>3, <1>4, <1>5, <1>7, <1>8 DEF OptionsInv

(* The worker moves on with the request it has; what it reports as failed   *)
(* has not been sent.                                                       *)
LEMMA CourierMoves ==
  ASSUME NEW a, NEW c, NEW d, AggInv(a, c, d), c.id # 0,
         NEW step \in {"Sending", "Done"}, NEW out \in Outs, out # None <=> step = "Done",
         NEW e, e = d \/ e = d \cup {c.id}, a.active = c.id \/ a.state # "Failed" \/ a.last # c.id,
         c.step \in {"Queued", "Sending"},
         out = "Failed" \/ step = "Sending" => e = d
  PROVE  AggInv(a, [c EXCEPT !.step = step, !.out = out], e)
<1> DEFINE f1 == c.id
           f2 == c.request
           f3 == c.shown
           f4 == c.step
           f5 == c.out
           b == [c EXCEPT !.step = step, !.out = out]
<1>1. c = [id |-> f1, request |-> f2, shown |-> f3, step |-> f4, out |-> f5]
  BY DEF AggInv
<1>2. c.id \notin d /\ c.request = c.shown
  BY DEF AggInv
<1> HIDE DEF f1, f2, f3, f4, f5
<1> DEFINE x == [id |-> f1, request |-> f2, shown |-> f3, step |-> step, out |-> f5]
<1>3. [c EXCEPT !.step = step] = x
  BY <1>1
<1>4. [[c EXCEPT !.step = step] EXCEPT !.out = out] =
      [id |-> f1, request |-> f2, shown |-> f3, step |-> step, out |-> out]
  <2>1. [x EXCEPT !.out = out] = [id |-> f1, request |-> f2, shown |-> f3, step |-> step,
     out |-> out]
    OBVIOUS
  <2> HIDE DEF x
  <2> QED BY <1>3, <2>1
<1>5. b = [id |-> f1, request |-> f2, shown |-> f3, step |-> step, out |-> out]
  BY <1>4
<1> HIDE DEF b
<1>6. b = [id |-> b.id, request |-> b.request, shown |-> b.shown, step |-> b.step, out |-> b.out]
      /\ b.id = c.id /\ b.request = c.request /\ b.shown = c.shown /\ b.step = step /\ b.out = out
  BY <1>5 DEF f1, f2, f3
<1>7. c.id \in 1 .. a.next - 1
  BY DEF AggInv
<1>8. (a.state = "Failed" /\ a.last # 0 => a.last \notin e /\ c.id # a.last)
  BY DEF AggInv
<1>9. e \subseteq 1 .. a.next - 1
  BY <1>7 DEF AggInv
<1>10. b.out = "Failed" \/ b.step \in {"Queued", "Sending"} => b.id \notin e
  BY <1>2, <1>6
<1>11. AggInv(a, b, e)
  BY <1>2, <1>6, <1>7, <1>8, <1>9, <1>10 DEF AggInv
<1> QED BY <1>11 DEF b

(* The worker of the aggregate takes a step.                                *)
LEMMA CourierKeeps ==
  ASSUME OptionsInv, Courier,
         UNCHANGED <<configVars, options, actions, tick, applied, twitch, shown, upload, closing,
            visible,
                     events>>
  PROVE  OptionsInv'
<1>1. UNCHANGED <<slot, agg>>
  BY DEF Courier, CourierLoads, CourierSends
<1>2. /\ Sound(Config)' /\ ShownSeen' /\ ShownInv' /\ SlotSeen' /\ SlotInv' /\ TickInv'
      /\ QueuesInv'
      /\ AppliedInv' /\ TwitchInv' /\ UploadInv' /\ VisibleInv'
  BY <1>1, PartsRest
<1>3. AggInv(agg, courier, delivered)
  BY DEF OptionsInv
<1>4. ASSUME courier.step \in {"Queued", "Sending"}
      PROVE  courier.id # 0 /\ courier.out = None /\ (agg.state # "Failed" \/ agg.last # courier.id)
  BY <1>3, <1>4, NoDeliveryFields DEF AggInv
<1>5. ASSUME NEW io, CourierLoads(io) PROVE AggInv(agg, courier, delivered)'
  <2>1. courier.step = "Queued" /\ UNCHANGED <<agg, delivered>>
    BY <1>5 DEF CourierLoads
  <2>2. CASE courier' = [courier EXCEPT !.step = "Done", !.out = "Failed"]
    <3>1. AggInv(agg, [courier EXCEPT !.step = "Done", !.out = "Failed"], delivered)
      BY <1>3, <1>4, <2>1, CourierMoves DEF Outs, None
    <3> QED BY <2>1, <2>2, <3>1
  <2>3. CASE courier' = [courier EXCEPT !.step = "Sending"]
    <3>1. AggInv(agg, [courier EXCEPT !.step = "Sending", !.out = None], delivered)
      BY <1>3, <1>4, <2>1, CourierMoves DEF Outs, None
    <3>2. [courier EXCEPT !.step = "Sending"] = [courier EXCEPT !.step = "Sending", !.out = None]
      <4> DEFINE f1 == courier.id
                 f2 == courier.request
                 f3 == courier.shown
                 f4 == courier.step
      <4>1. courier = [id |-> f1, request |-> f2, shown |-> f3, step |-> f4, out |-> None]
        BY <1>3, <1>4, <2>1 DEF AggInv
      <4> HIDE DEF f1, f2, f3, f4
      <4>2. [courier EXCEPT !.step = "Sending"] =
            [id |-> f1, request |-> f2, shown |-> f3, step |-> "Sending", out |-> None]
        BY <4>1
      <4>3. [[courier EXCEPT !.step = "Sending"] EXCEPT !.out = None] =
            [id |-> f1, request |-> f2, shown |-> f3, step |-> "Sending", out |-> None]
        BY <4>2
      <4> QED BY <4>2, <4>3
    <3> QED BY <2>1, <2>3, <3>1, <3>2, Zenon
  <2> QED BY <1>5, <2>2, <2>3 DEF CourierLoads
<1>6. ASSUME CourierSends PROVE AggInv(agg, courier, delivered)'
  <2>1. courier.step = "Sending" /\ UNCHANGED agg
    BY <1>6 DEF CourierSends
  <2>2. PICK answer \in {"sent", "skipped", "refused", "uncertain"}, reached \in BOOLEAN :
       /\ answer = "sent" => reached
       /\ answer \in {"skipped", "refused"} => ~reached
       /\ courier' = [courier EXCEPT !.step = "Done", !.out = Judge(answer)]
       /\ delivered' = IF reached THEN delivered \cup {courier.id} ELSE delivered
    BY <1>6 DEF CourierSends
  <2>3. /\ Judge(answer) \in {"Succeeded", "Failed", "Ambiguous"}
        /\ Judge(answer) = "Failed" => answer \in {"skipped", "refused"}
    <3>1. CASE answer = "sent"
      BY <3>1, Zenon DEF Judge
    <3>2. CASE answer \in {"skipped", "refused"}
      <4>1. answer # "sent"
        BY <3>2
      <4> QED BY <3>2, <4>1, Zenon DEF Judge
    <3>3. CASE answer = "uncertain"
      <4>1. answer # "sent" /\ answer \notin {"skipped", "refused"}
        BY <3>3
      <4>2. Judge(answer) = "Ambiguous"
        BY <4>1, Zenon DEF Judge
      <4> QED BY <4>2
    <3> QED BY <3>1, <3>2, <3>3
  <2> DEFINE out == Judge(answer)
  <2>4. out \in Outs /\ out # None /\ (out = "Failed" => delivered' = delivered)
        /\ (delivered' = delivered \/ delivered' = delivered \cup {courier.id})
    BY <2>2, <2>3 DEF Outs, None
  <2>5. courier' = [courier EXCEPT !.step = "Done", !.out = out]
    BY <2>2
  <2> HIDE DEF out
  <2>6. AggInv(agg, [courier EXCEPT !.step = "Done", !.out = out], delivered')
    BY <1>3, <1>4, <2>1, <2>4, CourierMoves
  <2> QED BY <2>1, <2>5, <2>6
<1>7. AggInv(agg, courier, delivered)'
  BY <1>5, <1>6 DEF Courier
<1> QED BY <1>2, <1>7 DEF OptionsInv

(* A row goes or comes back; a connection ends.                             *)
LEMMA OutsideKeeps ==
  ASSUME OptionsInv, Outside
  PROVE  OptionsInv'
<1>1. UNCHANGED <<configVars, slot, agg, courier, delivered, options, actions, tick, applied, shown,
                  upload, closing, visible>>
  BY DEF Outside
<1>2. /\ Sound(Config)' /\ ShownSeen' /\ ShownInv' /\ SlotSeen' /\ SlotInv' /\ TickInv'
      /\ AggInv(agg, courier, delivered)' /\ AppliedInv' /\ UploadInv' /\ VisibleInv'
  BY <1>1, PartsRest
<1>3. events \in Nat /\ events' \in Nat /\ events' >= events
  BY DEF OptionsInv, QueuesInv, Outside, Event
<1>4. QueuesInv'
  <2>1. QueueInv(options, Entries, events') /\ QueueInv(actions, Tickets, events')
    BY <1>3, QueueLater DEF OptionsInv, QueuesInv
  <2> QED BY <1>1, <1>3, <2>1 DEF OptionsInv, QueuesInv
<1>5. TwitchInv'
  <2>1. CASE twitch' = twitch
    BY <1>1, <2>1, PartsRest
  <2>2. CASE twitch' = [twitch EXCEPT !.busy = FALSE]
    <3>1. PICK f : f = FALSE
      OBVIOUS
    <3>2. PICK g, k : twitch = [busy |-> g, client |-> k]
      BY DEF OptionsInv, TwitchInv
    <3>3. twitch' = [busy |-> f, client |-> k]
      BY <2>2, <3>1, <3>2
    <3> QED BY <3>1, <3>3 DEF TwitchInv
  <2> QED BY <2>1, <2>2 DEF Outside
<1> QED BY <1>2, <1>4, <1>5 DEF OptionsInv

------------------------------------------------------------------------------
(* Start, restart and shutdown.                                             *)

(* A controller at the start.                                               *)
LEMMA NewBotFields ==
  ASSUME NEW base \in Bases
  PROVE  /\ NewBot(base) \in Bots /\ NewBot(base).state = "Unverified"
         /\ NewBot(base).pending = NoPending /\ NoPending \notin Pendings
<1>1. NoIdentity \in Details /\ NoPending \notin Pendings
  BY DEF Details, NoPending, Pendings
<1>2. PICK f \in BOOLEAN : f = FALSE
  OBVIOUS
<1> DEFINE i == NoIdentity
           p == NoPending
           b == [state |-> "Unverified", base |-> base, identity |-> i, guild |-> None,
                 refreshing |-> f, revision |-> 1, pending |-> p, next |-> 1]
<1>3. NewBot(base) = b
  BY <1>2, Zenon DEF NewBot
<1>4. b \in Bots /\ b.state = "Unverified" /\ b.pending = p
  <2>1. i \in Details /\ p \in Pendings \cup {NoPending}
    BY <1>1
  <2> HIDE DEF i, p
  <2> QED BY <2>1 DEF Bots, BotStates
<1> HIDE DEF b
<1> QED BY <1>1, <1>3, <1>4

(* A worker without a request.                                              *)
LEMMA NoRequestFields ==
  NoRequest \in Verifiers /\ AnswerInv(NoRequest)
BY DEF NoRequest, Verifiers, Details, AnswerInv

(* A start from valid settings, beside a key that agrees with them, is      *)
(* sound, whatever fails in it.                                             *)
LEMMA StartedSound ==
  ASSUME NEW s \in Settings, ValidSettings(s), NEW k \in Bases \cup {None}, KeyInv(s, k), NEW io
  PROVE  LET w == Started(s, k, io) IN
         /\ Sound(w) /\ w.settings.client = s.client /\ w.settings.visible = s.visible
         /\ w = [settings |-> w.settings, key |-> w.key, revision |-> w.revision, bot |-> w.bot,
                 verifier |-> w.verifier]
<1> DEFINE b == [s.bot EXCEPT !.channel = None]
           n == IF s.bot.enabled THEN s ELSE [s EXCEPT !.bot.channel = None]
           w == [settings |-> n, key |-> k, revision |-> 1, bot |-> NewBot(n.bot.base),
                 verifier |-> NoRequest]
           r == Started(s, k, io)
<1>1. s.bot \in BotSettings
  BY DEF Settings
<1>2. b \in BotSettings /\ b.base = s.bot.base /\ b.guild = s.bot.guild /\ b.enabled = s.bot.enabled
      /\ b.deliver = s.bot.deliver
  BY <1>1 DEF BotSettings
<1>3. n = s \/ n = [s EXCEPT !.bot = b]
  OBVIOUS
<1> HIDE DEF b
<1>4. /\ n \in Settings /\ n.client = s.client /\ n.visible = s.visible /\ n.dps = s.dps
      /\ n.twitch = s.twitch /\ n.bot.base = s.bot.base /\ n.bot.guild = s.bot.guild
      /\ n.bot.enabled = s.bot.enabled /\ n.bot.deliver = s.bot.deliver
  <2> HIDE DEF n
  <2>1. CASE n = s
    BY <2>1
  <2>2. CASE n = [s EXCEPT !.bot = b]
    BY <1>2, <2>2, BotSaved
  <2> QED BY <1>3, <2>1, <2>2
<1>5. r = IF n.bot.guild = None THEN w ELSE BeginSaved(w, "Saved", io)
  BY Zenon DEF Started
<1> HIDE DEF n
<1>6. n.bot.base \in Bases /\ ValidSettings(n) /\ KeyInv(n, k)
  BY <1>4 DEF Settings, BotSettings, ValidSettings, KeyInv
<1>7. NewBot(n.bot.base) \in Bots /\ NewBot(n.bot.base).state = "Unverified"
      /\ NewBot(n.bot.base).pending = NoPending /\ NoPending \notin Pendings
  BY <1>6, NewBotFields
<1>8. /\ w \in Worlds /\ w.settings = n /\ w.key = k /\ w.bot = NewBot(n.bot.base)
      /\ w.verifier = NoRequest
  BY <1>4, <1>7, NoRequestFields DEF Worlds
<1> HIDE DEF w
<1>9. Sound(w)
  BY <1>6, <1>7, <1>8, NoRequestFields DEF Sound, AccountInv, LookupInv
<1>10. Takes(w, r)
  <2>1. CASE n.bot.guild = None
    <3>1. r = w
      BY <1>5, <2>1
    <3> QED BY <1>9, <3>1, TakesItself
  <2>2. CASE n.bot.guild # None
    <3>1. r = BeginSaved(w, "Saved", io)
      BY <1>5, <2>2
    <3>2. Takes(w, BeginSaved(w, "Saved", io))
      BY <1>8, <1>9, <2>2, BeginSavedKeeps
    <3> QED BY <3>1, <3>2
  <2> QED BY <2>1, <2>2
<1> HIDE DEF r
<1>11. Sound(r) /\ r.settings.client = s.client /\ r.settings.visible = s.visible
  BY <1>4, <1>8, <1>10 DEF Takes, Leads
<1>12. r = [settings |-> r.settings, key |-> r.key, revision |-> r.revision, bot |-> r.bot,
            verifier |-> r.verifier]
  BY <1>11 DEF Sound, Worlds
<1> QED BY <1>11, <1>12 DEF r

(* What a start leaves.                                                     *)
Fresh ==
  /\ Sound(Config) /\ visible = settings.visible
  /\ shown = Snapshot(Config, "Idle")
  /\ applied = [client |-> settings.client, policy |-> applied.policy]
  /\ twitch = [busy |-> twitch.busy, client |-> settings.client] /\ twitch.busy \in BOOLEAN
  /\ options = NewQueue /\ actions = NewQueue /\ tick = AtRest /\ closing = 0 /\ upload = NoRoute
  /\ slot = NoCommand /\ agg = NewAggregate /\ courier = NoDelivery /\ delivered = {}
  /\ events \in Nat

(* It is within the invariant.                                              *)
LEMMA FreshHolds == Fresh => OptionsInv
<1> SUFFICES ASSUME Fresh PROVE OptionsInv
  OBVIOUS
<1>1. Sound(Config)
  BY DEF Fresh
<1>2. ShownSeen /\ ShownInv
  BY <1>1, SnapshotFollows DEF Fresh, ShownSeen, ShownInv
<1>3. SlotSeen /\ SlotInv
  BY DEF Fresh, SlotSeen, SlotInv, NoCommand
<1>4. AggInv(agg, courier, delivered)
  <2>1. NewAggregate = Account("Idle", 0, 1, 0)
    BY DEF NewAggregate, Account
  <2>2. AggInv(Account("Idle", 0, 1, 0), NoDelivery, {})
    <3> DEFINE s == "Idle"
               n == 1
               z == 0
    <3>1. /\ s \in AggStates /\ n \in Nat \ {0} /\ z \in 0 .. n - 1 /\ {} \subseteq 1 .. n - 1
          /\ z \in {0, z} /\ z = 0 /\ s # "Failed"
      BY DEF AggStates
    <3> HIDE DEF s, n, z
    <3>2. AggInv(Account(s, z, n, z), NoDelivery, {})
      BY <3>1, NoneLeft
    <3> QED BY <3>2 DEF s, n, z
  <2> QED BY <2>1, <2>2 DEF Fresh
<1>5. TickInv /\ UploadInv
  BY DEF Fresh, TickInv, UploadInv, AtRest, Steps
<1>6. QueuesInv
  BY QueueNew DEF Fresh, QueuesInv
<1>7. AppliedInv /\ TwitchInv
  <2>1. tick.step = "Rest" /\ applied.client = settings.client /\ twitch.client = settings.client
    BY DEF Fresh, AtRest
  <2> QED BY <2>1 DEF Fresh, AppliedInv, TwitchInv
<1>8. VisibleInv
  BY DEF Fresh, VisibleInv
<1> QED BY <1>1, <1>2, <1>3, <1>4, <1>5, <1>6, <1>7, <1>8 DEF OptionsInv

(* The first start.                                                         *)
LEMMA InitHolds == Init => OptionsInv
<1> SUFFICES ASSUME Init PROVE Fresh
  BY FreshHolds
<1>1. PICK saved \in SavedSettings, busy \in BOOLEAN :
       LET w == Started(saved, IF saved.bot.guild = None THEN None ELSE saved.bot.base, {})
       IN  /\ settings = w.settings /\ key = w.key /\ revision = w.revision /\ bot = w.bot
           /\ verifier = w.verifier
           /\ applied = NewApplied(w.settings) /\ shown = Snapshot(w, "Idle")
           /\ twitch = [busy |-> busy, client |-> saved.client]
  BY DEF Init
<1> DEFINE k == IF saved.bot.guild = None THEN None ELSE saved.bot.base
           w == Started(saved, k, {})
<1>2. saved \in Settings /\ ValidSettings(saved)
  BY OptionsConstants
<1>3. k \in Bases \cup {None} /\ KeyInv(saved, k)
  BY <1>2 DEF Settings, BotSettings, KeyInv
<1>4. /\ settings = w.settings /\ key = w.key /\ revision = w.revision /\ bot = w.bot
      /\ verifier = w.verifier
      /\ applied = NewApplied(w.settings) /\ shown = Snapshot(w, "Idle")
      /\ twitch = [busy |-> busy, client |-> saved.client]
  BY <1>1
<1> HIDE DEF k
<1>5. /\ Sound(w) /\ w.settings.client = saved.client
      /\ w = [settings |-> w.settings, key |-> w.key, revision |-> w.revision, bot |-> w.bot,
              verifier |-> w.verifier]
  BY <1>2, <1>3, StartedSound
<1> HIDE DEF w
<1>6. Config = w
  BY <1>4, <1>5 DEF Config
<1>7. applied = [client |-> settings.client, policy |-> applied.policy]
  BY <1>4 DEF NewApplied
<1>8. twitch = [busy |-> twitch.busy, client |-> settings.client] /\ twitch.busy \in BOOLEAN
  BY <1>4, <1>5
<1>9. /\ options = NewQueue /\ actions = NewQueue /\ tick = AtRest /\ closing = 0
      /\ upload = NoRoute
      /\ slot = NoCommand /\ agg = NewAggregate /\ courier = NoDelivery /\ delivered = {}
      /\ visible = settings.visible /\ events = 0
  BY DEF Init
<1> QED BY <1>4, <1>5, <1>6, <1>7, <1>8, <1>9 DEF Fresh

(* A restart from what is on disk, provided that is valid and the key       *)
(* agrees with it.                                                          *)
LEMMA RestartedHolds ==
  ASSUME OptionsInv, NEW s \in Settings, ValidSettings(s), s.visible = settings.visible,
         NEW k \in Bases \cup {None}, KeyInv(s, k), Restarted(s, k), Event, UNCHANGED visible
  PROVE  OptionsInv'
<1>1. PICK io \in SUBSET {"secret"}, busy \in BOOLEAN :
        LET w == Started(s, k, io)
        IN  /\ Configure(w)
            /\ applied' = NewApplied(w.settings) /\ shown' = Snapshot(w, "Idle")
            /\ twitch' = [busy |-> busy, client |-> s.client]
            /\ options' = NewQueue /\ actions' = NewQueue /\ tick' = AtRest /\ closing' = 0
            /\ slot' = NoCommand /\ agg' = NewAggregate /\ courier' = NoDelivery /\ delivered' = {}
            /\ upload' = NoRoute
  BY Zenon DEF Restarted
<1> DEFINE w == Started(s, k, io)
<1>2. /\ Configure(w)
      /\ applied' = NewApplied(w.settings) /\ shown' = Snapshot(w, "Idle")
      /\ twitch' = [busy |-> busy, client |-> s.client]
      /\ options' = NewQueue /\ actions' = NewQueue /\ tick' = AtRest /\ closing' = 0
      /\ slot' = NoCommand /\ agg' = NewAggregate /\ courier' = NoDelivery /\ delivered' = {}
      /\ upload' = NoRoute
  BY <1>1
<1>3. Sound(w) /\ w.settings.client = s.client /\ w.settings.visible = s.visible
  BY StartedSound
<1> HIDE DEF w
<1>4. Config' = w /\ settings' = w.settings
  BY <1>2, <1>3, Configured DEF Sound, Configure
<1>5. Sound(Config') /\ visible' = settings'.visible /\ shown' = Snapshot(Config', "Idle")
  BY <1>2, <1>3, <1>4 DEF OptionsInv, VisibleInv
<1>6. applied' = [client |-> settings'.client, policy |-> applied'.policy]
  BY <1>2, <1>4 DEF NewApplied
<1>7. twitch' = [busy |-> twitch'.busy, client |-> settings'.client] /\ twitch'.busy \in BOOLEAN
  BY <1>2, <1>3, <1>4
<1>8. events' \in Nat
  BY DEF Event, OptionsInv, QueuesInv
<1>9. Fresh'
  BY <1>2, <1>5, <1>6, <1>7, <1>8 DEF Fresh
<1>10. Fresh' => OptionsInv'
  BY FreshHolds, PTL
<1> QED BY <1>9, <1>10

(* A restart between two operations.                                        *)
LEMMA RestartKeeps ==
  ASSUME OptionsInv, Restart
  PROVE  OptionsInv'
<1>1. /\ settings \in Settings /\ ValidSettings(settings) /\ key \in Bases \cup {None}
      /\ KeyInv(settings, key)
  BY WorldFields DEF OptionsInv, Sound, Config
<1>2. Restarted(settings, key) /\ Event /\ UNCHANGED visible
  BY DEF Restart
<1> QED BY <1>1, <1>2, RestartedHolds

(* The first write of a disconnect disables DonBot and leaves the key.      *)
LEMMA DisconnectWritten ==
  ASSUME NEW w \in Worlds
  PROVE  LET s == DisconnectWrites(w)[1].settings IN
         /\ s \in Settings /\ s.bot.guild = None /\ s.bot.deliver = FALSE /\ s.bot.enabled = FALSE
         /\ s.visible = w.settings.visible /\ s.dps = w.settings.dps /\ s.twitch = w.settings.twitch
         /\ DisconnectWrites(w)[1].key = w.key
<1> DEFINE b == Disable(w.settings.bot)
           s == [w.settings EXCEPT !.bot = b]
<1>1. w.settings \in Settings /\ w.settings.bot \in BotSettings
  BY WorldFields
<1>2. b \in BotSettings /\ b.guild = None /\ b.deliver = FALSE /\ b.enabled = FALSE
  BY <1>1, DisabledFields
<1>3. DisconnectWrites(w)[1].settings = s /\ DisconnectWrites(w)[1].key = w.key
  <2> HIDE DEF b
  <2>1. DisconnectWrites(w)[1] = [settings |-> s, key |-> w.key]
    BY DEF DisconnectWrites, b
  <2> HIDE DEF s
  <2> QED BY <2>1
<1> HIDE DEF b
<1>4. s \in Settings /\ s.bot = b /\ s.visible = w.settings.visible /\ s.dps = w.settings.dps
      /\ s.twitch = w.settings.twitch
  BY <1>1, <1>2, BotSaved
<1> HIDE DEF s
<1> QED BY <1>2, <1>3, <1>4

(* A restart between the two writes of a verification or a disconnect: the  *)
(* first of them leaves no guild, so the key that is still there            *)
(* contradicts nothing.                                                     *)
LEMMA EndsHalfwayKeeps ==
  ASSUME OptionsInv, EndsHalfway
  PROVE  OptionsInv'
<1>1. PICK disk \in Halfway : Restarted(disk.settings, disk.key)
  BY DEF EndsHalfway
<1>2. Event /\ UNCHANGED visible
  BY DEF EndsHalfway
<1>3. Config \in Worlds /\ ValidSettings(settings) /\ Config.settings = settings /\ Config.key = key
      /\ Config.bot = bot
  BY DEF OptionsInv, Sound, Config
<1>4. key \in Bases \cup {None} /\ bot.pending \in Pendings \cup {NoPending}
  BY <1>3, WorldFields
<1>5. /\ disk.settings \in Settings /\ disk.settings.bot.guild = None
      /\ disk.settings.bot.deliver = FALSE /\ disk.settings.bot.enabled = FALSE
      /\ disk.settings.visible = settings.visible /\ disk.settings.dps = settings.dps
      /\ disk.settings.twitch = settings.twitch /\ disk.key = key
  <2>1. CASE bot.pending.source = "Candidate" /\ disk = CandidateWrites(Config, bot.pending)[1]
    <3>1. bot.pending \in Pendings
      BY <1>4, <2>1 DEF NoPending, None
    <3> QED BY <1>3, <2>1, <3>1, CandidateWritten
  <2>2. CASE disk = DisconnectWrites(Config)[1]
    BY <1>3, <2>2, DisconnectWritten
  <2> QED BY <2>1, <2>2 DEF Halfway
<1>6. ValidSettings(disk.settings) /\ KeyInv(disk.settings, disk.key)
  BY <1>3, <1>5 DEF ValidSettings, KeyInv
<1> QED BY <1>1, <1>2, <1>4, <1>5, <1>6, RestartedHolds

(* The shutdown forgets the account and the deliveries.                     *)
LEMMA ShutdownKeeps ==
  ASSUME OptionsInv, Shutdown
  PROVE  OptionsInv'
<1>1. /\ tick.step = "Rest" /\ tick' = [step |-> "Stopped", budget |-> 0]
      /\ bot' = [Advance(ClearIdentity(bot)) EXCEPT !.state = "ShuttingDown", !.pending = NoPending]
      /\ agg' = [agg EXCEPT !.state = "ShuttingDown", !.command = NoCommand, !.active = 0]
      /\ revision' = revision + 1
      /\ verifier' = NoRequest /\ courier' = NoDelivery /\ upload' = NoRoute
      /\ UNCHANGED <<settings, key, slot, delivered, options, actions, applied, twitch, shown,
                     closing, visible, events>>
  BY DEF Shutdown
<1>2. Sound(Config) /\ Config \in Worlds /\ Config.bot = bot /\ Config.revision = revision
      /\ Config.settings = settings /\ Config.key = key
  BY DEF OptionsInv, Sound, Config
<1>3. bot \in Bots /\ settings \in Settings /\ key \in Bases \cup {None} /\ revision \in Nat \ {0}
      /\ bot.revision \in Nat
  BY <1>2, WorldFields
<1>4. /\ bot' \in Bots /\ bot'.state = "ShuttingDown" /\ bot'.pending = NoPending
      /\ bot'.revision = bot.revision + 1
  <2> DEFINE c == ClearIdentity(bot)
             d == Advance(c)
             e == [d EXCEPT !.state = "ShuttingDown"]
             f == [e EXCEPT !.pending = NoPending]
  <2>1. c \in Bots /\ c.revision = bot.revision
    BY <1>3, AccountCleared
  <2> HIDE DEF c
  <2>2. d \in Bots /\ d.revision = bot.revision + 1
    BY <2>1, Advanced
  <2> HIDE DEF d
  <2>3. e \in Bots /\ e.revision = bot.revision + 1 /\ e.state = "ShuttingDown"
    BY <2>2 DEF Bots, BotStates
  <2> HIDE DEF e
  <2>4. f \in Bots /\ f.revision = bot.revision + 1 /\ f.state = "ShuttingDown"
        /\ f.pending = NoPending
    BY <2>3 DEF Bots
  <2>5. bot' = f
    BY <1>1 DEF c, d, e
  <2> HIDE DEF f
  <2> QED BY <2>4, <2>5
<1>5. Config' = [settings |-> settings, key |-> key, revision |-> revision + 1, bot |-> bot',
                 verifier |-> NoRequest]
  BY <1>1, Zenon DEF Config
<1>6. Config' \in Worlds /\ Config'.bot = bot' /\ Config'.settings = settings /\ Config'.key = key
      /\ Config'.revision = revision + 1 /\ Config'.verifier = NoRequest
  <2> DEFINE c == bot'
             v == NoRequest
  <2>1. c \in Bots /\ v \in Verifiers
    BY <1>4, NoRequestFields
  <2> HIDE DEF c, v
  <2>2. Config' = [settings |-> settings, key |-> key, revision |-> revision + 1, bot |-> c,
                   verifier |-> v]
    BY <1>5 DEF c, v
  <2> DEFINE u == Config'
  <2> HIDE DEF u
  <2>3. u = [settings |-> settings, key |-> key, revision |-> revision + 1, bot |-> c,
     verifier |-> v]
    BY <2>2 DEF u
  <2>4. u \in Worlds /\ u.bot = c /\ u.settings = settings /\ u.key = key
        /\ u.revision = revision + 1 /\ u.verifier = v
    BY <1>3, <2>1, <2>3 DEF Worlds
  <2> QED BY <2>4 DEF u, c, v
<1>7. Sound(Config')
  <2>1. AccountInv(settings, key, bot') /\ LookupInv(settings, key, bot')
    BY <1>4 DEF AccountInv, LookupInv, NoPending, Pendings
  <2> QED BY <1>2, <1>6, <2>1, NoRequestFields DEF Sound
<1>8. ASSUME NEW r, NEW b, NEW route, Follows(Config, r, b, route)
      PROVE  Follows(Config', r, b, route)
  BY <1>2, <1>3, <1>4, <1>6, <1>8 DEF Follows
<1>9. ShownSeen' /\ SlotSeen' /\ ShownInv' /\ SlotInv'
  BY <1>1, <1>8 DEF OptionsInv, ShownSeen, SlotSeen, ShownInv, SlotInv
<1>10. AggInv(agg, courier, delivered)'
  <2> DEFINE n == agg.next
             last == agg.last
             g == Account(agg.state, agg.active, n, last)
             g1 == Account("ShuttingDown", agg.active, n, last)
             g2 == Account("ShuttingDown", 0, n, last)
  <2>1. agg = g /\ n \in Nat \ {0} /\ last \in 0 .. n - 1 /\ delivered \subseteq 1 .. n - 1
    BY DEF OptionsInv, AggInv, Account
  <2>2. [g EXCEPT !.state = "ShuttingDown"] = g1 /\ [g1 EXCEPT !.active = 0] = g2
    <3> DEFINE a == agg.active
               t == agg.state
               s == "ShuttingDown"
               z == 0
    <3> HIDE DEF a, t, s, z, n, last
    <3>1. [Account(t, a, n, last) EXCEPT !.state = s] = Account(s, a, n, last)
      BY AccountFields
    <3>2. [Account(s, a, n, last) EXCEPT !.active = z] = Account(s, z, n, last)
      BY AccountFields
    <3> QED BY <3>1, <3>2 DEF a, t, s, z
  <2>3. [g1 EXCEPT !.command = NoCommand] = g1
    <3> DEFINE a == agg.active
               k == NoCommand
    <3> HIDE DEF a, n, last, k
    <3>1. g1 = [state |-> "ShuttingDown", command |-> k, active |-> a, next |-> n, last |-> last]
      BY DEF Account, a, k
    <3>2. [g1 EXCEPT !.command = k] = g1
      BY <3>1
    <3> QED BY <3>2 DEF k
  <2>4. agg' = [[[g EXCEPT !.state = "ShuttingDown"] EXCEPT !.command = NoCommand] EXCEPT !.active = 0]
    <3> HIDE DEF g, n, last
    <3> QED BY <1>1, <2>1
  <2>5. agg' = g2
    <3> HIDE DEF g, g1, g2, n, last
    <3> QED BY <2>2, <2>3, <2>4
  <2>6. AggInv(g2, NoDelivery, delivered)
    <3> DEFINE z == 0
               s == "ShuttingDown"
    <3>1. z \in {0, last} /\ z = 0 /\ s \in AggStates /\ s # "Failed"
      BY DEF AggStates
    <3> HIDE DEF z, s, n, last
    <3>2. AggInv(Account(s, z, n, last), NoDelivery, delivered)
      BY <2>1, <3>1, NoneLeft
    <3> QED BY <3>2 DEF s, z
  <2> HIDE DEF g2
  <2> QED BY <1>1, <2>5, <2>6
<1>11. TickInv' /\ UploadInv'
  BY <1>1 DEF TickInv, UploadInv, Steps
<1>12. QueuesInv'
  BY <1>1, PartsRest
<1>13. AppliedInv' /\ TwitchInv' /\ VisibleInv'
  BY <1>1 DEF OptionsInv, AppliedInv, TwitchInv, VisibleInv
<1>14. Sound(Config)'
  BY <1>7 DEF Config
<1> QED BY <1>9, <1>10, <1>11, <1>12, <1>13, <1>14 DEF OptionsInv

(* A step that changes nothing.                                             *)
LEMMA NothingKeeps ==
  ASSUME OptionsInv, UNCHANGED vars
  PROVE  OptionsInv'
<1>1. UNCHANGED <<configVars, shown, slot, agg, courier, delivered, tick, options, actions, events,
                  closing, applied, twitch, upload, visible>>
  BY DEF vars, aggVars
<1>2. /\ Sound(Config)' /\ ShownSeen' /\ ShownInv' /\ SlotSeen' /\ SlotInv' /\ TickInv'
      /\ QueuesInv'
      /\ AppliedInv' /\ TwitchInv' /\ UploadInv' /\ VisibleInv' /\ AggInv(agg, courier, delivered)'
  BY <1>1, PartsRest
<1> QED BY <1>2 DEF OptionsInv

(* Either worker takes a step.                                              *)
LEMMA WorkersKeep ==
  ASSUME OptionsInv, Workers
  PROVE  OptionsInv'
<1>1. UNCHANGED <<options, actions, tick, applied, twitch, shown, upload, closing, visible, events>>
  BY DEF Workers
<1>2. CASE VerifierAnswers /\ UNCHANGED <<aggVars, faults>>
  BY <1>1, <1>2, VerifierKeeps
<1>3. CASE Courier /\ UNCHANGED configVars
  BY <1>1, <1>3, CourierKeeps
<1> QED BY <1>2, <1>3 DEF Workers

(* Every step keeps the invariant.                                          *)
LEMMA NextKeeps ==
  ASSUME OptionsInv, [Next]_vars
  PROVE  OptionsInv'
<1>1. ASSUME Tick PROVE OptionsInv'
  BY <1>1, TickBeginKeeps, TickCommandKeeps, TickPollKeeps, TickApplyKeeps, TickActionKeeps,
     TickAggregateKeeps, TickPumpKeeps DEF Tick
<1>2. ASSUME Stopped PROVE OptionsInv'
  BY <1>2, NothingKeeps DEF Stopped
<1> QED BY <1>1, <1>2, SubmitOptionKeeps, SubmitActionKeeps, SubmitAggregateKeeps,
   CloseAdmissionKeeps,
        WorkersKeep, RestartKeeps, EndsHalfwayKeeps, ShutdownKeeps, OutsideKeeps, NothingKeeps
        DEF Next

------------------------------------------------------------------------------
(* The theorems.                                                            *)

(* The options, the account and the deliveries keep their invariant.        *)
THEOREM OptionsInvariance == Spec => []OptionsInv
<1>1. OptionsInv /\ [Next]_vars => OptionsInv'
  BY NextKeeps
<1> QED BY <1>1, InitHolds, PTL DEF Spec

(* What is saved, what the clients were given and what was verified agree   *)
(* after every step, and wherever the process ends: ConfigurationService,   *)
(* DonBotConfigurationController.                                           *)
THEOREM ConfigurationAlwaysAgrees == Spec => []ConfigurationAgrees
<1>1. OptionsInv => ConfigurationAgrees
  <2> SUFFICES ASSUME OptionsInv PROVE ConfigurationAgrees
    OBVIOUS
  <2>1. /\ Config.settings = settings /\ Config.key = key /\ Config.bot = bot
        /\ Sound(Config) /\ Config \in Worlds
    BY DEF OptionsInv, Sound, Config
  <2>2. /\ settings \in Settings /\ key \in Bases \cup {None} /\ bot.state \in BotStates
        /\ bot.identity \in Details /\ settings.bot \in BotSettings
    BY <2>1, WorldFields
  <2>3. ValidSettings(settings) /\ KeyInv(settings, key) /\ AccountInv(settings, key, bot)
    BY <2>1 DEF Sound
  <2>4. OptionsTypeOK
    <3>1. agg.state \in AggStates
      BY DEF OptionsInv, AggInv
    <3>2. Len(options.queue) <= Capacity /\ Len(actions.queue) <= Capacity /\ closing \in 0 .. 3
      BY DEF OptionsInv, QueuesInv, QueueInv
    <3>3. settings.client \in Clients /\ settings.bot.base \in Bases
          /\ settings.bot.guild \in Guilds \cup {None}
          /\ settings.bot.channel \in Channels \cup {None}
      BY <2>2 DEF Settings, BotSettings
    <3> QED BY <2>2, <2>3, <3>1, <3>2, <3>3 DEF OptionsTypeOK, BotStates, Details, AggStates
  <2>5. KeyMatchesBase /\ SavedWithinIdentity
    BY <2>3 DEF KeyMatchesBase, SavedWithinIdentity, KeyInv, AccountInv
  <2>6. DraftKeepsVisibility /\ ConnectionKeepsClient
    BY DEF OptionsInv, VisibleInv, TwitchInv, DraftKeepsVisibility, ConnectionKeepsClient
  <2> QED BY <2>4, <2>5, <2>6 DEF ConfigurationAgrees
<1> QED BY <1>1, OptionsInvariance, PTL

(* Automatic uploads go where the settings and the verification say when    *)
(* they are dispatched, with a Discord message only for an account that is  *)
(* verified then; an aggregate goes where the screen said, and one    *)
(* reported as failed has not been delivered: ApplicationRuntime,           *)
(* DonBotAggregateController.                                               *)
THEOREM DeliveriesAlwaysAsShown == Spec => []DeliveriesAsShown
<1>1. OptionsInv => DeliveriesAsShown
  <2> SUFFICES ASSUME OptionsInv PROVE DeliveriesAsShown
    OBVIOUS
  <2>1. UploadRouteIsCurrent
    BY DEF OptionsInv, UploadInv, UploadRouteIsCurrent
  <2>2. UnverifiedStaysSilent
    <3> SUFFICES ASSUME upload.route # None
        PROVE  /\ bot.state = "Verified" /\ bot.base = upload.base
               /\ upload.guild \in DOMAIN bot.identity.guilds
      BY DEF UnverifiedStaysSilent
    <3>1. upload = Policy(settings, bot)
      BY <2>1 DEF UploadRouteIsCurrent, NoRoute
    <3>2. /\ upload.base = settings.bot.base /\ upload.guild = settings.bot.guild
          /\ AuthorizedDelivery(settings, bot) # None
      BY <3>1 DEF Policy
    <3> QED BY <3>2 DEF AuthorizedDelivery, AuthorizedRoute
  <2>3. AggregateAsShown /\ AggregateTruthful
    BY DEF OptionsInv, AggInv, AggregateAsShown, AggregateTruthful
  <2> QED BY <2>1, <2>2, <2>3 DEF DeliveriesAsShown
<1> QED BY <1>1, OptionsInvariance, PTL

(* Both queues run in the order of submission, nothing twice, and nothing   *)
(* once they are closed: NexusOptionsController, RecentLogActions.          *)
THEOREM CommandsAlwaysInOrder == Spec => []CommandsInOrder
<1>1. ASSUME NEW q, NEW S, events \in Nat, QueueInv(q, S, events)
      PROVE  /\ \A i \in DOMAIN q.queue : q.queue[i].ticket > q.taken
             /\ \A i, j \in DOMAIN q.queue : i < j => q.queue[i].ticket < q.queue[j].ticket
             /\ ~q.accepting => q.queue = <<>>
  <2>1. q.queue \in Seq(S)
    BY <1>1 DEF QueueInv
  <2>2. DOMAIN q.queue = 1 .. Len(q.queue)
    BY <2>1
  <2> QED BY <1>1, <2>2 DEF QueueInv
<1>2. OptionsInv => CommandsInOrder
  BY <1>1 DEF OptionsInv, QueuesInv, CommandsInOrder
<1> QED BY <1>2, OptionsInvariance, PTL
==============================================================================
