----------------------------- MODULE TwitchService -----------------------------
(* The Twitch part of the add-on as addon/src/composition.rs wires it: the       *)
(* authentication controller of the application thread, its worker, the chat     *)
(* threads and the test message thread, all sharing one session owner and one    *)
(* saved record, against a service that may leave any request unanswered.  The   *)
(* process may crash or be shut down and start again; the record and the service *)
(* outlive it.                                                                   *)
EXTENDS TwitchAuthentication, TwitchChat

VARIABLE cut   \* history: the user's last disconnect was completed, no connect since

vars == <<apiVars, ownerVars, authVars, chatVars, cut>>

Init ==
  /\ \E gen \in {0, 1} :
       /\ saved = gen
       /\ service = [last |-> gen, live |-> 1 .. gen, refreshable |-> 1 .. gen]
  /\ superseded = {} /\ faults = 0 /\ events = 0
  /\ owner = NewOwner /\ ctl = NewController
  /\ inbox = <<>> /\ calling = NoCall /\ results = <<>>
  /\ enabled = TRUE /\ started = FALSE
  /\ chat = [t \in Threads |-> Resting]
  /\ ledger = [settled |-> <<>>, active |-> {}]
  /\ stop = FALSE /\ test = NewTest /\ tally = NewTally
  /\ cut = FALSE

(* A crash, or the next start after a shutdown. *)
Restart ==
  /\ Event
  /\ owner' = NewOwner /\ ctl' = NewController
  /\ inbox' = <<>> /\ calling' = NoCall /\ results' = <<>> /\ started' = FALSE
  /\ chat' = [t \in Threads |-> Resting]
  /\ ledger' = [settled |-> <<>>, active |-> {}]
  /\ stop' = FALSE /\ test' = NewTest /\ tally' = NewTally
  /\ superseded' = {}
  /\ UNCHANGED <<service, faults, saved, enabled>>

Shutdown ==
  /\ stop /\ \A t \in Threads : chat[t].pc = "Idle"
  /\ AuthShutdown

Stopped == stop /\ ctl.shut /\ UNCHANGED vars

Controller ==
  \/ BeginConnection \/ BeginSavedConnection \/ Disconnect \/ EnablePosting
  \/ WorkerTakes \/ WorkerCalls \/ WorkerAnswers
  \/ Tick
Chat ==
  \/ \E t \in Posters, k \in Keys, manual \in BOOLEAN : enabled /\ TakeRequest(t, k, manual)
  \/ ctl.state = "Connected" /\ SendTest
  \/ PollTest
  \/ \E t \in Threads : DeliveryStep(t)

CutOff ==
  cut' = \/ ctl.state # "Disconnected" /\ ctl'.state = "Disconnected" /\ started'
         \/ cut /\ ctl'.state # "Starting"

Next ==
  \/ /\ \/ Controller /\ UNCHANGED chatVars
        \/ Chat /\ UNCHANGED authVars
        \/ StopPools /\ UNCHANGED authVars
        \/ Shutdown /\ UNCHANGED chatVars
        \/ TokenExpires /\ UNCHANGED <<ownerVars, authVars, chatVars>>
        \/ Restart
     /\ CutOff
  \/ Stopped

(* The controller is ticked, the threads run, and a call to Twitch ends: the     *)
(* client gives every request a connection, an operation and a stall timeout.   *)
(* Nothing is assumed of users, of clocks that only trigger extra work, of       *)
(* crashes or of the answers.                                                    *)
TickProgress ==
  /\ TickResult \/ TickDeferred \/ TickPoll \/ TickWatch
  /\ UNCHANGED chatVars /\ CutOff
WorkerProgress ==
  /\ WorkerTakes \/ WorkerCalls \/ WorkerAnswers
  /\ UNCHANGED chatVars /\ CutOff
Spec ==
  /\ Init /\ [][Next]_vars
  /\ WF_vars(TickProgress) /\ WF_vars(WorkerProgress)
  /\ \A t \in Threads : WF_vars(DeliveryStep(t) /\ UNCHANGED authVars /\ CutOff)

------------------------------------------------------------------------------
States == {"Disconnected", "Starting", "AwaitingUser", "Validating", "Refreshing",
           "Connected", "Disconnecting", "Error", "ShuttingDown"}
Gens == 0 .. service.last

(* The variables hold what their Rust types allow. *)
TwitchTypeOK ==
  /\ saved \in Gens /\ superseded \subseteq Gens
  /\ service.live \cup service.refreshable \subseteq 1 .. service.last
  /\ owner \in [active : Gens, pending : Nat, restorable : BOOLEAN, revision : Nat,
                 next : Nat \ {0}, stopping : BOOLEAN]
  /\ ctl.state \in States /\ ctl.phase \in Phases \cup {None} /\ ctl.gen \in Gens
  /\ Len(inbox) <= AuthCapacity
  /\ \A t \in Threads : chat[t].gen \in Gens /\ chat[t].session \in Gens
  /\ Len(ledger.settled) <= LedgerCapacity /\ ledger.active \subseteq Keys

Recovering(t) == chat[t].tx # 0
Holders ==
  {t \in Threads : Recovering(t) /\ chat[t].tx = owner.pending}
    \cup (IF ctl.tx # 0 /\ ctl.tx = owner.pending THEN {"controller"} ELSE {})

(* checkout_active, recover, commit, restore, discard, erase_saved: a session    *)
(* that is out has exactly one holder, who will bring it back, and is active     *)
(* nowhere.  With no holder the owner would answer Busy for ever; with two, one  *)
(* would publish what the other has replaced.                                    *)
OneHolder ==
  owner.pending # 0 => owner.active = 0 /\ Cardinality(Holders) = 1

(* commit and persist_pending: the session the process works with is the one it  *)
(* would find after a crash, whatever storage call failed on the way.            *)
ConnectedIsSaved == owner.active # 0 => saved = owner.active

(* persist_pending and recover_current: once the process has received the        *)
(* replacement of a generation, the old one never becomes the session again,     *)
(* by a restore, a late answer or a failed store.                                *)
RotationNotUndone == owner.active \notin superseded

(* disconnect and finish_disconnect: after a completed disconnect no late answer *)
(* and no chat recovery brings the session or its record back, across restarts,  *)
(* until the user connects again.                                                *)
DisconnectIsFinal == cut => saved = 0 /\ owner.active = 0

(* Ledger and TwitchChatDelivery::send: what appears in the chat for one report  *)
(* is one automatic post, one per request of the user, and one for each time the *)
(* bounded ledger has forgotten the report; calls that were cut off, answered    *)
(* unreadably or repeated after a recovery add none.                             *)
PostedOnce ==
  \A k \in Keys : tally[k].posted <= 1 + tally[k].manual + tally[k].forgotten

(* Ledger::claim and finish: a key is claimed exactly while a thread delivers    *)
(* it.  A claim left behind would put every later request off for ever.          *)
ClaimsAreHeld ==
  /\ ledger.active = {chat[t].key : t \in {p \in Posters : chat[p].pc # "Idle"}}
  /\ \A p, q \in Posters : p # q /\ chat[p].pc # "Idle" /\ chat[q].pc # "Idle"
                           => chat[p].key # chat[q].key

(* tick, handle_result, handle_failure: a connection that is being worked on     *)
(* comes to rest, with or without a session; in particular the controller that   *)
(* hides its identity while a chat recovery has the session shows the outcome.   *)
Settles ==
  ctl.state \in {"Starting", "Validating", "Refreshing", "Disconnecting"}
    ~> ctl.state \in {"AwaitingUser", "Connected", "Disconnected", "Error", "ShuttingDown"}

(* send and recover_current: a claimed delivery ends, so its key is released and *)
(* its result reaches the coordinator.                                           *)
DeliveriesEnd == \A t \in Threads : chat[t].pc # "Idle" ~> chat[t].pc = "Idle"

(* Whatever is checked out has exactly one holder: the session that the owner    *)
(* lent, and every claimed report.                                               *)
HeldOnce == TwitchTypeOK /\ OneHolder /\ ClaimsAreHeld

(* Neither the connection nor a delivery is left half-way.                       *)
TwitchSettles == Settles /\ DeliveriesEnd
=============================================================================
