------------------------- MODULE TwitchAuthentication -------------------------
(* src/rust/src/application/twitch_authentication_controller.rs with its        *)
(* results.rs, and src/rust/src/providers/twitch/authentication_worker.rs: the  *)
(* connection workflow of the application thread and the one thread that makes  *)
(* its calls.  Deadlines are choices: a step that waits for one may happen at   *)
(* any later tick.  The public snapshot is reduced to its state; the texts of   *)
(* diagnostics are left out.                                                    *)
EXTENDS TwitchSessionOwner

CONSTANT AuthCapacity   \* requests the worker queues, 1 in the composition

ASSUME AuthCapacityAssumption == AuthCapacity \in Nat

VARIABLES
  ctl,      \* the controller
  inbox,    \* requests the worker has not taken
  calling,  \* the request the worker has taken, and the answer once it is there
  results,  \* answers the controller has not taken
  enabled,  \* settings.twitch.enabled
  started   \* start_saved_connections has run in this process

authVars == <<ctl, inbox, calling, results, enabled, started>>

None == "None"
NewController ==
  [state |-> "Disconnected", tx |-> 0, request |-> 0, phase |-> None, gen |-> 0,
   rotated |-> FALSE, code |-> None, deferred |-> None, schedule |-> 0, next |-> 1,
   shut |-> FALSE]
NoCall == [id |-> 0, op |-> None, gen |-> 0, out |-> None, reply |-> 0]

Phases == {"Start", "Poll", "ValidateInitial", "ValidateSaved", "ValidateActive",
           "ValidateRotated", "Refresh", "Revoke"}
Validations == {"ValidateInitial", "ValidateSaved", "ValidateActive", "ValidateRotated"}
PhaseOperation(phase) == IF phase \in Validations THEN "Validate" ELSE phase
PhaseState(phase) ==
  CASE phase = "Start" -> "Starting"
    [] phase = "Poll" -> "AwaitingUser"
    [] phase = "Refresh" -> "Refreshing"
    [] phase = "Revoke" -> "Disconnecting"
    [] OTHER -> "Validating"

World == [ctl |-> ctl, owner |-> owner, saved |-> saved, inbox |-> inbox]
Become(w) == ctl' = w.ctl /\ owner' = w.owner /\ saved' = w.saved /\ inbox' = w.inbox

Reset(c) ==
  [c EXCEPT !.gen = 0, !.rotated = FALSE, !.code = None, !.request = 0, !.phase = None,
            !.deferred = None, !.schedule = 0]

(* Every failure ends the transaction and the flow. *)
Fail(w, erase, io) ==
  LET d == IF w.ctl.tx = 0 THEN w ELSE Discard(w, w.ctl.tx, erase, io)
  IN  [d EXCEPT !.ctl = [Reset(@) EXCEPT !.tx = 0, !.state = "Error"]]

(* Mutant: the transaction is closed and its record is kept. *)
FinishDisconnectKeeps(w, io) ==
  LET d == IF w.ctl.tx = 0 THEN EraseSaved(w, io) ELSE Discard(w, w.ctl.tx, FALSE, io)
  IN  [d EXCEPT !.ctl = [Reset(@) EXCEPT !.tx = 0, !.state = "Disconnected"]]

FinishDisconnect(w, io) ==
  LET d == IF w.ctl.tx = 0 THEN EraseSaved(w, io) ELSE Discard(w, w.ctl.tx, TRUE, io)
  IN  [d EXCEPT !.ctl = [Reset(@) EXCEPT !.tx = 0,
                          !.state = IF io.erase THEN "Disconnected" ELSE "Error"]]

Dispatch(w, phase, gen, io) ==
  IF Len(w.inbox) >= AuthCapacity
  THEN IF phase = "Revoke" THEN FinishDisconnect(w, io) ELSE Fail(w, w.ctl.rotated, io)
  ELSE [w EXCEPT !.ctl.request = w.ctl.next, !.ctl.next = @ + 1, !.ctl.phase = phase,
                 !.ctl.gen = 0, !.ctl.state = PhaseState(phase),
                 !.inbox = Append(@, [id |-> w.ctl.next, op |-> PhaseOperation(phase),
                                      gen |-> gen])]

Adopt(w, gen, restorable) ==
  [w EXCEPT !.ctl.tx = w.owner.next, !.ctl.gen = gen, !.ctl.rotated = FALSE,
            !.owner = Start(@, restorable)]

(* Connected, with the owner's revision to watch for. *)
SetConnected(w) ==
  [w EXCEPT !.ctl = [@ EXCEPT !.schedule = w.owner.revision, !.gen = 0, !.rotated = FALSE,
                              !.code = None, !.deferred = None, !.state = "Connected"]]

------------------------------------------------------------------------------
(* Commands of the user. *)
IdleConnection ==
  /\ ~ctl.shut /\ ctl.request = 0 /\ ctl.tx = 0
  /\ ctl.state \in {"Disconnected", "Error"}

BeginConnection ==
  /\ started /\ IdleConnection /\ Idle(owner) /\ owner.active = 0
  /\ Event /\ Fault(0)
  /\ Become(Dispatch([World EXCEPT !.ctl.tx = owner.next, !.owner = Start(@, FALSE)],
                     "Start", 0, AllStored))
  /\ UNCHANGED <<service, superseded, calling, results, enabled, started>>

(* Once per process, when the add-on has loaded. *)
BeginSavedConnection ==
  /\ ~started /\ IdleConnection
  /\ started' = TRUE
  /\ \/ /\ Fault(0)
        /\ Become(IF saved = 0 THEN World
                  ELSE LET w == Adopt(World, saved, FALSE)
                       IN  Dispatch(w, "ValidateSaved", saved, AllStored))
     \/ /\ Fault(1)   \* the record cannot be read or decoded
        /\ Become(Fail(World, FALSE, AllStored))
  /\ UNCHANGED <<service, superseded, events, calling, results, enabled>>

Disconnect ==
  /\ started /\ ~ctl.shut /\ ctl.request = 0 /\ Event
  /\ enabled' = FALSE
  /\ \E io \in Storage, record \in {"good", "unreadable", "undecodable"} :
       LET calm == [World EXCEPT !.ctl.code = None, !.ctl.deferred = None]
           loads == ctl.tx = 0 /\ owner.active = 0 /\ saved # 0
           w == IF ctl.tx # 0 THEN calm
                ELSE IF owner.active # 0 THEN Adopt(calm, owner.active, TRUE)
                ELSE IF loads /\ record = "good" THEN Adopt(calm, saved, FALSE) ELSE calm
       IN  /\ record # "good" => loads
           /\ Fault(StorageFaults(io) + IF record = "good" THEN 0 ELSE 1)
           /\ Become(IF (ctl.tx = 0 /\ ~Idle(owner)) \/ record = "unreadable" THEN calm
                     ELSE IF w.ctl.gen # 0 THEN Dispatch(w, "Revoke", w.ctl.gen, io)
                     ELSE FinishDisconnect(w, io))
  /\ UNCHANGED <<service, superseded, calling, results, started>>

EnablePosting ==
  /\ ~enabled /\ ctl.state = "Connected" /\ Event
  /\ enabled' = TRUE
  /\ UNCHANGED <<service, superseded, faults, ownerVars, ctl, inbox, calling, results, started>>

------------------------------------------------------------------------------
(* The worker thread: it takes a request, calls, and queues the answer. *)
WorkerTakes ==
  /\ calling.id = 0 /\ inbox # <<>>
  /\ calling' = [id |-> Head(inbox).id, op |-> Head(inbox).op, gen |-> Head(inbox).gen,
                 out |-> None, reply |-> 0]
  /\ inbox' = Tail(inbox)
  /\ UNCHANGED <<apiVars, ownerVars, ctl, results, enabled, started>>

WorkerCalls ==
  /\ calling.id # 0 /\ calling.out = None
  /\ \E answer \in Answers \cup {"pending"}, reply \in 0 .. service.last + 1 :
       /\ CASE calling.op = "Start" -> CallStart(answer) /\ reply = 0
            [] calling.op = "Poll" -> CallPoll(answer, reply)
            [] calling.op = "Validate" -> CallValidate(calling.gen, answer) /\ reply = 0
            [] calling.op = "Refresh" -> CallRefresh(calling.gen, answer, reply)
            [] calling.op = "Revoke" -> CallRevoke(calling.gen, answer) /\ reply = 0
       /\ calling' = [calling EXCEPT !.reply = reply,
            !.out = IF answer \in {"pending", "mismatch"} THEN answer
                    ELSE Disposition(calling.op, answer)]
  /\ UNCHANGED <<ownerVars, ctl, inbox, results, enabled, started>>

WorkerAnswers ==
  /\ calling.out # None
  /\ results' = Append(results, calling)
  /\ calling' = NoCall
  /\ UNCHANGED <<apiVars, ownerVars, ctl, inbox, enabled, started>>

------------------------------------------------------------------------------
(* One tick of the controller. *)
AcceptValidation(w, gen, io) ==
  LET c == Commit(w, w.ctl.tx, gen, io)
  IN  IF CommitFails(w, w.ctl.tx, io) THEN Fail(w, w.ctl.rotated, io)
      ELSE SetConnected([c EXCEPT !.ctl.tx = 0])

AcceptRotation(w, gen, io) ==
  LET r == [w EXCEPT !.ctl.rotated = TRUE]
      p == PersistPending(r, w.ctl.tx, gen, io)
  IN  IF PersistFails(r, w.ctl.tx, io) THEN Fail(p, TRUE, io)
      ELSE Dispatch(p, "ValidateRotated", gen, io)

(* Mutant: a validation to be repeated is not put on the clock. *)
HandleFailureForgets(w, phase, r, io) ==
  IF r.out = "Retry" THEN [w EXCEPT !.ctl.gen = r.gen] ELSE Fail(w, FALSE, io)

HandleFailure(w, phase, r, io) ==
  IF phase = "Revoke" THEN FinishDisconnect(w, io)
  ELSE IF phase = "Poll" /\ r.out = "Retry"
  THEN [w EXCEPT !.ctl.code = "Held", !.ctl.state = "AwaitingUser"]
  ELSE IF phase \notin Validations \cup {"Refresh"} THEN Fail(w, FALSE, io)
  ELSE IF r.out = "Retry"
  THEN [w EXCEPT !.ctl.gen = r.gen, !.ctl.deferred = phase, !.ctl.state = PhaseState(phase)]
  ELSE IF r.out = "Reconnect" /\ phase \in {"ValidateSaved", "ValidateActive"}
  THEN Dispatch(w, "Refresh", r.gen, io)
  ELSE Fail(w, phase \in {"Refresh", "ValidateRotated"}, io)

HandleResult(w, phase, r, io) ==
  IF r.out \in {"Retry", "Reconnect", "Failed"} THEN HandleFailure(w, phase, r, io)
  ELSE IF phase = "Start" THEN [w EXCEPT !.ctl.code = "Held", !.ctl.state = "AwaitingUser"]
  ELSE IF phase = "Poll"
  THEN IF r.out = "pending" THEN [w EXCEPT !.ctl.code = "Held"]
       ELSE Dispatch([w EXCEPT !.ctl.code = None], "ValidateInitial", r.reply, io)
  ELSE IF phase \in Validations
  THEN IF r.out = "mismatch" THEN Fail(w, TRUE, io) ELSE AcceptValidation(w, r.gen, io)
  ELSE IF phase = "Refresh" THEN AcceptRotation(w, r.reply, io)
  ELSE FinishDisconnect(w, io)

TickFrame == UNCHANGED <<service, superseded, events, calling, enabled, started>>

TickExpired ==
  /\ ~ctl.shut /\ ctl.code # None
  /\ Become(Fail(World, FALSE, AllStored)) /\ Fault(0)
  /\ TickFrame /\ UNCHANGED results

TickResult ==
  /\ ~ctl.shut /\ results # <<>>
  /\ results' = Tail(results)
  /\ IF Head(results).id # ctl.request
     THEN Become(World) /\ Fault(0)
     ELSE \E io \in Storage :
            LET w == [World EXCEPT !.ctl.request = 0, !.ctl.phase = None]
            IN  Fault(StorageFaults(io)) /\ Become(HandleResult(w, ctl.phase, Head(results), io))
  /\ TickFrame

TickQuiet == ~ctl.shut /\ results = <<>> /\ ctl.request = 0

TickDeferred ==
  /\ TickQuiet /\ ctl.deferred # None
  /\ \E io \in Storage :
       /\ Fault(StorageFaults(io))
       /\ Become(Dispatch([World EXCEPT !.ctl.deferred = None], ctl.deferred, ctl.gen, io))
  /\ TickFrame /\ UNCHANGED results

TickPoll ==
  /\ TickQuiet /\ ctl.deferred = None /\ ctl.code # None
  /\ IF ctl.code = "Held"
     THEN Become(Dispatch([World EXCEPT !.ctl.code = "Sent"], "Poll", 0, AllStored))
     ELSE Become(Fail(World, FALSE, AllStored))
  /\ Fault(0) /\ TickFrame /\ UNCHANGED results

Watching ==
  /\ TickQuiet /\ ctl.deferred = None /\ ctl.code = None
  /\ ctl.schedule # 0 /\ ctl.state \in {"Connected", "Validating"}

(* Follow what a chat recovery does with the shared session. *)
TickWatch ==
  /\ Watching
  /\ Become(IF Updating(owner) THEN [World EXCEPT !.ctl.state = "Validating"]
            ELSE IF owner.stopping \/ owner.active = 0 THEN Fail(World, FALSE, AllStored)
            ELSE SetConnected(World))
  /\ Fault(0) /\ TickFrame /\ UNCHANGED results

(* The hourly validation and the refresh before the access token ends. *)
TickSchedule ==
  /\ Watching /\ Event
  /\ ctl.state = "Connected" /\ ctl.schedule = owner.revision
  /\ Idle(owner) /\ owner.active # 0
  /\ \E phase \in {"Refresh", "ValidateActive"} :
       Become(Dispatch(Adopt(World, owner.active, TRUE), phase, owner.active, AllStored))
  /\ Fault(0)
  /\ UNCHANGED <<service, superseded, calling, results, enabled, started>>

Tick == TickExpired \/ TickResult \/ TickDeferred \/ TickPoll \/ TickWatch \/ TickSchedule

(* Shutdown of the controller: a disconnect under way is completed, the owner   *)
(* forgets the session, and the worker is cancelled and joined.                 *)
AuthShutdown ==
  /\ ~ctl.shut
  /\ \E io \in Storage :
       LET w == IF ctl.state = "Disconnecting" THEN FinishDisconnect(World, io) ELSE World
       IN  /\ Fault(StorageFaults(io))
           /\ Become([w EXCEPT !.owner = OwnerShutdown(@), !.inbox = <<>>,
                !.ctl = [Reset(@) EXCEPT !.tx = 0, !.state = "ShuttingDown", !.shut = TRUE]])
  /\ calling' = NoCall /\ results' = <<>>
  /\ UNCHANGED <<service, superseded, events, enabled, started>>
=============================================================================
