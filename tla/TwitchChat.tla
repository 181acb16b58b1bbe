------------------------------ MODULE TwitchChat ------------------------------
(* src/rust/src/providers/twitch/chat_worker.rs, chat_delivery.rs and            *)
(* test_message_worker.rs, src/rust/src/application/twitch_test_message.rs and   *)
(* src/rust/src/application/twitch_session_owner/recovery.rs: the threads that   *)
(* post to the chat, the ledger that keeps automatic requests from posting the   *)
(* same message twice, and the recovery of a rejected session inside a post.     *)
(* A thread holds no lock across a call to Twitch, so each call and what is done *)
(* with its answer are separate steps.                                           *)
EXTENDS TwitchSessionOwner

CONSTANTS
  Posters,         \* threads of the chat pool
  Tester,          \* the thread of the test message pool
  Keys,            \* (job, permalink) pairs
  LedgerCapacity   \* settled deliveries the ledger remembers, 256 in the code

ASSUME TwitchChatConstants == Tester \notin Posters /\ LedgerCapacity \in Nat \ {0}

VARIABLES
  chat,    \* per thread: where it is in a delivery
  ledger,  \* [settled, active]
  stop,    \* the pools have been told to stop
  test,    \* the test message controller: [state, pending, result]
  tally    \* history: per key, [posted, manual, forgotten]

chatVars == <<chat, ledger, stop, test, tally>>
Threads == Posters \cup {Tester}
TestKey == "test"

Resting ==
  [pc |-> "Idle", key |-> TestKey, attempt |-> 0, gen |-> 0, rev |-> 0, tx |-> 0,
   session |-> 0, out |-> "None"]
NewTest == [state |-> "Idle", pending |-> FALSE, result |-> "None"]
NewTally == [k \in Keys |-> [posted |-> 0, manual |-> 0, forgotten |-> 0]]

------------------------------------------------------------------------------
(* The ledger. *)
Settled(k) == \E i \in DOMAIN ledger.settled : ledger.settled[i] = k

Remembered(result) == result \in {"Sent", "Ambiguous"}

LedgerFinish(k, result) ==
  [active  |-> ledger.active \ {k},
   settled |-> IF ~Remembered(result) \/ Settled(k) THEN ledger.settled
               ELSE IF Len(ledger.settled) = LedgerCapacity THEN Append(Tail(ledger.settled), k)
               ELSE Append(ledger.settled, k)]

(* A delivery ends: the ledger for an upload, the controller's result for a test. *)
Finish(t, result) ==
  /\ chat' = [chat EXCEPT ![t] = Resting]
  /\ IF t = Tester
     THEN /\ test' = [test EXCEPT !.result = result]
          /\ UNCHANGED <<ledger, tally>>
     ELSE LET k == chat[t].key
              new == LedgerFinish(k, result)
              gone == {j \in Keys : Settled(j) /\ ~\E i \in DOMAIN new.settled : new.settled[i] = j}
          IN  /\ ledger' = new
              /\ tally' = [j \in Keys |->
                             [tally[j] EXCEPT !.forgotten = @ + IF j \in gone THEN 1 ELSE 0]]
              /\ UNCHANGED test
Go(t, step) == chat' = [chat EXCEPT ![t] = step] /\ UNCHANGED <<ledger, test, tally>>

------------------------------------------------------------------------------
(* Taking a request: claim the key, or answer from the ledger at once. *)
TakeRequest(t, k, manual) ==
  /\ chat[t].pc = "Idle" /\ ~stop /\ Event
  /\ IF k \in ledger.active \/ (~manual /\ Settled(k))
     THEN UNCHANGED <<chat, ledger, tally>>
     ELSE /\ ledger' = [ledger EXCEPT !.active = @ \cup {k}]
          /\ chat' = [chat EXCEPT ![t] = [Resting EXCEPT !.pc = "Acquire", !.key = k]]
          /\ tally' = [tally EXCEPT ![k].manual = @ + IF manual THEN 1 ELSE 0]
  /\ UNCHANGED <<service, superseded, faults, ownerVars, stop, test>>

(* The user asks for a test message; the controller shows a connection. *)
SendTest ==
  /\ ~stop /\ ~test.pending /\ Event
  /\ chat[Tester].pc = "Idle"
  /\ test' = [state |-> "Sending", pending |-> TRUE, result |-> "None"]
  /\ chat' = [chat EXCEPT ![Tester] = [Resting EXCEPT !.pc = "Acquire"]]
  /\ UNCHANGED <<service, superseded, faults, ownerVars, stop, ledger, tally>>

PollTest ==
  /\ test.pending /\ test.result # "None" /\ test.state # "ShuttingDown"
  /\ test' = [state |-> IF test.result = "Sent" THEN "Sent" ELSE "Error",
              pending |-> FALSE, result |-> "None"]
  /\ UNCHANGED <<apiVars, ownerVars, stop, chat, ledger, tally>>

(* acquire *)
Lease(t) ==
  IF stop \/ owner.stopping THEN Finish(t, "Cancelled")
  ELSE IF owner.pending # 0 THEN Finish(t, "Retry")
  ELSE IF owner.active = 0 THEN Finish(t, "Failed")
  ELSE Go(t, [chat[t] EXCEPT !.pc = "Send", !.gen = owner.active, !.rev = owner.revision])

Acquire(t) ==
  /\ chat[t].pc = "Acquire"
  /\ Lease(t)
  /\ UNCHANGED <<apiVars, ownerVars, stop>>

Send(t) ==
  /\ chat[t].pc = "Send"
  /\ IF stop
     THEN Finish(t, "Cancelled") /\ UNCHANGED apiVars
     ELSE \E answer \in Answers \cup {"dropped"}, delivered \in BOOLEAN :
            /\ CallSendChat(chat[t].gen, answer, delivered)
            /\ chat' = [chat EXCEPT ![t].pc = "Sent", ![t].out = answer]
            /\ tally' = IF t # Tester /\ delivered
                        THEN [tally EXCEPT ![chat[t].key].posted = @ + 1] ELSE tally
            /\ UNCHANGED <<ledger, test>>
  /\ UNCHANGED <<ownerVars, stop>>

(* Mutant: an answer nobody read counts as a failure that may be tried again. *)
SendFailureRetries(answer) ==
  IF answer \in {"limited"} \cup Unread THEN "Retry" ELSE "Failed"

SendFailure(answer) ==
  CASE answer = "limited" -> "Retry"
    [] answer \in {"denied", "unauthorized"} -> "Failed"
    [] OTHER -> "Ambiguous"

SendResult(answer) ==
  CASE answer = "done" -> "Sent"
    [] answer = "dropped" -> "Dropped"
    [] OTHER -> SendFailure(answer)

(* recover, up to the first call: take the session out, unless another holder  *)
(* has already replaced the rejected one.                                      *)
Recover(t) ==
  CASE ~Idle(owner) -> Finish(t, "Retry") /\ UNCHANGED owner
    [] Idle(owner) /\ (owner.active = 0 \/ chat[t].rev > owner.revision) ->
         Finish(t, "Failed") /\ UNCHANGED owner
    [] Idle(owner) /\ owner.active # 0 /\ chat[t].rev < owner.revision ->
         /\ Go(t, [chat[t] EXCEPT !.pc = "Send", !.attempt = 1, !.gen = owner.active,
                                  !.rev = owner.revision])
         /\ UNCHANGED owner
    [] OTHER ->
         IF chat[t].gen # owner.active THEN Finish(t, "Failed") /\ UNCHANGED owner
         ELSE /\ Go(t, [chat[t] EXCEPT !.pc = "Validate", !.tx = owner.next,
                                       !.session = owner.active])
              /\ owner' = Start(owner, TRUE)

AfterSend(t) ==
  /\ chat[t].pc = "Sent"
  /\ IF stop \/ chat[t].out # "unauthorized" \/ chat[t].attempt = 1
     THEN /\ Finish(t, IF stop THEN "Ambiguous" ELSE SendResult(chat[t].out))
          /\ UNCHANGED owner
     ELSE Recover(t)
  /\ UNCHANGED <<apiVars, saved, stop>>

------------------------------------------------------------------------------
(* recover_current: validate, refresh, save, validate again, take over. *)
Sessions == [owner |-> owner, saved |-> saved]
Settle(w) == owner' = w.owner /\ saved' = w.saved
Broken(t) == stop \/ ~Check(owner, chat[t].tx)

(* Mutant: a recovery cut short after the rotation puts the old session back. *)
EndFailedRecoveryRestores(t, result, restore, erase, io) ==
  /\ Settle(IF restore \/ result = "Cancelled"
            THEN Restore(Sessions, chat[t].tx, chat[t].session)
            ELSE Discard(Sessions, chat[t].tx, erase, io))
  /\ Finish(t, result)

EndFailedRecovery(t, result, restore, erase, io) ==
  /\ Settle(IF restore THEN Restore(Sessions, chat[t].tx, chat[t].session)
            ELSE Discard(Sessions, chat[t].tx, erase, io))
  /\ Finish(t, result)

(* Committed or discarded, and then a lease of the current session. *)
FinishRecovery(t, io) ==
  IF CommitFails(Sessions, chat[t].tx, io)
  THEN Settle(Discard(Sessions, chat[t].tx, FALSE, io)) /\ Finish(t, "Failed")
  ELSE /\ Settle(Commit(Sessions, chat[t].tx, chat[t].session, io))
       /\ Go(t, [chat[t] EXCEPT !.pc = "Reacquire", !.tx = 0])

RecoverValidate(t) ==
  /\ chat[t].pc \in {"Validate", "Revalidate"}
  /\ IF Broken(t)
     THEN /\ \E io \in Storage :
               /\ Fault(StorageFaults(io))
               /\ EndFailedRecovery(t, "Cancelled", chat[t].pc = "Validate", TRUE, io)
          /\ UNCHANGED <<service, superseded, events>>
     ELSE /\ \E answer \in Answers :
               /\ CallValidate(chat[t].session, answer)
               /\ Go(t, [chat[t] EXCEPT
                    !.pc = IF chat[t].pc = "Validate" THEN "Validated" ELSE "Revalidated",
                    !.out = IF answer = "mismatch" THEN answer
                            ELSE Disposition("Validate", answer)])
          /\ UNCHANGED ownerVars
  /\ UNCHANGED stop

RecoverValidated(t) ==
  /\ chat[t].pc = "Validated"
  /\ \E io \in Storage :
       /\ Fault(StorageFaults(io))
       /\ CASE Broken(t) -> EndFailedRecovery(t, "Cancelled", TRUE, FALSE, io)
            [] ~Broken(t) /\ chat[t].out = "Ok" -> FinishRecovery(t, io)
            [] ~Broken(t) /\ chat[t].out = "mismatch" ->
                 EndFailedRecovery(t, "Failed", FALSE, TRUE, io)
            [] ~Broken(t) /\ chat[t].out \in {"Retry", "Failed"} ->
                 EndFailedRecovery(t, chat[t].out, chat[t].out = "Retry", FALSE, io)
            [] OTHER -> Go(t, [chat[t] EXCEPT !.pc = "Refresh"]) /\ UNCHANGED ownerVars
  /\ UNCHANGED <<service, superseded, events, stop>>

RecoverRefresh(t) ==
  /\ chat[t].pc = "Refresh"
  /\ IF Broken(t)
     THEN EndFailedRecovery(t, "Cancelled", TRUE, FALSE, AllStored) /\ UNCHANGED apiVars
     ELSE /\ \E answer \in Answers, reply \in 0 .. service.last + 1 :
               /\ CallRefresh(chat[t].session, answer, reply)
               /\ Go(t, [chat[t] EXCEPT !.pc = "Refreshed", !.out = Disposition("Refresh", answer),
                                        !.gen = reply])
          /\ UNCHANGED ownerVars
  /\ UNCHANGED stop

(* A call that sees the stop itself ends as Cancelled whatever the service did, *)
(* and the session it borrowed goes back, as after the answer "lost", which     *)
(* stands for both.  A replacement that was received before the stop is         *)
(* discarded: the old session may be worthless by now.                          *)
RecoverRefreshed(t) ==
  /\ chat[t].pc = "Refreshed"
  /\ \E io \in Storage :
       /\ Fault(StorageFaults(io))
       /\ CASE chat[t].out # "Ok" ->
                 EndFailedRecovery(t, chat[t].out, chat[t].out = "Retry", TRUE, io)
            [] chat[t].out = "Ok" /\ Broken(t) ->
                 EndFailedRecovery(t, "Cancelled", FALSE, TRUE, io)
            [] OTHER ->
                 LET p == PersistPending(Sessions, chat[t].tx, chat[t].gen, io)
                 IN  IF PersistFails(Sessions, chat[t].tx, io)
                     THEN Settle(Discard(p, chat[t].tx, FALSE, io)) /\ Finish(t, "Failed")
                     ELSE /\ Settle(p)
                          /\ Go(t, [chat[t] EXCEPT !.pc = "Revalidate", !.session = chat[t].gen])
  /\ UNCHANGED <<service, superseded, events, stop>>

RecoverRevalidated(t) ==
  /\ chat[t].pc = "Revalidated"
  /\ \E io \in Storage :
       /\ Fault(StorageFaults(io))
       /\ IF Broken(t) \/ chat[t].out # "Ok"
          THEN EndFailedRecovery(t, IF stop THEN "Cancelled" ELSE "Failed", FALSE, TRUE, io)
          ELSE FinishRecovery(t, io)
  /\ UNCHANGED <<service, superseded, events, stop>>

(* The second and last attempt, with whatever session is current by now. *)
Reacquire(t) ==
  /\ chat[t].pc = "Reacquire"
  /\ IF stop \/ ~Idle(owner) \/ owner.active = 0 THEN Lease(t)
     ELSE Go(t, [chat[t] EXCEPT !.pc = "Send", !.attempt = 1, !.gen = owner.active,
                                !.rev = owner.revision])
  /\ UNCHANGED <<apiVars, ownerVars, stop>>

RecoverStep(t) ==
  RecoverValidate(t) \/ RecoverValidated(t) \/ RecoverRefresh(t) \/ RecoverRefreshed(t)
  \/ RecoverRevalidated(t)
DeliveryStep(t) == Acquire(t) \/ Send(t) \/ AfterSend(t) \/ RecoverStep(t) \/ Reacquire(t)

(* The pools are told to stop; the threads notice at their next check. *)
StopPools ==
  /\ ~stop /\ stop' = TRUE
  /\ test' = [state |-> "ShuttingDown", pending |-> FALSE, result |-> "None"]
  /\ UNCHANGED <<apiVars, ownerVars, chat, ledger, tally>>
=============================================================================
