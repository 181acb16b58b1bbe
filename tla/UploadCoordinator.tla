------------------------- MODULE UploadCoordinator -------------------------
(***************************************************************************)
(* The upload coordinator of                                               *)
(* src/rust/src/application/upload_coordinator.rs: the one owner of every  *)
(* job.  It admits logs, routes them to the provider ports once their      *)
(* encounter metadata is known, holds dependents back until dps.report     *)
(* has answered, applies results, repeats what a provider asked to repeat, *)
(* serves the user's Retry, Reupload and Rechat, and evicts old rows.      *)
(*                                                                         *)
(* The coordinator runs on one thread, so each of its methods is one       *)
(* action.  What it cannot control is nondeterministic: whether a port     *)
(* accepts a request, which outcome a request has, in which order results  *)
(* come back, when a retry deadline passes.  A call that returns an error  *)
(* before it changed anything is a stuttering step and has no action.      *)
(***************************************************************************)
EXTENDS UploadJob, FiniteSets, Sequences

CONSTANTS
  MaxId,             \* u64::MAX in the code: the last job id
  MaxHistoryLimit,   \* MAX_HISTORY_LIMIT, 10,000 in the code
  MaxRetries,        \* the pump's max_retries: dispatches per retry sweep
  Installed,         \* the provider ports the coordinator was built with
  Records,           \* the job records a previous session may have left
  Outcomes,          \* the outcomes the provider ports may report
  EnqueueOutcomes    \* what an enqueue call may do

Ids == 1..MaxId

AllOutcomes == {"Succeeded", "SucceededBare", "Skipped", "RetryAfter", "Failed",
                "TwitchDropped", "Cancelled", "Malformed"}

(* Panicked: the port took the request and then panicked, so that the      *)
(* coordinator believes it was refused.                                    *)
AllEnqueueOutcomes == {"Accepted", "Refused", "Panicked"}

ASSUME CoordinatorAssumption ==
  /\ MaxId \in Nat
  /\ MaxHistoryLimit \in Nat \ {0}
  /\ MaxRetries \in Nat \ {0}
  /\ Installed \subseteq Providers
  /\ Records \subseteq Job
  /\ Outcomes \subseteq AllOutcomes
  /\ EnqueueOutcomes \subseteq AllEnqueueOutcomes

(* What every record written by the program satisfies: a report exactly    *)
(* where dps.report succeeded, receipts only where they were delivered.    *)
ReportKept(job) ==
  /\ job.report = IF job.st["DpsReport"] = "Succeeded" THEN job.att["DpsReport"] ELSE 0
  /\ job.st["DpsReport"] \in {"Active", "Succeeded"} => job.att["DpsReport"] # 0

ReceiptsKept(job) ==
  \A d \in DEPENDENTS :
    /\ job.receipt[d] = "Recorded" => job.st[d] = "Succeeded"
    /\ job.receipt[d] = "Dropped" => d = "Twitch" /\ job.st[d] = "Failed"

ASSUME RecordsAssumption == \A record \in Records : ReportKept(record) /\ ReceiptsKept(record)

VARIABLES
  jobs,          \* the retained entries by job id (ids only grow, so id order is queue order)
  nextId,        \* next_id; MaxId + 1 stands for None
  historyLimit,  \* history_limit
  restored,      \* restored
  stopping,      \* stopping
  inflight       \* the requests the ports hold and have not answered

vars == <<jobs, nextId, historyLimit, restored, stopping, inflight>>

Intents == {"Automatic", "ManualRetry", "Reupload", "Rechat"}

Entry == [job : Job, pending : BOOLEAN, intents : [Providers -> Intents], reupload : BOOLEAN]

(* acked: enqueue returned Ok, so the coordinator counts on an answer.     *)
Request == [id : Ids, provider : Providers, attempt : 1..AttemptLimit,
            intent : Intents, report : 0..AttemptLimit, acked : BOOLEAN]

NewEntry(job, pending) ==
  [job |-> job, pending |-> pending, intents |-> [p \in Providers |-> "Automatic"],
   reupload |-> FALSE]

Busy(e) == e.pending \/ \E p \in Providers : e.job.st[p] \in BusyStates

-----------------------------------------------------------------------------
(* The row table.                                                          *)

Put(js, id, e) == [i \in DOMAIN js \cup {id} |-> IF i = id THEN e ELSE js[i]]

Idle(js) == {i \in DOMAIN js : ~Busy(js[i])}

(* trim_to: the oldest idle rows go, as few as bring the table to limit.   *)
Kept(js, limit) ==
  {i \in DOMAIN js :
     \/ Busy(js[i])
     \/ Cardinality({k \in Idle(js) : k <= i}) + limit > Cardinality(DOMAIN js)}

TrimTo(js, limit) == [i \in Kept(js, limit) |-> js[i]]

-----------------------------------------------------------------------------
(* Dispatch.  It acts on an accumulator: the entry and the requests that   *)
(* have been handed to ports so far in the same call.                      *)

DependencyMet(job, p) ==
  \/ p = "DpsReport"
  \/ p # "Twitch" /\ job.st["DpsReport"] = "Disabled"
  \/ HasReport(job)

Settles(e, d) == d # "Twitch" \/ ~e.reupload

SettleDependents(e, state) ==
  [e EXCEPT !.job.st =
     [p \in Providers |-> IF p \in DEPENDENTS /\ Settles(e, p) /\ @[p] = "Waiting"
                          THEN state ELSE @[p]]]

(* Mutant: the dependents of a failed dps.report are left waiting. *)
FailDispatchAlone(e, p) == [e EXCEPT !.job = TryTransition(@, p, "Failed")]

FailDispatch(e, p) ==
  LET failed == [e EXCEPT !.job = TryTransition(@, p, "Failed")]
  IN IF p = "DpsReport" THEN SettleDependents(failed, "Skipped") ELSE failed

RequestOf(id, e, p, acked) ==
  [id |-> id, provider |-> p, attempt |-> e.job.att[p], intent |-> e.intents[p],
   report |-> IF p = "DpsReport" THEN 0 ELSE e.job.report, acked |-> acked]

Admissible(job, p) ==
  /\ job.meta # "None"
  /\ p \in Installed
  /\ DependencyMet(job, p)
  /\ CanTransition(job, p, "Active")

Dispatch(id, acc, p, answer) ==
  LET e      == acc.entry
      active == [e EXCEPT !.job = Moved(@, p, "Active")]
  IN IF p = "Wingman" /\ e.job.meta = "WvW"
     THEN [acc EXCEPT !.entry.job = TryTransition(@, "Wingman", "Skipped")]
     ELSE IF ~Admissible(e.job, p)
     THEN [acc EXCEPT !.entry = FailDispatch(e, p)]
     ELSE [entry |-> IF answer = "Accepted" THEN active ELSE FailDispatch(active, p),
           sent  |-> IF answer = "Refused" THEN acc.sent
                     ELSE acc.sent \cup {RequestOf(id, active, p, answer = "Accepted")}]

(* Dispatch of the providers P of one entry, in the order of Provider::ALL *)
DispatchEach(id, e, P, answers) ==
  LET Step(acc, p) == IF p \in P THEN Dispatch(id, acc, p, answers[p]) ELSE acc
  IN Step(Step(Step(Step([entry |-> e, sent |-> {}],
          "DpsReport"), "Wingman"), "DonBot"), "Twitch")

WaitingIn(e, P) == {p \in P : e.job.st[p] = "Waiting"}

-----------------------------------------------------------------------------
(* Admission.                                                              *)

CanAdd(enabled) ==
  /\ ~stopping
  /\ enabled \subseteq Installed
  /\ nextId \in Ids
  /\ CanCreate(enabled)
  /\ Cardinality(DOMAIN jobs \ Idle(jobs)) < historyLimit

WithPending(enabled) ==
  Put(TrimTo(jobs, historyLimit - 1), nextId, NewEntry(NewJob(enabled), TRUE))

AddPending(enabled) ==
  /\ CanAdd(enabled)
  /\ jobs' = WithPending(enabled)
  /\ nextId' = nextId + 1
  /\ UNCHANGED <<historyLimit, restored, stopping, inflight>>

(* pending_index: what set_metadata and fail_metadata ask of the row.      *)
MetadataPending(id) ==
  /\ id \in DOMAIN jobs
  /\ jobs[id].pending
  /\ jobs[id].job.meta = "None"
  /\ \A p \in Providers : jobs[id].job.st[p] \in {"Waiting", "Disabled"}

SkipWingmanOnWvW(e) ==
  IF e.job.meta = "WvW" /\ e.job.st["Wingman"] = "Waiting"
  THEN [e EXCEPT !.job = Moved(@, "Wingman", "Skipped")] ELSE e

SetMetadata(id, meta) ==
  /\ ~stopping
  /\ MetadataPending(id)
  /\ LET e == SkipWingmanOnWvW([jobs[id] EXCEPT !.job.meta = meta, !.pending = FALSE])
         P == IF e.job.st["DpsReport"] = "Waiting" THEN {"DpsReport"}
              ELSE WaitingIn(e, {"Wingman", "DonBot"})
     IN \E answers \in [P -> EnqueueOutcomes] :
          LET done == DispatchEach(id, e, P, answers)
          IN /\ jobs' = TrimTo(Put(jobs, id, done.entry), historyLimit)
             /\ inflight' = inflight \cup done.sent
  /\ UNCHANGED <<nextId, historyLimit, restored, stopping>>

WithoutMetadata(e, cancelled) ==
  LET state == IF cancelled THEN "Cancelled" ELSE "Failed"
  IN [e EXCEPT !.pending = FALSE,
               !.job.st = [p \in Providers |-> IF @[p] = "Waiting" THEN state ELSE @[p]]]

(* Mutant: the row table is not trimmed. *)
FailMetadataUntrimmed(id, cancelled) ==
  /\ ~stopping
  /\ MetadataPending(id)
  /\ jobs' = Put(jobs, id, WithoutMetadata(jobs[id], cancelled))
  /\ UNCHANGED <<nextId, historyLimit, restored, stopping, inflight>>

FailMetadata(id, cancelled) ==
  /\ ~stopping
  /\ MetadataPending(id)
  /\ jobs' = TrimTo(Put(jobs, id, WithoutMetadata(jobs[id], cancelled)), historyLimit)
  /\ UNCHANGED <<nextId, historyLimit, restored, stopping, inflight>>

-----------------------------------------------------------------------------
(* Results.                                                                *)

(* The outcomes the port of provider p can express.                        *)
OutcomesOf(p) ==
  Outcomes \ (IF p = "Twitch" THEN {"SucceededBare"}
              ELSE IF p = "DpsReport" THEN {"SucceededBare", "TwitchDropped"}
              ELSE {"TwitchDropped"})

(* Succeeded with a receipt and TwitchDropped store one.                   *)
StoresReceipt(p, outcome) ==
  p # "DpsReport" /\ outcome \in {"Succeeded", "TwitchDropped"}

(* Mutant: the attempt of the result is not compared. *)
AcceptableAnyAttempt(r, outcome) ==
  /\ r.id \in DOMAIN jobs
  /\ jobs[r.id].job.st[r.provider] = "Active"
  /\ outcome # "Malformed"
  /\ StoresReceipt(r.provider, outcome) => CanRecord(jobs[r.id].job, r.provider)

Acceptable(r, outcome) ==
  /\ r.id \in DOMAIN jobs
  /\ jobs[r.id].job.st[r.provider] = "Active"
  /\ jobs[r.id].job.att[r.provider] = r.attempt
  /\ outcome # "Malformed"
  /\ StoresReceipt(r.provider, outcome) => CanRecord(jobs[r.id].job, r.provider)

(* The state an accepted outcome leads to.                                 *)
NextState(outcome) ==
  CASE outcome \in {"Succeeded", "SucceededBare"} -> "Succeeded"
    [] outcome = "RetryAfter" -> "RetryScheduled"
    [] outcome \in {"Failed", "TwitchDropped"} -> "Failed"
    [] OTHER -> outcome

AppliedJob(job, p, outcome) ==
  LET kept == IF StoresReceipt(p, outcome)
              THEN RecordReceipt(job, p, IF outcome = "Succeeded" THEN "Recorded" ELSE "Dropped")
              ELSE job
  IN IF p = "DpsReport" /\ outcome = "Succeeded"
     THEN CompleteDpsReport(job)
     ELSE Moved(kept, p, NextState(outcome))

(* Once dps.report has succeeded its waiting dependents are dispatched.    *)
Released(e, p, outcome) ==
  IF p = "DpsReport" /\ outcome = "Succeeded"
  THEN {d \in WaitingIn(e, DEPENDENTS) : Settles(e, d)} ELSE {}

AfterResult(e, p, outcome) ==
  IF p = "DpsReport" /\ NextState(outcome) \in {"Failed", "Skipped", "Cancelled"}
  THEN SettleDependents(e, IF outcome = "Cancelled" THEN "Cancelled" ELSE "Skipped")
  ELSE e

AcceptResult(r, outcome) ==
  /\ ~stopping
  /\ Acceptable(r, outcome)
  /\ LET e == [jobs[r.id] EXCEPT !.job = AppliedJob(@, r.provider, outcome)]
         P == Released(e, r.provider, outcome)
     IN \E answers \in [P -> EnqueueOutcomes] :
          LET done == DispatchEach(r.id, AfterResult(e, r.provider, outcome), P, answers)
          IN /\ jobs' = TrimTo(Put(jobs, r.id, done.entry), historyLimit)
             /\ inflight' = (inflight \ {r}) \cup done.sent
  /\ UNCHANGED <<nextId, historyLimit, restored, stopping>>

(* A result of no active attempt, or one that fails validation, is         *)
(* consumed and changes nothing.                                           *)
RejectResult(r, outcome) ==
  /\ ~stopping
  /\ ~Acceptable(r, outcome)
  /\ inflight' = inflight \ {r}
  /\ UNCHANGED <<jobs, nextId, historyLimit, restored, stopping>>

-----------------------------------------------------------------------------
(* Scheduled retries.                                                      *)

(* The steady clock passes a deadline.                                     *)
DeadlinePasses(id, p) ==
  /\ id \in DOMAIN jobs
  /\ jobs[id].job.st[p] = "RetryScheduled"
  /\ jobs' = [jobs EXCEPT ![id].job.st[p] = "RetryDue"]
  /\ UNCHANGED <<nextId, historyLimit, restored, stopping, inflight>>

Rank(p) == CASE p = "DpsReport" -> 0 [] p = "Wingman" -> 1 [] p = "DonBot" -> 2 [] OTHER -> 3

DueAt(id) == {p \in Providers : jobs[id].job.st[p] = "RetryDue"}

Due == UNION {{<<id, p>> : p \in DueAt(id)} : id \in DOMAIN jobs}

Before(a, b) == a[1] < b[1] \/ (a[1] = b[1] /\ Rank(a[2]) < Rank(b[2]))

(* Mutant: the sweep stops one retry early. *)
SweptShort == {d \in Due : Cardinality({c \in Due : Before(c, d)}) + 1 < MaxRetries}

(* The first MaxRetries of them in row and provider order.                 *)
Swept == {d \in Due : Cardinality({c \in Due : Before(c, d)}) < MaxRetries}

DispatchDueRetries ==
  /\ ~stopping
  /\ Due # {}
  /\ \E answers \in [Swept -> EnqueueOutcomes] :
       LET done == [id \in DOMAIN jobs |->
                      DispatchEach(id, jobs[id], {p \in Providers : <<id, p>> \in Swept},
                                   [p \in {q \in Providers : <<id, q>> \in Swept}
                                      |-> answers[<<id, p>>]])]
       IN /\ jobs' = TrimTo([id \in DOMAIN jobs |-> done[id].entry], historyLimit)
          /\ inflight' = inflight \cup UNION {done[id].sent : id \in DOMAIN jobs}
  /\ UNCHANGED <<nextId, historyLimit, restored, stopping>>

-----------------------------------------------------------------------------
(* User actions.  None of them trims.                                      *)

(* The job a failed-provider retry starts from.  After a Reupload the      *)
(* dps.report retry re-arms the skipped uploads and leaves Twitch alone.   *)
RetryJob(e, p) ==
  LET waiting == Moved(e.job, p, "Waiting")
      Rearm(job, d) == IF job.st[d] = "Skipped" THEN PrepareExplicitDelivery(job, d) ELSE job
  IN IF p = "DpsReport" /\ e.reupload
     THEN Rearm(Rearm(waiting, "Wingman"), "DonBot")
     ELSE PrepareManualRetry(e.job, p)

(* Mutant: a manual retry keeps the automatic intent. *)
RetrySameIntent(intent) == intent

RetryIntent(intent) == IF intent = "Reupload" THEN intent ELSE "ManualRetry"

(* The common end of the user actions: commit the prepared entry, send it. *)
DispatchNow(id, e, p) ==
  /\ \E answer \in EnqueueOutcomes :
       LET done == DispatchEach(id, e, {p}, [x \in {p} |-> answer])
       IN /\ jobs' = Put(jobs, id, done.entry)
          /\ inflight' = inflight \cup done.sent
  /\ UNCHANGED <<nextId, historyLimit, restored, stopping>>

RetryFailed(id, p) ==
  /\ ~stopping
  /\ id \in DOMAIN jobs
  /\ jobs[id].job.meta # "None"
  /\ p \in Installed
  /\ DependencyMet(jobs[id].job, p)
  /\ CanRetryManually(jobs[id].job, p)
  /\ DispatchNow(id, [jobs[id] EXCEPT !.job = RetryJob(jobs[id], p),
                                      !.intents[p] = RetryIntent(@)], p)

ReuploadEntry(e) ==
  SkipWingmanOnWvW(
    [e EXCEPT !.job = PrepareExplicitDelivery(PrepareExplicitDelivery(
                        PrepareExplicitDelivery(@, "DpsReport"), "Wingman"), "DonBot"),
              !.reupload = TRUE,
              !.intents = [p \in Providers |-> IF p \in UPLOADS THEN "Reupload" ELSE @[p]]])

Reupload(id) ==
  /\ ~stopping
  /\ UPLOADS \subseteq Installed
  /\ id \in DOMAIN jobs
  /\ \A p \in UPLOADS : CanDeliverExplicitly(jobs[id].job, p)
  /\ DispatchNow(id, ReuploadEntry(jobs[id]), "DpsReport")

Rechat(id) ==
  /\ ~stopping
  /\ "Twitch" \in Installed
  /\ id \in DOMAIN jobs
  /\ DependencyMet(jobs[id].job, "Twitch")
  /\ CanDeliverExplicitly(jobs[id].job, "Twitch")
  /\ DispatchNow(id, [jobs[id] EXCEPT !.job = PrepareExplicitDelivery(@, "Twitch"),
                                      !.intents["Twitch"] = "Rechat"], "Twitch")

-----------------------------------------------------------------------------
(* Lifecycle.                                                              *)

(* The newest historyLimit records become idle rows; nothing is dispatched *)
Restore(records) ==
  LET skip == IF Len(records) > historyLimit THEN Len(records) - historyLimit ELSE 0
      kept == Len(records) - skip
  IN /\ ~stopping
     /\ ~restored
     /\ nextId = 1
     /\ DOMAIN jobs = {}
     /\ jobs' = [id \in 1..kept |-> NewEntry(RestoredJob(records[skip + id]), FALSE)]
     /\ nextId' = kept + 1
     /\ restored' = TRUE
     /\ UNCHANGED <<historyLimit, stopping, inflight>>

SetHistoryLimit(limit) ==
  /\ historyLimit' = limit
  /\ jobs' = TrimTo(jobs, limit)
  /\ UNCHANGED <<nextId, restored, stopping, inflight>>

(* cancel_all.  No result is read once stopping is set, so what the ports  *)
(* still hold is dropped.                                                  *)
CancelledEntry(e) ==
  [e EXCEPT !.pending = FALSE,
            !.job.st = [p \in Providers |-> IF @[p] \in BusyStates THEN "Cancelled" ELSE @[p]]]

CancelAll ==
  /\ ~stopping
  /\ stopping' = TRUE
  /\ jobs' = TrimTo([id \in DOMAIN jobs |-> CancelledEntry(jobs[id])], historyLimit)
  /\ inflight' = {}
  /\ UNCHANGED <<nextId, historyLimit, restored>>

-----------------------------------------------------------------------------
NoJobs == [id \in {} |-> NewEntry(NewJob({}), FALSE)]

Init ==
  /\ jobs = NoJobs
  /\ nextId = 1
  /\ historyLimit \in 1..MaxHistoryLimit
  /\ restored = FALSE
  /\ stopping = FALSE
  /\ inflight = {}

TakeMetadata(id) ==
  \/ \E meta \in {"PvE", "WvW"} : SetMetadata(id, meta)
  \/ \E cancelled \in BOOLEAN : FailMetadata(id, cancelled)

TakeResult(r) ==
  \E outcome \in OutcomesOf(r.provider) : AcceptResult(r, outcome) \/ RejectResult(r, outcome)

UserAction(id) ==
  \/ \E p \in Providers : RetryFailed(id, p)
  \/ Reupload(id)
  \/ Rechat(id)

Next ==
  \/ \E enabled \in SUBSET Installed : AddPending(enabled)
  \/ \E id \in Ids : TakeMetadata(id)
  \/ \E r \in inflight : TakeResult(r)
  \/ \E id \in Ids, p \in Providers : DeadlinePasses(id, p)
  \/ DispatchDueRetries
  \/ \E id \in Ids : UserAction(id)
  \/ \E n \in 0..MaxId : \E records \in [1..n -> Records] : Restore(records)
  \/ \E limit \in 1..MaxHistoryLimit : SetHistoryLimit(limit)
  \/ CancelAll

Spec == Init /\ [][Next]_vars

-----------------------------------------------------------------------------
(* Properties.                                                             *)

(* Every variable stays in its type: in particular attempt numbers and ids *)
(* never leave the integer widths the code gives them.                     *)
TypeOK ==
  /\ DOMAIN jobs \subseteq Ids
  /\ jobs \in [DOMAIN jobs -> Entry]
  /\ nextId \in 1..(MaxId + 1)
  /\ historyLimit \in 1..MaxHistoryLimit
  /\ restored \in BOOLEAN
  /\ stopping \in BOOLEAN
  /\ inflight \subseteq Request

(* No row is stranded: a destination that waits (dispatch, apply_result,   *)
(* retry_failed and reupload all leave some waiting) is waited for by a    *)
(* pending metadata parse or by a dps.report attempt that is under way or  *)
(* scheduled, and dps.report itself never waits once metadata is known.    *)
WaitingHasWaker ==
  \A id \in DOMAIN jobs :
    LET e == jobs[id]
    IN \A p \in Providers :
         e.job.st[p] = "Waiting" =>
           \/ e.pending
           \/ p # "DpsReport" /\ e.job.st["DpsReport"] \in {"Active"} \cup ScheduledStates

(* A port holds an acknowledged request exactly when that attempt is the   *)
(* active one of a retained row: no row is left Active with no answer to   *)
(* come, and no row is evicted or re-armed under a delivery in flight.     *)
ActiveIffInFlight ==
  /\ \A id \in DOMAIN jobs, p \in Providers :
       jobs[id].job.st[p] = "Active" =>
         \E r \in inflight : /\ r.acked /\ r.id = id /\ r.provider = p
                             /\ r.attempt = jobs[id].job.att[p]
  /\ \A r \in inflight :
       r.acked => /\ r.id \in DOMAIN jobs
                  /\ jobs[r.id].job.st[r.provider] = "Active"
                  /\ r.attempt = jobs[r.id].job.att[r.provider]

(* A Wingman or DonBot delivery in flight carries the report the row still *)
(* has, or none where dps.report is not selected: a Reupload, a retry of   *)
(* dps.report or a late result never supersedes a report under it.         *)
UploadsUseCurrentReport ==
  \A r \in inflight :
    r.acked /\ r.provider \in {"Wingman", "DonBot"} =>
      /\ r.report = jobs[r.id].job.report
      /\ jobs[r.id].job.st["DpsReport"] =
           IF r.report = 0 THEN "Disabled" ELSE "Succeeded"

(* A report is retained exactly while dps.report is Succeeded, and it is   *)
(* the one of the latest attempt: no result of an older attempt is kept.   *)
ReportIsLatest ==
  \A id \in DOMAIN jobs :
    LET job == jobs[id].job
    IN job.report = IF job.st["DpsReport"] = "Succeeded" THEN job.att["DpsReport"] ELSE 0

(* The link a row shows, the link its deliveries carry and the last upload *)
(* to dps.report are the same, through every Retry and Reupload.           *)
ReportsAreCurrent == ReportIsLatest /\ UploadsUseCurrentReport

(* trim_to runs wherever a row can become idle, so that the table exceeds  *)
(* the history limit only by rows that are all busy.                       *)
OverLimitOnlyBusy ==
  Cardinality(DOMAIN jobs) > historyLimit => Idle(jobs) = {}

(* A request that the user did not ask for is the first attempt of its     *)
(* destination or the repetition of an attempt that asked to be repeated:  *)
(* a settled or ambiguous delivery is never sent again automatically.      *)
NoAutomaticReplay ==
  [][\A r \in inflight' \ inflight :
       r.intent = "Automatic" /\ r.attempt > 1 =>
         jobs[r.id].job.st[r.provider] = "RetryDue"]_vars

(* Eviction takes the oldest idle rows, and enough of them: a row that     *)
(* stays is busy or newer than every evicted one, and afterwards the table *)
(* is over its limit only by rows that are all busy.                       *)
EvictsOldestIdle ==
  [][/\ OverLimitOnlyBusy'
     /\ \A gone \in DOMAIN jobs \ DOMAIN jobs', id \in DOMAIN jobs \cap DOMAIN jobs' :
          id < gone => Busy(jobs'[id])]_vars

-----------------------------------------------------------------------------
(* The inductive invariant behind WaitingHasWaker, ActiveIffInFlight,      *)
(* UploadsUseCurrentReport and ReportIsLatest.                             *)

Under == {"Active"} \cup ScheduledStates

(* A row whose metadata has not arrived.                                   *)
PendingInv(e) ==
  /\ e.job.meta = "None"
  /\ \A p \in Providers : e.job.st[p] \in {"Waiting", "Disabled"}
  /\ e.job.st["Twitch"] = "Waiting" => e.job.st["DpsReport"] = "Waiting"
  /\ ~e.reupload

(* A row in the middle of a call that has yet to dispatch the providers P. *)
RoutedInv(e, P) ==
  /\ ~e.pending
  /\ e.job.meta = "None" => \A p \in Providers : e.job.st[p] \notin BusyStates
  /\ e.job.st["DpsReport"] = "Waiting" => "DpsReport" \in P
  /\ \A d \in DEPENDENTS :
       e.job.st[d] = "Waiting" =>
         d \in P \/ "DpsReport" \in P \/ e.job.st["DpsReport"] \in Under
  /\ \A d \in {"Wingman", "DonBot"} :
       e.job.st[d] \in Under => e.job.st["DpsReport"] \in {"Disabled", "Succeeded"}
  /\ e.reupload => e.job.st["Twitch"] # "Waiting" \/ "Twitch" \in P
  /\ \A p \in P : e.job.st[p] # "Active"

RowInv(e) ==
  /\ ReportKept(e.job)
  /\ ReceiptsKept(e.job)
  /\ IF e.pending THEN PendingInv(e) ELSE RoutedInv(e, {})

(* The requests R of a row: one for each attempt, none ahead of the row;   *)
(* the acknowledged ones are its active attempts.                          *)
Matched(id, e, R) ==
  /\ \A p \in Providers :
       e.job.st[p] = "Active" =>
         \E r \in R : /\ r.acked /\ r.id = id /\ r.provider = p
                      /\ r.attempt = e.job.att[p]
  /\ \A r \in R :
       r.id = id /\ r.acked =>
         /\ e.job.st[r.provider] = "Active"
         /\ r.attempt = e.job.att[r.provider]
         /\ r.provider \in {"Wingman", "DonBot"} => r.report = e.job.report
  /\ \A r \in R : r.id = id => r.attempt <= e.job.att[r.provider]
  /\ \A r, s \in R :
       r.id = id /\ s.id = id /\ r.provider = s.provider /\ r.attempt = s.attempt => r = s

IndInv ==
  /\ TypeOK
  /\ \A id \in DOMAIN jobs : RowInv(jobs[id]) /\ Matched(id, jobs[id], inflight)
  /\ \A r \in inflight : r.id < nextId /\ (r.acked => r.id \in DOMAIN jobs)
  /\ \A id \in DOMAIN jobs : id < nextId
=============================================================================
