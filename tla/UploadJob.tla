----------------------------- MODULE UploadJob -----------------------------
(***************************************************************************)
(* The per-log job record of src/rust/src/domain/upload_job.rs: one        *)
(* provider status per delivery destination, the results that were         *)
(* retained, and the transitions the job accepts.  Every operation of the  *)
(* Rust type returns Result; here its guard is an operator Can... and its  *)
(* effect an operator of its own, so that a caller that ignores the error  *)
(* (let _ = ...) is written TryTransition.                                 *)
(*                                                                         *)
(* Data that no property tells apart is abstracted: encounter metadata is  *)
(* its WvW flag, a dps.report result is the number of the attempt that     *)
(* produced it (0 stands for None), a receipt is the fact that it is there *)
(* (for Twitch, with its Sent/Dropped status), a retry deadline is whether *)
(* it has passed.                                                          *)
(***************************************************************************)
EXTENDS Naturals

CONSTANT AttemptLimit   \* u32::MAX in the code: the largest attempt number

ASSUME AttemptLimitAssumption == AttemptLimit \in Nat \ {0}

-----------------------------------------------------------------------------
(* Providers and their states.                                             *)

Providers == {"DpsReport", "Wingman", "DonBot", "Twitch"}

UPLOADS == {"DpsReport", "Wingman", "DonBot"}

DEPENDENTS == {"Wingman", "DonBot", "Twitch"}

(* RetryScheduled(deadline): "RetryScheduled" before, "RetryDue" after it. *)
ScheduledStates == {"RetryScheduled", "RetryDue"}

BusyStates == {"Waiting", "Active"} \cup ScheduledStates

States == BusyStates \cup {"Disabled", "Succeeded", "Skipped", "Failed", "Cancelled"}

Metadata == {"None", "PvE", "WvW"}

Receipts == {"None", "Recorded", "Dropped"}

Job == [meta    : Metadata,
        st      : [Providers -> States],
        att     : [Providers -> 0..AttemptLimit],
        report  : 0..AttemptLimit,
        receipt : [DEPENDENTS -> Receipts]]

Allows(state) ==
  CASE state = "Waiting" -> {"Active", "Skipped", "Failed", "Cancelled"}
    [] state = "Active" -> {"Succeeded", "Skipped", "RetryScheduled", "Failed", "Cancelled"}
    [] state \in ScheduledStates -> {"Active", "Failed", "Cancelled"}
    [] state = "Failed" -> {"Waiting", "Cancelled"}
    [] OTHER -> {}

-----------------------------------------------------------------------------
(* Construction.                                                           *)

CanCreate(enabled) == "Twitch" \in enabled => "DpsReport" \in enabled

NewJob(enabled) ==
  [meta    |-> "None",
   st      |-> [p \in Providers |-> IF p \in enabled THEN "Waiting" ELSE "Disabled"],
   att     |-> [p \in Providers |-> 0],
   report  |-> 0,
   receipt |-> [p \in DEPENDENTS |-> "None"]]

(* A record of an earlier session: whatever was busy was interrupted.      *)
RestoredJob(record) ==
  [record EXCEPT !.st = [p \in Providers |-> IF record.st[p] \in BusyStates
                                             THEN "Failed" ELSE record.st[p]]]

-----------------------------------------------------------------------------
(* Transitions.                                                            *)

HasReport(job) == job.st["DpsReport"] = "Succeeded" /\ job.report # 0

(* Mutant: no check of the attempt number. *)
CanTransitionUnlimited(job, p, next) ==
  /\ next \in Allows(job.st[p])
  /\ ~(p = "DpsReport" /\ next = "Succeeded")
  /\ p = "Twitch" /\ next = "Active" => HasReport(job)
  /\ p = "Twitch" /\ next = "Succeeded" => job.receipt["Twitch"] = "Recorded"

CanTransition(job, p, next) ==
  /\ next \in Allows(job.st[p])
  /\ ~(p = "DpsReport" /\ next = "Succeeded")
  /\ p = "Twitch" /\ next = "Active" => HasReport(job)
  /\ p = "Twitch" /\ next = "Succeeded" => job.receipt["Twitch"] = "Recorded"
  /\ next = "Active" => job.att[p] < AttemptLimit

Moved(job, p, next) ==
  [job EXCEPT !.st[p]  = next,
              !.att[p] = IF next = "Active" THEN @ + 1 ELSE @]

TryTransition(job, p, next) ==
  IF CanTransition(job, p, next) THEN Moved(job, p, next) ELSE job

CompleteDpsReport(job) ==
  [job EXCEPT !.st["DpsReport"] = "Succeeded", !.report = job.att["DpsReport"]]

(* record_wingman_upload, record_donbot_upload and record_twitch_delivery. *)
CanRecord(job, p) == job.st[p] = "Active" /\ job.receipt[p] = "None"

RecordReceipt(job, p, receipt) == [job EXCEPT !.receipt[p] = receipt]

-----------------------------------------------------------------------------
(* What the user may ask for again.                                        *)

CanRetryManually(job, p) == job.st[p] = "Failed"

PrepareManualRetry(job, p) ==
  LET waiting == Moved(job, p, "Waiting")
      rearmed == {d \in DEPENDENTS : /\ p = "DpsReport"
                                     /\ job.report = 0
                                     /\ job.st[d] = "Skipped"}
  IN [waiting EXCEPT !.st = [d \in Providers |-> IF d \in rearmed THEN "Waiting" ELSE @[d]],
                     !.receipt["Twitch"] = IF p = "Twitch" THEN "None" ELSE @]

(* Mutant: a busy destination may be re-armed. *)
CanDeliverBusy(job, p) == job.meta # "None" /\ (p = "Twitch" => job.report # 0)

CanDeliverExplicitly(job, p) ==
  /\ job.meta # "None"
  /\ job.st[p] \notin BusyStates
  /\ p = "Twitch" => job.report # 0

PrepareExplicitDelivery(job, p) ==
  [job EXCEPT !.st[p]    = "Waiting",
              !.report   = IF p = "DpsReport" THEN 0 ELSE @,
              !.receipt  = [d \in DEPENDENTS |-> IF d = p THEN "None" ELSE @[d]]]
=============================================================================
