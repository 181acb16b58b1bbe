--------------------------- MODULE UploadSession ---------------------------
(***************************************************************************)
(* The upload coordinator inside the runtime that drives it: the           *)
(* application owner's tick (src/rust/src/application/runtime.rs), the     *)
(* pump and ingestion it calls (application_pump.rs, log_ingestion.rs),    *)
(* discovery's set of accepted identities and the durable upload history   *)
(* (config/history_store.rs), across crashes and restarts of the game.     *)
(*                                                                         *)
(* A tick runs in a fixed order, one phase after the other:                *)
(*   begin     settings are applied and the history is saved; if the save  *)
(*             fails the tick ends here                                    *)
(*   actions   the user's queued row actions                               *)
(*   metadata  results of the metadata parser                              *)
(*   results   provider results, then one sweep over the due retries       *)
(*   scan      newly stable files become jobs                              *)
(*   save      the history is saved again                                  *)
(* The process may disappear between any two steps.  "final" is an orderly *)
(* shutdown that has cancelled everything and is about to save, "down" a   *)
(* process that is not running.                                            *)
(***************************************************************************)
EXTENDS UploadCoordinator

CONSTANTS
  Files,            \* exact identities (path, size, write time) of stable log files
  Unstorable,       \* those the history document cannot hold: a file of size zero
  Selections,       \* the destination selections the settings may hold
  HistoryCapacity,  \* records the history keeps, 10,000 in the code
  WritesMayFail,    \* whether writing the history file may fail
  MayCrash,         \* whether the process may disappear without a shutdown
  Limits,           \* the values of the recent_log_limit setting
  MaxSessions       \* bound on the number of times the process is started

ASSUME SessionAssumption ==
  /\ Unstorable \subseteq Files
  /\ Selections \subseteq SUBSET Installed
  /\ HistoryCapacity \in Nat \ {0}
  /\ {WritesMayFail, MayCrash} \subseteq BOOLEAN
  /\ Limits \subseteq 1..MaxHistoryLimit
  /\ MaxHistoryLimit <= MaxId
  /\ MaxSessions \in Nat \ {0}

VARIABLES
  phase,       \* where the tick is
  files,       \* the identity behind every job id of this session
  known,       \* discovery: the accepted identities
  disk,        \* the history document, oldest record first
  saved,       \* whether the last save of this session went through
  sessions,    \* number of sessions started
  delivered,   \* observer: first automatic sends <<file, provider>> of all sessions
  succeeded,   \* observer: deliveries <<file, provider>> reported as successful
  touched      \* observer: identities the user acted on

runtime == <<phase, files, known, disk, saved, sessions>>
observers == <<delivered, succeeded, touched>>
allVars == <<vars, runtime, observers>>

Phases == {"begin", "actions", "metadata", "results", "scan", "save", "final", "down"}

Record == [file : Files, job : Job]

-----------------------------------------------------------------------------
(* What the observers see of a step of the coordinator.                    *)

FirstAutomatic ==
  {<<files[r.id], r.provider>> :
     r \in {s \in inflight' \ inflight :
              /\ s.intent = "Automatic"
              /\ jobs[s.id].job.st[s.provider] # "RetryDue"}}

Observe == delivered' = delivered \cup FirstAutomatic

-----------------------------------------------------------------------------
(* The history document.                                                   *)

FilesOn(d) == {d[i].file : i \in DOMAIN d}

Storable == \A id \in DOMAIN jobs : files[id] \notin Unstorable

RowOf(file) == {id \in DOMAIN jobs : files[id] = file}

Row(id) == [file |-> files[id], job |-> jobs[id].job]

(* The elements of a finite set of numbers, in their order.                *)
InOrder(S) ==
  [i \in 1..Cardinality(S) |-> CHOOSE x \in S : Cardinality({y \in S : y <= x}) = i]

RowsInOrder(S) == LET order == InOrder(S) IN [i \in DOMAIN order |-> Row(order[i])]

FreshRows == {id \in DOMAIN jobs : files[id] \notin FilesOn(disk)}

Updated ==
  [i \in DOMAIN disk |-> IF RowOf(disk[i].file) = {} THEN disk[i]
                         ELSE Row(CHOOSE id \in RowOf(disk[i].file) : TRUE)]

Newest(document) ==
  IF Len(document) > HistoryCapacity
  THEN SubSeq(document, Len(document) - HistoryCapacity + 1, Len(document))
  ELSE document

(* Mutant: records already in the document are not updated. *)
MergedNewOnly == disk \o RowsInOrder(FreshRows)

(* Mutant: every row is appended, whether it has a record or not. *)
MergedAppending == Newest(disk \o RowsInOrder(DOMAIN jobs))

(* merge_and_save: rows replace the record of their identity, new ones go  *)
(* to the end in row order, the oldest above capacity are dropped.         *)
Merged == Newest(Updated \o RowsInOrder(FreshRows))

SaveSucceeds(next) ==
  /\ Storable
  /\ disk' = Merged
  /\ saved' = TRUE
  /\ phase' = next
  /\ UNCHANGED <<vars, files, known, sessions, observers>>

(* Mutant: a tick whose first save has failed goes on. *)
SaveFailureIgnored(next) ==
  /\ Merged # disk
  /\ (~Storable \/ WritesMayFail)
  /\ saved' = FALSE
  /\ phase' = IF phase = "begin" THEN "actions" ELSE next
  /\ UNCHANGED <<vars, files, known, disk, sessions, observers>>

(* Validation rejects a row, or the write fails; the tick ends.            *)
SaveFails(next) ==
  /\ Merged # disk
  /\ (~Storable \/ WritesMayFail)
  /\ saved' = FALSE
  /\ phase' = next
  /\ UNCHANGED <<vars, files, known, disk, sessions, observers>>

-----------------------------------------------------------------------------
(* The tick.                                                               *)

ApplySettings ==
  /\ phase = "begin"
  /\ \E limit \in Limits : SetHistoryLimit(limit)
  /\ UNCHANGED <<runtime, observers>>

SaveBeforeWork ==
  /\ phase = "begin"
  /\ (SaveSucceeds("actions") \/ SaveFails("begin"))

Act(id) ==
  /\ phase = "actions"
  /\ UserAction(id)
  /\ Observe
  /\ touched' = touched \cup {files[id]}
  /\ UNCHANGED <<runtime, succeeded>>

(* The budgets of a tick let any number of results wait for the next one.  *)
Proceed ==
  /\ \E step \in {<<"actions", "metadata">>, <<"metadata", "results">>, <<"scan", "save">>} :
       phase = step[1] /\ phase' = step[2]
  /\ UNCHANGED <<vars, files, known, disk, saved, sessions, observers>>

HandleMetadata(id) ==
  /\ phase = "metadata"
  /\ TakeMetadata(id)
  /\ Observe
  /\ UNCHANGED <<runtime, succeeded, touched>>

HandleResult(r) ==
  /\ phase = "results"
  /\ \E outcome \in OutcomesOf(r.provider) :
       \/ /\ AcceptResult(r, outcome)
          /\ succeeded' = IF NextState(outcome) = "Succeeded"
                          THEN succeeded \cup {<<files[r.id], r.provider>>} ELSE succeeded
       \/ RejectResult(r, outcome) /\ UNCHANGED succeeded
  /\ Observe
  /\ UNCHANGED <<runtime, touched>>

(* The sweep ends the draining of work; the files are polled after it.     *)
Sweep ==
  /\ phase = "results"
  /\ phase' = "scan"
  /\ \/ DispatchDueRetries
     \/ Due = {} /\ UNCHANGED vars
  /\ Observe
  /\ UNCHANGED <<files, known, disk, saved, sessions, succeeded, touched>>

DeadlineReached ==
  /\ phase \notin {"final", "down"}
  /\ \E id \in Ids, p \in Providers : DeadlinePasses(id, p)
  /\ UNCHANGED <<runtime, observers>>

(* A stable file that is not known becomes a pending job.  A parser that   *)
(* refuses it after all leaves a failed row, which stays accepted.  If no  *)
(* job can be added the identity is released again and the tick goes on to *)
(* its end.                                                                *)
Submit(file) ==
  /\ phase = "scan"
  /\ file \notin known
  /\ \E enabled \in Selections :
       \/ /\ CanAdd(enabled)
          /\ \/ jobs' = WithPending(enabled)
             \/ jobs' = TrimTo([WithPending(enabled) EXCEPT ![nextId] = WithoutMetadata(@, FALSE)],
                               historyLimit)
          /\ nextId' = nextId + 1
          /\ files' = Append(files, file)
          /\ known' = known \cup {file}
          /\ UNCHANGED phase
       \/ ~CanAdd(enabled) /\ phase' = "save" /\ UNCHANGED <<jobs, nextId, files, known>>
  /\ UNCHANGED <<historyLimit, restored, stopping, inflight, disk, saved, sessions, observers>>

SaveAfterWork ==
  /\ phase = "save"
  /\ (SaveSucceeds("begin") \/ SaveFails("begin"))

-----------------------------------------------------------------------------
(* The life of the process.                                                *)

(* shutdown: everything is cancelled, then the history is saved once more. *)
Shutdown ==
  /\ phase = "begin"
  /\ phase' = "final"
  /\ CancelAll
  /\ UNCHANGED <<files, known, disk, saved, sessions, observers>>

Stopped(document) ==
  /\ phase' = "down"
  /\ jobs' = NoJobs
  /\ nextId' = 1
  /\ restored' = FALSE
  /\ stopping' = FALSE
  /\ inflight' = {}
  /\ files' = <<>>
  /\ known' = {}
  /\ disk' = document
  /\ saved' = FALSE
  /\ UNCHANGED <<historyLimit, sessions, observers>>

Exit ==
  /\ phase = "final"
  /\ \/ Storable /\ Stopped(Merged)
     \/ (~Storable \/ WritesMayFail) /\ Stopped(disk)

Crash ==
  /\ MayCrash
  /\ phase # "down"
  /\ Stopped(disk)

(* Mutant: discovery learns the identities of the restored rows only. *)
RetainedRows ==
  {disk[i].file : i \in {k \in DOMAIN disk : k > Len(disk) - historyLimit}}

Retained == FilesOn(disk)

(* restore_history: discovery learns every retained identity, the row      *)
(* table gets the newest ones.                                             *)
Start ==
  /\ phase = "down"
  /\ sessions < MaxSessions
  /\ phase' = "begin"
  /\ sessions' = sessions + 1
  /\ Restore([i \in DOMAIN disk |-> disk[i].job])
  /\ files' = [i \in DOMAIN jobs' |-> disk[Len(disk) - Cardinality(DOMAIN jobs') + i].file]
  /\ known' = Retained
  /\ UNCHANGED <<disk, saved, observers>>

SessionInit ==
  /\ Init
  /\ historyLimit \in Limits
  /\ phase = "down"
  /\ files = <<>>
  /\ known = {}
  /\ disk = <<>>
  /\ saved = FALSE
  /\ sessions = 0
  /\ delivered = {}
  /\ succeeded = {}
  /\ touched = {}

TickStep ==
  \/ SaveBeforeWork
  \/ Proceed
  \/ \E id \in Ids : HandleMetadata(id)
  \/ \E r \in inflight : HandleResult(r)
  \/ Sweep
  \/ \E file \in Files : Submit(file)
  \/ SaveAfterWork

SessionNext ==
  \/ TickStep
  \/ ApplySettings
  \/ \E id \in Ids : Act(id)
  \/ DeadlineReached
  \/ Shutdown
  \/ Exit
  \/ Crash
  \/ Start

SessionSpec == SessionInit /\ [][SessionNext]_allVars

(* The owner thread keeps ticking; a tick consumes at least one waiting    *)
(* metadata result and one waiting provider result (both budgets are at    *)
(* least 1), parser and providers answer, and a write of the history file  *)
(* that is tried again and again goes through in the end.                  *)
SessionFairness ==
  /\ SF_allVars(phase = "begin" /\ SaveSucceeds("actions"))
  /\ WF_allVars(Proceed)
  /\ WF_allVars(Sweep)
  /\ WF_allVars(SaveAfterWork)
  /\ SF_allVars(\E id \in Ids : HandleMetadata(id))
  /\ SF_allVars(\E r \in inflight : HandleResult(r))
  /\ WF_allVars(DeadlineReached)

FairSessionSpec == SessionSpec /\ SessionFairness

-----------------------------------------------------------------------------
(* Properties.                                                             *)

(* Rows and history records are unique by identity; merge_and_save refuses *)
(* a document with duplicates.                                             *)
DistinctIdentities ==
  /\ \A i, j \in DOMAIN jobs : files[i] = files[j] => i = j
  /\ \A i, j \in DOMAIN disk : disk[i].file = disk[j].file => i = j

(* The session's own variables stay in their types, every job id of the    *)
(* session has an identity, and no identity has two rows or two records,   *)
(* whatever was restored, evicted and submitted again.                     *)
SessionTypeOK ==
  /\ phase \in Phases
  /\ files \in Seq(Files) /\ Len(files) = nextId - 1
  /\ known \subseteq Files
  /\ disk \in Seq(Record) /\ Len(disk) <= HistoryCapacity
  /\ sessions \in 0..MaxSessions
  /\ delivered \cup succeeded \subseteq Files \X Providers
  /\ touched \subseteq Files
  /\ DistinctIdentities

(* A provider is asked to upload a log only after the identity of that log *)
(* is in the history file: a crash at any point leaves no delivery that    *)
(* the next session would not know of.  It needs a history with room for   *)
(* every log: a full one drops its oldest record, be its row busy or not.  *)
DispatchedIsDurable ==
  \A r \in inflight : files[r.id] \in FilesOn(disk)

(* Over all sessions, whatever crashes in between: a log the user never    *)
(* acted on is automatically sent to a destination at most once, the       *)
(* repetitions the destination itself asked for apart.                     *)
NoAutomaticResend ==
  [][\A d \in FirstAutomatic : d \in delivered => d[1] \in touched]_allVars

(* A DonBot delivery that succeeded is never followed by another one with  *)
(* the automatic intent, the only intent that carries Discord delivery.    *)
NoDiscordReplay ==
  [][\A d \in FirstAutomatic : d[2] = "DonBot" => d \notin succeeded]_allVars

(* A log that the history can hold settles once it is accepted; failed     *)
(* history writes only delay it.  Except where a log that the history      *)
(* cannot hold has a row for ever: its row makes every save fail, and a    *)
(* tick goes no further than its first save (finding 2 of the README).     *)
StorableRowsSettle ==
  \A file \in Files \ Unstorable :
    (\E id \in RowOf(file) : Busy(jobs[id]))
      ~> ((\A id \in RowOf(file) : ~Busy(jobs[id])) \/ []~Storable)
=============================================================================
