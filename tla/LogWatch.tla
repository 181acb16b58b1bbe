------------------------------ MODULE LogWatch ------------------------------
(***************************************************************************)
(* How a log file gets from the directory to the upload jobs: the owner's  *)
(* tick applies the requested selection and settings                       *)
(* (application/runtime.rs, log_selection.rs), and the pump                *)
(* (application_pump.rs) polls the source and passes what it sees through  *)
(* discovery.  Time advances in units while the owner waits; the owner     *)
(* ticks at least once per unit.                                           *)
(***************************************************************************)
EXTENDS LogSource

CONSTANTS
  Requests,          \* what the user may ask for: mode, recursion, candidate limit, stability
  PollInterval,      \* poll_interval_ms, in units of time
  RefreshInterval    \* REFRESH_INTERVAL, in the same units

Request == [mode : {"New", "Last24Hours"}, recursive : BOOLEAN, limit : 1..PendingLimit,
            stability : Stability]

ASSUME WatchAssumption ==
  /\ Requests \subseteq Request /\ Requests # {}
  /\ {PollInterval, RefreshInterval} \subseteq Nat \ {0}
  /\ FileVersions \subseteq Versions

VARIABLES
  phase,         \* "wait", "apply", "poll", "scan", "observe"
  requested,     \* the selection and settings the user asked for
  untilPoll,     \* time to next_poll
  sinceRefresh,  \* time since the rolling cutoff was last moved
  submitted,     \* identities handed to the ingestion
  forgotten,     \* observer: accepted identities that made room for others
  polled         \* observer: the directory when the poll under way began, else Unpolled

owner == <<phase, requested, untilPoll, sinceRefresh>>
watchObservers == <<submitted, forgotten, polled>>
watchVars == <<discovery, source, owner, watchObservers>>

Unpolled == [p \in Paths |-> Gone]

EndPoll == phase' = "wait" /\ polled' = Unpolled

Minimum(S) == CHOOSE x \in S : \A y \in S : x <= y

-----------------------------------------------------------------------------
(* The user and the directory.                                             *)

WorldStep ==
  /\ \/ \E p \in Paths : Write(p) \/ Delete(p)
     \/ RootChanges
  /\ UNCHANGED <<discovery, owner, watchObservers>>

Ask ==
  /\ changes < MaxChanges
  /\ \E r \in Requests \ {requested} : requested' = r
  /\ changes' = changes + 1
  /\ UNCHANGED <<discovery, directory, root, faults, monitor, notifying, options, retained, unread,
                 batch, phase, untilPoll, sinceRefresh, watchObservers>>

-----------------------------------------------------------------------------
(* apply_configuration.                                                    *)

TimePasses ==
  /\ phase = "wait"
  /\ phase' = "apply"
  /\ untilPoll' = IF untilPoll = 0 THEN 0 ELSE untilPoll - 1
  /\ sinceRefresh' = Minimum({sinceRefresh + 1, RefreshInterval})
  /\ UNCHANGED <<discovery, source, requested, watchObservers>>

Desired == [mode |-> requested.mode, recursive |-> requested.recursive, limit |-> requested.limit]

(* Mutant: the rolling cutoff moves with every tick. *)
ProposedEveryTick ==
  \/ requested.mode # options.mode
  \/ requested.mode = "Last24Hours"

(* propose: switching the mode moves the cutoff, and so does the rolling   *)
(* window once a minute.                                                   *)
Proposed ==
  \/ requested.mode # options.mode
  \/ requested.mode = "Last24Hours" /\ sinceRefresh >= RefreshInterval

SourceChanges == Desired # options \/ Proposed

StabilityChanges == requested.stability # required

(* A new source or a new threshold starts the observations again, at once. *)
ApplyConfiguration ==
  /\ phase = "apply"
  /\ IF SourceChanges THEN Reconfigure(Desired) ELSE UNCHANGED source
  /\ sinceRefresh' = IF Proposed THEN 0 ELSE sinceRefresh
  /\ required' = requested.stability
  /\ pending' = IF SourceChanges \/ StabilityChanges THEN Cleared ELSE pending
  /\ untilPoll' = IF SourceChanges \/ StabilityChanges THEN 0 ELSE untilPoll
  /\ phase' = IF untilPoll' = 0 THEN "poll" ELSE "wait"
  /\ UNCHANGED <<requested, accepted, known, watchObservers>>

(* The source refuses its new options: the tick ends with everything as it *)
(* was, and the next tick tries again.                                     *)
ApplyFails ==
  /\ phase = "apply" /\ SourceChanges
  /\ Fault
  /\ phase' = "wait"
  /\ UNCHANGED <<discovery, world, monitor, notifying, options, retained, unread, batch,
                 requested, untilPoll, sinceRefresh, watchObservers>>

-----------------------------------------------------------------------------
(* ApplicationPump::tick.                                                  *)

Poll ==
  /\ phase = "poll"
  /\ untilPoll' = PollInterval
  /\ polled' = directory
  /\ \/ PollUnchanged /\ phase' = "observe"
     \/ PollAndScan /\ phase' = "scan"
  /\ UNCHANGED <<discovery, requested, sinceRefresh, submitted, forgotten>>

Scan ==
  /\ phase = "scan"
  /\ OpenRoot \/ \E p \in Paths : ReadEntry(p) \/ EntryFails(p)
  /\ UNCHANGED <<discovery, owner, watchObservers>>

ScanEndsInError ==
  /\ phase = "scan"
  /\ ScanFails
  /\ EndPoll
  /\ UNCHANGED <<discovery, requested, untilPoll, sinceRefresh, submitted, forgotten>>

(* What has gone is forgotten before anything is observed.                 *)
Deliver ==
  /\ phase = "scan"
  /\ FinishScan
  /\ ForgetPending(batch'.removed)
  /\ phase' = "observe"
  /\ UNCHANGED <<requested, untilPoll, sinceRefresh, watchObservers>>

NextFile == CHOOSE file \in batch.seen : \A other \in batch.seen : file[1] <= other[1]

(* One observation, in path order.  A refused submission and a full        *)
(* discovery end the tick.                                                 *)
Observe ==
  /\ phase = "observe" /\ batch.seen # {}
  /\ LET file == NextFile
         rest == [batch EXCEPT !.seen = @ \ {file}]
     IN \/ /\ ObserveKnown(file) \/ ObserveUnstable(file)
           /\ batch' = rest
           /\ UNCHANGED <<faults, phase, submitted, forgotten, polled>>
        \/ /\ ObserveStable(file)
           /\ batch' = rest
           /\ submitted' = submitted \cup {file}
           /\ forgotten' = IF Len(accepted) = HistoryLimit
                           THEN (forgotten \cup {Head(accepted)}) \ {file} ELSE forgotten \ {file}
           /\ UNCHANGED <<faults, phase, polled>>
        \/ /\ IF Admissible(file) THEN ObserveAndRelease(file) /\ Fault
              ELSE ObserveRefused(file) /\ UNCHANGED faults
           /\ batch' = NoBatch
           /\ EndPoll
           /\ forgotten' = forgotten \cup (known \ known')
           /\ UNCHANGED submitted
  /\ UNCHANGED <<world, monitor, notifying, options, retained, unread, requested, untilPoll,
                 sinceRefresh>>

(* The batch is done, or the parser has no room for more.                  *)
EndTick ==
  /\ phase = "observe"
  /\ IF batch.seen = {} THEN UNCHANGED faults ELSE Fault
  /\ EndPoll
  /\ batch' = NoBatch
  /\ UNCHANGED <<discovery, world, monitor, notifying, options, retained, unread, requested,
                 untilPoll, sinceRefresh, submitted, forgotten>>

WatchInit ==
  /\ requested \in Requests
  /\ DiscoveryInit
  /\ required = requested.stability
  /\ SourceInit(Desired)
  /\ phase = "poll"
  /\ untilPoll = 0 /\ sinceRefresh = 0
  /\ submitted = {} /\ forgotten = {}
  /\ polled = Unpolled

OwnerStep ==
  \/ TimePasses \/ ApplyConfiguration \/ ApplyFails \/ Poll
  \/ Scan \/ ScanEndsInError \/ Deliver \/ Observe \/ EndTick

WatchNext == WorldStep \/ Ask \/ OwnerStep

WatchSpec == WatchInit /\ [][WatchNext]_watchVars

(* The owner thread never stops ticking.                                   *)
FairWatchSpec == WatchSpec /\ WF_watchVars(OwnerStep)

-----------------------------------------------------------------------------
(* Properties.                                                             *)

(* Every part keeps its type, and discovery's list and set of accepted     *)
(* identities agree.                                                       *)
WatchTypeOK ==
  /\ DiscoveryTypeOK /\ SourceTypeOK
  /\ phase \in {"wait", "apply", "poll", "scan", "observe"}
  /\ requested \in Requests
  /\ untilPoll \in 0..PollInterval /\ sinceRefresh \in 0..RefreshInterval
  /\ submitted \cup forgotten \subseteq Identity

Accepted == known' \ known

(* A file is submitted                                                     *)
(*  - only in a state it was in when the poll began: repeated observations *)
(*    from the cache prove as much as a scan would, and a file that is     *)
(*    still being written is left alone;                                   *)
(*  - only from the selected window and the watched directories, whatever  *)
(*    was observed before the selection changed;                           *)
(*  - a second time only after the list of accepted identities was full    *)
(*    and had to forget it.                                                *)
SubmissionsAreSound ==
  [][\A file \in Accepted :
       /\ polled[file[1]] = file[2]
       /\ InWindow(file[2]) /\ (options.recursive \/ file[1] \notin Nested)
       /\ file \in submitted => file \in forgotten]_watchVars

(* A scan that could not read everything does not restart the observations *)
(* of a file that is as it was.                                            *)
ScansKeepStability ==
  [][phase = "scan" =>
       \A p \in PendingPaths :
         root = "present" /\ directory[p] = pending[p].version /\ polled[p] = pending[p].version
           => pending'[p] = pending[p]]_watchVars

(* Every file under observation is in the snapshot of the source, which    *)
(* will report its removal: the table of files under observation stays     *)
(* within the candidate limit and never has to refuse a file.              *)
PendingIsTracked ==
  /\ PendingPaths \subseteq retained
  /\ Cardinality(PendingPaths) <= options.limit

(* Every part keeps its type, and what is under observation is tracked.    *)
WatchIsTracked == WatchTypeOK /\ PendingIsTracked

Wanted(p) ==
  /\ directory[p] # Gone
  /\ requested.mode = "Last24Hours" \/ directory[p] # Before
  /\ requested.recursive \/ p \notin Nested

(* The polls that reach the threshold fit between two refreshes of the     *)
(* rolling window: each refresh starts the observations again. Settings    *)
(* are accepted for which they do not fit.                                 *)
ObservationsFit ==
  requested.mode = "Last24Hours" => (requested.stability - 1) * PollInterval < RefreshInterval

Unsubmitted(p) ==
  /\ root = "present" /\ Wanted(p)
  /\ Cardinality({q \in Paths : Wanted(q)}) <= requested.limit
  /\ ObservationsFit
  /\ <<p, directory[p]>> \notin submitted

(* A file that is in the window and can be read does not wait forever for  *)
(* its submission, in either selection mode, under settings whose          *)
(* observations fit between two refreshes. It says nothing of the rolling  *)
(* window under other settings (poll_interval_ms up to 60000 and           *)
(* stability_observations up to 10, against the refresh of every 60 s):    *)
(* there the program submits no file at all.                               *)
StableFilesAreSubmitted ==
  \A p \in Paths : Unsubmitted(p) ~> ~Unsubmitted(p)
=============================================================================
