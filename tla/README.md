# Verification of MannyUploader

MannyUploader is a Guild Wars 2 addon (Rust, loaded by the Nexus host) that watches the arcdps log
directory, uploads every finished log to dps.report, GW2Wingman and DonBot, posts a message to Twitch
chat, and keeps a durable history so that nothing is delivered twice by itself. This directory holds
TLA+ models of its control logic, the TLC runs that check them, and TLAPS proofs about them. Paths below
are relative to `src/`.

## 1. Inventory

| Part | State | Operations | Hard behaviour |
|---|---|---|---|
| Upload job (`domain/upload_job.rs`) | metadata, provider states, attempts, report, receipts | create, restore, transition, record, prepare retry / explicit delivery | illegal orders of transitions, attempt counter at its limit |
| Upload coordinator (`application/upload_coordinator.rs`) | row queue, next id, limit, intents, reupload flag, ports | add, metadata, results, retry sweep, Retry, Reupload, Rechat, restore, limit, cancel | late and lost results, dependents waiting for dps.report, eviction under load |
| Provider ports and workers (`providers/*`) | captured requests, chat ledger, remote upload sessions | enqueue, take result, configure, cancel | ambiguous outcomes, cancellation during a send |
| Worker pool (`workers.rs`) | request and result queues, tickets, parallelism, stop flag | enqueue, take, resize, cancel, join | lost wakeups, publication order, shutdown against blocked threads |
| Ingestion and pump (`application/log_ingestion.rs`, `application_pump.rs`) | pending metadata set, discovery | submit, drain, scan, restore | partial failure between accepting and enqueueing |
| Discovery and log sources (`domain/log_discovery.rs`, `filesystem/*_log_source.rs`) | pending matches, accepted identities, cached batch | observe, seed, release, reconcile | stability from repeated observations, bounded memory of identities |
| Application runtime (`application/runtime.rs`) | applied settings, published snapshot, last saved records | tick, apply configuration, persist, shutdown | order of saving and dispatching, crash between two steps |
| Upload history (`config/history_*.rs`) | records on disk | load, merge and save | failed writes, invalid documents |
| Recent-log actions, options (`recent_log_actions.rs`, `nexus_options_controller.rs`) | command queues, revisions | submit, tick, shutdown | interface thread against owner thread |
| DonBot configuration and aggregate (`donbot_configuration.rs`, `donbot_aggregate.rs`) | verification, revisions, one request in flight | verify, refresh, submit, result | stale revisions, ambiguous sends |
| Twitch session, authentication, chat (`twitch_session_owner.rs`, `twitch_authentication_controller.rs`, `providers/twitch/*`) | active session, pending transaction, leases, ledger | checkout, persist, commit, restore, discard, recover, send | rotating tokens against crashes, several workers recovering at once |
| Settings, secrets, files (`config/*_store.rs`, `filesystem/file_store.rs`) | files and backups | load, save, erase | crash inside a replacement |
| Callback gate and addon lifecycle (`addon/callback_gate.rs`, `rust/addon/src/runtime.rs`) | admission word, registered resources, owner thread | open, enter, leave, close, wait, load, unload | callbacks in flight while the DLL is unloaded |
| HTTP, EVTC, UI models, native adapters | none that outlives a call | pure I/O, parsing, presentation | not modelled |

Threads: one application owner thread runs the tick and owns the coordinator, pump, history and
controllers. Every provider, the parser and the Twitch and DonBot helpers have a worker pool of their own.
Render and input callbacks of the host run on host threads; they read published snapshots and push value
commands into bounded queues.

What makes each part correct:

* job and coordinator: a result is applied to the attempt it answers or to none; nothing waits for ever;
  an upload carries the report the row shows; only the user repeats a settled delivery; only idle rows are
  evicted, oldest first;
* tick, history and discovery: no request leaves before its log is durable, over any crash; a success that
  is still in a row is saved; identities are unique;
* pools: every admitted request is answered once, in completion order, within the bounds, and every thread
  ends when told to;
* gate: no callback runs, or touches host or runtime, once unload has released them;
* watching: what is submitted was stable, wanted and not submitted before, and every such file is
  submitted if the settings leave time to observe it;
* Twitch: one holder of the session, memory and storage agree, a rotated or disconnected session never
  returns, no report is posted twice by itself;
* options and DonBot: saved settings, key and verification agree after every step; what is sent goes where
  the screen said; nothing stays "sending" for ever;
* storage: settings, secrets and history survive failing calls and power failures at every point;
* clients: no upload is recorded and no log announced twice, a success is real, and every upload ends.

## 2. Modules

| Module | Models |
|---|---|
| `UploadJob` | the job record and its transitions, as operators |
| `UploadCoordinator` | the coordinator, one action per method, over nondeterministic ports |
| `UploadSession` | the coordinator inside the tick, with history file, crashes and restarts |
| `SavedSession` | `UploadSession` with an observer of the successes whose row went before a save |
| `WorkerPool` | one pool: its threads, its owner, the mutex and the condition variable |
| `AnswerPool` | what a pool promises its owner; `WorkerPool` implements it |
| `CallbackGate` | the admission word, one action per atomic instruction |
| `AddonLifecycle` | load and unload against host callbacks, over `CallbackGate` |
| `LogDiscovery` | stability counting and the bounded list of accepted identities |
| `LogSource` | the log directory, the change monitor, the cached and the scanning source |
| `LogWatch` | selection, poll timer and pump over the two above |
| `TwitchApi` | the Twitch client and the service's view of its tokens |
| `TwitchSessionOwner` | the one session and its transactions |
| `TwitchAuthentication` | the connection workflow and its worker thread |
| `TwitchChat` | chat threads, ledger, recovery of a rejected session, test message |
| `TwitchService` | all of Twitch over one owner and one saved record, with crashes and restarts |
| `DonBotConfiguration` | settings, key and the verification workflow |
| `DonBotAggregate` | the aggregate command, its controller and its worker |
| `AddonOptions` | command queues, the tick around them, publication, unload |
| `FileStore` | atomic replacement and removal, call by call, with power failures |
| `HistoryDocument` | the history document: times, paths, codes, validation, merging |
| `AddonStorage` | settings with backup, secrets and history over `FileStore` |
| `ProviderClients` | the three upload clients, call by call, beside their services |
| `MC...` | the instances TLC checks |
| `UploadSessionProofs` (`UploadCoordinator` too), `WorkerPoolProofs`, `AddonLifecycleProofs` (`CallbackGate` too), `LogWatchProofs`, `TwitchServiceProofs`, `AddonOptionsProofs`, `ProviderClientsProofs`, `AddonStorageProofs` | theorems about the modules they extend |

`UploadSession` extends `UploadCoordinator`, which extends `UploadJob`: one state machine per layer, the
outer one choosing when the actions of the inner one may happen. `AddonLifecycle` over `CallbackGate`,
`LogWatch` over `LogSource` over `LogDiscovery`, `TwitchService` over its four parts, `AddonOptions` over
`DonBotAggregate` over `DonBotConfiguration`, and `AddonStorage` over `FileStore` and `HistoryDocument`
(which takes its jobs from `UploadJob`) are built the same way. `WorkerPool` stands for every pool of the
program; the ports of `UploadCoordinator` are the promise of `AnswerPool`, weakened: results in any order,
and enqueues that panic.

Definitions marked "Mutant" are plausible mistakes in the definition that follows them. They are used by no
specification; replacing the definition by its mutant makes the property named in `PROJECT.json` fail.

### UploadJob

A job is a record: `meta` (unknown, PvE, WvW), `st` (state per provider), `att` (attempts per provider),
`report` and `receipt`. A report is represented by the number of the dps.report attempt that produced it,
0 for none, which is all that routing can tell apart; a receipt by its presence and, for Twitch, whether it
was sent or dropped. `RetryScheduled(deadline)` is two states, before and after the deadline. Each fallible
method is a guard `Can...` and an effect; a caller that drops the error (`let _ = ...`) uses
`TryTransition`.

### UploadCoordinator

`jobs` maps ids to entries. Ids only grow and rows are appended, so id order is queue order. `inflight` is
what the ports hold. Methods are actions: `AddPending`, `SetMetadata`, `FailMetadata`, `AcceptResult` /
`RejectResult` (apply_result), `DispatchDueRetries`, `RetryFailed`, `Reupload`, `Rechat`, `Restore`,
`SetHistoryLimit`, `CancelAll`; a call that fails before it changes anything is a stuttering step.
`Dispatch` is the private `dispatch`, with every error path: WvW skips Wingman, a failed precondition or a
refused enqueue settles the destination and, for dps.report, its dependents. Every trailing `trim_to` is
part of its action.

The ports are their contract, not their code: an enqueue is `Accepted`, `Refused`, or `Panicked` (the port
took the request and then unwound, so the coordinator settles it while the delivery runs on), and an
accepted request gets exactly one result, in any order. `Malformed` is any result the coordinator refuses
although it belongs to the active attempt: a success of another provider's type, an invalid receipt, a
retry delay of zero or above 24 hours.

Bounds: `AttemptLimit` (u32::MAX), `MaxId` (u64::MAX), `MaxHistoryLimit` (10,000), `MaxRetries` (the
sweep's budget). The first two are limits the code has too, so the cut-off is part of the behaviour
checked: an attempt beyond the limit fails the dispatch, an exhausted id refuses admission.

### UploadSession

Adds `phase` (where the tick is), `files` (identity per row), `known` (identities discovery has accepted),
`disk` (history document), `saved`, and observers that record what was sent (`delivered`), reported
successful (`succeeded`) and touched by the user (`touched`). The order of the phases is the order of
`tick_inner`: apply settings, save, user actions, metadata, results and one sweep, scan, save. A failed
first save ends the tick, a failed last save too. `Crash` may happen in every state and keeps only `disk`;
`Shutdown` and `Exit` are the orderly end; `Start` is `restore_history`, which feeds discovery every record
and the row table the newest ones. The write of the file is atomic here (atomic replacement is the file
store's promise). A log that comes back with another size or write time is another member of `Files`.
`SavedSession` adds nothing to the behaviour: `lost` collects the reported successes whose row left the
table, by eviction or with the process, before the document had them.

### WorkerPool and AnswerPool

The variables are the fields of `Queues`, plus where each thread is (`pc`), the request or answer it holds,
its ticket, and what the owner is doing. A critical section is one action: `Fetch` (first `wait_while` and
take), `Complete` (ticket, notification, and publication if the second predicate lets it), `Publish` (the
same after a wakeup), and one per method of the owner. A sleeper in the wait set moves only by `Woken`
(notify_all) or `WakeSpuriously`, and evaluates its predicate again. `try_take_result` is two actions,
since the lock is released between the pop and the notification; `Drop` and `Joined` are two, since the
join waits. `ResizeFails` is a resize or a construction in which a thread cannot be started.

Abstractions: a processor only keeps its thread busy (returning and unwinding both yield one answer); the
stop token is set in the critical section that sets `stopping`; a request value is enqueued once, so that
answers can be told apart; the joins of all threads are one step; a failed allocation changes nothing.

`AnswerPool` has a waiting queue, a set being processed, the completed answers in order, and the answered
ones. The mapping takes `completed` to the result queue followed by the answers still held by threads, in
ticket order: an answer is complete when its ticket is drawn, not when it is published.

### CallbackGate and AddonLifecycle

`word` is the atomic, `CLOSED` its top bit. Load, compare-and-exchange, subtract, test and sleep are
separate actions of any number of threads and one owner. A weak exchange that fails for no reason is a
stuttering step. `drained` is an observer: the owner's `wait` has returned and nothing was opened since.

`AddonLifecycle` adds the owner's position in `load`, `shutdown` and `release`, what the host has
registered, the recorded resources, the application thread, the ImGui context, the panic hook, and the
shortcut's mutex with its flag and its poison. OWNER serializes load and unload, so there is one owner.
Each host registration may unwind before or after it took effect. A callback may come at any time;
`STATE.try_lock` may fail for any reason. In release the deregistrations are one action per resource.
What a callback draws or submits is a single step; a deregistration that unwinds is not modelled.

### LogDiscovery, LogSource and LogWatch

A file is a path with a version (size and write time). `LogDiscovery` is the policy of
`domain/log_discovery.rs`: `pending` counts equal observations in a row, `accepted` is the bounded list and
`known` the set beside it. `LogSource` has the directory itself, which the game changes at any time, the
monitor's notification, the cached batch of the notifying source and the snapshot of the polling source. A
scan reads one entry per step, so a batch may mix several states of the directory, and it may skip an
unreadable entry, fail half-way or find the root gone. `LogWatch` is the owner's side: it applies a changed
selection, moves the rolling cutoff once per `RefreshInterval`, polls when the timer is due and observes the
batch file by file.

Abstractions: entries are read in path order; a file does not age out of the rolling window while it is
watched; a replaced root signals the old handle; diagnostics, the stop token and steps of the system clock
are left out. `MaxChanges` and `MaxFaults` bound what happens in the directory and what fails.

### Twitch

A session is the generation number of its token pair. A refresh ends the refresh token it was given as soon
as it reaches the service, whatever becomes of the answer, which may be lost, unreadable, refused or wrong
("mismatch" stands for another identity, missing scopes or a bad expiry). Owner operations are atomic, as
the code holds the owner's lock for each and never across a call, and take the outcome of their storage
calls as a parameter. The controller (`ctl`), its worker (`inbox`, `calling`, `results`), the chat threads
(`chat`) and the ledger interleave freely. `Restart` is a crash or the next start and keeps only the saved
record and the service; `StopPools` precedes `Shutdown`, as the composition joins the pools first.

Abstractions: deadlines are choices (a step that waits for one may happen at any later tick); panics of a
call and exhausted 64-bit counters are left out; the queue in front of the chat threads is `WorkerPool`'s.
`superseded`, `tally` and `cut` are observers.

### DonBotConfiguration, DonBotAggregate and AddonOptions

Operations of the application thread run under the configuration lock, so each is an operator on a world of
settings, key and controllers, with the set of failing calls as a parameter; an operation that writes twice
may end between the two (`EndsHalfway`). The interface submits commands into two bounded queues and works
from a published snapshot (`shown`), which may be old. A tick takes commands within its budget, applies the
settings to the clients, starts saved connections, lets the pump dispatch at most one automatic upload
(`upload` is the route it used), sends an aggregate and publishes. An unload closes the two queues and the
aggregate slot one after the other while the tick runs on.

Abstractions: the key is named by the endpoint it was verified for; an override channel and its marker are
one field; receipts are reduced to whether a message went out; the Twitch connection is a busy flag with the
client id it was begun with; a panicking verifier and exhausted revisions are left out. A behaviour has one
fault and two events, made up for by initial settings that put the system in three different places.

### FileStore, HistoryDocument and AddonStorage

A path has its file, its temporary, whether the temporary is flushed and what the directory last made
durable. Every call of `write_atomic` and of the removal is a step and may fail; between any two the power
may fail, which may tear an unflushed temporary and undo a move or removal that has not reached the disk.
The commit is the one the add-on ships (`rust/addon/src/file_commit.rs`): the move is on the disk when
`MoveFileExW` with write-through returns (`WriteThrough`), and `sync_parent` does nothing, so a removal
stays undoable until the path is written again. The properties quantify over what *would* be on disk after a
failure now. `HistoryDocument` models encoding by what it does: times are truncated to ticks and
milliseconds, paths lose their verbatim prefix, states become codes, interrupted work comes back as failed.
`AddonStorage` runs one operation at a time, as the owner thread does, and lets files be damaged from
outside.

Abstractions: the Unix commit, which only the tests use, is not modelled; operating system protection is
transparent or fails; text limits, report addresses and JSON syntax are left out; the constants of time are
scaled down (two nanoseconds to the tick, four to the millisecond) so that truncation and both ends of the
range are reached. `tried` and `damaged` are observers that excuse what an operation that reported failure
left behind, what an erase took from the directory only, and what somebody else wrote. A damaged secret
record may be an old copy of itself: records carry no age, so the store cannot tell, and `SecretsExact`
promises only that it never reads as the secret of another id. `SettingsNeverReset` lets loading fail (never
reset) in the two cases where damage left nothing to read: a garbled primary without a sound backup, and a
garbled backup beside a primary that never became durable.

### ProviderClients

Each call of a client is two steps, sent and answered, with the service's state in between: the effect may
happen although the answer is lost, and the stop token may be set in between. DonBot's deduplication of
imports, which the code relies on, is taken from `docs/contracts/donbot.md:87`, by identity, guild and
report address, and, like all of the services, is marked external. The address is a field of the request
(`report`), since a Reupload comes with a fresh one (`docs/contracts/recent-log-actions.md:73`); the identity
is that of the one key, which stays the same. Waits use a clock per attempt, so Wingman's deadlines and the
capped last poll are exact. `Rounds` bounds which requests run together (two dps.report uploads, a direct
DonBot upload, a report imported automatically and then that of a Reupload of the same log, Wingman by
itself). Poisoned locks, headers and JSON are left out.

## 3. Runs

| Run | Bounds | Question |
|---|---|---|
| `Coordinator` | 2 ids, 4 destinations, 2 attempts, restored rows, refusing ports, malformed results | Are types kept (attempts at their limit included), does no destination wait for nobody, does no upload carry a superseded report, is nothing repeated automatically? |
| `SessionHistory` | 2 logs, 3 ids, limit 1..2, 2 sessions, failing writes, crashes, panicking ports | Is every dispatched log durable, are identities distinct, does no crash make the program send a log again, do late results change nothing, does the oldest idle row go first, is every success that was still in a row on disk after a tick that saved? |
| `SessionProgress` | 3 logs, one of which the history cannot hold, 2 ids, limit 1..2, failing writes, a crash, fairness | Do all accepted logs settle although writes fail now and then and rows are evicted, unless the history refuses a row for ever? |
| `SessionReplay` | 1 log, 3 uploads, 3 attempts, 2 sessions | *violated*: DonBot is sent with Discord intent again |
| `Pool` | 2 threads, 4 requests, capacity 1..2, tickets modulo 3, fairness | Are slots, tickets and wakeups right, does the pool implement `AnswerPool`, is every request answered, does every drop return? |
| `LoadUnload` | 3 callbacks, a word that counts to 2, any number of loads and unloads, fairness | Is the count exact, is nobody inside after the wait, does the runtime outlive its callbacks, is the addon all there or all gone, do load and unload return? |
| `LogWatching` | 2 paths, 3 changes, 1 fault, memory of 1 identity, 3 selections (one whose observations do not fit between two refreshes), fairness | Is what is submitted stable, wanted and new, do partial scans keep what was observed, is every such file submitted where the observations fit? |
| `TwitchSessions` | 1 poster, tester, 1 fault, 3 events, fairness | Do memory and storage agree, is a disconnect final, does everything come to rest? |
| `TwitchPosts` | 2 posters, 2 reports, ledger of 1, 2 faults, 3 events | Has the session one holder, is no rotation undone, is no report posted twice? |
| `OptionsTick` | 2 endpoints, 2 guilds, 2 client ids, queues of 2, 1 fault, 2 events, fairness | Do settings, key and verification agree, does everything go where the screen says, does an unverified account never reach Discord, do commands run in order, do aggregates and verifications end? |
| `Storage` | 2 settings, 2 secrets, 3 operations, 1 failing call, 1 damaged file, 1 power failure | Are settings never reset, is a secret never one that a store replaced, does an erase leave no copy in the directory, does the history read back? |
| `Providers` | 8 requests in rounds, 2 attempts of the automatic ones, lost and refused answers, fairness | Is DonBot given an upload and asked to announce a log once, is a success real, does every upload end? |

A property is often a conjunction of named parts; the parts carry their own comments in the module.

Why these bounds are enough to be interesting. Rows do not share state except through eviction, ids, the
sweep's budget and the save, so one row with all destinations exercises routing, two or three rows the
rest. Two attempts are the least with a repetition and a late result of an older attempt, and the second
attempt is also the limit, so the overflow path fires. Two sessions show a restart. Two threads and four
requests let one answer wait behind another, fill both queues and wrap the ticket counters; the proofs cover
any number of threads. The gate's word is so small that the count does reach its limit, which 2^63 hides
from every test; three callbacks let one hold a stale word, one be inside and one be refused. Two paths and
three changes let a file change between two observations, within a scan and after its acceptance, and a
memory of one identity is full at once. Two posters are the least that can both be refused with one token;
a ledger of one forgets as soon as there are two reports. One failing call may come at any of the calls of
an operation, which is where the interesting orders are; two would mostly repeat them (the Twitch posts,
where a second one matters, have two).

`CHECK_DEADLOCK FALSE` is set for the session runs, because the number of sessions is bounded and the
process may then stay down; for the pool, because a dropped pool stops; for storage and the clients, because
operations and requests are bounded.

Fairness. `FairSessionSpec` assumes that the owner thread goes on ticking, that a tick drains waiting
metadata and results and sweeps due retries, that ports and parser answer what they accepted, which the
worker pools do (`Pool`; their processors catch unwinding, and the clients come to an end, `Providers`),
that the clock advances, and that a write that is tried again and again succeeds in the end (strong fairness
of the successful first save, since a failed save returns to the same phase). The budgets of a tick are at
least one, so a waiting result is handled whenever the phase recurs: strong fairness of the handlers.
Nothing is assumed of the user. In `SessionProgress` the log that the history cannot hold turns up at any
moment or never; when it has a row, every save fails, and the fairness of the save asks nothing any more.
`StorableRowsSettle` is checked up to `AttemptLimit`: a provider that asks
for another attempt for ever is stopped only by the attempt counter, in the code as in the model.

For the pool, `StopFairness` lets threads run and asks of a processor only that it returns once it is told
to stop; `DropReturns` needs no more. `EveryRequestAnswered` states what it needs besides: processors
return, and the owner polls while there are results, as the tick does (strong fairness, because the owner
may be busy with other methods in between). For load and unload, the owner's steps are taken, callbacks
that are inside return and the timed wait ends; nothing is asked of callbacks that try to enter, nor of the
host's calls to load and unload. `LogWatch` assumes only that the owner thread does not stop. Twitch: the
controller is ticked, its worker and each chat thread run, and a call ends, since the transport gives each a
connection, an operation and a stall timeout. Options: the thread ticks until told to stop, worker calls
end, an unload that has begun closes its doors. Clients: while requests are worked on one of them goes on,
which is weaker than the fairness of every thread.

### Findings

1. `SessionReplay`: the reupload flag and the intents live in memory only. After a Reupload whose
   dps.report upload failed and a restart, Retry re-arms DonBot with the automatic intent, so a Discord
   message that was already posted is posted again (`docs/contracts/upload-history.md:42-43`).

Other disagreements, met while modelling; how each shows is said with it:

2. Discovery accepts a file of size zero, the history refuses it (`config/history_json.rs:109`); its row
   makes the first save of every tick fail, and the tick returns before it drains anything. So other logs do
   not settle either while that row is there, and `StorableRowsSettle` excuses exactly this: without its last
   disjunct, `[]~Storable`, `SessionProgress`, where `f3` is such a log, finds the violation.
3. A row that settles and is evicted within one tick is saved by neither save; its record on disk stays
   Active and is restored as Failed (`application/upload_coordinator.rs:300`). `SuccessesAreSaved` excuses such
   a success, and one that a crash took, by the observer `lost`; with `succeeded` in place of
   `succeeded \ lost`, `SessionHistory` finds the violation, also without crashes.
4. In Last 24 Hours mode every move of the cutoff clears the pending observations
   (`application/log_selection.rs:64`). When the required observations do not fit between two moves, which
   the settings' ranges allow (`domain/settings.rs:184-196`: up to 60 s between polls, up to 10
   observations, against the refresh of every 60 s), no file is ever submitted. `StableFilesAreSubmitted`
   excuses these settings by `ObservationsFit`; one of the selections of `LogWatching` is such a one, and
   without that conjunct the run finds the violation.
5. Reupload clears the report under a scheduled Twitch retry, which then fails without an attempt, although
   `docs/contracts/recent-log-actions.md:77` says Twitch is not part of the action: with four destinations
   and three attempts a due Twitch retry ends Failed before its attempts are used up.
6. While a saved DonBot account is verified at startup the tick scans and dispatches logs, without a route
   (`application/runtime.rs:347-358`), and it goes on doing so after the verification has failed:
   `configure_provider` is given the saved guild whatever became of it.
   `docs/contracts/donbot-configuration-workflow.md:91-93` says that discovery waits, and that a failed
   verification cannot send to a persisted guild or channel. In `AddonOptions`, `upload` can be set while
   `bot.pending.source` is `"Saved"` and while `bot.state` is `"Error"`. `UploadRouteIsCurrent` says nothing
   against it; what holds is `UnverifiedStaysSilent`: no such upload asks for a Discord message, neither to
   a channel nor to the guild's defaults.
7. On Windows no removal is made durable: `sync_parent` of the shipped commit returns Ok and does nothing
   (`rust/addon/src/file_commit.rs:26-29`), so an erased secret may come back after a power failure, until
   the record is written again. This is the policy ADR 0016 keeps for Windows ("Windows erase retains the
   existing native directory-flush policy"), while the store syncs the directory after a removal
   (`filesystem/file_store.rs:113`). `SecretsAreExact` does not promise durability: `tried` remembers what
   an erase has taken from the directory since the last store.
8. When the pools stop during the refresh of a recovery, the call ends as Cancelled whatever the service did
   (`providers/twitch/mod.rs:119`), and `recover_current` puts back a session whose refresh token the
   service may have replaced (`application/twitch_session_owner/recovery.rs:164`). Nothing uses it in that
   process; the next one finds it in the record. In `TwitchChat` this is the answer `"lost"`, after which
   the process has not received the replacement: `RotationNotUndone` is about replacements that were
   received.

## 4. Proofs

The first part of `UploadSessionProofs` is about `UploadCoordinator`. It proves for all values of the
constants that `IndInv` is an invariant of `Spec`, and from it `TypeOK`, `WaitingHasWaker`,
`ActiveIffInFlight`, `UploadsUseCurrentReport` and `ReportIsLatest`, the last two together
`ReportsAreCurrent`; further the eviction properties and `NoAutomaticReplay`, each with a small invariant of
its own.

The first five are not inductive by themselves. `IndInv` adds, per row, that reports and receipts
match the states (`ReportKept`, `ReceiptsKept`), what a row without metadata looks like (`PendingInv`), and
what holds of a row *in the middle of a call* that has still to dispatch a set `P` of its destinations
(`RoutedInv`); the action theorems establish `RoutedInv(e, P)` for the entry they prepare, one lemma shows
that `Dispatch` of `p` leads from `P` to `P \ {p}`, and after `DispatchEach` the set is empty. Without that
set the invariant is false between the dispatches of one call. `Matched` ties rows to requests: an active
state has its acknowledged request and back, no request is ahead of its row's attempt counter, and there is
one request per attempt. The last two rule out that a new attempt collides with a request still held by a
port.

Eviction (`OverLimitOnlyBusy` and `EvictsOldestIdle`) is a matter of counting. `TrimTo` keeps an idle row by
its place among the idle rows, so `TrimEvicts` reduces to facts about the place of an element in a finite
set of numbers (`PlaceFacts`): it grows with the element, and every place is taken. Calls that trim need
nothing else. An admission trims to one below the limit and adds a busy row. The user's actions do not trim
at all, so for them the theorem is about states: a row that is busy with its metadata known has a
destination under way (`BusyReason`), and no user action touches a destination under way, so a busy row
stays busy. `SessionEvictsOldest` says the same of the runtime, where a refused log is admitted, fails for
want of metadata and is trimmed again within one step.

`NoRowReplays` proves `NoAutomaticReplay`. The invariant is `Fresh`: a destination that waits with the
automatic intent has no attempt behind it; as long as dps.report has not succeeded, neither has any
dependent that is still automatic, unless the row was reuploaded; and a reuploaded row has no automatic
upload. The second part is what the Retry of dps.report needs, which arms skipped dependents without
touching their intents. It does not survive a restart, which forgets that a row was reuploaded, and that is
finding 1. So the theorem assumes `SettledRecords`: no record is that of a reupload that dps.report did not
complete. Records of every other kind, interrupted ones included, satisfy it.

Assumptions: the named `ASSUME`s of `UploadJob` and `UploadCoordinator` (limits are positive, restored
records satisfy `ReportKept` and `ReceiptsKept`, as every record the program writes does), and
`"Malformed" \notin Outcomes` in each theorem. The last one is needed: `apply_result` returns an error for
such a result and leaves the row Active for ever. Every adapter keeps to it: retry delays are filtered to
1 s .. 24 h (`providers/dps_report/worker.rs:81`, `providers/wingman/worker.rs:49`,
`providers/donbot/upload_worker.rs:77`, `providers/twitch/chat_delivery.rs:103`), receipts are validated
before they are reported. The `Coordinator` run includes `Malformed` results.

`UploadSessionProofs` carries this through the tick, the history file, crashes and restarts, for any logs,
selections, limits and number of sessions. It proves `SessionTypeOK` (with `DistinctIdentities`: no log has two
rows or two records), `ActiveIffInFlight` again for the session as a whole, `DispatchedIsDurable`,
`NoAutomaticResend` and `SuccessesAreSaved`. `SessionInv`, which all but the last rest on, has four parts.

- `IndInv`, the coordinator's own. What is new is the restart: `RestoreKeepsInv` shows that *any* document of
  well-formed records restores to rows that satisfy it.
- `ShapeInv`: the types, one row per identity, and while the process runs every identity that has a row or a
  record is `known` to discovery. That is why `Submit` cannot make a second row, and why a save cannot make a
  second record. `MergedFacts` says what a save does: identities stay distinct, every record is that of a row or
  an old one, and no identity is lost unless the capacity is exceeded.
- `DurableInv`: from the first save of a tick to its scan every row is in the document. All dispatches happen
  in between, hence `DispatchedIsDurable`.
- `ResendInv`: what has ever been delivered is on record, and a row the user never touched does not wait for a
  destination it has already reached. A step can send automatically for the first time only what waited.

Steps of the coordinator enter through two relations: `Calm` (no row appears, nothing begins to wait, no
success is undone, new requests are for rows that waited or were due) for all the work of a tick, `Manual`
for the user's actions, whose requests never have the automatic intent and whose log is touched from then
on.

`DispatchedIsDurable` and `NoAutomaticResend` assume `Roomy`: the history has room for every log. They need
it. With 3 logs, a capacity of 2 and a limit of 2, TLC violates `DispatchedIsDurable` after 17 steps:
`merge_and_save` keeps records in their old order and drops the oldest ones, also when the row of a dropped
record is uploading at that moment (`config/history_store.rs:77`). At 10,000 records this takes a row that
is still busy after 10,000 newer logs. `SessionAssumption` says further that `MaxHistoryLimit <= MaxId`,
10,000 against 2^64 - 1: ids suffice for what is restored.

`SuccessesAreSaved` has two halves, because a success goes from a result to its row and from the row to the
file. Both assume `Roomy` and nothing else of limits, sessions and crashes; `SessionHistory` has them all.

- From the row to the file: `SavedRows`. After a tick that has saved, every success a row shows is on record.
  `MergedFacts` says that the record of a row in a merged document is the row; between two ticks rows may leave
  or a deadline may pass, and neither makes a success.
- From the result to the row: `KeptInv`. A success of a log the user left alone that is not `lost` is kept:
  the log has a row or its success is on record, and its row, if there is one, shows it. The accepted result
  puts it there (`SuccessIsShown`), no work of a tick undoes it (`Lasting`, a part of `Calm`), and a row
  that goes is on record or its success is lost (`StillKept`). A save keeps the records that have no row any
  more, also the last one of the process (`RecordsStay`), and a restart shows what is on record.

A success is lost when its row leaves the table before a save: in the very tick in which it settles, by a
smaller limit or by newer logs (finding 3), or with a process that crashes. The program keeps such a success
nowhere, so `lost` is an observer and the property excuses just these.

`WorkerPoolProofs` proves `PoolIsExact` (types, slots, tickets, nothing after cancellation) and
`NoStrandedSleeper` for any number of threads, any capacities and any modulus above the number of threads.
Their conjunction is inductive as it stands: the ticket
invariant needs the types, the bound "fewer tickets than the modulus" needs the count of the threads, and
`NoStrandedSleeper` needs nothing but itself, since every action either notifies or changes no predicate.
Tickets are handled through their distance from `nextPublication`, which makes the wrap of both counters
disappear behind two lemmas (`NextTicket`, `PublishedTicket`).

`PoolImplementsAnswerPool` is the refinement, step by step. Under the mapping the answers that wait for a
slot are read off the tickets (`Outstanding`: the i-th is that of the thread whose ticket is i - 1 from
`nextPublication`). `Complete` appends to it, `Publish` moves its head behind `results` and is a stutter,
`Pop` takes the head of both together; notifications, sleeping and resizing are stutters. Two more facts are
needed (`AnswerInv`): every ticket in between has a thread, so that `Outstanding` is a sequence of answers,
and no request is queued or processed twice, so that finishing one removes exactly it from `running`.

`AddonLifecycleProofs` proves first `GateIsExact` (types, the count, nobody inside a drained gate) for any
finite set of callbacks and any width. `GateInv` adds that the owner waits only at a closed gate. A
successful exchange implies that the word is still open, hence not drained; a leave cannot borrow from the
closed bit, because whoever is inside is counted.

It then proves `LifecycleIsWhole` and `RuntimeOutlivesCallbacks` for any finite set of
callbacks (`NoneAssumption`: none of them is called "None", the value that stands for a free mutex).
`LifeInv` extends `GateInv` by three things. `LifeShape`: the resources that are set up are at every moment a
beginning of `Order`. `ByStep`: what each step of the owner may assume, that is which of application, host
context, panic hook and resources are there, and whether the gate is open. `ByCallback`: who uses the runtime
is inside the gate, as long as the gate is not drained everything is there, and the shortcut's mutex belongs
to whoever refreshes it. The last one carries the main argument: the owner takes application and context down
only when the gate is drained, and a drained gate has nobody inside, so no callback is between its look at the
runtime and its use of it. `LifecycleUsesGate` shows,
step by step, that a lifecycle behaves towards the gate as `CallbackGate` says (every step is a gate step or
leaves the gate alone), so that what is proved of the gate carries over.

`LogWatchProofs` proves `WatchIsTracked`, `SubmissionsAreSound` and `ScansKeepStability` for any paths and
versions, any limits, thresholds and requests, and any number of changes of the directory and of faults. A
directory that changes while it is scanned is the difficulty: the parts of `WatchInv` say what an
observation is still worth.

- `SeenInv`: whatever is in the batch, in the cache or under observation is *watched*: it was written, and it is
  in the window and the directories selected *now*. A new selection therefore has to drop all three at once.
- `SilentInv`: as long as the armed handle is silent, the cache and what the scan has read so far show the
  directory as it is. The handle is re-armed before the scan, so a change during the scan is not lost.
- `PollInv`: a version that was observed before is in the directory since the poll began, or never again. It
  rests on versions not coming back (a write gives a new one), and it makes a *second* observation prove
  what the first could not. With a threshold of at least 2 (`DiscoveryAssumption`, `InvalidConfiguration` in
  the code), a submission needs one: a threshold of 1 would submit files that appeared in the middle of a
  scan.
- `ReadInv`: a scan that has failed at nothing has seen every file under observation it has passed and that
  was there all along. So what a complete scan has not seen may be forgotten, and an incomplete one forgets
  nothing.
- `PhaseInv` and `SourceInv`: a delivered batch is within the snapshot, the snapshot within the candidate limit.

`NothingEverRefused` is a consequence: `PendingLimit` is an error the pump never gets. `ListInv` says that
the accepted list has no repetitions and the set beside it agrees; for `release`, which filters the list,
this needs `WithoutLast`, an induction over a list by least counterexample. Assumptions:
`DiscoveryAssumption` (paths are finitely many and ordered), `SourceAssumption`, `WatchAssumption`. No
fairness is used.

`TwitchServiceProofs` proves the five safety properties of `TwitchService`: `ConnectedIsSaved`,
`RotationNotUndone`, `DisconnectIsFinal`, `PostedOnce` and `HeldOnce`, for any tokens, any number of chat
threads, any queue capacities and any bounds. The invariant is in two halves.

`SessionInv` is about sessions. `WorldInv` is what holds of the controller, the owner and the record between
any two operations: a transaction of the controller is the owner's, a request has its phase, an active
session is the one in the record. `QueuesInv`: requests and answers are numbered, no number is in two
places, and a sensitive request (one that moves a session) is the one the controller waits for. Without it
an answer of an abandoned connection could be taken for the current one. `GensInv`: no generation is used
that the service has not given out. `RotationInv`: nothing superseded is on its way to becoming the session,
in no request, call or answer. `RecoveryInv`: a session that is lent to a chat thread has exactly one
borrower, and as long as that thread has not rotated it, the session is the one in the record and may be
restored. The last clauses say that after a completed disconnect nothing is left that could bring the
session back.

`PostsInv` is about the ledger: a key that is neither claimed nor settled, and a key claimed by a thread that
cannot have posted yet (`MayHavePosted` is its negation), has been posted only as often as the user or a full
ledger excuses. It uses `SessionInv` only for the types.

The operations of the controller are long chains (`AdvanceWorkflow`, `HandleResult`, `Dispatch`), so they
are treated as relations between worlds: `Outcome` states what each may do to controller, owner, record and
inbox, `OutcomeComposes` chains them, and `ControllerStep` concludes the invariant once for all of them.
Assumptions: the named ones of the modules (`AuthCapacityAssumption`, `TwitchChatConstants`, `TwitchBounds`:
queues have a capacity, bounds are numbers). No fairness is used.

`ProviderClientsProofs` proves `DonBotAsAsked` and `SettledTruthfully` for any requests, guilds, rounds,
attempts, intervals and timeouts. `ClientInv` ties what a worker is about to rely on to what the services
have. `Reached`: a call that arrived took effect, and stays in effect whether or not it is answered, so a
success published later is real. `RecordInv` is what DonBot keeps under a log, guild and report: one record,
announced once at most and only if asked, the receipt of a completed one true. `Unsent`: as long as the
bytes of an upload have not gone out, an attempt that is to be retried included, DonBot has no record of
that upload in any guild. That is the argument for "once": `Patch` is the only call that writes without
looking, it needs `Unsent`, and no way leads from a sent `Patch` back to it, since a lost answer is
`Unconfirmed` and not `Retry`. An import may be retried because DonBot looks first. The guild is the one
captured when the request was admitted, so a change of the options between attempts may send the second one
elsewhere: `Unsent` therefore speaks of all guilds. DonBot works on its records beside the workers; `Grows`
is what a worker that is not stepping may count on.

That a log is announced once, over all its uploads, needs one fact more: `AskedInv`, announcements are asked
for by automatic requests only, and of these a log has one report. This is `OneAutomaticDelivery`, an
assumption here because it is a result of the coordinator, not of the clients: `NoAutomaticReplay` lets no
automatic delivery of a row be repeated but as requested, and a Reupload's is not automatic. It holds within
a session; what a restart may do to it is finding 1. The other assumptions are `DirectUploads` (bytes that
are uploaded to DonBot itself are no other request's upload, since DonBot takes a second upload of the same
bytes for a new log) and `ClientConstants`; the instance of run `Providers` satisfies all three, and TLC
evaluates them. No fairness is used.

`AddonStorageProofs` proves `SettingsSurvive`, `SecretsAreExact` and `HistoryReadsBack` for any settings,
secrets, rows, units of time, and any number of operations, failing calls, damaged files and power failures.
Run `Storage` has one of each; the budgets play no part in the proof. What a path may read as after a power
failure is `Mains`: the file that is there and the one the directory last made durable (`LeftBehind`). The
invariant has two halves.

- `Base`: the files, the operation under way and the memory. `StepInv` says what the file holds at each call
  of the operating system. Its core is that at `Replace` the temporary is the whole document *and* flushed,
  which is why no destination can be torn. `TaskInv` ties the call to the operation: settings are written
  backup first, and the backup is written from the primary that is there.
- `Topics`: per store, what `Mains` may contain. `SavedInv` is the argument for the settings: once they were
  saved, the primary or the backup is there in every state a power failure may leave. `CurrentInv` adds what
  it needs to be the *right* one: a backup counts only while the primary may be missing. `SecretsInv`: a
  secret reads, after a power failure too, as the last one stored, as one a failed store was writing, or as
  one erased since. That an erase leaves no copy in the directory is a part of `StepInv`.

Each call of the operating system is treated once, for all stores: `Advances` says it leaves the file sound and
the destination as it was or as the document, and the lemmas `DiskCall...` draw the conclusion per promise.

`HistoryReads` is the round trip of the history document: decoding what was encoded gives the rows as a
restart leaves them, and a second restart changes nothing more. For the times it needs that truncation
towards zero undoes a multiplication and is idempotent, for negative times too; for the paths, states and
receipts it goes through the codes. `merge_and_save` is a loop, so `MergeKeepsRows` is an induction over the
updates. The induction theorems of the library cannot be instantiated, but the least counterexample can be
taken from a set (`LeastNatural`, from `WFMin`), which is enough. Assumptions: `StorageConstants` (paths and
ids are distinct, updates are rows) and `DocumentConstants`.

`AddonOptionsProofs` proves `ConfigurationAgrees`, `DeliveriesAsShown` and `CommandsInOrder` for any endpoints,
guilds, channels, accounts and commands, queues of any capacity and any tick budget, with any number of failing
calls and of restarts. Run `OptionsTick` has one fault and two events.

The operations under the configuration lock take a *world* (settings, key, revision, controller, worker) to
another, so most of the proof is not about steps at all. `Sound` is what holds of the world between two
operations: settings are valid, a saved guild has the key of its endpoint (`KeyInv`), a verified account is
within what was verified for the saved endpoint (`AccountInv`), and a saved account is looked up only for
the endpoint and key that are still saved (`LookupInv`). The last is what makes it safe to accept an answer
after commands have run: a lookup cannot be of another endpoint than the saved one, since whatever replaces
that needs the controller idle. `Leads` is what an operation does: the world stays sound, the two revisions
only grow, and if neither does, the aggregate route is as it was. There is one lemma per operation, and
`TakesOn` chains them.

`Follows` uses the last clause of `Leads`. What the interface was shown, and what it left in the aggregate
slot from it, is still so if the revisions it saw are the present ones. That is why the controller may
compare two numbers instead of the route (`AggregateAsShown`). `AppliedInv` says which parts of the
configuration the clients have at which point of the tick: the policy may lag behind only up to the apply,
so the pump dispatches with the present one (`UploadRouteIsCurrent`), although a refresh may begin in
between. It begins without changing what is authorised. `UnverifiedStaysSilent` follows from what a policy
is made of. `AggInv` numbers the requests; one that is refused or cannot load its key has not been sent, and
one whose dispatch panics is ambiguous and never failed (`AggregateTruthful`). `QueueInv` orders a queue by
tickets, all later than the last one taken.

A start makes a sound world from any valid settings beside a key that agrees with them (`StartedSound`).
Restarts come down to that: between two operations by `Sound`, and between the two writes of a candidate or
a disconnect because the first write leaves no guild. The only assumption is `OptionsConstants`: settings on
the disk are valid, an identity has the form of a verification, and commands have arguments of their type.
No fairness is used.

Model-checked only is liveness, which is out of the prover's reach. Every safety invariant and every action
property of a passing run is a theorem, under the assumptions named above.

## 5. Not modelled, and the plan

Every part that keeps state across calls has a module, and nothing but liveness is left without a proof
(section 4).

The suite is meant to be rerun with every change, so it stays at a dozen runs, one per question.

Left out for good: HTTP framing and transport (byte streams; what matters of them, that a call ends and that
its answer may be lost, is in every client model), EVTC and ZIP decoding (pure functions over bytes; the
parser's worker is a `WorkerPool` and its answer any metadata or failure), JSON syntax, rendering, DPAPI and
packaging. They hold no state that a model could tell apart from its data.
