----------------------------- MODULE LogSource -----------------------------
(***************************************************************************)
(* Where candidates come from: the directory the game writes its logs to,  *)
(* the native change monitor (src/rust/addon/src/directory_monitor.rs),    *)
(* the notifying source that decides whether to scan                       *)
(* (filesystem/notifying_log_source.rs) and the polling source that scans  *)
(* and reports what has gone (filesystem/polling_log_source.rs).           *)
(*                                                                         *)
(* A scan reads one entry after the other while the game goes on writing.  *)
(* The number of changes and of faults (an unreadable entry, a failing     *)
(* system call, a refused submission) is bounded.                          *)
(***************************************************************************)
EXTENDS LogDiscovery

CONSTANTS
  Nested,          \* paths in subdirectories
  Existing,        \* paths written before the session started
  MonitorLimit,    \* failures in a row that disable the monitor, 3 in the code
  MaxChanges,      \* bound on changes of the directory and of the request
  MaxFaults        \* bound on faults

ASSUME SourceAssumption ==
  /\ Nested \cup Existing \subseteq Paths
  /\ MonitorLimit \in Nat \ {0}
  /\ {MaxChanges, MaxFaults} \subseteq Nat

Gone == 0                      \* no file at a path
Before == 1                    \* the version of a file older than the session
FileVersions == 1..(MaxChanges + 1)

VARIABLES
  directory,    \* path -> version, or Gone
  root,         \* "present", "missing", or "unusable" (not a directory, a link, denied)
  changes, faults,
  pollingOnly,  \* monitor: Wine, where notifications are not used
  handle,       \* monitor: "none", "armed", or "dead" when its directory is gone
  signal,       \* the armed handle is signalled
  enabled,      \* notifying source: monitor_enabled
  failures,     \* notifying source: consecutive failures of the monitor
  cache,        \* notifying source: set of observations, or NoCache
  options,      \* polling source: mode, recursion and candidate limit
  retained,     \* polling source: paths of the snapshot
  unread,       \* the scan under way: entries not read yet
  batch         \* the batch being built or delivered

world == <<directory, root, changes>>
monitor == <<pollingOnly, handle, signal>>
notifying == <<enabled, failures, cache>>
source == <<world, faults, monitor, notifying, options, retained, unread, batch>>

NoCache == <<>>
NoBatch == [available |-> FALSE, complete |-> FALSE, seen |-> {}, removed |-> {}]

-----------------------------------------------------------------------------
(* The directory.                                                          *)

Signalled == signal' = (signal \/ handle # "none")

Write(p) ==
  /\ root = "present"
  /\ changes < MaxChanges
  /\ directory' = [directory EXCEPT ![p] = changes + 2]
  /\ changes' = changes + 1
  /\ Signalled
  /\ UNCHANGED <<root, faults, pollingOnly, handle, notifying, options, retained, unread, batch>>

Delete(p) ==
  /\ root = "present"
  /\ directory[p] # Gone
  /\ changes < MaxChanges
  /\ directory' = [directory EXCEPT ![p] = Gone]
  /\ changes' = changes + 1
  /\ Signalled
  /\ UNCHANGED <<root, faults, pollingOnly, handle, notifying, options, retained, unread, batch>>

(* The root is removed, replaced, or comes back as it was: the handle      *)
(* armed on it is signalled and cannot be armed again.                     *)
RootChanges ==
  /\ changes < MaxChanges
  /\ root' \in {"present", "missing", "unusable"} \ {root}
  /\ directory' \in {directory, [p \in Paths |-> Gone]}
  /\ changes' = changes + 1
  /\ handle' = IF handle = "armed" THEN "dead" ELSE handle
  /\ Signalled
  /\ UNCHANGED <<faults, pollingOnly, notifying, options, retained, unread, batch>>

Fault == faults < MaxFaults /\ faults' = faults + 1

-----------------------------------------------------------------------------
(* WindowsDirectoryMonitor::poll answers Changed, Unchanged, Unavailable   *)
(* or an error.                                                            *)

MonitorUnusable ==
  \/ root # "present" /\ handle' = "none" /\ UNCHANGED <<signal, faults>>
  \/ /\ root = "present" /\ ~pollingOnly
     /\ \/ handle = "dead" /\ UNCHANGED faults
        \/ handle # "dead" /\ Fault
     /\ handle' = "none"
     /\ UNCHANGED signal

MonitorChanged ==
  /\ root = "present"
  /\ \/ pollingOnly /\ UNCHANGED <<handle, signal>>
     \/ ~pollingOnly /\ handle = "none" /\ handle' = "armed" /\ signal' = FALSE
     \/ ~pollingOnly /\ handle = "armed" /\ signal /\ signal' = FALSE /\ UNCHANGED handle
  /\ UNCHANGED faults

MonitorUnchanged ==
  /\ root = "present" /\ ~pollingOnly /\ handle = "armed" /\ ~signal
  /\ UNCHANGED <<handle, signal, faults>>

-----------------------------------------------------------------------------
(* NotifyingLogSource::poll up to the scan.                                *)

(* Mutant: the old observations are kept while the directory is scanned. *)
ScanKeepingCache ==
  /\ unread' = Paths
  /\ batch' = [NoBatch EXCEPT !.complete = TRUE]
  /\ UNCHANGED cache

(* The old observations are dropped before the scan, which may fail.       *)
BeginScan ==
  /\ cache' = NoCache
  /\ unread' = Paths
  /\ batch' = [NoBatch EXCEPT !.complete = TRUE]

RepeatCache ==
  /\ batch' = [available |-> TRUE, complete |-> TRUE, seen |-> cache[1], removed |-> {}]
  /\ UNCHANGED <<cache, unread>>

(* An unchanged directory repeats the observations of the last complete    *)
(* scan.                                                                   *)
PollUnchanged ==
  /\ enabled
  /\ MonitorUnchanged
  /\ failures' = 0
  /\ cache # NoCache
  /\ RepeatCache
  /\ UNCHANGED <<world, pollingOnly, enabled, options, retained>>

PollAndScan ==
  /\ \/ ~enabled /\ UNCHANGED <<enabled, failures, handle, signal, faults>>
     \/ /\ enabled
        /\ \/ MonitorChanged
           \/ root = "missing" /\ MonitorUnusable
           \/ MonitorUnchanged /\ cache = NoCache
        /\ failures' = 0
        /\ UNCHANGED enabled
     \/ /\ enabled
        /\ root # "missing" /\ MonitorUnusable
        /\ failures' = failures + 1
        /\ enabled' = (failures' < MonitorLimit)
  /\ BeginScan
  /\ UNCHANGED <<world, pollingOnly, options, retained>>

-----------------------------------------------------------------------------
(* PollingLogSource::scan and SnapshotTracker::reconcile.                  *)

InWindow(version) == options.mode = "Last24Hours" \/ version # Before

Eligible(p) ==
  /\ directory[p] # Gone
  /\ options.recursive \/ p \notin Nested
  /\ InWindow(directory[p])

OpenRoot ==
  /\ unread = Paths /\ ~batch.available
  /\ root = "present"
  /\ batch' = [batch EXCEPT !.available = TRUE]
  /\ UNCHANGED <<world, faults, monitor, notifying, options, retained, unread>>

ReadEntry(p) ==
  /\ batch.available
  /\ p \in unread /\ \A q \in unread : p <= q
  /\ root = "present"
  /\ unread' = unread \ {p}
  /\ batch' = [batch EXCEPT !.seen = IF Eligible(p) THEN @ \cup {<<p, directory[p]>>} ELSE @]
  /\ UNCHANGED <<world, faults, monitor, notifying, options, retained>>

(* add_issue: the entry, its directory, its time or its canonical path     *)
(* cannot be read; the scan is not complete.                               *)
EntryFails(p) ==
  /\ batch.available
  /\ p \in unread /\ \A q \in unread : p <= q
  /\ IF root = "present" THEN Fault ELSE UNCHANGED faults
  /\ unread' = unread \ {p}
  /\ batch' = [batch EXCEPT !.complete = FALSE]
  /\ UNCHANGED <<world, monitor, notifying, options, retained>>

SeenPaths == {file[1] : file \in batch.seen}

(* More candidates than the settings allow, read or retained.              *)
OverLimit ==
  \/ Cardinality(batch.seen) > options.limit
  \/ /\ unread = {} /\ ~batch.complete
     /\ Cardinality(retained \cup SeenPaths) > options.limit

(* The scan ends in an error: the root cannot be read, or there is too     *)
(* much in it.  No batch is delivered and nothing is reconciled.           *)
ScanFails ==
  /\ \/ ~batch.available /\ root = "unusable" /\ UNCHANGED faults
     \/ ~batch.available /\ root = "present" /\ Fault
     \/ OverLimit /\ UNCHANGED faults
  /\ unread' = {}
  /\ batch' = NoBatch
  /\ UNCHANGED <<world, monitor, notifying, options, retained>>

(* Mutant: paths an incomplete scan has not seen are reported as removed. *)
ReconciledAlways(b) ==
  [b EXCEPT !.removed = retained \ {file[1] : file \in b.seen}]

(* Only an authoritative snapshot tells what has gone.                     *)
Reconciled(b) ==
  [b EXCEPT !.removed = IF ~b.available \/ b.complete
                        THEN retained \ {file[1] : file \in b.seen} ELSE {}]

(* Mutant: an incomplete scan leaves the snapshot as it is. *)
RetainedComplete(b) ==
  IF ~b.available \/ b.complete THEN {file[1] : file \in b.seen} ELSE retained

Retained(b) ==
  {file[1] : file \in b.seen} \cup (IF ~b.available \/ b.complete THEN {} ELSE retained)

(* A missing root is a complete scan of nothing.                           *)
FinishScan ==
  /\ \/ ~batch.available /\ root = "missing"
     \/ batch.available /\ unread = {} /\ ~OverLimit
  /\ unread' = {}
  /\ batch' = Reconciled(batch)
  /\ retained' = Retained(batch)
  /\ cache' = IF batch.available /\ batch.complete THEN <<batch.seen>> ELSE cache
  /\ UNCHANGED <<world, faults, monitor, enabled, failures, options>>

-----------------------------------------------------------------------------
(* NotifyingLogSource::reconfigure; the polling source starts from nothing *)
(* and the monitor drops its handle, or fails and stays disabled.          *)

Reconfigure(new) ==
  /\ options' = new
  /\ retained' = {}
  /\ cache' = NoCache
  /\ failures' = 0
  /\ \/ enabled' = TRUE /\ handle' = "none" /\ UNCHANGED faults
     \/ Fault /\ enabled' = FALSE /\ UNCHANGED handle
  /\ UNCHANGED <<world, pollingOnly, signal, unread, batch>>

SourceInit(initial) ==
  /\ directory = [p \in Paths |-> IF p \in Existing THEN Before ELSE Gone]
  /\ root = "present"
  /\ changes = 0 /\ faults = 0
  /\ pollingOnly \in BOOLEAN
  /\ handle = "none" /\ signal = FALSE
  /\ enabled = TRUE /\ failures = 0 /\ cache = NoCache
  /\ options = initial
  /\ retained = {}
  /\ unread = {} /\ batch = NoBatch

SourceTypeOK ==
  /\ \A p \in Paths : directory[p] \in FileVersions \cup {Gone}
  /\ root \in {"present", "missing", "unusable"}
  /\ changes \in 0..MaxChanges /\ faults \in 0..MaxFaults
  /\ handle \in {"none", "armed", "dead"}
  /\ {pollingOnly, signal, enabled} \subseteq BOOLEAN
  /\ failures \in 0..MonitorLimit
  /\ enabled => failures < MonitorLimit
  /\ retained \cup unread \subseteq Paths
  /\ Cardinality(retained) <= options.limit
  /\ batch.seen \subseteq Identity
  /\ cache # NoCache => cache[1] \subseteq Identity
=============================================================================
