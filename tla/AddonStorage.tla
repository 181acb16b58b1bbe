----------------------------- MODULE AddonStorage -----------------------------
(* src/rust/src/config/settings_store.rs, secret_store.rs, history_store.rs and  *)
(* the owner of the first two, application/configuration_service.rs: what the    *)
(* add-on keeps on disk through FileStore, one operation at a time, across power *)
(* failures, failing calls and files damaged from outside.  A secret record      *)
(* carries the identity of its secret; protection by the operating system fails  *)
(* or is transparent.                                                            *)
EXTENDS FileStore, HistoryDocument

CONSTANTS
  Settings,    \* valid settings the user may save
  SecretIds,   \* the secrets, each with a record of its own
  SecretValues,
  Names,       \* log files the runtime may report on
  Updates,     \* row sequences the runtime may hand to the history
  MaxOps, MaxFaults, MaxDamage, MaxFailures

ASSUME StorageConstants ==
  /\ Paths = {"settings", "settings.bak", "history"} \cup SecretIds
  /\ SecretIds \cap {"settings", "settings.bak", "history"} = {}
  /\ Updates \subseteq Seq(Rows(Names))
  /\ \A n \in {MaxOps, MaxFaults, MaxDamage, MaxFailures} : n \in Nat

VARIABLES
  up,        \* the add-on is loaded
  task,      \* the operation under way: [op, todo, doc, rows]
  mem,       \* what the running add-on holds: [settings, source, rows, recovery]
  secrets,   \* history: the record of each secret by the last operation that succeeded
  tried,     \* history: documents and rows of operations that failed since, and
             \* records an erase has taken from the directory since
  damaged,   \* paths damaged from outside and not written since
  spent      \* [ops, faults, damage, failures]

vars == <<storeVars, up, task, mem, secrets, tried, damaged, spent>>

Defaults == "Defaults"
NoTask == [op |-> "None", todo |-> <<>>, doc |-> Nothing, rows |-> <<>>]
IdleCall == NoCall("settings", "Idle")
NoTries == [settings |-> {}, rows |-> {}, secrets |-> [id \in SecretIds |-> {}]]
Spend(what, limit) == spent[what] < limit /\ spent' = [spent EXCEPT ![what] = @ + 1]

SettingsDocument(s) == Document("settings", <<s>>)
SecretRecord(id, v) == Document(id, <<v>>)
Records(id) == {SecretRecord(id, v) : v \in SecretValues}

------------------------------------------------------------------------------
(* Reading. *)
(* Mutant: the defaults stand in for a primary that cannot be read. *)
LoadOrDefaults(primary, backup) ==
  CASE primary.kind = "Document" -> [source |-> "Primary", settings |-> primary.value[1]]
    [] OTHER -> [source |-> "Defaults", settings |-> Defaults]

LoadSettings(primary, backup) ==
  CASE primary.kind = "Document" -> [source |-> "Primary", settings |-> primary.value[1]]
    [] primary.kind # "Document" /\ backup.kind = "Document" ->
         [source |-> "Backup", settings |-> backup.value[1]]
    [] primary = Nothing /\ backup = Nothing -> [source |-> "Defaults", settings |-> Defaults]
    [] OTHER -> [source |-> "Error", settings |-> Defaults]

LoadSecret(id, record) ==
  CASE record.kind = "Document" /\ record.id # id -> Torn
    [] OTHER -> record

LoadHistory(doc) ==
  CASE doc = Nothing -> [rows |-> <<>>, recovery |-> "None"]
    [] doc.kind = "Document" -> [rows |-> DecodeHistory(doc.value), recovery |-> "None"]
    [] OTHER -> [rows |-> <<>>, recovery |-> "InvalidDocument"]

Usable(loaded) == loaded.source # "Error"

Start ==
  /\ ~up
  /\ \E read \in BOOLEAN :
       /\ IF read THEN UNCHANGED spent ELSE Spend("faults", MaxFaults)
       /\ LET loaded == LoadSettings(files["settings"].main, files["settings.bak"].main)
              history == IF read THEN LoadHistory(files["history"].main)
                         ELSE [rows |-> <<>>, recovery |-> "File"]
          IN  /\ Usable(loaded)
              /\ mem' = [settings |-> loaded.settings, source |-> loaded.source,
                         rows |-> history.rows, recovery |-> history.recovery]
  /\ up' = TRUE
  /\ UNCHANGED <<storeVars, task, secrets, tried, damaged>>

------------------------------------------------------------------------------
(* Operations. *)
Begin(op, todo, doc, rows) ==
  /\ up /\ task = NoTask /\ Spend("ops", MaxOps)
  /\ task' = [op |-> op, todo |-> Tail(todo), doc |-> doc, rows |-> rows]
  /\ call' = Head(todo)
  /\ UNCHANGED <<files, up, mem, secrets, damaged>>

(* Only a primary that reads as settings becomes the backup. *)
Backup(primary) ==
  IF primary.kind # "Document" THEN <<>> ELSE <<WriteAtomic("settings.bak", primary)>>

SaveSettings ==
  \E s \in Settings :
    LET doc == SettingsDocument(s)
    IN  /\ Begin("Settings", Backup(files["settings"].main) \o <<WriteAtomic("settings", doc)>>,
                 doc, <<>>)
        /\ tried' = [tried EXCEPT !.settings = @ \cup {s}]

StoreSecret ==
  \E id \in SecretIds, v \in SecretValues :
    /\ Begin("Secret", <<WriteAtomic(id, SecretRecord(id, v))>>, SecretRecord(id, v), <<>>)
    /\ tried' = [tried EXCEPT !.secrets[id] = @ \cup {SecretRecord(id, v)}]

EraseSecret ==
  \E id \in SecretIds :
    /\ Begin("Erase", <<Erase(id)>>, Nothing, <<>>)
    /\ tried' = [tried EXCEPT !.secrets[id] = @ \cup {Nothing}]

(* Rows that the document cannot hold are refused before anything is written. *)
MergeAndSave ==
  \E updates \in Updates :
    LET merged == MergeRecords(mem.rows, updates)
        doc == Document("history", EncodeHistory(merged))
    IN  /\ ValidRecords(updates, MaxRecords) /\ ValidRecords(merged, Capacity)
        /\ Begin("History", <<WriteAtomic("history", doc)>>, doc, merged)
        /\ tried' = [tried EXCEPT !.rows = @ \cup {merged}]

(* A call of the operating system returns, or fails. *)
DiskCall ==
  /\ \E ok \in BOOLEAN :
       /\ IF ok THEN UNCHANGED spent ELSE Spend("faults", MaxFaults)
       /\ StoreStep(ok)
  /\ UNCHANGED <<up, task, mem, secrets, tried, damaged>>

AfterFailure(m) == m

(* Memory changes when the operation has succeeded.  A removal is not durable:   *)
(* the record that was erased may come back until the path is written again.     *)
Finish ==
  \/ /\ call.step = "Done" /\ task.todo # <<>>
     /\ call' = Head(task.todo) /\ task' = [task EXCEPT !.todo = Tail(@)]
     /\ damaged' = damaged \ {call.path}
     /\ UNCHANGED <<files, up, mem, secrets, tried, spent>>
  \/ /\ call.step = "Done" /\ task.todo = <<>>
     /\ mem' = CASE task.op = "Settings" -> [mem EXCEPT !.settings = task.doc.value[1],
                                                       !.source = "Primary"]
                 [] task.op = "History" -> [mem EXCEPT !.rows = task.rows, !.recovery = "None"]
                 [] OTHER -> mem
     /\ secrets' = IF task.op \in {"Secret", "Erase"} THEN [secrets EXCEPT ![call.path] = task.doc]
                   ELSE secrets
     /\ tried' = CASE task.op = "Settings" -> [tried EXCEPT !.settings = {}]
                   [] task.op = "History" -> [tried EXCEPT !.rows = {}]
                   [] task.op = "Secret" -> [tried EXCEPT !.secrets[call.path] = {}]
                   [] task.op = "Erase" -> [tried EXCEPT !.secrets[call.path] = @ \cup {secrets[call.path]}]
     /\ damaged' = IF task.op = "Erase" THEN damaged ELSE damaged \ {call.path}
     /\ call' = IdleCall /\ task' = NoTask
     /\ UNCHANGED <<files, up, spent>>
  \/ /\ call.step = "Failed"
     /\ mem' = AfterFailure(mem)
     /\ call' = IdleCall /\ task' = NoTask
     /\ UNCHANGED <<files, up, secrets, tried, damaged, spent>>

------------------------------------------------------------------------------
(* Outside. *)
PowerFailure ==
  /\ up /\ Spend("failures", MaxFailures)
  /\ PowerFails(IdleCall)
  /\ up' = FALSE /\ task' = NoTask
  /\ UNCHANGED <<mem, secrets, tried, damaged>>

(* A file is garbled, or one secret record is replaced by another.               *)
Damage ==
  /\ ~up /\ Spend("damage", MaxDamage)
  /\ \E p \in Paths, content \in {Torn} \cup {files[q].main : q \in SecretIds} :
       /\ content # Torn => p \in SecretIds
       /\ files' = [files EXCEPT ![p].main = content, ![p].old.main = content]
       /\ damaged' = damaged \cup {p}
  /\ UNCHANGED <<call, up, task, mem, secrets, tried>>

Init ==
  /\ files = [p \in Paths |-> NoFile] /\ call = IdleCall /\ task = NoTask
  /\ up = TRUE
  /\ mem = [settings |-> Defaults, source |-> "Defaults", rows |-> <<>>, recovery |-> "None"]
  /\ secrets = [id \in SecretIds |-> Nothing] /\ tried = NoTries /\ damaged = {}
  /\ spent = [what \in {"ops", "faults", "damage", "failures"} |-> 0]

Next ==
  \/ Start \/ SaveSettings \/ StoreSecret \/ EraseSecret \/ MergeAndSave \/ DiskCall \/ Finish
  \/ PowerFailure \/ Damage

Spec == Init /\ [][Next]_vars

------------------------------------------------------------------------------
(* Properties.  What the disk would hold after a power failure at this moment    *)
(* is quantified over, so they speak about every point of every operation.       *)
AfterFailureAt(p) == {f.main : f \in AfterPowerFailure(files[p])}

(* The state has the shape the code gives it.                                    *)
StorageTypeOK ==
  /\ \A p \in Paths : {files[p].main.kind, files[p].temp.kind} \subseteq {"Absent", "Torn", "Document"}
  /\ mem.settings \in Settings \cup {Defaults} /\ Len(mem.rows) <= Capacity
  /\ mem.recovery \in {"None", "InvalidDocument", "File"}
  /\ mem.source \in {"Primary", "Backup", "Defaults"}
  /\ task = NoTask <=> call.step = "Idle"

(* No failing call and no power failure leaves a torn file where the add-on      *)
(* looks for it: write_atomic flushes before it renames.                         *)
DestinationsAreWhole == \A p \in Paths \ damaged : Torn \notin AfterFailureAt(p)

(* Once settings were saved they are never reset: what is loaded next is never   *)
(* the defaults, and the add-on refuses to start only when damage left nothing   *)
(* to read: a garbled primary without a sound backup, or a garbled backup beside *)
(* a primary that never became durable.                                          *)
SettingsNeverReset ==
  mem.source # "Defaults" =>
    \A a \in AfterFailureAt("settings"), b \in AfterFailureAt("settings.bak") :
      LET source == LoadSettings(a, b).source
      IN  /\ source # "Defaults"
          /\ source = "Error" =>
               \/ "settings" \in damaged /\ (b = Nothing \/ "settings.bak" \in damaged)
               \/ a = Nothing /\ "settings.bak" \in damaged

(* Without damage, what is loaded next is what the running add-on uses, or what  *)
(* an operation that did not succeed was writing.                                *)
SettingsCurrent ==
  up /\ damaged \cap {"settings", "settings.bak"} = {} =>
    \A a \in AfterFailureAt("settings"), b \in AfterFailureAt("settings.bak") :
      LoadSettings(a, b).settings \in {mem.settings} \cup tried.settings

(* A secret is read back as it was stored last, or as an operation that failed   *)
(* was storing it: never as another one, and never as one a later store has      *)
(* replaced.  Only an erase can be undone: until the next store, a power failure *)
(* may bring the erased record back (removals are not made durable on Windows).  *)
(* A record that was damaged from outside reads as corrupt, as nothing, or, if   *)
(* an old copy of the record was put there, as that one (it carries no age).     *)
SecretsExact ==
  \A id \in SecretIds : \A record \in AfterFailureAt(id) :
    LoadSecret(id, record) \in {secrets[id]} \cup tried.secrets[id]
                               \cup (IF id \in damaged THEN {Torn, Nothing} \cup Records(id) ELSE {})

(* When erase reports success no copy is left in the directory, neither the      *)
(* record nor the temporary of an earlier store that failed, whichever of the    *)
(* two removals failed before.                                                   *)
EraseLeavesNothing ==
  task.op = "Erase" /\ call.step = "Done" =>
    files[call.path].main = Nothing /\ files[call.path].temp = Nothing

(* Unless a recovery is shown, the history on disk reads back as the rows in     *)
(* memory (or those of a save that did not succeed) in the form a restart gives  *)
(* them: same identity, interrupted work failed.                                 *)
HistoryReadsBack ==
  up /\ mem.recovery = "None" /\ "history" \notin damaged =>
    \A doc \in AfterFailureAt("history") :
      LoadHistory(doc).rows \in {[i \in DOMAIN rs |-> Reloaded(rs[i])] : rs \in {mem.rows} \cup tried.rows}

(* The settings survive every failing call and every power failure.              *)
SettingsSurvive == StorageTypeOK /\ DestinationsAreWhole /\ SettingsNeverReset /\ SettingsCurrent

(* A secret is what was stored last; an erase that reports success leaves no     *)
(* copy in the directory, and only a power failure may undo it.                  *)
SecretsAreExact == SecretsExact /\ EraseLeavesNothing
=============================================================================
