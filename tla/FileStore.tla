------------------------------- MODULE FileStore -------------------------------
(* src/rust/src/filesystem/file_store.rs with the commit the add-on ships,       *)
(* WindowsFileCommit of src/rust/addon/src/file_commit.rs: whole-file writes     *)
(* through a sibling temporary file, and removal.  A path has its file, its      *)
(* temporary and what the directory last made durable; contents are nothing,     *)
(* torn bytes or a document.  Between two calls of the operating system the      *)
(* power may fail: a temporary that was not flushed may be torn, a move that has *)
(* not reached the disk may be undone.  The Windows commit has no sync of the    *)
(* directory (its sync_parent returns Ok), so a removal may be undone until the  *)
(* path is written again.                                                        *)
EXTENDS Naturals, Sequences, FiniteSets

CONSTANT Paths

VARIABLES
  files,  \* [Paths -> [main, temp, flushed, old]]
  call    \* the write or removal under way: [step, path, doc, failed]

storeVars == <<files, call>>

Nothing == [kind |-> "Absent", id |-> "None", value |-> <<>>]
Torn == [Nothing EXCEPT !.kind = "Torn"]
Document(id, value) == [kind |-> "Document", id |-> id, value |-> value]

NoFile == [main |-> Nothing, temp |-> Nothing, flushed |-> TRUE,
           old |-> [main |-> Nothing, temp |-> Nothing]]
NoCall(path, step) ==
  [step |-> step, path |-> path, doc |-> Nothing, failed |-> FALSE]

WriteAtomic(path, doc) == [NoCall(path, "Create") EXCEPT !.doc = doc]
Erase(path) == NoCall(path, "RemoveMain")

(* A step that succeeds or fails leaves the file so, and the call goes on there. *)
Step(at, file, next) ==
  /\ call.step = at
  /\ files' = [files EXCEPT ![call.path] = file]
  /\ call' = next
File == files[call.path]
At(step) == [call EXCEPT !.step = step]

------------------------------------------------------------------------------
(* write_atomic.  The stale temporary may be gone when the new one cannot be had. *)
CreateTemporary(ok) ==
  IF ok THEN Step("Create", [File EXCEPT !.temp = Torn, !.flushed = FALSE], At("Fill"))
  ELSE \E temp \in {File.temp, Nothing} :
         Step("Create", [File EXCEPT !.temp = temp, !.flushed = @ \/ temp = Nothing], At("Failed"))

AfterFill == "Flush"

FillTemporary(ok) ==
  IF ok THEN Step("Fill", [File EXCEPT !.temp = call.doc], At(AfterFill))
  ELSE Step("Fill", [File EXCEPT !.temp = Torn], At("Failed"))

FlushTemporary(ok) ==
  Step("Flush", [File EXCEPT !.flushed = ok], At(IF ok THEN "Replace" ELSE "Failed"))

(* MoveFileExW: the destination becomes the temporary in one step, and with      *)
(* MOVEFILE_WRITE_THROUGH the call returns once the move is on the disk.         *)
ReplaceDestination(ok) ==
  IF ok THEN Step("Replace", [File EXCEPT !.main = File.temp, !.temp = Nothing], At("WriteThrough"))
  ELSE Step("Replace", File, At("Failed"))

(* Mutant: the call returns before the move is on the disk. *)
MoveCached(file) == file

MoveOnDisk(file) == [file EXCEPT !.old = [main |-> file.main, temp |-> file.temp]]

(* The call may also fail with the destination replaced already. *)
WriteThrough(ok) ==
  IF ok THEN Step("WriteThrough", MoveOnDisk(File), At("Done"))
  ELSE Step("WriteThrough", File, At("Failed"))

------------------------------------------------------------------------------
(* erase: both removals are tried even when the first one fails. *)
RemoveMain(ok) ==
  Step("RemoveMain", IF ok THEN [File EXCEPT !.main = Nothing] ELSE File,
       [At("RemoveTemp") EXCEPT !.failed = ~ok])

(* Mutant: only the record itself is removed. *)
TemporaryKept(temp) == temp

TemporaryRemoved(temp) == Nothing

(* What sync_parent is asked for here does nothing: no removal is made durable.  *)
RemoveTemp(ok) ==
  LET failed == call.failed \/ ~ok
  IN  Step("RemoveTemp",
           IF ok THEN [File EXCEPT !.temp = TemporaryRemoved(@), !.flushed = TRUE] ELSE File,
           [At(IF failed THEN "Failed" ELSE "Done") EXCEPT !.failed = failed])

StoreStep(ok) ==
  \/ CreateTemporary(ok) \/ FillTemporary(ok) \/ FlushTemporary(ok) \/ ReplaceDestination(ok)
  \/ WriteThrough(ok) \/ RemoveMain(ok) \/ RemoveTemp(ok)

------------------------------------------------------------------------------
(* What is left of a file when the power fails: the directory as it is or as it  *)
(* last reached the disk, and bytes that were not flushed whole or torn.         *)
Left(f, kept, torn) ==
  LET lost(content) == IF torn /\ content.kind = "Document" THEN Torn ELSE content
      now == CASE ~kept -> f.old
               [] kept /\ f.flushed -> [main |-> f.main, temp |-> f.temp]
               [] kept /\ ~f.flushed /\ f.temp = Nothing -> [main |-> lost(f.main), temp |-> Nothing]
               [] OTHER -> [main |-> f.main, temp |-> lost(f.temp)]
  IN  [main |-> now.main, temp |-> now.temp, flushed |-> TRUE, old |-> now]

AfterPowerFailure(f) == {Left(f, kept, torn) : kept, torn \in BOOLEAN}

PowerFails(idle) ==
  /\ \E kept \in [Paths -> BOOLEAN], torn \in BOOLEAN :
       files' = [p \in Paths |-> Left(files[p], kept[p], torn)]
  /\ call' = idle
=============================================================================
