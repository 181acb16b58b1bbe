--------------------------- MODULE SavedSession ----------------------------
(***************************************************************************)
(* UploadSession with one more observer: which of the reported successes   *)
(* have left the row table before a save could write them.  The program    *)
(* does not keep them anywhere (finding 3 of the README); every other      *)
(* success has to be in the history file after a tick that has saved.      *)
(***************************************************************************)
EXTENDS UploadSession

VARIABLE
  lost         \* observer: successes whose row went before they were on disk

savedVars == <<allVars, lost>>

(* The document has a record of the log that says p has succeeded.         *)
Recorded(document, file, p) ==
  \E i \in DOMAIN document : document[i].file = file /\ document[i].job.st[p] = "Succeeded"

(* A row goes by eviction, in the tick in which its last delivery settles  *)
(* or through a smaller limit after a failed save, or with the process.    *)
Lose ==
  lost' = lost \cup {d \in succeeded' : /\ RowOf(d[1]) # {} /\ RowOf(d[1])' = {}
                                       /\ ~Recorded(disk', d[1], d[2])}

SavedInit == SessionInit /\ lost = {}

SavedNext == SessionNext /\ Lose

SavedSpec == SavedInit /\ [][SavedNext]_savedVars

-----------------------------------------------------------------------------
(* Properties.                                                             *)

(* When a tick has ended with a save, every success reported so far is in  *)
(* the history file, in this session and the next ones, whatever was       *)
(* evicted, restored and merged in between.  Logs the user replayed apart, *)
(* and those whose row was gone before the success could be written:       *)
(* evicted within the tick in which it settled, or lost with the process.  *)
SuccessesAreSaved ==
  phase = "begin" /\ saved =>
    \A d \in succeeded \ lost : d[1] \notin touched => Recorded(disk, d[1], d[2])
=============================================================================
