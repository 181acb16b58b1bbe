----------------------------- MODULE AnswerPool -----------------------------
(***************************************************************************)
(* What a worker pool promises its owner: requests start in the order of   *)
(* their admission, every request is answered at most once, answers come   *)
(* out in the order in which processing finished, and nothing comes out    *)
(* once the pool is closed.  WorkerPool is shown to implement it.          *)
(***************************************************************************)
EXTENDS Naturals, Sequences

CONSTANT Requests

VARIABLES waiting,      \* admitted, not started
          running,      \* being processed
          completed,    \* processed, in order, not yet handed out
          answered,     \* handed out, in order
          admitted,     \* every request ever admitted
          closed

poolVars == <<waiting, running, completed, answered, admitted, closed>>

PoolInit ==
    /\ waiting = <<>> /\ running = {} /\ completed = <<>> /\ answered = <<>>
    /\ admitted = {} /\ closed = FALSE

Admit(r) ==
    /\ ~closed /\ r \notin admitted
    /\ waiting' = Append(waiting, r)
    /\ admitted' = admitted \cup {r}
    /\ UNCHANGED <<running, completed, answered, closed>>

Begin ==
    /\ waiting # <<>>
    /\ running' = running \cup {Head(waiting)}
    /\ waiting' = Tail(waiting)
    /\ UNCHANGED <<completed, answered, admitted, closed>>

Finish(r) ==
    /\ r \in running
    /\ running' = running \ {r}
    /\ completed' = Append(completed, r)
    /\ UNCHANGED <<waiting, answered, admitted, closed>>

Answer ==
    /\ completed # <<>>
    /\ answered' = Append(answered, Head(completed))
    /\ completed' = Tail(completed)
    /\ UNCHANGED <<waiting, running, admitted, closed>>

Close ==
    /\ closed' = TRUE
    /\ waiting' = <<>> /\ running' = {} /\ completed' = <<>>
    /\ UNCHANGED <<answered, admitted>>

PoolNext ==
    \/ \E r \in Requests : Admit(r) \/ Finish(r)
    \/ Begin
    \/ Answer
    \/ Close

PoolSpec == PoolInit /\ [][PoolNext]_poolVars
=============================================================================
