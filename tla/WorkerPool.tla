----------------------------- MODULE WorkerPool -----------------------------
(***************************************************************************)
(* rust/src/workers.rs: one bounded pool of threads, its owner, the mutex  *)
(* around the queues and the single condition variable `changed`.          *)
(*                                                                         *)
(* Every critical section is one action.  A thread that waits on `changed` *)
(* is asleep until a notify_all or a spurious wakeup, and evaluates its    *)
(* wait_while predicate again under the lock.  A processor is opaque: it   *)
(* returns or unwinds, and either gives one answer.  The stop token of     *)
(* application/cancellation.rs is set in the critical section that sets    *)
(* `stopping`, so `stopping` stands for both.                              *)
(***************************************************************************)
EXTENDS Naturals, Sequences, FiniteSets

CONSTANTS
    Requests,          \* each is enqueued at most once, so answers can be told apart
    Capacities,        \* queue capacities the owner may ask for
    MaxParallelism,    \* MAX_PARALLELISM, 32 in the code
    TicketModulus,     \* 2^64 in the code: tickets are usize and wrap
    None

ASSUME CapacitiesAssumption == Capacities \subseteq Nat \ {0} /\ Capacities # {}
ASSUME ParallelismAssumption == MaxParallelism \in Nat \ {0}
ASSUME TicketAssumption == TicketModulus \in Nat /\ TicketModulus > MaxParallelism
ASSUME NoneAssumption == None \notin Requests

Threads == 0 .. MaxParallelism - 1

VARIABLES
    capacity, requests, results, active, parallelism, stopping,
    nextCompletion, nextPublication,
    owned,             \* length of WorkerPool::threads
    pc,                \* where each thread is
    held,              \* the request a thread works on, or its answer
    ticket,            \* its publication ticket
    owner,             \* what the owner of the pool is doing
    admitted,          \* observer: every request ever enqueued
    delivered          \* observer: the answers the owner took, in order

queueVars == <<capacity, requests, results, active, parallelism, stopping,
               nextCompletion, nextPublication>>
threadVars == <<owned, pc, held, ticket>>
observerVars == <<admitted, delivered>>
vars == <<queueVars, threadVars, owner, observerVars>>

(* WaitRequest and WaitPublication are asleep; Fetching and Publishing are the  *)
(* same places awake, before the predicate is evaluated.                        *)
Places == {"Unborn", "Fetching", "WaitRequest", "Processing",
           "Publishing", "WaitPublication", "Exited"}
OwnerPlaces == {"Constructing", "Failed", "Idle", "Notifying", "Waiting", "Joining", "Dropped"}

Ticketed == {t \in Threads : pc[t] \in {"Publishing", "WaitPublication"}}
Busy == {t \in Threads : pc[t] = "Processing"} \cup Ticketed

-----------------------------------------------------------------------------
(* Mutant: notify_one. *)
WokenOne ==
    LET asleep == {t \in Threads : pc[t] \in {"WaitRequest", "WaitPublication"}}
    IN  [t \in Threads |->
            IF asleep = {} \/ t # CHOOSE u \in asleep : \A v \in asleep : u <= v THEN pc[t]
            ELSE IF pc[t] = "WaitRequest" THEN "Fetching" ELSE "Publishing"]

(* notify_all.  The owner asleep in wait_for_result needs no state for it: its *)
(* timeout may end the wait at any moment.                                      *)
Woken ==
    [t \in Threads |-> CASE pc[t] = "WaitRequest"     -> "Fetching"
                         [] pc[t] = "WaitPublication" -> "Publishing"
                         [] OTHER                     -> pc[t]]

(* wrapping_add(1) *)
Wrapped(n) == IF n + 1 = TicketModulus THEN 0 ELSE n + 1

(* Mutant: the last enabled thread sleeps. *)
MustWaitOffByOne(t) ==
    /\ ~stopping
    /\ t + 1 >= parallelism \/ active >= parallelism \/ requests = <<>>

(* The two wait_while predicates of Shared::run. *)
MustWait(t) ==
    /\ ~stopping
    /\ t >= parallelism \/ active >= parallelism \/ requests = <<>>

(* Mutant: whoever finds space publishes. *)
AnyTicket(k) == ~stopping /\ Len(results) >= capacity

MustHold(k) ==
    /\ ~stopping
    /\ Len(results) >= capacity \/ k # nextPublication

-----------------------------------------------------------------------------
Init ==
    /\ capacity \in Capacities
    /\ requests = <<>> /\ results = <<>>
    /\ active = 0 /\ parallelism = 0 /\ stopping = FALSE
    /\ nextCompletion = 0 /\ nextPublication = 0
    /\ owned = 0
    /\ pc = [t \in Threads |-> "Unborn"]
    /\ held = [t \in Threads |-> None]
    /\ ticket = [t \in Threads |-> 0]
    /\ owner = "Constructing"
    /\ admitted = {} /\ delivered = <<>>

(* --- the threads --- *)

(* The head of the loop: sleep, return, or take the oldest request. *)
Fetch(t) ==
    /\ pc[t] = "Fetching"
    /\ \/ /\ MustWait(t)
          /\ pc' = [pc EXCEPT ![t] = "WaitRequest"]
          /\ UNCHANGED <<requests, active, held>>
       \/ /\ stopping
          /\ pc' = [pc EXCEPT ![t] = "Exited"]
          /\ UNCHANGED <<requests, active, held>>
       \/ /\ ~MustWait(t) /\ ~stopping
          /\ active' = active + 1
          /\ held' = [held EXCEPT ![t] = Head(requests)]
          /\ requests' = Tail(requests)
          /\ pc' = [pc EXCEPT ![t] = "Processing"]
    /\ UNCHANGED <<capacity, results, parallelism, stopping, nextCompletion, nextPublication,
                   owned, ticket, owner, observerVars>>

(* After the wait for publication: give the slot back, then return or publish. *)
Leave(t) ==
    /\ active' = active - 1
    /\ held' = [held EXCEPT ![t] = None]
    /\ IF stopping
       THEN /\ pc' = [Woken EXCEPT ![t] = "Exited"]
            /\ UNCHANGED <<results, nextPublication>>
       ELSE /\ results' = Append(results, held[t])
            /\ nextPublication' = Wrapped(nextPublication)
            /\ pc' = [Woken EXCEPT ![t] = "Fetching"]

(* process has returned: take a ticket, notify, and wait or leave without unlocking. *)
Complete(t) ==
    /\ pc[t] = "Processing"
    /\ nextCompletion' = Wrapped(nextCompletion)
    /\ ticket' = [ticket EXCEPT ![t] = nextCompletion]
    /\ \/ /\ MustHold(nextCompletion)
          /\ pc' = [Woken EXCEPT ![t] = "WaitPublication"]
          /\ UNCHANGED <<active, held, results, nextPublication>>
       \/ ~MustHold(nextCompletion) /\ Leave(t)
    /\ UNCHANGED <<capacity, requests, parallelism, stopping, owned, owner, observerVars>>

(* Woken while waiting for publication. *)
Publish(t) ==
    /\ pc[t] = "Publishing"
    /\ \/ /\ MustHold(ticket[t])
          /\ pc' = [pc EXCEPT ![t] = "WaitPublication"]
          /\ UNCHANGED <<active, held, results, nextPublication>>
       \/ ~MustHold(ticket[t]) /\ Leave(t)
    /\ UNCHANGED <<capacity, requests, parallelism, stopping, nextCompletion, owned, ticket,
                   owner, observerVars>>

(* A condition variable may wake a thread without a notification. *)
WakeSpuriously(t) ==
    /\ pc[t] \in {"WaitRequest", "WaitPublication"}
    /\ pc' = [pc EXCEPT ![t] = Woken[t]]
    /\ UNCHANGED <<queueVars, owned, held, ticket, owner, observerVars>>

(* --- the owner --- *)

(* Threads up to n exist; the new ones run as soon as the lock is free. *)
Started(places, n) ==
    [t \in Threads |-> IF places[t] = "Unborn" /\ t < n THEN "Fetching" ELSE places[t]]

(* resize_with, by update_parallelism or at the end of new_with. *)
Resize(n) ==
    /\ owner \in {"Constructing", "Idle"} /\ ~stopping
    /\ owned' = IF owned < n THEN n ELSE owned
    /\ parallelism' = n
    /\ pc' = Started(Woken, n)
    /\ owner' = "Idle"
    /\ UNCHANGED <<capacity, requests, results, active, stopping, nextCompletion, nextPublication,
                   held, ticket, observerVars>>

(* The thread after the first k cannot be started: those k stay owned and dormant. *)
(* A constructor that fails drops the pool.                                         *)
ResizeFails(n, k) ==
    /\ owner \in {"Constructing", "Idle"} /\ ~stopping
    /\ owned <= k /\ k < n
    /\ owned' = k
    /\ pc' = Started(pc, k)
    /\ owner' = IF owner = "Constructing" THEN "Failed" ELSE "Idle"
    /\ UNCHANGED <<queueVars, held, ticket, observerVars>>

UpdateQueueCapacity(c) ==
    /\ owner = "Idle" /\ ~stopping
    /\ capacity' = c
    /\ pc' = Woken
    /\ UNCHANGED <<requests, results, active, parallelism, stopping, nextCompletion,
                   nextPublication, owned, held, ticket, owner, observerVars>>

Enqueue(r) ==
    /\ owner = "Idle" /\ ~stopping
    /\ Len(requests) < capacity
    /\ r \notin admitted
    /\ requests' = Append(requests, r)
    /\ admitted' = admitted \cup {r}
    /\ pc' = Woken
    /\ UNCHANGED <<capacity, results, active, parallelism, stopping, nextCompletion,
                   nextPublication, owned, held, ticket, owner, delivered>>

(* Mutant: pop_back. *)
PopNewest ==
    IF results = <<>>
    THEN UNCHANGED <<results, delivered>>
    ELSE /\ delivered' = Append(delivered, results[Len(results)])
         /\ results' = SubSeq(results, 1, Len(results) - 1)

(* pop_front under the lock *)
Pop ==
    IF results = <<>>
    THEN UNCHANGED <<results, delivered>>
    ELSE /\ delivered' = Append(delivered, Head(results))
         /\ results' = Tail(results)

(* try_take_result unlocks between the pop and the notification. *)
TryTakeResult ==
    /\ owner = "Idle"
    /\ Pop
    /\ owner' = "Notifying"
    /\ UNCHANGED <<capacity, requests, active, parallelism, stopping, nextCompletion,
                   nextPublication, threadVars, admitted>>

NotifyTaken ==
    /\ owner = "Notifying"
    /\ pc' = Woken
    /\ owner' = "Idle"
    /\ UNCHANGED <<queueVars, owned, held, ticket, observerVars>>

(* wait_for_result sleeps until a result, the end of the pool or its timeout. *)
BeginWaitForResult ==
    /\ owner = "Idle" /\ ~stopping /\ results = <<>>
    /\ owner' = "Waiting"
    /\ UNCHANGED <<queueVars, threadVars, observerVars>>

EndWaitForResult ==
    /\ \/ owner = "Waiting"
       \/ owner = "Idle" /\ (stopping \/ results # <<>>)
    /\ Pop
    /\ pc' = Woken
    /\ owner' = "Idle"
    /\ UNCHANGED <<capacity, requests, active, parallelism, stopping, nextCompletion,
                   nextPublication, owned, held, ticket, admitted>>

(* Mutant: no notification. *)
CancelQuietly ==
    IF stopping
    THEN UNCHANGED <<requests, results, stopping, pc>>
    ELSE /\ stopping' = TRUE
         /\ requests' = <<>> /\ results' = <<>>
         /\ UNCHANGED pc

(* cancel_pending, which does nothing the second time. *)
Cancel ==
    IF stopping
    THEN UNCHANGED <<requests, results, stopping, pc>>
    ELSE /\ stopping' = TRUE
         /\ requests' = <<>> /\ results' = <<>>
         /\ pc' = Woken

CancelPending ==
    /\ owner = "Idle"
    /\ Cancel
    /\ UNCHANGED <<capacity, active, parallelism, nextCompletion, nextPublication,
                   owned, held, ticket, owner, observerVars>>

(* Drop: cancel, then join thread after thread. *)
Drop ==
    /\ owner \in {"Idle", "Failed"}
    /\ Cancel
    /\ owner' = "Joining"
    /\ UNCHANGED <<capacity, active, parallelism, nextCompletion, nextPublication,
                   owned, held, ticket, observerVars>>

Joined ==
    /\ owner = "Joining"
    /\ \A t \in Threads : t < owned => pc[t] = "Exited"
    /\ owner' = "Dropped"
    /\ UNCHANGED <<queueVars, threadVars, observerVars>>

ThreadNext(t) == Fetch(t) \/ Complete(t) \/ Publish(t) \/ WakeSpuriously(t)

OwnerNext ==
    \/ \E n \in 1 .. MaxParallelism : Resize(n) \/ \E k \in 0 .. n - 1 : ResizeFails(n, k)
    \/ \E c \in Capacities : UpdateQueueCapacity(c)
    \/ \E r \in Requests : Enqueue(r)
    \/ TryTakeResult
    \/ NotifyTaken
    \/ BeginWaitForResult
    \/ EndWaitForResult
    \/ CancelPending
    \/ Drop
    \/ Joined

Next == (\E t \in Threads : ThreadNext(t)) \/ OwnerNext

Spec == Init /\ [][Next]_vars

(* The threads run, and a processor that sees the stop token returns.  Nothing   *)
(* else is asked of processors or of the owner except that it ends what it began. *)
StopFairness ==
    /\ \A t \in Threads : /\ WF_vars(Fetch(t))
                          /\ WF_vars(Publish(t))
                          /\ WF_vars(stopping /\ Complete(t))
    /\ WF_vars(NotifyTaken)
    /\ WF_vars(EndWaitForResult)
    /\ WF_vars(owner = "Failed" /\ Drop)
    /\ WF_vars(Joined)

StopSpec == Spec /\ StopFairness

-----------------------------------------------------------------------------
(* Types and bounds of the queues.  A shrunk capacity keeps what is queued. *)
TypeOK ==
    /\ capacity \in Capacities
    /\ requests \in Seq(Requests) /\ results \in Seq(Requests)
    /\ active \in Nat
    /\ parallelism \in 0 .. MaxParallelism
    /\ stopping \in BOOLEAN
    /\ nextCompletion \in 0 .. TicketModulus - 1
    /\ nextPublication \in 0 .. TicketModulus - 1
    /\ owned \in 0 .. MaxParallelism
    /\ pc \in [Threads -> Places]
    /\ held \in [Threads -> Requests \cup {None}]
    /\ ticket \in [Threads -> 0 .. TicketModulus - 1]
    /\ owner \in OwnerPlaces
    /\ admitted \subseteq Requests
    /\ delivered \in Seq(Requests)

(* `active` counts the threads that process or hold an answer, on every path out  *)
(* of run; it never exceeds the threads that exist, although parallelism may      *)
(* shrink below it.                                                               *)
ActiveCountsBusy ==
    /\ active = Cardinality(Busy)
    /\ \A t \in Threads : pc[t] # "Unborn" <=> t < owned
    /\ \A t \in Threads : t \in Busy <=> held[t] # None

(* No lost wakeup: while the owner is not about to notify, no thread sleeps whose *)
(* predicate lets it run.  Enqueue, publication, resizing, capacity changes,      *)
(* results taken and cancellation all have to notify for it.                      *)
NoStrandedSleeper ==
    owner # "Notifying" =>
        \A t \in Threads : /\ pc[t] = "WaitRequest" => MustWait(t)
                           /\ pc[t] = "WaitPublication" => MustHold(ticket[t])

(* The outstanding tickets are exactly those from nextPublication up to           *)
(* nextCompletion, one thread each, across the wrap of both counters: some thread *)
(* always holds the ticket that is published next.                                *)
Distance(k) ==
    IF k >= nextPublication THEN k - nextPublication ELSE k + TicketModulus - nextPublication

TicketsConsecutive ==
    ~stopping =>
        /\ Distance(nextCompletion) = Cardinality(Ticketed)
        /\ \A t \in Ticketed : Distance(ticket[t]) < Distance(nextCompletion)
        /\ \A t, u \in Ticketed : ticket[t] = ticket[u] => t = u

(* After cancellation nothing is queued and nothing is published any more, though *)
(* threads may still be processing when cancel_pending returns.                   *)
CancelledPoolIsEmpty == stopping => requests = <<>> /\ results = <<>>

(* The pool implements AnswerPool: a request is answered once, in the order in     *)
(* which processing finished, whatever backpressure and resizing did.              *)
Holder(i) == CHOOSE t \in Ticketed : Distance(ticket[t]) = i - 1

Outstanding == [i \in 1 .. Distance(nextCompletion) |-> held[Holder(i)]]

Answers == INSTANCE AnswerPool WITH
    waiting <- requests,
    running <- IF stopping THEN {} ELSE {held[t] : t \in {u \in Threads : pc[u] = "Processing"}},
    completed <- IF stopping THEN <<>> ELSE results \o Outstanding,
    answered <- delivered,
    closed <- stopping

ImplementsAnswerPool == Answers!PoolSpec

(* A dropped pool joins all its threads, also those asleep for want of result     *)
(* space and those of a constructor or a resize that failed half-way.             *)
DropReturns == owner \in {"Failed", "Joining"} ~> owner = "Dropped"

(* Processors return (they contain unwinding and their I/O has deadlines), and the *)
(* owner polls for results as the tick does.                                        *)
Answering ==
    /\ \A t \in Threads : WF_vars(Complete(t))
    /\ SF_vars(results # <<>> /\ TryTakeResult)

(* Every admitted request is answered unless the pool is cancelled, however the   *)
(* owner resizes it meanwhile: a parallelism of one always leaves thread 0 at work. *)
EveryRequestAnswered ==
    Answering =>
        \A r \in Requests :
            r \in admitted ~> (stopping \/ \E i \in 1 .. Len(delivered) : delivered[i] = r)

(* The bookkeeping of the pool is exact: every count of active processors, *)
(* every ticket and every queue says what the threads are doing, across    *)
(* resizes, wrapping counters and cancellation.                            *)
PoolIsExact ==
    TypeOK /\ ActiveCountsBusy /\ TicketsConsecutive /\ CancelledPoolIsEmpty
=============================================================================
