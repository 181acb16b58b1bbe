-------------------------- MODULE WorkerPoolProofs --------------------------
(***************************************************************************)
(* Machine-checked proofs about WorkerPool, for every number of threads,   *)
(* every queue capacity and every width of the ticket counters.            *)
(***************************************************************************)
EXTENDS WorkerPool, FiniteSetTheorems, SequenceTheorems, TLAPS

(* The inductive invariant is the conjunction of what the runs check.       *)
IndInv ==
    /\ TypeOK
    /\ ActiveCountsBusy
    /\ NoStrandedSleeper
    /\ TicketsConsecutive
    /\ CancelledPoolIsEmpty

-----------------------------------------------------------------------------
(* Threads are finitely many, and fewer than there are tickets.             *)
LEMMA FiniteThreads ==
  ASSUME NEW S \in SUBSET Threads
  PROVE  /\ IsFiniteSet(S)
         /\ Cardinality(S) \in Nat
         /\ Cardinality(S) <= MaxParallelism
         /\ Cardinality(S) < TicketModulus
  <1>1. IsFiniteSet(Threads) /\ Cardinality(Threads) = MaxParallelism
    <2>1. 0 \in Int /\ MaxParallelism - 1 \in Int
      BY ParallelismAssumption
    <2> QED
      BY <2>1, FS_Interval, ParallelismAssumption DEF Threads
  <1>2. IsFiniteSet(S) /\ Cardinality(S) <= Cardinality(Threads)
    BY <1>1, FS_Subset
  <1> QED
    BY <1>1, <1>2, FS_CardinalityType, TicketAssumption, ParallelismAssumption

(* notify_all moves sleepers to the head of their wait and nobody else.     *)
LEMMA WokenPlaces ==
  ASSUME pc \in [Threads -> Places]
  PROVE  /\ Woken \in [Threads -> Places]
         /\ \A t \in Threads : Woken[t] \notin {"WaitRequest", "WaitPublication"}
         /\ \A t \in Threads : Woken[t] = "Processing" <=> pc[t] = "Processing"
         /\ \A t \in Threads : Woken[t] = "Unborn" <=> pc[t] = "Unborn"
         /\ \A t \in Threads : Woken[t] = "Exited" <=> pc[t] = "Exited"
         /\ \A t \in Threads : Woken[t] = "Publishing" <=> t \in Ticketed
  BY DEF Woken, Places, Ticketed

(* Nothing lies between a ticket and itself.                               *)
LEMMA NoDistance ==
  ASSUME NEW n \in 0 .. TicketModulus - 1
  PROVE  n >= n /\ n - n = 0
  BY TicketAssumption

(* The successor of a ticket is one further from the next publication.      *)
LEMMA NextTicket ==
  ASSUME NEW k \in 0 .. TicketModulus - 1, nextPublication \in 0 .. TicketModulus - 1
  PROVE  /\ Wrapped(k) \in 0 .. TicketModulus - 1
         /\ Distance(k) \in 0 .. TicketModulus - 1
         /\ Distance(k) = 0 <=> k = nextPublication
         /\ Distance(k) < TicketModulus - 1 => Distance(Wrapped(k)) = Distance(k) + 1
  BY TicketAssumption DEF Wrapped, Distance

(* Publishing brings every other ticket one step nearer.                    *)
LEMMA PublishedTicket ==
  ASSUME NEW k \in 0 .. TicketModulus - 1, nextPublication \in 0 .. TicketModulus - 1,
         nextPublication' = Wrapped(nextPublication), k # nextPublication
  PROVE  Distance(k)' = Distance(k) - 1
  BY TicketAssumption DEF Wrapped, Distance

LEMMA DistinctTickets ==
  ASSUME NEW k \in 0 .. TicketModulus - 1, NEW l \in 0 .. TicketModulus - 1,
         nextPublication \in 0 .. TicketModulus - 1, Distance(k) # Distance(l)
  PROVE  k # l
  OBVIOUS

-----------------------------------------------------------------------------
THEOREM Initially == Init => IndInv
  <1> SUFFICES ASSUME Init PROVE IndInv
    OBVIOUS
  <1>1. TypeOK
    <2>1. 0 \in 0 .. TicketModulus - 1 /\ 0 \in 0 .. MaxParallelism
      BY TicketAssumption, ParallelismAssumption
    <2>2. held \in [Threads -> Requests \cup {None}] /\ ticket \in [Threads -> 0 .. TicketModulus - 1]
      BY <2>1 DEF Init
    <2>3. pc \in [Threads -> Places] /\ owner \in OwnerPlaces
      BY DEF Init, Places, OwnerPlaces
    <2>4. requests \in Seq(Requests) /\ results \in Seq(Requests) /\ delivered \in Seq(Requests)
      BY DEF Init
    <2> QED
      BY <2>1, <2>2, <2>3, <2>4 DEF Init, TypeOK
  <1>2. Busy = {} /\ Ticketed = {}
    BY DEF Init, Busy, Ticketed
  <1>3. ActiveCountsBusy
    BY <1>2, FS_EmptySet DEF Init, ActiveCountsBusy, Threads
  <1>4. NoStrandedSleeper
    BY DEF Init, NoStrandedSleeper
  <1>5. TicketsConsecutive
    BY <1>2, FS_EmptySet DEF Init, TicketsConsecutive, Distance
  <1>6. CancelledPoolIsEmpty
    BY DEF Init, CancelledPoolIsEmpty
  <1> QED
    BY <1>1, <1>3, <1>4, <1>5, <1>6 DEF IndInv

-----------------------------------------------------------------------------
(* A step that leaves the busy threads and the tickets alone keeps both     *)
(* counting invariants.                                                     *)
LEMMA SameBusy ==
  ASSUME IndInv, UNCHANGED <<held, ticket, active, nextCompletion, nextPublication>>,
         pc' \in [Threads -> Places],
         \A t \in Threads : pc'[t] = "Processing" <=> pc[t] = "Processing",
         \A t \in Threads : pc'[t] \in {"Publishing", "WaitPublication"}
                              <=> pc[t] \in {"Publishing", "WaitPublication"}
  PROVE  /\ Busy' = Busy /\ Ticketed' = Ticketed
         /\ active' = Cardinality(Busy')
         /\ \A t \in Threads : t \in Busy' <=> held'[t] # None
         /\ (stopping' \/ ~stopping) => TicketsConsecutive'
  <1>1. Busy' = Busy /\ Ticketed' = Ticketed
    BY DEF Busy, Ticketed
  <1>2. active = Cardinality(Busy) /\ \A t \in Threads : t \in Busy <=> held[t] # None
    BY DEF IndInv, ActiveCountsBusy
  <1>3. (stopping' \/ ~stopping) => TicketsConsecutive'
    BY <1>1 DEF IndInv, TicketsConsecutive, Distance
  <1> QED
    BY <1>1, <1>2, <1>3

LEMMA FetchStep ==
  ASSUME IndInv, NEW t \in Threads, Fetch(t)
  PROVE  IndInv'
  <1>1. CASE /\ \/ MustWait(t) /\ pc' = [pc EXCEPT ![t] = "WaitRequest"]
                \/ stopping /\ pc' = [pc EXCEPT ![t] = "Exited"]
             /\ UNCHANGED <<requests, active, held>>
    <2>1. TypeOK'
      BY <1>1 DEF IndInv, Fetch, TypeOK, Places, observerVars
    <2>2. pc[t] = "Fetching" /\ pc' \in [Threads -> Places]
      BY <1>1, <2>1 DEF Fetch, TypeOK
    <2>3. /\ active' = Cardinality(Busy')
          /\ \A u \in Threads : u \in Busy' <=> held'[u] # None
          /\ TicketsConsecutive'
      BY <1>1, <2>2, SameBusy DEF IndInv, TypeOK, Fetch
    <2>4. ActiveCountsBusy'
      BY <1>1, <2>2, <2>3 DEF IndInv, TypeOK, ActiveCountsBusy, Fetch
    <2>5. NoStrandedSleeper'
      BY <1>1, <2>2 DEF IndInv, TypeOK, NoStrandedSleeper, MustWait, MustHold, Fetch
    <2>6. CancelledPoolIsEmpty'
      BY <1>1 DEF IndInv, CancelledPoolIsEmpty, Fetch
    <2> QED
      BY <2>1, <2>3, <2>4, <2>5, <2>6 DEF IndInv
  <1>2. CASE /\ ~MustWait(t) /\ ~stopping
             /\ active' = active + 1
             /\ held' = [held EXCEPT ![t] = Head(requests)]
             /\ requests' = Tail(requests)
             /\ pc' = [pc EXCEPT ![t] = "Processing"]
    <2>0. requests # <<>> /\ pc[t] = "Fetching" /\ Head(requests) \in Requests
      BY <1>2 DEF IndInv, TypeOK, MustWait, Fetch
    <2>1. TypeOK'
      BY <1>2, <2>0 DEF IndInv, Fetch, TypeOK, Places, observerVars
    <2>2. Busy' = Busy \cup {t} /\ t \notin Busy /\ Ticketed' = Ticketed
      BY <1>2, <2>0 DEF Busy, Ticketed, IndInv, TypeOK
    <2>3. Cardinality(Busy') = Cardinality(Busy) + 1
      <3>1. IsFiniteSet(Busy)
        BY FiniteThreads DEF Busy, Ticketed
      <3> QED
        BY <2>2, <3>1, FS_AddElement
    <2>4. ActiveCountsBusy'
      BY <1>2, <2>0, <2>2, <2>3, NoneAssumption DEF IndInv, TypeOK, ActiveCountsBusy, Fetch
    <2>5. NoStrandedSleeper'
      BY <1>2, <2>0 DEF IndInv, TypeOK, NoStrandedSleeper, MustWait, MustHold, Fetch
    <2>6. TicketsConsecutive'
      BY <1>2, <2>2 DEF IndInv, TicketsConsecutive, Distance, Fetch
    <2>7. CancelledPoolIsEmpty'
      BY <1>2 DEF CancelledPoolIsEmpty, Fetch
    <2> QED
      BY <2>1, <2>4, <2>5, <2>6, <2>7 DEF IndInv
  <1> QED
    BY <1>1, <1>2 DEF Fetch

(* A thread that leaves the wait for publication.  Without a stop it holds  *)
(* the ticket that is published next, or took and may use it at once, in    *)
(* which case no other thread has a ticket.                                 *)
LEMMA LeaveStep ==
  ASSUME IndInv, NEW t \in Threads, pc[t] \in {"Processing", "Publishing"}, Leave(t),
         UNCHANGED <<capacity, requests, parallelism, stopping, owned, owner, observerVars>>,
         ticket' \in [Threads -> 0 .. TicketModulus - 1],
         \A u \in Threads \ {t} : ticket'[u] = ticket[u],
         nextCompletion' \in 0 .. TicketModulus - 1,
         ~stopping => \/ /\ pc[t] = "Processing" /\ Ticketed = {}
                         /\ nextCompletion = nextPublication
                         /\ nextCompletion' = Wrapped(nextCompletion)
                      \/ /\ pc[t] = "Publishing" /\ ticket[t] = nextPublication
                         /\ nextCompletion' = nextCompletion
  PROVE  IndInv'
  <1> USE DEF IndInv, observerVars
  <1>r. /\ nextPublication \in 0 .. TicketModulus - 1
        /\ nextCompletion \in 0 .. TicketModulus - 1
        /\ ticket \in [Threads -> 0 .. TicketModulus - 1]
    BY DEF TypeOK
  <1>0. PICK place \in {"Exited", "Fetching"} :
             /\ pc' = [Woken EXCEPT ![t] = place]
             /\ held' = [held EXCEPT ![t] = None]
             /\ active' = active - 1
             /\ stopping => UNCHANGED <<results, nextPublication>>
             /\ ~stopping => /\ results' = Append(results, held[t])
                             /\ nextPublication' = Wrapped(nextPublication)
    BY DEF Leave
  <1>1. /\ Woken \in [Threads -> Places]
        /\ \A u \in Threads : Woken[u] \notin {"WaitRequest", "WaitPublication"}
        /\ \A u \in Threads : Woken[u] = "Processing" <=> pc[u] = "Processing"
        /\ \A u \in Threads : Woken[u] = "Unborn" <=> pc[u] = "Unborn"
        /\ \A u \in Threads : Woken[u] = "Publishing" <=> u \in Ticketed
    BY WokenPlaces DEF TypeOK
  <1>2. pc' \in [Threads -> Places] /\ \A u \in Threads : pc'[u] = IF u = t THEN place ELSE Woken[u]
    BY <1>0, <1>1 DEF Places
  <1>3. t \in Busy /\ Busy' = Busy \ {t} /\ Ticketed' = Ticketed \ {t}
    BY <1>1, <1>2 DEF Busy, Ticketed
  <1>4. IsFiniteSet(Busy) /\ IsFiniteSet(Ticketed)
    BY FiniteThreads DEF Busy, Ticketed
  <1>5. Cardinality(Busy') = Cardinality(Busy) - 1
    BY <1>3, <1>4, FS_RemoveElement
  <1>6. active' \in Nat
    <2>1. Busy # {} /\ Cardinality(Busy) \in Nat
      BY <1>3, <1>4, FS_CardinalityType
    <2>2. Cardinality(Busy) # 0
      BY <2>1, <1>4, FS_EmptySet
    <2> QED
      BY <1>0, <2>1, <2>2 DEF ActiveCountsBusy
  <1>7. held[t] \in Requests /\ held' \in [Threads -> Requests \cup {None}]
    BY <1>0, <1>3 DEF TypeOK, ActiveCountsBusy
  <1>8. TypeOK'
    <2>1. Wrapped(nextPublication) \in 0 .. TicketModulus - 1
      BY <1>r, TicketAssumption DEF Wrapped
    <2>2. results' \in Seq(Requests) /\ nextPublication' \in 0 .. TicketModulus - 1
      <3>1. results \in Seq(Requests)
        BY DEF TypeOK
      <3>2. CASE stopping
        BY <1>0, <1>r, <3>1, <3>2
      <3>3. CASE ~stopping
        <4>1. results' = Append(results, held[t]) /\ nextPublication' = Wrapped(nextPublication)
          BY <1>0, <3>3
        <4>2. Append(results, held[t]) \in Seq(Requests)
          BY <1>7, <3>1
        <4> QED
          BY <2>1, <4>1, <4>2
      <3> QED
        BY <3>2, <3>3
    <2> QED
      BY <1>2, <1>6, <1>7, <2>2 DEF TypeOK
  <1>9. ActiveCountsBusy'
    <2>1. \A u \in Threads : pc'[u] # "Unborn" <=> u < owned'
      BY <1>1, <1>2 DEF ActiveCountsBusy
    <2>2. \A u \in Threads : u \in Busy' <=> held'[u] # None
      BY <1>0, <1>3 DEF ActiveCountsBusy, TypeOK
    <2>3. active' = Cardinality(Busy')
      BY <1>0, <1>5 DEF ActiveCountsBusy
    <2> QED
      BY <2>1, <2>2, <2>3 DEF ActiveCountsBusy
  <1>10. NoStrandedSleeper'
    BY <1>1, <1>2 DEF NoStrandedSleeper
  <1>11. CancelledPoolIsEmpty'
    BY <1>0 DEF CancelledPoolIsEmpty
  <1>12. ASSUME ~stopping PROVE TicketsConsecutive'
    <2>1. nextPublication' = Wrapped(nextPublication)
      BY <1>0, <1>12
    <2>2. CASE pc[t] = "Processing"
      <3>1. Ticketed' = {} /\ Cardinality(Ticketed') = 0
        BY <1>3, <1>12, <2>2, FS_EmptySet
      <3>2. nextCompletion' = nextPublication'
        BY <1>12, <2>1, <2>2
      <3>3. Distance(nextCompletion)' = 0
        <4>1. nextPublication' \in 0 .. TicketModulus - 1
          BY <1>8 DEF TypeOK
        <4> QED
          BY <3>2, <4>1, NoDistance DEF Distance
      <3> QED
        BY <3>1, <3>3 DEF TicketsConsecutive
    <2>3. CASE pc[t] = "Publishing"
      <3>1. t \in Ticketed /\ ticket[t] = nextPublication /\ nextCompletion' = nextCompletion
        BY <1>12, <2>3 DEF Ticketed
      <3>2. Cardinality(Ticketed') = Cardinality(Ticketed) - 1
        BY <1>3, <1>4, <3>1, FS_RemoveElement
      <3>3. \A u \in Ticketed : /\ Distance(ticket[u]) < Distance(nextCompletion)
                                /\ \A w \in Ticketed : ticket[u] = ticket[w] => u = w
        BY <1>12 DEF TicketsConsecutive
      <3>4. Distance(ticket[t]) = 0 /\ Distance(nextCompletion) # 0
        BY <3>1, <3>3, NextTicket DEF TypeOK
      <3>5. nextCompletion # nextPublication
        BY <3>4, NextTicket DEF TypeOK
      <3>6. Distance(nextCompletion') = Distance(nextCompletion)
        BY <3>1
      <3>7. Distance(nextCompletion)' = Distance(nextCompletion) - 1
        BY <3>1, <3>5, <2>1, PublishedTicket DEF TypeOK, Distance
      <3>8. ASSUME NEW u \in Ticketed'
            PROVE  Distance(ticket[u])' = Distance(ticket[u]) - 1
        <4>1. u \in Threads /\ u # t /\ u \in Ticketed /\ ticket'[u] = ticket[u]
          BY <1>3, <3>8 DEF Ticketed
        <4>2. ticket[u] # nextPublication /\ ticket[u] \in 0 .. TicketModulus - 1
          BY <3>1, <3>3, <4>1 DEF TypeOK
        <4> QED
          BY <2>1, <4>1, <4>2, TicketAssumption DEF TypeOK, Distance, Wrapped
      <3>9. \A u \in Ticketed' : ticket'[u] = ticket[u] /\ ticket[u] \in 0 .. TicketModulus - 1
        BY <1>3 DEF Ticketed, TypeOK
      <3>10. \A u \in Ticketed' : Distance(ticket[u])' < Distance(nextCompletion)'
        <4>1. \A u \in Ticketed' : Distance(ticket[u]) \in Int
          BY <1>r, <3>9, NextTicket
        <4>2. Distance(nextCompletion) \in Int
          BY <1>r, NextTicket
        <4> QED
          BY <1>3, <3>3, <3>7, <3>8, <4>1, <4>2
      <3>11. Distance(nextCompletion)' = Cardinality(Ticketed')
        BY <1>12, <3>2, <3>7 DEF TicketsConsecutive
      <3> QED
        BY <1>3, <3>3, <3>9, <3>10, <3>11 DEF TicketsConsecutive
    <2> QED
      BY <2>2, <2>3
  <1>13. TicketsConsecutive'
    BY <1>12 DEF TicketsConsecutive
  <1> QED
    BY <1>8, <1>9, <1>10, <1>11, <1>13

(* The answer is published at once, or the thread goes to sleep with the    *)
(* newest ticket.                                                           *)
LEMMA CompleteStep ==
  ASSUME IndInv, NEW t \in Threads, Complete(t)
  PROVE  IndInv'
  <1> USE DEF IndInv
  <1>1. /\ pc[t] = "Processing"
        /\ nextCompletion' = Wrapped(nextCompletion)
        /\ ticket' = [ticket EXCEPT ![t] = nextCompletion]
        /\ UNCHANGED <<capacity, requests, parallelism, stopping, owned, owner, observerVars>>
    BY DEF Complete
  <1>2. /\ nextPublication \in 0 .. TicketModulus - 1
        /\ nextCompletion \in 0 .. TicketModulus - 1
        /\ ticket \in [Threads -> 0 .. TicketModulus - 1]
        /\ pc \in [Threads -> Places]
    BY DEF TypeOK
  <1>3. nextCompletion' \in 0 .. TicketModulus - 1 /\ ticket' \in [Threads -> 0 .. TicketModulus - 1]
    BY <1>1, <1>2, TicketAssumption DEF Wrapped
  <1>4. CASE ~MustHold(nextCompletion) /\ Leave(t)
    <2>1. ASSUME ~stopping PROVE nextCompletion = nextPublication /\ Ticketed = {}
      <3>1. nextCompletion = nextPublication
        BY <1>4, <2>1 DEF MustHold
      <3>2. Distance(nextCompletion) = 0
        BY <1>2, <3>1 DEF Distance
      <3>3. IsFiniteSet(Ticketed) /\ Cardinality(Ticketed) = 0
        BY <2>1, <3>2, FiniteThreads DEF TicketsConsecutive, Ticketed
      <3> QED
        BY <3>1, <3>3, FS_EmptySet
    <2> QED
      BY <1>1, <1>2, <1>3, <1>4, <2>1, LeaveStep
  <1>5. CASE /\ MustHold(nextCompletion)
             /\ pc' = [Woken EXCEPT ![t] = "WaitPublication"]
             /\ UNCHANGED <<active, held, results, nextPublication>>
    <2>1. /\ Woken \in [Threads -> Places]
          /\ \A u \in Threads : Woken[u] \notin {"WaitRequest", "WaitPublication"}
          /\ \A u \in Threads : Woken[u] = "Processing" <=> pc[u] = "Processing"
          /\ \A u \in Threads : Woken[u] = "Unborn" <=> pc[u] = "Unborn"
          /\ \A u \in Threads : Woken[u] = "Publishing" <=> u \in Ticketed
      BY <1>2, WokenPlaces
    <2>2. /\ pc' \in [Threads -> Places]
          /\ \A u \in Threads : pc'[u] = IF u = t THEN "WaitPublication" ELSE Woken[u]
      BY <1>5, <2>1 DEF Places
    <2>3. Busy' = Busy /\ Ticketed' = Ticketed \cup {t} /\ t \notin Ticketed
      BY <1>1, <2>1, <2>2 DEF Busy, Ticketed
    <2>4. TypeOK'
      BY <1>1, <1>3, <1>5, <2>2 DEF TypeOK, observerVars
    <2>5. ActiveCountsBusy'
      BY <1>1, <1>5, <2>1, <2>2, <2>3 DEF ActiveCountsBusy
    <2>6. NoStrandedSleeper'
      BY <1>1, <1>2, <1>5, <2>1, <2>2 DEF NoStrandedSleeper, MustHold
    <2>7. CancelledPoolIsEmpty'
      BY <1>1, <1>5 DEF CancelledPoolIsEmpty
    <2>8. ASSUME ~stopping PROVE TicketsConsecutive'
      <3>1. /\ Distance(nextCompletion) = Cardinality(Ticketed)
            /\ \A u \in Ticketed : Distance(ticket[u]) < Distance(nextCompletion)
            /\ \A u, w \in Ticketed : ticket[u] = ticket[w] => u = w
        BY <2>8 DEF TicketsConsecutive
      <3>2. IsFiniteSet(Ticketed) /\ Cardinality(Ticketed') < TicketModulus
        BY <2>3, FiniteThreads DEF Ticketed
      <3>3. Cardinality(Ticketed') = Cardinality(Ticketed) + 1
        BY <2>3, <3>2, FS_AddElement
      <3>4. Distance(nextCompletion)' = Distance(nextCompletion) + 1
        <4>1. Distance(nextCompletion) < TicketModulus - 1
          BY <1>2, <3>1, <3>2, <3>3, NextTicket, TicketAssumption
        <4> QED
          BY <1>1, <1>2, <1>5, <4>1, TicketAssumption DEF Distance, Wrapped
      <3>5. \A u \in Ticketed : /\ ticket'[u] = ticket[u]
                                /\ Distance(ticket[u])' = Distance(ticket[u])
                                /\ Distance(ticket[u]) \in Int
        BY <1>1, <1>2, <1>5, <2>3, NextTicket DEF Distance, Ticketed
      <3>6. ticket'[t] = nextCompletion /\ Distance(ticket[t])' = Distance(nextCompletion)
        BY <1>1, <1>2, <1>5 DEF Distance
      <3>7. Distance(nextCompletion) \in Int
        BY <1>2, NextTicket
      <3>8. \A u \in Ticketed' : Distance(ticket[u])' < Distance(nextCompletion)'
        BY <2>3, <3>1, <3>4, <3>5, <3>6, <3>7
      <3>9. \A u \in Ticketed : ticket[u] # nextCompletion
        BY <3>1, <3>5, <3>7
      <3> QED
        BY <2>3, <3>1, <3>3, <3>4, <3>5, <3>6, <3>8, <3>9 DEF TicketsConsecutive
    <2>9. TicketsConsecutive'
      BY <1>1, <2>8 DEF TicketsConsecutive
    <2> QED
      BY <2>4, <2>5, <2>6, <2>7, <2>9
  <1> QED
    BY <1>4, <1>5 DEF Complete

LEMMA PublishStep ==
  ASSUME IndInv, NEW t \in Threads, Publish(t)
  PROVE  IndInv'
  <1> USE DEF IndInv
  <1>1. /\ pc[t] = "Publishing"
        /\ UNCHANGED <<capacity, requests, parallelism, stopping, nextCompletion, owned, ticket,
                       owner, observerVars>>
    BY DEF Publish
  <1>2. CASE ~MustHold(ticket[t]) /\ Leave(t)
    <2>1. ~stopping => ticket[t] = nextPublication
      BY <1>2 DEF MustHold
    <2> QED
      BY <1>1, <1>2, <2>1, LeaveStep DEF TypeOK
  <1>3. CASE /\ MustHold(ticket[t])
             /\ pc' = [pc EXCEPT ![t] = "WaitPublication"]
             /\ UNCHANGED <<active, held, results, nextPublication>>
    <2>1. /\ pc' \in [Threads -> Places]
          /\ \A u \in Threads : pc'[u] = IF u = t THEN "WaitPublication" ELSE pc[u]
      BY <1>3 DEF TypeOK, Places
    <2>2. /\ active' = Cardinality(Busy')
          /\ \A u \in Threads : u \in Busy' <=> held'[u] # None
          /\ TicketsConsecutive'
      BY <1>1, <1>3, <2>1, SameBusy
    <2>3. TypeOK'
      BY <1>1, <1>3, <2>1 DEF TypeOK, observerVars
    <2>4. ActiveCountsBusy'
      BY <1>1, <2>1, <2>2 DEF ActiveCountsBusy
    <2>5. NoStrandedSleeper'
      BY <1>1, <1>3, <2>1 DEF NoStrandedSleeper, MustHold, MustWait
    <2>6. CancelledPoolIsEmpty'
      BY <1>1, <1>3 DEF CancelledPoolIsEmpty
    <2> QED
      BY <2>2, <2>3, <2>4, <2>5, <2>6
  <1> QED
    BY <1>2, <1>3 DEF Publish

LEMMA WakeSpuriouslyStep ==
  ASSUME IndInv, NEW t \in Threads, WakeSpuriously(t)
  PROVE  IndInv'
  <1> USE DEF IndInv, WakeSpuriously, queueVars, observerVars
  <1>1. /\ pc' \in [Threads -> Places]
        /\ \A u \in Threads : u # t => pc'[u] = pc[u]
        /\ \/ pc[t] = "WaitRequest" /\ pc'[t] = "Fetching"
           \/ pc[t] = "WaitPublication" /\ pc'[t] = "Publishing"
    <2>1. pc \in [Threads -> Places] /\ pc' = [pc EXCEPT ![t] = Woken[t]]
      BY DEF TypeOK
    <2>2. \/ pc[t] = "WaitRequest" /\ Woken[t] = "Fetching"
          \/ pc[t] = "WaitPublication" /\ Woken[t] = "Publishing"
      BY DEF Woken
    <2> QED
      BY <2>1, <2>2 DEF Places
  <1>2. /\ active' = Cardinality(Busy')
        /\ \A u \in Threads : u \in Busy' <=> held'[u] # None
        /\ TicketsConsecutive'
    BY <1>1, SameBusy
  <1>3. TypeOK'
    BY <1>1 DEF TypeOK
  <1>4. ActiveCountsBusy'
    BY <1>1, <1>2 DEF ActiveCountsBusy
  <1>5. NoStrandedSleeper'
    BY <1>1 DEF NoStrandedSleeper, MustHold, MustWait
  <1>6. CancelledPoolIsEmpty'
    BY DEF CancelledPoolIsEmpty
  <1> QED
    BY <1>2, <1>3, <1>4, <1>5, <1>6

-----------------------------------------------------------------------------
(* Owner steps that wake every sleeper (or leave all threads alone) change  *)
(* neither tickets nor what a thread works on.                              *)
LEMMA WokenStep ==
  ASSUME IndInv, NEW n \in 0 .. MaxParallelism,
         pc' = Started(Woken, n), owned' = IF owned < n THEN n ELSE owned,
         UNCHANGED <<held, ticket, active, nextCompletion, nextPublication>>,
         stopping' \/ ~stopping
  PROVE  /\ pc' \in [Threads -> Places] /\ owned' \in 0 .. MaxParallelism
         /\ ActiveCountsBusy' /\ NoStrandedSleeper' /\ TicketsConsecutive'
  <1> USE DEF IndInv
  <1>1. pc \in [Threads -> Places] /\ owned \in 0 .. MaxParallelism
    BY DEF TypeOK
  <1>2. /\ Woken \in [Threads -> Places]
        /\ \A u \in Threads : Woken[u] \notin {"WaitRequest", "WaitPublication"}
        /\ \A u \in Threads : Woken[u] = "Processing" <=> pc[u] = "Processing"
        /\ \A u \in Threads : Woken[u] = "Unborn" <=> pc[u] = "Unborn"
        /\ \A u \in Threads : Woken[u] = "Publishing" <=> u \in Ticketed
    BY <1>1, WokenPlaces
  <1>3. /\ pc' \in [Threads -> Places]
        /\ \A u \in Threads : pc'[u] = IF Woken[u] = "Unborn" /\ u < n THEN "Fetching" ELSE Woken[u]
    BY <1>2 DEF Started, Places
  <1>4. /\ active' = Cardinality(Busy')
        /\ \A u \in Threads : u \in Busy' <=> held'[u] # None
        /\ TicketsConsecutive'
    <2>1. \A u \in Threads : pc'[u] = "Processing" <=> pc[u] = "Processing"
      BY <1>2, <1>3
    <2>2. \A u \in Threads : pc'[u] \in {"Publishing", "WaitPublication"}
                                <=> pc[u] \in {"Publishing", "WaitPublication"}
      BY <1>2, <1>3 DEF Ticketed
    <2> QED
      BY <1>3, <2>1, <2>2, SameBusy
  <1>5. ActiveCountsBusy'
    <2>1. \A u \in Threads : pc[u] # "Unborn" <=> u < owned
      BY DEF ActiveCountsBusy
    <2>2. \A u \in Threads : pc'[u] # "Unborn" <=> u < owned'
      BY <1>1, <1>2, <1>3, <2>1 DEF Threads
    <2> QED
      BY <1>4, <2>2 DEF ActiveCountsBusy
  <1>6. NoStrandedSleeper'
    BY <1>2, <1>3 DEF NoStrandedSleeper
  <1> QED
    BY <1>1, <1>3, <1>4, <1>5, <1>6

LEMMA WokenOnly ==
  ASSUME pc \in [Threads -> Places]
  PROVE  Started(Woken, 0) = Woken
  <1>1. \A t \in Threads : ~(t < 0)
    BY DEF Threads
  <1>2. Woken = [t \in Threads |-> Woken[t]]
    BY DEF Woken
  <1> QED
    BY <1>1, <1>2 DEF Started

LEMMA ResizeStep ==
  ASSUME IndInv, NEW n \in 1 .. MaxParallelism, Resize(n)
  PROVE  IndInv'
  <1> USE DEF IndInv, Resize, observerVars
  <1>1. n \in 0 .. MaxParallelism
    BY ParallelismAssumption
  <1>2. /\ pc' \in [Threads -> Places] /\ owned' \in 0 .. MaxParallelism
        /\ ActiveCountsBusy' /\ NoStrandedSleeper' /\ TicketsConsecutive'
    BY <1>1, WokenStep
  <1>3. TypeOK'
    BY <1>1, <1>2 DEF TypeOK, OwnerPlaces
  <1>4. CancelledPoolIsEmpty'
    BY DEF CancelledPoolIsEmpty
  <1> QED
    BY <1>2, <1>3, <1>4

LEMMA ResizeFailsStep ==
  ASSUME IndInv, NEW n \in 1 .. MaxParallelism, NEW k \in 0 .. n - 1, ResizeFails(n, k)
  PROVE  IndInv'
  <1> USE DEF IndInv, ResizeFails, queueVars, observerVars
  <1>1. k \in 0 .. MaxParallelism /\ k >= owned /\ owned \in 0 .. MaxParallelism
    BY ParallelismAssumption DEF TypeOK
  <1>2. /\ pc' \in [Threads -> Places]
        /\ \A u \in Threads : pc'[u] = IF pc[u] = "Unborn" /\ u < k THEN "Fetching" ELSE pc[u]
    BY DEF Started, TypeOK, Places
  <1>3. /\ active' = Cardinality(Busy')
        /\ \A u \in Threads : u \in Busy' <=> held'[u] # None
        /\ TicketsConsecutive'
    BY <1>2, SameBusy
  <1>4. TypeOK'
    BY <1>1, <1>2 DEF TypeOK, OwnerPlaces
  <1>5. ActiveCountsBusy'
    <2>1. \A u \in Threads : pc[u] # "Unborn" <=> u < owned
      BY DEF ActiveCountsBusy
    <2>2. \A u \in Threads : pc'[u] # "Unborn" <=> u < owned'
      BY <1>1, <1>2, <2>1 DEF Threads
    <2> QED
      BY <1>3, <2>2 DEF ActiveCountsBusy
  <1>6. NoStrandedSleeper'
    BY <1>2 DEF NoStrandedSleeper, MustWait, MustHold
  <1>7. CancelledPoolIsEmpty'
    BY DEF CancelledPoolIsEmpty
  <1> QED
    BY <1>3, <1>4, <1>5, <1>6, <1>7

(* An owner step that only notifies, and changes queues, capacity or the    *)
(* stop flag.                                                               *)
LEMMA NotifyStep ==
  ASSUME IndInv, pc' = Woken,
         UNCHANGED <<owned, held, ticket, active, nextCompletion, nextPublication>>,
         stopping' \/ ~stopping
  PROVE  /\ pc' \in [Threads -> Places] /\ owned' \in 0 .. MaxParallelism
         /\ ActiveCountsBusy' /\ NoStrandedSleeper' /\ TicketsConsecutive'
  <1>1. pc \in [Threads -> Places] /\ owned \in 0 .. MaxParallelism
    BY DEF IndInv, TypeOK
  <1>2. pc' = Started(Woken, 0)
    BY <1>1, WokenOnly
  <1>3. 0 \in 0 .. MaxParallelism /\ owned' = IF owned < 0 THEN 0 ELSE owned
    BY <1>1, ParallelismAssumption
  <1> QED
    BY <1>2, <1>3, WokenStep

(* An owner step that touches no thread and notifies nobody may only leave  *)
(* the owner about to notify, or change no predicate.                       *)
LEMMA QuietStep ==
  ASSUME IndInv, UNCHANGED <<owned, pc, held, ticket, active, nextCompletion, nextPublication>>,
         stopping' = stopping
  PROVE  ActiveCountsBusy' /\ TicketsConsecutive'
  BY DEF IndInv, ActiveCountsBusy, TicketsConsecutive, Distance, Busy, Ticketed

LEMMA PopTypes ==
  ASSUME Pop, results \in Seq(Requests), delivered \in Seq(Requests)
  PROVE  /\ results' \in Seq(Requests) /\ delivered' \in Seq(Requests)
         /\ results = <<>> => results' = <<>>
  <1>1. CASE results = <<>>
    BY <1>1 DEF Pop
  <1>2. CASE results # <<>>
    <2>1. Head(results) \in Requests /\ Tail(results) \in Seq(Requests)
      BY <1>2
    <2>2. delivered' = Append(delivered, Head(results)) /\ results' = Tail(results)
      BY <1>2 DEF Pop
    <2>3. Append(delivered, Head(results)) \in Seq(Requests)
      BY <2>1
    <2> QED
      BY <1>2, <2>1, <2>2, <2>3
  <1> QED
    BY <1>1, <1>2

-----------------------------------------------------------------------------
(* The owner's remaining operations.                                        *)
LEMMA QueueSteps ==
  ASSUME IndInv,
         \/ \E c \in Capacities : UpdateQueueCapacity(c)
         \/ \E r \in Requests : Enqueue(r)
         \/ NotifyTaken
         \/ EndWaitForResult
  PROVE  IndInv'
  <1> USE DEF IndInv, queueVars, observerVars
  <1>1. /\ pc' = Woken /\ stopping' = stopping
        /\ UNCHANGED <<owned, held, ticket, active, parallelism, nextCompletion, nextPublication>>
    BY DEF UpdateQueueCapacity, Enqueue, NotifyTaken, EndWaitForResult
  <1>2. /\ pc' \in [Threads -> Places] /\ owned' \in 0 .. MaxParallelism
        /\ ActiveCountsBusy' /\ NoStrandedSleeper' /\ TicketsConsecutive'
    BY <1>1, NotifyStep
  <1>3. /\ capacity' \in Capacities /\ requests' \in Seq(Requests) /\ results' \in Seq(Requests)
        /\ owner' \in OwnerPlaces /\ admitted' \subseteq Requests /\ delivered' \in Seq(Requests)
        /\ CancelledPoolIsEmpty'
    <2>1. CASE \E c \in Capacities : UpdateQueueCapacity(c)
      BY <2>1 DEF UpdateQueueCapacity, TypeOK, CancelledPoolIsEmpty
    <2>2. CASE \E r \in Requests : Enqueue(r)
      <3>1. PICK r \in Requests : Enqueue(r)
        BY <2>2
      <3>2. Append(requests, r) \in Seq(Requests)
        BY DEF TypeOK
      <3> QED
        BY <3>1, <3>2 DEF Enqueue, TypeOK, CancelledPoolIsEmpty
    <2>3. CASE NotifyTaken
      BY <2>3 DEF NotifyTaken, TypeOK, OwnerPlaces, CancelledPoolIsEmpty
    <2>4. CASE EndWaitForResult
      BY <2>4, PopTypes DEF EndWaitForResult, TypeOK, OwnerPlaces, CancelledPoolIsEmpty
    <2> QED
      BY <2>1, <2>2, <2>3, <2>4
  <1>4. TypeOK'
    BY <1>1, <1>2, <1>3 DEF TypeOK
  <1> QED
    BY <1>2, <1>3, <1>4

LEMMA QuietSteps ==
  ASSUME IndInv, TryTakeResult \/ BeginWaitForResult \/ Joined
  PROVE  IndInv'
  <1> USE DEF IndInv, queueVars, threadVars, observerVars
  <1>1. /\ UNCHANGED <<capacity, requests, threadVars, active, parallelism, stopping,
                       nextCompletion, nextPublication, admitted>>
    BY DEF TryTakeResult, BeginWaitForResult, Joined
  <1>2. ActiveCountsBusy' /\ TicketsConsecutive'
    BY <1>1, QuietStep
  <1>3. /\ results' \in Seq(Requests) /\ delivered' \in Seq(Requests) /\ owner' \in OwnerPlaces
        /\ CancelledPoolIsEmpty' /\ NoStrandedSleeper'
    <2>1. CASE TryTakeResult
      BY <2>1, PopTypes DEF TryTakeResult, TypeOK, OwnerPlaces, CancelledPoolIsEmpty, NoStrandedSleeper
    <2>2. CASE BeginWaitForResult
      BY <2>2 DEF BeginWaitForResult, TypeOK, OwnerPlaces, CancelledPoolIsEmpty, NoStrandedSleeper,
                  MustWait, MustHold
    <2>3. CASE Joined
      BY <2>3 DEF Joined, TypeOK, OwnerPlaces, CancelledPoolIsEmpty, NoStrandedSleeper,
                  MustWait, MustHold
    <2> QED
      BY <2>1, <2>2, <2>3
  <1>4. TypeOK'
    BY <1>1, <1>3 DEF TypeOK
  <1> QED
    BY <1>2, <1>3, <1>4

LEMMA CancelSteps ==
  ASSUME IndInv, CancelPending \/ Drop
  PROVE  IndInv'
  <1> USE DEF IndInv, observerVars
  <1>1. /\ Cancel /\ owner # "Notifying" /\ owner' \in OwnerPlaces
        /\ UNCHANGED <<capacity, active, parallelism, nextCompletion, nextPublication,
                       owned, held, ticket, observerVars>>
    BY DEF CancelPending, Drop, OwnerPlaces
  <1>2. CASE stopping
    <2>1. UNCHANGED <<requests, results, stopping, pc>>
      BY <1>1, <1>2 DEF Cancel
    <2>2. ActiveCountsBusy' /\ TicketsConsecutive'
      BY <1>1, <2>1, QuietStep
    <2>3. TypeOK'
      BY <1>1, <2>1 DEF TypeOK
    <2>4. NoStrandedSleeper' /\ CancelledPoolIsEmpty'
      BY <1>1, <2>1 DEF NoStrandedSleeper, CancelledPoolIsEmpty, MustWait, MustHold
    <2> QED
      BY <2>2, <2>3, <2>4
  <1>3. CASE ~stopping
    <2>1. stopping' = TRUE /\ requests' = <<>> /\ results' = <<>> /\ pc' = Woken
      BY <1>1, <1>3 DEF Cancel
    <2>2. /\ pc' \in [Threads -> Places] /\ owned' \in 0 .. MaxParallelism
          /\ ActiveCountsBusy' /\ NoStrandedSleeper' /\ TicketsConsecutive'
      BY <1>1, <2>1, NotifyStep
    <2>3. TypeOK'
      BY <1>1, <2>1, <2>2 DEF TypeOK
    <2>4. CancelledPoolIsEmpty'
      BY <2>1 DEF CancelledPoolIsEmpty
    <2> QED
      BY <2>2, <2>3, <2>4
  <1> QED
    BY <1>2, <1>3

LEMMA StutterStep ==
  ASSUME IndInv, UNCHANGED vars
  PROVE  IndInv'
  BY DEF IndInv, vars, queueVars, threadVars, observerVars, TypeOK, ActiveCountsBusy,
         NoStrandedSleeper, TicketsConsecutive, CancelledPoolIsEmpty, Busy, Ticketed,
         MustWait, MustHold, Distance

-----------------------------------------------------------------------------
(* The pool keeps its inductive invariant.                                  *)
THEOREM PoolInvariance == Spec => []IndInv
  <1>1. Init => IndInv
    BY Initially
  <1>2. IndInv /\ [Next]_vars => IndInv'
    <2> SUFFICES ASSUME IndInv, [Next]_vars PROVE IndInv'
      OBVIOUS
    <2>1. ASSUME NEW t \in Threads, ThreadNext(t) PROVE IndInv'
      BY <2>1, FetchStep, CompleteStep, PublishStep, WakeSpuriouslyStep DEF ThreadNext
    <2>2. CASE OwnerNext
      BY <2>2, ResizeStep, ResizeFailsStep, QueueSteps, QuietSteps, CancelSteps DEF OwnerNext
    <2>3. CASE UNCHANGED vars
      BY <2>3, StutterStep
    <2> QED
      BY <2>1, <2>2, <2>3 DEF Next
  <1> QED
    BY <1>1, <1>2, PTL DEF Spec

(* Types, and the bounds of counters and tickets.                           *)
THEOREM PoolTypeCorrect == Spec => []TypeOK
  <1>1. IndInv => TypeOK
    BY DEF IndInv
  <1> QED
    BY <1>1, PoolInvariance, PTL

(* `active` is the number of threads at work on every path through run.     *)
THEOREM NoSlotLeaks == Spec => []ActiveCountsBusy
  <1>1. IndInv => ActiveCountsBusy
    BY DEF IndInv
  <1> QED
    BY <1>1, PoolInvariance, PTL

(* No notification is lost: who sleeps has to sleep.                        *)
THEOREM NoLostWakeup == Spec => []NoStrandedSleeper
  <1>1. IndInv => NoStrandedSleeper
    BY DEF IndInv
  <1> QED
    BY <1>1, PoolInvariance, PTL

(* Tickets are consecutive and distinct across the wrap of the counters.    *)
THEOREM TicketsNeverClash == Spec => []TicketsConsecutive
  <1>1. IndInv => TicketsConsecutive
    BY DEF IndInv
  <1> QED
    BY <1>1, PoolInvariance, PTL

(* Nothing is queued or published after cancellation.                       *)
THEOREM NothingAfterCancel == Spec => []CancelledPoolIsEmpty
  <1>1. IndInv => CancelledPoolIsEmpty
    BY DEF IndInv
  <1> QED
    BY <1>1, PoolInvariance, PTL

(* The bookkeeping of the pool is exact, whatever the number of threads,    *)
(* the capacities and the width of the tickets.                             *)
THEOREM BookkeepingIsExact == Spec => []PoolIsExact
  <1>1. IndInv => PoolIsExact
    BY DEF IndInv, PoolIsExact
  <1> QED
    BY <1>1, PoolInvariance, PTL

-----------------------------------------------------------------------------
(* The pool implements AnswerPool.                                          *)

Processing == {t \in Threads : pc[t] = "Processing"}

(* What the owner may take the pool to be doing.                           *)
Running == IF stopping THEN {} ELSE {held[t] : t \in Processing}
Completed == IF stopping THEN <<>> ELSE results \o Outstanding

(* Every ticket that is out has its thread.                                *)
HolderInv ==
    ~stopping => \A i \in 1 .. Distance(nextCompletion) : \E t \in Ticketed : Distance(ticket[t]) = i - 1

(* A request is in one place.                                              *)
OncePlaced ==
    /\ \A i \in 1 .. Len(requests) : requests[i] \in admitted
    /\ \A i, j \in 1 .. Len(requests) : requests[i] = requests[j] => i = j
    /\ \A t \in Processing : held[t] \in admitted /\ \A i \in 1 .. Len(requests) : requests[i] # held[t]
    /\ \A t, u \in Processing : held[t] = held[u] => t = u

AnswerInv == IndInv /\ HolderInv /\ OncePlaced

(* The answers that wait, by their tickets.                                *)
LEMMA OutstandingFacts ==
  IndInv /\ HolderInv /\ ~stopping =>
    /\ Outstanding \in Seq(Requests) /\ Len(Outstanding) = Distance(nextCompletion)
    /\ Distance(nextCompletion) \in Nat
    /\ \A t \in Ticketed : /\ Distance(ticket[t]) + 1 \in 1 .. Distance(nextCompletion)
                           /\ Outstanding[Distance(ticket[t]) + 1] = held[t]
PROOF
  <1> SUFFICES ASSUME IndInv, HolderInv, ~stopping
               PROVE  /\ Outstanding \in Seq(Requests) /\ Len(Outstanding) = Distance(nextCompletion)
                      /\ Distance(nextCompletion) \in Nat
                      /\ \A t \in Ticketed : /\ Distance(ticket[t]) + 1 \in 1 .. Distance(nextCompletion)
                                             /\ Outstanding[Distance(ticket[t]) + 1] = held[t]
    OBVIOUS
  <1> DEFINE n == Distance(nextCompletion)
  <1>1. /\ nextPublication \in 0 .. TicketModulus - 1 /\ nextCompletion \in 0 .. TicketModulus - 1
        /\ ticket \in [Threads -> 0 .. TicketModulus - 1] /\ Ticketed \subseteq Threads
    BY DEF IndInv, TypeOK, Ticketed
  <1>2. n \in Nat
    BY <1>1, NextTicket
  <1>3. ASSUME NEW t \in Ticketed
        PROVE  /\ Distance(ticket[t]) \in Nat /\ Distance(ticket[t]) < n /\ held[t] \in Requests
    <2>1. ticket[t] \in 0 .. TicketModulus - 1
      BY <1>1
    <2>2. Distance(ticket[t]) \in Nat
      BY <1>1, <2>1, NextTicket
    <2>3. held[t] \in Requests
      BY DEF IndInv, TypeOK, ActiveCountsBusy, Busy, Ticketed
    <2> QED
      BY <2>2, <2>3 DEF IndInv, TicketsConsecutive
  <1>4. ASSUME NEW t \in Ticketed, NEW u \in Ticketed, Distance(ticket[t]) = Distance(ticket[u])
        PROVE  t = u
    <2>1. ticket[t] \in 0 .. TicketModulus - 1 /\ ticket[u] \in 0 .. TicketModulus - 1
      BY <1>1
    <2>2. ticket[t] = ticket[u]
      BY <1>1, <1>4, <2>1, TicketAssumption DEF Distance
    <2> QED
      BY <2>2 DEF IndInv, TicketsConsecutive
  <1>5. ASSUME NEW i \in 1 .. n
        PROVE  Holder(i) \in Ticketed /\ Distance(ticket[Holder(i)]) = i - 1
    <2>1. \E t \in Ticketed : Distance(ticket[t]) = i - 1
      BY DEF HolderInv
    <2> QED
      BY <2>1 DEF Holder
  <1> HIDE DEF n
  <1>6. Outstanding = [i \in 1 .. n |-> held[Holder(i)]]
    BY DEF Outstanding, n
  <1>7. Outstanding \in Seq(Requests) /\ Len(Outstanding) = n
    BY <1>2, <1>3, <1>5, <1>6
  <1>8. ASSUME NEW t \in Ticketed
        PROVE  Distance(ticket[t]) + 1 \in 1 .. n /\ Outstanding[Distance(ticket[t]) + 1] = held[t]
    <2> DEFINE i == Distance(ticket[t]) + 1
    <2>1. i \in 1 .. n /\ i - 1 = Distance(ticket[t])
      BY <1>2, <1>3
    <2>2. Holder(i) = t
      BY <1>4, <1>5, <2>1
    <2> QED
      BY <1>6, <2>1, <2>2
  <1> QED
    BY <1>2, <1>7, <1>8 DEF n

(* The same of the next state.                                            *)
LEMMA OutstandingNext ==
  (IndInv /\ HolderInv /\ ~stopping =>
    /\ Outstanding \in Seq(Requests) /\ Len(Outstanding) = Distance(nextCompletion)
    /\ Distance(nextCompletion) \in Nat
    /\ \A t \in Ticketed : /\ Distance(ticket[t]) + 1 \in 1 .. Distance(nextCompletion)
                           /\ Outstanding[Distance(ticket[t]) + 1] = held[t])'
  BY OutstandingFacts, PTL

(* The threads at work and the answers are as they were.                   *)
LEMMA SameAnswers ==
  ASSUME AnswerInv, UNCHANGED <<held, ticket, nextCompletion, nextPublication, results, requests, stopping>>,
         Processing' = Processing, Ticketed' = Ticketed, admitted \subseteq admitted'
  PROVE  Running' = Running /\ Completed' = Completed /\ HolderInv' /\ OncePlaced'
PROOF
  <1>2. Outstanding' = Outstanding
    BY DEF Outstanding, Holder, Distance
  <1>3. HolderInv'
    BY DEF AnswerInv, HolderInv, Distance
  <1>4. OncePlaced'
    BY DEF AnswerInv, OncePlaced
  <1> QED
    BY <1>2, <1>3, <1>4 DEF Running, Completed

(* A step the owner cannot tell from none.                                 *)
Unseen == /\ UNCHANGED <<requests, delivered, admitted, stopping>>
          /\ Running' = Running /\ Completed' = Completed

(* A request starts.                                                       *)
Begins == /\ requests # <<>> /\ Running' = Running \cup {Head(requests)} /\ requests' = Tail(requests)
          /\ Completed' = Completed /\ UNCHANGED <<delivered, admitted, stopping>>

(* It is processed.                                                        *)
Finishes(r) == /\ r \in Running /\ Running' = Running \ {r} /\ Completed' = Append(Completed, r)
               /\ UNCHANGED <<requests, delivered, admitted, stopping>>

(* A thread sleeps, returns or takes the oldest request.                  *)
LEMMA FetchView ==
  ASSUME AnswerInv, NEW t \in Threads, Fetch(t)
  PROVE  HolderInv' /\ OncePlaced' /\ (Unseen \/ Begins)
PROOF
  <1>1. /\ pc[t] = "Fetching" /\ pc \in [Threads -> Places]
        /\ UNCHANGED <<results, stopping, nextCompletion, nextPublication, ticket, admitted, delivered>>
    BY DEF Fetch, AnswerInv, IndInv, TypeOK, observerVars
  <1>2. CASE /\ UNCHANGED <<requests, active, held>>
             /\ pc' = [pc EXCEPT ![t] = "WaitRequest"] \/ pc' = [pc EXCEPT ![t] = "Exited"]
    <2>1. Processing' = Processing /\ Ticketed' = Ticketed
      BY <1>1, <1>2 DEF Processing, Ticketed
    <2> QED
      BY <1>1, <1>2, <2>1, SameAnswers DEF Unseen
  <1>3. CASE /\ ~MustWait(t) /\ ~stopping
             /\ held' = [held EXCEPT ![t] = Head(requests)]
             /\ requests' = Tail(requests)
             /\ pc' = [pc EXCEPT ![t] = "Processing"]
    <2>1. requests # <<>> /\ requests \in Seq(Requests) /\ held \in [Threads -> Requests \cup {None}]
      BY <1>3 DEF MustWait, AnswerInv, IndInv, TypeOK
    <2>2. Processing' = Processing \cup {t} /\ Ticketed' = Ticketed /\ t \notin Ticketed /\ t \notin Processing
      BY <1>1, <1>3 DEF Processing, Ticketed
    <2>3. held'[t] = Head(requests) /\ \A u \in Threads \ {t} : held'[u] = held[u]
      BY <1>3, <2>1
    <2>4. \A i \in 1 .. Distance(nextCompletion) : Holder(i) \in Ticketed
      BY <1>3 DEF AnswerInv, HolderInv, Holder
    <2>5. \A i : Holder(i)' = Holder(i)
      BY <1>1, <2>2 DEF Holder, Distance
    <2>6. Distance(nextCompletion)' = Distance(nextCompletion) /\ Ticketed \subseteq Threads
      BY <1>1 DEF Distance, Ticketed
    <2>7. Outstanding' = Outstanding
      BY <2>2, <2>3, <2>4, <2>5, <2>6 DEF Outstanding
    <2>8. HolderInv'
      BY <1>1, <2>2 DEF AnswerInv, HolderInv, Distance
    <2>9. Running' = Running \cup {Head(requests)}
      BY <1>1, <1>3, <2>2, <2>3 DEF Running, Processing
    <2>10. Begins
      BY <1>1, <1>3, <2>1, <2>7, <2>9 DEF Begins, Completed
    <2>11. /\ Len(requests') = Len(requests) - 1 /\ Head(requests) = requests[1] /\ Len(requests) \in Nat \ {0}
           /\ \A i \in 1 .. Len(requests') : requests'[i] = requests[i + 1] /\ i + 1 \in 1 .. Len(requests)
      BY <1>3, <2>1
    <2>12. OncePlaced'
      <3>1. OncePlaced /\ 1 \in 1 .. Len(requests)
        BY <2>11 DEF AnswerInv
      <3>2. \A i, j \in 1 .. Len(requests') : requests'[i] = requests'[j] => i = j
        BY <2>11, <3>1 DEF OncePlaced
      <3>3. \A i \in 1 .. Len(requests') : requests'[i] \in admitted /\ requests'[i] # Head(requests)
        BY <2>11, <3>1 DEF OncePlaced
      <3>4. \A u \in Processing : /\ held[u] \in admitted /\ held[u] # Head(requests)
                                  /\ \A i \in 1 .. Len(requests') : requests'[i] # held[u]
        BY <2>11, <3>1 DEF OncePlaced
      <3>5. Processing \subseteq Threads \ {t} /\ Head(requests) \in admitted
        BY <2>2, <2>11, <3>1 DEF Processing, OncePlaced
      <3>6. \A u, v \in Processing' : held'[u] = held'[v] => u = v
        BY <2>2, <2>3, <3>1, <3>4, <3>5 DEF OncePlaced
      <3> QED
        BY <1>1, <2>2, <2>3, <3>2, <3>3, <3>4, <3>5, <3>6 DEF OncePlaced
    <2> QED
      BY <2>8, <2>10, <2>12
  <1> QED
    BY <1>2, <1>3 DEF Fetch

(* Equal sequences.                                                        *)
LEMMA SameSeq ==
  ASSUME NEW S, NEW s \in Seq(S), NEW z \in Seq(S), Len(s) = Len(z), \A i \in 1 .. Len(s) : s[i] = z[i]
  PROVE  s = z
  OBVIOUS

(* Appending behind two sequences, and between them.                      *)
LEMMA AppendLater ==
  ASSUME NEW S, NEW s \in Seq(S), NEW z \in Seq(S), NEW x \in S
  PROVE  s \o Append(z, x) = Append(s \o z, x)
  OBVIOUS

LEMMA AppendEarlier ==
  ASSUME NEW S, NEW s \in Seq(S), NEW z \in Seq(S), NEW x \in S
  PROVE  Append(s, x) \o z = s \o (<<x>> \o z)
  OBVIOUS

(* A thread that no longer processes.                                      *)
LEMMA StopsRunning ==
  ASSUME AnswerInv, NEW t \in Threads, pc[t] = "Processing", Processing' = Processing \ {t},
         \A u \in Processing' : held'[u] = held[u], UNCHANGED <<requests, admitted, stopping>>
  PROVE  /\ OncePlaced'
         /\ ~stopping => held[t] \in Running /\ Running' = Running \ {held[t]}
PROOF
  <1>1. OncePlaced /\ t \in Processing
    BY DEF AnswerInv, Processing
  <1>2. OncePlaced'
    BY <1>1 DEF OncePlaced
  <1>3. ~stopping => held[t] \in Running /\ Running' = Running \ {held[t]}
    BY <1>1 DEF Running, OncePlaced
  <1> QED
    BY <1>2, <1>3

(* What leaving changes.                                                   *)
LEMMA LeaveFields ==
  ASSUME AnswerInv, NEW t \in Threads, pc[t] \in {"Processing", "Publishing"}, Leave(t)
  PROVE  /\ Processing' = Processing \ {t} /\ Ticketed' = Ticketed \ {t}
         /\ \A u \in Threads \ {t} : held'[u] = held[u]
         /\ stopping => UNCHANGED <<results, nextPublication>>
         /\ ~stopping => results' = Append(results, held[t]) /\ nextPublication' = Wrapped(nextPublication)
PROOF
  <1>1. pc \in [Threads -> Places] /\ held \in [Threads -> Requests \cup {None}]
    BY DEF AnswerInv, IndInv, TypeOK
  <1>2. PICK place \in {"Exited", "Fetching"} :
             /\ pc' = [Woken EXCEPT ![t] = place] /\ held' = [held EXCEPT ![t] = None]
             /\ stopping => UNCHANGED <<results, nextPublication>>
             /\ ~stopping => results' = Append(results, held[t]) /\ nextPublication' = Wrapped(nextPublication)
    BY DEF Leave
  <1>3. /\ Woken \in [Threads -> Places]
        /\ \A u \in Threads : Woken[u] \notin {"WaitRequest", "WaitPublication"}
        /\ \A u \in Threads : Woken[u] = "Processing" <=> pc[u] = "Processing"
        /\ \A u \in Threads : Woken[u] = "Publishing" <=> u \in Ticketed
    BY <1>1, WokenPlaces
  <1>4. \A u \in Threads : pc'[u] = IF u = t THEN place ELSE Woken[u]
    BY <1>2, <1>3
  <1>5. Processing' = Processing \ {t} /\ Ticketed' = Ticketed \ {t}
    BY <1>3, <1>4 DEF Processing, Ticketed
  <1> QED
    BY <1>1, <1>2, <1>5

(* Processing ends: the answer is the last one of those that wait.        *)
LEMMA CompleteView ==
  ASSUME AnswerInv, NEW t \in Threads, Complete(t)
  PROVE  HolderInv' /\ OncePlaced' /\ (Unseen \/ \E r \in Requests : Finishes(r))
PROOF
  <1>1. /\ pc[t] = "Processing" /\ nextCompletion' = Wrapped(nextCompletion)
        /\ ticket' = [ticket EXCEPT ![t] = nextCompletion]
        /\ UNCHANGED <<requests, stopping, admitted, delivered>>
    BY DEF Complete, observerVars
  <1>2. IndInv /\ IndInv' /\ HolderInv
    BY CompleteStep DEF AnswerInv
  <1>3. /\ nextPublication \in 0 .. TicketModulus - 1 /\ nextCompletion \in 0 .. TicketModulus - 1
        /\ ticket \in [Threads -> 0 .. TicketModulus - 1] /\ Ticketed \subseteq Threads
        /\ pc \in [Threads -> Places] /\ results \in Seq(Requests)
    BY <1>2 DEF IndInv, TypeOK, Ticketed
  <1>4. held[t] \in Requests /\ t \notin Ticketed
    BY <1>1, <1>2 DEF IndInv, TypeOK, ActiveCountsBusy, Busy, Ticketed
  <1>5. ticket'[t] = nextCompletion /\ \A u \in Threads \ {t} : ticket'[u] = ticket[u]
    BY <1>1, <1>3
  <1>6. CASE /\ MustHold(nextCompletion) /\ pc' = [Woken EXCEPT ![t] = "WaitPublication"]
             /\ UNCHANGED <<active, held, results, nextPublication>>
    <2>1. ~stopping /\ ~stopping'
      BY <1>1, <1>6 DEF MustHold
    <2>2. /\ Woken \in [Threads -> Places]
          /\ \A u \in Threads : Woken[u] \notin {"WaitRequest", "WaitPublication"}
          /\ \A u \in Threads : Woken[u] = "Processing" <=> pc[u] = "Processing"
          /\ \A u \in Threads : Woken[u] = "Publishing" <=> u \in Ticketed
      BY <1>3, WokenPlaces
    <2>3. \A u \in Threads : pc'[u] = IF u = t THEN "WaitPublication" ELSE Woken[u]
      BY <1>6, <2>2
    <2>4. Processing' = Processing \ {t} /\ Ticketed' = Ticketed \cup {t}
      BY <1>1, <2>2, <2>3 DEF Processing, Ticketed
    <2>5. OncePlaced' /\ held[t] \in Running /\ Running' = Running \ {held[t]}
      BY <1>1, <1>6, <2>1, <2>4, StopsRunning
    <2> DEFINE n == Distance(nextCompletion)
    <2>6. n = Cardinality(Ticketed) /\ Distance(nextCompletion)' = Cardinality(Ticketed')
      BY <1>2, <2>1 DEF IndInv, TicketsConsecutive
    <2>7. Cardinality(Ticketed') = Cardinality(Ticketed) + 1 /\ Cardinality(Ticketed) \in Nat
      BY <1>3, <1>4, <2>4, FiniteThreads, FS_AddElement
    <2>8. n \in Nat /\ Distance(nextCompletion)' = n + 1
      BY <2>6, <2>7
    <2>9. \A k \in 0 .. TicketModulus - 1 : Distance(k)' = Distance(k)
      BY <1>6 DEF Distance
    <2>10. \A u \in Ticketed : u \in Ticketed' /\ Distance(ticket[u])' = Distance(ticket[u])
      <3> SUFFICES ASSUME NEW u \in Ticketed
                   PROVE  u \in Ticketed' /\ Distance(ticket[u])' = Distance(ticket[u])
        OBVIOUS
      <3>1. ticket'[u] = ticket[u] /\ ticket[u] \in 0 .. TicketModulus - 1
        BY <1>3, <1>4, <1>5
      <3> QED
        BY <1>6, <2>4, <3>1 DEF Distance
    <2>11. t \in Ticketed' /\ Distance(ticket[t])' = n
      BY <1>5, <1>6, <2>4 DEF Distance
    <2> HIDE DEF n
    <2>12. HolderInv'
      <3> SUFFICES ASSUME NEW i \in 1 .. n + 1
                   PROVE  \E u \in Ticketed' : Distance(ticket[u])' = i - 1
        BY <2>8 DEF HolderInv
      <3>1. CASE i = n + 1
        BY <2>8, <2>11, <3>1
      <3>2. CASE i # n + 1
        <4>1. \E u \in Ticketed : Distance(ticket[u]) = i - 1
          BY <1>2, <2>1, <2>8, <3>2 DEF HolderInv, n
        <4> QED
          BY <2>10, <4>1
      <3> QED
        BY <3>1, <3>2
    <2>13. /\ Outstanding \in Seq(Requests) /\ Len(Outstanding) = n
           /\ \A u \in Ticketed : Outstanding[Distance(ticket[u]) + 1] = held[u]
      BY <1>2, <2>1, OutstandingFacts DEF n
    <2>14. /\ Outstanding' \in Seq(Requests) /\ Len(Outstanding') = n + 1
           /\ \A u \in Ticketed' : Outstanding'[Distance(ticket[u])' + 1] = held'[u]
      BY <1>2, <2>1, <2>8, <2>12, OutstandingNext
    <2>15. Outstanding' = Append(Outstanding, held[t])
      <3> DEFINE z == Append(Outstanding, held[t])
      <3>1. /\ z \in Seq(Requests) /\ Len(z) = n + 1 /\ z[n + 1] = held[t]
            /\ \A i \in 1 .. n : z[i] = Outstanding[i]
        BY <1>4, <2>8, <2>13
      <3>2. Outstanding'[n + 1] = held[t]
        BY <1>6, <2>11, <2>14
      <3>3. ASSUME NEW i \in 1 .. n
            PROVE  Outstanding'[i] = Outstanding[i]
        <4>1. PICK u \in Ticketed : Distance(ticket[u]) = i - 1
          BY <1>2, <2>1, <2>8 DEF HolderInv, n
        <4>2. (i - 1) + 1 = i
          BY <2>8
        <4>3. Outstanding[i] = held[u]
          BY <2>13, <4>1, <4>2
        <4>4. Outstanding'[i] = held[u]
          BY <1>6, <2>10, <2>14, <4>1, <4>2
        <4> QED
          BY <4>3, <4>4
      <3> HIDE DEF z
      <3>4. \A i \in 1 .. n + 1 : Outstanding'[i] = z[i]
        BY <2>8, <3>1, <3>2, <3>3
      <3>5. Outstanding' = z
        BY <2>14, <3>1, <3>4, SameSeq
      <3> QED
        BY <3>5 DEF z
    <2>16. Completed' = Append(Completed, held[t])
      BY <1>3, <1>4, <1>6, <2>1, <2>13, <2>15, AppendLater DEF Completed
    <2> QED
      BY <1>1, <1>4, <2>5, <2>12, <2>16 DEF Finishes
  <1>7. CASE ~MustHold(nextCompletion) /\ Leave(t)
    <2>1. /\ Processing' = Processing \ {t} /\ Ticketed' = Ticketed \ {t}
          /\ \A u \in Threads \ {t} : held'[u] = held[u]
          /\ stopping => UNCHANGED <<results, nextPublication>>
          /\ ~stopping => results' = Append(results, held[t]) /\ nextPublication' = Wrapped(nextPublication)
      BY <1>1, <1>7, LeaveFields
    <2>2. /\ OncePlaced'
          /\ ~stopping => held[t] \in Running /\ Running' = Running \ {held[t]}
      BY <1>1, <2>1, StopsRunning DEF Processing
    <2>3. CASE stopping
      BY <1>1, <2>1, <2>2, <2>3 DEF Unseen, Running, Completed, HolderInv
    <2>4. CASE ~stopping
      <3>1. nextCompletion = nextPublication
        BY <1>7, <2>4 DEF MustHold
      <3>2. nextCompletion' = nextPublication' /\ nextPublication' \in 0 .. TicketModulus - 1
        BY <1>1, <1>2, <2>1, <2>4, <3>1 DEF IndInv, TypeOK
      <3>3. Distance(nextCompletion) = 0 /\ Distance(nextCompletion)' = 0
        <4>1. Distance(nextCompletion) = 0
          BY <1>3, <3>1, NoDistance DEF Distance
        <4>2. nextPublication' >= nextPublication' /\ nextPublication' - nextPublication' = 0
          BY <3>2, NoDistance
        <4> QED
          BY <3>2, <4>1, <4>2 DEF Distance
      <3>4. Outstanding = <<>> /\ Outstanding' = <<>>
        BY <3>3 DEF Outstanding
      <3>5. HolderInv'
        BY <3>3 DEF HolderInv
      <3>6. Completed' = Append(Completed, held[t])
        BY <1>1, <1>3, <1>4, <2>1, <2>4, <3>4 DEF Completed
      <3> QED
        BY <1>1, <1>4, <2>2, <2>4, <3>5, <3>6 DEF Finishes
    <2> QED
      BY <2>3, <2>4
  <1> QED
    BY <1>6, <1>7 DEF Complete

(* Publication moves an answer from its thread to the results, in its place.*)
LEMMA PublishView ==
  ASSUME AnswerInv, NEW t \in Threads, Publish(t)
  PROVE  HolderInv' /\ OncePlaced' /\ Unseen
PROOF
  <1>1. /\ pc[t] = "Publishing" /\ UNCHANGED <<requests, stopping, admitted, delivered, nextCompletion, ticket>>
    BY DEF Publish, observerVars
  <1>2. IndInv /\ IndInv' /\ HolderInv
    BY PublishStep DEF AnswerInv
  <1>3. /\ nextPublication \in 0 .. TicketModulus - 1 /\ nextCompletion \in 0 .. TicketModulus - 1
        /\ ticket \in [Threads -> 0 .. TicketModulus - 1] /\ Ticketed \subseteq Threads
        /\ pc \in [Threads -> Places] /\ results \in Seq(Requests)
    BY <1>2 DEF IndInv, TypeOK, Ticketed
  <1>4. held[t] \in Requests /\ t \in Ticketed /\ t \notin Processing
    BY <1>1, <1>2 DEF IndInv, TypeOK, ActiveCountsBusy, Busy, Ticketed, Processing
  <1>5. CASE MustHold(ticket[t]) /\ pc' = [pc EXCEPT ![t] = "WaitPublication"]
             /\ UNCHANGED <<active, held, results, nextPublication>>
    <2>1. Processing' = Processing /\ Ticketed' = Ticketed
      BY <1>1, <1>3, <1>5 DEF Processing, Ticketed
    <2> QED
      BY <1>1, <1>5, <2>1, SameAnswers DEF Unseen
  <1>6. CASE ~MustHold(ticket[t]) /\ Leave(t)
    <2>1. /\ Processing' = Processing /\ Ticketed' = Ticketed \ {t}
          /\ \A u \in Threads \ {t} : held'[u] = held[u]
          /\ stopping => UNCHANGED <<results, nextPublication>>
          /\ ~stopping => results' = Append(results, held[t]) /\ nextPublication' = Wrapped(nextPublication)
      BY <1>1, <1>4, <1>6, LeaveFields
    <2>2. \A u \in Processing : held'[u] = held[u]
      BY <1>4, <2>1 DEF Processing
    <2>3. OncePlaced' /\ Running' = Running
      <3>1. OncePlaced'
        BY <1>1, <2>1, <2>2 DEF AnswerInv, OncePlaced
      <3>2. {held'[u] : u \in Processing} = {held[u] : u \in Processing}
        BY <2>2
      <3> QED
        BY <1>1, <2>1, <3>1, <3>2 DEF Running
    <2>4. CASE stopping
      BY <1>1, <2>3, <2>4 DEF Unseen, Completed, HolderInv
    <2>5. CASE ~stopping
      <3>1. ticket[t] = nextPublication
        BY <1>6, <2>5 DEF MustHold
      <3> DEFINE n == Distance(nextCompletion)
      <3>2. Distance(ticket[t]) = 0 /\ n \in Nat /\ n > 0
        <4>1. Distance(ticket[t]) = 0
          BY <1>3, <3>1, TicketAssumption DEF Distance
        <4>2. n \in Nat
          BY <1>3, NextTicket
        <4>3. Distance(ticket[t]) < n
          BY <1>2, <1>4, <2>5 DEF IndInv, TicketsConsecutive
        <4> QED
          BY <4>1, <4>2, <4>3
      <3>3. Distance(nextCompletion)' = n - 1
        <4>1. nextCompletion # nextPublication
          BY <1>3, <3>2, NextTicket
        <4>2. Distance(nextCompletion)' = Distance(nextCompletion) - 1
          BY <1>1, <1>3, <2>1, <2>5, <4>1, PublishedTicket DEF Distance
        <4> QED
          BY <4>2
      <3>4. ASSUME NEW u \in Ticketed \ {t}
            PROVE  u \in Ticketed' /\ Distance(ticket[u])' = Distance(ticket[u]) - 1 /\ held'[u] = held[u]
        <4>1. ticket[u] # nextPublication /\ ticket[u] \in 0 .. TicketModulus - 1
          BY <1>2, <1>3, <1>4, <2>5, <3>1 DEF IndInv, TicketsConsecutive
        <4>2. Distance(ticket[u])' = Distance(ticket[u]) - 1
          BY <1>1, <1>3, <2>1, <2>5, <4>1, PublishedTicket DEF Distance
        <4> QED
          BY <1>3, <2>1, <4>2
      <3> HIDE DEF n
      <3>5. HolderInv'
        <4> SUFFICES ASSUME NEW i \in 1 .. n - 1
                     PROVE  \E u \in Ticketed' : Distance(ticket[u])' = i - 1
          BY <3>3 DEF HolderInv
        <4>1. PICK u \in Ticketed : Distance(ticket[u]) = (i + 1) - 1
          <5>1. i + 1 \in 1 .. n
            BY <3>2
          <5> QED
            BY <1>2, <2>5, <5>1 DEF HolderInv, n
        <4>2. u # t
          BY <3>2, <4>1
        <4> QED
          BY <3>4, <4>1, <4>2
      <3>6. /\ Outstanding \in Seq(Requests) /\ Len(Outstanding) = n
            /\ \A u \in Ticketed : Outstanding[Distance(ticket[u]) + 1] = held[u]
        BY <1>2, <2>5, OutstandingFacts DEF n
      <3>7. /\ Outstanding' \in Seq(Requests) /\ Len(Outstanding') = n - 1
            /\ \A u \in Ticketed' : Outstanding'[Distance(ticket[u])' + 1] = held'[u]
        BY <1>1, <1>2, <2>5, <3>3, <3>5, OutstandingNext
      <3>8. Outstanding = <<held[t]>> \o Outstanding'
        <4> DEFINE z == <<held[t]>> \o Outstanding'
        <4>1. /\ z \in Seq(Requests) /\ Len(z) = n /\ z[1] = held[t]
              /\ \A i \in 1 .. n - 1 : z[i + 1] = Outstanding'[i]
          BY <1>4, <3>2, <3>7
        <4> HIDE DEF z
        <4>2. Outstanding[1] = held[t]
          BY <1>4, <3>2, <3>6
        <4>3. ASSUME NEW i \in 1 .. n - 1
              PROVE  Outstanding[i + 1] = Outstanding'[i]
          <5>1. PICK u \in Ticketed : Distance(ticket[u]) = i
            <6>1. i + 1 \in 1 .. n /\ (i + 1) - 1 = i
              BY <3>2
            <6> QED
              BY <1>2, <2>5, <6>1 DEF HolderInv, n
          <5>2. u # t /\ (i - 1) + 1 = i
            BY <3>2, <5>1
          <5>3. Outstanding[i + 1] = held[u]
            BY <3>6, <5>1
          <5>4. Outstanding'[i] = held[u]
            BY <3>4, <3>7, <5>1, <5>2
          <5> QED
            BY <5>3, <5>4
        <4>4. ASSUME NEW i \in 1 .. n
              PROVE  Outstanding[i] = z[i]
          <5>1. CASE i = 1
            BY <4>1, <4>2, <5>1
          <5>2. CASE i # 1
            <6>1. i - 1 \in 1 .. n - 1 /\ (i - 1) + 1 = i
              BY <3>2, <5>2
            <6> QED
              BY <4>1, <4>3, <6>1
          <5> QED
            BY <5>1, <5>2
        <4>5. Outstanding = z
          BY <3>6, <4>1, <4>4, SameSeq
        <4> QED
          BY <4>5 DEF z
      <3>9. Completed' = Completed
        <4>1. Completed = results \o Outstanding
          BY <2>5 DEF Completed
        <4>2. Completed' = Append(results, held[t]) \o Outstanding'
          BY <1>1, <2>1, <2>5 DEF Completed
        <4>3. Append(results, held[t]) \o Outstanding' = results \o (<<held[t]>> \o Outstanding')
          BY <1>3, <1>4, <3>7, AppendEarlier
        <4> QED
          BY <3>8, <4>1, <4>2, <4>3, Zenon
      <3> QED
        BY <1>1, <2>3, <3>5, <3>9 DEF Unseen
    <2> QED
      BY <2>4, <2>5
  <1> QED
    BY <1>5, <1>6 DEF Publish

(* A request is admitted, an answer handed out, the pool closed.           *)
Admits(r) == /\ ~stopping /\ r \notin admitted /\ requests' = Append(requests, r)
             /\ admitted' = admitted \cup {r}
             /\ Running' = Running /\ Completed' = Completed /\ UNCHANGED <<delivered, stopping>>
HandsOut == /\ Completed # <<>> /\ delivered' = Append(delivered, Head(Completed))
            /\ Completed' = Tail(Completed)
            /\ Running' = Running /\ UNCHANGED <<requests, admitted, stopping>>
Closes == /\ stopping' = TRUE /\ requests' = <<>> /\ Running' = {} /\ Completed' = <<>>
          /\ UNCHANGED <<delivered, admitted>>

(* Waking and starting threads stops no one who works.                     *)
LEMMA StillAtWork ==
  ASSUME AnswerInv,
         \/ UNCHANGED pc \/ pc' = Woken
         \/ \E n \in Nat : pc' = Started(Woken, n) \/ pc' = Started(pc, n)
         \/ \E t \in Threads : pc' = [pc EXCEPT ![t] = Woken[t]]
  PROVE  Processing' = Processing /\ Ticketed' = Ticketed
PROOF
  <1>1. pc \in [Threads -> Places]
    BY DEF AnswerInv, IndInv, TypeOK
  <1>2. /\ Woken \in [Threads -> Places]
        /\ \A u \in Threads : Woken[u] \notin {"WaitRequest", "WaitPublication"}
        /\ \A u \in Threads : Woken[u] = "Processing" <=> pc[u] = "Processing"
        /\ \A u \in Threads : Woken[u] = "Unborn" <=> pc[u] = "Unborn"
        /\ \A u \in Threads : Woken[u] = "Publishing" <=> u \in Ticketed
    BY <1>1, WokenPlaces
  <1>3. \A u \in Threads : /\ pc'[u] = "Processing" <=> pc[u] = "Processing"
                           /\ pc'[u] \in {"Publishing", "WaitPublication"} <=> u \in Ticketed
    BY <1>1, <1>2 DEF Started, Ticketed
  <1> QED
    BY <1>3 DEF Processing, Ticketed

(* The queues are as they were.                                            *)
LEMMA UnseenStep ==
  ASSUME AnswerInv,
         UNCHANGED <<held, ticket, nextCompletion, nextPublication, results, requests, stopping>>,
         UNCHANGED <<admitted, delivered>>,
         \/ UNCHANGED pc \/ pc' = Woken
         \/ \E n \in Nat : pc' = Started(Woken, n) \/ pc' = Started(pc, n)
         \/ \E t \in Threads : pc' = [pc EXCEPT ![t] = Woken[t]]
  PROVE  HolderInv' /\ OncePlaced' /\ Unseen
PROOF
  <1>1. Processing' = Processing /\ Ticketed' = Ticketed
    BY StillAtWork
  <1> QED
    BY <1>1, SameAnswers DEF Unseen

(* A request is admitted.                                                 *)
LEMMA EnqueueView ==
  ASSUME AnswerInv, NEW r \in Requests, Enqueue(r)
  PROVE  HolderInv' /\ OncePlaced' /\ Admits(r)
PROOF
  <1>1. /\ ~stopping /\ r \notin admitted /\ requests' = Append(requests, r) /\ admitted' = admitted \cup {r}
        /\ pc' = Woken
        /\ UNCHANGED <<results, stopping, nextCompletion, nextPublication, held, ticket, delivered>>
    BY DEF Enqueue
  <1>2. Processing' = Processing /\ Ticketed' = Ticketed
    BY <1>1, StillAtWork
  <1>3. Outstanding' = Outstanding /\ HolderInv'
    BY <1>1, <1>2 DEF AnswerInv, HolderInv, Outstanding, Holder, Distance
  <1>4. OncePlaced'
    <2>1. requests \in Seq(Requests) /\ OncePlaced
      BY DEF AnswerInv, IndInv, TypeOK
    <2>2. /\ Len(requests') = Len(requests) + 1 /\ requests'[Len(requests) + 1] = r /\ Len(requests) \in Nat
          /\ \A i \in 1 .. Len(requests) : requests'[i] = requests[i]
      BY <1>1, <2>1
    <2>3. \A i, j \in 1 .. Len(requests') : requests'[i] = requests'[j] => i = j
      BY <1>1, <2>1, <2>2 DEF OncePlaced
    <2>4. \A i \in 1 .. Len(requests') : requests'[i] \in admitted'
      BY <1>1, <2>1, <2>2 DEF OncePlaced
    <2>5. \A t \in Processing : held[t] \in admitted' /\ \A i \in 1 .. Len(requests') : requests'[i] # held[t]
      BY <1>1, <2>1, <2>2 DEF OncePlaced
    <2> QED
      BY <1>1, <1>2, <2>1, <2>3, <2>4, <2>5 DEF OncePlaced
  <1> QED
    BY <1>1, <1>2, <1>3, <1>4 DEF Admits, Running, Completed

(* The first result is handed out, or there is none.                      *)
LEMMA PopView ==
  ASSUME AnswerInv, Pop, UNCHANGED pc \/ pc' = Woken,
         UNCHANGED <<held, ticket, nextCompletion, nextPublication, requests, stopping, admitted>>
  PROVE  HolderInv' /\ OncePlaced' /\ (Unseen \/ HandsOut)
PROOF
  <1>1. CASE results = <<>>
    BY <1>1, UnseenStep DEF Pop
  <1>2. CASE results # <<>>
    <2>1. ~stopping /\ results \in Seq(Requests)
      BY <1>2 DEF AnswerInv, IndInv, CancelledPoolIsEmpty, TypeOK
    <2>2. Processing' = Processing /\ Ticketed' = Ticketed
      BY StillAtWork
    <2>3. Outstanding' = Outstanding /\ HolderInv' /\ OncePlaced' /\ Running' = Running
      BY <2>2 DEF AnswerInv, HolderInv, OncePlaced, Outstanding, Holder, Distance, Running
    <2>4. Outstanding \in Seq(Requests)
      BY <2>1, OutstandingFacts DEF AnswerInv
    <2>5. /\ results \o Outstanding # <<>> /\ Head(results \o Outstanding) = Head(results)
          /\ Tail(results) \o Outstanding = Tail(results \o Outstanding)
      BY <1>2, <2>1, <2>4
    <2>6. delivered' = Append(delivered, Head(results)) /\ results' = Tail(results)
      BY <1>2 DEF Pop
    <2>7. Completed = results \o Outstanding /\ Completed' = Tail(results) \o Outstanding
      BY <2>1, <2>3, <2>6 DEF Completed
    <2> QED
      BY <2>3, <2>5, <2>6, <2>7 DEF HandsOut
  <1> QED
    BY <1>1, <1>2

(* Cancelling closes the pool, once.                                      *)
LEMMA CancelView ==
  ASSUME AnswerInv, Cancel,
         UNCHANGED <<held, ticket, nextCompletion, nextPublication, admitted, delivered>>
  PROVE  HolderInv' /\ OncePlaced' /\ (Unseen \/ Closes)
PROOF
  <1>1. CASE stopping
    BY <1>1, UnseenStep DEF Cancel
  <1>2. CASE ~stopping
    <2>1. stopping' = TRUE /\ requests' = <<>> /\ results' = <<>> /\ pc' = Woken
      BY <1>2 DEF Cancel
    <2>2. Processing' = Processing
      BY <2>1, StillAtWork
    <2>3. OncePlaced'
      BY <2>1, <2>2 DEF AnswerInv, OncePlaced
    <2> QED
      BY <2>1, <2>3 DEF HolderInv, Closes, Running, Completed
  <1> QED
    BY <1>1, <1>2

(* What every step of the pool is to its owner.                            *)
LEMMA PoolView ==
  ASSUME AnswerInv, [Next]_vars
  PROVE  /\ HolderInv' /\ OncePlaced'
         /\ \/ Unseen \/ Begins \/ HandsOut \/ Closes
            \/ \E r \in Requests : Admits(r) \/ Finishes(r)
PROOF
  <1> USE DEF queueVars, threadVars, observerVars
  <1>1. ASSUME NEW t \in Threads, ThreadNext(t)
        PROVE  /\ HolderInv' /\ OncePlaced'
               /\ Unseen \/ Begins \/ \E r \in Requests : Finishes(r)
    <2>1. CASE WakeSpuriously(t)
      BY <2>1, UnseenStep DEF WakeSpuriously
    <2> QED
      BY <1>1, <2>1, FetchView, CompleteView, PublishView DEF ThreadNext
  <1>2. ASSUME NEW n \in 1 .. MaxParallelism, Resize(n) \/ \E k \in 0 .. n - 1 : ResizeFails(n, k)
        PROVE  HolderInv' /\ OncePlaced' /\ Unseen
    <2>1. CASE Resize(n)
      BY <2>1, UnseenStep, ParallelismAssumption DEF Resize
    <2>2. ASSUME NEW k \in 0 .. n - 1, ResizeFails(n, k)
          PROVE  HolderInv' /\ OncePlaced' /\ Unseen
      BY <2>2, UnseenStep, ParallelismAssumption DEF ResizeFails
    <2> QED
      BY <1>2, <2>1, <2>2
  <1>3. ASSUME NEW c \in Capacities, UpdateQueueCapacity(c)
        PROVE  HolderInv' /\ OncePlaced' /\ Unseen
    BY <1>3, UnseenStep DEF UpdateQueueCapacity
  <1>4. CASE NotifyTaken \/ BeginWaitForResult \/ Joined \/ UNCHANGED vars
    BY <1>4, UnseenStep DEF NotifyTaken, BeginWaitForResult, Joined, vars
  <1>5. CASE TryTakeResult \/ EndWaitForResult
    BY <1>5, PopView DEF TryTakeResult, EndWaitForResult
  <1>6. CASE CancelPending \/ Drop
    BY <1>6, CancelView DEF CancelPending, Drop
  <1> QED
    BY <1>1, <1>2, <1>3, <1>4, <1>5, <1>6, EnqueueView DEF Next, OwnerNext

(* Every outstanding ticket has its thread, and no request is queued or     *)
(* processed twice.                                                         *)
THEOREM AnswersInvariance == Spec => []AnswerInv
PROOF
  <1>1. Init => HolderInv /\ OncePlaced
    BY DEF Init, HolderInv, OncePlaced, Processing, Distance
  <1>2. AnswerInv /\ [Next]_vars => (HolderInv /\ OncePlaced)'
    BY PoolView
  <1>3. AnswerInv <=> IndInv /\ HolderInv /\ OncePlaced
    BY DEF AnswerInv
  <1> QED
    BY <1>1, <1>2, <1>3, PoolInvariance, PTL DEF Spec

(* ImplementsAnswerPool: behind its mutex, condition variable, tickets and  *)
(* result slots the pool is the queue that its owner sees: requests start   *)
(* in order, each is answered once at most, answers come in the order in    *)
(* which processing ended, and none after cancel_pending, whatever          *)
(* backpressure, resizing and the wrap of the tickets do.                   *)
THEOREM PoolImplementsAnswerPool == Spec => ImplementsAnswerPool
PROOF
  <1>1. Init => Answers!PoolInit
    <2> SUFFICES ASSUME Init
                 PROVE  Answers!PoolInit
      OBVIOUS
    <2>1. stopping = FALSE /\ requests = <<>> /\ results = <<>> /\ delivered = <<>> /\ admitted = {}
      BY DEF Init
    <2>2. Outstanding = <<>>
      BY DEF Init, Outstanding, Distance
    <2>3. {held[t] : t \in {u \in Threads : pc[u] = "Processing"}} = {}
      BY DEF Init
    <2> QED
      BY <2>1, <2>2, <2>3 DEF Answers!PoolInit
  <1>2. AnswerInv /\ [Next]_vars => [Answers!PoolNext]_(Answers!poolVars)
    <2> SUFFICES ASSUME AnswerInv, [Next]_vars
                 PROVE  [Answers!PoolNext]_(Answers!poolVars)
      OBVIOUS
    <2>1. CASE Unseen
      BY <2>1 DEF Unseen, Running, Completed, Processing, Answers!poolVars
    <2>2. CASE Begins
      BY <2>2 DEF Begins, Running, Completed, Processing, Answers!PoolNext, Answers!Begin
    <2>3. CASE HandsOut
      BY <2>3 DEF HandsOut, Running, Completed, Processing, Answers!PoolNext, Answers!Answer
    <2>4. CASE Closes
      BY <2>4 DEF Closes, Running, Completed, Processing, Answers!PoolNext, Answers!Close
    <2>5. ASSUME NEW r \in Requests, Admits(r)
          PROVE  Answers!PoolNext
      BY <2>5 DEF Admits, Running, Completed, Processing, Answers!PoolNext, Answers!Admit
    <2>6. ASSUME NEW r \in Requests, Finishes(r)
          PROVE  Answers!PoolNext
      BY <2>6 DEF Finishes, Running, Completed, Processing, Answers!PoolNext, Answers!Finish
    <2> QED
      BY <2>1, <2>2, <2>3, <2>4, <2>5, <2>6, PoolView
  <1> QED
    BY <1>1, <1>2, AnswersInvariance, PTL DEF Spec, ImplementsAnswerPool, Answers!PoolSpec
=============================================================================
