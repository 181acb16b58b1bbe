------------------------ MODULE AddonLifecycleProofs ------------------------
(***************************************************************************)
(* Machine-checked proofs about AddonLifecycle, for every finite set of    *)
(* callback threads and every width of the gate's word.  The gate inside   *)
(* the lifecycle is the gate of CallbackGate, so what is proved about the  *)
(* gate alone, in the first half, is used in the second; the rest is where *)
(* the owner is, what it has set up by then, and who holds the shortcut's  *)
(* mutex.                                                                  *)
(***************************************************************************)
EXTENDS AddonLifecycle, FiniteSetTheorems, SequenceTheorems, TLAPS

-----------------------------------------------------------------------------
(* The gate.                                                                *)

(* Besides the properties: the owner waits at a closed gate only.           *)
GateInv ==
    /\ GateTypeOK
    /\ WordCountsInside
    /\ DrainedIsEmpty
    /\ waiter # "None" => word >= CLOSED

(* The callbacks inside can be counted.                                    *)
LEMMA InsideIsFinite == IsFiniteSet(Inside) /\ Cardinality(Inside) \in Nat
  <1>1. Inside \in SUBSET Callbacks
    BY DEF Inside
  <1>2. IsFiniteSet(Inside)
    BY <1>1, CallbacksAssumption, FS_Subset
  <1> QED
    BY <1>2, FS_CardinalityType

(* A step that moves nobody in or out and leaves the count alone.           *)
LEMMA SameInside ==
  ASSUME GateInv, place' \in [Callbacks -> CallbackPlaces],
         \A c \in Callbacks : place'[c] = "Inside" <=> place[c] = "Inside",
         word' \in 0 .. 2 * CLOSED - 1,
         word' = word \/ word' = word + CLOSED \/ (word = CLOSED /\ word' = 0)
  PROVE  Inside' = Inside /\ WordCountsInside'
  <1>1. Inside' = Inside
    BY DEF Inside
  <1>2. Cardinality(Inside) = IF word < CLOSED THEN word ELSE word - CLOSED
    BY DEF GateInv, WordCountsInside
  <1>3. word \in 0 .. 2 * CLOSED - 1
    BY DEF GateInv, GateTypeOK
  <1>4. (IF word' < CLOSED THEN word' ELSE word' - CLOSED) = (IF word < CLOSED THEN word ELSE word - CLOSED)
    <2>1. CASE word' = word
      BY <2>1
    <2>2. CASE word' = word + CLOSED
      BY <1>3, <2>2, ClosedAssumption
    <2>3. CASE word = CLOSED /\ word' = 0
      BY <2>3, ClosedAssumption
    <2> QED
      BY <2>1, <2>2, <2>3
  <1> QED
    BY <1>1, <1>2, <1>4 DEF WordCountsInside

-----------------------------------------------------------------------------
LEMMA GateInitially == GateInit => GateInv
  <1> SUFFICES ASSUME GateInit PROVE GateInv
    OBVIOUS
  <1>1. Inside = {}
    BY DEF GateInit, Inside
  <1>2. GateTypeOK
    BY ClosedAssumption DEF GateInit, GateTypeOK, CallbackPlaces, WaiterPlaces
  <1> QED
    BY <1>1, <1>2, FS_EmptySet, ClosedAssumption DEF GateInit, GateInv, WordCountsInside, DrainedIsEmpty

(* Steps of a callback that is not inside and does not get inside.          *)
LEMMA OutsideStep ==
  ASSUME GateInv, NEW c \in Callbacks, LoadWord(c) \/ Refuse(c) \/ Notify(c)
  PROVE  GateInv'
  <1>1. /\ place' \in [Callbacks -> CallbackPlaces]
        /\ \A d \in Callbacks : place'[d] = "Inside" <=> place[d] = "Inside"
        /\ word' = word /\ drained' = drained
        /\ seen' \in [Callbacks -> 0 .. 2 * CLOSED - 1]
        /\ waiter' \in WaiterPlaces /\ (waiter' # "None" => waiter # "None")
    BY DEF LoadWord, Refuse, Notify, GateInv, GateTypeOK, CallbackPlaces, WaiterPlaces
  <1>2. Inside' = Inside /\ WordCountsInside'
    BY <1>1, SameInside DEF GateInv, GateTypeOK
  <1> QED
    BY <1>1, <1>2 DEF GateInv, GateTypeOK, DrainedIsEmpty

(* A successful exchange adds one to an open word below the limit.          *)
LEMMA ExchangeStep ==
  ASSUME GateInv, NEW c \in Callbacks, Exchange(c)
  PROVE  GateInv'
  <1>1. /\ word \in 0 .. 2 * CLOSED - 1 /\ place \in [Callbacks -> CallbackPlaces]
        /\ seen \in [Callbacks -> 0 .. 2 * CLOSED - 1]
        /\ Cardinality(Inside) = IF word < CLOSED THEN word ELSE word - CLOSED
    BY DEF GateInv, GateTypeOK, WordCountsInside
  <1>2. CASE word = seen[c]
    <2>1. /\ place[c] = "Entering" /\ word < CLOSED - 1 /\ word' = word + 1
          /\ place' = [place EXCEPT ![c] = "Inside"]
          /\ UNCHANGED <<seen, waiter, drained>>
      BY <1>1, <1>2, ClosedAssumption DEF Exchange, Full
    <2>2. Inside' = Inside \cup {c} /\ c \notin Inside
      BY <1>1, <2>1 DEF Inside
    <2>3. Cardinality(Inside') = Cardinality(Inside) + 1
      BY <2>2, InsideIsFinite, FS_AddElement
    <2>4. WordCountsInside'
      BY <1>1, <2>1, <2>3, ClosedAssumption DEF WordCountsInside
    <2>5. GateTypeOK'
      BY <1>1, <2>1, ClosedAssumption DEF GateInv, GateTypeOK, CallbackPlaces
    <2>6. DrainedIsEmpty'
      BY <1>1, <2>1, ClosedAssumption DEF GateInv, DrainedIsEmpty
    <2>7. waiter' = "None"
      BY <1>1, <2>1, ClosedAssumption DEF GateInv
    <2> QED
      BY <2>4, <2>5, <2>6, <2>7 DEF GateInv
  <1>3. CASE word # seen[c]
    <2>1. /\ seen' = [seen EXCEPT ![c] = word]
          /\ UNCHANGED <<word, place, waiter, drained>>
      BY <1>3 DEF Exchange
    <2>2. Inside' = Inside /\ WordCountsInside'
      BY <1>1, <2>1, SameInside DEF GateInv, GateTypeOK
    <2> QED
      BY <1>1, <2>1, <2>2 DEF GateInv, GateTypeOK, DrainedIsEmpty
  <1> QED
    BY <1>2, <1>3

(* Whoever is inside is counted, so the subtraction does not borrow.        *)
LEMMA LeaveStep ==
  ASSUME GateInv, NEW c \in Callbacks, Leave(c)
  PROVE  GateInv'
  <1>1. /\ word \in 0 .. 2 * CLOSED - 1 /\ place \in [Callbacks -> CallbackPlaces]
        /\ Cardinality(Inside) = IF word < CLOSED THEN word ELSE word - CLOSED
    BY DEF GateInv, GateTypeOK, WordCountsInside
  <1>2. /\ place[c] = "Inside" /\ word' = word - 1
        /\ place' \in [Callbacks -> CallbackPlaces]
        /\ place'[c] # "Inside" /\ \A d \in Callbacks : d # c => place'[d] = place[d]
        /\ UNCHANGED <<seen, waiter, drained>>
    BY <1>1 DEF Leave, CallbackPlaces
  <1>3. Inside' = Inside \ {c} /\ c \in Inside
    BY <1>2 DEF Inside
  <1>4. Cardinality(Inside') = Cardinality(Inside) - 1 /\ Cardinality(Inside) # 0
    BY <1>3, InsideIsFinite, FS_RemoveElement, FS_EmptySet
  <1>5. word # 0 /\ word # CLOSED
    BY <1>1, <1>4, ClosedAssumption
  <1>6. WordCountsInside'
    BY <1>1, <1>2, <1>4, <1>5, ClosedAssumption DEF WordCountsInside
  <1>7. GateTypeOK'
    BY <1>1, <1>2, <1>5, ClosedAssumption DEF GateInv, GateTypeOK
  <1>8. drained' = FALSE
    BY <1>2, <1>5 DEF GateInv, DrainedIsEmpty, GateTypeOK
  <1>9. waiter' # "None" => word' >= CLOSED
    BY <1>1, <1>2, <1>5, ClosedAssumption DEF GateInv
  <1> QED
    BY <1>6, <1>7, <1>8, <1>9 DEF GateInv, DrainedIsEmpty

(* Steps of the lifecycle owner at the gate.                                *)
LEMMA GateOwnerStep ==
  ASSUME GateInv, Open \/ Close \/ BeginWait \/ WaitStep
  PROVE  GateInv'
  <1>0. /\ word \in 0 .. 2 * CLOSED - 1 /\ waiter \in WaiterPlaces /\ drained \in BOOLEAN
        /\ waiter # "None" => word >= CLOSED
        /\ drained => word = CLOSED
    BY DEF GateInv, GateTypeOK, DrainedIsEmpty
  <1>1. /\ place' = place /\ seen' = seen
        /\ word' \in 0 .. 2 * CLOSED - 1
        /\ word' = word \/ word' = word + CLOSED \/ (word = CLOSED /\ word' = 0)
        /\ waiter' \in WaiterPlaces /\ drained' \in BOOLEAN
        /\ waiter' # "None" => word' >= CLOSED
        /\ drained' => word' = CLOSED
    <2>1. CASE Open
      <3>1. /\ word = CLOSED /\ word' = 0 /\ drained' = FALSE
            /\ waiter' = "None" /\ place' = place /\ seen' = seen
        BY <2>1 DEF Open
      <3>2. word' \in 0 .. 2 * CLOSED - 1
        BY <3>1, ClosedAssumption
      <3> QED
        BY <3>1, <3>2 DEF WaiterPlaces
    <2>2. CASE Close
      <3>1. CASE word < CLOSED
        BY <1>0, <2>2, <3>1, ClosedAssumption DEF Close
      <3>2. CASE ~(word < CLOSED)
        BY <1>0, <2>2, <3>2 DEF Close
      <3> QED
        BY <3>1, <3>2
    <2>3. CASE BeginWait
      BY <1>0, <2>3 DEF BeginWait, WaiterPlaces
    <2>4. CASE WaitStep
      <3>1. CASE Check
        <4>1. waiter # "None" /\ word' = word /\ place' = place /\ seen' = seen
          BY <3>1 DEF Check
        <4>2. CASE word = CLOSED
          BY <1>0, <3>1, <4>1, <4>2 DEF Check, WaiterPlaces
        <4>3. CASE word # CLOSED
          BY <1>0, <3>1, <4>1, <4>3 DEF Check, WaiterPlaces
        <4> QED
          BY <4>2, <4>3
      <3>2. CASE FallAsleep \/ TimeOut
        BY <1>0, <3>2 DEF FallAsleep, TimeOut, WaiterPlaces
      <3> QED
        BY <2>4, <3>1, <3>2 DEF WaitStep
    <2> QED
      BY <2>1, <2>2, <2>3, <2>4
  <1>2. Inside' = Inside /\ WordCountsInside'
    <2>1. /\ place' \in [Callbacks -> CallbackPlaces]
          /\ \A d \in Callbacks : place'[d] = "Inside" <=> place[d] = "Inside"
      BY <1>1 DEF GateInv, GateTypeOK
    <2> QED
      BY <1>1, <2>1, SameInside
  <1>3. ASSUME drained' = TRUE PROVE Inside' = {} /\ word' = CLOSED
    <2>1. word' = CLOSED
      BY <1>1, <1>3
    <2>2. Cardinality(Inside') = 0
      BY <1>2, <2>1, ClosedAssumption DEF WordCountsInside
    <2> QED
      BY <1>2, <2>1, <2>2, InsideIsFinite, FS_EmptySet
  <1>4. DrainedIsEmpty'
    BY <1>3 DEF DrainedIsEmpty
  <1>5. GateTypeOK'
    BY <1>1 DEF GateInv, GateTypeOK
  <1> QED
    BY <1>1, <1>2, <1>4, <1>5 DEF GateInv

-----------------------------------------------------------------------------
(* Every step of the gate keeps its inductive invariant.                    *)
LEMMA GateStep == GateInv /\ [GateNext]_gateVars => GateInv'
  <1> SUFFICES ASSUME GateInv, [GateNext]_gateVars PROVE GateInv'
    OBVIOUS
  <1>1. ASSUME NEW c \in Callbacks, CallbackStep(c) PROVE GateInv'
    BY <1>1, OutsideStep, ExchangeStep, LeaveStep DEF CallbackStep
  <1>2. CASE Open \/ Close \/ BeginWait \/ WaitStep
    BY <1>2, GateOwnerStep
  <1>3. CASE UNCHANGED gateVars
    BY <1>3 DEF gateVars, GateInv, GateTypeOK, WordCountsInside, DrainedIsEmpty, Inside
  <1> QED
    BY <1>1, <1>2, <1>3 DEF GateNext

(* The gate keeps its inductive invariant.                                  *)
THEOREM GateInvariance == GateSpec => []GateInv
  BY GateInitially, GateStep, PTL DEF GateSpec

(* Types: the word never leaves its width.                                  *)
THEOREM GateTypeCorrect == GateSpec => []GateTypeOK
  <1>1. GateInv => GateTypeOK
    BY DEF GateInv
  <1> QED
    BY <1>1, GateInvariance, PTL

(* The count is exact, and does not run into the closed bit.                *)
THEOREM CountIsExact == GateSpec => []WordCountsInside
  <1>1. GateInv => WordCountsInside
    BY DEF GateInv
  <1> QED
    BY <1>1, GateInvariance, PTL

(* Nobody is inside after wait has returned, until the gate opens.          *)
THEOREM NobodyInsideAfterWait == GateSpec => []DrainedIsEmpty
  <1>1. GateInv => DrainedIsEmpty
    BY DEF GateInv
  <1> QED
    BY <1>1, GateInvariance, PTL

(* The word is exact for every number of callbacks and every width.         *)
THEOREM GateAlwaysExact == GateSpec => []GateIsExact
  <1>1. GateInv => GateIsExact
    BY DEF GateInv, GateIsExact
  <1> QED
    BY <1>1, GateInvariance, PTL

-----------------------------------------------------------------------------
(* The lifecycle.                                                           *)

Loading == {"Compose", "Register", "Shortcut", "Publish", "Open"}
Leaving == {"Release", "Wait", "Waiting", "Stop"}

Listed == {resources[i] : i \in 1 .. Len(resources)}

Order == <<"Main", "Options", "Input", "Shortcut">>

(* Every list is a beginning of Order.                                      *)
Lists == {s \in Seq(Resources) : Len(s) \in 0 .. 4 /\ \A i \in 1 .. Len(s) : s[i] = Order[i]}

LifeShape ==
    /\ step \in Steps
    /\ published \in BOOLEAN
    /\ resources \in Lists
    /\ hosted \subseteq Listed
    /\ app \in {"None", "Running"} /\ attached \in BOOLEAN
    /\ hook \in {"Host", "Addon"} /\ kept \in BOOLEAN /\ unkept \in BOOLEAN
    /\ flagged \in BOOLEAN /\ poisoned \in BOOLEAN
    /\ holder \in Callbacks \cup {"None"}
    /\ stage \in [Callbacks -> Stages]

Present == app = "Running" /\ attached /\ hook = "Addon"
Absent == app = "None" /\ ~attached /\ resources = <<>>

RequiredHosted == {"Main", "Options", "Input"} \subseteq hosted

(* What is set up at each step of the owner.                                *)
ByStep ==
    /\ step \in Loading => drained /\ hook = "Addon" /\ unkept /\ ~kept
    /\ step = "Compose" => Absent
    /\ step \in Loading \ {"Compose"} => Present
    /\ step = "Register" => Len(resources) < 3
    /\ step = "Shortcut" => Len(resources) = 3
    /\ step \in {"Register", "Shortcut"} => hosted = Listed
    /\ step \in {"Publish", "Open", "KeepHook"} => RequiredHosted
    /\ step = "KeepHook" => word < CLOSED /\ unkept /\ ~kept /\ Present
    /\ step = "Idle" => ~unkept
    /\ step = "Idle" /\ published =>
          word < CLOSED /\ kept /\ Present /\ RequiredHosted
    /\ step \in {"Shutdown", "TakeState"} /\ published => Present /\ kept /\ ~unkept
    /\ step \in {"Idle", "Shutdown", "TakeState", "RestoreHook"} /\ ~published =>
          drained /\ Absent /\ ~kept /\ hook = (IF unkept THEN "Addon" ELSE "Host")
    /\ step \in Leaving => Present /\ kept # unkept
    /\ step \in {"TakeState", "Release", "Wait", "Waiting"} => word >= CLOSED
    /\ step \in {"Wait", "Waiting", "Stop"} => resources = <<>>
    /\ step = "Stop" => drained
    /\ published => step \in {"Open", "KeepHook", "Idle", "Shutdown", "TakeState"}
    /\ step \in {"Open", "KeepHook"} => published
    /\ waiter # "None" <=> step = "Waiting"

(* Who uses the runtime is inside the gate; while anybody may be inside the   *)
(* runtime is there; the shortcut's mutex is held by whoever refreshes it, and *)
(* only while the shortcut is on the list.                                     *)
ByCallback ==
    /\ \A c \in Callbacks : stage[c] # "None" => place[c] = "Inside"
    /\ \A c \in Callbacks : stage[c] = "Refreshing" <=> holder = c
    /\ ~drained => Present
    /\ flagged <=> "Shortcut" \in Listed
    /\ holder # "None" => flagged

LifeInv == GateInv /\ LifeShape /\ ByStep /\ ByCallback

-----------------------------------------------------------------------------
(* What is on a list of each length.                                        *)
LEMMA OrderFacts ==
  /\ Order[1] = "Main" /\ Order[2] = "Options" /\ Order[3] = "Input" /\ Order[4] = "Shortcut"
  /\ Required[1] = "Main" /\ Required[2] = "Options" /\ Required[3] = "Input"
  /\ Required \in Seq(Resources) /\ Len(Required) = 3
  BY DEF Order, Required, Resources

LEMMA PrefixFacts ==
  ASSUME NEW n \in 0 .. 4, NEW s, \A i \in 1 .. n : s[i] = Order[i]
  PROVE  /\ {"Main", "Options", "Input"} \subseteq {s[i] : i \in 1 .. n} <=> n >= 3
         /\ "Shortcut" \in {s[i] : i \in 1 .. n} <=> n = 4
         /\ n # 0 => (s[n] = "Shortcut" <=> n = 4)
         /\ \A i \in 1 .. n - 1 : s[i] # s[n]
  <1>1. n = 0 \/ n = 1 \/ n = 2 \/ n = 3 \/ n = 4
    OBVIOUS
  <1>2. CASE n = 0
    BY <1>2
  <1>3. CASE n = 1
    BY <1>3, OrderFacts
  <1>4. CASE n = 2
    BY <1>4, OrderFacts
  <1>5. CASE n = 3
    BY <1>5, OrderFacts
  <1>6. CASE n = 4
    BY <1>6, OrderFacts
  <1> QED
    BY <1>1, <1>2, <1>3, <1>4, <1>5, <1>6

LEMMA ListFacts ==
  ASSUME NEW s \in Lists
  PROVE  /\ s \in Seq(Resources) /\ Len(s) \in 0 .. 4
         /\ Len(s) = 0 <=> s = <<>>
         /\ {s[i] : i \in 1 .. Len(s)} \subseteq Resources
         /\ {"Main", "Options", "Input"} \subseteq {s[i] : i \in 1 .. Len(s)} <=> Len(s) >= 3
         /\ "Shortcut" \in {s[i] : i \in 1 .. Len(s)} <=> Len(s) = 4
  <1>1. s \in Seq(Resources) /\ Len(s) \in 0 .. 4 /\ \A i \in 1 .. Len(s) : s[i] = Order[i]
    BY DEF Lists
  <1>2. Len(s) = 0 <=> s = <<>>
    BY <1>1, EmptySeq
  <1>3. {s[i] : i \in 1 .. Len(s)} \subseteq Resources
    BY <1>1
  <1> QED
    BY <1>1, <1>2, <1>3, PrefixFacts

(* One more registration, recorded at the end.                              *)
LEMMA NextOnList ==
  ASSUME NEW s \in Lists, NEW r \in Resources, Len(s) < 4, r = Order[Len(s) + 1]
  PROVE  /\ Append(s, r) \in Lists /\ Len(Append(s, r)) = Len(s) + 1
         /\ {Append(s, r)[i] : i \in 1 .. Len(Append(s, r))} =
              {s[i] : i \in 1 .. Len(s)} \cup {r}
  <1> DEFINE t == Append(s, r)
  <1>1. s \in Seq(Resources) /\ Len(s) \in 0 .. 4 /\ \A i \in 1 .. Len(s) : s[i] = Order[i]
    BY ListFacts DEF Lists
  <1>2. /\ t \in Seq(Resources) /\ Len(t) = Len(s) + 1
        /\ \A i \in 1 .. Len(s) : t[i] = s[i]
        /\ t[Len(s) + 1] = r
    BY <1>1, AppendProperties
  <1> HIDE DEF t
  <1>3. t \in Lists
    BY <1>1, <1>2 DEF Lists
  <1>4. {t[i] : i \in 1 .. Len(t)} = {s[i] : i \in 1 .. Len(s)} \cup {r}
    BY <1>1, <1>2
  <1> QED
    BY <1>2, <1>3, <1>4 DEF t

(* The last registration goes.                                              *)
LEMMA LastOffList ==
  ASSUME NEW s \in Lists, s # <<>>
  PROVE  LET t == SubSeq(s, 1, Len(s) - 1)
             last == s[Len(s)] IN
         /\ t \in Lists
         /\ {t[i] : i \in 1 .. Len(t)} = {s[i] : i \in 1 .. Len(s)} \ {last}
         /\ last = "Shortcut" <=> Len(s) = 4
         /\ Len(t) = Len(s) - 1
  <1> DEFINE t == SubSeq(s, 1, Len(s) - 1)
             n == Len(s)
  <1>1. s \in Seq(Resources) /\ n \in 1 .. 4 /\ \A i \in 1 .. n : s[i] = Order[i]
    BY ListFacts DEF Lists
  <1>2. \A i \in 1 .. n : s[i] \in Resources
    BY <1>1, ElementOfSeq
  <1>3. t = SubSeq(s, 1, n - 1)
    OBVIOUS
  <1> HIDE DEF t, n
  <1>4. 1 \in Int /\ n - 1 \in Int /\ \A i \in 1 .. n - 1 : s[i] \in Resources
    BY <1>1, <1>2
  <1>5. /\ t \in Seq(Resources)
        /\ Len(t) = IF 1 <= n - 1 THEN (n - 1) - 1 + 1 ELSE 0
        /\ \A i \in 1 .. (n - 1) - 1 + 1 : t[i] = s[1 + i - 1]
    BY <1>3, <1>4, SubSeqProperties
  <1>6. Len(t) = n - 1 /\ \A i \in 1 .. n - 1 : t[i] = s[i]
    BY <1>1, <1>5
  <1>7. Len(t) \in 0 .. 4 /\ \A i \in 1 .. Len(t) : t[i] = Order[i]
    BY <1>1, <1>6
  <1>8. t \in Lists
    BY <1>5, <1>7 DEF Lists
  <1>9. n \in 0 .. 4 /\ n # 0
    BY <1>1
  <1>10. (s[n] = "Shortcut" <=> n = 4) /\ \A i \in 1 .. n - 1 : s[i] # s[n]
    BY <1>1, <1>9, PrefixFacts
  <1>11. {t[i] : i \in 1 .. Len(t)} = {s[i] : i \in 1 .. n - 1}
    BY <1>6
  <1>12. {s[i] : i \in 1 .. n - 1} = {s[i] : i \in 1 .. n} \ {s[n]}
    BY <1>1, <1>10
  <1> QED
    BY <1>6, <1>8, <1>10, <1>11, <1>12 DEF t, n
-----------------------------------------------------------------------------
(* The gate inside the lifecycle takes steps of CallbackGate only.          *)
LEMMA NextIsGateStep == [Next]_vars => [GateNext]_gateVars
  <1> SUFFICES ASSUME [Next]_vars PROVE [GateNext]_gateVars
    OBVIOUS
  <1>1. CASE OwnerStep
    BY <1>1 DEF OwnerStep, BeginLoad, Compose, Register, AddShortcut, Publish, OpenGate, KeepHook,
      BeginUnload, Shutdown, TakeState, Release, WaitForCallbacks, WaitStepInUnload, Stop,
      RestoreHook, GateNext
  <1>2. ASSUME NEW c \in Callbacks, HostStep(c) PROVE [GateNext]_gateVars
    BY <1>2 DEF HostStep, Approach, TakeRuntime, RefreshRemove, RefreshAdd, EndAction, Depart,
      GateNext, CallbackStep
  <1>3. CASE UNCHANGED vars
    BY <1>3 DEF vars
  <1> QED
    BY <1>1, <1>2, <1>3 DEF Next

(* A callback changes neither the closed bit nor what the owner knows.      *)
LEMMA CallbackMoves ==
  ASSUME GateInv, NEW c \in Callbacks, CallbackStep(c)
  PROVE  /\ word' >= CLOSED <=> word >= CLOSED
         /\ word' < CLOSED <=> word < CLOSED
         /\ drained' = drained
         /\ waiter' = "None" <=> waiter = "None"
         /\ \A d \in Callbacks \ {c} : place'[d] = place[d]
  <1>1. /\ word \in 0 .. 2 * CLOSED - 1 /\ place \in [Callbacks -> CallbackPlaces]
        /\ seen \in [Callbacks -> 0 .. 2 * CLOSED - 1]
        /\ Cardinality(Inside) = IF word < CLOSED THEN word ELSE word - CLOSED
    BY DEF GateInv, GateTypeOK, WordCountsInside
  <1>2. CASE LoadWord(c) \/ Refuse(c) \/ Notify(c)
    BY <1>1, <1>2 DEF LoadWord, Refuse, Notify
  <1>3. CASE Exchange(c)
    <2>1. CASE word = seen[c]
      <3>1. word < CLOSED - 1 /\ word' = word + 1
        BY <1>1, <1>3, <2>1, ClosedAssumption DEF Exchange, Full
      <3>2. word' < CLOSED /\ ~(word' >= CLOSED) /\ word < CLOSED /\ ~(word >= CLOSED)
        BY <1>1, <3>1, ClosedAssumption
      <3> QED
        BY <1>1, <1>3, <2>1, <3>2 DEF Exchange
    <2>2. CASE word # seen[c]
      BY <1>1, <1>3, <2>2 DEF Exchange
    <2> QED
      BY <2>1, <2>2
  <1>4. CASE Leave(c)
    <2>1. c \in Inside /\ word' = word - 1
      BY <1>4 DEF Leave, Inside
    <2>2. Cardinality(Inside) # 0
      BY <2>1, InsideIsFinite, FS_EmptySet
    <2>3. word # 0 /\ word # CLOSED
      BY <1>1, <2>2, ClosedAssumption
    <2>4. (word' >= CLOSED <=> word >= CLOSED) /\ (word' < CLOSED <=> word < CLOSED)
      BY <1>1, <2>1, <2>3, ClosedAssumption
    <2> QED
      BY <1>1, <1>4, <2>4 DEF Leave
  <1> QED
    BY <1>2, <1>3, <1>4 DEF CallbackStep

(* Nobody uses the runtime, or holds the mutex, once the owner knows the    *)
(* gate empty.                                                              *)
LEMMA DrainedIsQuiet ==
  ASSUME LifeInv, drained
  PROVE  holder = "None" /\ word = CLOSED /\ \A c \in Callbacks : stage[c] = "None"
  <1>1. Inside = {} /\ word = CLOSED
    BY DEF LifeInv, GateInv, DrainedIsEmpty
  <1>2. \A c \in Callbacks : stage[c] = "None"
    BY <1>1 DEF LifeInv, ByCallback, Inside
  <1> QED
    BY <1>1, <1>2 DEF LifeInv, ByCallback, LifeShape

LEMMA LifeInitially == Init => LifeInv
  <1> SUFFICES ASSUME Init PROVE LifeInv
    OBVIOUS
  <1>1. GateInv
    BY GateInitially DEF Init
  <1>2. resources = <<>> /\ <<>> \in Lists /\ Listed = {}
    BY EmptySeq DEF Init, Lists, Listed
  <1>3. "None" \notin Callbacks
    BY NoneAssumption
  <1> QED
    BY <1>1, <1>2, <1>3, ClosedAssumption
      DEF Init, GateInit, LifeInv, LifeShape, ByStep, ByCallback, Steps, Stages, Loading, Leaving,
          Absent, Listed

-----------------------------------------------------------------------------
(* Every step of the owner.                                                 *)
LEMMA OwnerKeepsLifeInv ==
  ASSUME LifeInv, GateInv', OwnerStep
  PROVE  LifeInv'
  <1> USE DEF Goto, Loading, Leaving, Present, Absent, Steps, RequiredHosted
  <1>0. GateInv /\ LifeShape /\ ByStep /\ ByCallback
    BY DEF LifeInv
  <1>w. word \in Nat /\ word' \in Nat /\ CLOSED \in Nat
    BY <1>0, GateInv', ClosedAssumption DEF GateInv, GateTypeOK
  <1>l. resources' = resources => Listed' = Listed
    BY DEF Listed
  <1>d. drained => holder = "None" /\ word = CLOSED
    BY DrainedIsQuiet
  <1>1. CASE BeginLoad
    <2>1. LifeShape'
      BY <1>0, <1>l, <1>1 DEF BeginLoad, LifeShape
    <2>2. ByStep'
      BY <1>0, <1>w, <1>l, <1>d, <1>1 DEF BeginLoad, ByStep, gateVars
    <2>3. ByCallback'
      BY <1>0, <1>w, <1>l, <1>d, <1>1 DEF BeginLoad, ByStep, ByCallback, gateVars
    <2> QED
      BY <2>1, <2>2, <2>3 DEF LifeInv
  <1>2. CASE Compose
    <2>0. "Shortcut" \notin Listed /\ Listed = {}
      BY <1>0, <1>2 DEF Compose, ByStep, Listed
    <2>00. Len(resources) = 0
      BY <1>0, <1>2 DEF Compose, ByStep
    <2>1. LifeShape'
      BY <1>0, <1>l, <2>0, <2>00, <1>2 DEF Compose, LifeShape
    <2>2. ByStep'
      <3>1. CASE step' = "Register"
        BY <1>0, <1>w, <1>l, <2>0, <2>00, <3>1, <1>2 DEF Compose, ByStep, LifeShape, gateVars
      <3>2. CASE step' = "Shutdown"
        BY <1>0, <1>w, <1>l, <2>0, <2>00, <3>2, <1>2 DEF Compose, ByStep, gateVars
      <3> QED
        BY <3>1, <3>2, <1>2 DEF Compose
    <2>3. ByCallback'
      BY <1>0, <1>w, <1>l, <1>d, <2>0, <2>00, <1>2 DEF Compose, ByStep, ByCallback, gateVars
    <2> QED
      BY <2>1, <2>2, <2>3 DEF LifeInv
  <1>3. CASE Register
    <2>0. /\ resources' \in Lists /\ Len(resources') = Len(resources) + 1 /\ Len(resources') \in 1 .. 3
          /\ Listed' = Listed \cup {Required[Len(resources) + 1]}
          /\ Required[Len(resources) + 1] \in Resources
          /\ "Shortcut" \notin Listed /\ "Shortcut" \notin Listed'
          /\ Len(resources') = 3 => {"Main", "Options", "Input"} \subseteq Listed'
      <3> DEFINE n == Len(resources)
      <3>a. resources \in Lists /\ n < 3
        BY <1>0, <1>3 DEF Register, LifeShape, ByStep
      <3>b. n \in 0 .. 4
        BY <3>a, ListFacts
      <3> HIDE DEF n
      <3>c. n = 0 \/ n = 1 \/ n = 2
        BY <3>a, <3>b
      <3>d. /\ Required[n + 1] = Order[n + 1]
            /\ Required[n + 1] \in Resources
            /\ n < 4 /\ n + 1 \in 1 .. 3 /\ n \in 0 .. 2
        BY <3>c, OrderFacts DEF Resources
      <3>1. resources \in Lists /\ Len(resources) \in 0 .. 2
        BY <3>a, <3>d DEF n
      <3>2. /\ Required[Len(resources) + 1] = Order[Len(resources) + 1]
            /\ Required[Len(resources) + 1] \in Resources
            /\ Len(resources) < 4 /\ Len(resources) + 1 \in 1 .. 3
        BY <3>d DEF n
      <3>3. resources' = Append(resources, Required[Len(resources) + 1])
        BY <1>3 DEF Register
      <3>4. resources' \in Lists /\ Len(resources') = Len(resources) + 1
        BY <3>1, <3>2, <3>3, NextOnList
      <3>5. Listed' = Listed \cup {Required[Len(resources) + 1]}
        BY <3>1, <3>2, <3>3, NextOnList DEF Listed
      <3>6. "Shortcut" \notin Listed
        BY <3>a, <3>d, ListFacts DEF Listed, n
      <3> DEFINE m == Len(resources')
      <3>7. m \in 1 .. 3
        BY <3>2, <3>4
      <3>8. /\ "Shortcut" \in Listed' <=> m = 4
            /\ {"Main", "Options", "Input"} \subseteq Listed' <=> m >= 3
        BY <3>4, ListFacts DEF Listed
      <3> HIDE DEF m
      <3>9. "Shortcut" \notin Listed' /\ (m = 3 => {"Main", "Options", "Input"} \subseteq Listed')
        BY <3>7, <3>8
      <3> QED
        BY <3>2, <3>4, <3>5, <3>6, <3>7, <3>9 DEF m
    <2>00. /\ Len(Required) = 3 /\ Len(resources) \in 0 .. 4
      BY <1>0, OrderFacts, ListFacts DEF LifeShape
    <2>1. LifeShape'
      BY <1>0, <1>l, <2>0, <2>00, <1>3 DEF Register, LifeShape
    <2>2. ByStep'
      <3>1. CASE step' = "Register"
        BY <1>0, <1>w, <1>l, <2>0, <2>00, <3>1, <1>3 DEF Register, ByStep, gateVars
      <3>2. CASE step' = "Shortcut"
        BY <1>0, <1>w, <1>l, <2>0, <2>00, <3>2, <1>3 DEF Register, ByStep, gateVars
      <3>3. CASE step' = "Release"
        <4>1. /\ word' = CLOSED /\ word' >= CLOSED /\ waiter' = "None"
          BY <1>0, <1>w, <1>d, <1>3 DEF Register, ByStep, gateVars
        <4>2. Present' /\ unkept' /\ ~kept' /\ kept' # unkept' /\ ~published'
          BY <1>0, <1>3 DEF Register, ByStep, LifeShape
        <4> QED
          BY <4>1, <4>2, <3>3 DEF ByStep
      <3> QED
        BY <3>1, <3>2, <3>3, <1>3 DEF Register
    <2>3. ByCallback'
      BY <1>0, <1>w, <1>l, <1>d, <2>0, <2>00, <1>3 DEF Register, ByStep, ByCallback, gateVars
    <2> QED
      BY <2>1, <2>2, <2>3 DEF LifeInv
  <1>4. CASE AddShortcut
    <2>0. /\ Append(resources, "Shortcut") \in Lists
          /\ resources' = Append(resources, "Shortcut") => Listed' = Listed \cup {"Shortcut"}
          /\ {"Main", "Options", "Input"} \subseteq Listed
          /\ "Shortcut" \notin Listed
      <3> DEFINE n == Len(resources)
      <3>a. resources \in Lists /\ n = 3
        BY <1>0, <1>4 DEF AddShortcut, LifeShape, ByStep
      <3> HIDE DEF n
      <3>b. "Shortcut" \in Resources /\ "Shortcut" = Order[n + 1] /\ n < 4
        BY <3>a, OrderFacts DEF Resources
      <3>1. resources \in Lists /\ Len(resources) = 3
        BY <3>a DEF n
      <3>2. /\ "Shortcut" \in Resources /\ "Shortcut" = Order[Len(resources) + 1]
            /\ Len(resources) < 4
        BY <3>b DEF n
      <3> DEFINE t == Append(resources, "Shortcut")
      <3>c. t \in Lists /\ {t[i] : i \in 1 .. Len(t)} = Listed \cup {"Shortcut"}
        BY ONLY <3>1, <3>2, NextOnList DEF Listed
      <3>3. t \in Lists
        BY <3>c
      <3>d. resources' = t => Listed' = {t[i] : i \in 1 .. Len(t)}
        BY DEF Listed
      <3>4. resources' = t => Listed' = Listed \cup {"Shortcut"}
        BY <3>c, <3>d
      <3>5. /\ "Shortcut" \in Listed <=> n = 4
            /\ {"Main", "Options", "Input"} \subseteq Listed <=> n >= 3
        BY <3>a, ListFacts DEF Listed, n
      <3>6. {"Main", "Options", "Input"} \subseteq Listed /\ "Shortcut" \notin Listed
        BY <3>a, <3>5
      <3> QED
        BY <3>3, <3>4, <3>6
    <2>1. LifeShape'
      BY <1>0, <1>l, <2>0, <1>4 DEF AddShortcut, LifeShape
    <2>2. ByStep'
      BY <1>0, <1>w, <1>l, <1>d, <2>0, <1>4 DEF AddShortcut, ByStep, gateVars
    <2>3. ByCallback'
      BY <1>0, <1>w, <1>l, <1>d, <2>0, <1>4 DEF AddShortcut, ByStep, ByCallback, gateVars
    <2> QED
      BY <2>1, <2>2, <2>3 DEF LifeInv
  <1>5. CASE Publish
    <2>1. LifeShape'
      BY <1>0, <1>l, <1>5 DEF Publish, LifeShape
    <2>2. ByStep'
      BY <1>0, <1>w, <1>l, <1>d, <1>5 DEF Publish, ByStep, gateVars
    <2>3. ByCallback'
      BY <1>0, <1>w, <1>l, <1>d, <1>5 DEF Publish, ByStep, ByCallback, gateVars
    <2> QED
      BY <2>1, <2>2, <2>3 DEF LifeInv
  <1>6. CASE OpenGate
    <2>1. LifeShape'
      BY <1>0, <1>l, <1>6 DEF OpenGate, LifeShape
    <2>2. ByStep'
      <3>1. word = CLOSED
        BY <1>0, <1>d, <1>6 DEF OpenGate, ByStep
      <3>2. step' = "KeepHook" /\ word' = 0 /\ word' < CLOSED /\ ~drained' /\ waiter' = waiter
        BY <3>1, <1>6, ClosedAssumption DEF OpenGate, Open
      <3> QED
        BY <1>0, <1>l, <3>2, <1>6 DEF OpenGate, ByStep
    <2>3. ByCallback'
      BY <1>0, <1>w, <1>l, <1>d, <1>6 DEF OpenGate, ByStep, ByCallback, Open, gateVars
    <2> QED
      BY <2>1, <2>2, <2>3 DEF LifeInv
  <1>7. CASE KeepHook
    <2>1. LifeShape'
      BY <1>0, <1>l, <1>7 DEF KeepHook, LifeShape
    <2>2. ByStep'
      BY <1>0, <1>w, <1>l, <1>d, <1>7 DEF KeepHook, ByStep, gateVars
    <2>3. ByCallback'
      BY <1>0, <1>w, <1>l, <1>d, <1>7 DEF KeepHook, ByStep, ByCallback, gateVars
    <2> QED
      BY <2>1, <2>2, <2>3 DEF LifeInv
  <1>8. CASE BeginUnload
    <2>1. LifeShape'
      BY <1>0, <1>l, <1>8 DEF BeginUnload, LifeShape
    <2>2. ByStep'
      BY <1>0, <1>w, <1>l, <1>d, <1>8 DEF BeginUnload, ByStep, gateVars
    <2>3. ByCallback'
      BY <1>0, <1>w, <1>l, <1>d, <1>8 DEF BeginUnload, ByStep, ByCallback, gateVars
    <2> QED
      BY <2>1, <2>2, <2>3 DEF LifeInv
  <1>9. CASE Shutdown
    <2>1. LifeShape'
      BY <1>0, <1>l, <1>9 DEF Shutdown, LifeShape
    <2>2. ByStep'
      BY <1>0, <1>w, <1>l, <1>d, <1>9 DEF Shutdown, ByStep, Close
    <2>3. ByCallback'
      BY <1>0, <1>w, <1>l, <1>d, <1>9 DEF Shutdown, ByStep, ByCallback, Close
    <2> QED
      BY <2>1, <2>2, <2>3 DEF LifeInv
  <1>10. CASE TakeState
    <2>1. LifeShape'
      BY <1>0, <1>l, <1>10 DEF TakeState, LifeShape
    <2>2. ByStep'
      BY <1>0, <1>w, <1>l, <1>d, <1>10 DEF TakeState, ByStep, gateVars
    <2>3. ByCallback'
      BY <1>0, <1>w, <1>l, <1>d, <1>10 DEF TakeState, ByStep, ByCallback, gateVars
    <2> QED
      BY <2>1, <2>2, <2>3 DEF LifeInv
  <1>11. CASE Release
    <2>0. resources # <<>> =>
            LET last == resources[Len(resources)] IN
            /\ SubSeq(resources, 1, Len(resources) - 1) \in Lists
            /\ resources' = SubSeq(resources, 1, Len(resources) - 1) =>
                 Listed' = Listed \ {last} /\ ("Shortcut" \notin Listed')
            /\ last = "Shortcut" <=> "Shortcut" \in Listed
      <3> SUFFICES ASSUME resources # <<>>
                   PROVE  LET last == resources[Len(resources)] IN
                          /\ SubSeq(resources, 1, Len(resources) - 1) \in Lists
                          /\ resources' = SubSeq(resources, 1, Len(resources) - 1) =>
                               Listed' = Listed \ {last} /\ ("Shortcut" \notin Listed')
                          /\ last = "Shortcut" <=> "Shortcut" \in Listed
        OBVIOUS
      <3> DEFINE t == SubSeq(resources, 1, Len(resources) - 1)
                 n == Len(resources)
      <3>1. resources \in Lists
        BY <1>0 DEF LifeShape
      <3>2. /\ t \in Lists
            /\ {t[i] : i \in 1 .. Len(t)} = Listed \ {resources[Len(resources)]}
            /\ resources[Len(resources)] = "Shortcut" <=> n = 4
            /\ Len(t) = n - 1
        BY <3>1, LastOffList DEF Listed
      <3>3. n \in 0 .. 4 /\ ("Shortcut" \in Listed <=> n = 4)
        BY <3>1, ListFacts DEF Listed
      <3>4. resources' = t => Listed' = {t[i] : i \in 1 .. Len(t)}
        BY DEF Listed
      <3> HIDE DEF t, n
      <3>5. "Shortcut" \in {t[i] : i \in 1 .. Len(t)} <=> Len(t) = 4
        BY <3>2, ListFacts
      <3>6. "Shortcut" \notin {t[i] : i \in 1 .. Len(t)}
        BY <3>2, <3>3, <3>5
      <3> QED
        BY <3>2, <3>3, <3>4, <3>6 DEF t, n
    <2>1. LifeShape'
      BY <1>0, <1>l, <2>0, <1>11 DEF Release, LifeShape
    <2>2. ByStep'
      BY <1>0, <1>w, <1>l, <1>d, <2>0, <1>11 DEF Release, ByStep, Close
    <2>3. ByCallback'
      BY <1>0, <1>w, <1>l, <1>d, <2>0, <1>11 DEF Release, ByStep, ByCallback, Close
    <2> QED
      BY <2>1, <2>2, <2>3 DEF LifeInv
  <1>12. CASE WaitForCallbacks
    <2>1. LifeShape'
      BY <1>0, <1>l, <1>12 DEF WaitForCallbacks, LifeShape
    <2>2. ByStep'
      BY <1>0, <1>w, <1>l, <1>d, <1>12 DEF WaitForCallbacks, ByStep, BeginWait
    <2>3. ByCallback'
      BY <1>0, <1>w, <1>l, <1>d, <1>12 DEF WaitForCallbacks, ByStep, ByCallback, BeginWait
    <2> QED
      BY <2>1, <2>2, <2>3 DEF LifeInv
  <1>13. CASE WaitStepInUnload
    <2>0. /\ waiter' = "None" => drained' /\ step' = "Stop"
          /\ waiter' # "None" => step' = "Waiting"
          /\ waiter' # "None" => drained' = drained
          /\ word' = word /\ place' = place
      BY <1>13 DEF WaitStepInUnload, WaitStep, Check, FallAsleep, TimeOut
    <2>1. LifeShape'
      BY <1>0, <1>l, <2>0, <1>13 DEF WaitStepInUnload, LifeShape
    <2>2. ByStep'
      BY <1>0, <1>w, <1>l, <1>d, <2>0, <1>13 DEF WaitStepInUnload, ByStep, WaitStep, Check, FallAsleep, TimeOut
    <2>3. ByCallback'
      BY <1>0, <1>w, <1>l, <1>d, <2>0, <1>13 DEF WaitStepInUnload, ByStep, ByCallback, WaitStep, Check, FallAsleep, TimeOut
    <2> QED
      BY <2>1, <2>2, <2>3 DEF LifeInv
  <1>14. CASE Stop
    <2>1. LifeShape'
      BY <1>0, <1>l, <1>14 DEF Stop, LifeShape
    <2>2. ByStep'
      <3>1. CASE kept
        BY <1>0, <1>w, <1>l, <1>d, <3>1, <1>14 DEF Stop, ByStep, gateVars
      <3>2. CASE ~kept
        BY <1>0, <1>w, <1>l, <1>d, <3>2, <1>14 DEF Stop, ByStep, LifeShape, gateVars
      <3> QED
        BY <3>1, <3>2
    <2>3. ByCallback'
      BY <1>0, <1>w, <1>l, <1>d, <1>14 DEF Stop, ByStep, ByCallback, gateVars
    <2> QED
      BY <2>1, <2>2, <2>3 DEF LifeInv
  <1>15. CASE RestoreHook
    <2>1. LifeShape'
      BY <1>0, <1>l, <1>15 DEF RestoreHook, LifeShape
    <2>2. ByStep'
      BY <1>0, <1>w, <1>l, <1>d, <1>15 DEF RestoreHook, ByStep, gateVars
    <2>3. ByCallback'
      BY <1>0, <1>w, <1>l, <1>d, <1>15 DEF RestoreHook, ByStep, ByCallback, gateVars
    <2> QED
      BY <2>1, <2>2, <2>3 DEF LifeInv
  <1> QED
    BY <1>1, <1>2, <1>3, <1>4, <1>5, <1>6, <1>7, <1>8, <1>9, <1>10, <1>11, <1>12, <1>13, <1>14, <1>15 DEF OwnerStep

-----------------------------------------------------------------------------
(* Every step of a callback.                                                *)
LEMMA HostKeepsLifeInv ==
  ASSUME LifeInv, GateInv', NEW c \in Callbacks, HostStep(c)
  PROVE  LifeInv'
  <1> USE DEF Present, Absent
  <1>0. GateInv /\ LifeShape /\ ByStep /\ ByCallback
    BY DEF LifeInv
  <1>n. \A e \in Callbacks : e # "None"
    BY NoneAssumption
  <1>l. resources' = resources => Listed' = Listed
    BY DEF Listed
  <1>d. drained => \A e \in Callbacks : stage[e] = "None"
    BY DrainedIsQuiet
  <1>r. place \in [Callbacks -> CallbackPlaces] /\ stage \in [Callbacks -> Stages]
    BY <1>0 DEF GateInv, GateTypeOK, LifeShape
  <1>1. CASE Approach(c)
    <2>1. CallbackStep(c)
      BY <1>1 DEF Approach, CallbackStep
    <2>2. /\ word' >= CLOSED <=> word >= CLOSED
          /\ word' < CLOSED <=> word < CLOSED
          /\ drained' = drained
          /\ waiter' = "None" <=> waiter = "None"
      BY <1>0, <2>1, CallbackMoves
    <2>3. place[c] = "Inside" => place'[c] = "Inside"
      BY <1>1 DEF Approach, LoadWord, Refuse, Exchange, Notify
    <2>4. \A d \in Callbacks : stage[d] # "None" => place'[d] = "Inside"
      BY <1>0, <2>1, <2>3, CallbackMoves DEF ByCallback
    <2>5. UNCHANGED lifeVars
      BY <1>1 DEF Approach
    <2>6. LifeShape'
      BY <1>0, <1>l, <2>5 DEF lifeVars, LifeShape
    <2>7. ByStep'
      BY <1>0, <1>l, <2>2, <2>5 DEF lifeVars, ByStep, RequiredHosted
    <2>8. ByCallback'
      BY <1>0, <1>l, <2>2, <2>4, <2>5 DEF lifeVars, ByCallback
    <2> QED
      BY <2>6, <2>7, <2>8 DEF LifeInv
  <1>2. CASE TakeRuntime(c)
    <2>1. LifeShape'
      BY <1>0, <1>l, <1>r, <1>n, <1>2 DEF TakeRuntime, LifeShape, Stages
    <2>2. ByStep'
      BY <1>0, <1>l, <1>d, <1>2 DEF TakeRuntime, ByStep, ByCallback, gateVars, RequiredHosted
    <2>3. ByCallback'
      BY <1>0, <1>l, <1>r, <1>n, <1>2 DEF TakeRuntime, ByCallback, gateVars
    <2> QED
      BY <2>1, <2>2, <2>3 DEF LifeInv
  <1>3. CASE RefreshRemove(c)
    <2>1. step \notin {"Register", "Shortcut"}
      BY <1>0, <1>d, <1>r, <1>3 DEF RefreshRemove, ByStep, Loading
    <2>2. "Shortcut" \in Listed
      BY <1>0, <1>n, <1>3 DEF RefreshRemove, ByCallback
    <2>3. /\ hosted' \subseteq Listed'
          /\ RequiredHosted => RequiredHosted'
      BY <1>0, <1>l, <2>2, <1>3 DEF RefreshRemove, LifeShape, RequiredHosted
    <2>4. holder' \in Callbacks \cup {"None"} /\ stage' \in [Callbacks -> Stages] /\ poisoned' \in BOOLEAN
      BY <1>0, <1>r, <1>3 DEF RefreshRemove, Stages, LifeShape
    <2>5. LifeShape'
      BY <1>0, <1>l, <2>3, <2>4, <1>3 DEF RefreshRemove, LifeShape
    <2>6. ByStep'
      <3>1. UNCHANGED <<word, waiter, drained, step, published, resources, app, attached, hook, kept, unkept>>
        BY <1>3 DEF RefreshRemove, gateVars
      <3>2. step \in {"Register", "Shortcut"} => hosted' = Listed'
        BY <2>1
      <3>3. step \in {"Publish", "Open", "KeepHook"} \/ (step = "Idle" /\ published) =>
              RequiredHosted'
        BY <1>0, <2>3 DEF ByStep
      <3> QED
        BY <1>0, <3>1, <3>2, <3>3 DEF ByStep
    <2>7. \A d \in Callbacks : stage'[d] = "Refreshing" <=> holder' = d
      BY <1>0, <1>r, <1>n, <1>3 DEF RefreshRemove, ByCallback
    <2>8. \A d \in Callbacks : stage'[d] # "None" => place'[d] = "Inside"
      BY <1>0, <1>r, <1>3 DEF RefreshRemove, ByCallback, gateVars
    <2>9. ByCallback'
      BY <1>0, <1>l, <2>2, <2>7, <2>8, <1>3 DEF RefreshRemove, ByCallback, gateVars
    <2> QED
      BY <2>5, <2>6, <2>9 DEF LifeInv
  <1>4. CASE RefreshAdd(c)
    <2>1. step \notin {"Register", "Shortcut"}
      BY <1>0, <1>d, <1>r, <1>4 DEF RefreshAdd, ByStep, Loading
    <2>2. "Shortcut" \in Listed
      BY <1>0, <1>n, <1>4 DEF RefreshAdd, ByCallback
    <2>3. /\ hosted' \subseteq Listed'
          /\ RequiredHosted => RequiredHosted'
      BY <1>0, <1>l, <2>2, <1>4 DEF RefreshAdd, LifeShape, RequiredHosted
    <2>4. holder' \in Callbacks \cup {"None"} /\ stage' \in [Callbacks -> Stages] /\ poisoned' \in BOOLEAN
      BY <1>0, <1>r, <1>4 DEF RefreshAdd, Stages, LifeShape
    <2>5. LifeShape'
      BY <1>0, <1>l, <2>3, <2>4, <1>4 DEF RefreshAdd, LifeShape
    <2>6. ByStep'
      <3>1. UNCHANGED <<word, waiter, drained, step, published, resources, app, attached, hook, kept, unkept>>
        BY <1>4 DEF RefreshAdd, gateVars
      <3>2. step \in {"Register", "Shortcut"} => hosted' = Listed'
        BY <2>1
      <3>3. step \in {"Publish", "Open", "KeepHook"} \/ (step = "Idle" /\ published) =>
              RequiredHosted'
        BY <1>0, <2>3 DEF ByStep
      <3> QED
        BY <1>0, <3>1, <3>2, <3>3 DEF ByStep
    <2>7. \A d \in Callbacks : stage'[d] = "Refreshing" <=> holder' = d
      BY <1>0, <1>r, <1>n, <1>4 DEF RefreshAdd, ByCallback
    <2>8. \A d \in Callbacks : stage'[d] # "None" => place'[d] = "Inside"
      BY <1>0, <1>r, <1>4 DEF RefreshAdd, ByCallback, gateVars
    <2>9. ByCallback'
      BY <1>0, <1>l, <2>2, <2>7, <2>8, <1>4 DEF RefreshAdd, ByCallback, gateVars
    <2> QED
      BY <2>5, <2>6, <2>9 DEF LifeInv
  <1>5. CASE EndAction(c)
    <2>1. LifeShape'
      BY <1>0, <1>l, <1>r, <1>n, <1>5 DEF EndAction, LifeShape, Stages
    <2>2. ByStep'
      BY <1>0, <1>l, <1>d, <1>5 DEF EndAction, ByStep, ByCallback, gateVars, RequiredHosted
    <2>3. ByCallback'
      BY <1>0, <1>l, <1>r, <1>n, <1>5 DEF EndAction, ByCallback, gateVars
    <2> QED
      BY <2>1, <2>2, <2>3 DEF LifeInv
  <1>6. CASE Depart(c)
    <2>1. CallbackStep(c)
      BY <1>6 DEF Depart, CallbackStep
    <2>2. /\ word' >= CLOSED <=> word >= CLOSED
          /\ word' < CLOSED <=> word < CLOSED
          /\ drained' = drained
          /\ waiter' = "None" <=> waiter = "None"
          /\ \A d \in Callbacks \ {c} : place'[d] = place[d]
      BY <1>0, <2>1, CallbackMoves
    <2>3. LifeShape'
      BY <1>0, <1>l, <1>r, <1>6 DEF Depart, LifeShape, Stages
    <2>4. ByStep'
      BY <1>0, <1>l, <2>2, <1>6 DEF Depart, ByStep, RequiredHosted
    <2>5. ByCallback'
      BY <1>0, <1>l, <1>r, <1>n, <2>2, <1>6 DEF Depart, ByCallback
    <2> QED
      BY <2>3, <2>4, <2>5 DEF LifeInv
  <1> QED
    BY <1>1, <1>2, <1>3, <1>4, <1>5, <1>6 DEF HostStep

(* LifeInv is inductive.                                                     *)
LEMMA LifeStep == LifeInv /\ [Next]_vars => LifeInv'
  <1> SUFFICES ASSUME LifeInv, [Next]_vars PROVE LifeInv'
    OBVIOUS
  <1>1. GateInv'
    BY NextIsGateStep, GateStep DEF LifeInv
  <1>2. CASE OwnerStep
    BY <1>1, <1>2, OwnerKeepsLifeInv
  <1>3. ASSUME NEW c \in Callbacks, HostStep(c) PROVE LifeInv'
    BY <1>1, <1>3, HostKeepsLifeInv
  <1>4. CASE UNCHANGED vars
    BY <1>1, <1>4 DEF vars, gateVars, lifeVars, LifeInv, LifeShape, ByStep, ByCallback, Listed,
      Present, Absent, RequiredHosted
  <1> QED
    BY <1>2, <1>3, <1>4 DEF Next

(* The invariant of load and unload against callbacks at any moment, with a  *)
(* host that unwinds wherever it can.                                        *)
THEOREM LifeInvariance == Spec => []LifeInv
  BY LifeInitially, LifeStep, PTL DEF Spec

-----------------------------------------------------------------------------
(* A beginning of Order is one of the five lists that LifeTypeOK names.       *)
LEMMA ListsAreBeginnings ==
  Lists \subseteq {SubSeq(Required, 1, n) : n \in 0 .. 3} \cup {Append(Required, "Shortcut")}
  <1> SUFFICES ASSUME NEW s \in Lists
               PROVE  \/ \E n \in 0 .. 3 : s = SubSeq(Required, 1, n)
                      \/ s = Append(Required, "Shortcut")
    OBVIOUS
  <1> DEFINE n == Len(s)
             t == SubSeq(Required, 1, n)
             u == Append(Required, "Shortcut")
  <1>1. s \in Seq(Resources) /\ n \in 0 .. 4 /\ \A i \in 1 .. n : s[i] = Order[i]
    BY ListFacts DEF Lists
  <1>2. CASE n \in 0 .. 3
    <2>a. t = SubSeq(Required, 1, n)
      OBVIOUS
    <2>b. s \in Seq(Resources) /\ Len(s) = n
      BY <1>1
    <2> HIDE DEF n, t
    <2>1. \A i \in 1 .. n : Required[i] = Order[i] /\ Required[i] \in Resources
      BY <1>2, OrderFacts DEF Resources
    <2>2. /\ t \in Seq(Resources)
          /\ Len(t) = IF 1 <= n THEN n - 1 + 1 ELSE 0
          /\ \A i \in 1 .. n - 1 + 1 : t[i] = Required[1 + i - 1]
      BY <1>2, <2>a, <2>1, SubSeqProperties
    <2>3. Len(t) = n /\ \A i \in 1 .. n : t[i] = Order[i]
      BY <1>2, <2>1, <2>2
    <2>4. s = t
      BY <1>1, <2>b, <2>2, <2>3, SeqEqual
    <2> QED
      BY <1>2, <2>4 DEF t
  <1>3. CASE n = 4
    <2>b. s \in Seq(Resources) /\ Len(s) = n /\ u = Append(Required, "Shortcut")
      BY <1>1
    <2> HIDE DEF n, u
    <2>1. /\ Required \in Seq(Resources) /\ Len(Required) = 3
          /\ \A i \in 1 .. 3 : i = 1 \/ i = 2 \/ i = 3
      BY OrderFacts
    <2> DEFINE m == Len(Required)
    <2>a. Required \in Seq(Resources) /\ m = 3
      BY <2>1
    <2> HIDE DEF m
    <2>c. m \in 0 .. 4 /\ m < 4 /\ \A i \in 1 .. m : Required[i] = Order[i]
      BY <2>1, <2>a, OrderFacts
    <2>2. Required \in Lists
      BY <2>a, <2>c DEF Lists, m
    <2>3. "Shortcut" \in Resources /\ "Shortcut" = Order[m + 1] /\ m + 1 = 4
      BY <2>a, OrderFacts DEF Resources
    <2>d. u \in Lists /\ Len(u) = Len(Required) + 1
      BY ONLY <2>2, <2>3, <2>b, <2>c, NextOnList DEF m
    <2>4. u \in Lists /\ Len(u) = 4
      BY <2>3, <2>d DEF m
    <2>5. u \in Seq(Resources) /\ \A i \in 1 .. 4 : u[i] = s[i]
      BY <1>1, <1>3, <2>4 DEF Lists
    <2>6. s = u
      BY <1>3, <2>b, <2>4, <2>5, SeqEqual
    <2> QED
      BY <2>6 DEF u
  <1> QED
    BY <1>1, <1>2, <1>3

(* assert!(gate.open()) never fires, what load leaves behind is complete, and  *)
(* what unload or a failed load leaves behind is nothing.                      *)
LEMMA LifeInvImplies == LifeInv => LifecycleIsWhole /\ RuntimeOutlivesCallbacks
  <1> SUFFICES ASSUME LifeInv PROVE LifecycleIsWhole /\ RuntimeOutlivesCallbacks
    OBVIOUS
  <1>0. GateInv /\ LifeShape /\ ByStep /\ ByCallback
    BY DEF LifeInv
  <1>1. LifeTypeOK
    <2>1. resources \in Lists /\ Listed \subseteq Resources
      BY <1>0, ListFacts DEF LifeShape, Listed
    <2> QED
      BY <1>0, <2>1, ListsAreBeginnings DEF LifeTypeOK, LifeShape, GateInv
  <1>2. drained => Inside = {} /\ word = CLOSED
    BY <1>0 DEF GateInv, DrainedIsEmpty
  <1>3. NothingLeftBehind
    <2> SUFFICES ASSUME step = "Idle", ~published PROVE NothingLeftBehind
      BY DEF NothingLeftBehind
    <2>1. drained /\ Absent /\ ~unkept /\ hook = "Host"
      BY <1>0 DEF ByStep
    <2>2. Listed = {}
      BY <2>1 DEF Absent, Listed
    <2> QED
      BY <1>0, <1>2, <2>1, <2>2 DEF NothingLeftBehind, Absent, LifeShape
  <1>4. GateDrainedBeforeLoad
    BY <1>0, <1>2 DEF GateDrainedBeforeLoad, ByStep, Loading
  <1>5. LoadedIsComplete
    BY <1>0 DEF LoadedIsComplete, ByStep, Present, RequiredHosted
  <1>6. RuntimeOutlivesCallbacks
    <2> SUFFICES ASSUME NEW c \in Callbacks, stage[c] \in {"Acting", "Refreshing", "Drawing"}
                 PROVE  place[c] = "Inside" /\ app = "Running" /\ attached /\ hook = "Addon"
      BY DEF RuntimeOutlivesCallbacks
    <2>1. stage[c] # "None"
      OBVIOUS
    <2>2. ~drained
      BY <2>1, DrainedIsQuiet
    <2> QED
      BY <1>0, <2>1, <2>2 DEF ByCallback, Present
  <1> QED
    BY <1>1, <1>3, <1>4, <1>5, <1>6 DEF LifecycleIsWhole

(* However loads, failed loads, unloads and callbacks interleave, an addon at  *)
(* rest is all there or all gone, and load finds the gate drained.             *)
THEOREM LifecycleAlwaysWhole == Spec => []LifecycleIsWhole
  BY LifeInvariance, LifeInvImplies, PTL

(* A callback that uses the runtime finds the application thread, the host's   *)
(* context and the panic hook in place, however late unload comes.             *)
THEOREM RuntimeAlwaysOutlives == Spec => []RuntimeOutlivesCallbacks
  BY LifeInvariance, LifeInvImplies, PTL

(* load and unload use the gate as CallbackGate has it: what is proved of the  *)
(* gate alone holds of the gate inside the lifecycle.                          *)
THEOREM LifecycleUsesGate == Spec => GateSpec
  <1>1. Init => GateInit
    BY DEF Init
  <1> QED
    BY <1>1, NextIsGateStep, PTL DEF Spec, GateSpec
=============================================================================
