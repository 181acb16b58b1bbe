---------------------------- MODULE CallbackGate ----------------------------
(***************************************************************************)
(* rust/src/addon/callback_gate.rs: callbacks of the host enter and leave  *)
(* with one atomic word, whose top bit says closed and whose other bits    *)
(* count who is inside; the lifecycle owner opens, closes, and waits for   *)
(* the count to become zero.  Each atomic instruction is an action.        *)
(***************************************************************************)
EXTENDS Naturals, FiniteSets

CONSTANTS
    Callbacks,      \* threads that may run a callback of the host
    CLOSED          \* the top bit, 2^63 in the code

ASSUME CallbacksAssumption == IsFiniteSet(Callbacks)
ASSUME ClosedAssumption == CLOSED \in Nat /\ CLOSED > 1

VARIABLES
    word,       \* CallbackGate::state
    place,      \* where each callback is in enter and in the drop of its admission
    seen,       \* the value of the word its enter compares with
    waiter,     \* where the owner is in wait
    drained     \* observer: the owner knows the gate closed and empty

gateVars == <<word, place, seen, waiter, drained>>

CallbackPlaces == {"Outside", "Entering", "Inside", "Notifying"}
WaiterPlaces == {"None", "Checking", "Drowsy", "Asleep"}

Inside == {c \in Callbacks : place[c] = "Inside"}

GateInit ==
    /\ word = CLOSED
    /\ place = [c \in Callbacks |-> "Outside"]
    /\ seen = [c \in Callbacks |-> CLOSED]
    /\ waiter = "None"
    /\ drained = TRUE

-----------------------------------------------------------------------------
(* enter: load, then compare and exchange until it succeeds or is refused.  A  *)
(* weak exchange that fails for no reason only repeats itself.                  *)
LoadWord(c) ==
    /\ place[c] = "Outside"
    /\ place' = [place EXCEPT ![c] = "Entering"]
    /\ seen' = [seen EXCEPT ![c] = word]
    /\ UNCHANGED <<word, waiter, drained>>

(* Closed, or as many inside as the count can hold. *)
Full(value) == value >= CLOSED - 1

Refuse(c) ==
    /\ place[c] = "Entering" /\ Full(seen[c])
    /\ place' = [place EXCEPT ![c] = "Outside"]
    /\ UNCHANGED <<word, seen, waiter, drained>>

(* Mutant: load and add without comparing. *)
ExchangeBlindly(c) ==
    /\ place[c] = "Entering" /\ ~Full(seen[c])
    /\ word' = word + 1
    /\ place' = [place EXCEPT ![c] = "Inside"]
    /\ UNCHANGED <<seen, waiter, drained>>

Exchange(c) ==
    /\ place[c] = "Entering" /\ ~Full(seen[c])
    /\ IF word = seen[c]
       THEN /\ word' = word + 1
            /\ place' = [place EXCEPT ![c] = "Inside"]
            /\ UNCHANGED seen
       ELSE seen' = [seen EXCEPT ![c] = word] /\ UNCHANGED <<word, place>>
    /\ UNCHANGED <<waiter, drained>>

(* Drop of an admission: subtract, and the last one out of a closed gate notifies. *)
Leave(c) ==
    /\ place[c] = "Inside"
    /\ word' = word - 1
    /\ place' = [place EXCEPT ![c] = IF word = CLOSED + 1 THEN "Notifying" ELSE "Outside"]
    /\ UNCHANGED <<seen, waiter, drained>>

(* The notification holds no mutex: it reaches an owner that is asleep, or nobody. *)
Notify(c) ==
    /\ place[c] = "Notifying"
    /\ place' = [place EXCEPT ![c] = "Outside"]
    /\ waiter' = IF waiter = "Asleep" THEN "Checking" ELSE waiter
    /\ UNCHANGED <<word, seen, drained>>

(* --- the owner --- *)

Open ==
    /\ waiter = "None"
    /\ word = CLOSED
    /\ word' = 0
    /\ drained' = FALSE
    /\ UNCHANGED <<place, seen, waiter>>

Close ==
    /\ waiter = "None"
    /\ word' = IF word < CLOSED THEN word + CLOSED ELSE word
    /\ UNCHANGED <<place, seen, waiter, drained>>

BeginWait ==
    /\ waiter = "None"
    /\ word >= CLOSED
    /\ waiter' = "Checking"
    /\ UNCHANGED <<word, place, seen, drained>>

(* The test of the loop; between a failed test and the sleep a notification is lost. *)
Check ==
    /\ waiter = "Checking"
    /\ IF word = CLOSED
       THEN waiter' = "None" /\ drained' = TRUE
       ELSE waiter' = "Drowsy" /\ UNCHANGED drained
    /\ UNCHANGED <<word, place, seen>>

FallAsleep ==
    /\ waiter = "Drowsy"
    /\ waiter' = "Asleep"
    /\ UNCHANGED <<word, place, seen, drained>>

(* Mutant: an untimed wait. *)
NeverTimesOut == FALSE /\ UNCHANGED gateVars

(* wait_timeout of 10 ms. *)
TimeOut ==
    /\ waiter = "Asleep"
    /\ waiter' = "Checking"
    /\ UNCHANGED <<word, place, seen, drained>>

CallbackStep(c) == LoadWord(c) \/ Refuse(c) \/ Exchange(c) \/ Leave(c) \/ Notify(c)
WaitStep == Check \/ FallAsleep \/ TimeOut

GateNext ==
    \/ \E c \in Callbacks : CallbackStep(c)
    \/ Open \/ Close \/ BeginWait \/ WaitStep

GateSpec == GateInit /\ [][GateNext]_gateVars

-----------------------------------------------------------------------------
(* Types; the word stays an unsigned number of its width. *)
GateTypeOK ==
    /\ word \in 0 .. 2 * CLOSED - 1
    /\ place \in [Callbacks -> CallbackPlaces]
    /\ seen \in [Callbacks -> 0 .. 2 * CLOSED - 1]
    /\ waiter \in WaiterPlaces
    /\ drained \in BOOLEAN

(* The low bits count exactly who is inside, at the limit of the count too: the    *)
(* closed bit is never reached by counting.                                        *)
WordCountsInside ==
    Cardinality(Inside) = IF word < CLOSED THEN word ELSE word - CLOSED

(* Once wait has returned nobody is inside, and nobody gets inside until open: an  *)
(* enter that read an open word before close must not succeed after the wait.      *)
DrainedIsEmpty == drained => Inside = {} /\ word = CLOSED

(* The word of the gate says exactly who is inside, and after wait nobody  *)
(* is, although enter, leave, close and wait are separate instructions.    *)
GateIsExact == GateTypeOK /\ WordCountsInside /\ DrainedIsEmpty
=============================================================================
