---------------------------- MODULE LogDiscovery ----------------------------
(***************************************************************************)
(* The stability and deduplication policy of                               *)
(* src/rust/src/domain/log_discovery.rs.  A file is an identity: its path  *)
(* and the version (size and write time) it was seen with.  A file is      *)
(* accepted once it has been observed `required' times in a row with the   *)
(* same identity, and an accepted identity is not accepted again while it  *)
(* is among the last HistoryLimit ones.                                    *)
(***************************************************************************)
EXTENDS Integers, FiniteSets, Sequences, SequencesExt

CONSTANTS
  Paths,          \* canonical paths of candidates, numbered in their order
  Versions,       \* what a path can hold, as far as identities tell it apart
  PendingLimit,   \* paths under observation, 10,000 in the code
  HistoryLimit,   \* accepted identities remembered, 10,000 in the code
  Stability       \* values of the stability_observations setting

ASSUME DiscoveryAssumption ==
  /\ Paths \subseteq Nat /\ IsFiniteSet(Paths)
  /\ Versions \subseteq Nat \ {0}
  /\ {PendingLimit, HistoryLimit} \subseteq Nat \ {0}
  /\ Stability \subseteq Nat \ {0, 1}

VARIABLES
  required,   \* observations needed
  pending,    \* path -> version last seen and how often in a row; 0 times: not pending
  accepted,   \* accepted identities, oldest first
  known       \* the same identities as a set

discovery == <<required, pending, accepted, known>>

Identity == Paths \X Versions

NotPending == [version |-> 0, count |-> 0]

PendingPaths == {p \in Paths : pending[p].count > 0}

DiscoveryInit ==
  /\ required \in Stability
  /\ pending = [p \in Paths |-> NotPending]
  /\ accepted = <<>>
  /\ known = {}

Matches(file) ==
  IF pending[file[1]].count > 0 /\ pending[file[1]].version = file[2]
  THEN pending[file[1]].count + 1
  ELSE 1

Oldest == IF Len(accepted) = HistoryLimit THEN {Head(accepted)} ELSE {}

(* The oldest identity makes room when the list is full.                   *)
Remember(file) ==
  IF file \in known THEN UNCHANGED <<accepted, known>>
  ELSE /\ accepted' = Append(IF Oldest = {} THEN accepted ELSE Tail(accepted), file)
       /\ known' = (known \ Oldest) \cup {file}

(* observe, in its four outcomes.                                          *)
ObserveKnown(file) ==
  /\ file \in known
  /\ pending' = [pending EXCEPT ![file[1]] = NotPending]
  /\ UNCHANGED <<required, accepted, known>>

ObserveRefused(file) ==
  /\ file \notin known
  /\ file[1] \notin PendingPaths
  /\ Cardinality(PendingPaths) = PendingLimit
  /\ UNCHANGED discovery

Admissible(file) ==
  /\ file \notin known
  /\ file[1] \in PendingPaths \/ Cardinality(PendingPaths) < PendingLimit

ObserveUnstable(file) ==
  /\ Admissible(file)
  /\ Matches(file) < required
  /\ pending' = [pending EXCEPT ![file[1]] = [version |-> file[2], count |-> Matches(file)]]
  /\ UNCHANGED <<required, accepted, known>>

ObserveStable(file) ==
  /\ Admissible(file)
  /\ Matches(file) >= required
  /\ Remember(file)
  /\ pending' = [pending EXCEPT ![file[1]] = NotPending]
  /\ UNCHANGED required

(* What retain leaves of a list.                                           *)
Without(list, file) ==
  LET kept[i \in 0 .. Len(list)] ==
        IF i = 0 THEN <<>>
        ELSE IF list[i] = file THEN kept[i - 1] ELSE Append(kept[i - 1], list[i])
  IN  kept[Len(list)]

(* A file that is stable and then refused by the ingestion is taken back.  *)
ObserveAndRelease(file) ==
  /\ Admissible(file)
  /\ Matches(file) >= required
  /\ accepted' = Without(Append(IF Oldest = {} THEN accepted ELSE Tail(accepted), file), file)
  /\ known' = (known \ Oldest) \ {file}
  /\ pending' = [pending EXCEPT ![file[1]] = NotPending]
  /\ UNCHANGED required

ForgetPending(paths) ==
  /\ pending' = [p \in Paths |-> IF p \in paths THEN NotPending ELSE pending[p]]
  /\ UNCHANGED <<required, accepted, known>>

Cleared == [p \in Paths |-> NotPending]

DiscoveryTypeOK ==
  /\ required \in Stability
  /\ \A p \in Paths :
       \/ pending[p] = NotPending
       \/ pending[p].version \in Versions /\ pending[p].count \in 1..(required - 1)
  /\ accepted \in Seq(Identity) /\ Len(accepted) <= HistoryLimit
  /\ known = ToSet(accepted)
=============================================================================
