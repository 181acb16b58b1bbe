-------------------------- MODULE TwitchSessionOwner --------------------------
(* src/rust/src/application/twitch_session_owner.rs: the one session the       *)
(* process has, handed to one holder at a time.  The owner is locked for the   *)
(* length of each operation and never across a call to Twitch, so every       *)
(* operation is an operator on the pair of the owner and the saved record.     *)
(* A transaction's identity check is part of the "mismatch" answer: callers    *)
(* compare identities before they come back with a session.                    *)
EXTENDS TwitchApi

VARIABLES
  owner,  \* [active, pending, restorable, revision, next, stopping]
  saved   \* the session in the secret store, 0 when there is none

ownerVars == <<owner, saved>>

NewOwner ==
  [active |-> 0, pending |-> 0, restorable |-> FALSE, revision |-> 0, next |-> 1,
   stopping |-> FALSE]

(* The outcome of the storage calls one step makes: which of them succeed. *)
Storage == [store : BOOLEAN, erase : BOOLEAN]
AllStored == [store |-> TRUE, erase |-> TRUE]
StorageFaults(io) == Cardinality({part \in DOMAIN io : ~io[part]})

Idle(o) == ~o.stopping /\ o.pending = 0
Check(o, id) == ~o.stopping /\ o.pending = id

Start(o, restorable) ==
  [o EXCEPT !.active = 0, !.pending = o.next, !.restorable = restorable, !.next = @ + 1]

(* Mutant: a session that could not be saved is taken over all the same. *)
CommitFailsStale(w, id, io) == ~Check(w.owner, id)

CommitFails(w, id, io) == ~Check(w.owner, id) \/ ~io.store
Commit(w, id, gen, io) ==
  [w EXCEPT !.owner.active = gen, !.owner.pending = 0, !.owner.revision = @ + 1,
            !.saved = IF io.store THEN gen ELSE @]

PersistPending(w, id, gen, io) ==
  IF ~Check(w.owner, id) THEN w
  ELSE [w EXCEPT !.owner.restorable = FALSE, !.saved = IF io.store THEN gen ELSE @]
PersistFails(w, id, io) == ~Check(w.owner, id) \/ ~io.store

Restore(w, id, gen) ==
  IF ~Check(w.owner, id) \/ ~w.owner.restorable THEN w
  ELSE [w EXCEPT !.owner.active = gen, !.owner.pending = 0]

(* Mutant: a failed erasure leaves the transaction open. *)
DiscardHalf(w, id, erase, io) ==
  IF ~Check(w.owner, id) \/ (erase /\ ~io.erase) THEN w
  ELSE [w EXCEPT !.owner.active = 0, !.owner.pending = 0, !.saved = IF erase THEN 0 ELSE @]

Discard(w, id, erase, io) ==
  IF ~Check(w.owner, id) THEN w
  ELSE [w EXCEPT !.owner.active = 0, !.owner.pending = 0,
                 !.saved = IF erase /\ io.erase THEN 0 ELSE @]

EraseSaved(w, io) ==
  IF ~Idle(w.owner) THEN w
  ELSE [w EXCEPT !.owner.active = 0, !.saved = IF io.erase THEN 0 ELSE @]

OwnerShutdown(o) == [o EXCEPT !.stopping = TRUE, !.active = 0, !.pending = 0]

(* Someone else has the session out. *)
Updating(o) == ~o.stopping /\ o.pending # 0
=============================================================================
