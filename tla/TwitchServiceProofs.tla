-------------------------- MODULE TwitchServiceProofs --------------------------
(***************************************************************************)
(* Machine-checked proofs about TwitchService: who has the one session of  *)
(* the process, and what it may become, for any number of chat threads and *)
(* report keys, any capacity of the queues and of the ledger, and any      *)
(* number of events and faults.                                            *)
(***************************************************************************)
EXTENDS TwitchService, SequenceTheorems, FiniteSetTheorems, TLAPS

(* The controller's own record, and the requests it has made.               *)
CtlType ==
  [state : States, tx : Nat, request : Nat, phase : Phases \cup {None}, gen : Nat,
   rotated : BOOLEAN, code : {None, "Held", "Sent"},
   deferred : Validations \cup {"Refresh", None}, schedule : Nat, next : Nat \ {0},
   shut : BOOLEAN]
OwnerType ==
  [active : Nat, pending : Nat, restorable : BOOLEAN, revision : Nat, next : Nat \ {0},
   stopping : BOOLEAN]
AuthOps == {"Start", "Poll", "Validate", "Refresh", "Revoke"}
Request == [id : Nat \ {0}, op : AuthOps, gen : Nat]
Outcomes == {"Ok", "Retry", "Reconnect", "Failed", "pending", "mismatch"}
Answered == [id : Nat \ {0}, op : AuthOps, gen : Nat, out : Outcomes, reply : Nat]
WorldType == [ctl : CtlType, owner : OwnerType, saved : Nat, inbox : Seq(Request)]

(* A chat thread has the session out.                                       *)
Lent(w) == w.owner.pending # 0 /\ w.ctl.tx = 0

(* Nothing of the session is left, in the process or in the store.          *)
Gone(w) == w.saved = 0 /\ w.owner.active = 0 /\ w.owner.pending = 0 /\ w.ctl.tx = 0

(* What holds of the controller, the owner and the record between any two   *)
(* operations.                                                              *)
WorldInv(w) ==
  /\ w \in WorldType
  /\ Len(w.inbox) <= AuthCapacity
  /\ w.owner.pending < w.owner.next
  /\ w.owner.pending # 0 => w.owner.active = 0
  /\ w.owner.stopping => w.owner.active = 0 /\ w.owner.pending = 0
  /\ w.ctl.tx # 0 => w.ctl.tx = w.owner.pending
  /\ w.ctl.tx = 0 => w.ctl.request = 0 /\ w.ctl.gen = 0 /\ w.ctl.code = None
                     /\ w.ctl.deferred = None
  /\ w.ctl.request # 0 <=> w.ctl.phase # None
  /\ w.ctl.request # 0 => w.ctl.gen = 0 /\ w.ctl.deferred = None
  /\ w.ctl.request < w.ctl.next
  /\ w.ctl.code # None => w.ctl.phase \in {None, "Poll"} /\ w.ctl.deferred = None
  /\ w.owner.active # 0 => w.saved = w.owner.active

(* The worker's queues: the request the controller waits for is at one place *)
(* only, and no other request concerns a session.                            *)
Sensitive == {"Validate", "Refresh", "Revoke"}
Current(c, r) ==
  /\ r.id < c.next
  /\ r.op \in Sensitive => r.id = c.request
  /\ r.id = c.request => r.op = PhaseOperation(c.phase)
AllCurrent(c, q) == \A i \in 1 .. Len(q) : Current(c, q[i])
Distinct(q) == \A i, j \in 1 .. Len(q) : q[i].id = q[j].id => i = j
Apart(q, id) == \A i \in 1 .. Len(q) : q[i].id # id
Called == [id : Nat \ {0}, op : AuthOps, gen : Nat, out : Outcomes \cup {None}, reply : Nat]
QueuesInv ==
  /\ (calling = NoCall \/ calling \in Called)
  /\ results \in Seq(Answered)
  /\ AllCurrent(ctl, inbox) /\ AllCurrent(ctl, results) /\ (calling.id # 0 => Current(ctl, calling))
  /\ Distinct(inbox) /\ Distinct(results)
  /\ Apart(inbox, calling.id) /\ Apart(results, calling.id)
  /\ \A i \in 1 .. Len(inbox) : Apart(results, inbox[i].id)

(* No generation is used that the service has not given out.                *)
GensInv ==
  /\ service \in [last : Nat, live : SUBSET Nat, refreshable : SUBSET Nat]
  /\ service.live \cup service.refreshable \subseteq 1 .. service.last
  /\ superseded \subseteq 1 .. service.last
  /\ saved \in Gens /\ owner.active \in Gens /\ ctl.gen \in Gens
  /\ \A i \in 1 .. Len(inbox) : inbox[i].gen \in Gens
  /\ calling.gen \in Gens /\ calling.reply \in Gens
  /\ \A i \in 1 .. Len(results) : results[i].gen \in Gens /\ results[i].reply \in Gens
  /\ \A t \in Threads : chat[t].gen \in Gens /\ chat[t].session \in Gens

(* Nothing whose replacement is known is on its way to becoming the session. *)
Refused == {"Retry", "Reconnect", "Failed"}
Usable(s, r) == r.op \in {"Validate", "Refresh"} => r.gen \notin s
UsableAnswer(s, id, r) ==
  /\ r.op = "Validate" => r.gen \notin s
  /\ r.op = "Refresh" /\ r.out \in Refused => r.gen \notin s
  /\ r.op \in {"Refresh", "Poll"} /\ r.out \notin Refused /\ r.id = id => r.reply \notin s
RotationInv ==
  /\ owner.active \notin superseded
  /\ ctl.deferred # None => ctl.gen \notin superseded
  /\ \A i \in 1 .. Len(inbox) : Usable(superseded, inbox[i])
  /\ calling.id # 0 => IF calling.out = None THEN Usable(superseded, calling)
                       ELSE UsableAnswer(superseded, ctl.request, calling)
  /\ \A i \in 1 .. Len(results) : UsableAnswer(superseded, ctl.request, results[i])
  /\ ~started => superseded = {} /\ owner.pending = 0 /\ owner.active = 0

(* The chat threads.                                                        *)
RecoverPlaces == {"Validate", "Validated", "Refresh", "Refreshed", "Revalidate", "Revalidated"}
ChatPlaces == {"Idle", "Acquire", "Send", "Sent", "Reacquire"} \cup RecoverPlaces
ChatType ==
  [pc : ChatPlaces, key : Keys \cup {TestKey}, attempt : {0, 1}, gen : Nat, rev : Nat, tx : Nat,
   session : Nat, out : Answers \cup Outcomes \cup {"None", "dropped"}]

Replacing(t) == chat[t].pc \in {"Revalidate", "Revalidated"}
Recovery(t) ==
  /\ chat[t].tx # 0 <=> chat[t].pc \in RecoverPlaces
  /\ ~owner.stopping /\ chat[t].tx # 0 =>
       /\ Lent(World) /\ chat[t].tx = owner.pending
       /\ ~Replacing(t) => owner.restorable /\ saved = chat[t].session
       /\ IF chat[t].pc = "Refreshed" /\ chat[t].out = "Ok"
          THEN chat[t].gen \notin superseded ELSE chat[t].session \notin superseded
RecoveryInv ==
  /\ chat \in [Threads -> ChatType]
  /\ \A t \in Threads : Recovery(t)
  /\ Lent(World) => \E t \in Threads : chat[t].tx = owner.pending
  /\ \A t, u \in Threads : chat[t].tx = owner.pending /\ chat[u].tx = owner.pending /\ owner.pending # 0
                           => t = u

SessionInv ==
  /\ WorldInv(World) /\ QueuesInv /\ GensInv /\ RotationInv /\ RecoveryInv
  /\ cut => Gone(World)
  /\ ctl.shut <=> owner.stopping
  /\ started \in BOOLEAN /\ cut \in BOOLEAN

(* The ledger.                                                               *)
Delivering(k) == {p \in Posters : chat[p].pc # "Idle" /\ chat[p].key = k}
MayHavePosted(p) == chat[p].pc = "Sent" /\ chat[p].out \in {"done"} \cup Unread
PostsInv ==
  /\ \A p \in Posters : chat[p].pc # "Idle" => chat[p].key \in Keys
  /\ ClaimsAreHeld
  /\ ledger \in [settled : Seq(Keys), active : SUBSET Keys]
  /\ Len(ledger.settled) <= LedgerCapacity
  /\ tally \in [Keys -> [posted : Nat, manual : Nat, forgotten : Nat]]
  /\ \A k \in Keys : tally[k].posted <= 1 + tally[k].manual + tally[k].forgotten
  /\ \A k \in Keys : k \notin ledger.active /\ ~Settled(k) =>
        tally[k].posted <= tally[k].manual + tally[k].forgotten
  /\ \A p \in Posters : chat[p].pc # "Idle" /\ ~MayHavePosted(p) =>
        tally[chat[p].key].posted <= tally[chat[p].key].manual + tally[chat[p].key].forgotten
------------------------------------------------------------------------------
(* Two records of the owner that differ in the session only. *)
SameBook(o, p) ==
  /\ o \in OwnerType
  /\ o.restorable = p.restorable /\ o.revision = p.revision /\ o.next = p.next /\ o.stopping = p.stopping

LEMMA DiscardFacts ==
  ASSUME NEW w \in WorldType, NEW id, Check(w.owner, id), NEW erase \in BOOLEAN, NEW io \in Storage
  PROVE  LET v == Discard(w, id, erase, io) IN
         /\ v \in WorldType
         /\ v.owner.active = 0 /\ v.owner.pending = 0 /\ SameBook(v.owner, w.owner)
         /\ v.saved \in {0, w.saved}
         /\ v.ctl = w.ctl /\ v.inbox = w.inbox
  <1> DEFINE v == Discard(w, id, erase, io)
             s == IF erase /\ io.erase THEN 0 ELSE w.saved
             u == [w EXCEPT !.owner.active = 0, !.owner.pending = 0, !.saved = s]
  <1>0. s \in {0, w.saved} /\ (erase /\ io.erase => s = 0) /\ s \in Nat
    BY DEF WorldType
  <1>1. v = u
    BY DEF Discard, WorldType
  <1> HIDE DEF s
  <1>2. u \in WorldType
    BY <1>0 DEF WorldType, OwnerType
  <1>3. u.owner.active = 0 /\ u.owner.pending = 0 /\ SameBook(u.owner, w.owner)
    BY DEF WorldType, OwnerType, SameBook
  <1>4. u.saved = s /\ u.ctl = w.ctl /\ u.inbox = w.inbox
    BY DEF WorldType
  <1> QED
    BY <1>0, <1>1, <1>2, <1>3, <1>4

(* The record is erased when the store works. *)
Erases(io) == io.erase

LEMMA DiscardErases ==
  ASSUME NEW w \in WorldType, NEW id, Check(w.owner, id), NEW io \in Storage, Erases(io)
  PROVE  Discard(w, id, TRUE, io).saved = 0
  BY DEF Discard, WorldType, Erases

Ended(w, state) == [w EXCEPT !.ctl = [Reset(@) EXCEPT !.tx = 0, !.state = state]]

LEMMA ClosedFlow ==
  ASSUME NEW w \in WorldType, NEW state \in States
  PROVE  LET v == Ended(w, state) IN
         /\ v \in WorldType
         /\ v.owner = w.owner /\ v.saved = w.saved /\ v.inbox = w.inbox
         /\ v.ctl.tx = 0 /\ v.ctl.next = w.ctl.next /\ v.ctl.shut = w.ctl.shut /\ v.ctl.request = 0
         /\ v.ctl.gen = 0 /\ v.ctl.state = state /\ v.ctl.code = None /\ v.ctl.deferred = None
         /\ v.ctl.phase = None
  <1> DEFINE c == [Reset(w.ctl) EXCEPT !.tx = 0, !.state = state]
             v == Ended(w, state)
  <1>0. w.ctl \in CtlType
    BY DEF WorldType
  <1>1. c \in CtlType
    BY <1>0 DEF CtlType, Reset
  <1>2. /\ c.tx = 0 /\ c.next = w.ctl.next /\ c.shut = w.ctl.shut /\ c.request = 0
        /\ c.gen = 0 /\ c.state = state /\ c.code = None /\ c.deferred = None /\ c.phase = None
    BY <1>0 DEF CtlType, Reset
  <1>3. v = [w EXCEPT !.ctl = c]
    BY DEF Ended
  <1> HIDE DEF c, v
  <1>4. v \in WorldType /\ v.ctl = c /\ v.owner = w.owner /\ v.saved = w.saved /\ v.inbox = w.inbox
    BY <1>1, <1>3 DEF WorldType
  <1> QED
    BY <1>2, <1>4 DEF v

LEMMA FailKeeps ==
  ASSUME NEW w, WorldInv(w), NEW erase \in BOOLEAN, NEW io \in Storage
  PROVE  LET v == Fail(w, erase, io) IN
         /\ WorldInv(v)
         /\ v.ctl.tx = 0 /\ v.ctl.request = 0 /\ v.ctl.gen = 0 /\ v.ctl.state = "Error"
         /\ SameBook(v.owner, w.owner)
         /\ IF w.ctl.tx = 0 THEN v.owner = w.owner /\ v.saved = w.saved
            ELSE v.owner.active = 0 /\ v.owner.pending = 0 /\ v.saved \in {0, w.saved}
         /\ v.inbox = w.inbox /\ v.ctl.next = w.ctl.next /\ v.ctl.shut = w.ctl.shut 
  <1> DEFINE d == IF w.ctl.tx = 0 THEN w ELSE Discard(w, w.ctl.tx, erase, io)
             v == Fail(w, erase, io)
  <1>0. w \in WorldType /\ w.ctl \in CtlType /\ w.owner \in OwnerType /\ w.saved \in Nat /\ w.inbox \in Seq(Request)
    BY DEF WorldInv, WorldType
  <1>1. w.ctl.tx # 0 => Check(w.owner, w.ctl.tx)
    BY <1>0 DEF WorldInv, Check, OwnerType, CtlType
  <1>2. /\ d \in WorldType /\ d.ctl = w.ctl /\ d.inbox = w.inbox /\ SameBook(d.owner, w.owner)
        /\ IF w.ctl.tx = 0 THEN d.owner = w.owner /\ d.saved = w.saved
            ELSE d.owner.active = 0 /\ d.owner.pending = 0 /\ d.saved \in {0, w.saved}
    BY <1>0, <1>1, DiscardFacts DEF SameBook
  <1>5. v = Ended(d, "Error")
    BY DEF Fail, Ended
  <1> HIDE DEF d, v
  <1>6. /\ v \in WorldType
        /\ v.owner = d.owner /\ v.saved = d.saved /\ v.inbox = d.inbox
        /\ v.ctl.tx = 0 /\ v.ctl.next = d.ctl.next /\ v.ctl.shut = d.ctl.shut /\ v.ctl.request = 0
        /\ v.ctl.gen = 0 /\ v.ctl.state = "Error" /\ v.ctl.code = None /\ v.ctl.deferred = None
        /\ v.ctl.phase = None
    BY <1>2, <1>5, ClosedFlow DEF States
  <1>7. w.owner.next \in Nat \ {0} /\ w.ctl.next \in Nat \ {0}
    BY <1>0 DEF OwnerType, CtlType
  <1>8. WorldInv(v)
    BY <1>0, <1>2, <1>6, <1>7 DEF WorldInv, SameBook
  <1> QED
    BY <1>2, <1>6, <1>8 DEF v

LEMMA EraseFacts ==
  ASSUME NEW w \in WorldType, NEW io \in Storage, w.owner.pending = 0
  PROVE  LET v == EraseSaved(w, io) IN
         /\ v \in WorldType /\ SameBook(v.owner, w.owner) /\ v.owner.pending = 0
         /\ v.saved \in {0, w.saved}
         /\ v.ctl = w.ctl /\ v.inbox = w.inbox
         /\ Idle(w.owner) => v.owner.active = 0 /\ (Erases(io) => v.saved = 0)
         /\ ~Idle(w.owner) => v.owner = w.owner /\ v.saved = w.saved
  <1> DEFINE v == EraseSaved(w, io)
             s == IF io.erase THEN 0 ELSE w.saved
             u == [w EXCEPT !.owner.active = 0, !.saved = s]
  <1>0. s \in {0, w.saved} /\ (Erases(io) => s = 0) /\ s \in Nat
    BY DEF WorldType, Erases
  <1>1. CASE Idle(w.owner)
    <2>1. v = u
      BY <1>1 DEF EraseSaved
    <2> HIDE DEF s
    <2>2. u \in WorldType
      BY <1>0 DEF WorldType, OwnerType
    <2>3. u.owner.active = 0 /\ u.owner.pending = 0 /\ SameBook(u.owner, w.owner)
      BY DEF WorldType, OwnerType, SameBook
    <2>4. u.saved = s /\ u.ctl = w.ctl /\ u.inbox = w.inbox
      BY DEF WorldType
    <2> QED
      BY <1>0, <1>1, <2>1, <2>2, <2>3, <2>4
  <1>2. CASE ~Idle(w.owner)
    <2>1. v = w
      BY <1>2 DEF EraseSaved
    <2> QED
      BY <1>2, <2>1 DEF SameBook, WorldType
  <1> QED
    BY <1>1, <1>2

LEMMA FinishFacts ==
  ASSUME NEW w, WorldInv(w), NEW io \in Storage
  PROVE  LET v == FinishDisconnect(w, io) IN
         /\ WorldInv(v)
         /\ v.ctl.tx = 0 /\ v.ctl.request = 0 /\ v.ctl.gen = 0 /\ v.ctl.state \in {"Disconnected", "Error"}
         /\ SameBook(v.owner, w.owner)
         /\ w.ctl.tx # 0 \/ Idle(w.owner) => v.owner.active = 0 /\ v.owner.pending = 0
         /\ v.owner = w.owner \/ (v.owner.active = 0 /\ v.owner.pending = 0 /\ ~Lent(w))
         /\ v.saved \in {0, w.saved} /\ (Lent(w) => v.saved = w.saved)
         /\ (w.ctl.tx # 0 \/ Idle(w.owner)) /\ v.ctl.state = "Disconnected" => v.saved = 0
         /\ v.inbox = w.inbox /\ v.ctl.next = w.ctl.next /\ v.ctl.shut = w.ctl.shut
  <1> DEFINE d == IF w.ctl.tx = 0 THEN EraseSaved(w, io) ELSE Discard(w, w.ctl.tx, TRUE, io)
             state == IF io.erase THEN "Disconnected" ELSE "Error"
             v == FinishDisconnect(w, io)
  <1>0. w \in WorldType /\ w.ctl \in CtlType /\ w.owner \in OwnerType /\ w.saved \in Nat /\ w.inbox \in Seq(Request)
    BY DEF WorldInv, WorldType
  <1>1. w.ctl.tx # 0 => Check(w.owner, w.ctl.tx)
    BY <1>0 DEF WorldInv, Check, OwnerType, CtlType
  <1>2. /\ d \in WorldType /\ d.ctl = w.ctl /\ d.inbox = w.inbox /\ SameBook(d.owner, w.owner)
        /\ w.ctl.tx # 0 \/ Idle(w.owner) => d.owner.active = 0 /\ d.owner.pending = 0 /\ (Erases(io) => d.saved = 0)
        /\ d.owner = w.owner \/ (d.owner.active = 0 /\ d.owner.pending = 0 /\ ~Lent(w))
        /\ d.saved \in {0, w.saved} /\ (d.owner.active # 0 => d.saved = w.saved)
        /\ Lent(w) => d.saved = w.saved
    <2>1. CASE w.ctl.tx # 0
      <3> DEFINE e == Discard(w, w.ctl.tx, TRUE, io)
      <3>1. /\ e \in WorldType
            /\ e.owner.active = 0 /\ e.owner.pending = 0 /\ SameBook(e.owner, w.owner)
            /\ e.saved \in {0, w.saved}
            /\ e.ctl = w.ctl /\ e.inbox = w.inbox
        BY <1>0, <1>1, <2>1, DiscardFacts
      <3>3. Erases(io) => e.saved = 0
        BY <1>0, <1>1, <2>1, DiscardErases
      <3>2. d = e
        BY <2>1
      <3> HIDE DEF d, e
      <3> QED
        BY <2>1, <3>1, <3>2, <3>3 DEF Lent
    <2>2. CASE w.ctl.tx = 0 /\ w.owner.pending = 0
      BY <1>0, <2>2, EraseFacts DEF Lent
    <2>3. CASE w.ctl.tx = 0 /\ w.owner.pending # 0
      <3>1. d = w
        BY <2>3 DEF EraseSaved, Idle
      <3> QED
        BY <1>0, <2>3, <3>1 DEF SameBook, Idle
    <2> QED
      BY <2>1, <2>2, <2>3
  <1>3. v = Ended(d, state)
    BY DEF FinishDisconnect, Ended
  <1>4. state \in States /\ state \in {"Disconnected", "Error"} /\ (state = "Disconnected" <=> Erases(io))
    BY DEF States, Erases
  <1> HIDE DEF d, v, state
  <1>6. /\ v \in WorldType
        /\ v.owner = d.owner /\ v.saved = d.saved /\ v.inbox = d.inbox
        /\ v.ctl.tx = 0 /\ v.ctl.next = d.ctl.next /\ v.ctl.shut = d.ctl.shut /\ v.ctl.request = 0
        /\ v.ctl.gen = 0 /\ v.ctl.state = state /\ v.ctl.code = None /\ v.ctl.deferred = None
        /\ v.ctl.phase = None
    BY <1>2, <1>3, <1>4, ClosedFlow
  <1>7. w.owner.next \in Nat \ {0} /\ w.ctl.next \in Nat \ {0}
    BY <1>0 DEF OwnerType, CtlType
  <1>8. WorldInv(v)
    BY <1>0, <1>2, <1>6, <1>7 DEF WorldInv, SameBook
  <1> QED
    BY <1>2, <1>4, <1>6, <1>8 DEF v

(* What a sequence of the controller's operations may do to the rest: g is a  *)
(* session it may take over, h the one a new request may be about.           *)
NewRequest(w, v, h) ==
  /\ v.ctl.request = w.ctl.next /\ v.ctl.next = w.ctl.next + 1
  /\ \E r \in Request : /\ v.inbox = Append(w.inbox, r)
                         /\ r.id = w.ctl.next /\ r.op = PhaseOperation(v.ctl.phase) /\ r.gen = h
SameQueue(w, v) ==
  /\ v.inbox = w.inbox /\ v.ctl.next = w.ctl.next
  /\ v.ctl.request = 0 \/ (v.ctl.request = w.ctl.request /\ v.ctl.phase = w.ctl.phase)
Outcome(w, v, g, h) ==
  /\ WorldInv(v)
  /\ v.owner.stopping = w.owner.stopping /\ v.ctl.shut = w.ctl.shut
  /\ IF Lent(w) THEN v.owner = w.owner /\ v.saved = w.saved /\ v.ctl.tx = 0 ELSE ~Lent(v)
  /\ v.owner.active \in {0, w.owner.active, g} /\ v.saved \in {0, w.saved, g}
  /\ v.ctl.gen \in {0, w.ctl.gen, h}
  /\ v.ctl.deferred # None => v.ctl.gen = h \/ (v.ctl.gen = w.ctl.gen /\ w.ctl.deferred # None)
  /\ SameQueue(w, v) \/ NewRequest(w, v, h)
  /\ v.ctl.state = "Disconnected" => w.ctl.state = "Disconnected" \/ Gone(v)

LEMMA FailOutcome ==
  ASSUME NEW w, WorldInv(w), NEW erase \in BOOLEAN, NEW io \in Storage, NEW g, NEW h
  PROVE  /\ Outcome(w, Fail(w, erase, io), g, h)
         /\ Fail(w, erase, io).ctl.state = "Error"
  <1> DEFINE v == Fail(w, erase, io)
  <1>1. /\ WorldInv(v)
        /\ v.ctl.tx = 0 /\ v.ctl.request = 0 /\ v.ctl.gen = 0 /\ v.ctl.state = "Error"
        /\ SameBook(v.owner, w.owner)
        /\ IF w.ctl.tx = 0 THEN v.owner = w.owner /\ v.saved = w.saved
            ELSE v.owner.active = 0 /\ v.owner.pending = 0 /\ v.saved \in {0, w.saved}
        /\ v.inbox = w.inbox /\ v.ctl.next = w.ctl.next /\ v.ctl.shut = w.ctl.shut
    BY FailKeeps
  <1> HIDE DEF v
  <1>2. v.ctl.deferred = None
    BY <1>1 DEF WorldInv
  <1>3. Outcome(w, v, g, h)
    BY <1>1, <1>2 DEF Outcome, Lent, SameQueue, SameBook
  <1> QED
    BY <1>1, <1>3 DEF v

LEMMA FinishOutcome ==
  ASSUME NEW w, WorldInv(w), NEW io \in Storage, w.ctl.tx # 0 \/ Idle(w.owner), NEW g, NEW h
  PROVE  Outcome(w, FinishDisconnect(w, io), g, h)
  <1> DEFINE v == FinishDisconnect(w, io)
  <1>1. /\ WorldInv(v)
        /\ v.ctl.tx = 0 /\ v.ctl.request = 0 /\ v.ctl.gen = 0
        /\ SameBook(v.owner, w.owner) /\ v.owner.active = 0 /\ v.owner.pending = 0
        /\ v.saved \in {0, w.saved}
        /\ v.ctl.state = "Disconnected" => v.saved = 0
        /\ v.inbox = w.inbox /\ v.ctl.next = w.ctl.next /\ v.ctl.shut = w.ctl.shut
    BY FinishFacts
  <1> HIDE DEF v
  <1>a. WorldInv(v) /\ v.ctl.tx = 0
    BY <1>1
  <1>2. v.ctl.deferred = None
    BY <1>a DEF WorldInv
  <1>3. ~Lent(w)
    BY DEF Lent, Idle
  <1>4. Outcome(w, v, g, h)
    BY <1>1, <1>2, <1>3 DEF Outcome, Lent, SameQueue, SameBook, Gone
  <1> QED
    BY <1>4 DEF v

LEMMA SetConnectedFacts ==
  ASSUME NEW w, WorldInv(w)
  PROVE  LET v == SetConnected(w) IN
         /\ WorldInv(v)
         /\ v.owner = w.owner /\ v.saved = w.saved /\ v.inbox = w.inbox
         /\ v.ctl.tx = w.ctl.tx /\ v.ctl.next = w.ctl.next /\ v.ctl.shut = w.ctl.shut
         /\ v.ctl.request = w.ctl.request /\ v.ctl.phase = w.ctl.phase
         /\ v.ctl.gen = 0 /\ v.ctl.deferred = None /\ v.ctl.state = "Connected"
  <1> DEFINE c == [w.ctl EXCEPT !.schedule = w.owner.revision, !.gen = 0, !.rotated = FALSE,
                                !.code = None, !.deferred = None, !.state = "Connected"]
             v == SetConnected(w)
  <1>0. w \in WorldType /\ w.ctl \in CtlType /\ w.owner.revision \in Nat
    BY DEF WorldInv, WorldType, OwnerType
  <1>1. c \in CtlType
    BY <1>0 DEF CtlType, States
  <1>2. /\ c.tx = w.ctl.tx /\ c.next = w.ctl.next /\ c.shut = w.ctl.shut /\ c.request = w.ctl.request
        /\ c.phase = w.ctl.phase /\ c.code = None
        /\ c.gen = 0 /\ c.deferred = None /\ c.state = "Connected"
    BY <1>0 DEF CtlType
  <1>3. v = [w EXCEPT !.ctl = c]
    BY <1>0 DEF SetConnected, WorldType
  <1> HIDE DEF c, v
  <1>4. v \in WorldType /\ v.ctl = c /\ v.owner = w.owner /\ v.saved = w.saved /\ v.inbox = w.inbox
    BY <1>0, <1>1, <1>3 DEF WorldType
  <1>5. WorldInv(v)
    BY <1>2, <1>4 DEF WorldInv
  <1> QED
    BY <1>2, <1>4, <1>5 DEF v

TakenOut(w, c, restorable) == [w EXCEPT !.ctl = c, !.owner = Start(w.owner, restorable)]

LEMMA TakeOutFacts ==
  ASSUME NEW w, WorldInv(w), w.ctl.tx = 0, Idle(w.owner), NEW restorable \in BOOLEAN,
         NEW c \in CtlType, c.tx = w.owner.next, c.next = w.ctl.next, c.shut = w.ctl.shut,
         c.request = w.ctl.request, c.phase = w.ctl.phase, c.code = w.ctl.code,
         c.deferred = w.ctl.deferred, c.state = w.ctl.state,
         NEW v, v = TakenOut(w, c, restorable)
  PROVE  /\ WorldInv(v)
         /\ v.ctl = c /\ v.ctl.tx # 0 /\ v.owner.pending = w.owner.next
         /\ v.owner.active = 0 /\ v.owner.stopping = w.owner.stopping
         /\ v.saved = w.saved /\ v.inbox = w.inbox
         /\ v.ctl.request = 0 /\ v.ctl.phase = None /\ v.ctl.deferred = None /\ v.ctl.code = None
  <1> DEFINE o == Start(w.owner, restorable)
  <1>0. w \in WorldType /\ w.ctl \in CtlType /\ w.owner \in OwnerType /\ w.owner.next \in Nat \ {0}
    BY DEF WorldInv, WorldType, OwnerType
  <1>3. o \in OwnerType
    <2> DEFINE p == w.owner
               nx == p.next + 1
    <2>1. p \in OwnerType /\ p.next \in Nat /\ nx \in Nat \ {0}
      BY <1>0
    <2>2. o = [p EXCEPT !.active = 0, !.pending = p.next, !.restorable = restorable, !.next = nx]
      BY <1>0 DEF Start, OwnerType
    <2> HIDE DEF p, nx, o
    <2> QED
      BY <2>1, <2>2 DEF OwnerType
  <1>4. o.active = 0 /\ o.pending = w.owner.next /\ o.next = w.owner.next + 1 /\ o.stopping = w.owner.stopping
    BY <1>0 DEF OwnerType, Start
  <1>5. v.ctl = c /\ v.owner = o /\ v.saved = w.saved /\ v.inbox = w.inbox /\ v \in WorldType
    <2>1. v = [w EXCEPT !.ctl = c, !.owner = o]
      BY DEF TakenOut
    <2> HIDE DEF o
    <2> QED
      BY <1>0, <1>3, <2>1 DEF WorldType
  <1> HIDE DEF o
  <1>6. w.ctl.request = 0 /\ w.ctl.code = None /\ w.ctl.deferred = None /\ w.ctl.phase = None
    BY DEF WorldInv
  <1>7. ~w.owner.stopping
    BY DEF Idle
  <1>8. w.ctl.next \in Nat \ {0} /\ w.owner.next \in Nat \ {0}
    BY <1>0 DEF CtlType
  <1>9. WorldInv(v)
    BY <1>4, <1>5, <1>6, <1>7, <1>8 DEF WorldInv
  <1> QED
    BY <1>4, <1>5, <1>6, <1>8, <1>9

LEMMA AdoptFacts ==
  ASSUME NEW w, WorldInv(w), w.ctl.tx = 0, Idle(w.owner), NEW gen \in Nat, NEW restorable \in BOOLEAN
  PROVE  LET v == Adopt(w, gen, restorable) IN
         /\ WorldInv(v)
         /\ v.ctl.tx = w.owner.next /\ v.ctl.tx # 0 /\ v.owner.pending = w.owner.next
         /\ v.owner.active = 0 /\ v.owner.stopping = w.owner.stopping
         /\ v.saved = w.saved /\ v.inbox = w.inbox /\ v.ctl.gen = gen
         /\ v.ctl.next = w.ctl.next /\ v.ctl.shut = w.ctl.shut
         /\ v.ctl.request = 0 /\ v.ctl.phase = None /\ v.ctl.deferred = None /\ v.ctl.code = None
         /\ v.ctl.state = w.ctl.state
  <1> DEFINE c == [w.ctl EXCEPT !.tx = w.owner.next, !.gen = gen, !.rotated = FALSE]
             v == Adopt(w, gen, restorable)
  <1>0. w \in WorldType /\ w.ctl \in CtlType /\ w.owner \in OwnerType /\ w.owner.next \in Nat \ {0}
    BY DEF WorldInv, WorldType, OwnerType
  <1>1. c \in CtlType
    BY <1>0 DEF CtlType
  <1>2. /\ c.tx = w.owner.next /\ c.next = w.ctl.next /\ c.shut = w.ctl.shut /\ c.request = w.ctl.request
        /\ c.phase = w.ctl.phase /\ c.code = w.ctl.code
        /\ c.gen = gen /\ c.deferred = w.ctl.deferred /\ c.state = w.ctl.state
    BY <1>0 DEF CtlType
  <1>3. v = TakenOut(w, c, restorable)
    BY <1>0 DEF Adopt, WorldType, TakenOut
  <1> HIDE DEF c, v
  <1>4. /\ WorldInv(v)
        /\ v.ctl = c /\ v.ctl.tx # 0 /\ v.owner.pending = w.owner.next
        /\ v.owner.active = 0 /\ v.owner.stopping = w.owner.stopping
        /\ v.saved = w.saved /\ v.inbox = w.inbox
        /\ v.ctl.request = 0 /\ v.ctl.phase = None /\ v.ctl.deferred = None /\ v.ctl.code = None
    BY <1>1, <1>2, <1>3, TakeOutFacts
  <1> QED
    BY <1>2, <1>4 DEF v

LEMMA DispatchFacts ==
  ASSUME NEW w, WorldInv(w), w.ctl.request = 0, w.ctl.tx # 0, w.ctl.deferred = None,
         NEW phase \in Phases, phase # "Poll" => w.ctl.code = None, NEW gen \in Nat, NEW io \in Storage,
         NEW g
  PROVE  LET v == Dispatch(w, phase, gen, io) IN
         /\ Outcome(w, v, g, gen)
         /\ v.ctl.phase \in {None, phase} /\ v.ctl.gen = 0 /\ v.ctl.deferred = None
         /\ v.owner.active \in {0, w.owner.active} /\ v.saved \in {0, w.saved}
         /\ \/ v.ctl.state = PhaseState(phase)
            \/ v.owner.active = 0 /\ v.owner.pending = 0 /\ v.ctl.tx = 0
  <1> DEFINE v == Dispatch(w, phase, gen, io)
  <1>0. w \in WorldType /\ w.ctl \in CtlType /\ w.owner \in OwnerType /\ w.inbox \in Seq(Request)
        /\ Len(w.inbox) \in Nat /\ w.ctl.next \in Nat \ {0} /\ w.ctl.rotated \in BOOLEAN
    BY DEF WorldInv, WorldType, CtlType
  <1>1. CASE Len(w.inbox) >= AuthCapacity /\ phase = "Revoke"
    <2>1. v = FinishDisconnect(w, io)
      BY <1>1 DEF Dispatch
    <2> DEFINE u == FinishDisconnect(w, io)
    <2>2. Outcome(w, u, g, gen)
      BY FinishOutcome
    <2>3. /\ WorldInv(u)
          /\ u.ctl.tx = 0 /\ u.ctl.request = 0 /\ u.ctl.gen = 0 /\ u.owner.active = 0 /\ u.owner.pending = 0
          /\ u.saved \in {0, w.saved}
      BY FinishFacts
    <2> HIDE DEF u, v
    <2>4. u.ctl.phase = None /\ u.ctl.deferred = None
      BY <2>3 DEF WorldInv
    <2> QED
      BY <2>1, <2>2, <2>3, <2>4 DEF u, v
  <1>2. CASE Len(w.inbox) >= AuthCapacity /\ phase # "Revoke"
    <2>1. v = Fail(w, w.ctl.rotated, io)
      BY <1>2 DEF Dispatch
    <2> DEFINE u == Fail(w, w.ctl.rotated, io)
    <2>2. Outcome(w, u, g, gen)
      BY <1>0, FailOutcome
    <2>3. /\ WorldInv(u)
          /\ u.ctl.tx = 0 /\ u.ctl.request = 0 /\ u.ctl.gen = 0 /\ u.owner.active = 0 /\ u.owner.pending = 0
          /\ u.saved \in {0, w.saved}
      BY <1>0, FailKeeps
    <2> HIDE DEF u, v
    <2>4. u.ctl.phase = None /\ u.ctl.deferred = None
      BY <2>3 DEF WorldInv
    <2> QED
      BY <2>1, <2>2, <2>3, <2>4 DEF u, v
  <1>3. CASE ~(Len(w.inbox) >= AuthCapacity)
    <2> DEFINE c == [w.ctl EXCEPT !.request = w.ctl.next, !.next = @ + 1, !.phase = phase,
                                  !.gen = 0, !.state = PhaseState(phase)]
               r == [id |-> w.ctl.next, op |-> PhaseOperation(phase), gen |-> gen]
               b == Append(w.inbox, r)
    <2>1. v = [w EXCEPT !.ctl = c, !.inbox = b]
      BY <1>0, <1>3 DEF Dispatch, WorldType
    <2>2. c \in CtlType
      <3>1. PhaseState(phase) \in States
        BY DEF PhaseState, States, Phases
      <3> DEFINE ps == PhaseState(phase)
      <3>2. ps \in States /\ c = [w.ctl EXCEPT !.request = w.ctl.next, !.next = @ + 1, !.phase = phase,
                                  !.gen = 0, !.state = ps]
        BY <3>1
      <3>3. w.ctl.next + 1 \in Nat \ {0} /\ w.ctl.next \in Nat
        BY <1>0
      <3> HIDE DEF ps, c
      <3> QED
        BY <1>0, <3>2, <3>3 DEF CtlType
    <2>3. /\ c.request = w.ctl.next /\ c.next = w.ctl.next + 1 /\ c.phase = phase /\ c.gen = 0
          /\ c.state = PhaseState(phase) /\ c.tx = w.ctl.tx /\ c.code = w.ctl.code
          /\ c.deferred = w.ctl.deferred /\ c.shut = w.ctl.shut
      BY <1>0 DEF CtlType
    <2>4. r \in Request /\ r.id = w.ctl.next /\ r.op = PhaseOperation(phase) /\ r.gen = gen
      BY <1>0 DEF Request, PhaseOperation, Phases, AuthOps, Validations
    <2> HIDE DEF r, c
    <2>5. b \in Seq(Request) /\ Len(b) = Len(w.inbox) + 1
      BY <1>0, <2>4, AppendProperties
    <2>6. b = Append(w.inbox, r)
      OBVIOUS
    <2> HIDE DEF b, v
    <2>7. v \in WorldType /\ v.ctl = c /\ v.owner = w.owner /\ v.saved = w.saved /\ v.inbox = b
      BY <1>0, <2>1, <2>2, <2>5 DEF WorldType
    <2>8. Len(b) <= AuthCapacity
      BY <1>0, <1>3, <2>5, AuthCapacityAssumption
    <2>9. phase # None
      BY DEF Phases, None
    <2>10. PhaseState(phase) # "Disconnected"
      BY DEF PhaseState
    <2>11. WorldInv(v)
      BY <1>0, <2>3, <2>7, <2>8, <2>9 DEF WorldInv
    <2>12. NewRequest(w, v, gen)
      BY <2>3, <2>4, <2>6, <2>7 DEF NewRequest
    <2>13. Outcome(w, v, g, gen)
      BY <2>3, <2>7, <2>10, <2>11, <2>12 DEF Outcome, Lent
    <2> QED
      BY <2>3, <2>7, <2>13 DEF v
  <1> QED
    BY <1>1, <1>2, <1>3

(* The world in which the answer of the current request is handled.         *)
Answering(w) ==
  /\ WorldInv(w) /\ w.ctl.tx # 0 /\ w.ctl.request = 0 /\ w.ctl.gen = 0 /\ w.ctl.deferred = None

(* What an answered request makes of the controller's own waiting list.     *)
Follows(w, v, g, h) == Outcome(w, v, g, h) /\ (v.ctl.deferred # None => v.ctl.gen = h)

LEMMA AcceptValidationFacts ==
  ASSUME NEW w, Answering(w), w.ctl.code = None, NEW gen \in Nat, NEW io \in Storage, NEW h
  PROVE  Follows(w, AcceptValidation(w, gen, io), gen, h)
  <1> DEFINE v == AcceptValidation(w, gen, io)
  <1>0. /\ WorldInv(w) /\ w \in WorldType /\ w.ctl \in CtlType /\ w.owner \in OwnerType
        /\ w.ctl.rotated \in BOOLEAN /\ w.inbox \in Seq(Request)
    BY DEF Answering, WorldInv, WorldType, CtlType
  <1>1. CASE CommitFails(w, w.ctl.tx, io)
    <2>1. v = Fail(w, w.ctl.rotated, io)
      BY <1>1 DEF AcceptValidation
    <2> DEFINE u == Fail(w, w.ctl.rotated, io)
    <2>2. Outcome(w, u, gen, h)
      BY <1>0, FailOutcome
    <2>3. WorldInv(u) /\ u.ctl.tx = 0
      BY <1>0, FailKeeps
    <2> HIDE DEF u, v
    <2>4. u.ctl.deferred = None
      BY <2>3 DEF WorldInv
    <2> QED
      BY <2>1, <2>2, <2>4 DEF u, v, Follows
  <1>2. CASE ~CommitFails(w, w.ctl.tx, io)
    <2> DEFINE c == [w.ctl EXCEPT !.tx = 0]
               nr == w.owner.revision + 1
               o == [w.owner EXCEPT !.active = gen, !.pending = 0, !.revision = nr]
               m == Commit(w, w.ctl.tx, gen, io)
               u == [m EXCEPT !.ctl.tx = 0]
    <2>1. v = SetConnected(u)
      BY <1>2 DEF AcceptValidation
    <2>2. nr \in Nat
      BY <1>0 DEF OwnerType
    <2>3. io.store /\ ~w.owner.stopping
      BY <1>2 DEF CommitFails, Check
    <2>4. m = [w EXCEPT !.owner = o, !.saved = gen]
      BY <1>0, <2>3 DEF Commit, WorldType
    <2>5. u = [w EXCEPT !.owner = o, !.saved = gen, !.ctl = c]
      BY <1>0, <2>4 DEF WorldType
    <2>6. c \in CtlType
      BY <1>0 DEF CtlType
    <2>7. /\ c.tx = 0 /\ c.request = w.ctl.request /\ c.next = w.ctl.next /\ c.phase = w.ctl.phase
          /\ c.gen = w.ctl.gen /\ c.code = w.ctl.code /\ c.deferred = w.ctl.deferred
          /\ c.shut = w.ctl.shut /\ c.next \in Nat \ {0}
      BY <1>0 DEF CtlType
    <2> HIDE DEF c, nr
    <2>8. o \in OwnerType /\ o.active = gen /\ o.pending = 0 /\ o.stopping = w.owner.stopping
          /\ o.next = w.owner.next /\ o.next \in Nat \ {0}
      BY <1>0, <2>2 DEF OwnerType
    <2> HIDE DEF o, m, u, v
    <2>9. u \in WorldType /\ u.ctl = c /\ u.owner = o /\ u.saved = gen /\ u.inbox = w.inbox
      BY <1>0, <2>5, <2>6, <2>8 DEF WorldType
    <2>10. WorldInv(u)
      BY <2>3, <2>7, <2>8, <2>9 DEF WorldInv, Answering
    <2>11. /\ WorldInv(v)
           /\ v.owner = u.owner /\ v.saved = u.saved /\ v.inbox = u.inbox
           /\ v.ctl.tx = u.ctl.tx /\ v.ctl.next = u.ctl.next /\ v.ctl.shut = u.ctl.shut
           /\ v.ctl.request = u.ctl.request /\ v.ctl.phase = u.ctl.phase
           /\ v.ctl.gen = 0 /\ v.ctl.deferred = None /\ v.ctl.state = "Connected"
      BY <2>1, <2>10, SetConnectedFacts
    <2>12. w.ctl.tx # 0 /\ w.ctl.request = 0
      BY DEF Answering
    <2>13. SameQueue(w, v)
      BY <2>7, <2>9, <2>11, <2>12 DEF SameQueue
    <2> QED
      BY <2>7, <2>8, <2>9, <2>11, <2>12, <2>13 DEF Outcome, Follows, Lent, v
  <1> QED
    BY <1>1, <1>2

LEMMA DispatchAnswer ==
  ASSUME NEW w, Answering(w), NEW phase \in Phases, phase # "Poll" => w.ctl.code = None,
         NEW gen \in Nat, NEW io \in Storage, NEW g
  PROVE  Follows(w, Dispatch(w, phase, gen, io), g, gen)
  BY DispatchFacts DEF Answering, Follows

LEMMA FailAnswer ==
  ASSUME NEW w, Answering(w), NEW erase \in BOOLEAN, NEW io \in Storage, NEW g, NEW h
  PROVE  Follows(w, Fail(w, erase, io), g, h)
  <1> DEFINE u == Fail(w, erase, io)
  <1>1. WorldInv(w)
    BY DEF Answering
  <1>2. Outcome(w, u, g, h)
    BY <1>1, FailOutcome
  <1>3. WorldInv(u) /\ u.ctl.tx = 0
    BY <1>1, FailKeeps
  <1> HIDE DEF u
  <1>4. u.ctl.deferred = None
    BY <1>3 DEF WorldInv
  <1> QED
    BY <1>2, <1>4 DEF u, Follows

LEMMA FinishAnswer ==
  ASSUME NEW w, Answering(w), NEW io \in Storage, NEW g, NEW h
  PROVE  Follows(w, FinishDisconnect(w, io), g, h)
  <1> DEFINE u == FinishDisconnect(w, io)
  <1>1. WorldInv(w) /\ w.ctl.tx # 0
    BY DEF Answering
  <1>2. Outcome(w, u, g, h)
    BY <1>1, FinishOutcome
  <1>3. WorldInv(u) /\ u.ctl.tx = 0
    BY <1>1, FinishFacts
  <1> HIDE DEF u
  <1>4. u.ctl.deferred = None
    BY <1>3 DEF WorldInv
  <1> QED
    BY <1>2, <1>4 DEF u, Follows

(* Following a step that touches only the record and the controller.        *)
LEMMA AcceptRotationFacts ==
  ASSUME NEW w, Answering(w), w.ctl.code = None, NEW gen \in Nat, NEW io \in Storage
  PROVE  Follows(w, AcceptRotation(w, gen, io), gen, gen)
  <1> DEFINE c == [w.ctl EXCEPT !.rotated = TRUE]
             r == [w EXCEPT !.ctl.rotated = TRUE]
             p == PersistPending(r, w.ctl.tx, gen, io)
             v == AcceptRotation(w, gen, io)
  <1>0. /\ WorldInv(w) /\ w \in WorldType /\ w.ctl \in CtlType /\ w.owner \in OwnerType
        /\ w.inbox \in Seq(Request) /\ w.saved \in Nat
    BY DEF Answering, WorldInv, WorldType, CtlType
  <1>1. c \in CtlType
    BY <1>0 DEF CtlType
  <1>2. /\ c.tx = w.ctl.tx /\ c.request = w.ctl.request /\ c.next = w.ctl.next /\ c.phase = w.ctl.phase
        /\ c.gen = w.ctl.gen /\ c.code = w.ctl.code /\ c.deferred = w.ctl.deferred
        /\ c.shut = w.ctl.shut /\ c.state = w.ctl.state
    BY <1>0 DEF CtlType
  <1>3. r = [w EXCEPT !.ctl = c]
    BY <1>0 DEF WorldType
  <1>a. v = (IF PersistFails(r, w.ctl.tx, io) THEN Fail(p, TRUE, io) ELSE Dispatch(p, "ValidateRotated", gen, io))
    BY <1>0, <1>2, <1>3 DEF AcceptRotation, WorldType
  <1> HIDE DEF c, r
  <1>4. r \in WorldType /\ r.ctl = c /\ r.owner = w.owner /\ r.saved = w.saved /\ r.inbox = w.inbox
    BY <1>0, <1>1, <1>3 DEF WorldType
  <1>5. /\ p \in WorldType /\ p.ctl = c /\ p.inbox = w.inbox /\ p.saved \in {w.saved, gen}
        /\ p.owner.active = w.owner.active /\ p.owner.pending = w.owner.pending
        /\ p.owner.next = w.owner.next /\ p.owner.stopping = w.owner.stopping
    <2>1. CASE ~Check(r.owner, w.ctl.tx)
      <3>1. p = r
        BY <2>1 DEF PersistPending
      <3> QED
        BY <1>4, <3>1
    <2>2. CASE Check(r.owner, w.ctl.tx)
      <3> DEFINE o == [w.owner EXCEPT !.restorable = FALSE]
                 s == IF io.store THEN gen ELSE w.saved
      <3>1. p = [r EXCEPT !.owner = o, !.saved = s]
        BY <1>4, <2>2 DEF PersistPending, WorldType
      <3>2. /\ o \in OwnerType /\ o.active = w.owner.active /\ o.pending = w.owner.pending
            /\ o.next = w.owner.next /\ o.stopping = w.owner.stopping
        BY <1>0 DEF OwnerType
      <3>3. s \in {w.saved, gen} /\ s \in Nat
        BY <1>0
      <3> HIDE DEF o, s, p
      <3>4. p \in WorldType /\ p.ctl = r.ctl /\ p.inbox = r.inbox /\ p.owner = o /\ p.saved = s
        BY <1>4, <3>1, <3>2, <3>3 DEF WorldType
      <3> QED
        BY <1>4, <3>2, <3>3, <3>4
    <2> QED
      BY <2>1, <2>2
  <1> HIDE DEF p
  <1>6. w.owner.active = 0
    BY <1>0 DEF Answering, WorldInv
  <1>7. Answering(p) /\ p.ctl.code = None
    BY <1>2, <1>5, <1>6 DEF Answering, WorldInv
  <1>8. \A u, g : Follows(p, u, g, gen) /\ g = gen => Follows(w, u, gen, gen)
    <2> SUFFICES ASSUME NEW u, Follows(p, u, gen, gen) PROVE Follows(w, u, gen, gen)
      OBVIOUS
    <2>1. ~Lent(w) /\ ~Lent(p)
      BY <1>2, <1>5 DEF Lent, Answering
    <2>2. SameQueue(p, u) => SameQueue(w, u)
      BY <1>2, <1>5 DEF SameQueue
    <2>3. NewRequest(p, u, gen) => NewRequest(w, u, gen)
      BY <1>2, <1>5 DEF NewRequest
    <2> QED
      BY <1>2, <1>5, <2>1, <2>2, <2>3 DEF Follows, Outcome
  <1>9. CASE PersistFails(r, w.ctl.tx, io)
    <2> DEFINE b == TRUE
    <2>1. b \in BOOLEAN /\ v = Fail(p, b, io)
      BY <1>9, <1>a
    <2> HIDE DEF b, v
    <2>2. Follows(p, v, gen, gen)
      BY <1>7, <2>1, FailAnswer
    <2> QED
      BY <1>8, <2>2 DEF v
  <1>10. CASE ~PersistFails(r, w.ctl.tx, io)
    <2> DEFINE ph == "ValidateRotated"
    <2>1. ph \in Phases /\ v = Dispatch(p, ph, gen, io)
      BY <1>10, <1>a DEF Phases
    <2> HIDE DEF ph, v
    <2>2. Follows(p, v, gen, gen)
      BY <1>7, <2>1, DispatchAnswer
    <2> QED
      BY <1>8, <2>2 DEF v
  <1> QED
    BY <1>9, <1>10

(* The bound on the posts of one key, with and without room for one more.   *)
Room(k) == tally[k].posted <= tally[k].manual + tally[k].forgotten

LEMMA GoPosts ==
  ASSUME PostsInv, NEW t \in Threads, NEW step, chat \in [Threads -> ChatType],
         chat[t].pc # "Idle", step.pc # "Idle", step.key = chat[t].key,
         MayHavePosted(t) => step.pc = "Sent" /\ step.out = chat[t].out,
         Go(t, step)
  PROVE  PostsInv'
  <1>1. chat' = [chat EXCEPT ![t] = step] /\ UNCHANGED <<ledger, tally>>
    BY DEF Go
  <1>2. \A p \in Posters : p \in Threads
    BY DEF Threads
  <1>3. \A p \in Posters : /\ chat'[p].pc # "Idle" <=> chat[p].pc # "Idle"
                           /\ chat'[p].key = chat[p].key
                           /\ MayHavePosted(p) => MayHavePosted(p)'
    <2> TAKE p \in Posters
    <2>1. CASE p = t
      BY <1>1, <2>1 DEF MayHavePosted, Unread
    <2>2. CASE p # t
      BY <1>1, <1>2, <2>2 DEF MayHavePosted, Unread
    <2> QED
      BY <2>1, <2>2
  <1>4. ClaimsAreHeld'
    <2>1. ClaimsAreHeld
      BY DEF PostsInv
    <2>2. \A p \in Posters : (chat'[p].pc # "Idle" <=> chat[p].pc # "Idle") /\ chat'[p].key = chat[p].key
      BY <1>3
    <2>3. ledger' = ledger
      BY <1>1
    <2> QED
      BY <2>1, <2>2, <2>3 DEF ClaimsAreHeld
  <1>5. \A k : Settled(k)' <=> Settled(k)
    BY <1>1 DEF Settled
  <1>6. \A p \in Posters : chat'[p].pc # "Idle" => chat'[p].key \in Keys
    <2>1. \A p \in Posters : chat[p].pc # "Idle" => chat[p].key \in Keys
      BY DEF PostsInv
    <2> QED
      BY <1>3, <2>1
  <1>7. \A p \in Posters : chat'[p].pc # "Idle" /\ ~MayHavePosted(p)' =>
           tally'[chat'[p].key].posted <= tally'[chat'[p].key].manual + tally'[chat'[p].key].forgotten
    BY <1>1, <1>3 DEF PostsInv
  <1> QED
    BY <1>1, <1>4, <1>5, <1>6, <1>7 DEF PostsInv

LEMMA FinishPosts ==
  ASSUME PostsInv, NEW t \in Threads, NEW result, chat \in [Threads -> ChatType],
         chat[t].pc # "Idle", Remembered(result) \/ ~MayHavePosted(t),
         Finish(t, result)
  PROVE  PostsInv'
  <1>1. chat' = [chat EXCEPT ![t] = Resting]
    BY DEF Finish
  <1>2. \A p \in Posters : p \in Threads
    BY DEF Threads
  <1>3. \A p \in Threads : p # t => chat'[p] = chat[p]
    BY <1>1
  <1>4. chat'[t].pc = "Idle"
    BY <1>1 DEF Resting
  <1>5. CASE t = Tester
    <2>1. UNCHANGED <<ledger, tally>>
      BY <1>5 DEF Finish
    <2>2. \A p \in Posters : chat'[p] = chat[p]
      BY <1>2, <1>3, <1>5, TwitchChatConstants
    <2>3. ClaimsAreHeld'
      <3>1. ClaimsAreHeld
        BY DEF PostsInv
      <3>2. \A p \in Posters : chat'[p].pc = chat[p].pc /\ chat'[p].key = chat[p].key
        BY <2>2
      <3> QED
        BY <2>1, <3>1, <3>2 DEF ClaimsAreHeld
    <2>4. \A k : Settled(k)' <=> Settled(k)
      BY <2>1 DEF Settled
    <2>5. \A p \in Posters : MayHavePosted(p)' <=> MayHavePosted(p)
      BY <2>2 DEF MayHavePosted
    <2> QED
      BY <2>1, <2>2, <2>3, <2>4, <2>5 DEF PostsInv
  <1>6. CASE t # Tester
    <2> DEFINE k == chat[t].key
               new == LedgerFinish(k, result)
               kept(j) == \E i \in DOMAIN new.settled : new.settled[i] = j
               gone == {j \in Keys : Settled(j) /\ ~kept(j)}
    <2>0. t \in Posters /\ k \in Keys
      BY <1>6 DEF Threads, PostsInv
    <2>1. ledger' = new /\ tally' = [j \in Keys |->
                             [tally[j] EXCEPT !.forgotten = @ + IF j \in gone THEN 1 ELSE 0]]
      BY <1>6 DEF Finish
    <2>2. ledger \in [settled : Seq(Keys), active : SUBSET Keys] /\ Len(ledger.settled) <= LedgerCapacity
          /\ LedgerCapacity \in Nat \ {0}
      BY TwitchChatConstants DEF PostsInv
    <2>3. /\ new.active = ledger.active \ {k} /\ new.settled \in Seq(Keys)
          /\ Len(new.settled) <= LedgerCapacity
          /\ Remembered(result) => kept(k)
          /\ new = [settled |-> new.settled, active |-> new.active]
      <3> DEFINE s == ledger.settled
                 a == Append(s, k)
                 b == Append(Tail(s), k)
                 n == Len(s)
      <3>1. s \in Seq(Keys) /\ n \in Nat /\ n <= LedgerCapacity
        BY <2>2
      <3>2. a \in Seq(Keys) /\ Len(a) = n + 1 /\ a[n + 1] = k
        BY <2>0, <3>1, AppendProperties
      <3>3. n # 0 => Tail(s) \in Seq(Keys) /\ Len(Tail(s)) = n - 1
        BY <3>1, HeadTailProperties, EmptySeq
      <3>4. n # 0 => b \in Seq(Keys) /\ Len(b) = n /\ b[n] = k
        <4> DEFINE q == Tail(s)
                   m == Len(q)
        <4>1. SUFFICES ASSUME n # 0 PROVE b \in Seq(Keys) /\ Len(b) = n /\ b[n] = k
          OBVIOUS
        <4>2. q \in Seq(Keys) /\ m = n - 1
          BY <3>3, <4>1
        <4>3. Append(q, k) \in Seq(Keys) /\ Len(Append(q, k)) = m + 1 /\ Append(q, k)[m + 1] = k
          BY <2>0, <4>2, AppendProperties
        <4> HIDE DEF n, m
        <4> QED
          BY <3>1, <4>1, <4>2, <4>3
      <3>5. new.active = ledger.active \ {k} /\ new = [settled |-> new.settled, active |-> new.active]
        BY DEF LedgerFinish
      <3>6. /\ ~Remembered(result) \/ Settled(k) => new.settled = s
            /\ Remembered(result) /\ ~Settled(k) /\ n = LedgerCapacity => new.settled = b
            /\ Remembered(result) /\ ~Settled(k) /\ n # LedgerCapacity => new.settled = a
        BY DEF LedgerFinish
      <3> DEFINE ns == new.settled
      <3>9. DOMAIN a = 1 .. n + 1 /\ (n # 0 => DOMAIN b = 1 .. n)
        <4> HIDE DEF a, b, n
        <4> QED BY <3>1, <3>2, <3>4
      <3>10. Settled(k) <=> \E i \in DOMAIN s : s[i] = k
        BY DEF Settled
      <3>12. Remembered(result) \in BOOLEAN /\ Settled(k) \in BOOLEAN
        BY DEF Remembered, Settled
      <3> HIDE DEF new, s, a, b, n
      <3>7. CASE ~Remembered(result) \/ Settled(k)
        <4>1. ns = s
          BY <3>6, <3>7, <3>12
        <4> QED
          BY <3>1, <3>5, <3>7, <3>10, <4>1 DEF n
      <3>8. CASE ~(~Remembered(result) \/ Settled(k)) /\ n = LedgerCapacity
        <4>1. ns = b /\ n # 0 /\ n \in Nat \ {0} /\ n \in 1 .. n
          BY <2>2, <3>1, <3>6, <3>8
        <4> QED
          BY <3>1, <3>4, <3>5, <3>9, <4>1
      <3>11. CASE ~(~Remembered(result) \/ Settled(k)) /\ n # LedgerCapacity
        <4>1. ns = a /\ n + 1 \in 1 .. n + 1 /\ n + 1 <= LedgerCapacity
          BY <2>2, <3>1, <3>6, <3>11
        <4> QED
          BY <3>1, <3>2, <3>5, <3>9, <4>1
      <3> QED
        BY <3>7, <3>8, <3>11
    <2>4. \A j : Settled(j)' <=> kept(j)
      BY <2>1 DEF Settled
    <2>5. tally \in [Keys -> [posted : Nat, manual : Nat, forgotten : Nat]]
      BY DEF PostsInv
    <2>6. gone = {j \in Keys : Settled(j) /\ ~Settled(j)'}
      BY <2>4
    <2> HIDE DEF gone
    <2>7. \A j \in Keys : /\ tally'[j].posted = tally[j].posted /\ tally'[j].manual = tally[j].manual
                          /\ tally'[j].forgotten = tally[j].forgotten + (IF j \in gone THEN 1 ELSE 0)
                          /\ tally'[j] \in [posted : Nat, manual : Nat, forgotten : Nat]
      BY <2>1, <2>5
    <2>8. tally' \in [Keys -> [posted : Nat, manual : Nat, forgotten : Nat]]
      BY <2>1, <2>7
    <2> HIDE DEF new, kept
    <2>9. ClaimsAreHeld'
      <3>1. ledger'.active = ledger.active \ {k}
        BY <2>1, <2>3
      <3>2. ClaimsAreHeld
        BY DEF PostsInv
      <3>3. \A p \in Posters : p # t => chat'[p].pc = chat[p].pc /\ chat'[p].key = chat[p].key
        BY <1>2, <1>3
      <3>4. \A p \in Posters : p # t /\ chat[p].pc # "Idle" => chat[p].key # k
        BY <2>0, <3>2 DEF ClaimsAreHeld
      <3>5. ledger.active = {chat[u].key : u \in {p \in Posters : chat[p].pc # "Idle"}}
        BY <3>2 DEF ClaimsAreHeld
      <3>6. ledger'.active = {chat'[u].key : u \in {p \in Posters : chat'[p].pc # "Idle"}}
        <4> DEFINE S == {p \in Posters : chat[p].pc # "Idle"}
                   R == {p \in Posters : chat'[p].pc # "Idle"}
        <4>1. S = R \cup {t} /\ t \notin R
          BY <1>4, <2>0, <3>3
        <4>2. \A p \in R : chat'[p].key = chat[p].key /\ chat[p].key # k
          BY <3>3, <3>4, <4>1
        <4> HIDE DEF S, R
        <4> QED
          BY <3>1, <3>5, <4>1, <4>2 DEF S, R
      <3>7. \A p, q \in Posters : p # q /\ chat'[p].pc # "Idle" /\ chat'[q].pc # "Idle"
                                  => chat'[p].key # chat'[q].key
        BY <1>4, <3>2, <3>3 DEF ClaimsAreHeld
      <3> QED
        BY <3>6, <3>7 DEF ClaimsAreHeld
    <2>10. \A j \in Keys : tally'[j].posted <= 1 + tally'[j].manual + tally'[j].forgotten
      <3> TAKE j \in Keys
      <3>1. tally[j].posted <= 1 + tally[j].manual + tally[j].forgotten
        BY DEF PostsInv
      <3> QED
        BY <2>5, <2>7, <3>1
    <2>11. \A j \in Keys : Room(j) => Room(j)'
      BY <2>5, <2>7 DEF Room
    <2>12. \A j \in Keys : j \notin ledger'.active /\ ~Settled(j)' => Room(j)'
      <3> TAKE j \in Keys
      <3> HAVE j \notin ledger'.active /\ ~Settled(j)'
      <3>1. CASE j = k
        <4>1. ~MayHavePosted(t)
          BY <2>3, <2>4, <3>1
        <4>2. Room(j)
          BY <2>0, <3>1, <4>1 DEF PostsInv, Room
        <4> QED
          BY <2>11, <4>2
      <3>2. CASE j # k /\ ~Settled(j)
        <4>1. j \notin ledger.active
          BY <2>1, <2>3, <3>2
        <4>2. Room(j)
          BY <3>2, <4>1 DEF PostsInv, Room
        <4> QED
          BY <2>11, <4>2
      <3>3. CASE j # k /\ Settled(j)
        <4>1. j \in gone
          BY <2>6, <3>3
        <4>2. tally[j].posted <= 1 + tally[j].manual + tally[j].forgotten
          BY DEF PostsInv
        <4> QED
          BY <2>5, <2>7, <4>1, <4>2 DEF Room
      <3> QED
        BY <3>1, <3>2, <3>3
    <2>13. \A p \in Posters : chat'[p].pc # "Idle" => chat'[p].key \in Keys
      BY <1>2, <1>3, <1>4 DEF PostsInv
    <2>14. \A p \in Posters : chat'[p].pc # "Idle" /\ ~MayHavePosted(p)' => Room(chat[p].key)'
      <3> TAKE p \in Posters
      <3> HAVE chat'[p].pc # "Idle" /\ ~MayHavePosted(p)'
      <3>1. p # t /\ chat'[p] = chat[p]
        BY <1>2, <1>3, <1>4
      <3>2. Room(chat[p].key) /\ chat[p].key \in Keys
        BY <3>1 DEF PostsInv, Room, MayHavePosted
      <3>3. Room(chat[p].key)'
        BY <2>11, <3>1, <3>2 DEF Room
      <3> QED
        BY <3>1, <3>3 DEF Room
    <2>15. ledger' \in [settled : Seq(Keys), active : SUBSET Keys] /\ Len(ledger'.settled) <= LedgerCapacity
      BY <2>1, <2>2, <2>3
    <2> QED
      BY <2>8, <2>9, <2>10, <2>12, <2>13, <2>14, <2>15 DEF PostsInv, Room
  <1> QED
    BY <1>5, <1>6

LEMMA SendPosts ==
  ASSUME PostsInv, NEW t \in Threads, chat \in [Threads -> ChatType], Send(t), ~stop
  PROVE  PostsInv'
  <1>a. PICK answer \in Answers \cup {"dropped"}, delivered \in BOOLEAN :
          /\ CallSendChat(chat[t].gen, answer, delivered)
          /\ chat' = [chat EXCEPT ![t].pc = "Sent", ![t].out = answer]
          /\ tally' = IF t # Tester /\ delivered
                      THEN [tally EXCEPT ![chat[t].key].posted = @ + 1] ELSE tally
          /\ UNCHANGED <<ledger, test>>
    BY DEF Send
  <1>b. ledger' = ledger /\ chat[t].pc = "Send"
    BY <1>a DEF Send
  <1>0. delivered => answer \in {"done"} \cup Unread
    BY <1>a DEF CallSendChat
  <1>2. \A p \in Posters : p \in Threads
    BY DEF Threads
  <1>3. /\ \A p \in Posters : p # t => chat'[p] = chat[p]
        /\ chat'[t].pc = "Sent" /\ chat'[t].key = chat[t].key /\ chat'[t].out = answer
    BY <1>a, <1>2 DEF ChatType
  <1>4. \A p \in Posters : /\ chat'[p].pc # "Idle" <=> chat[p].pc # "Idle"
                           /\ chat'[p].key = chat[p].key
    BY <1>b, <1>3
  <1>5. ClaimsAreHeld
    BY DEF PostsInv
  <1>6. ClaimsAreHeld'
    BY <1>b, <1>4, <1>5 DEF ClaimsAreHeld
  <1>7. \A k : Settled(k)' <=> Settled(k)
    BY <1>b DEF Settled
  <1>8. \A p \in Posters : p # t => (MayHavePosted(p)' <=> MayHavePosted(p))
    BY <1>3 DEF MayHavePosted
  <1>9. \A p \in Posters : chat[p].pc # "Idle" /\ ~MayHavePosted(p) => Room(chat[p].key)
    BY DEF PostsInv, Room
  <1>10. CASE t # Tester /\ delivered
    <2> DEFINE k == chat[t].key
    <2>1. t \in Posters /\ k \in Keys
      BY <1>b, <1>10 DEF Threads, PostsInv
    <2>2. tally' = [tally EXCEPT ![k].posted = @ + 1]
      BY <1>a, <1>10
    <2>3. tally \in [Keys -> [posted : Nat, manual : Nat, forgotten : Nat]]
      BY DEF PostsInv
    <2>4. \A j \in Keys : j # k => tally'[j] = tally[j]
      BY <2>2, <2>3
    <2>5. /\ tally'[k].posted = tally[k].posted + 1 /\ tally'[k].manual = tally[k].manual
          /\ tally'[k].forgotten = tally[k].forgotten
          /\ tally' \in [Keys -> [posted : Nat, manual : Nat, forgotten : Nat]]
      BY <2>1, <2>2, <2>3
    <2>6. Room(k)
      BY <1>b, <1>9, <2>1 DEF MayHavePosted
    <2>7. k \in ledger.active
      BY <1>b, <1>5, <2>1 DEF ClaimsAreHeld
    <2>8. MayHavePosted(t)'
      BY <1>0, <1>3, <1>10 DEF MayHavePosted, Unread
    <2>9. \A j \in Keys : tally'[j].posted <= 1 + tally'[j].manual + tally'[j].forgotten
      <3> TAKE j \in Keys
      <3>1. tally[j].posted <= 1 + tally[j].manual + tally[j].forgotten
        BY DEF PostsInv
      <3>2. CASE j = k
        <4>1. tally[k] \in [posted : Nat, manual : Nat, forgotten : Nat]
          BY <2>1, <2>3
        <4> QED
          BY <2>5, <2>6, <3>2, <4>1 DEF Room
      <3>3. CASE j # k
        BY <2>4, <3>1, <3>3
      <3> QED
        BY <3>2, <3>3
    <2>10. \A j \in Keys : j \notin ledger.active /\ ~Settled(j) =>
             tally'[j].posted <= tally'[j].manual + tally'[j].forgotten
      BY <2>4, <2>7 DEF PostsInv
    <2>11. \A p \in Posters : chat'[p].pc # "Idle" => chat'[p].key \in Keys
      BY <1>4 DEF PostsInv
    <2>12. \A p \in Posters : chat[p].pc # "Idle" /\ p # t => chat[p].key # k
      BY <1>b, <1>5, <2>1 DEF ClaimsAreHeld
    <2>13. \A p \in Posters : chat'[p].pc # "Idle" /\ ~MayHavePosted(p)' =>
             tally'[chat'[p].key].posted <= tally'[chat'[p].key].manual + tally'[chat'[p].key].forgotten
      <3> TAKE p \in Posters
      <3> HAVE chat'[p].pc # "Idle" /\ ~MayHavePosted(p)'
      <3>1. p # t
        BY <2>8
      <3>2. chat'[p] = chat[p] /\ ~MayHavePosted(p)
        BY <1>3, <1>8, <3>1
      <3>3. Room(chat[p].key) /\ chat[p].key # k /\ chat[p].key \in Keys
        BY <1>9, <2>11, <2>12, <3>1, <3>2
      <3> QED
        BY <2>4, <3>2, <3>3 DEF Room
    <2> QED
      BY <1>b, <1>6, <1>7, <2>5, <2>9, <2>10, <2>11, <2>13 DEF PostsInv
  <1>11. CASE ~(t # Tester /\ delivered)
    <2>1. tally' = tally
      BY <1>a, <1>11
    <2>2. \A p \in Posters : chat'[p].pc # "Idle" => chat'[p].key \in Keys
      BY <1>4 DEF PostsInv
    <2>3. ~MayHavePosted(t)
      BY <1>b DEF MayHavePosted
    <2>4. \A p \in Posters : chat'[p].pc # "Idle" /\ ~MayHavePosted(p)' =>
             tally[chat'[p].key].posted <= tally[chat'[p].key].manual + tally[chat'[p].key].forgotten
      BY <1>b, <1>3, <1>4, <1>8, <1>9, <2>3 DEF Room
    <2> QED
      BY <1>b, <1>6, <1>7, <2>1, <2>2, <2>4 DEF PostsInv
  <1> QED
    BY <1>10, <1>11

LEMMA TakePosts ==
  ASSUME PostsInv, NEW t \in Posters, NEW k \in Keys, NEW manual \in BOOLEAN,
         chat \in [Threads -> ChatType], TakeRequest(t, k, manual)
  PROVE  PostsInv'
  <1> DEFINE step == [Resting EXCEPT !.pc = "Acquire", !.key = k]
  <1>1. CASE k \in ledger.active \/ (~manual /\ Settled(k))
    <2>1. UNCHANGED <<chat, ledger, tally>>
      BY <1>1 DEF TakeRequest
    <2> QED
      BY <2>1 DEF PostsInv, ClaimsAreHeld, Settled, MayHavePosted
  <1>2. CASE ~(k \in ledger.active \/ (~manual /\ Settled(k)))
    <2>1. /\ ledger' = [ledger EXCEPT !.active = @ \cup {k}]
          /\ chat' = [chat EXCEPT ![t] = step]
          /\ tally' = [tally EXCEPT ![k].manual = @ + IF manual THEN 1 ELSE 0]
          /\ chat[t].pc = "Idle"
      BY <1>2 DEF TakeRequest
    <2>2. \A p \in Posters : p \in Threads
      BY DEF Threads
    <2>3. step.pc = "Acquire" /\ step.key = k
      BY DEF Resting
    <2> HIDE DEF step
    <2>4. \A p \in Posters : p # t => chat'[p] = chat[p]
      BY <2>1, <2>2
    <2>5. chat'[t] = step /\ ~MayHavePosted(t)'
      BY <2>1, <2>2, <2>3 DEF MayHavePosted
    <2>6. ledger \in [settled : Seq(Keys), active : SUBSET Keys]
          /\ tally \in [Keys -> [posted : Nat, manual : Nat, forgotten : Nat]] /\ ClaimsAreHeld
      BY DEF PostsInv
    <2>7. ledger'.active = ledger.active \cup {k} /\ ledger'.settled = ledger.settled
          /\ ledger' \in [settled : Seq(Keys), active : SUBSET Keys]
      BY <2>1, <2>6
    <2>8. \A j : Settled(j)' <=> Settled(j)
      BY <2>7 DEF Settled
    <2>9. \A p \in Posters : chat[p].pc # "Idle" => chat[p].key # k
      BY <1>2, <2>6 DEF ClaimsAreHeld
    <2>10. \A p, q \in Posters : p # q /\ chat'[p].pc # "Idle" /\ chat'[q].pc # "Idle"
                               => chat'[p].key # chat'[q].key
      BY <2>3, <2>4, <2>5, <2>6, <2>9 DEF ClaimsAreHeld
    <2>11. ledger'.active = {chat'[u].key : u \in {p \in Posters : chat'[p].pc # "Idle"}}
      <3> DEFINE S == {p \in Posters : chat[p].pc # "Idle"}
                 R == {p \in Posters : chat'[p].pc # "Idle"}
      <3>1. R = S \cup {t} /\ t \notin S
        BY <2>1, <2>3, <2>4, <2>5
      <3>2. (\A p \in S : chat'[p].key = chat[p].key) /\ chat'[t].key = k
        BY <2>3, <2>4, <2>5, <3>1
      <3>3. ledger.active = {chat[u].key : u \in S}
        BY <2>6 DEF ClaimsAreHeld
      <3> HIDE DEF S, R
      <3>4. ledger'.active = {chat'[u].key : u \in R}
        BY <2>7, <3>1, <3>2, <3>3
      <3> QED
        BY <3>4 DEF R
    <2>12. \A j \in Keys : j # k => tally'[j] = tally[j]
      BY <2>1, <2>6
    <2> DEFINE one == IF manual THEN 1 ELSE 0
    <2>13. one \in Nat /\ (manual => one = 1)
      OBVIOUS
    <2> HIDE DEF one
    <2>14. /\ tally'[k].posted = tally[k].posted /\ tally'[k].manual = tally[k].manual + one
           /\ tally'[k].forgotten = tally[k].forgotten
           /\ tally' \in [Keys -> [posted : Nat, manual : Nat, forgotten : Nat]]
      <3>1. tally' = [tally EXCEPT ![k].manual = @ + one]
        BY <2>1 DEF one
      <3> DEFINE m == tally[k].manual + one
      <3>2. tally' = [tally EXCEPT ![k].manual = m] /\ m \in Nat
        BY <2>6, <2>13, <3>1
      <3> HIDE DEF m
      <3>3. /\ tally'[k].posted = tally[k].posted /\ tally'[k].manual = m
            /\ tally'[k].forgotten = tally[k].forgotten
            /\ tally' \in [Keys -> [posted : Nat, manual : Nat, forgotten : Nat]]
        BY <2>6, <3>2
      <3> QED
        BY <3>3 DEF m
    <2>15. Room(k)'
      <3>1. CASE manual
        <4>1. tally[k].posted <= 1 + tally[k].manual + tally[k].forgotten
          BY DEF PostsInv
        <4> QED
          BY <2>6, <2>13, <2>14, <3>1, <4>1 DEF Room
      <3>2. CASE ~manual
        <4>1. Room(k)
          BY <1>2, <3>2 DEF PostsInv, Room
        <4> QED
          BY <2>6, <2>13, <2>14, <4>1 DEF Room
      <3> QED
        BY <3>1, <3>2
    <2>16. \A j \in Keys : tally'[j].posted <= 1 + tally'[j].manual + tally'[j].forgotten
      <3> TAKE j \in Keys
      <3>1. tally[j].posted <= 1 + tally[j].manual + tally[j].forgotten
        BY DEF PostsInv
      <3>2. CASE j = k
        <4>1. tally[k] \in [posted : Nat, manual : Nat, forgotten : Nat]
          BY <2>6
        <4> QED
          BY <2>13, <2>14, <3>1, <3>2, <4>1
      <3>3. CASE j # k
        BY <2>12, <3>1, <3>3
      <3> QED
        BY <3>2, <3>3
    <2>17. \A j \in Keys : j \notin ledger'.active /\ ~Settled(j)' => Room(j)'
      <3> TAKE j \in Keys
      <3> HAVE j \notin ledger'.active /\ ~Settled(j)'
      <3>1. j # k /\ j \notin ledger.active /\ ~Settled(j)
        BY <2>7, <2>8
      <3>2. Room(j)
        BY <3>1 DEF PostsInv, Room
      <3> QED
        BY <2>12, <3>1, <3>2 DEF Room
    <2>18. \A p \in Posters : chat'[p].pc # "Idle" => chat'[p].key \in Keys
      BY <2>3, <2>4, <2>5 DEF PostsInv
    <2>19. \A p \in Posters : chat'[p].pc # "Idle" /\ ~MayHavePosted(p)' =>
             tally'[chat'[p].key].posted <= tally'[chat'[p].key].manual + tally'[chat'[p].key].forgotten
      <3> TAKE p \in Posters
      <3> HAVE chat'[p].pc # "Idle" /\ ~MayHavePosted(p)'
      <3>1. CASE p = t
        BY <2>3, <2>5, <2>15, <3>1 DEF Room
      <3>2. CASE p # t
        <4>1. chat'[p] = chat[p] /\ chat[p].pc # "Idle" /\ ~MayHavePosted(p)
          BY <2>4, <3>2 DEF MayHavePosted
        <4>2. Room(chat[p].key) /\ chat[p].key \in Keys
          BY <4>1 DEF PostsInv, Room
        <4> QED
          BY <2>9, <2>12, <4>1, <4>2 DEF Room
      <3> QED
        BY <3>1, <3>2
    <2>20. Len(ledger'.settled) <= LedgerCapacity
      BY <2>7 DEF PostsInv
    <2> QED
      BY <2>7, <2>10, <2>11, <2>14, <2>16, <2>17, <2>18, <2>19, <2>20 DEF PostsInv, ClaimsAreHeld, Room
  <1> QED
    BY <1>1, <1>2

LEMMA SendAnswers ==
  /\ SendResult("done") = "Sent" /\ SendResult("lost") = "Ambiguous"
  /\ SendResult("garbled") = "Ambiguous"
  <1>1. SendResult("done") = "Sent"
    BY DEF SendResult
  <1>2. SendFailure("lost") = "Ambiguous" /\ SendFailure("garbled") = "Ambiguous"
    BY DEF SendFailure
  <1>3. SendResult("lost") = SendFailure("lost") /\ SendResult("garbled") = SendFailure("garbled")
    BY DEF SendResult
  <1> QED
    BY <1>1, <1>2, <1>3

(* The steps of a delivery, as far as the chat and the ledger are concerned. *)
Ends(t) == \E result : Finish(t, result) /\ (Remembered(result) \/ ~MayHavePosted(t))
Goes(t) == \E step : /\ Go(t, step) /\ step.pc # "Idle" /\ step.key = chat[t].key
                     /\ MayHavePosted(t) => step.pc = "Sent" /\ step.out = chat[t].out

LEMMA DeliveryMoves ==
  ASSUME NEW t \in Threads, chat \in [Threads -> ChatType], DeliveryStep(t)
  PROVE  chat[t].pc # "Idle" /\ (Ends(t) \/ Goes(t) \/ (Send(t) /\ ~stop))
  <1>0. chat[t] \in ChatType
    OBVIOUS
  <1>a. \A result : chat[t].pc # "Sent" /\ Finish(t, result) => Ends(t)
    BY DEF Ends, MayHavePosted
  <1>b. \A step : chat[t].pc # "Sent" /\ Go(t, step) /\ step.pc # "Idle" /\ step.key = chat[t].key => Goes(t)
    BY DEF Goes, MayHavePosted
  <1>c. \A a, g, r : LET s == [chat[t] EXCEPT !.pc = "Send", !.gen = g, !.rev = r] IN s.pc = "Send" /\ s.key = chat[t].key
    BY <1>0 DEF ChatType
  <1>d. \A a, g, r : LET s == [chat[t] EXCEPT !.pc = "Send", !.attempt = 1, !.gen = g, !.rev = r] IN s.pc = "Send" /\ s.key = chat[t].key
    BY <1>0 DEF ChatType
  <1>l. chat[t].pc # "Sent" /\ Lease(t) => Ends(t) \/ Goes(t)
    BY <1>a, <1>b, <1>c DEF Lease
  <1>1. CASE Acquire(t)
    BY <1>1, <1>l DEF Acquire
  <1>2. CASE Send(t)
    BY <1>2, <1>a DEF Send
  <1>3. CASE AfterSend(t)
    <2>1. CASE stop \/ chat[t].out # "unauthorized" \/ chat[t].attempt = 1
      <3> DEFINE result == IF stop THEN "Ambiguous" ELSE SendResult(chat[t].out)
      <3>1. Finish(t, result)
        BY <1>3, <2>1 DEF AfterSend
      <3>2. Remembered(result) \/ ~MayHavePosted(t)
        BY SendAnswers DEF Remembered, MayHavePosted, Unread
      <3> HIDE DEF result
      <3> QED
        BY <1>3, <3>1, <3>2 DEF Ends, AfterSend
    <2>2. CASE ~(stop \/ chat[t].out # "unauthorized" \/ chat[t].attempt = 1)
      <3>1. Recover(t) /\ ~MayHavePosted(t) /\ chat[t].pc = "Sent"
        BY <1>3, <2>2 DEF AfterSend, MayHavePosted, Unread
      <3>2. \A result : Finish(t, result) => Ends(t)
        BY <3>1 DEF Ends
      <3>3. \A step : Go(t, step) /\ step.pc # "Idle" /\ step.key = chat[t].key => Goes(t)
        BY <3>1 DEF Goes
      <3> DEFINE s == [chat[t] EXCEPT !.pc = "Send", !.attempt = 1, !.gen = owner.active,
                                      !.rev = owner.revision]
                 v == [chat[t] EXCEPT !.pc = "Validate", !.tx = owner.next, !.session = owner.active]
      <3>4. s.pc # "Idle" /\ s.key = chat[t].key /\ v.pc # "Idle" /\ v.key = chat[t].key
        BY <1>0 DEF ChatType
      <3>5. Finish(t, "Retry") \/ Finish(t, "Failed") \/ Go(t, s) \/ Go(t, v)
        <4> HIDE DEF s, v
        <4> QED
          BY <3>1, Zenon DEF Recover, s, v
      <3> HIDE DEF s, v
      <3> QED
        BY <3>1, <3>2, <3>3, <3>4, <3>5
    <2> QED
      BY <2>1, <2>2
  <1>e. \A result, restore, erase, io : chat[t].pc # "Sent" /\ EndFailedRecovery(t, result, restore, erase, io) => Ends(t)
    BY <1>a DEF EndFailedRecovery
  <1>f. \A io : chat[t].pc # "Sent" /\ FinishRecovery(t, io) => Ends(t) \/ Goes(t)
    <2> TAKE io
    <2> HAVE chat[t].pc # "Sent" /\ FinishRecovery(t, io)
    <2> DEFINE s == [chat[t] EXCEPT !.pc = "Reacquire", !.tx = 0]
    <2>1. s.pc = "Reacquire" /\ s.key = chat[t].key
      BY <1>0 DEF ChatType
    <2>2. Finish(t, "Failed") \/ Go(t, s)
      BY DEF FinishRecovery
    <2> HIDE DEF s
    <2> QED
      BY <1>a, <1>b, <2>1, <2>2
  <1>4. CASE RecoverValidate(t)
    <2>1. CASE Broken(t)
      BY <1>4, <1>e, <2>1 DEF RecoverValidate
    <2>2. CASE ~Broken(t)
      <3>1. PICK answer \in Answers : 
              Go(t, [chat[t] EXCEPT
                    !.pc = IF chat[t].pc = "Validate" THEN "Validated" ELSE "Revalidated",
                    !.out = IF answer = "mismatch" THEN answer
                            ELSE Disposition("Validate", answer)])
        BY <1>4, <2>2 DEF RecoverValidate
      <3> DEFINE place == IF chat[t].pc = "Validate" THEN "Validated" ELSE "Revalidated"
                 out == IF answer = "mismatch" THEN answer ELSE Disposition("Validate", answer)
                 s == [chat[t] EXCEPT !.pc = place, !.out = out]
      <3>2. Go(t, s) /\ place # "Idle"
        BY <3>1
      <3> HIDE DEF place, out
      <3>3. s.pc # "Idle" /\ s.key = chat[t].key
        BY <1>0, <3>2 DEF ChatType
      <3> HIDE DEF s
      <3> QED
        BY <1>4, <1>b, <3>2, <3>3 DEF RecoverValidate
    <2> QED
      BY <1>4, <2>1, <2>2 DEF RecoverValidate
  <1>5. CASE RecoverValidated(t)
    <2> DEFINE s == [chat[t] EXCEPT !.pc = "Refresh"]
    <2>1. s.pc = "Refresh" /\ s.key = chat[t].key
      BY <1>0 DEF ChatType
    <2> HIDE DEF s
    <2>3. chat[t].pc = "Validated"
      BY <1>5 DEF RecoverValidated
    <2>2. (\E result, restore, erase, io : EndFailedRecovery(t, result, restore, erase, io))
          \/ (\E io : FinishRecovery(t, io)) \/ Go(t, s)
      BY Zenon, <1>5 DEF RecoverValidated, s
    <2> QED
      BY <1>b, <1>e, <1>f, <2>1, <2>2, <2>3
  <1>6. CASE RecoverRefresh(t)
    <2>3. chat[t].pc = "Refresh"
      BY <1>6 DEF RecoverRefresh
    <2>1. CASE Broken(t)
      BY <1>6, <1>e, <2>1, <2>3 DEF RecoverRefresh
    <2>2. CASE ~Broken(t)
      <3>1. PICK out, reply : Go(t, [chat[t] EXCEPT !.pc = "Refreshed", !.out = out, !.gen = reply])
        BY <1>6, <2>2 DEF RecoverRefresh
      <3> DEFINE s == [chat[t] EXCEPT !.pc = "Refreshed", !.out = out, !.gen = reply]
      <3>2. s.pc # "Idle" /\ s.key = chat[t].key
        BY <1>0 DEF ChatType
      <3> QED
        BY <1>b, <2>3, <3>1, <3>2
    <2> QED
      BY <2>1, <2>2, <2>3
  <1>7. CASE RecoverRefreshed(t)
    <2> DEFINE s == [chat[t] EXCEPT !.pc = "Revalidate", !.session = chat[t].gen]
    <2>1. s.pc = "Revalidate" /\ s.key = chat[t].key
      BY <1>0 DEF ChatType
    <2> HIDE DEF s
    <2>3. chat[t].pc = "Refreshed"
      BY <1>7 DEF RecoverRefreshed
    <2>2. (\E result, restore, erase, io : EndFailedRecovery(t, result, restore, erase, io))
          \/ Finish(t, "Failed") \/ Go(t, s)
      BY Zenon, <1>7 DEF RecoverRefreshed, s
    <2> QED
      BY <1>a, <1>b, <1>e, <2>1, <2>2, <2>3
  <1>8. CASE RecoverRevalidated(t)
    BY <1>8, <1>e, <1>f DEF RecoverRevalidated
  <1>9. CASE Reacquire(t)
    <2>1. chat[t].pc = "Reacquire"
      BY <1>9 DEF Reacquire
    <2> QED
      BY <1>9, <1>b, <1>d, <1>l, <2>1 DEF Reacquire
  <1> QED
    BY <1>1, <1>2, <1>3, <1>4, <1>5, <1>6, <1>7, <1>8, <1>9 DEF DeliveryStep, RecoverStep

LEMMA StillPosts ==
  ASSUME PostsInv, UNCHANGED <<chat, ledger, tally>>
  PROVE  PostsInv'
  BY DEF PostsInv, ClaimsAreHeld, Settled, MayHavePosted

FreshPool ==
  /\ chat = [t \in Threads |-> Resting]
  /\ ledger = [settled |-> <<>>, active |-> {}] /\ tally = NewTally

LEMMA FreshPosts == FreshPool => PostsInv
  <1> SUFFICES ASSUME FreshPool PROVE PostsInv
    OBVIOUS
  <1> USE DEF FreshPool
  <1>1. \A p \in Posters : chat[p].pc = "Idle"
    BY DEF Threads, Resting
  <1>2. ledger.settled = <<>> /\ ledger.active = {} /\ ledger \in [settled : Seq(Keys), active : SUBSET Keys]
    OBVIOUS
  <1>3. Len(ledger.settled) <= LedgerCapacity
    BY <1>2, TwitchChatConstants
  <1>4. \A k \in Keys : tally[k] = [posted |-> 0, manual |-> 0, forgotten |-> 0]
    BY DEF NewTally
  <1>5. tally \in [Keys -> [posted : Nat, manual : Nat, forgotten : Nat]]
    BY DEF NewTally
  <1>6. ClaimsAreHeld
    BY <1>1, <1>2 DEF ClaimsAreHeld
  <1> QED
    BY <1>1, <1>2, <1>3, <1>4, <1>5, <1>6 DEF PostsInv

LEMMA PostsStep ==
  ASSUME PostsInv, chat \in [Threads -> ChatType], [Next]_vars
  PROVE  PostsInv'
  <1>1. CASE UNCHANGED vars
    BY <1>1, StillPosts DEF vars, chatVars
  <1>2. CASE UNCHANGED chatVars
    BY <1>2, StillPosts DEF chatVars
  <1>3. CASE Chat
    <2>1. CASE \E t \in Posters, k \in Keys, manual \in BOOLEAN : TakeRequest(t, k, manual)
      BY <2>1, TakePosts
    <2>2. CASE SendTest
      <3>1. /\ chat' = [chat EXCEPT ![Tester] = [Resting EXCEPT !.pc = "Acquire"]]
            /\ UNCHANGED <<ledger, tally>>
        BY <2>2 DEF SendTest
      <3>2. \A p \in Posters : chat'[p] = chat[p]
        BY <3>1, TwitchChatConstants DEF Threads
      <3>3. ClaimsAreHeld'
        <4>1. ClaimsAreHeld
          BY DEF PostsInv
        <4>2. \A p \in Posters : chat'[p].pc = chat[p].pc /\ chat'[p].key = chat[p].key
          BY <3>2
        <4> QED
          BY <3>1, <4>1, <4>2 DEF ClaimsAreHeld
      <3>4. \A k : Settled(k)' <=> Settled(k)
        BY <3>1 DEF Settled
      <3>5. \A p \in Posters : MayHavePosted(p)' <=> MayHavePosted(p)
        BY <3>2 DEF MayHavePosted
      <3> QED
        BY <3>1, <3>2, <3>3, <3>4, <3>5 DEF PostsInv
    <2>3. CASE PollTest
      BY <2>3, StillPosts DEF PollTest
    <2>4. ASSUME NEW t \in Threads, DeliveryStep(t) PROVE PostsInv'
      <3>1. chat[t].pc # "Idle" /\ (Ends(t) \/ Goes(t) \/ (Send(t) /\ ~stop))
        BY <2>4, DeliveryMoves
      <3>2. CASE Ends(t)
        BY <3>1, <3>2, FinishPosts DEF Ends
      <3>3. CASE Goes(t)
        BY <3>1, <3>3, GoPosts DEF Goes
      <3>4. CASE Send(t) /\ ~stop
        BY <3>4, SendPosts
      <3> QED
        BY <3>1, <3>2, <3>3, <3>4
    <2> QED
      BY <1>3, <2>1, <2>2, <2>3, <2>4 DEF Chat
  <1>4. CASE StopPools
    BY <1>4, StillPosts DEF StopPools
  <1>5. CASE Restart
    <2>1. FreshPool'
      BY <1>5 DEF Restart, FreshPool
    <2> QED
      BY <2>1, FreshPosts, PTL
  <1> QED
    BY <1>1, <1>2, <1>3, <1>4, <1>5 DEF Next, Stopped

LEMMA AppendElements ==
  ASSUME NEW S, NEW s \in Seq(S), NEW e \in S, NEW b, b = Append(s, e)
  PROVE  /\ b \in Seq(S) /\ Len(s) \in Nat /\ Len(b) = Len(s) + 1
         /\ \A i \in 1 .. Len(b) : (i \in 1 .. Len(s) /\ b[i] = s[i]) \/ (i = Len(b) /\ b[i] = e)
  <1> DEFINE n == Len(s)
  <1>1. n \in Nat /\ b \in Seq(S) /\ Len(b) = n + 1 /\ b[n + 1] = e
    BY AppendProperties
  <1>2. \A i \in 1 .. n : b[i] = s[i]
    BY AppendProperties
  <1> HIDE DEF n
  <1>3. \A i \in 1 .. n + 1 : (i \in 1 .. n /\ b[i] = s[i]) \/ (i = n + 1 /\ b[i] = e)
    BY <1>1, <1>2
  <1> QED
    BY <1>1, <1>3 DEF n

LEMMA TailElements ==
  ASSUME NEW S, NEW s \in Seq(S), s # <<>>, NEW q, q = Tail(s)
  PROVE  /\ q \in Seq(S) /\ Len(s) \in Nat /\ Len(q) \in Nat /\ Len(q) = Len(s) - 1
         /\ \A i \in 1 .. Len(q) : i + 1 \in 1 .. Len(s) /\ q[i] = s[i + 1]
         /\ Head(s) \in S /\ 1 \in 1 .. Len(s) /\ Head(s) = s[1]
  <1> DEFINE n == Len(s)
  <1>1. n \in Nat /\ n # 0 /\ q \in Seq(S) /\ Len(q) = n - 1 /\ Head(s) \in S
    BY HeadTailProperties, EmptySeq
  <1>2. \A i \in 1 .. Len(q) : q[i] = s[i + 1]
    BY HeadTailProperties
  <1>3. Head(s) = s[1]
    OBVIOUS
  <1> HIDE DEF n
  <1>4. n - 1 \in Nat /\ 1 \in 1 .. n /\ \A i \in 1 .. n - 1 : i + 1 \in 1 .. n
    BY <1>1
  <1> QED
    BY <1>1, <1>2, <1>3, <1>4 DEF n

LEMMA AppendDistinct ==
  ASSUME NEW S, NEW s \in Seq(S), NEW e \in S, NEW b, b = Append(s, e)
  PROVE  /\ Distinct(s) /\ Apart(s, e.id) => Distinct(b)
         /\ \A id : Apart(s, id) /\ e.id # id => Apart(b, id)
         /\ \A c : AllCurrent(c, s) /\ Current(c, e) => AllCurrent(c, b)
  <1>1. /\ b \in Seq(S) /\ Len(s) \in Nat /\ Len(b) = Len(s) + 1
        /\ \A i \in 1 .. Len(b) : (i \in 1 .. Len(s) /\ b[i] = s[i]) \/ (i = Len(b) /\ b[i] = e)
    BY AppendElements
  <1>2. ASSUME Distinct(s), Apart(s, e.id) PROVE Distinct(b)
    BY <1>1, <1>2 DEF Distinct, Apart
  <1>3. ASSUME NEW id, Apart(s, id), e.id # id PROVE Apart(b, id)
    BY <1>1, <1>3 DEF Apart
  <1>4. ASSUME NEW c, AllCurrent(c, s), Current(c, e) PROVE AllCurrent(c, b)
    BY <1>1, <1>4 DEF AllCurrent
  <1> QED
    BY <1>2, <1>3, <1>4

LEMMA TailDistinct ==
  ASSUME NEW S, NEW s \in Seq(S), s # <<>>, NEW q, q = Tail(s)
  PROVE  /\ Distinct(s) => Distinct(q) /\ Apart(q, Head(s).id)
         /\ \A id : Apart(s, id) => Apart(q, id) /\ Head(s).id # id
         /\ \A c : AllCurrent(c, s) => AllCurrent(c, q) /\ Current(c, Head(s))
  <1>1. /\ q \in Seq(S) /\ Len(s) \in Nat /\ Len(q) \in Nat /\ Len(q) = Len(s) - 1
        /\ \A i \in 1 .. Len(q) : i + 1 \in 1 .. Len(s) /\ q[i] = s[i + 1]
        /\ Head(s) \in S /\ 1 \in 1 .. Len(s) /\ Head(s) = s[1]
    BY TailElements
  <1>2. ASSUME Distinct(s) PROVE Distinct(q) /\ Apart(q, Head(s).id)
    <2>1. \A i, j \in 1 .. Len(q) : q[i].id = q[j].id => i = j
      <3> TAKE i, j \in 1 .. Len(q)
      <3> HAVE q[i].id = q[j].id
      <3>1. i + 1 \in 1 .. Len(s) /\ j + 1 \in 1 .. Len(s) /\ s[i + 1].id = s[j + 1].id
        BY <1>1
      <3>2. i + 1 = j + 1 /\ i \in Nat /\ j \in Nat
        BY <1>2, <3>1 DEF Distinct
      <3> QED
        BY <3>2
    <2>2. \A i \in 1 .. Len(q) : q[i].id # s[1].id
      <3> TAKE i \in 1 .. Len(q)
      <3>1. i + 1 \in 1 .. Len(s) /\ i \in Nat /\ i # 0 /\ q[i] = s[i + 1]
        BY <1>1
      <3>2. i + 1 # 1
        BY <3>1
      <3> QED
        BY <1>1, <1>2, <3>1, <3>2 DEF Distinct
    <2> QED
      BY <1>1, <2>1, <2>2 DEF Distinct, Apart
  <1>3. ASSUME NEW id, Apart(s, id) PROVE Apart(q, id) /\ Head(s).id # id
    BY <1>1, <1>3 DEF Apart
  <1>4. ASSUME NEW c, AllCurrent(c, s) PROVE AllCurrent(c, q) /\ Current(c, Head(s))
    BY <1>1, <1>4 DEF AllCurrent
  <1> QED
    BY <1>2, <1>3, <1>4

(* What an answer may bring in as the session or as the subject of a request. *)
Brought(r) ==
  IF r.op \in {"Refresh", "Poll"} /\ r.out \notin Refused THEN r.reply
  ELSE IF r.op \in {"Validate", "Refresh"} THEN r.gen ELSE 0

(* The controller shows a code and waits.                                    *)
LEMMA HeldFacts ==
  ASSUME NEW w, Answering(w), NEW state \in States \ {"Disconnected"}, NEW g, NEW h,
         NEW v, v = [w EXCEPT !.ctl.code = "Held", !.ctl.state = state]
  PROVE  Follows(w, v, g, h)
  <1> DEFINE c == [w.ctl EXCEPT !.code = "Held", !.state = state]
  <1>0. w \in WorldType /\ w.ctl \in CtlType
    BY DEF Answering, WorldInv, WorldType
  <1>1. v = [w EXCEPT !.ctl = c]
    BY <1>0 DEF WorldType
  <1>2. c \in CtlType
    BY <1>0 DEF CtlType
  <1>3. /\ c.tx = w.ctl.tx /\ c.request = w.ctl.request /\ c.next = w.ctl.next /\ c.phase = w.ctl.phase
        /\ c.gen = w.ctl.gen /\ c.deferred = w.ctl.deferred
        /\ c.shut = w.ctl.shut /\ c.state = state /\ c.code = "Held"
    BY <1>0 DEF CtlType
  <1> HIDE DEF c
  <1>4. v \in WorldType /\ v.ctl = c /\ v.owner = w.owner /\ v.saved = w.saved /\ v.inbox = w.inbox
    BY <1>0, <1>1, <1>2 DEF WorldType
  <1>5. w.ctl.phase = None
    BY DEF Answering, WorldInv
  <1>6. WorldInv(v)
    BY <1>3, <1>4, <1>5 DEF WorldInv, Answering
  <1>7. SameQueue(w, v)
    BY <1>3, <1>4, <1>5 DEF SameQueue, Answering
  <1> QED
    BY <1>3, <1>4, <1>6, <1>7 DEF Follows, Outcome, Lent, Answering

(* A call is to be repeated later.                                            *)
LEMMA DeferFacts ==
  ASSUME NEW w, Answering(w), w.ctl.code = None, NEW phase \in Validations \cup {"Refresh"},
         NEW state \in States \ {"Disconnected"}, NEW h \in Nat, NEW g, NEW v,
         v = [w EXCEPT !.ctl.gen = h, !.ctl.deferred = phase, !.ctl.state = state]
  PROVE  Follows(w, v, g, h)
  <1> DEFINE c == [w.ctl EXCEPT !.gen = h, !.deferred = phase, !.state = state]
  <1>0. w \in WorldType /\ w.ctl \in CtlType
    BY DEF Answering, WorldInv, WorldType
  <1>1. v = [w EXCEPT !.ctl = c]
    BY <1>0 DEF WorldType
  <1>2. c \in CtlType
    BY <1>0 DEF CtlType
  <1>3. /\ c.tx = w.ctl.tx /\ c.request = w.ctl.request /\ c.next = w.ctl.next /\ c.phase = w.ctl.phase
        /\ c.gen = h /\ c.deferred = phase
        /\ c.shut = w.ctl.shut /\ c.state = state /\ c.code = w.ctl.code
    BY <1>0 DEF CtlType
  <1> HIDE DEF c
  <1>4. v \in WorldType /\ v.ctl = c /\ v.owner = w.owner /\ v.saved = w.saved /\ v.inbox = w.inbox
    BY <1>0, <1>1, <1>2 DEF WorldType
  <1>5. w.ctl.phase = None
    BY DEF Answering, WorldInv
  <1>6. WorldInv(v)
    BY <1>3, <1>4, <1>5 DEF WorldInv, Answering
  <1>7. SameQueue(w, v)
    BY <1>3, <1>4, <1>5 DEF SameQueue, Answering
  <1> QED
    BY <1>3, <1>4, <1>6, <1>7 DEF Follows, Outcome, Lent, Answering

(* The answer is one the phase asked for.                                     *)
Asked(w, phase, r) ==
  /\ phase \in Phases /\ r \in Answered /\ r.op = PhaseOperation(phase)
  /\ phase # "Poll" => w.ctl.code = None

LEMMA WorkingStates ==
  ASSUME NEW phase \in Phases
  PROVE  PhaseState(phase) \in States \ {"Disconnected"}
  BY DEF Phases, PhaseState, States

LEMMA HandleFailureFacts ==
  ASSUME NEW w, Answering(w), NEW phase, NEW r, Asked(w, phase, r), r.out \in Refused, NEW io \in Storage
  PROVE  Follows(w, HandleFailure(w, phase, r, io), Brought(r), Brought(r))
  <1> DEFINE v == HandleFailure(w, phase, r, io)
             b == Brought(r)
  <1>0. /\ phase \in Phases /\ r.gen \in Nat /\ r.op = PhaseOperation(phase)
        /\ phase # "Poll" => w.ctl.code = None
    BY DEF Asked, Answered
  <1>1. phase \in Validations \cup {"Refresh"} => b = r.gen
    BY <1>0 DEF Brought, PhaseOperation, Validations
  <1> HIDE DEF b
  <1>2. CASE phase = "Revoke"
    <2>1. v = FinishDisconnect(w, io)
      BY <1>2 DEF HandleFailure
    <2> QED
      BY <2>1, FinishAnswer DEF b
  <1>3. CASE phase = "Poll" /\ r.out = "Retry"
    <2> DEFINE state == "AwaitingUser"
    <2>1. v = [w EXCEPT !.ctl.code = "Held", !.ctl.state = state] /\ state \in States \ {"Disconnected"}
      BY <1>3 DEF HandleFailure, States
    <2> HIDE DEF state, v
    <2>2. Follows(w, v, b, b)
      BY <2>1, HeldFacts
    <2> QED
      BY <2>2 DEF v, b
  <1>4. CASE phase \notin Validations \cup {"Refresh", "Revoke"} /\ ~(phase = "Poll" /\ r.out = "Retry")
    <2> DEFINE erase == FALSE
    <2>1. v = Fail(w, erase, io) /\ erase \in BOOLEAN
      BY <1>4 DEF HandleFailure
    <2> HIDE DEF erase, v
    <2>2. Follows(w, v, b, b)
      BY <2>1, FailAnswer
    <2> QED
      BY <2>2 DEF v, b
  <1>5. CASE phase \in Validations \cup {"Refresh"}
    <2>0. phase # "Revoke" /\ phase # "Poll" /\ w.ctl.code = None /\ b = r.gen
      BY <1>0, <1>1, <1>5 DEF Validations
    <2>1. CASE r.out = "Retry"
      <3> DEFINE state == PhaseState(phase)
      <3>1. v = [w EXCEPT !.ctl.gen = b, !.ctl.deferred = phase, !.ctl.state = state]
        BY <1>5, <2>0, <2>1 DEF HandleFailure
      <3>2. state \in States \ {"Disconnected"}
        BY <1>0, WorkingStates
      <3> HIDE DEF state, v
      <3>3. Follows(w, v, b, b)
        BY <1>0, <1>5, <2>0, <3>1, <3>2, DeferFacts
      <3> QED
        BY <3>3 DEF v, b
    <2>2. CASE r.out = "Reconnect" /\ phase \in {"ValidateSaved", "ValidateActive"}
      <3> DEFINE ph == "Refresh"
      <3>1. v = Dispatch(w, ph, b, io) /\ ph \in Phases
        BY <1>5, <2>0, <2>2 DEF HandleFailure, Phases
      <3> HIDE DEF ph, v
      <3>2. Follows(w, v, b, b)
        BY <1>0, <2>0, <3>1, DispatchAnswer
      <3> QED
        BY <3>2 DEF v, b
    <2>3. CASE r.out # "Retry" /\ ~(r.out = "Reconnect" /\ phase \in {"ValidateSaved", "ValidateActive"})
      <3> DEFINE erase == phase \in {"Refresh", "ValidateRotated"}
      <3>1. v = Fail(w, erase, io) /\ erase \in BOOLEAN
        BY <1>5, <2>0, <2>3 DEF HandleFailure
      <3> HIDE DEF erase, v
      <3>2. Follows(w, v, b, b)
        BY <3>1, FailAnswer
      <3> QED
        BY <3>2 DEF v, b
    <2> QED
      BY <2>1, <2>2, <2>3
  <1> QED
    BY <1>2, <1>3, <1>4, <1>5

LEMMA CodeFacts ==
  ASSUME NEW w, Answering(w), NEW code \in {None, "Held"}, NEW v, v = [w EXCEPT !.ctl.code = code]
  PROVE  /\ Answering(v) /\ v.ctl.code = code
         /\ v.owner = w.owner /\ v.saved = w.saved /\ v.inbox = w.inbox
         /\ v.ctl.tx = w.ctl.tx /\ v.ctl.next = w.ctl.next /\ v.ctl.shut = w.ctl.shut
         /\ v.ctl.state = w.ctl.state /\ v.ctl.phase = None
         /\ \A g, h : Follows(w, v, g, h)
         /\ \A x, g, h : Follows(v, x, g, h) => Follows(w, x, g, h)
  <1> DEFINE c == [w.ctl EXCEPT !.code = code]
  <1>0. w \in WorldType /\ w.ctl \in CtlType
    BY DEF Answering, WorldInv, WorldType
  <1>1. v = [w EXCEPT !.ctl = c]
    BY <1>0 DEF WorldType
  <1>2. c \in CtlType
    BY <1>0 DEF CtlType
  <1>3. /\ c.tx = w.ctl.tx /\ c.request = w.ctl.request /\ c.next = w.ctl.next /\ c.phase = w.ctl.phase
        /\ c.gen = w.ctl.gen /\ c.deferred = w.ctl.deferred
        /\ c.shut = w.ctl.shut /\ c.state = w.ctl.state /\ c.code = code
    BY <1>0 DEF CtlType
  <1> HIDE DEF c
  <1>4. v \in WorldType /\ v.ctl = c /\ v.owner = w.owner /\ v.saved = w.saved /\ v.inbox = w.inbox
    BY <1>0, <1>1, <1>2 DEF WorldType
  <1>5. w.ctl.phase = None /\ w.ctl.request = 0 /\ w.ctl.tx # 0
    BY DEF Answering, WorldInv
  <1>6. WorldInv(v)
    BY <1>3, <1>4, <1>5 DEF WorldInv, Answering
  <1>7. Answering(v)
    BY <1>3, <1>4, <1>6 DEF Answering
  <1>8. SameQueue(w, v) /\ ~Lent(w) /\ ~Lent(v)
    BY <1>3, <1>4, <1>5 DEF SameQueue, Lent
  <1>9. ASSUME NEW g, NEW h PROVE Follows(w, v, g, h)
    BY <1>3, <1>4, <1>6, <1>8 DEF Follows, Outcome, Answering
  <1>10. ASSUME NEW x, NEW g, NEW h, Follows(v, x, g, h) PROVE Follows(w, x, g, h)
    <2>1. SameQueue(v, x) => SameQueue(w, x)
      BY <1>3, <1>4 DEF SameQueue
    <2>2. NewRequest(v, x, h) => NewRequest(w, x, h)
      BY <1>3, <1>4 DEF NewRequest
    <2> QED
      BY <1>3, <1>4, <1>8, <1>10, <2>1, <2>2 DEF Follows, Outcome
  <1> QED
    BY <1>3, <1>4, <1>5, <1>7, <1>9, <1>10

LEMMA HandleResultFacts ==
  ASSUME NEW w, Answering(w), NEW phase, NEW r, Asked(w, phase, r), NEW io \in Storage
  PROVE  Follows(w, HandleResult(w, phase, r, io), Brought(r), Brought(r))
  <1> DEFINE v == HandleResult(w, phase, r, io)
             b == Brought(r)
  <1>0. /\ phase \in Phases /\ r.gen \in Nat /\ r.reply \in Nat /\ r.op = PhaseOperation(phase)
        /\ phase # "Poll" => w.ctl.code = None
    BY DEF Asked, Answered
  <1>1. CASE r.out \in Refused
    <2>1. v = HandleFailure(w, phase, r, io)
      BY <1>1 DEF HandleResult, Refused
    <2> QED
      BY <1>1, <2>1, HandleFailureFacts
  <1>2. CASE r.out \notin Refused
    <2>1. phase \in {"Poll", "Refresh"} => b = r.reply
      BY <1>0, <1>2 DEF Brought, PhaseOperation, Validations
    <2>2. phase \in Validations => b = r.gen
      BY <1>0, <1>2 DEF Brought, PhaseOperation, Validations
    <2> HIDE DEF b
    <2> USE DEF Refused
    <2>3. CASE phase = "Start"
      <3> DEFINE state == "AwaitingUser"
      <3>1. v = [w EXCEPT !.ctl.code = "Held", !.ctl.state = state] /\ state \in States \ {"Disconnected"}
        BY <1>2, <2>3 DEF HandleResult, States
      <3> HIDE DEF state, v
      <3>2. Follows(w, v, b, b)
        BY <3>1, HeldFacts
      <3> QED
        BY <3>2 DEF v, b
    <2>4. CASE phase = "Poll" /\ r.out = "pending"
      <3> DEFINE held == "Held"
      <3>1. v = [w EXCEPT !.ctl.code = held]
        BY <1>2, <2>4 DEF HandleResult
      <3>3. held \in {None, "Held"}
        OBVIOUS
      <3> HIDE DEF v, held
      <3>2. Follows(w, v, b, b)
        BY <3>1, <3>3, CodeFacts
      <3> QED
        BY <3>2 DEF v, b
    <2>5. CASE phase = "Poll" /\ r.out # "pending"
      <3> DEFINE u == [w EXCEPT !.ctl.code = None]
                 ph == "ValidateInitial"
      <3>1. v = Dispatch(u, ph, b, io) /\ ph \in Phases
        BY <1>2, <2>1, <2>5 DEF HandleResult, Phases
      <3> HIDE DEF ph, v
      <3>2. Answering(u) /\ u.ctl.code = None /\ \A x : Follows(u, x, b, b) => Follows(w, x, b, b)
        <4>1. None \in {None, "Held"}
          OBVIOUS
        <4> HIDE DEF u
        <4> QED
          BY <4>1, CodeFacts DEF u
      <3> HIDE DEF u
      <3>3. Follows(u, v, b, b)
        BY <1>0, <2>1, <2>5, <3>1, <3>2, DispatchAnswer
      <3> QED
        BY <3>2, <3>3 DEF v, b
    <2>6. CASE phase \in Validations /\ r.out = "mismatch"
      <3> DEFINE erase == TRUE
      <3>1. v = Fail(w, erase, io) /\ erase \in BOOLEAN
        BY <1>2, <2>6 DEF HandleResult, Validations
      <3> HIDE DEF erase, v
      <3>2. Follows(w, v, b, b)
        BY <3>1, FailAnswer
      <3> QED
        BY <3>2 DEF v, b
    <2>7. CASE phase \in Validations /\ r.out # "mismatch"
      <3>1. v = AcceptValidation(w, r.gen, io) /\ phase # "Poll"
        BY <1>2, <2>7 DEF HandleResult, Validations
      <3> QED
        BY <1>0, <2>2, <2>7, <3>1, AcceptValidationFacts DEF b
    <2>8. CASE phase = "Refresh"
      <3>1. v = AcceptRotation(w, r.reply, io)
        BY <1>2, <2>8 DEF HandleResult, Validations
      <3> QED
        BY <1>0, <2>1, <2>8, <3>1, AcceptRotationFacts DEF b
    <2>9. CASE phase = "Revoke"
      <3>1. v = FinishDisconnect(w, io)
        BY <1>2, <2>9 DEF HandleResult, Validations
      <3> QED
        BY <3>1, FinishAnswer DEF b
    <2> QED
      BY <1>0, <2>3, <2>4, <2>5, <2>6, <2>7, <2>8, <2>9 DEF Phases, Validations
  <1> QED
    BY <1>1, <1>2

LEMMA OutcomeComposes ==
  ASSUME NEW a, NEW b, NEW c, NEW g, NEW h, Outcome(a, b, g, h), Outcome(b, c, g, h),
         SameQueue(a, b), b.ctl.state = a.ctl.state
  PROVE  Outcome(a, c, g, h)
  <1>1. SameQueue(b, c) => SameQueue(a, c)
    BY DEF SameQueue
  <1>2. NewRequest(b, c, h) => NewRequest(a, c, h)
    BY DEF SameQueue, NewRequest
  <1>3. Lent(a) => Lent(b)
    BY DEF Outcome, Lent
  <1>4. /\ c.owner.active \in {0, a.owner.active, g} /\ c.saved \in {0, a.saved, g}
        /\ c.ctl.gen \in {0, a.ctl.gen, h}
    BY DEF Outcome
  <1>5. c.ctl.deferred # None => c.ctl.gen = h \/ (c.ctl.gen = a.ctl.gen /\ a.ctl.deferred # None)
    BY DEF Outcome
  <1>6. IF Lent(a) THEN c.owner = a.owner /\ c.saved = a.saved /\ c.ctl.tx = 0 ELSE ~Lent(c)
    BY <1>3 DEF Outcome
  <1> QED
    BY <1>1, <1>2, <1>4, <1>5, <1>6 DEF Outcome

(* The part of the controller's step that the queues see. *)
Quiet(q) == \A i \in 1 .. Len(q) : q[i].op \notin Sensitive
QueuesStep(v) ==
  /\ WorldInv(v) /\ Become(v) /\ UNCHANGED calling
  /\ SameQueue(World, v) \/ \E h : NewRequest(World, v, h)
  /\ results' = results \/ (results # <<>> /\ results' = Tail(results))
  /\ \/ v.ctl.request = ctl.request
     \/ Quiet(inbox) /\ Quiet(results') /\ (calling.id # 0 => calling.op \notin Sensitive)

(* What stays current: the controller waits for the same request, or the request *)
(* was not about a session.                                                      *)
LEMMA StaysCurrent ==
  ASSUME WorldInv(World), NEW v, SameQueue(World, v) \/ \E h : NewRequest(World, v, h),
         NEW r, Current(ctl, r), r.id \in Nat \ {0},
         v.ctl.request = ctl.request \/ r.op \notin Sensitive
  PROVE  Current(v.ctl, r)
  <1>1. ctl.next \in Nat /\ ctl.request \in Nat /\ ctl.request < ctl.next /\ World.ctl = ctl
    BY DEF WorldInv, WorldType, CtlType, World
  <1>2. CASE SameQueue(World, v)
    <2>1. v.ctl.next = ctl.next /\ (v.ctl.request = 0 \/ (v.ctl.request = ctl.request /\ v.ctl.phase = ctl.phase))
      BY <1>1, <1>2 DEF SameQueue
    <2> QED
      BY <1>1, <2>1 DEF Current
  <1>3. ASSUME NEW h, NewRequest(World, v, h) PROVE Current(v.ctl, r)
    <2>1. v.ctl.next = ctl.next + 1 /\ v.ctl.request = ctl.next
      BY <1>1, <1>3 DEF NewRequest
    <2> QED
      BY <1>1, <2>1 DEF Current
  <1> QED
    BY <1>2, <1>3

LEMMA QueuesKept ==
  ASSUME WorldInv(World), QueuesInv, NEW v, QueuesStep(v)
  PROVE  QueuesInv'
  <1>0. /\ ctl' = v.ctl /\ ctl.next \in Nat \ {0} /\ ctl.request \in Nat /\ World.ctl = ctl
        /\ World.inbox = inbox /\ inbox \in Seq(Request) /\ inbox' = v.inbox /\ calling' = calling
        /\ Len(inbox) \in Nat
    BY DEF QueuesStep, Become, WorldInv, WorldType, CtlType, World
  <1>1. results \in Seq(Answered) /\ (calling = NoCall \/ calling \in Called)
    BY DEF QueuesInv
  <1>2. \A i \in 1 .. Len(inbox) : inbox[i] \in Request /\ inbox[i].id \in Nat \ {0}
    <2>1. \A i \in 1 .. Len(inbox) : inbox[i] \in Request
      BY <1>0, ElementOfSeq
    <2>2. \A r \in Request : r.id \in Nat \ {0}
      BY DEF Request
    <2> QED
      BY <2>1, <2>2
  <1>3. /\ results' \in Seq(Answered) /\ AllCurrent(ctl, results') /\ Distinct(results')
        /\ \A id : Apart(results, id) => Apart(results', id)
    <2>1. AllCurrent(ctl, results) /\ Distinct(results)
      BY DEF QueuesInv
    <2>2. CASE results' = results
      BY <1>1, <2>1, <2>2
    <2>3. CASE results # <<>> /\ results' = Tail(results)
      <3> DEFINE q == Tail(results)
      <3>1. q \in Seq(Answered)
        BY <1>1, <2>3, TailElements
      <3>2. AllCurrent(ctl, q) /\ Distinct(q) /\ \A id : Apart(results, id) => Apart(q, id)
        BY <1>1, <2>1, <2>3, TailDistinct
      <3> QED
        BY <2>3, <3>1, <3>2
    <2> QED
      BY <2>2, <2>3 DEF QueuesStep
  <1>4. \A i \in 1 .. Len(results') : results'[i] \in Answered /\ results'[i].id \in Nat \ {0}
    <2>1. \A i \in 1 .. Len(results') : results'[i] \in Answered
      BY <1>3, ElementOfSeq
    <2>2. \A r \in Answered : r.id \in Nat \ {0}
      BY DEF Answered
    <2> QED
      BY <2>1, <2>2
  <1>a. \A r : Current(ctl, r) /\ r.id \in Nat \ {0} /\ (v.ctl.request = ctl.request \/ r.op \notin Sensitive)
           => Current(v.ctl, r)
    BY StaysCurrent DEF QueuesStep
  <1>5. AllCurrent(v.ctl, results')
    <2>1. \A i \in 1 .. Len(results') : v.ctl.request = ctl.request \/ results'[i].op \notin Sensitive
      BY DEF QueuesStep, Quiet
    <2> QED
      BY <1>3, <1>4, <1>a, <2>1 DEF AllCurrent
  <1>6. calling.id # 0 => Current(v.ctl, calling)
    <2> HAVE calling.id # 0
    <2>1. calling.id \in Nat \ {0}
      BY <1>1 DEF NoCall, Called
    <2>2. Current(ctl, calling) /\ (v.ctl.request = ctl.request \/ calling.op \notin Sensitive)
      BY DEF QueuesInv, QueuesStep
    <2> QED
      BY <1>a, <2>1, <2>2
  <1>7. AllCurrent(v.ctl, inbox)
    <2>1. \A i \in 1 .. Len(inbox) : v.ctl.request = ctl.request \/ inbox[i].op \notin Sensitive
      BY DEF QueuesStep, Quiet
    <2>2. AllCurrent(ctl, inbox)
      BY DEF QueuesInv
    <2> QED
      BY <1>2, <1>a, <2>1, <2>2 DEF AllCurrent
  <1>8. /\ Distinct(inbox) /\ Apart(inbox, calling.id) /\ Apart(results, calling.id)
        /\ \A i \in 1 .. Len(inbox) : Apart(results, inbox[i].id)
    BY DEF QueuesInv
  <1>9. CASE SameQueue(World, v)
    <2>1. inbox' = inbox
      BY <1>0, <1>9 DEF SameQueue
    <2> QED
      BY <1>0, <1>1, <1>3, <1>5, <1>6, <1>7, <1>8, <2>1 DEF QueuesInv
  <1>10. ASSUME NEW h, NewRequest(World, v, h) PROVE QueuesInv'
    <2>1. PICK r \in Request : /\ inbox' = Append(inbox, r)
                               /\ r.id = ctl.next /\ r.op = PhaseOperation(v.ctl.phase) /\ r.gen = h
      BY <1>0, <1>10 DEF NewRequest
    <2>2. v.ctl.request = ctl.next /\ v.ctl.next = ctl.next + 1
      BY <1>0, <1>10 DEF NewRequest
    <2>3. Current(v.ctl, r)
      BY <1>0, <2>1, <2>2 DEF Current
    <2>4. Apart(inbox, ctl.next) /\ Apart(results', ctl.next) /\ calling.id # ctl.next
      <3>1. \A i \in 1 .. Len(inbox) : inbox[i].id < ctl.next
        BY DEF QueuesInv, AllCurrent, Current
      <3>2. \A i \in 1 .. Len(results') : results'[i].id < ctl.next
        BY <1>3 DEF AllCurrent, Current
      <3>3. calling.id # 0 => calling.id < ctl.next
        BY DEF QueuesInv, Current
      <3> QED
        BY <1>0, <1>2, <1>4, <3>1, <3>2, <3>3 DEF Apart
    <2>5. Distinct(inbox') /\ AllCurrent(v.ctl, inbox') /\ Apart(inbox', calling.id)
      BY <1>0, <1>7, <1>8, <2>1, <2>3, <2>4, AppendDistinct
    <2>6. /\ Len(inbox) \in Nat
          /\ \A i \in 1 .. Len(inbox') : (i \in 1 .. Len(inbox) /\ inbox'[i] = inbox[i]) \/ (i = Len(inbox') /\ inbox'[i] = r)
      BY <1>0, <2>1, AppendElements
    <2>7. \A i \in 1 .. Len(inbox') : Apart(results', inbox'[i].id)
      BY <1>3, <1>8, <2>1, <2>4, <2>6
    <2>8. Apart(results', calling.id)
      BY <1>3, <1>8
    <2> QED
      BY <1>0, <1>1, <1>3, <1>5, <1>6, <2>5, <2>7, <2>8 DEF QueuesInv
  <1> QED
    BY <1>9, <1>10 DEF QueuesStep

LEMMA WorldParts ==
  ASSUME WorldInv(World)
  PROVE  /\ World.ctl = ctl /\ World.owner = owner /\ World.saved = saved /\ World.inbox = inbox
         /\ ctl \in CtlType /\ owner \in OwnerType /\ saved \in Nat /\ inbox \in Seq(Request)
         /\ ctl.next \in Nat \ {0} /\ ctl.request \in Nat /\ ctl.request < ctl.next /\ ctl.tx \in Nat
         /\ owner.pending \in Nat /\ owner.active \in Nat /\ owner.next \in Nat \ {0}
         /\ Len(inbox) \in Nat
  <1>1. World \in WorldType /\ ctl.request < ctl.next
    BY DEF WorldInv, World
  <1> QED
    BY <1>1 DEF World, WorldType, CtlType, OwnerType

(* The whole of the controller's step. *)
ControllerStep(v, g, h) ==
  /\ Outcome(World, v, g, h) /\ QueuesStep(v)
  /\ UNCHANGED <<service, superseded, chat>>
  /\ g \in Gens /\ h \in Gens /\ g \notin superseded
  /\ h \notin superseded \/ (v.ctl.deferred = None /\ v.ctl.phase \in {None, "Revoke"})
  /\ started' \in BOOLEAN /\ (started => started') /\ (~started' => v.owner = owner)
  /\ Gone(World) => Gone(v) \/ v.ctl.state = "Starting"
  /\ CutOff

LEMMA GensKept ==
  ASSUME SessionInv, NEW v, NEW g, NEW h, ControllerStep(v, g, h)
  PROVE  GensInv'
  <1>0. WorldInv(World) /\ QueuesInv /\ GensInv /\ Become(v) /\ service' = service /\ superseded' = superseded
        /\ calling' = calling /\ chat' = chat
    BY DEF SessionInv, ControllerStep, QueuesStep
  <1>1. /\ World.ctl = ctl /\ World.owner = owner /\ World.saved = saved /\ World.inbox = inbox
        /\ inbox \in Seq(Request)
    BY <1>0, WorldParts
  <1>2. Gens' = Gens
    BY <1>0 DEF Gens
  <1>3. 0 \in Gens /\ g \in Gens /\ h \in Gens
    BY <1>0 DEF Gens, GensInv, ControllerStep
  <1>4. saved' \in Gens /\ owner'.active \in Gens /\ ctl'.gen \in Gens
    BY <1>0, <1>1, <1>3 DEF Become, Outcome, ControllerStep, GensInv
  <1>5. \A i \in 1 .. Len(inbox') : inbox'[i].gen \in Gens
    <2>0. \A i \in 1 .. Len(inbox) : inbox[i].gen \in Gens
      BY <1>0 DEF GensInv
    <2>1. CASE SameQueue(World, v)
      BY <1>0, <1>1, <2>0, <2>1 DEF SameQueue, Become
    <2>2. CASE NewRequest(World, v, h)
      <3>1. PICK r \in Request : inbox' = Append(inbox, r) /\ r.gen = h
        BY <1>0, <1>1, <2>2 DEF NewRequest, Become
      <3>2. \A i \in 1 .. Len(inbox') : (i \in 1 .. Len(inbox) /\ inbox'[i] = inbox[i]) \/ inbox'[i] = r
        BY <1>1, <3>1, AppendElements
      <3> QED
        BY <1>3, <2>0, <3>1, <3>2
    <2> QED
      BY <2>1, <2>2 DEF ControllerStep, Outcome
  <1>6. \A i \in 1 .. Len(results') : results'[i].gen \in Gens /\ results'[i].reply \in Gens
    <2>0. \A i \in 1 .. Len(results) : results[i].gen \in Gens /\ results[i].reply \in Gens
      BY <1>0 DEF GensInv
    <2>1. CASE results' = results
      BY <2>0, <2>1
    <2>2. CASE results # <<>> /\ results' = Tail(results)
      <3>1. \A i \in 1 .. Len(results') : i + 1 \in 1 .. Len(results) /\ results'[i] = results[i + 1]
        BY <1>0, <2>2, TailElements DEF QueuesInv
      <3> QED
        BY <2>0, <3>1
    <2> QED
      BY <2>1, <2>2 DEF ControllerStep, QueuesStep
  <1> QED
    BY <1>0, <1>2, <1>4, <1>5, <1>6 DEF GensInv

LEMMA RotationKept ==
  ASSUME SessionInv, NEW v, NEW g, NEW h, ControllerStep(v, g, h)
  PROVE  RotationInv'
  <1>0. WorldInv(World) /\ QueuesInv /\ GensInv /\ RotationInv /\ Become(v) /\ service' = service
        /\ superseded' = superseded /\ calling' = calling /\ WorldInv(v)
    BY DEF SessionInv, ControllerStep, QueuesStep
  <1>1. /\ World.ctl = ctl /\ World.owner = owner /\ World.saved = saved /\ World.inbox = inbox
        /\ inbox \in Seq(Request) /\ ctl.request \in Nat /\ ctl.request < ctl.next /\ ctl.next \in Nat \ {0}
    BY <1>0, WorldParts
  <1>2. 0 \notin superseded /\ g \notin superseded
    BY <1>0 DEF GensInv, ControllerStep
  <1>3. owner'.active \notin superseded
    BY <1>0, <1>1, <1>2 DEF Become, Outcome, ControllerStep, RotationInv
  <1>4. ctl'.deferred # None => ctl'.gen \notin superseded
    BY <1>0, <1>1, <1>2 DEF Become, Outcome, ControllerStep, RotationInv
  <1>5. \A i \in 1 .. Len(inbox') : Usable(superseded, inbox'[i])
    <2>0. \A i \in 1 .. Len(inbox) : Usable(superseded, inbox[i])
      BY <1>0 DEF RotationInv
    <2>1. CASE SameQueue(World, v)
      BY <1>0, <1>1, <2>0, <2>1 DEF SameQueue, Become
    <2>2. CASE NewRequest(World, v, h)
      <3>1. PICK r \in Request : inbox' = Append(inbox, r) /\ r.gen = h /\ r.op = PhaseOperation(v.ctl.phase)
        BY <1>0, <1>1, <2>2 DEF NewRequest, Become
      <3>2. \A i \in 1 .. Len(inbox') : (i \in 1 .. Len(inbox) /\ inbox'[i] = inbox[i]) \/ inbox'[i] = r
        BY <1>1, <3>1, AppendElements
      <3>3. v.ctl.phase # None
        BY <1>0, <1>1, <2>2 DEF NewRequest, WorldInv
      <3>4. Usable(superseded, r)
        <4>1. CASE h \notin superseded
          BY <3>1, <4>1 DEF Usable
        <4>2. CASE v.ctl.phase = "Revoke"
          BY <3>1, <4>2 DEF Usable, PhaseOperation, Validations
        <4> QED
          BY <3>3, <4>1, <4>2 DEF ControllerStep
      <3> QED
        BY <2>0, <3>2, <3>4
    <2> QED
      BY <2>1, <2>2 DEF ControllerStep, Outcome
  <1>6. \A r : Current(ctl, r) /\ r.id \in Nat \ {0} /\ UsableAnswer(superseded, ctl.request, r)
           => UsableAnswer(superseded, ctl'.request, r)
    <2>1. ctl'.request \in {0, ctl.request, ctl.next}
      BY <1>0, <1>1 DEF ControllerStep, Outcome, SameQueue, NewRequest, Become
    <2> TAKE r
    <2> HAVE Current(ctl, r) /\ r.id \in Nat \ {0} /\ UsableAnswer(superseded, ctl.request, r)
    <2>2. r.id = ctl'.request => r.id = ctl.request
      BY <1>1, <2>1 DEF Current
    <2> QED
      BY <2>2 DEF UsableAnswer
  <1>7. \A i \in 1 .. Len(results') : UsableAnswer(superseded, ctl'.request, results'[i])
    <2>0. \A i \in 1 .. Len(results) : /\ UsableAnswer(superseded, ctl.request, results[i])
                                       /\ Current(ctl, results[i])
      BY <1>0 DEF RotationInv, QueuesInv, AllCurrent
    <2>3. results \in Seq(Answered)
      BY <1>0 DEF QueuesInv
    <2>4. \A i \in 1 .. Len(results) : results[i].id \in Nat \ {0}
      <3>1. \A i \in 1 .. Len(results) : results[i] \in Answered
        BY <2>3, ElementOfSeq
      <3> QED
        BY <3>1 DEF Answered
    <2>5. \A i \in 1 .. Len(results) : UsableAnswer(superseded, ctl'.request, results[i])
      BY <1>6, <2>0, <2>4
    <2>1. CASE results' = results
      BY <2>1, <2>5
    <2>2. CASE results # <<>> /\ results' = Tail(results)
      <3>1. \A i \in 1 .. Len(results') : i + 1 \in 1 .. Len(results) /\ results'[i] = results[i + 1]
        BY <2>2, <2>3, TailElements
      <3> QED
        BY <2>5, <3>1
    <2> QED
      BY <2>1, <2>2 DEF ControllerStep, QueuesStep
  <1>8. calling.id # 0 => IF calling.out = None THEN Usable(superseded, calling)
                          ELSE UsableAnswer(superseded, ctl'.request, calling)
    <2> HAVE calling.id # 0
    <2>1. Current(ctl, calling) /\ calling.id \in Nat \ {0}
      BY <1>0 DEF QueuesInv, NoCall, Called
    <2> QED
      BY <1>0, <1>6, <2>1 DEF RotationInv
  <1>9. ~started' => superseded = {} /\ owner'.pending = 0 /\ owner'.active = 0
    <2> HAVE ~started'
    <2>1. ~started /\ owner' = owner
      BY <1>0 DEF ControllerStep, Become
    <2> QED
      BY <1>0, <2>1 DEF RotationInv
  <1> QED
    BY <1>0, <1>3, <1>4, <1>5, <1>7, <1>8, <1>9 DEF RotationInv

LEMMA RecoveryKept ==
  ASSUME SessionInv, NEW v, NEW g, NEW h, ControllerStep(v, g, h)
  PROVE  RecoveryInv'
  <1>0. WorldInv(World) /\ RecoveryInv /\ Become(v) /\ superseded' = superseded /\ chat' = chat /\ WorldInv(v)
    BY DEF SessionInv, ControllerStep, QueuesStep
  <1>1. World.ctl = ctl /\ World.owner = owner /\ World.saved = saved
    BY <1>0, WorldParts
  <1>2. World'.ctl = v.ctl /\ World'.owner = v.owner
    BY <1>0 DEF World, Become
  <1>3. /\ Lent(World) => owner' = owner /\ saved' = saved
        /\ Lent(World)' <=> Lent(World)
    BY <1>0, <1>1, <1>2 DEF Lent, Outcome, ControllerStep, Become
  <1>4. owner'.stopping = owner.stopping
    BY <1>0, <1>1 DEF Outcome, ControllerStep, Become
  <1>5. owner.stopping => owner'.pending = 0
    BY <1>0, <1>4 DEF WorldInv, Become
  <1>6. ASSUME NEW t \in Threads PROVE Recovery(t)'
    <2>1. Recovery(t)
      BY <1>0 DEF RecoveryInv
    <2> QED
      BY <1>0, <1>3, <1>4, <2>1 DEF Recovery, Replacing
  <1>7. Lent(World)' => \E t \in Threads : chat[t].tx = owner'.pending
    BY <1>0, <1>3 DEF RecoveryInv
  <1>8. \A t, u \in Threads : chat[t].tx = owner'.pending /\ chat[u].tx = owner'.pending /\ owner'.pending # 0
                           => t = u
    <2> TAKE t, u \in Threads
    <2> HAVE chat[t].tx = owner'.pending /\ chat[u].tx = owner'.pending /\ owner'.pending # 0
    <2>1. ~owner.stopping
      BY <1>5
    <2>2. Recovery(t)
      BY <1>0 DEF RecoveryInv
    <2>3. Lent(World)
      BY <2>1, <2>2 DEF Recovery
    <2> QED
      BY <1>0, <1>3, <2>3 DEF RecoveryInv
  <1> QED
    BY <1>0, <1>6, <1>7, <1>8 DEF RecoveryInv

LEMMA ControllerKept ==
  ASSUME SessionInv, NEW v, NEW g, NEW h, ControllerStep(v, g, h)
  PROVE  SessionInv'
  <1>0. WorldInv(World) /\ QueuesInv /\ QueuesStep(v) /\ Become(v) /\ WorldInv(v) /\ CutOff
    BY DEF SessionInv, ControllerStep, QueuesStep
  <1>1. World' = [ctl |-> v.ctl, owner |-> v.owner, saved |-> v.saved, inbox |-> v.inbox]
    BY <1>0 DEF World, Become
  <1>2. World' = v
    BY <1>0, <1>1 DEF WorldInv, WorldType
  <1>3. WorldInv(World)'
    BY <1>0, <1>2 DEF WorldInv
  <1>4. cut' => Gone(World)'
    <2> HAVE cut'
    <2>1. World.ctl = ctl /\ ctl' = v.ctl
      BY <1>0 DEF World, Become
    <2>2. CASE ctl.state # "Disconnected" /\ ctl'.state = "Disconnected"
      BY <1>2, <2>1, <2>2 DEF ControllerStep, Outcome, Gone
    <2>3. CASE cut /\ ctl'.state # "Starting"
      BY <1>2, <2>1, <2>3 DEF ControllerStep, SessionInv, Gone
    <2> QED
      BY <1>0, <2>2, <2>3 DEF CutOff
  <1>5. ctl'.shut <=> owner'.stopping
    BY <1>0 DEF ControllerStep, Outcome, World, Become, SessionInv
  <1>6. cut' \in BOOLEAN /\ started' \in BOOLEAN
    BY <1>0 DEF CutOff, ControllerStep, SessionInv
  <1> QED
    BY <1>0, <1>3, <1>4, <1>5, <1>6, QueuesKept, GensKept, RotationKept, RecoveryKept DEF SessionInv

(* A change of the controller's record that opens and closes nothing. *)
LEMMA PatchFacts ==
  ASSUME NEW w, WorldInv(w), NEW c \in CtlType, c.tx = w.ctl.tx, c.next = w.ctl.next,
         c.shut = w.ctl.shut, c.gen = w.ctl.gen,
         c.state = w.ctl.state \/ c.state # "Disconnected",
         (c.request = w.ctl.request /\ c.phase = w.ctl.phase) \/ (c.request = 0 /\ c.phase = None),
         c.deferred \in {None, w.ctl.deferred}, c.code \in {None, w.ctl.code} \/ w.ctl.code # None,
         NEW v, v = [w EXCEPT !.ctl = c], NEW g, NEW h
  PROVE  /\ WorldInv(v) /\ Outcome(w, v, g, h) /\ SameQueue(w, v) /\ v.ctl = c
         /\ v.owner = w.owner /\ v.saved = w.saved /\ v.inbox = w.inbox
  <1>0. w \in WorldType /\ w.ctl \in CtlType
    BY DEF WorldInv, WorldType
  <1>1. v \in WorldType /\ v.ctl = c /\ v.owner = w.owner /\ v.saved = w.saved /\ v.inbox = w.inbox
    BY <1>0 DEF WorldType
  <1>2. c.request \in Nat /\ c.next \in Nat \ {0} /\ w.ctl.next \in Nat \ {0}
    BY <1>0 DEF CtlType
  <1>3. WorldInv(v)
    <2>1. c.request # 0 <=> c.phase # None
      BY DEF WorldInv
    <2>2. c.code # None => c.phase \in {None, "Poll"} /\ c.deferred = None
      BY DEF WorldInv
    <2>3. c.tx = 0 => c.request = 0 /\ c.gen = 0 /\ c.code = None /\ c.deferred = None
      BY DEF WorldInv
    <2>4. (c.request # 0 => c.gen = 0 /\ c.deferred = None) /\ c.request < c.next
      BY <1>2 DEF WorldInv
    <2> QED
      BY <1>1, <2>1, <2>2, <2>3, <2>4 DEF WorldInv
  <1>4. SameQueue(w, v)
    BY <1>1 DEF SameQueue
  <1>5. Outcome(w, v, g, h)
    BY <1>1, <1>3, <1>4 DEF Outcome, Lent
  <1> QED
    BY <1>1, <1>3, <1>4, <1>5

LEMMA ConnectedOutcome ==
  ASSUME NEW w, WorldInv(w), NEW g, NEW h
  PROVE  Outcome(w, SetConnected(w), g, h)
  <1> DEFINE v == SetConnected(w)
  <1>1. /\ WorldInv(v)
        /\ v.owner = w.owner /\ v.saved = w.saved /\ v.inbox = w.inbox
        /\ v.ctl.tx = w.ctl.tx /\ v.ctl.next = w.ctl.next /\ v.ctl.shut = w.ctl.shut
        /\ v.ctl.request = w.ctl.request /\ v.ctl.phase = w.ctl.phase
        /\ v.ctl.gen = 0 /\ v.ctl.deferred = None /\ v.ctl.state = "Connected"
    BY SetConnectedFacts
  <1> HIDE DEF v
  <1>2. SameQueue(w, v)
    BY <1>1 DEF SameQueue
  <1> QED
    BY <1>1, <1>2 DEF Outcome, Lent, v

LEMMA AdoptOutcome ==
  ASSUME NEW w, WorldInv(w), w.ctl.tx = 0, Idle(w.owner), NEW gen \in Nat, NEW restorable \in BOOLEAN, NEW g
  PROVE  LET v == Adopt(w, gen, restorable) IN
         /\ Outcome(w, v, g, gen) /\ SameQueue(w, v) /\ WorldInv(v)
         /\ v.ctl.tx # 0 /\ v.ctl.gen = gen /\ v.ctl.request = 0 /\ v.ctl.deferred = None /\ v.ctl.code = None
         /\ v.ctl.state = w.ctl.state /\ v.saved = w.saved /\ v.owner.active = 0
  <1> DEFINE v == Adopt(w, gen, restorable)
  <1>1. /\ WorldInv(v)
        /\ v.ctl.tx = w.owner.next /\ v.ctl.tx # 0 /\ v.owner.pending = w.owner.next
        /\ v.owner.active = 0 /\ v.owner.stopping = w.owner.stopping
        /\ v.saved = w.saved /\ v.inbox = w.inbox /\ v.ctl.gen = gen
        /\ v.ctl.next = w.ctl.next /\ v.ctl.shut = w.ctl.shut
        /\ v.ctl.request = 0 /\ v.ctl.phase = None /\ v.ctl.deferred = None /\ v.ctl.code = None
        /\ v.ctl.state = w.ctl.state
    BY AdoptFacts
  <1> HIDE DEF v
  <1>2. SameQueue(w, v)
    BY <1>1 DEF SameQueue
  <1>3. ~Lent(w) /\ ~Lent(v)
    BY <1>1 DEF Lent, Idle
  <1> QED
    BY <1>1, <1>2, <1>3 DEF Outcome, v

(* No request about a session is under way unless the controller waits for it. *)
LEMMA AllQuiet ==
  ASSUME SessionInv, ctl.request = 0 \/ ctl.phase = "Poll"
  PROVE  Quiet(inbox) /\ Quiet(results) /\ (calling.id # 0 => calling.op \notin Sensitive)
  <1>0. WorldInv(World) /\ QueuesInv
    BY DEF SessionInv
  <1>1. inbox \in Seq(Request) /\ results \in Seq(Answered)
    BY <1>0, WorldParts DEF QueuesInv
  <1>2. \A r : Current(ctl, r) /\ r.id # 0 => r.op \notin Sensitive
    BY DEF Current, PhaseOperation, Sensitive, Validations
  <1>3. \A i \in 1 .. Len(inbox) : inbox[i] \in Request
    BY <1>1, ElementOfSeq
  <1>4. \A i \in 1 .. Len(results) : results[i] \in Answered
    BY <1>1, ElementOfSeq
  <1>5. (\A r \in Request : r.id # 0) /\ (\A r \in Answered : r.id # 0)
    BY DEF Request, Answered
  <1>6. Quiet(inbox)
    BY <1>0, <1>2, <1>3, <1>5 DEF Quiet, QueuesInv, AllCurrent
  <1>7. Quiet(results)
    BY <1>0, <1>2, <1>4, <1>5 DEF Quiet, QueuesInv, AllCurrent
  <1> QED
    BY <1>0, <1>2, <1>6, <1>7 DEF QueuesInv

LEMMA ControllerActs ==
  ASSUME SessionInv, NEW v, NEW g \in Gens, NEW h \in Gens, Outcome(World, v, g, h), Become(v),
         UNCHANGED <<service, superseded, calling, results, chat>>, CutOff,
         v.ctl.request = ctl.request \/ ctl.request = 0 \/ ctl.phase = "Poll",
         g \notin superseded,
         h \notin superseded \/ (v.ctl.deferred = None /\ v.ctl.phase \in {None, "Revoke"}),
         started' \in BOOLEAN, started => started', ~started' => v.owner = owner,
         Gone(World) => Gone(v) \/ v.ctl.state = "Starting"
  PROVE  SessionInv'
  <1>1. WorldInv(v) /\ (SameQueue(World, v) \/ \E x : NewRequest(World, v, x))
    BY DEF Outcome
  <1>2. QueuesStep(v)
    BY <1>1, AllQuiet DEF QueuesStep
  <1>3. ControllerStep(v, g, h)
    BY <1>2 DEF ControllerStep
  <1> QED
    BY <1>3, ControllerKept

ControllerFrame ==
  UNCHANGED <<service, superseded, calling, results, chat>> /\ CutOff

LEMMA SessionParts ==
  ASSUME SessionInv
  PROVE  /\ WorldInv(World) /\ QueuesInv /\ GensInv /\ RotationInv /\ RecoveryInv
         /\ World.ctl = ctl /\ World.owner = owner /\ World.saved = saved /\ World.inbox = inbox
         /\ ctl \in CtlType /\ owner \in OwnerType
         /\ 0 \in Gens /\ Gens \subseteq Nat /\ 0 \notin superseded
         /\ started \in BOOLEAN
         /\ ctl.tx # 0 => started /\ ~Gone(World) /\ ~owner.stopping /\ owner.active = 0
         /\ ctl.request # 0 => ctl.tx # 0
         /\ ctl.code # None => ctl.tx # 0 /\ ctl.phase \in {None, "Poll"}
         /\ ctl.deferred # None => ctl.tx # 0 /\ ctl.code = None
  <1>1. WorldInv(World) /\ QueuesInv /\ GensInv /\ RotationInv /\ RecoveryInv /\ started \in BOOLEAN
    BY DEF SessionInv
  <1>2. World.ctl = ctl /\ World.owner = owner /\ World.saved = saved /\ World.inbox = inbox
        /\ ctl \in CtlType /\ owner \in OwnerType
    BY <1>1, WorldParts
  <1>3. 0 \in Gens /\ Gens \subseteq Nat /\ 0 \notin superseded
    BY <1>1 DEF Gens, GensInv
  <1>4. ctl.tx # 0 => owner.pending # 0
    BY <1>1, <1>2 DEF WorldInv
  <1>5. ctl.tx # 0 => started /\ ~Gone(World) /\ ~owner.stopping /\ owner.active = 0
    BY <1>1, <1>2, <1>4 DEF WorldInv, RotationInv, Gone
  <1> QED
    BY <1>1, <1>2, <1>3, <1>5 DEF WorldInv

LEMMA NothingOutcome ==
  ASSUME SessionInv, NEW g, NEW h
  PROVE  Outcome(World, World, g, h)
  <1> DEFINE w == World
  <1>1. WorldInv(w)
    BY DEF SessionInv
  <1>4. Outcome(w, w, g, h)
    <2> HIDE DEF w
    <2>1. SameQueue(w, w)
      BY DEF SameQueue
    <2>2. w.ctl.deferred # None => w.ctl.tx # 0
      BY <1>1 DEF WorldInv
    <2>3. IF Lent(w) THEN w.owner = w.owner /\ w.saved = w.saved /\ w.ctl.tx = 0 ELSE ~Lent(w)
      BY DEF Lent
    <2> QED
      BY <1>1, <2>1, <2>2, <2>3 DEF Outcome
  <1> QED
    BY <1>4

LEMMA FailSafe ==
  ASSUME SessionInv, NEW erase \in BOOLEAN, NEW io \in Storage, Become(Fail(World, erase, io)),
         ControllerFrame, ctl.request = 0 \/ ctl.phase = "Poll",
         started' \in BOOLEAN, started => started'
  PROVE  SessionInv'
  <1> DEFINE v == Fail(World, erase, io)
  <1>0. /\ WorldInv(World) /\ World.ctl = ctl /\ World.owner = owner /\ World.saved = saved
        /\ 0 \in Gens /\ 0 \notin superseded /\ (ctl.tx # 0 => started /\ ~Gone(World))
    BY SessionParts
  <1>1. Outcome(World, v, 0, 0)
    BY <1>0, FailOutcome
  <1>2. /\ v.ctl.tx = 0
        /\ IF ctl.tx = 0 THEN v.owner = owner /\ v.saved = saved
           ELSE v.owner.active = 0 /\ v.owner.pending = 0 /\ v.saved \in {0, saved}
    BY <1>0, FailKeeps
  <1>b. Become(v)
    OBVIOUS
  <1> HIDE DEF v
  <1>3. ~started' => v.owner = owner
    BY <1>0, <1>2
  <1>4. Gone(World) => Gone(v)
    BY <1>0, <1>2 DEF Gone
  <1> QED
    BY <1>0, <1>1, <1>3, <1>4, <1>b, ControllerActs DEF ControllerFrame

LEMMA NothingSafe ==
  ASSUME SessionInv, Become(World), ControllerFrame, started' \in BOOLEAN, started => started'
  PROVE  SessionInv'
  <1> DEFINE v == World
  <1>0. World.owner = owner /\ World.ctl = ctl /\ 0 \in Gens /\ 0 \notin superseded
    BY SessionParts
  <1>1. Outcome(World, v, 0, 0) /\ v.ctl.request = ctl.request /\ v.owner = owner /\ Become(v)
        /\ (Gone(World) => Gone(v))
    BY <1>0, NothingOutcome
  <1> HIDE DEF v
  <1> QED
    BY <1>0, <1>1, ControllerActs DEF ControllerFrame

(* A request is dispatched after a preparation that leaves the state alone. *)
LEMMA DispatchSafe ==
  ASSUME SessionInv, NEW w, NEW phase \in Phases, NEW gen \in Gens, NEW io \in Storage,
         Outcome(World, w, 0, gen), SameQueue(World, w), WorldInv(w),
         w.ctl.state = ctl.state,
         w.ctl.request = 0, w.ctl.tx # 0, w.ctl.deferred = None, phase # "Poll" => w.ctl.code = None,
         Become(Dispatch(w, phase, gen, io)),
         ControllerFrame, ctl.request = 0 \/ ctl.phase = "Poll",
         gen \notin superseded \/ phase = "Revoke",
         started' = TRUE,
         Gone(World) => phase = "Start" /\ w.saved = 0
  PROVE  SessionInv'
  <1> DEFINE v == Dispatch(w, phase, gen, io)
  <1>0. /\ World.ctl = ctl /\ World.owner = owner /\ 0 \in Gens /\ Gens \subseteq Nat /\ 0 \notin superseded
    BY SessionParts
  <1>b. Become(v)
    OBVIOUS
  <1>1. /\ Outcome(w, v, 0, gen)
        /\ v.ctl.phase \in {None, phase} /\ v.ctl.gen = 0 /\ v.ctl.deferred = None
        /\ v.owner.active \in {0, w.owner.active} /\ v.saved \in {0, w.saved}
        /\ \/ v.ctl.state = PhaseState(phase)
           \/ v.owner.active = 0 /\ v.owner.pending = 0 /\ v.ctl.tx = 0
    BY <1>0, DispatchFacts
  <1> HIDE DEF v
  <1>2. Outcome(World, v, 0, gen)
    BY <1>0, <1>1, OutcomeComposes
  <1>3. Gone(World) => Gone(v) \/ v.ctl.state = "Starting"
    BY <1>1 DEF Gone, PhaseState
  <1>4. started' \in BOOLEAN /\ started => started' /\ (~started' => v.owner = owner)
    OBVIOUS
  <1>5. gen \notin superseded \/ (v.ctl.deferred = None /\ v.ctl.phase \in {None, "Revoke"})
    BY <1>1
  <1> QED
    BY <1>0, <1>2, <1>3, <1>4, <1>5, <1>b, ControllerActs DEF ControllerFrame

LEMMA TickExpiredSafe ==
  ASSUME SessionInv, TickExpired, UNCHANGED chat, CutOff
  PROVE  SessionInv'
  <1> DEFINE erase == FALSE
             io == AllStored
  <1>1. Become(Fail(World, erase, io)) /\ erase \in BOOLEAN /\ io \in Storage
    BY DEF TickExpired, AllStored, Storage
  <1>2. ControllerFrame /\ started' = started /\ (ctl.request = 0 \/ ctl.phase = "Poll")
    <2>1. ctl.code # None
      BY DEF TickExpired
    <2>2. ctl.phase \in {None, "Poll"} /\ WorldInv(World) /\ World.ctl = ctl
      BY <2>1, SessionParts
    <2>3. ctl.phase = None => ctl.request = 0
      BY <2>2 DEF WorldInv
    <2> QED
      BY <2>2, <2>3 DEF TickExpired, TickFrame, ControllerFrame
  <1>3. started \in BOOLEAN
    BY SessionParts
  <1> HIDE DEF erase, io
  <1> QED
    BY <1>1, <1>2, <1>3, FailSafe

LEMMA TickDeferredSafe ==
  ASSUME SessionInv, TickDeferred, UNCHANGED chat, CutOff
  PROVE  SessionInv'
  <1> DEFINE c == [ctl EXCEPT !.deferred = None]
             w == [World EXCEPT !.ctl.deferred = None]
  <1>0. /\ WorldInv(World) /\ World.ctl = ctl /\ ctl \in CtlType /\ GensInv /\ RotationInv
        /\ ctl.tx # 0 /\ ctl.code = None /\ ctl.request = 0 /\ started /\ ~Gone(World) /\ ctl.deferred # None
    BY SessionParts DEF TickDeferred, TickQuiet
  <1>1. PICK io \in Storage : Become(Dispatch(w, ctl.deferred, ctl.gen, io))
    BY DEF TickDeferred
  <1>2. ControllerFrame /\ started' = TRUE
    <2>1. started \in BOOLEAN /\ started' = started
      BY SessionParts DEF TickDeferred, TickFrame
    <2> QED
      BY <1>0, <2>1 DEF TickDeferred, TickFrame, ControllerFrame
  <1>3. w = [World EXCEPT !.ctl = c]
    BY <1>0 DEF World
  <1>4. /\ c \in CtlType /\ c.tx = ctl.tx /\ c.next = ctl.next /\ c.shut = ctl.shut /\ c.gen = ctl.gen
        /\ c.state = ctl.state /\ c.request = ctl.request /\ c.phase = ctl.phase /\ c.deferred = None
        /\ c.code = ctl.code
    BY <1>0 DEF CtlType
  <1> DEFINE phase == ctl.deferred
             gen == ctl.gen
  <1>5. phase \in Phases /\ phase # "Poll" /\ gen \in Gens /\ gen \notin superseded
    BY <1>0 DEF CtlType, Phases, Validations, GensInv, RotationInv
  <1>b. Become(Dispatch(w, phase, gen, io))
    BY <1>1
  <1> HIDE DEF c, w, phase, gen
  <1>6. WorldInv(w) /\ Outcome(World, w, 0, gen) /\ SameQueue(World, w) /\ w.ctl = c
    BY <1>0, <1>3, <1>4, PatchFacts
  <1> QED
    BY <1>0, <1>2, <1>4, <1>5, <1>6, <1>b, DispatchSafe

LEMMA TickPollSafe ==
  ASSUME SessionInv, TickPoll, UNCHANGED chat, CutOff
  PROVE  SessionInv'
  <1>0. /\ WorldInv(World) /\ World.ctl = ctl /\ ctl \in CtlType /\ 0 \in Gens /\ 0 \notin superseded
        /\ ctl.tx # 0 /\ ctl.code # None /\ ctl.request = 0 /\ started /\ ~Gone(World) /\ ctl.deferred = None
    BY SessionParts DEF TickPoll, TickQuiet
  <1>2. ControllerFrame /\ started' = TRUE
    <2>1. started \in BOOLEAN /\ started' = started
      BY SessionParts DEF TickPoll, TickFrame
    <2> QED
      BY <1>0, <2>1 DEF TickPoll, TickFrame, ControllerFrame
  <1>s. AllStored \in Storage
    BY DEF AllStored, Storage
  <1>1. CASE ctl.code = "Held"
    <2> DEFINE c == [ctl EXCEPT !.code = "Sent"]
               w == [World EXCEPT !.ctl.code = "Sent"]
               phase == "Poll"
               gen == 0
               io == AllStored
    <2>1. Become(Dispatch(w, phase, gen, io))
      BY <1>1 DEF TickPoll
    <2>3. w = [World EXCEPT !.ctl = c]
      BY <1>0 DEF World
    <2>4. /\ c \in CtlType /\ c.tx = ctl.tx /\ c.next = ctl.next /\ c.shut = ctl.shut /\ c.gen = ctl.gen
          /\ c.state = ctl.state /\ c.request = ctl.request /\ c.phase = ctl.phase /\ c.deferred = None
      BY <1>0 DEF CtlType
    <2>5. phase \in Phases /\ phase = "Poll" /\ gen \in Gens /\ gen \notin superseded /\ io \in Storage
      BY <1>0, <1>s DEF Phases
    <2> HIDE DEF c, w, phase, gen, io
    <2>6. WorldInv(w) /\ Outcome(World, w, 0, gen) /\ SameQueue(World, w) /\ w.ctl = c
      BY <1>0, <2>3, <2>4, PatchFacts
    <2> QED
      BY <1>0, <1>2, <2>1, <2>4, <2>5, <2>6, DispatchSafe
  <1>3. CASE ctl.code # "Held"
    <2> DEFINE erase == FALSE
               io == AllStored
    <2>1. Become(Fail(World, erase, io)) /\ erase \in BOOLEAN /\ io \in Storage
      BY <1>s, <1>3 DEF TickPoll
    <2> HIDE DEF erase, io
    <2> QED
      BY <1>0, <1>2, <2>1, FailSafe
  <1> QED
    BY <1>1, <1>3

LEMMA TickWatchSafe ==
  ASSUME SessionInv, TickWatch, UNCHANGED chat, CutOff
  PROVE  SessionInv'
  <1>0. /\ WorldInv(World) /\ World.ctl = ctl /\ ctl \in CtlType /\ 0 \in Gens /\ 0 \notin superseded
        /\ ctl.request = 0 /\ World.owner = owner /\ started \in BOOLEAN
        /\ ctl.state \in {"Connected", "Validating"}
        /\ (ctl.tx # 0 => started /\ ~Gone(World))
        /\ ctl.phase = None /\ started' = started
    <2>1. /\ WorldInv(World) /\ World.ctl = ctl /\ ctl \in CtlType /\ 0 \in Gens /\ 0 \notin superseded
          /\ World.owner = owner /\ started \in BOOLEAN /\ (ctl.tx # 0 => started /\ ~Gone(World))
      BY SessionParts
    <2>2. ctl.request = 0 /\ ctl.state \in {"Connected", "Validating"} /\ started' = started
      BY DEF TickWatch, Watching, TickQuiet, TickFrame
    <2> QED
      BY <2>1, <2>2 DEF WorldInv
  <1>2. ControllerFrame
    BY DEF TickWatch, TickFrame, ControllerFrame
  <1>s. AllStored \in Storage
    BY DEF AllStored, Storage
  <1>1. CASE Updating(owner)
    <2> DEFINE c == [ctl EXCEPT !.state = "Validating"]
               v == [World EXCEPT !.ctl.state = "Validating"]
               g == 0
    <2>1. Become(v)
      BY <1>1 DEF TickWatch
    <2>3. v = [World EXCEPT !.ctl = c]
      BY <1>0 DEF World
    <2>4. /\ c \in CtlType /\ c.tx = ctl.tx /\ c.next = ctl.next /\ c.shut = ctl.shut /\ c.gen = ctl.gen
          /\ c.state # "Disconnected" /\ c.request = ctl.request /\ c.phase = ctl.phase
          /\ c.deferred = ctl.deferred /\ c.code = ctl.code
      BY <1>0 DEF CtlType, States
    <2>5. g \in Gens /\ g \notin superseded
      BY <1>0
    <2> HIDE DEF c, v, g
    <2>6. Outcome(World, v, g, g) /\ v.ctl = c /\ v.owner = World.owner /\ v.saved = World.saved
      BY <1>0, <2>3, <2>4, PatchFacts
    <2>7. Gone(World) => Gone(v)
      BY <1>0, <2>4, <2>6 DEF Gone
    <2>8. UNCHANGED <<service, superseded, calling, results, chat>> /\ CutOff
      BY <1>2 DEF ControllerFrame
    <2> QED
      BY <1>0, <2>1, <2>4, <2>5, <2>6, <2>7, <2>8, ControllerActs
  <1>3. CASE ~Updating(owner) /\ (owner.stopping \/ owner.active = 0)
    <2> DEFINE erase == FALSE
               io == AllStored
    <2>1. Become(Fail(World, erase, io)) /\ erase \in BOOLEAN /\ io \in Storage
      BY <1>s, <1>3 DEF TickWatch
    <2> HIDE DEF erase, io
    <2> QED
      BY <1>0, <1>2, <2>1, FailSafe
  <1>4. CASE ~Updating(owner) /\ ~(owner.stopping \/ owner.active = 0)
    <2> DEFINE v == SetConnected(World)
               g == 0
    <2>1. Become(v)
      BY <1>4 DEF TickWatch
    <2>2. Outcome(World, v, g, g)
      BY <1>0, ConnectedOutcome
    <2>3. v.owner = World.owner /\ v.ctl.request = ctl.request
      BY <1>0, SetConnectedFacts
    <2>4. g \in Gens /\ g \notin superseded
      BY <1>0
    <2>5. ~Gone(World)
      BY <1>0, <1>4 DEF Gone
    <2> HIDE DEF v, g
    <2>8. UNCHANGED <<service, superseded, calling, results, chat>> /\ CutOff
      BY <1>2 DEF ControllerFrame
    <2>9. (v.ctl.deferred = None /\ v.ctl.phase \in {None, "Revoke"}) \/ g \notin superseded
      BY <2>4
    <2> QED
      BY <1>0, <2>1, <2>2, <2>3, <2>4, <2>5, <2>8, <2>9, ControllerActs
  <1> QED
    BY <1>1, <1>3, <1>4

LEMMA EnablePostingSafe ==
  ASSUME SessionInv, EnablePosting, UNCHANGED chat, CutOff
  PROVE  SessionInv'
  <1>1. World.ctl = ctl /\ World.owner = owner /\ World.saved = saved /\ World.inbox = inbox
        /\ started \in BOOLEAN
    BY SessionParts
  <1>2. Become(World) /\ ControllerFrame /\ started' = started
    BY <1>1 DEF EnablePosting, Become, ControllerFrame, ownerVars
  <1> QED
    BY <1>1, <1>2, NothingSafe

LEMMA TickScheduleSafe ==
  ASSUME SessionInv, TickSchedule, UNCHANGED chat, CutOff
  PROVE  SessionInv'
  <1>0. /\ WorldInv(World) /\ World.ctl = ctl /\ World.owner = owner /\ RotationInv /\ GensInv
        /\ ctl.request = 0 /\ Idle(owner) /\ owner.active # 0 /\ started \in BOOLEAN
        /\ Gens \subseteq Nat
    BY SessionParts DEF TickSchedule, Watching, TickQuiet
  <1>1. PICK phase \in {"Refresh", "ValidateActive"} :
          Become(Dispatch(Adopt(World, owner.active, TRUE), phase, owner.active, AllStored))
    BY DEF TickSchedule
  <1>2. ControllerFrame /\ started' = started /\ started
    <2>1. ControllerFrame /\ started' = started
      BY DEF TickSchedule, ControllerFrame
    <2>2. started
      BY <1>0 DEF RotationInv
    <2> QED
      BY <2>1, <2>2
  <1> DEFINE gen == owner.active
             restorable == TRUE
             w == Adopt(World, gen, restorable)
             io == AllStored
  <1>3. gen \in Gens /\ gen \in Nat /\ gen \notin superseded /\ restorable \in BOOLEAN /\ io \in Storage
    BY <1>0 DEF GensInv, RotationInv, AllStored, Storage
  <1>4. ctl.tx = 0
    BY <1>0 DEF WorldInv
  <1>5. phase \in Phases /\ phase # "Poll"
    BY DEF Phases
  <1>6. /\ Outcome(World, w, 0, gen) /\ SameQueue(World, w) /\ WorldInv(w)
        /\ w.ctl.tx # 0 /\ w.ctl.request = 0 /\ w.ctl.deferred = None /\ w.ctl.code = None
        /\ w.ctl.state = World.ctl.state
    BY <1>0, <1>3, <1>4, AdoptOutcome
  <1>7. Become(Dispatch(w, phase, gen, io))
    BY <1>1
  <1>8. ~Gone(World)
    BY <1>0 DEF Gone
  <1> HIDE DEF gen, w, io
  <1> QED
    BY <1>0, <1>2, <1>3, <1>5, <1>6, <1>7, <1>8, DispatchSafe

LEMMA BeginConnectionSafe ==
  ASSUME SessionInv, BeginConnection, UNCHANGED chat, CutOff
  PROVE  SessionInv'
  <1>0. /\ WorldInv(World) /\ World.ctl = ctl /\ ctl \in CtlType /\ World.owner = owner
        /\ owner \in OwnerType /\ World.saved = saved
        /\ 0 \in Gens /\ 0 \notin superseded
        /\ ctl.request = 0 /\ ctl.tx = 0 /\ Idle(owner) /\ started
    BY SessionParts DEF BeginConnection, IdleConnection
  <1> DEFINE c == [ctl EXCEPT !.tx = owner.next]
             restorable == FALSE
             w == [World EXCEPT !.ctl.tx = owner.next, !.owner = Start(@, FALSE)]
             phase == "Start"
             gen == 0
             io == AllStored
  <1>1. Become(Dispatch(w, phase, gen, io))
    BY DEF BeginConnection
  <1>2. ControllerFrame /\ started' = TRUE
    BY <1>0 DEF BeginConnection, ControllerFrame
  <1>3. /\ c \in CtlType /\ c.tx = owner.next /\ c.next = ctl.next /\ c.shut = ctl.shut
        /\ c.request = ctl.request /\ c.phase = ctl.phase /\ c.code = ctl.code
        /\ c.deferred = ctl.deferred /\ c.state = ctl.state /\ c.gen = ctl.gen
    BY <1>0 DEF CtlType, OwnerType
  <1>4. w = TakenOut(World, c, restorable)
    BY <1>0 DEF TakenOut, World
  <1>5. restorable \in BOOLEAN /\ phase \in Phases /\ phase # "Poll" /\ io \in Storage
        /\ gen \in Gens /\ gen \notin superseded /\ phase = "Start" /\ gen = 0
    BY <1>0 DEF Phases, AllStored, Storage
  <1> HIDE DEF c, restorable, w, phase, gen, io
  <1>6. /\ WorldInv(w)
        /\ w.ctl = c /\ w.ctl.tx # 0 /\ w.owner.pending = World.owner.next
        /\ w.owner.active = 0 /\ w.owner.stopping = World.owner.stopping
        /\ w.saved = World.saved /\ w.inbox = World.inbox
        /\ w.ctl.request = 0 /\ w.ctl.phase = None /\ w.ctl.deferred = None /\ w.ctl.code = None
    BY <1>0, <1>3, <1>4, <1>5, TakeOutFacts
  <1>7. SameQueue(World, w)
    BY <1>0, <1>3, <1>6 DEF SameQueue
  <1>9. ctl.gen = 0 /\ ~Lent(World) /\ ~Lent(w)
    BY <1>0, <1>6 DEF WorldInv, Lent, Idle
  <1>8. Outcome(World, w, 0, gen)
    <2>1. w.ctl.state = World.ctl.state /\ w.ctl.shut = World.ctl.shut /\ w.ctl.gen = 0
      BY <1>0, <1>3, <1>6, <1>9
    <2> QED
      BY <1>0, <1>6, <1>7, <1>9, <2>1 DEF Outcome
  <1>10. Gone(World) => phase = "Start" /\ w.saved = 0
    BY <1>0, <1>5, <1>6 DEF Gone
  <1> QED
    BY <1>0, <1>2, <1>3, <1>5, <1>6, <1>7, <1>8, <1>10, <1>1, DispatchSafe

LEMMA BeginSavedConnectionSafe ==
  ASSUME SessionInv, BeginSavedConnection, UNCHANGED chat, CutOff
  PROVE  SessionInv'
  <1>0. /\ WorldInv(World) /\ World.ctl = ctl /\ World.owner = owner /\ World.saved = saved
        /\ GensInv /\ 0 \in Gens /\ 0 \notin superseded /\ Gens \subseteq Nat
        /\ started \in BOOLEAN /\ superseded = {}
        /\ ctl.request = 0 /\ ctl.tx = 0 /\ Idle(owner)
    <2>1. ~started /\ ~ctl.shut /\ ctl.request = 0 /\ ctl.tx = 0
      BY DEF BeginSavedConnection, IdleConnection
    <2>2. /\ WorldInv(World) /\ World.ctl = ctl /\ World.owner = owner /\ World.saved = saved
          /\ GensInv /\ RotationInv /\ 0 \in Gens /\ 0 \notin superseded /\ Gens \subseteq Nat
          /\ started \in BOOLEAN
      BY SessionParts
    <2>3. ~owner.stopping
      BY <2>1 DEF SessionInv
    <2> QED
      BY <2>1, <2>2, <2>3 DEF RotationInv, Idle
  <1>2. ControllerFrame /\ started' = TRUE
    BY DEF BeginSavedConnection, ControllerFrame
  <1>s. AllStored \in Storage
    BY DEF AllStored, Storage
  <1>w. \/ Become(IF saved = 0 THEN World
                  ELSE Dispatch(Adopt(World, saved, FALSE), "ValidateSaved", saved, AllStored))
        \/ Become(Fail(World, FALSE, AllStored))
    BY DEF BeginSavedConnection
  <1>1. CASE Become(Fail(World, FALSE, AllStored))
    <2> DEFINE erase == FALSE
               io == AllStored
    <2>1. Become(Fail(World, erase, io)) /\ erase \in BOOLEAN /\ io \in Storage
      BY <1>s, <1>1
    <2> HIDE DEF erase, io
    <2> QED
      BY <1>0, <1>2, <2>1, FailSafe
  <1>3. CASE Become(World)
    BY <1>0, <1>2, <1>3, NothingSafe
  <1>4. CASE saved # 0 /\ Become(Dispatch(Adopt(World, saved, FALSE), "ValidateSaved", saved, AllStored))
    <2> DEFINE gen == saved
               restorable == FALSE
               w == Adopt(World, gen, restorable)
               phase == "ValidateSaved"
               io == AllStored
    <2>3. gen \in Gens /\ gen \in Nat /\ gen \notin superseded /\ restorable \in BOOLEAN /\ io \in Storage
      BY <1>0, <1>s DEF GensInv
    <2>5. phase \in Phases /\ phase # "Poll"
      BY DEF Phases
    <2>6. /\ Outcome(World, w, 0, gen) /\ SameQueue(World, w) /\ WorldInv(w)
          /\ w.ctl.tx # 0 /\ w.ctl.request = 0 /\ w.ctl.deferred = None /\ w.ctl.code = None
          /\ w.ctl.state = World.ctl.state
      BY <1>0, <2>3, AdoptOutcome
    <2>7. Become(Dispatch(w, phase, gen, io))
      BY <1>4
    <2>8. ~Gone(World)
      BY <1>0, <1>4 DEF Gone
    <2> HIDE DEF gen, w, io, phase
    <2> QED
      BY <1>0, <1>2, <2>3, <2>5, <2>6, <2>7, <2>8, DispatchSafe
  <1> QED
    BY <1>w, <1>1, <1>3, <1>4

LEMMA TickResultSafe ==
  ASSUME SessionInv, TickResult, UNCHANGED chat, CutOff
  PROVE  SessionInv'
  <1> DEFINE r == Head(results)
             q == Tail(results)
  <1>0. /\ WorldInv(World) /\ World.ctl = ctl /\ World.owner = owner /\ ctl \in CtlType
        /\ QueuesInv /\ GensInv /\ RotationInv /\ 0 \in Gens /\ 0 \notin superseded
        /\ (ctl.tx # 0 => started /\ ~Gone(World)) /\ started \in BOOLEAN
        /\ (ctl.request # 0 => ctl.tx # 0)
    BY SessionParts
  <1>1. /\ results # <<>> /\ results' = q /\ calling' = calling /\ started' = started
        /\ service' = service /\ superseded' = superseded /\ chat' = chat /\ CutOff
    BY DEF TickResult, TickFrame
  <1>2. /\ r \in Answered /\ 1 \in 1 .. Len(results) /\ r = results[1]
        /\ q \in Seq(Answered)
    BY <1>0, <1>1, TailElements DEF QueuesInv
  <1>3. Apart(q, r.id) /\ Current(ctl, r)
    BY <1>0, <1>1, <1>2, TailDistinct DEF QueuesInv
  <1>4. CASE r.id # ctl.request
    <2> DEFINE v == World
               g == 0
    <2>1. Become(v)
      BY <1>4 DEF TickResult
    <2>2. /\ Outcome(World, v, g, g) /\ v.ctl.request = ctl.request /\ v.owner = owner
          /\ (Gone(World) => Gone(v)) /\ WorldInv(v)
      BY <1>0, NothingOutcome
    <2>3. g \in Gens /\ g \notin superseded
      BY <1>0
    <2>4. SameQueue(World, v)
      BY DEF SameQueue
    <2> HIDE DEF v, g, q, r
    <2>5. QueuesStep(v)
      BY <1>1, <2>1, <2>2, <2>4 DEF QueuesStep, q
    <2>6. ControllerStep(v, g, g)
      BY <1>0, <1>1, <2>2, <2>3, <2>5 DEF ControllerStep
    <2> QED
      BY <2>6, ControllerKept
  <1>5. CASE r.id = ctl.request
    <2> DEFINE c == [ctl EXCEPT !.request = 0, !.phase = None]
               w == [World EXCEPT !.ctl.request = 0, !.ctl.phase = None]
               g == Brought(r)
               phase == ctl.phase
    <2>1. PICK io \in Storage : Become(HandleResult(w, phase, r, io))
      BY <1>5 DEF TickResult
    <2> DEFINE v == HandleResult(w, phase, r, io)
    <2>b. Become(v)
      BY <2>1
    <2>2. r.id # 0 /\ ctl.request # 0 /\ ctl.tx # 0 /\ started /\ ~Gone(World)
      BY <1>0, <1>2, <1>5 DEF Answered
    <2>3. ctl.gen = 0 /\ ctl.deferred = None /\ phase # None /\ (phase # "Poll" => ctl.code = None)
      BY <1>0, <2>2 DEF WorldInv
    <2>4. w = [World EXCEPT !.ctl = c]
      BY <1>0 DEF World
    <2>5. /\ c \in CtlType /\ c.tx = ctl.tx /\ c.next = ctl.next /\ c.shut = ctl.shut /\ c.gen = ctl.gen
          /\ c.state = ctl.state /\ c.request = 0 /\ c.phase = None
          /\ c.deferred = ctl.deferred /\ c.code = ctl.code
      BY <1>0 DEF CtlType
    <2>6. phase \in Phases
      BY <1>0, <2>3 DEF CtlType
    <2>7. r.op = PhaseOperation(phase)
      BY <1>3, <1>5 DEF Current
    <2>8. /\ \A i \in 1 .. Len(inbox) : inbox[i].id # r.id
          /\ \A i \in 1 .. Len(q) : q[i].id # r.id
          /\ calling.id # r.id
      BY <1>0, <1>2, <1>3 DEF QueuesInv, Apart
    <2>9. Quiet(inbox) /\ Quiet(q) /\ (calling.id # 0 => calling.op \notin Sensitive)
      <3>1. AllCurrent(ctl, inbox) /\ AllCurrent(ctl, q) /\ (calling.id # 0 => Current(ctl, calling))
        BY <1>0, <1>1, TailDistinct DEF QueuesInv
      <3> QED
        BY <1>5, <2>8, <3>1 DEF Quiet, AllCurrent, Current
    <2>10. g \in Gens /\ g \notin superseded
      <3>1. r.gen \in Gens /\ r.reply \in Gens /\ UsableAnswer(superseded, ctl.request, r)
        BY <1>0, <1>2 DEF GensInv, RotationInv
      <3> QED
        BY <1>0, <1>5, <3>1 DEF Brought, UsableAnswer
    <2> HIDE DEF c, w, g, v, phase, r, q
    <2>11. WorldInv(w) /\ Outcome(World, w, g, g) /\ SameQueue(World, w) /\ w.ctl = c
      BY <1>0, <2>4, <2>5, PatchFacts
    <2>12. Answering(w) /\ Asked(w, phase, r)
      BY <1>2, <2>2, <2>3, <2>5, <2>6, <2>7, <2>11 DEF Answering, Asked
    <2>13. Follows(w, v, g, g)
      BY <2>12, HandleResultFacts DEF v, g
    <2>14. Outcome(World, v, g, g)
      BY <1>0, <2>5, <2>11, <2>13, OutcomeComposes DEF Follows
    <2>15. QueuesStep(v)
      <3>1. WorldInv(v) /\ (SameQueue(World, v) \/ NewRequest(World, v, g))
        BY <2>14 DEF Outcome
      <3>2. results' = Tail(results)
        BY <1>1 DEF q
      <3> QED
        BY <1>1, <2>9, <2>b, <3>1, <3>2 DEF QueuesStep
    <2>16. ControllerStep(v, g, g)
      BY <1>0, <1>1, <2>2, <2>10, <2>14, <2>15 DEF ControllerStep
    <2> QED
      BY <2>16, ControllerKept
  <1> QED
    BY <1>4, <1>5

(* Disconnect first takes the session out, when the process has one or the     *)
(* store does, and then revokes it or finishes at once.                        *)
Prepared(w) ==
  /\ Outcome(World, w, 0, w.ctl.gen) /\ SameQueue(World, w) /\ WorldInv(w)
  /\ w.ctl.state = ctl.state /\ w.ctl.request = 0 /\ w.ctl.deferred = None /\ w.ctl.code = None
  /\ w.ctl.gen \in Gens /\ (w.ctl.gen # 0 => w.ctl.tx # 0 /\ ~Gone(World))

LEMMA PreparedSafe ==
  ASSUME SessionInv, NEW w, Prepared(w), w.ctl.tx # 0 \/ Idle(w.owner), NEW io \in Storage,
         Gone(World) => w.saved = 0 /\ w.ctl.tx = 0,
         Become(IF w.ctl.gen # 0 THEN Dispatch(w, "Revoke", w.ctl.gen, io) ELSE FinishDisconnect(w, io)),
         ControllerFrame, ctl.request = 0, started' = TRUE
  PROVE  SessionInv'
  <1>0. /\ World.ctl = ctl /\ World.owner = owner /\ 0 \in Gens /\ 0 \notin superseded
    BY SessionParts
  <1>1. CASE w.ctl.gen # 0
    <2> DEFINE phase == "Revoke"
               gen == w.ctl.gen
    <2>1. Become(Dispatch(w, phase, gen, io))
      BY <1>1
    <2>2. phase \in Phases /\ phase = "Revoke" /\ phase # "Poll"
      BY DEF Phases
    <2>3. /\ Outcome(World, w, 0, gen) /\ SameQueue(World, w) /\ WorldInv(w)
          /\ w.ctl.state = ctl.state /\ w.ctl.request = 0 /\ w.ctl.deferred = None /\ w.ctl.code = None
          /\ gen \in Gens /\ w.ctl.tx # 0 /\ ~Gone(World)
      BY <1>1 DEF Prepared
    <2> HIDE DEF phase, gen
    <2> QED
      BY <2>1, <2>2, <2>3, DispatchSafe
  <1>2. CASE w.ctl.gen = 0
    <2> DEFINE v == FinishDisconnect(w, io)
               h == w.ctl.gen
               g == 0
    <2>b. Become(v)
      BY <1>2
    <2>1. WorldInv(w)
      BY DEF Prepared
    <2>2. /\ v.ctl.tx = 0 /\ v.ctl.request = 0
          /\ (v.owner.active = 0 /\ v.owner.pending = 0)
          /\ v.saved \in {0, w.saved}
      BY <2>1, FinishFacts
    <2>3. Outcome(w, v, g, h)
      BY <2>1, FinishOutcome
    <2>4. g \in Gens /\ h \in Gens /\ g \notin superseded /\ h \notin superseded
      BY <1>0, <1>2
    <2> HIDE DEF v, h, g
    <2>5. Outcome(World, v, g, h)
      <3>1. Outcome(World, w, g, h) /\ SameQueue(World, w) /\ w.ctl.state = World.ctl.state
        BY <1>0 DEF Prepared, g, h
      <3> QED
        BY <2>3, <3>1, OutcomeComposes
    <2>6. Gone(World) => Gone(v)
      BY <2>2 DEF Gone
    <2>7. UNCHANGED <<service, superseded, calling, results, chat>> /\ CutOff
      BY DEF ControllerFrame
    <2>8. started' \in BOOLEAN /\ (started => started') /\ (~started' => v.owner = owner)
      OBVIOUS
    <2> QED
      BY <2>b, <2>2, <2>4, <2>5, <2>6, <2>7, <2>8, ControllerActs
  <1> QED
    BY <1>1, <1>2

LEMMA AdoptCalm ==
  ASSUME SessionInv, NEW calm, Prepared(calm), calm.ctl.tx = 0, Idle(calm.owner), NEW gen \in Gens, gen # 0,
         NEW restorable \in BOOLEAN, ~Gone(World), calm.ctl.gen = 0
  PROVE  LET w == Adopt(calm, gen, restorable) IN Prepared(w) /\ w.ctl.tx # 0
  <1> DEFINE w == Adopt(calm, gen, restorable)
  <1>0. Gens \subseteq Nat /\ World.ctl = ctl
    BY SessionParts
  <1>1. WorldInv(calm) /\ SameQueue(World, calm) /\ calm.ctl.state = ctl.state
    BY DEF Prepared
  <1>2. /\ Outcome(calm, w, 0, gen) /\ SameQueue(calm, w) /\ WorldInv(w)
        /\ w.ctl.tx # 0 /\ w.ctl.gen = gen /\ w.ctl.request = 0 /\ w.ctl.deferred = None /\ w.ctl.code = None
        /\ w.ctl.state = calm.ctl.state
    BY <1>0, <1>1, AdoptOutcome
  <1>3. Outcome(World, calm, 0, gen)
    <2>1. Outcome(World, calm, 0, 0) /\ calm.ctl.gen = 0 /\ calm.ctl.deferred = None
      BY DEF Prepared
    <2> QED
      BY <2>1 DEF Outcome, NewRequest, SameQueue, Prepared
  <1> HIDE DEF w
  <1>4. Outcome(World, w, 0, gen) /\ SameQueue(World, w)
    <2>1. Outcome(World, w, 0, gen)
      BY <1>0, <1>1, <1>2, <1>3, OutcomeComposes
    <2> QED
      BY <1>0, <1>1, <1>2, <2>1 DEF SameQueue
  <1> QED
    BY <1>0, <1>1, <1>2, <1>4 DEF Prepared, w

LEMMA DisconnectSafe ==
  ASSUME SessionInv, Disconnect, UNCHANGED chat, CutOff
  PROVE  SessionInv'
  <1> DEFINE calm == [World EXCEPT !.ctl.code = None, !.ctl.deferred = None]
             c == [ctl EXCEPT !.code = None, !.deferred = None]
             loads == ctl.tx = 0 /\ owner.active = 0 /\ saved # 0
             after(record) == IF ctl.tx # 0 THEN calm
                ELSE IF owner.active # 0 THEN Adopt(calm, owner.active, TRUE)
                ELSE IF loads /\ record = "good" THEN Adopt(calm, saved, FALSE) ELSE calm
  <1>1. PICK io \in Storage, record \in {"good", "unreadable", "undecodable"} :
          Become(IF (ctl.tx = 0 /\ ~Idle(owner)) \/ record = "unreadable" THEN calm
                 ELSE IF after(record).ctl.gen # 0
                      THEN Dispatch(after(record), "Revoke", after(record).ctl.gen, io)
                      ELSE FinishDisconnect(after(record), io))
    BY DEF Disconnect
  <1> DEFINE w == after(record)
  <1>0. /\ WorldInv(World) /\ World.ctl = ctl /\ World.owner = owner /\ World.saved = saved /\ ctl \in CtlType
        /\ GensInv /\ 0 \in Gens /\ 0 \notin superseded
        /\ ctl.request = 0 /\ (ctl.tx # 0 => ~Gone(World))
    BY SessionParts DEF Disconnect
  <1>2. ControllerFrame /\ started' = TRUE
    <2>1. started \in BOOLEAN /\ started' = started /\ started
      BY SessionParts DEF Disconnect
    <2> QED
      BY <2>1 DEF Disconnect, ControllerFrame
  <1>3. calm = [World EXCEPT !.ctl = c]
    BY <1>0 DEF World
  <1>4. /\ c \in CtlType /\ c.tx = ctl.tx /\ c.next = ctl.next /\ c.shut = ctl.shut /\ c.gen = ctl.gen
        /\ c.state = ctl.state /\ c.request = ctl.request /\ c.phase = ctl.phase
        /\ c.deferred = None /\ c.code = None
    BY <1>0 DEF CtlType
  <1>5. /\ WorldInv(calm) /\ SameQueue(World, calm) /\ calm.ctl = c
        /\ calm.owner = owner /\ calm.saved = saved
        /\ \A h : Outcome(World, calm, 0, h)
    <2> HIDE DEF calm, c
    <2> QED
      BY <1>0, <1>3, <1>4, PatchFacts
  <1>6. ctl.tx = 0 => ctl.gen = 0
    BY <1>0 DEF WorldInv
  <1>7. Prepared(calm)
    <2> HIDE DEF calm, c
    <2>1. ctl.gen \in Gens
      BY <1>0 DEF GensInv
    <2> QED
      BY <1>0, <1>4, <1>5, <1>6, <2>1 DEF Prepared
  <1>8. CASE (ctl.tx = 0 /\ ~Idle(owner)) \/ record = "unreadable"
    <2> DEFINE g == 0
    <2>1. Become(calm)
      BY <1>1, <1>8
    <2> HIDE DEF calm, c
    <2>2. Outcome(World, calm, g, g) /\ calm.ctl.request = ctl.request
      BY <1>4, <1>5
    <2>3. Gone(World) => Gone(calm)
      BY <1>0, <1>4, <1>5 DEF Gone
    <2>7. UNCHANGED <<service, superseded, calling, results, chat>> /\ CutOff
      BY <1>2 DEF ControllerFrame
    <2>8. g \in Gens /\ g \notin superseded
      BY <1>0
    <2>9. started' \in BOOLEAN /\ (started => started') /\ (~started' => calm.owner = owner)
      BY <1>2
    <2> HIDE DEF g
    <2> QED
      BY <2>1, <2>2, <2>3, <2>7, <2>8, <2>9, ControllerActs
  <1>9. CASE ~((ctl.tx = 0 /\ ~Idle(owner)) \/ record = "unreadable")
    <2>1. Prepared(w) /\ (w.ctl.tx # 0 \/ Idle(w.owner)) /\ (Gone(World) => w.saved = 0 /\ w.ctl.tx = 0)
      <3>1. CASE ctl.tx # 0
        <4>1. w = calm
          BY <3>1
        <4> HIDE DEF calm, c, w
        <4> QED
          BY <1>0, <1>4, <1>5, <1>7, <3>1, <4>1
      <3>2. CASE ctl.tx = 0 /\ owner.active # 0
        <4> DEFINE gen == owner.active
                   restorable == TRUE
        <4>1. w = Adopt(calm, gen, restorable)
          BY <3>2
        <4>2. gen \in Gens /\ gen # 0 /\ restorable \in BOOLEAN /\ ~Gone(World)
          BY <1>0, <3>2 DEF GensInv, Gone
        <4> HIDE DEF calm, c, w, gen, restorable
        <4>3. calm.ctl.tx = 0 /\ Idle(calm.owner) /\ calm.ctl.gen = 0
          BY <1>4, <1>5, <1>6, <1>9, <3>2
        <4> QED
          BY <1>7, <4>1, <4>2, <4>3, AdoptCalm
      <3>3. CASE ctl.tx = 0 /\ owner.active = 0 /\ loads /\ record = "good"
        <4> DEFINE gen == saved
                   restorable == FALSE
        <4>1. w = Adopt(calm, gen, restorable)
          BY <3>3
        <4>2. gen \in Gens /\ gen # 0 /\ restorable \in BOOLEAN /\ ~Gone(World)
          BY <1>0, <3>3 DEF GensInv, Gone
        <4> HIDE DEF calm, c, w, gen, restorable
        <4>3. calm.ctl.tx = 0 /\ Idle(calm.owner) /\ calm.ctl.gen = 0
          BY <1>4, <1>5, <1>6, <1>9, <3>3
        <4> QED
          BY <1>7, <4>1, <4>2, <4>3, AdoptCalm
      <3>4. CASE ctl.tx = 0 /\ owner.active = 0 /\ ~(loads /\ record = "good")
        <4>1. w = calm
          BY <3>4
        <4>2. calm.ctl.tx = 0 /\ Idle(calm.owner) /\ (Gone(World) => calm.saved = 0)
          <5> HIDE DEF calm, c
          <5> QED
            BY <1>0, <1>4, <1>5, <1>9, <3>4 DEF Gone
        <4> HIDE DEF calm, c, w
        <4> QED
          BY <1>7, <4>1, <4>2
      <3> QED
        BY <3>1, <3>2, <3>3, <3>4
    <2>2. Become(IF w.ctl.gen # 0 THEN Dispatch(w, "Revoke", w.ctl.gen, io) ELSE FinishDisconnect(w, io))
      BY <1>1, <1>9
    <2> HIDE DEF w, calm, after
    <2> QED
      BY <1>0, <1>2, <2>1, <2>2, PreparedSafe
  <1> QED
    BY <1>8, <1>9

LEMMA Dispositions ==
  ASSUME NEW op, NEW answer \in Answers
  PROVE  /\ Disposition(op, answer) \in {"Ok", "Retry", "Reconnect", "Failed"}
         /\ answer \in {"denied", "limited", "lost"} => Disposition(op, answer) \in Refused
         /\ op \in {"Refresh", "Poll"} /\ answer \in {"unauthorized", "garbled"}
            => Disposition(op, answer) \in Refused
         /\ answer = "done" => Disposition(op, answer) = "Ok"
  <1>1. CASE answer \in {"done", "mismatch"}
    <2>1. Disposition(op, "done") = "Ok" /\ Disposition(op, "mismatch") = "Ok"
      BY Zenon DEF Disposition
    <2> QED
      BY <1>1, <2>1
  <1>2. CASE answer \in {"limited", "lost"}
    <2>1. Disposition(op, "limited") = "Retry" /\ Disposition(op, "lost") = "Retry"
      BY Zenon DEF Disposition
    <2> QED
      BY <1>2, <2>1 DEF Refused
  <1>3. CASE answer = "unauthorized"
    <2>1. Disposition(op, "unauthorized") \in {"Reconnect", "Failed"}
      <3>1. op \in {"Validate", "Refresh", "SendChat"} => Disposition(op, "unauthorized") = "Reconnect"
        BY Zenon DEF Disposition
      <3>2. op \notin {"Validate", "Refresh", "SendChat"} => Disposition(op, "unauthorized") = "Failed"
        BY Zenon DEF Disposition
      <3> QED
        BY <3>1, <3>2
    <2> QED
      BY <1>3, <2>1 DEF Refused
  <1>4. CASE answer = "garbled"
    <2>1. Disposition(op, "garbled") \in {"Reconnect", "Failed"}
      <3>1. op = "Validate" => Disposition(op, "garbled") = "Reconnect"
        BY Zenon DEF Disposition
      <3>2. op # "Validate" => Disposition(op, "garbled") = "Failed"
        BY Zenon DEF Disposition
      <3> QED
        BY <3>1, <3>2
    <2> QED
      BY <1>4, <2>1 DEF Refused
  <1>5. CASE answer = "denied"
    <2>1. Disposition(op, "denied") = "Failed"
      BY Zenon DEF Disposition
    <2> QED
      BY <1>5, <2>1 DEF Refused
  <1> QED
    BY <1>1, <1>2, <1>3, <1>4, <1>5 DEF Answers

(* A step of the worker, which sees its queues and the service only.            *)
LEMMA WorkerSafe ==
  ASSUME SessionInv, UNCHANGED <<ctl, owner, saved, chat, started>>, CutOff,
         WorldInv(World'), QueuesInv', GensInv', RotationInv',
         superseded' = superseded \/ ctl.tx # 0
  PROVE  SessionInv'
  <1>0. /\ World.ctl = ctl /\ World.owner = owner /\ World.saved = saved
        /\ RecoveryInv /\ started \in BOOLEAN
    BY SessionParts
  <1>1. World'.ctl = ctl /\ World'.owner = owner /\ World'.saved = saved
    BY DEF World
  <1>2. RecoveryInv'
    <2>1. Lent(World') <=> Lent(World)
      BY <1>0, <1>1 DEF Lent
    <2>2. superseded' = superseded \/ ~Lent(World)
      BY <1>0 DEF Lent
    <2>3. ASSUME NEW t \in Threads PROVE Recovery(t)'
      <3>1. Recovery(t)
        BY <1>0 DEF RecoveryInv
      <3> QED
        BY <2>1, <2>2, <3>1 DEF Recovery, Replacing
    <2> QED
      BY <1>0, <2>1, <2>3 DEF RecoveryInv, Threads
  <1>3. cut' \in BOOLEAN /\ (cut' => cut)
    BY DEF CutOff, SessionInv
  <1>4. cut' => Gone(World')
    BY <1>0, <1>1, <1>3 DEF SessionInv, Gone
  <1> QED
    BY <1>0, <1>2, <1>3, <1>4 DEF SessionInv

LEMMA WorkerTakesSafe ==
  ASSUME SessionInv, WorkerTakes, UNCHANGED chat, CutOff
  PROVE  SessionInv'
  <1> DEFINE r == Head(inbox)
             q == Tail(inbox)
             call == [id |-> r.id, op |-> r.op, gen |-> r.gen, out |-> None, reply |-> 0]
  <1>0. /\ WorldInv(World) /\ inbox \in Seq(Request) /\ QueuesInv /\ GensInv /\ RotationInv
        /\ 0 \in Gens /\ World.inbox = inbox /\ Len(inbox) <= AuthCapacity
    BY SessionParts, WorldParts DEF WorldInv
  <1>1. /\ calling.id = 0 /\ inbox # <<>> /\ calling' = call /\ inbox' = q
        /\ UNCHANGED <<service, superseded, owner, saved, ctl, results, started>>
    BY DEF WorkerTakes, apiVars, ownerVars
  <1>2. /\ q \in Seq(Request) /\ Len(inbox) \in Nat /\ Len(q) \in Nat /\ Len(q) = Len(inbox) - 1
        /\ \A i \in 1 .. Len(q) : i + 1 \in 1 .. Len(inbox) /\ q[i] = inbox[i + 1]
        /\ r \in Request /\ 1 \in 1 .. Len(inbox) /\ r = inbox[1]
    BY <1>0, <1>1, TailElements
  <1>3. /\ Distinct(q) /\ Apart(q, r.id) /\ AllCurrent(ctl, q) /\ Current(ctl, r)
    BY <1>0, <1>1, TailDistinct DEF QueuesInv
  <1>4. call \in Called /\ call.id = r.id /\ call.op = r.op /\ call.gen = r.gen /\ call.out = None /\ call.reply = 0
    BY <1>2 DEF Called, Request
  <1> HIDE DEF r, q, call
  <1>5. World' = [World EXCEPT !.inbox = q]
    BY <1>1 DEF World
  <1>6. WorldInv(World')
    <2>1. [World EXCEPT !.inbox = q] \in WorldType
      BY <1>0, <1>2 DEF WorldInv, WorldType
    <2>2. AuthCapacity \in Nat
      BY AuthCapacityAssumption
    <2> QED
      BY <1>0, <1>2, <1>5, <2>1, <2>2 DEF WorldInv, WorldType
  <1>7. QueuesInv'
    <2>1. Current(ctl, call)
      BY <1>3, <1>4 DEF Current
    <2>2. Apart(results, r.id) /\ \A i \in 1 .. Len(q) : Apart(results, q[i].id)
      BY <1>0, <1>2 DEF QueuesInv
    <2> QED
      BY <1>0, <1>1, <1>3, <1>4, <2>1, <2>2 DEF QueuesInv, AllCurrent, Apart, Distinct
  <1>8. GensInv'
    <2>1. r.gen \in Gens /\ \A i \in 1 .. Len(q) : q[i].gen \in Gens
      BY <1>0, <1>2 DEF GensInv
    <2> QED
      BY <1>0, <1>1, <1>4, <2>1 DEF GensInv, Gens, Threads
  <1>9. RotationInv'
    <2>1. Usable(superseded, r) /\ \A i \in 1 .. Len(q) : Usable(superseded, q[i])
      BY <1>0, <1>2 DEF RotationInv
    <2>2. Usable(superseded, call)
      BY <1>4, <2>1 DEF Usable
    <2> QED
      BY <1>0, <1>1, <1>4, <2>1, <2>2 DEF RotationInv, UsableAnswer, Usable
  <1> QED
    BY <1>1, <1>6, <1>7, <1>8, <1>9, WorkerSafe

LEMMA WorkerAnswersSafe ==
  ASSUME SessionInv, WorkerAnswers, UNCHANGED chat, CutOff
  PROVE  SessionInv'
  <1> DEFINE q == Append(results, calling)
  <1>0. /\ WorldInv(World) /\ QueuesInv /\ GensInv /\ RotationInv /\ 0 \in Gens /\ results \in Seq(Answered)
        /\ inbox \in Seq(Request)
    BY SessionParts, WorldParts DEF QueuesInv
  <1>1. /\ calling.out # None /\ results' = q /\ calling' = NoCall
        /\ UNCHANGED <<service, superseded, owner, saved, ctl, inbox, started>>
    BY DEF WorkerAnswers, apiVars, ownerVars
  <1>2. calling \in Answered /\ calling.id # 0
    BY <1>0, <1>1 DEF QueuesInv, NoCall, Called, Answered
  <1>n. NoCall.id = 0 /\ NoCall.gen = 0 /\ NoCall.reply = 0
    BY DEF NoCall
  <1>3. /\ q \in Seq(Answered) /\ Len(results) \in Nat /\ Len(q) = Len(results) + 1
        /\ \A i \in 1 .. Len(q) : (i \in 1 .. Len(results) /\ q[i] = results[i]) \/ (i = Len(q) /\ q[i] = calling)
    BY <1>0, <1>2, AppendElements
  <1>4. /\ Distinct(results) /\ Apart(results, calling.id) => Distinct(q)
        /\ \A id : Apart(results, id) /\ calling.id # id => Apart(q, id)
        /\ \A c : AllCurrent(c, results) /\ Current(c, calling) => AllCurrent(c, q)
    BY <1>0, <1>2, AppendDistinct
  <1> HIDE DEF q
  <1>5. World' = World
    BY <1>1 DEF World
  <1>7. QueuesInv'
    <2>1. Distinct(q) /\ AllCurrent(ctl, q)
      BY <1>0, <1>2, <1>4 DEF QueuesInv
    <2>2. ASSUME NEW i \in 1 .. Len(inbox) PROVE Apart(q, inbox[i].id)
      BY <1>0, <1>4 DEF QueuesInv, Apart
    <2>3. Apart(inbox, 0) /\ Apart(q, 0)
      <3>1. \A i \in 1 .. Len(inbox) : inbox[i] \in Request
        BY <1>0, ElementOfSeq
      <3>2. \A i \in 1 .. Len(q) : q[i] \in Answered
        BY <1>3, ElementOfSeq
      <3>3. (\A i \in 1 .. Len(inbox) : inbox[i].id # 0) /\ (\A i \in 1 .. Len(q) : q[i].id # 0)
        BY <3>1, <3>2 DEF Request, Answered
      <3> QED
        BY <3>3 DEF Apart
    <2> QED
      BY <1>0, <1>1, <1>3, <1>n, <2>1, <2>2, <2>3 DEF QueuesInv, AllCurrent, Apart, Distinct
  <1>8. GensInv'
    BY <1>0, <1>1, <1>3, <1>n DEF GensInv, Gens, Threads
  <1>9. RotationInv'
    <2>1. UsableAnswer(superseded, ctl.request, calling)
      BY <1>0, <1>1, <1>2 DEF RotationInv
    <2> QED
      BY <1>0, <1>1, <1>3, <1>n, <2>1 DEF RotationInv, UsableAnswer, Usable
  <1> QED
    BY <1>0, <1>1, <1>5, <1>7, <1>8, <1>9, WorkerSafe

(* What a call of the worker may do to the service, and what it may bring.     *)
Calls(op, gen, out, reply) ==
  /\ service' \in [last : Nat, live : SUBSET Nat, refreshable : SUBSET Nat]
  /\ service'.live \cup service'.refreshable \subseteq 1 .. service'.last
  /\ service.last <= service'.last
  /\ out \in Outcomes /\ reply \in 0 .. service'.last
  /\ superseded' = superseded \/ (op = "Refresh" /\ superseded' = superseded \cup {gen} /\ gen \in 1 .. service.last
                                  /\ out \notin Refused)
  /\ op \in {"Refresh", "Poll"} /\ out \notin Refused => reply \notin superseded'

LEMMA CallsFacts ==
  ASSUME SessionInv, calling.id # 0, NEW answer \in Answers \cup {"pending"}, NEW reply,
         reply \in 0 .. service.last + 1, calling.op \in AuthOps,
         CASE calling.op = "Start" -> CallStart(answer) /\ reply = 0
            [] calling.op = "Poll" -> CallPoll(answer, reply)
            [] calling.op = "Validate" -> CallValidate(calling.gen, answer) /\ reply = 0
            [] calling.op = "Refresh" -> CallRefresh(calling.gen, answer, reply)
            [] calling.op = "Revoke" -> CallRevoke(calling.gen, answer) /\ reply = 0,
         NEW out, out = IF answer \in {"pending", "mismatch"} THEN answer ELSE Disposition(calling.op, answer)
  PROVE  Calls(calling.op, calling.gen, out, reply)
  <1>0. /\ service \in [last : Nat, live : SUBSET Nat, refreshable : SUBSET Nat]
        /\ service.live \cup service.refreshable \subseteq 1 .. service.last
        /\ superseded \subseteq 1 .. service.last /\ 0 \notin superseded
    BY SessionParts DEF GensInv
  <1> DEFINE op == calling.op
  <1>1. /\ op = "Start" => CallStart(answer) /\ reply = 0
        /\ op = "Poll" => CallPoll(answer, reply)
        /\ op = "Validate" => CallValidate(calling.gen, answer) /\ reply = 0
        /\ op = "Refresh" => CallRefresh(calling.gen, answer, reply)
        /\ op = "Revoke" => CallRevoke(calling.gen, answer) /\ reply = 0
    <2> DEFINE a == CallStart(answer) /\ reply = 0
               b == CallPoll(answer, reply)
               c == CallValidate(calling.gen, answer) /\ reply = 0
               d == CallRefresh(calling.gen, answer, reply)
               e == CallRevoke(calling.gen, answer) /\ reply = 0
    <2>1. (CASE op = "Start" -> a [] op = "Poll" -> b [] op = "Validate" -> c [] op = "Refresh" -> d [] op = "Revoke" -> e)
      OBVIOUS
    <2> HIDE DEF a, b, c, d, e, op
    <2>2. (op = "Start" => a) /\ (op = "Poll" => b) /\ (op = "Validate" => c) /\ (op = "Refresh" => d) /\ (op = "Revoke" => e)
      BY <2>1, Zenon
    <2> QED
      BY <2>2 DEF a, b, c, d, e, op
  <1>2. /\ answer \in Answers =>
             /\ Disposition(op, answer) \in {"Ok", "Retry", "Reconnect", "Failed"}
             /\ answer \in {"denied", "limited", "lost"} => Disposition(op, answer) \in Refused
             /\ op \in {"Refresh", "Poll"} /\ answer \in {"unauthorized", "garbled"}
                => Disposition(op, answer) \in Refused
             /\ answer = "done" => Disposition(op, answer) = "Ok"
    <2> HIDE DEF op
    <2> QED
      BY Dispositions
  <1> DEFINE d == Disposition(op, answer)
  <1>3. out = IF answer \in {"pending", "mismatch"} THEN answer ELSE d
    OBVIOUS
  <1>4. out \in Outcomes
    <2> HIDE DEF d, op
    <2> QED
      BY <1>2, <1>3 DEF d, Outcomes, Answers
  <1>g. ASSUME NEW gone, service' = Granted(service, gone)
        PROVE  /\ service' \in [last : Nat, live : SUBSET Nat, refreshable : SUBSET Nat]
               /\ service'.live \cup service'.refreshable \subseteq 1 .. service'.last
               /\ service'.last = service.last + 1
    BY <1>0, <1>g DEF Granted
  <1>5. CASE op = "Start"
    <2>1. service' = service /\ superseded' = superseded /\ reply = 0
      BY <1>1, <1>5 DEF CallStart
    <2> QED
      BY <1>0, <1>4, <1>5, <2>1 DEF Calls
  <1>6. CASE op = "Validate"
    <2>1. service' = service /\ superseded' = superseded /\ reply = 0
      BY <1>1, <1>6 DEF CallValidate
    <2> QED
      BY <1>0, <1>4, <1>6, <2>1 DEF Calls
  <1>7. CASE op = "Revoke"
    <2>1. superseded' = superseded /\ reply = 0
          /\ (service' = service \/ service' = [service EXCEPT !.live = @ \ {calling.gen}])
      BY <1>1, <1>7 DEF CallRevoke
    <2>2. /\ service' \in [last : Nat, live : SUBSET Nat, refreshable : SUBSET Nat]
          /\ service'.live \cup service'.refreshable \subseteq 1 .. service'.last
          /\ service'.last = service.last
      BY <1>0, <2>1
    <2> QED
      BY <1>0, <1>4, <1>7, <2>1, <2>2 DEF Calls
  <1>8. CASE op = "Poll"
    <2>1. superseded' = superseded
          /\ \/ answer = "done" /\ service' = Granted(service, 0) /\ reply = service'.last
             \/ answer \in {"pending", "denied", "limited", "lost", "garbled"} /\ reply = 0 /\ service' = service
      BY <1>1, <1>8 DEF CallPoll
    <2>2. CASE answer = "done" /\ service' = Granted(service, 0) /\ reply = service'.last
      BY <1>0, <1>4, <1>8, <1>g, <2>1, <2>2 DEF Calls
    <2>3. CASE reply = 0 /\ service' = service
      BY <1>0, <1>4, <1>8, <2>1, <2>3 DEF Calls
    <2> QED
      BY <2>1, <2>2, <2>3
  <1>9. CASE op = "Refresh"
    <2>1. \/ /\ calling.gen \in service.refreshable /\ answer = "done"
             /\ service' = Granted(service, calling.gen) /\ reply = service'.last
             /\ superseded' = superseded \cup {calling.gen}
          \/ /\ answer \in {"unauthorized", "denied", "limited", "lost", "garbled"} /\ reply = 0 
             /\ superseded' = superseded
             /\ service' = service \/ service' = Granted(service, calling.gen)
      BY <1>1, <1>9 DEF CallRefresh, Unread
    <2>2. CASE /\ calling.gen \in service.refreshable /\ answer = "done"
               /\ service' = Granted(service, calling.gen) /\ reply = service'.last
               /\ superseded' = superseded \cup {calling.gen}
      <3>1. calling.gen \in 1 .. service.last
        BY <1>0, <2>2
      <3>2. d = "Ok" /\ out = d
        <4> HIDE DEF d, op
        <4> QED
          BY <1>2, <1>3, <2>2 DEF d, Answers
      <3>3. out \notin Refused
        BY <3>2 DEF Refused
      <3>4. /\ service' \in [last : Nat, live : SUBSET Nat, refreshable : SUBSET Nat]
            /\ service'.live \cup service'.refreshable \subseteq 1 .. service'.last
            /\ service'.last = service.last + 1
        BY <1>g, <2>2
      <3>5. reply \notin superseded' /\ reply \in 0 .. service'.last
        BY <1>0, <2>2, <3>1, <3>4
      <3> QED
        BY <1>0, <1>4, <1>9, <2>2, <3>1, <3>3, <3>4, <3>5 DEF Calls
    <2>3. CASE /\ answer \in {"unauthorized", "denied", "limited", "lost", "garbled"} /\ reply = 0
               /\ superseded' = superseded
               /\ service' = service \/ service' = Granted(service, calling.gen)
      <3>4. /\ service' \in [last : Nat, live : SUBSET Nat, refreshable : SUBSET Nat]
            /\ service'.live \cup service'.refreshable \subseteq 1 .. service'.last
            /\ service'.last >= service.last
        BY <1>0, <1>g, <2>3
      <3> QED
        BY <1>0, <1>4, <1>9, <2>3, <3>4 DEF Calls
    <2> QED
      BY <2>1, <2>2, <2>3
  <1> QED
    BY <1>5, <1>6, <1>7, <1>8, <1>9 DEF AuthOps

LEMMA WorkerCallsSafe ==
  ASSUME SessionInv, WorkerCalls, UNCHANGED chat, CutOff
  PROVE  SessionInv'
  <1>0. /\ WorldInv(World) /\ QueuesInv /\ GensInv /\ RotationInv /\ 0 \in Gens /\ results \in Seq(Answered)
        /\ inbox \in Seq(Request) /\ Gens \subseteq Nat /\ 0 \notin superseded
        /\ (ctl.request # 0 => ctl.tx # 0) /\ (ctl.tx # 0 => started /\ ~owner.stopping /\ owner.active = 0)
    BY SessionParts, WorldParts DEF QueuesInv
  <1>1. /\ calling.id # 0 /\ calling.out = None
        /\ UNCHANGED <<owner, saved, ctl, inbox, results, started>>
    BY DEF WorkerCalls, ownerVars
  <1>2. calling \in Called
    BY <1>0, <1>1 DEF QueuesInv, NoCall
  <1>3. PICK answer \in Answers \cup {"pending"}, reply \in 0 .. service.last + 1 :
          /\ CASE calling.op = "Start" -> CallStart(answer) /\ reply = 0
               [] calling.op = "Poll" -> CallPoll(answer, reply)
               [] calling.op = "Validate" -> CallValidate(calling.gen, answer) /\ reply = 0
               [] calling.op = "Refresh" -> CallRefresh(calling.gen, answer, reply)
               [] calling.op = "Revoke" -> CallRevoke(calling.gen, answer) /\ reply = 0
          /\ calling' = [calling EXCEPT !.reply = reply,
               !.out = IF answer \in {"pending", "mismatch"} THEN answer
                       ELSE Disposition(calling.op, answer)]
    BY Zenon DEF WorkerCalls
  <1> DEFINE out == IF answer \in {"pending", "mismatch"} THEN answer ELSE Disposition(calling.op, answer)
             call == [calling EXCEPT !.reply = reply, !.out = out]
  <1>4. calling' = call
    BY <1>3, Zenon
  <1>5. Calls(calling.op, calling.gen, out, reply)
    <2>1. calling.op \in AuthOps
      BY <1>2 DEF Called
    <2>2. out = IF answer \in {"pending", "mismatch"} THEN answer ELSE Disposition(calling.op, answer)
      OBVIOUS
    <2> HIDE DEF out
    <2> QED
      BY <1>1, <1>3, <2>1, <2>2, CallsFacts, Zenon
  <1> HIDE DEF out
  <1>6. /\ call \in Called /\ call.id = calling.id /\ call.op = calling.op /\ call.gen = calling.gen
        /\ call.out = out /\ call.reply = reply /\ out # None
    <2>1. out \in Outcomes /\ reply \in Nat
      BY <1>5 DEF Calls
    <2>2. out # None
      BY <2>1 DEF Outcomes, None
    <2>3. call \in Called
      BY <1>2, <2>1 DEF Called
    <2>4. /\ call.id = calling.id /\ call.op = calling.op /\ call.gen = calling.gen
          /\ call.out = out /\ call.reply = reply
      BY <1>2 DEF Called
    <2> QED
      BY <2>2, <2>3, <2>4
  <1> HIDE DEF call
  <1>7. World' = World
    BY <1>1 DEF World
  <1>8. QueuesInv'
    <2>1. Current(ctl, call)
      BY <1>0, <1>1, <1>6 DEF QueuesInv, Current
    <2> QED
      BY <1>0, <1>1, <1>4, <1>6, <2>1 DEF QueuesInv, AllCurrent, Apart, Distinct
  <1>9. GensInv'
    <2>0. service.last \in Nat /\ service'.last \in Nat /\ service.last <= service'.last
      BY <1>0, <1>5 DEF Calls, GensInv
    <2>1. \A g \in Gens : g \in Gens'
      BY <2>0 DEF Gens
    <2>2. superseded' \subseteq 1 .. service'.last
      <3>1. superseded' \subseteq 1 .. service.last
        <4>1. superseded \subseteq 1 .. service.last
          BY <1>0 DEF GensInv
        <4>2. superseded' = superseded \/ (superseded' = superseded \cup {calling.gen} /\ calling.gen \in 1 .. service.last)
          BY <1>5 DEF Calls
        <4> QED
          BY <4>1, <4>2
      <3> QED
        BY <2>0, <3>1
    <2>3. reply \in Gens'
      BY <1>5 DEF Calls, Gens
    <2>4. /\ service' \in [last : Nat, live : SUBSET Nat, refreshable : SUBSET Nat]
          /\ service'.live \cup service'.refreshable \subseteq 1 .. service'.last
      BY <1>5 DEF Calls
    <2> QED
      BY <1>0, <1>1, <1>4, <1>6, <2>1, <2>2, <2>3, <2>4 DEF GensInv, Threads
  <1>10. CASE superseded' = superseded
    <2>1. RotationInv'
      <3>1. Usable(superseded, calling)
        BY <1>0, <1>1 DEF RotationInv
      <3>2. UsableAnswer(superseded, ctl.request, call)
        BY <1>5, <1>6, <1>10, <3>1 DEF UsableAnswer, Usable, Calls
      <3> QED
        BY <1>0, <1>1, <1>4, <1>6, <1>10, <3>2 DEF RotationInv, UsableAnswer, Usable
    <2> QED
      BY <1>0, <1>1, <1>7, <1>8, <1>9, <1>10, <2>1, WorkerSafe
  <1>11. CASE superseded' # superseded
    <2>1. /\ calling.op = "Refresh" /\ superseded' = superseded \cup {calling.gen}
          /\ calling.gen \in 1 .. service.last /\ out \notin Refused /\ reply \notin superseded'
      BY <1>5, <1>11 DEF Calls
    <2>2. calling.id = ctl.request /\ ctl.request # 0 /\ ctl.tx # 0
      BY <1>0, <1>1, <2>1 DEF QueuesInv, Current, Sensitive
    <2>3. ctl.deferred = None
      BY <1>0, <2>2 DEF WorldInv, World
    <2>4. /\ \A i \in 1 .. Len(inbox) : inbox[i].id # ctl.request /\ inbox[i].op \notin Sensitive
          /\ \A i \in 1 .. Len(results) : results[i].id # ctl.request /\ results[i].op \notin Sensitive
      BY <1>0, <2>2 DEF QueuesInv, Apart, AllCurrent, Current
    <2>5. RotationInv'
      <3>1. UsableAnswer(superseded', ctl.request, call)
        BY <1>6, <2>1 DEF UsableAnswer
      <3>2. owner.active \notin superseded'
        BY <1>0, <2>1, <2>2
      <3>3. \A i \in 1 .. Len(inbox) : Usable(superseded', inbox[i])
        BY <2>4 DEF Usable, Sensitive
      <3>4. \A i \in 1 .. Len(results) : UsableAnswer(superseded', ctl.request, results[i])
        BY <2>4 DEF UsableAnswer, Sensitive
      <3> QED
        BY <1>0, <1>1, <1>4, <1>6, <2>2, <2>3, <3>1, <3>2, <3>3, <3>4 DEF RotationInv
    <2> QED
      BY <1>0, <1>1, <1>7, <1>8, <1>9, <2>2, <2>5, WorkerSafe
  <1> QED
    BY <1>10, <1>11

(* The chat threads leave the controller and its worker alone.  They use the    *)
(* owner while the controller does not, and never bring back what is gone.      *)
Untouched == UNCHANGED <<owner, saved, superseded>>
OwnerMoves ==
  /\ UNCHANGED <<ctl, inbox, calling, results, started>> /\ CutOff
  /\ owner' \in OwnerType /\ owner'.stopping = owner.stopping
  /\ owner'.pending < owner'.next /\ (owner'.pending # 0 => owner'.active = 0)
  /\ owner.stopping => owner' = owner
  /\ saved' \in Gens /\ owner'.active \in Gens /\ owner'.active \notin superseded'
  /\ owner'.active # 0 => saved' = owner'.active
  /\ service' \in [last : Nat, live : SUBSET Nat, refreshable : SUBSET Nat]
  /\ service'.live \cup service'.refreshable \subseteq 1 .. service'.last
  /\ service.last <= service'.last
  /\ superseded \subseteq superseded' /\ superseded' \subseteq 1 .. service.last
  /\ Untouched \/ (started /\ ctl.tx = 0 /\ ~Gone(World))

LEMMA ChatKept ==
  ASSUME SessionInv, OwnerMoves, RecoveryInv',
         \A t \in Threads : chat'[t].gen \in Gens' /\ chat'[t].session \in Gens'
  PROVE  SessionInv'
  <1>0. /\ WorldInv(World) /\ World.ctl = ctl /\ World.owner = owner /\ World.saved = saved
        /\ World.inbox = inbox
        /\ QueuesInv /\ GensInv /\ RotationInv /\ Gens \subseteq Nat
        /\ started \in BOOLEAN
        /\ (ctl.tx # 0 => started) /\ (ctl.request # 0 => ctl.tx # 0)
        /\ (ctl.deferred # None => ctl.tx # 0)
    BY SessionParts
  <1>1. World'.ctl = ctl /\ World'.owner = owner' /\ World'.saved = saved' /\ World'.inbox = inbox
    BY DEF World, OwnerMoves
  <1>2. WorldInv(World')
    <2>1. World' \in WorldType
      <3>1. ctl \in CtlType /\ inbox \in Seq(Request)
        BY <1>0, WorldParts
      <3>2. saved' \in Nat /\ owner' \in OwnerType
        BY <1>0 DEF OwnerMoves
      <3>3. World' = [ctl |-> ctl, owner |-> owner', saved |-> saved', inbox |-> inbox]
        BY DEF World, OwnerMoves
      <3> QED
        BY <3>1, <3>2, <3>3 DEF WorldType
    <2>2. owner'.stopping => owner'.active = 0 /\ owner'.pending = 0
      BY <1>0 DEF OwnerMoves, WorldInv
    <2>3. ctl.tx # 0 => ctl.tx = owner'.pending
      BY <1>0 DEF OwnerMoves, Untouched, WorldInv
    <2>4. /\ Len(inbox) <= AuthCapacity
          /\ ctl.tx = 0 => ctl.request = 0 /\ ctl.gen = 0 /\ ctl.code = None /\ ctl.deferred = None
          /\ ctl.request # 0 <=> ctl.phase # None
          /\ ctl.request # 0 => ctl.gen = 0 /\ ctl.deferred = None
          /\ ctl.request < ctl.next
          /\ ctl.code # None => ctl.phase \in {None, "Poll"} /\ ctl.deferred = None
      BY <1>0 DEF WorldInv
    <2>5. /\ owner'.pending < owner'.next /\ (owner'.pending # 0 => owner'.active = 0)
          /\ owner'.active # 0 => saved' = owner'.active
      BY DEF OwnerMoves
    <2> QED
      BY <1>1, <2>1, <2>2, <2>3, <2>4, <2>5 DEF WorldInv
  <1>3. QueuesInv'
    BY <1>0 DEF QueuesInv, OwnerMoves, AllCurrent, Current, Distinct, Apart
  <1>4. GensInv'
    <2>1. service.last \in Nat /\ service'.last \in Nat /\ service.last <= service'.last
      BY <1>0 DEF OwnerMoves, GensInv
    <2>2. \A g \in Gens : g \in Gens'
      BY <2>1 DEF Gens
    <2>3. superseded' \subseteq 1 .. service'.last
      BY <2>1 DEF OwnerMoves
    <2>4. /\ service' \in [last : Nat, live : SUBSET Nat, refreshable : SUBSET Nat]
          /\ service'.live \cup service'.refreshable \subseteq 1 .. service'.last
          /\ saved' \in Gens /\ owner'.active \in Gens
          /\ UNCHANGED <<ctl, inbox, calling, results>>
      BY DEF OwnerMoves
    <2>5. \A t \in Threads' : chat'[t].gen \in Gens' /\ chat'[t].session \in Gens'
      BY DEF Threads
    <2> QED
      BY <1>0, <2>2, <2>3, <2>4, <2>5 DEF GensInv
  <1>5. RotationInv'
    <2>1. UNCHANGED <<ctl, inbox, calling, results, started>> /\ owner'.active \notin superseded'
      BY DEF OwnerMoves
    <2>2. CASE Untouched
      BY <1>0, <2>1, <2>2 DEF RotationInv, Untouched, Usable, UsableAnswer
    <2>3. CASE started /\ ctl.tx = 0
      <3>1. ctl.request = 0 /\ ctl.deferred = None
        BY <1>0, <2>3
      <3>2. Quiet(inbox) /\ Quiet(results) /\ (calling.id # 0 => calling.op \notin Sensitive)
        BY <3>1, AllQuiet
      <3>3. \A i \in 1 .. Len(inbox) : Usable(superseded', inbox[i])
        BY <3>2 DEF Quiet, Usable, Sensitive
      <3>4. \A i \in 1 .. Len(results) : results[i].id # 0
        <4>1. \A i \in 1 .. Len(results) : results[i] \in Answered
          BY <1>0, ElementOfSeq DEF QueuesInv
        <4> QED
          BY <4>1 DEF Answered
      <3>5. \A i \in 1 .. Len(results) : UsableAnswer(superseded', ctl.request, results[i])
        BY <3>1, <3>2, <3>4 DEF Quiet, UsableAnswer, Sensitive
      <3>6. calling.id # 0 => Usable(superseded', calling) /\ UsableAnswer(superseded', ctl.request, calling)
        BY <3>1, <3>2 DEF UsableAnswer, Sensitive, Usable
      <3> QED
        BY <2>1, <2>3, <3>1, <3>3, <3>5, <3>6 DEF RotationInv
    <2> QED
      BY <2>2, <2>3 DEF OwnerMoves
  <1>6. cut' \in BOOLEAN /\ (cut' => cut)
    BY DEF CutOff, SessionInv, OwnerMoves
  <1>7. cut' => Gone(World')
    <2>1. cut' => Gone(World)
      BY <1>6 DEF SessionInv
    <2> QED
      BY <1>0, <1>1, <2>1 DEF OwnerMoves, Untouched, Gone
  <1>8. (ctl.shut <=> owner'.stopping) /\ ctl' = ctl /\ started' = started
    BY DEF SessionInv, OwnerMoves
  <1> QED
    BY <1>0, <1>2, <1>3, <1>4, <1>5, <1>6, <1>7, <1>8 DEF SessionInv

(* One thread moves on; its transaction, if it has one, stays open.             *)
LEMMA RecoveryMoves ==
  ASSUME SessionInv, NEW t \in Threads, NEW step \in ChatType, chat' = [chat EXCEPT ![t] = step],
         ctl' = ctl, owner'.pending = owner.pending, owner'.stopping = owner.stopping,
         step.tx = chat[t].tx, Recovery(t)',
         Untouched \/ (chat[t].tx # 0 /\ ~owner.stopping)
  PROVE  RecoveryInv'
  <1>0. RecoveryInv /\ World.ctl = ctl /\ World.owner = owner /\ World.saved = saved
    BY SessionParts
  <1>1. World'.ctl = ctl /\ World'.owner = owner' /\ World'.saved = saved'
    BY DEF World
  <1>2. Lent(World') <=> Lent(World)
    BY <1>0, <1>1 DEF Lent
  <1>3. chat' \in [Threads -> ChatType] /\ \A u \in Threads : chat'[u] = IF u = t THEN step ELSE chat[u]
    BY <1>0 DEF RecoveryInv
  <1>4. ASSUME NEW u \in Threads, u # t PROVE Recovery(u)'
    <2>1. Recovery(u) /\ Recovery(t)
      BY <1>0 DEF RecoveryInv
    <2>2. chat'[u] = chat[u]
      BY <1>3, <1>4
    <2>3. CASE Untouched
      BY <1>0, <1>2, <2>1, <2>2, <2>3 DEF Recovery, Replacing, Untouched
    <2>4. CASE chat[t].tx # 0 /\ ~owner.stopping
      <3>1. chat[t].tx = owner.pending
        BY <2>1, <2>4 DEF Recovery
      <3>2. chat[u].tx = 0
        BY <1>0, <1>4, <2>1, <2>4, <3>1 DEF Recovery, RecoveryInv
      <3> QED
        BY <2>1, <2>2, <3>2 DEF Recovery
    <2> QED
      BY <2>3, <2>4
  <1>5. \A u \in Threads : Recovery(u)'
    BY <1>4
  <1>6. \A u \in Threads : chat'[u].tx = chat[u].tx
    BY <1>3
  <1> QED
    BY <1>0, <1>2, <1>3, <1>5, <1>6 DEF RecoveryInv, Threads

(* A thread takes the session out.                                              *)
LEMMA RecoveryTakes ==
  ASSUME SessionInv, NEW t \in Threads, NEW step \in ChatType, chat' = [chat EXCEPT ![t] = step],
         ctl' = ctl, owner'.pending = owner.next, owner'.stopping = owner.stopping, Idle(owner),
         step.tx = owner.next, Recovery(t)'
  PROVE  RecoveryInv'
  <1>0. RecoveryInv /\ World.ctl = ctl /\ World.owner = owner /\ World.saved = saved /\ owner \in OwnerType
    BY SessionParts
  <1>1. ~owner.stopping /\ owner.pending = 0 /\ owner.next # 0
    BY <1>0 DEF Idle, OwnerType
  <1>3. chat' \in [Threads -> ChatType] /\ \A u \in Threads : chat'[u] = IF u = t THEN step ELSE chat[u]
    BY <1>0 DEF RecoveryInv
  <1>4. ASSUME NEW u \in Threads, u # t PROVE Recovery(u)' /\ chat'[u].tx = 0
    <2>1. Recovery(u)
      BY <1>0 DEF RecoveryInv
    <2>2. chat'[u] = chat[u] /\ chat[u].tx = 0
      BY <1>1, <1>3, <1>4, <2>1 DEF Recovery
    <2> QED
      BY <2>1, <2>2 DEF Recovery
  <1>5. \A u \in Threads : Recovery(u)'
    BY <1>4
  <1>6. chat'[t].tx = owner'.pending
    BY <1>3
  <1>7. \A u \in Threads : chat'[u].tx = owner'.pending => u = t
    BY <1>1, <1>4
  <1> QED
    BY <1>3, <1>5, <1>6, <1>7 DEF RecoveryInv, Threads

(* A thread brings the session back, or finds that the owner has stopped.       *)
LEMMA RecoveryEnds ==
  ASSUME SessionInv, NEW t \in Threads, NEW step \in ChatType, chat' = [chat EXCEPT ![t] = step],
         ctl' = ctl, owner'.stopping = owner.stopping, owner'.pending = 0,
         chat[t].tx # 0, step.tx = 0, step.pc \notin RecoverPlaces
  PROVE  RecoveryInv'
  <1>0. RecoveryInv /\ World.ctl = ctl /\ World.owner = owner /\ World.saved = saved
    BY SessionParts
  <1>1. World'.owner = owner'
    BY DEF World
  <1>3. chat' \in [Threads -> ChatType] /\ \A u \in Threads : chat'[u] = IF u = t THEN step ELSE chat[u]
    BY <1>0 DEF RecoveryInv
  <1>4. ASSUME NEW u \in Threads PROVE Recovery(u)'
    <2>1. Recovery(u) /\ Recovery(t)
      BY <1>0 DEF RecoveryInv
    <2>2. CASE u = t
      <3>1. chat'[u].tx = 0 /\ chat'[u].pc \notin RecoverPlaces
        BY <1>3, <2>2
      <3> QED
        BY <3>1 DEF Recovery
    <2>3. CASE u # t /\ owner.stopping
      <3>1. chat'[u] = chat[u]
        BY <1>3, <2>3
      <3> QED
        BY <2>1, <2>3, <3>1 DEF Recovery
    <2>4. CASE u # t /\ ~owner.stopping
      <3>1. chat'[u] = chat[u]
        BY <1>3, <2>4
      <3>2. chat[t].tx = owner.pending
        BY <2>1, <2>4 DEF Recovery
      <3>3. chat[u].tx = 0
        BY <1>0, <2>1, <2>4, <3>2 DEF Recovery, RecoveryInv
      <3> QED
        BY <2>1, <3>1, <3>3 DEF Recovery
    <2> QED
      BY <2>2, <2>3, <2>4
  <1>5. ~Lent(World')
    BY <1>1 DEF Lent
  <1> QED
    BY <1>3, <1>4, <1>5 DEF RecoveryInv, Threads

LEMMA ThreadParts ==
  ASSUME SessionInv, NEW t \in Threads
  PROVE  /\ chat \in [Threads -> ChatType] /\ chat[t] \in ChatType /\ Recovery(t)
         /\ chat[t].gen \in Gens /\ chat[t].session \in Gens
         /\ Resting \in ChatType /\ Resting.pc = "Idle" /\ Resting.tx = 0 /\ Resting.gen = 0
         /\ Resting.session = 0
  <1>1. RecoveryInv /\ GensInv
    BY SessionParts
  <1>2. Resting \in ChatType
    BY DEF Resting, ChatType, ChatPlaces
  <1> QED
    BY <1>1, <1>2 DEF RecoveryInv, GensInv, Resting

LEMMA ThreadSafe ==
  ASSUME SessionInv, NEW t \in Threads, NEW step, chat' = [chat EXCEPT ![t] = step],
         step.gen \in Gens', step.session \in Gens', OwnerMoves, RecoveryInv'
  PROVE  SessionInv'
  <1>0. GensInv /\ RecoveryInv
    BY SessionParts
  <1>1. \A g \in Gens : g \in Gens'
    <2>1. service.last \in Nat /\ service'.last \in Nat /\ service.last <= service'.last
      BY <1>0 DEF OwnerMoves, GensInv
    <2> QED
      BY <2>1 DEF Gens
  <1>2. \A u \in Threads : chat'[u] = IF u = t THEN step ELSE chat[u]
    BY <1>0 DEF RecoveryInv
  <1>3. \A u \in Threads : chat'[u].gen \in Gens' /\ chat'[u].session \in Gens'
    BY <1>0, <1>1, <1>2 DEF GensInv
  <1> QED
    BY <1>3, ChatKept

(* The controller, its worker, the owner and the record stay as they are.      *)
SessionStays ==
  /\ UNCHANGED <<ctl, inbox, calling, results, started, owner, saved, superseded>> /\ CutOff
  /\ service' \in [last : Nat, live : SUBSET Nat, refreshable : SUBSET Nat]
  /\ service'.live \cup service'.refreshable \subseteq 1 .. service'.last
  /\ service.last <= service'.last

LEMMA StaysMoves ==
  ASSUME SessionInv, SessionStays
  PROVE  OwnerMoves
  <1>1. /\ WorldInv(World) /\ World.owner = owner /\ World.saved = saved /\ owner \in OwnerType
        /\ GensInv /\ RotationInv
    BY SessionParts
  <1>2. /\ owner.pending < owner.next /\ (owner.pending # 0 => owner.active = 0)
        /\ owner.active # 0 => saved = owner.active
    BY <1>1 DEF WorldInv
  <1> QED
    BY <1>1, <1>2 DEF SessionStays, OwnerMoves, Untouched, GensInv, RotationInv

LEMMA StillService ==
  ASSUME SessionInv, service' = service
  PROVE  /\ service' \in [last : Nat, live : SUBSET Nat, refreshable : SUBSET Nat]
         /\ service'.live \cup service'.refreshable \subseteq 1 .. service'.last
         /\ service.last <= service'.last /\ Gens' = Gens
  BY SessionParts DEF GensInv, Gens

LEMMA StillSafe ==
  ASSUME SessionInv, SessionStays, chat' = chat
  PROVE  SessionInv'
  <1>0. GensInv /\ RecoveryInv
    BY SessionParts
  <1>1. RecoveryInv'
    <2>1. World'.ctl = World.ctl /\ World'.owner = World.owner
      BY DEF World, SessionStays
    <2>2. Lent(World') <=> Lent(World)
      BY <2>1 DEF Lent
    <2> QED
      BY <1>0, <2>2 DEF RecoveryInv, Recovery, Replacing, SessionStays, Threads
  <1>2. \A g \in Gens : g \in Gens'
    <2>1. service.last \in Nat /\ service'.last \in Nat /\ service.last <= service'.last
      BY <1>0 DEF SessionStays, GensInv
    <2> QED
      BY <2>1 DEF Gens
  <1>3. \A u \in Threads : chat'[u].gen \in Gens' /\ chat'[u].session \in Gens'
    BY <1>0, <1>2 DEF GensInv
  <1> QED
    BY <1>1, <1>3, StaysMoves, ChatKept

(* A step of a thread that has no session out and takes none.                   *)
LEMMA WalkSafe ==
  ASSUME SessionInv, SessionStays, NEW t \in Threads, NEW step \in ChatType,
         chat' = [chat EXCEPT ![t] = step], chat[t].tx = 0, step.tx = 0, step.pc \notin RecoverPlaces,
         step.gen \in Gens, step.session \in Gens
  PROVE  SessionInv'
  <1>0. chat \in [Threads -> ChatType] /\ GensInv
    BY ThreadParts, SessionParts
  <1>1. chat'[t] = step
    BY <1>0
  <1>2. Recovery(t)'
    BY <1>1 DEF Recovery
  <1>3. RecoveryInv'
    <2>1. ctl' = ctl /\ owner'.pending = owner.pending /\ owner'.stopping = owner.stopping /\ Untouched
      BY DEF SessionStays, Untouched
    <2> QED
      BY <1>2, <2>1, RecoveryMoves
  <1>4. step.gen \in Gens' /\ step.session \in Gens'
    <2>1. service.last \in Nat /\ service'.last \in Nat /\ service.last <= service'.last
      BY <1>0 DEF SessionStays, GensInv
    <2> QED
      BY <2>1 DEF Gens
  <1> QED
    BY <1>3, <1>4, StaysMoves, ThreadSafe

(* What becomes of a session that a thread brings back.                         *)
GivesBack(t) ==
  /\ chat[t].tx # 0
  /\ \/ owner.stopping /\ UNCHANGED <<owner, saved>>
     \/ /\ ~owner.stopping /\ owner' \in OwnerType /\ owner'.pending = 0 /\ ~owner'.stopping
        /\ owner'.next = owner.next /\ saved' \in {0, saved, chat[t].session}
        /\ owner'.active # 0 => /\ owner'.active = chat[t].session /\ saved' = chat[t].session
                                /\ chat[t].session \notin superseded

LEMMA ReturnSafe ==
  ASSUME SessionInv, NEW t \in Threads, NEW step \in ChatType, chat' = [chat EXCEPT ![t] = step],
         GivesBack(t), step.tx = 0, step.pc \notin RecoverPlaces, step.gen \in Gens, step.session \in Gens,
         UNCHANGED <<ctl, inbox, calling, results, started, service, superseded>>, CutOff
  PROVE  SessionInv'
  <1>0. /\ WorldInv(World) /\ World.ctl = ctl /\ World.owner = owner /\ World.saved = saved
        /\ owner \in OwnerType /\ GensInv /\ RotationInv /\ 0 \in Gens /\ 0 \notin superseded
        /\ chat[t].session \in Gens /\ Recovery(t) /\ started \in BOOLEAN
    BY SessionParts, ThreadParts
  <1>1. owner.stopping => owner.active = 0 /\ owner.pending = 0
    BY <1>0 DEF WorldInv
  <1>2. RecoveryInv'
    <2>1. ctl' = ctl /\ owner'.stopping = owner.stopping /\ owner'.pending = 0 /\ chat[t].tx # 0
      BY <1>0, <1>1 DEF GivesBack, OwnerType
    <2> QED
      BY <2>1, RecoveryEnds
  <1>3. OwnerMoves
    <2>1. CASE owner.stopping /\ UNCHANGED <<owner, saved>>
      <3>1. SessionStays
        BY <2>1, StillService DEF SessionStays
      <3> QED
        BY <3>1, StaysMoves
    <2>2. CASE ~owner.stopping
      <3>1. Lent(World) /\ started /\ ctl.tx = 0 /\ ~Gone(World)
        <4>1. Lent(World)
          BY <1>0, <2>2 DEF Recovery, GivesBack
        <4> QED
          BY <1>0, <4>1 DEF RotationInv, Lent, Gone
      <3>2. owner'.pending < owner'.next /\ owner'.pending = 0
        BY <1>0, <2>2 DEF GivesBack, OwnerType
      <3>3. saved' \in Gens /\ owner'.active \in Gens /\ owner'.active \notin superseded
        BY <1>0, <2>2 DEF GivesBack, GensInv
      <3>4. /\ owner' \in OwnerType /\ owner'.stopping = owner.stopping
            /\ owner'.active # 0 => saved' = owner'.active
        BY <1>0, <2>2 DEF GivesBack, OwnerType
      <3>5. /\ service' \in [last : Nat, live : SUBSET Nat, refreshable : SUBSET Nat]
            /\ service'.live \cup service'.refreshable \subseteq 1 .. service'.last
            /\ service.last <= service'.last
        BY StillService
      <3>6. superseded' = superseded /\ superseded \subseteq 1 .. service.last
        BY <1>0 DEF GensInv
      <3> QED
        BY <2>2, <3>1, <3>2, <3>3, <3>4, <3>5, <3>6 DEF OwnerMoves
    <2> QED
      BY <2>1, <2>2 DEF GivesBack
  <1>4. step.gen \in Gens' /\ step.session \in Gens'
    BY StillService
  <1> QED
    BY <1>2, <1>3, <1>4, ThreadSafe

Held == [owner : OwnerType, saved : Nat]

LEMMA DiscardBack ==
  ASSUME NEW w \in Held, NEW id, Check(w.owner, id), NEW erase \in BOOLEAN, NEW io \in Storage
  PROVE  LET v == Discard(w, id, erase, io) IN
         /\ v.owner \in OwnerType /\ v.owner.active = 0 /\ v.owner.pending = 0
         /\ v.owner.next = w.owner.next /\ v.owner.stopping = w.owner.stopping
         /\ v.saved \in {0, w.saved}
  <1> DEFINE v == Discard(w, id, erase, io)
             s == IF erase /\ io.erase THEN 0 ELSE w.saved
             u == [w EXCEPT !.owner.active = 0, !.owner.pending = 0, !.saved = s]
  <1>0. s \in {0, w.saved} /\ s \in Nat
    BY DEF Held
  <1>1. v = u
    BY DEF Discard, Held
  <1> HIDE DEF s
  <1>2. u.owner \in OwnerType /\ u.saved = s
    BY <1>0 DEF Held, OwnerType
  <1>3. u.owner.active = 0 /\ u.owner.pending = 0 /\ u.owner.next = w.owner.next /\ u.owner.stopping = w.owner.stopping
    BY DEF Held, OwnerType
  <1> QED
    BY <1>0, <1>1, <1>2, <1>3

LEMMA RestoreBack ==
  ASSUME NEW w \in Held, NEW id, Check(w.owner, id), w.owner.restorable, NEW gen \in Nat
  PROVE  LET v == Restore(w, id, gen) IN
         /\ v.owner \in OwnerType /\ v.owner.active = gen /\ v.owner.pending = 0
         /\ v.owner.next = w.owner.next /\ v.owner.stopping = w.owner.stopping
         /\ v.saved = w.saved
  <1> DEFINE v == Restore(w, id, gen)
             u == [w EXCEPT !.owner.active = gen, !.owner.pending = 0]
  <1>1. v = u
    BY DEF Restore
  <1>2. u.owner \in OwnerType /\ u.saved = w.saved
    BY DEF Held, OwnerType
  <1>3. u.owner.active = gen /\ u.owner.pending = 0 /\ u.owner.next = w.owner.next /\ u.owner.stopping = w.owner.stopping
    BY DEF Held, OwnerType
  <1> QED
    BY <1>1, <1>2, <1>3

LEMMA CommitBack ==
  ASSUME NEW w \in Held, NEW id, NEW gen \in Nat, NEW io \in Storage, ~CommitFails(w, id, io)
  PROVE  LET v == Commit(w, id, gen, io) IN
         /\ v.owner \in OwnerType /\ v.owner.active = gen /\ v.owner.pending = 0
         /\ v.owner.next = w.owner.next /\ v.owner.stopping = w.owner.stopping
         /\ v.saved = gen
  <1> DEFINE v == Commit(w, id, gen, io)
             n == w.owner.revision + 1
             u == [w EXCEPT !.owner.active = gen, !.owner.pending = 0, !.owner.revision = n, !.saved = gen]
  <1>0. n \in Nat
    BY DEF Held, OwnerType
  <1>1. v = u
    BY DEF Commit, CommitFails, Held
  <1> HIDE DEF n
  <1>2. u.owner \in OwnerType /\ u.saved = gen
    BY <1>0 DEF Held, OwnerType
  <1>3. u.owner.active = gen /\ u.owner.pending = 0 /\ u.owner.next = w.owner.next /\ u.owner.stopping = w.owner.stopping
    BY DEF Held, OwnerType
  <1> QED
    BY <1>1, <1>2, <1>3

LEMMA PersistBack ==
  ASSUME NEW w \in Held, NEW id, Check(w.owner, id), NEW gen \in Nat, NEW io \in Storage
  PROVE  LET v == PersistPending(w, id, gen, io) IN
         /\ v \in Held /\ v.owner.active = w.owner.active /\ v.owner.pending = w.owner.pending
         /\ v.owner.next = w.owner.next /\ v.owner.stopping = w.owner.stopping
         /\ IF PersistFails(w, id, io) THEN v.saved = w.saved ELSE v.saved = gen
  <1> DEFINE v == PersistPending(w, id, gen, io)
             s == IF io.store THEN gen ELSE w.saved
             u == [w EXCEPT !.owner.restorable = FALSE, !.saved = s]
  <1>0. s \in Nat /\ IF PersistFails(w, id, io) THEN s = w.saved ELSE s = gen
    BY DEF Held, PersistFails
  <1>1. v = u
    BY DEF PersistPending, Held
  <1> HIDE DEF s
  <1>2. u \in Held /\ u.saved = s
    BY <1>0 DEF Held, OwnerType
  <1>3. u.owner.active = w.owner.active /\ u.owner.pending = w.owner.pending /\ u.owner.next = w.owner.next
        /\ u.owner.stopping = w.owner.stopping
    BY DEF Held, OwnerType
  <1> QED
    BY <1>0, <1>1, <1>2, <1>3

(* What a chat step leaves alone.                                               *)
ChatFrame == UNCHANGED <<ctl, inbox, calling, results, started>> /\ CutOff

LEMMA OutMeans ==
  ASSUME SessionInv, NEW t \in Threads, chat[t].tx # 0
  PROVE  /\ Sessions \in Held /\ Sessions.owner = owner /\ Sessions.saved = saved
         /\ Check(owner, chat[t].tx) <=> ~owner.stopping
         /\ ~owner.stopping => /\ Lent(World) /\ chat[t].tx = owner.pending /\ owner.pending # 0
                               /\ owner.active = 0 /\ ctl.tx = 0 /\ started /\ ~Gone(World)
                               /\ ~Replacing(t) => owner.restorable /\ saved = chat[t].session
         /\ chat[t].pc \in RecoverPlaces
         /\ chat[t].session \in Nat /\ chat[t].gen \in Nat
  <1>0. /\ WorldInv(World) /\ World.ctl = ctl /\ World.owner = owner /\ World.saved = saved
        /\ owner \in OwnerType /\ saved \in Nat /\ Recovery(t) /\ chat[t] \in ChatType
        /\ RotationInv /\ started \in BOOLEAN
    BY SessionParts, WorldParts, ThreadParts
  <1>1. Sessions \in Held /\ Sessions.owner = owner /\ Sessions.saved = saved
    BY <1>0 DEF Sessions, Held
  <1>2. /\ ~owner.stopping => Lent(World) /\ chat[t].tx = owner.pending
                              /\ (~Replacing(t) => owner.restorable /\ saved = chat[t].session)
        /\ chat[t].pc \in RecoverPlaces
    BY <1>0 DEF Recovery
  <1>3. Lent(World) => owner.pending # 0 /\ ctl.tx = 0 /\ owner.active = 0 /\ ~Gone(World) /\ started
    BY <1>0 DEF Lent, WorldInv, Gone, RotationInv
  <1>4. chat[t].session \in Nat /\ chat[t].gen \in Nat
    BY <1>0 DEF ChatType
  <1> QED
    BY <1>1, <1>2, <1>3, <1>4 DEF Check

LEMMA DiscardGives ==
  ASSUME SessionInv, NEW t \in Threads, chat[t].tx # 0, NEW erase \in BOOLEAN, NEW io \in Storage,
         Settle(Discard(Sessions, chat[t].tx, erase, io))
  PROVE  GivesBack(t)
  <1> DEFINE v == Discard(Sessions, chat[t].tx, erase, io)
  <1>0. owner \in OwnerType
    BY SessionParts
  <1>1. owner' = v.owner /\ saved' = v.saved
    BY DEF Settle
  <1>2. CASE owner.stopping
    <2>1. v = Sessions
      BY <1>2, OutMeans DEF Discard
    <2> QED
      BY <1>1, <1>2, <2>1, OutMeans DEF GivesBack
  <1>3. CASE ~owner.stopping
    <2>1. /\ v.owner \in OwnerType /\ v.owner.active = 0 /\ v.owner.pending = 0
          /\ v.owner.next = owner.next /\ v.owner.stopping = owner.stopping
          /\ v.saved \in {0, saved}
      BY <1>3, OutMeans, DiscardBack
    <2> HIDE DEF v
    <2> QED
      BY <1>1, <1>3, <2>1 DEF GivesBack
  <1> QED
    BY <1>0, <1>2, <1>3 DEF OwnerType

LEMMA RestoreGives ==
  ASSUME SessionInv, NEW t \in Threads, chat[t].tx # 0, ~Replacing(t),
         chat[t].pc = "Refreshed" => chat[t].out # "Ok",
         Settle(Restore(Sessions, chat[t].tx, chat[t].session))
  PROVE  GivesBack(t)
  <1> DEFINE v == Restore(Sessions, chat[t].tx, chat[t].session)
  <1>0. owner \in OwnerType
    BY SessionParts
  <1>1. owner' = v.owner /\ saved' = v.saved
    BY DEF Settle
  <1>2. CASE owner.stopping
    <2>1. v = Sessions
      BY <1>2, OutMeans DEF Restore
    <2> QED
      BY <1>1, <1>2, <2>1, OutMeans DEF GivesBack
  <1>3. CASE ~owner.stopping
    <2>1. /\ v.owner \in OwnerType /\ v.owner.active = chat[t].session /\ v.owner.pending = 0
          /\ v.owner.next = owner.next /\ v.owner.stopping = owner.stopping
          /\ v.saved = saved
      BY <1>3, OutMeans, RestoreBack
    <2>2. saved = chat[t].session /\ chat[t].session \notin superseded
      BY <1>3, OutMeans, ThreadParts DEF Recovery
    <2> HIDE DEF v
    <2> QED
      BY <1>1, <1>3, <2>1, <2>2 DEF GivesBack
  <1> QED
    BY <1>0, <1>2, <1>3 DEF OwnerType

LEMMA CommitGives ==
  ASSUME SessionInv, NEW t \in Threads, chat[t].tx # 0, chat[t].pc # "Refreshed", NEW io \in Storage,
         ~CommitFails(Sessions, chat[t].tx, io),
         Settle(Commit(Sessions, chat[t].tx, chat[t].session, io))
  PROVE  GivesBack(t)
  <1> DEFINE v == Commit(Sessions, chat[t].tx, chat[t].session, io)
  <1>1. owner' = v.owner /\ saved' = v.saved
    BY DEF Settle
  <1>2. ~owner.stopping
    BY OutMeans DEF CommitFails, Check
  <1>3. /\ v.owner \in OwnerType /\ v.owner.active = chat[t].session /\ v.owner.pending = 0
        /\ v.owner.next = owner.next /\ v.owner.stopping = owner.stopping
        /\ v.saved = chat[t].session
    BY OutMeans, CommitBack
  <1>4. chat[t].session \notin superseded
    BY <1>2, ThreadParts DEF Recovery
  <1> HIDE DEF v
  <1> QED
    BY <1>1, <1>2, <1>3, <1>4 DEF GivesBack

LEMMA RestsSafe ==
  ASSUME SessionInv, NEW t \in Threads, NEW result, Finish(t, result), GivesBack(t),
         ChatFrame, UNCHANGED <<service, superseded>>
  PROVE  SessionInv'
  <1>1. chat' = [chat EXCEPT ![t] = Resting]
    BY DEF Finish
  <1> DEFINE step == Resting
  <1>2. /\ step \in ChatType /\ step.tx = 0 /\ step.gen \in Gens /\ step.session \in Gens
        /\ step.pc \notin RecoverPlaces
    BY ThreadParts, SessionParts DEF RecoverPlaces
  <1>3. chat' = [chat EXCEPT ![t] = step]
    BY <1>1
  <1> HIDE DEF step
  <1> QED
    BY <1>2, <1>3, ReturnSafe DEF ChatFrame

LEMMA EndFailedSafe ==
  ASSUME SessionInv, NEW t \in Threads, NEW result, NEW restore \in BOOLEAN, NEW erase \in BOOLEAN,
         NEW io \in Storage, EndFailedRecovery(t, result, restore, erase, io), chat[t].tx # 0,
         restore => ~Replacing(t) /\ (chat[t].pc = "Refreshed" => chat[t].out # "Ok"),
         ChatFrame, UNCHANGED <<service, superseded>>
  PROVE  SessionInv'
  <1>1. Finish(t, result)
    BY DEF EndFailedRecovery
  <1>2. GivesBack(t)
    <2>1. CASE restore
      <3>1. Settle(Restore(Sessions, chat[t].tx, chat[t].session))
        BY <2>1 DEF EndFailedRecovery
      <3> QED
        BY <2>1, <3>1, RestoreGives
    <2>2. CASE ~restore
      <3>1. Settle(Discard(Sessions, chat[t].tx, erase, io))
        BY <2>2 DEF EndFailedRecovery
      <3> QED
        BY <3>1, DiscardGives
    <2> QED
      BY <2>1, <2>2
  <1> QED
    BY <1>1, <1>2, RestsSafe

LEMMA FinishRecoverySafe ==
  ASSUME SessionInv, NEW t \in Threads, NEW io \in Storage, FinishRecovery(t, io), chat[t].tx # 0,
         chat[t].pc # "Refreshed", ChatFrame, UNCHANGED <<service, superseded>>
  PROVE  SessionInv'
  <1>1. CASE CommitFails(Sessions, chat[t].tx, io)
    <2> DEFINE erase == FALSE
    <2>1. Settle(Discard(Sessions, chat[t].tx, erase, io)) /\ Finish(t, "Failed") /\ erase \in BOOLEAN
      BY <1>1 DEF FinishRecovery
    <2> HIDE DEF erase
    <2>2. GivesBack(t)
      BY <2>1, DiscardGives
    <2> QED
      BY <2>1, <2>2, RestsSafe
  <1>2. CASE ~CommitFails(Sessions, chat[t].tx, io)
    <2> DEFINE step == [chat[t] EXCEPT !.pc = "Reacquire", !.tx = 0]
    <2>1. Settle(Commit(Sessions, chat[t].tx, chat[t].session, io)) /\ Go(t, step)
      BY <1>2 DEF FinishRecovery
    <2>2. GivesBack(t)
      BY <1>2, <2>1, CommitGives
    <2>3. /\ step \in ChatType /\ step.tx = 0 /\ step.pc = "Reacquire" /\ step.gen = chat[t].gen
          /\ step.session = chat[t].session
      BY ThreadParts DEF ChatType, ChatPlaces
    <2>4. chat' = [chat EXCEPT ![t] = step]
      BY <2>1 DEF Go
    <2> HIDE DEF step
    <2>5. step.gen \in Gens /\ step.session \in Gens /\ step.pc \notin RecoverPlaces
      BY <2>3, ThreadParts DEF RecoverPlaces
    <2> QED
      BY <2>2, <2>3, <2>4, <2>5, ReturnSafe DEF ChatFrame
  <1> QED
    BY <1>1, <1>2

(* A step of a recovery that leaves the owner and the record as they are.      *)
LEMMA PressesOn ==
  ASSUME SessionInv, NEW t \in Threads, NEW step \in ChatType, Go(t, step),
         chat[t].tx # 0, step.tx = chat[t].tx, step.pc \in RecoverPlaces, step.session = chat[t].session,
         step.gen = chat[t].gen,
         step.pc \in {"Revalidate", "Revalidated"} <=> Replacing(t),
         step.pc # "Refreshed", chat[t].pc # "Refreshed",
         ChatFrame, UNCHANGED <<service, superseded, owner, saved>>
  PROVE  SessionInv'
  <1>0. /\ World.ctl = ctl /\ World.owner = owner /\ World.saved = saved
        /\ Recovery(t) /\ chat \in [Threads -> ChatType]
        /\ chat[t].gen \in Gens /\ chat[t].session \in Gens
    BY SessionParts, ThreadParts
  <1>1. chat' = [chat EXCEPT ![t] = step] /\ chat'[t] = step
    BY <1>0 DEF Go
  <1>2. World'.ctl = ctl /\ World'.owner = owner
    BY DEF World, ChatFrame
  <1>3. Recovery(t)'
    <2>1. Lent(World') <=> Lent(World)
      BY <1>0, <1>2 DEF Lent
    <2> QED
      BY <1>0, <1>1, <2>1 DEF Recovery, Replacing
  <1>4. SessionStays
    BY StillService DEF SessionStays, ChatFrame
  <1>5. RecoveryInv'
    BY <1>1, <1>3, RecoveryMoves DEF ChatFrame, Untouched
  <1>6. step.gen \in Gens' /\ step.session \in Gens'
    BY <1>0, StillService
  <1> QED
    BY <1>1, <1>4, <1>5, <1>6, StaysMoves, ThreadSafe

LEMMA PlacesOut ==
  ASSUME SessionInv, NEW t \in Threads, chat[t].pc \in RecoverPlaces
  PROVE  chat[t].tx # 0 /\ chat[t] \in ChatType /\ chat \in [Threads -> ChatType]
         /\ (Broken(t) <=> stop \/ owner.stopping)
  <1>1. Recovery(t) /\ chat[t] \in ChatType /\ chat \in [Threads -> ChatType]
    BY ThreadParts
  <1>2. chat[t].tx # 0
    BY <1>1 DEF Recovery
  <1> QED
    BY <1>1, <1>2, OutMeans DEF Broken

LEMMA RecoverValidateSafe ==
  ASSUME SessionInv, NEW t \in Threads, RecoverValidate(t), ChatFrame
  PROVE  SessionInv'
  <1>0. chat[t].pc \in {"Validate", "Revalidate"}
    BY DEF RecoverValidate
  <1>1. chat[t].tx # 0 /\ chat[t] \in ChatType
    BY <1>0, PlacesOut DEF RecoverPlaces
  <1>2. CASE Broken(t)
    <2> DEFINE restore == chat[t].pc = "Validate"
               erase == TRUE
    <2>1. PICK io \in Storage : EndFailedRecovery(t, "Cancelled", restore, erase, io)
      BY <1>2 DEF RecoverValidate
    <2>2. restore \in BOOLEAN /\ erase \in BOOLEAN
      OBVIOUS
    <2>3. restore => ~Replacing(t) /\ (chat[t].pc = "Refreshed" => chat[t].out # "Ok")
      BY DEF Replacing
    <2>4. UNCHANGED <<service, superseded>>
      BY <1>2 DEF RecoverValidate
    <2> HIDE DEF restore, erase
    <2> QED
      BY <1>1, <2>1, <2>2, <2>3, <2>4, EndFailedSafe
  <1>3. CASE ~Broken(t)
    <2>1. PICK answer \in Answers :
               /\ CallValidate(chat[t].session, answer)
               /\ Go(t, [chat[t] EXCEPT
                    !.pc = IF chat[t].pc = "Validate" THEN "Validated" ELSE "Revalidated",
                    !.out = IF answer = "mismatch" THEN answer
                            ELSE Disposition("Validate", answer)])
      BY <1>3 DEF RecoverValidate
    <2> DEFINE place == IF chat[t].pc = "Validate" THEN "Validated" ELSE "Revalidated"
               out == IF answer = "mismatch" THEN answer ELSE Disposition("Validate", answer)
               step == [chat[t] EXCEPT !.pc = place, !.out = out]
    <2>2. Go(t, step)
      BY <2>1
    <2>3. place \in {"Validated", "Revalidated"} /\ (place = "Revalidated" <=> Replacing(t))
      BY <1>0 DEF Replacing
    <2>4. out \in Outcomes
      BY Dispositions DEF Outcomes
    <2> HIDE DEF place, out
    <2>5. step \in ChatType
      BY <1>1, <2>3, <2>4 DEF ChatType, ChatPlaces, RecoverPlaces
    <2>6. step.pc = place /\ step.tx = chat[t].tx /\ step.session = chat[t].session /\ step.gen = chat[t].gen
      BY <1>1 DEF ChatType
    <2>7. UNCHANGED <<service, superseded, owner, saved>>
      BY <1>3, <2>1 DEF RecoverValidate, CallValidate, ownerVars
    <2> HIDE DEF step
    <2>8. step.pc \in RecoverPlaces /\ step.pc # "Refreshed" /\ chat[t].pc # "Refreshed"
          /\ (step.pc \in {"Revalidate", "Revalidated"} <=> Replacing(t))
      BY <1>0, <2>3, <2>6 DEF RecoverPlaces
    <2> QED
      BY <1>1, <2>2, <2>5, <2>6, <2>7, <2>8, PressesOn
  <1> QED
    BY <1>2, <1>3

LEMMA RecoverValidatedSafe ==
  ASSUME SessionInv, NEW t \in Threads, RecoverValidated(t), ChatFrame
  PROVE  SessionInv'
  <1>0. chat[t].pc = "Validated" /\ UNCHANGED <<service, superseded>>
    BY DEF RecoverValidated
  <1>1. chat[t].tx # 0 /\ chat[t] \in ChatType
    BY <1>0, PlacesOut DEF RecoverPlaces
  <1>2. PICK io \in Storage :
          CASE Broken(t) -> EndFailedRecovery(t, "Cancelled", TRUE, FALSE, io)
            [] ~Broken(t) /\ chat[t].out = "Ok" -> FinishRecovery(t, io)
            [] ~Broken(t) /\ chat[t].out = "mismatch" ->
                 EndFailedRecovery(t, "Failed", FALSE, TRUE, io)
            [] ~Broken(t) /\ chat[t].out \in {"Retry", "Failed"} ->
                 EndFailedRecovery(t, chat[t].out, chat[t].out = "Retry", FALSE, io)
            [] OTHER -> Go(t, [chat[t] EXCEPT !.pc = "Refresh"]) /\ UNCHANGED ownerVars
    BY Zenon DEF RecoverValidated
  <1>3. \/ EndFailedRecovery(t, "Cancelled", TRUE, FALSE, io)
        \/ FinishRecovery(t, io)
        \/ EndFailedRecovery(t, "Failed", FALSE, TRUE, io)
        \/ EndFailedRecovery(t, chat[t].out, chat[t].out = "Retry", FALSE, io)
        \/ Go(t, [chat[t] EXCEPT !.pc = "Refresh"]) /\ UNCHANGED ownerVars
    <2> DEFINE a == EndFailedRecovery(t, "Cancelled", TRUE, FALSE, io)
               b == FinishRecovery(t, io)
               c == EndFailedRecovery(t, "Failed", FALSE, TRUE, io)
               d == EndFailedRecovery(t, chat[t].out, chat[t].out = "Retry", FALSE, io)
               e == Go(t, [chat[t] EXCEPT !.pc = "Refresh"]) /\ UNCHANGED ownerVars
               p == Broken(t)
               q == chat[t].out = "Ok"
               r == chat[t].out = "mismatch"
               s == chat[t].out \in {"Retry", "Failed"}
    <2>1. (CASE p -> a [] ~p /\ q -> b [] ~p /\ r -> c [] ~p /\ s -> d [] OTHER -> e)
      BY <1>2, Zenon
    <2>2. ~(q /\ r) /\ ~(q /\ s) /\ ~(r /\ s)
      OBVIOUS
    <2> HIDE DEF a, b, c, d, e, p, q, r, s
    <2>3. a \/ b \/ c \/ d \/ e
      <3>1. CASE p
        BY <2>1, <3>1, Zenon
      <3>2. CASE ~p /\ q
        BY <2>1, <2>2, <3>2, Zenon
      <3>3. CASE ~p /\ ~q /\ r
        BY <2>1, <2>2, <3>3, Zenon
      <3>4. CASE ~p /\ ~q /\ ~r /\ s
        BY <2>1, <2>2, <3>4, Zenon
      <3>5. CASE ~p /\ ~q /\ ~r /\ ~s
        BY <2>1, <2>2, <3>5, Zenon
      <3> QED
        BY <3>1, <3>2, <3>3, <3>4, <3>5
    <2> QED
      BY <2>3 DEF a, b, c, d, e
  <1>4. ASSUME NEW result, NEW restore \in BOOLEAN, NEW erase \in BOOLEAN,
               EndFailedRecovery(t, result, restore, erase, io)
        PROVE  SessionInv'
    <2>1. ~Replacing(t) /\ chat[t].pc # "Refreshed"
      BY <1>0 DEF Replacing
    <2> QED
      BY <1>0, <1>1, <1>4, <2>1, EndFailedSafe
  <1>5. CASE FinishRecovery(t, io)
    BY <1>0, <1>1, <1>5, FinishRecoverySafe
  <1>6. CASE Go(t, [chat[t] EXCEPT !.pc = "Refresh"]) /\ UNCHANGED ownerVars
    <2> DEFINE step == [chat[t] EXCEPT !.pc = "Refresh"]
    <2>1. Go(t, step) /\ UNCHANGED <<service, superseded, owner, saved>>
      BY <1>0, <1>6 DEF ownerVars
    <2>2. /\ step \in ChatType /\ step.pc = "Refresh" /\ step.tx = chat[t].tx
          /\ step.session = chat[t].session /\ step.gen = chat[t].gen
      BY <1>1 DEF ChatType, ChatPlaces, RecoverPlaces
    <2> HIDE DEF step
    <2>3. step.pc \in RecoverPlaces /\ step.pc # "Refreshed" /\ chat[t].pc # "Refreshed"
          /\ (step.pc \in {"Revalidate", "Revalidated"} <=> Replacing(t))
      BY <1>0, <2>2 DEF RecoverPlaces, Replacing
    <2> QED
      BY <1>1, <2>1, <2>2, <2>3, PressesOn
  <1>7. TRUE \in BOOLEAN /\ FALSE \in BOOLEAN /\ (chat[t].out = "Retry") \in BOOLEAN
    OBVIOUS
  <1> QED
    <2>1. ASSUME NEW yes \in BOOLEAN, NEW no \in BOOLEAN, yes = TRUE, no = FALSE, NEW retry \in BOOLEAN,
                 \/ EndFailedRecovery(t, "Cancelled", yes, no, io)
                 \/ EndFailedRecovery(t, "Failed", no, yes, io)
                 \/ EndFailedRecovery(t, chat[t].out, retry, no, io)
          PROVE  SessionInv'
      BY <1>4, <2>1
    <2> DEFINE yes == TRUE
               no == FALSE
               retry == chat[t].out = "Retry"
    <2>2. yes \in BOOLEAN /\ no \in BOOLEAN /\ retry \in BOOLEAN /\ yes = TRUE /\ no = FALSE
      OBVIOUS
    <2>3. \/ \/ EndFailedRecovery(t, "Cancelled", yes, no, io)
             \/ EndFailedRecovery(t, "Failed", no, yes, io)
             \/ EndFailedRecovery(t, chat[t].out, retry, no, io)
          \/ FinishRecovery(t, io)
          \/ Go(t, [chat[t] EXCEPT !.pc = "Refresh"]) /\ UNCHANGED ownerVars
      BY <1>3
    <2> HIDE DEF yes, no, retry
    <2> QED
      BY <1>5, <1>6, <2>1, <2>2, <2>3

LEMMA RecoverRevalidatedSafe ==
  ASSUME SessionInv, NEW t \in Threads, RecoverRevalidated(t), ChatFrame
  PROVE  SessionInv'
  <1>0. chat[t].pc = "Revalidated" /\ UNCHANGED <<service, superseded>>
    BY DEF RecoverRevalidated
  <1>1. chat[t].tx # 0 /\ chat[t].pc # "Refreshed"
    BY <1>0, PlacesOut DEF RecoverPlaces
  <1> DEFINE result == IF stop THEN "Cancelled" ELSE "Failed"
             restore == FALSE
             erase == TRUE
  <1>2. PICK io \in Storage : EndFailedRecovery(t, result, restore, erase, io) \/ FinishRecovery(t, io)
    BY DEF RecoverRevalidated
  <1>3. restore = FALSE /\ restore \in BOOLEAN /\ erase \in BOOLEAN
    OBVIOUS
  <1> HIDE DEF restore, erase, result
  <1>4. CASE EndFailedRecovery(t, result, restore, erase, io)
    BY <1>0, <1>1, <1>3, <1>4, EndFailedSafe
  <1>5. CASE FinishRecovery(t, io)
    BY <1>0, <1>1, <1>5, FinishRecoverySafe
  <1> QED
    BY <1>2, <1>4, <1>5

LEMMA RecoverRefreshSafe ==
  ASSUME SessionInv, NEW t \in Threads, RecoverRefresh(t), ChatFrame
  PROVE  SessionInv'
  <1>0. chat[t].pc = "Refresh"
    BY DEF RecoverRefresh
  <1>1. chat[t].tx # 0 /\ chat[t] \in ChatType /\ (Broken(t) <=> stop \/ owner.stopping)
        /\ chat \in [Threads -> ChatType]
    BY <1>0, PlacesOut DEF RecoverPlaces
  <1>2. CASE Broken(t)
    <2> DEFINE restore == TRUE
               erase == FALSE
               io == AllStored
    <2>1. EndFailedRecovery(t, "Cancelled", restore, erase, io)
      BY <1>2 DEF RecoverRefresh
    <2>2. restore \in BOOLEAN /\ erase \in BOOLEAN /\ io \in Storage
      BY DEF AllStored, Storage
    <2>3. ~Replacing(t) /\ chat[t].pc # "Refreshed"
      BY <1>0 DEF Replacing
    <2>4. UNCHANGED <<service, superseded>>
      BY <1>2 DEF RecoverRefresh, apiVars
    <2> HIDE DEF restore, erase, io
    <2> QED
      BY <1>1, <2>1, <2>2, <2>3, <2>4, EndFailedSafe
  <1>3. CASE ~Broken(t)
    <2>1. PICK answer \in Answers, reply \in 0 .. service.last + 1 :
               /\ CallRefresh(chat[t].session, answer, reply)
               /\ Go(t, [chat[t] EXCEPT !.pc = "Refreshed", !.out = Disposition("Refresh", answer),
                                        !.gen = reply])
      BY <1>3 DEF RecoverRefresh
    <2> DEFINE out == Disposition("Refresh", answer)
               gen == chat[t].session
               step == [chat[t] EXCEPT !.pc = "Refreshed", !.out = out, !.gen = reply]
    <2>2. Go(t, step)
      BY <2>1
    <2>3. /\ out \in {"Ok", "Retry", "Reconnect", "Failed"}
          /\ answer \in {"denied", "limited", "lost"} => out \in Refused
          /\ answer \in {"unauthorized", "garbled"} => out \in Refused
      BY Dispositions
    <2>4. /\ ~owner.stopping /\ Lent(World) /\ chat[t].tx = owner.pending /\ owner.pending # 0
          /\ owner.active = 0 /\ ctl.tx = 0 /\ started /\ ~Gone(World)
          /\ owner.restorable /\ saved = chat[t].session
      BY <1>0, <1>1, <1>3, OutMeans DEF Replacing
    <2>5. /\ service \in [last : Nat, live : SUBSET Nat, refreshable : SUBSET Nat]
          /\ service.live \cup service.refreshable \subseteq 1 .. service.last
          /\ superseded \subseteq 1 .. service.last /\ gen \in Gens /\ gen \notin superseded
          /\ owner \in OwnerType /\ saved \in Gens /\ 0 \in Gens /\ 0 \notin superseded
          /\ World.ctl = ctl /\ World.owner = owner /\ owner.pending < owner.next
          /\ owner.active \in Gens
      BY <1>0, <2>4, SessionParts, ThreadParts DEF GensInv, Recovery, WorldInv
    <2>6. UNCHANGED <<owner, saved>>
      BY <1>3 DEF RecoverRefresh, ownerVars
    <2>7. \/ /\ gen \in service.refreshable
             /\ service' = Granted(service, gen) /\ reply = service'.last
             /\ superseded' = superseded \cup {gen}
          \/ /\ out \in Refused /\ reply = 0
             /\ superseded' = superseded
             /\ service' = service \/ service' = Granted(service, gen)
      BY <2>1, <2>3 DEF CallRefresh, Unread
    <2> HIDE DEF out, gen
    <2>8. service' = service \/
             /\ service' \in [last : Nat, live : SUBSET Nat, refreshable : SUBSET Nat]
             /\ service'.live \cup service'.refreshable \subseteq 1 .. service'.last
             /\ service'.last = service.last + 1
      BY <2>5, <2>7 DEF Granted
    <2>9. /\ service' \in [last : Nat, live : SUBSET Nat, refreshable : SUBSET Nat]
          /\ service'.live \cup service'.refreshable \subseteq 1 .. service'.last
          /\ service.last <= service'.last
          /\ superseded \subseteq superseded' /\ superseded' \subseteq 1 .. service.last
          /\ out \notin Refused => reply \notin superseded'
          /\ out \in Refused => superseded' = superseded
      <3>1. CASE /\ gen \in service.refreshable
                 /\ service' = Granted(service, gen) /\ reply = service'.last
                 /\ superseded' = superseded \cup {gen}
        <4>1. gen \in 1 .. service.last /\ service'.last = service.last + 1
          BY <2>5, <3>1 DEF Granted
        <4>2. answer = "done" \/ superseded' = superseded
          BY <2>1 DEF CallRefresh
        <4>3. answer = "done" => out = "Ok"
          BY Dispositions DEF out
        <4> QED
          BY <2>5, <2>8, <3>1, <4>1, <4>2, <4>3 DEF Refused
      <3>2. CASE out \in Refused /\ superseded' = superseded
        BY <2>5, <2>8, <3>2
      <3> QED
        BY <2>7, <3>1, <3>2
    <2>10. step \in ChatType
      <3>1. reply \in Nat /\ out \in Outcomes
        BY <2>3, <2>5 DEF Outcomes
      <3> QED
        BY <1>1, <3>1 DEF ChatType, ChatPlaces, RecoverPlaces
    <2>11. step.pc = "Refreshed" /\ step.tx = chat[t].tx /\ step.session = chat[t].session /\ step.gen = reply
           /\ step.out = out
      BY <1>1 DEF ChatType
    <2> HIDE DEF step
    <2>12. chat' = [chat EXCEPT ![t] = step] /\ chat'[t] = step
      BY <1>1, <2>2 DEF Go
    <2>13. OwnerMoves
      <3>1. owner'.active \notin superseded'
        BY <2>4, <2>6, <2>9
      <3> QED
        BY <2>4, <2>5, <2>6, <2>9, <3>1 DEF OwnerMoves, ChatFrame
    <2>14. Recovery(t)'
      <3>1. World'.ctl = ctl /\ World'.owner = owner
        BY <2>6 DEF World, ChatFrame
      <3>2. Lent(World')
        BY <2>4, <2>5, <3>1 DEF Lent
      <3>3. ~Replacing(t)' /\ chat'[t].pc \in RecoverPlaces
        BY <2>11, <2>12 DEF Replacing, RecoverPlaces
      <3>4. IF chat'[t].out = "Ok" THEN chat'[t].gen \notin superseded' ELSE chat'[t].session \notin superseded'
        BY <2>3, <2>5, <2>9, <2>11, <2>12 DEF Refused, gen
      <3> QED
        BY <1>1, <2>4, <2>6, <2>11, <2>12, <3>2, <3>3, <3>4 DEF Recovery
    <2>15. RecoveryInv'
      BY <1>1, <2>4, <2>6, <2>10, <2>11, <2>12, <2>14, RecoveryMoves DEF ChatFrame
    <2>16. step.gen \in Gens' /\ step.session \in Gens'
      <3>1. reply \in 0 .. service'.last
        BY <2>5, <2>7, <2>9
      <3>2. service.last \in Nat /\ service'.last \in Nat /\ service.last <= service'.last
        BY <2>5, <2>9
      <3> QED
        BY <2>5, <2>11, <3>1, <3>2 DEF Gens, gen
    <2> QED
      BY <2>12, <2>13, <2>15, <2>16, ThreadSafe
  <1> QED
    BY <1>2, <1>3

LEMMA RecoverRefreshedSafe ==
  ASSUME SessionInv, NEW t \in Threads, RecoverRefreshed(t), ChatFrame
  PROVE  SessionInv'
  <1>0. chat[t].pc = "Refreshed" /\ UNCHANGED <<service, superseded>>
    BY DEF RecoverRefreshed
  <1>1. chat[t].tx # 0 /\ chat[t] \in ChatType /\ (Broken(t) <=> stop \/ owner.stopping)
        /\ chat \in [Threads -> ChatType]
    BY <1>0, PlacesOut DEF RecoverPlaces
  <1> DEFINE keep(io) ==
        LET p == PersistPending(Sessions, chat[t].tx, chat[t].gen, io)
        IN  IF PersistFails(Sessions, chat[t].tx, io)
            THEN Settle(Discard(p, chat[t].tx, FALSE, io)) /\ Finish(t, "Failed")
            ELSE /\ Settle(p)
                 /\ Go(t, [chat[t] EXCEPT !.pc = "Revalidate", !.session = chat[t].gen])
  <1>2. PICK io \in Storage :
          CASE chat[t].out # "Ok" ->
                 EndFailedRecovery(t, chat[t].out, chat[t].out = "Retry", TRUE, io)
            [] chat[t].out = "Ok" /\ Broken(t) ->
                 EndFailedRecovery(t, "Cancelled", FALSE, TRUE, io)
            [] OTHER -> keep(io)
    BY Zenon DEF RecoverRefreshed
  <1> DEFINE a == EndFailedRecovery(t, chat[t].out, chat[t].out = "Retry", TRUE, io)
             b == EndFailedRecovery(t, "Cancelled", FALSE, TRUE, io)
             c == keep(io)
             p == chat[t].out = "Ok"
             q == Broken(t)
  <1>3. \/ ~p /\ a
        \/ p /\ q /\ b
        \/ p /\ ~q /\ c
    <2>1. (CASE ~p -> a [] p /\ q -> b [] OTHER -> c)
      BY <1>2, Zenon
    <2> HIDE DEF a, b, c, p, q
    <2>2. CASE ~p
      BY <2>1, <2>2, Zenon
    <2>3. CASE p /\ q
      BY <2>1, <2>3, Zenon
    <2>4. CASE p /\ ~q
      BY <2>1, <2>4, Zenon
    <2> QED
      BY <2>2, <2>3, <2>4
  <1>n. ~Replacing(t)
    BY <1>0 DEF Replacing
  <1>4. CASE ~p /\ a
    <2> DEFINE restore == chat[t].out = "Retry"
               erase == TRUE
    <2>1. EndFailedRecovery(t, chat[t].out, restore, erase, io) /\ restore \in BOOLEAN /\ erase \in BOOLEAN
          /\ chat[t].out # "Ok"
      BY <1>4
    <2> HIDE DEF restore, erase
    <2> QED
      BY <1>0, <1>1, <1>n, <2>1, EndFailedSafe
  <1>5. CASE p /\ q /\ b
    <2> DEFINE restore == FALSE
               erase == TRUE
    <2>1. EndFailedRecovery(t, "Cancelled", restore, erase, io) /\ restore \in BOOLEAN /\ erase \in BOOLEAN
          /\ restore = FALSE
      BY <1>5
    <2> HIDE DEF restore, erase
    <2> QED
      BY <1>0, <1>1, <1>n, <2>1, EndFailedSafe
  <1>6. CASE p /\ ~q /\ c
    <2> DEFINE w == PersistPending(Sessions, chat[t].tx, chat[t].gen, io)
    <2>0. chat[t].out = "Ok" /\ ~owner.stopping
      BY <1>1, <1>6
    <2>1. /\ Lent(World) /\ chat[t].tx = owner.pending /\ owner.pending # 0
          /\ owner.active = 0 /\ ctl.tx = 0 /\ started /\ ~Gone(World)
          /\ Check(owner, chat[t].tx) /\ Sessions \in Held /\ Sessions.owner = owner /\ Sessions.saved = saved
          /\ chat[t].gen \in Nat
      BY <1>1, <2>0, OutMeans
    <2>2. /\ chat[t].gen \notin superseded /\ chat[t].gen \in Gens /\ chat[t].session \in Gens
      BY <1>0, <1>1, <2>0, ThreadParts DEF Recovery
    <2>3. /\ w \in Held /\ w.owner.active = owner.active /\ w.owner.pending = owner.pending
          /\ w.owner.next = owner.next /\ w.owner.stopping = owner.stopping
          /\ IF PersistFails(Sessions, chat[t].tx, io) THEN w.saved = saved ELSE w.saved = chat[t].gen
      BY <2>1, PersistBack
    <2>4. CASE PersistFails(Sessions, chat[t].tx, io)
      <3> DEFINE erase == FALSE
                 v == Discard(w, chat[t].tx, erase, io)
      <3>1. Settle(v) /\ Finish(t, "Failed")
        BY <1>6, <2>4
      <3>2. Check(w.owner, chat[t].tx) /\ erase \in BOOLEAN
        BY <2>1, <2>3 DEF Check
      <3> HIDE DEF w, erase
      <3>3. /\ v.owner \in OwnerType /\ v.owner.active = 0 /\ v.owner.pending = 0
            /\ v.owner.next = w.owner.next /\ v.owner.stopping = w.owner.stopping
            /\ v.saved \in {0, w.saved}
        BY <2>3, <3>2, DiscardBack
      <3> HIDE DEF v
      <3>4. owner' = v.owner /\ saved' = v.saved
        BY <3>1 DEF Settle
      <3>5. GivesBack(t)
        BY <1>1, <2>0, <2>3, <2>4, <3>3, <3>4 DEF GivesBack
      <3> QED
        BY <1>0, <3>1, <3>5, RestsSafe
    <2>5. CASE ~PersistFails(Sessions, chat[t].tx, io)
      <3> DEFINE step == [chat[t] EXCEPT !.pc = "Revalidate", !.session = chat[t].gen]
      <3>1. Settle(w) /\ Go(t, step)
        BY <1>6, <2>5
      <3>2. /\ step \in ChatType /\ step.pc = "Revalidate" /\ step.tx = chat[t].tx
            /\ step.session = chat[t].gen /\ step.gen = chat[t].gen
        BY <1>1 DEF ChatType, ChatPlaces, RecoverPlaces
      <3> HIDE DEF step, w
      <3>3. owner' = w.owner /\ saved' = w.saved /\ w.saved = chat[t].gen /\ w.owner \in OwnerType
        BY <2>3, <2>5, <3>1 DEF Settle, Held
      <3>4. chat' = [chat EXCEPT ![t] = step] /\ chat'[t] = step
        BY <1>1, <3>1 DEF Go
      <3>5. owner.pending < owner.next /\ 0 \in Gens /\ 0 \notin superseded /\ World.ctl = ctl
            /\ GensInv
        BY SessionParts DEF WorldInv
      <3>6. OwnerMoves
        BY <1>0, <2>0, <2>1, <2>2, <2>3, <3>3, <3>5, StillService DEF OwnerMoves, ChatFrame, GensInv
      <3>7. Recovery(t)'
        <4>1. World'.ctl = ctl /\ World'.owner = owner'
          BY DEF World, ChatFrame
        <4>2. Lent(World')
          BY <2>1, <2>3, <3>3, <4>1 DEF Lent
        <4>3. Replacing(t)' /\ chat'[t].pc \in RecoverPlaces /\ chat'[t].pc # "Refreshed"
          BY <3>2, <3>4 DEF Replacing, RecoverPlaces
        <4> QED
          BY <1>0, <1>1, <2>1, <2>2, <2>3, <3>2, <3>3, <3>4, <4>2, <4>3 DEF Recovery
      <3>8. RecoveryInv'
        BY <1>1, <2>0, <2>3, <3>2, <3>3, <3>4, <3>7, RecoveryMoves DEF ChatFrame
      <3>9. step.gen \in Gens' /\ step.session \in Gens'
        BY <1>0, <2>2, <3>2, StillService
      <3> QED
        BY <3>4, <3>6, <3>8, <3>9, ThreadSafe
    <2> QED
      BY <2>4, <2>5
  <1> QED
    BY <1>3, <1>4, <1>5, <1>6

Walking(t) == t \in Threads /\ chat[t].tx = 0

LEMMA NotOut ==
  ASSUME SessionInv, NEW t \in Threads, chat[t].pc \notin RecoverPlaces
  PROVE  Walking(t)
  BY ThreadParts DEF Recovery, Walking

LEMMA FinishWalk ==
  ASSUME SessionInv, SessionStays, NEW t \in Threads, chat[t].tx = 0, NEW result, Finish(t, result)
  PROVE  SessionInv'
  <1> DEFINE step == Resting
  <1>1. chat' = [chat EXCEPT ![t] = step]
    BY DEF Finish
  <1>2. /\ step \in ChatType /\ step.tx = 0 /\ step.gen \in Gens /\ step.session \in Gens
        /\ step.pc \notin RecoverPlaces
    BY ThreadParts, SessionParts DEF RecoverPlaces
  <1> HIDE DEF step
  <1> QED
    BY <1>1, <1>2, WalkSafe

LEMMA OwnerParts ==
  ASSUME SessionInv
  PROVE  owner.active \in Gens /\ owner.revision \in Nat /\ Gens \subseteq Nat
  BY SessionParts DEF GensInv, OwnerType

LEMMA LeaseWalk ==
  ASSUME SessionInv, SessionStays, NEW t \in Threads, chat[t].tx = 0, Lease(t)
  PROVE  SessionInv'
  <1>1. CASE \E result : Finish(t, result)
    BY <1>1, FinishWalk
  <1>2. CASE Go(t, [chat[t] EXCEPT !.pc = "Send", !.gen = owner.active, !.rev = owner.revision])
    <2> DEFINE gen == owner.active
               rev == owner.revision
               step == [chat[t] EXCEPT !.pc = "Send", !.gen = gen, !.rev = rev]
    <2>1. chat' = [chat EXCEPT ![t] = step]
      BY <1>2 DEF Go
    <2>2. gen \in Gens /\ gen \in Nat /\ rev \in Nat /\ chat[t] \in ChatType /\ chat[t].session \in Gens
      BY OwnerParts, ThreadParts
    <2> HIDE DEF gen, rev
    <2>3. step \in ChatType /\ step.tx = chat[t].tx /\ step.gen = gen /\ step.session = chat[t].session /\ step.pc = "Send"
      BY <2>2 DEF ChatType, ChatPlaces
    <2> HIDE DEF step
    <2>4. step.pc \notin RecoverPlaces
      BY <2>3 DEF RecoverPlaces
    <2> QED
      BY <2>1, <2>2, <2>3, <2>4, WalkSafe
  <1> QED
    BY <1>1, <1>2 DEF Lease

LEMMA Secondly ==
  ASSUME SessionInv, SessionStays, NEW t \in Threads, chat[t].tx = 0,
         Go(t, [chat[t] EXCEPT !.pc = "Send", !.attempt = 1, !.gen = owner.active, !.rev = owner.revision])
  PROVE  SessionInv'
  <1> DEFINE gen == owner.active
             rev == owner.revision
             step == [chat[t] EXCEPT !.pc = "Send", !.attempt = 1, !.gen = gen, !.rev = rev]
  <1>1. chat' = [chat EXCEPT ![t] = step]
    BY DEF Go
  <1>2. gen \in Gens /\ gen \in Nat /\ rev \in Nat /\ chat[t] \in ChatType /\ chat[t].session \in Gens
    BY OwnerParts, ThreadParts
  <1> HIDE DEF gen, rev
  <1>3. step \in ChatType /\ step.tx = chat[t].tx /\ step.gen = gen /\ step.session = chat[t].session /\ step.pc = "Send"
    BY <1>2 DEF ChatType, ChatPlaces
  <1> HIDE DEF step
  <1>4. step.pc \notin RecoverPlaces
    BY <1>3 DEF RecoverPlaces
  <1> QED
    BY <1>1, <1>2, <1>3, <1>4, WalkSafe

LEMMA FrameStays ==
  ASSUME SessionInv, ChatFrame, UNCHANGED <<service, superseded, owner, saved>>
  PROVE  SessionStays
  BY StillService DEF SessionStays, ChatFrame

LEMMA SendSafe ==
  ASSUME SessionInv, NEW t \in Threads, Send(t), ChatFrame
  PROVE  SessionInv'
  <1>0. chat[t].pc = "Send" /\ UNCHANGED <<owner, saved>>
    BY DEF Send, ownerVars
  <1>1. chat[t].tx = 0
    BY <1>0, NotOut DEF RecoverPlaces, Walking
  <1>2. CASE stop
    <2>1. Finish(t, "Cancelled") /\ UNCHANGED <<service, superseded>>
      BY <1>2 DEF Send, apiVars
    <2> QED
      BY <1>0, <1>1, <2>1, FrameStays, FinishWalk
  <1>3. CASE ~stop
    <2>1. PICK answer \in Answers \cup {"dropped"} :
            /\ \E delivered \in BOOLEAN : CallSendChat(chat[t].gen, answer, delivered)
            /\ chat' = [chat EXCEPT ![t].pc = "Sent", ![t].out = answer]
      BY <1>3 DEF Send
    <2> DEFINE step == [chat[t] EXCEPT !.pc = "Sent", !.out = answer]
    <2>2. chat[t] \in ChatType /\ chat[t].session \in Gens /\ chat[t].gen \in Gens /\ chat \in [Threads -> ChatType]
      BY ThreadParts
    <2>3. chat' = [chat EXCEPT ![t] = step]
      BY <2>1, <2>2
    <2>4. UNCHANGED <<service, superseded>>
      BY <2>1 DEF CallSendChat
    <2>5. step \in ChatType /\ step.tx = chat[t].tx /\ step.gen = chat[t].gen
          /\ step.session = chat[t].session /\ step.pc = "Sent"
      BY <2>2 DEF ChatType, ChatPlaces
    <2> HIDE DEF step
    <2>6. step.pc \notin RecoverPlaces
      BY <2>5 DEF RecoverPlaces
    <2> QED
      BY <1>0, <1>1, <2>2, <2>3, <2>4, <2>5, <2>6, FrameStays, WalkSafe
  <1> QED
    BY <1>2, <1>3

LEMMA TakesOutSafe ==
  ASSUME SessionInv, NEW t \in Threads, chat[t].tx = 0, Idle(owner), owner.active # 0,
         Go(t, [chat[t] EXCEPT !.pc = "Validate", !.tx = owner.next, !.session = owner.active]),
         owner' = Start(owner, TRUE), ChatFrame, UNCHANGED <<service, superseded, saved>>
  PROVE  SessionInv'
  <1> DEFINE gen == owner.active
             tx == owner.next
             step == [chat[t] EXCEPT !.pc = "Validate", !.tx = tx, !.session = gen]
  <1>0. /\ WorldInv(World) /\ World.ctl = ctl /\ World.owner = owner /\ World.saved = saved
        /\ owner \in OwnerType /\ GensInv /\ RotationInv /\ 0 \in Gens /\ 0 \notin superseded
        /\ ctl \in CtlType /\ started \in BOOLEAN
    BY SessionParts
  <1>1. /\ ~owner.stopping /\ owner.pending = 0 /\ ctl.tx = 0 /\ saved = gen /\ started /\ ~Gone(World)
        /\ tx \in Nat \ {0}
    BY <1>0 DEF WorldInv, Idle, RotationInv, Gone, OwnerType
  <1>2. chat' = [chat EXCEPT ![t] = step] /\ chat[t] \in ChatType /\ chat \in [Threads -> ChatType]
        /\ chat[t].gen \in Gens /\ gen \in Gens /\ gen \in Nat /\ gen \notin superseded
    BY <1>0, ThreadParts, OwnerParts DEF Go, RotationInv
  <1>3. /\ owner' \in OwnerType /\ owner'.active = 0 /\ owner'.pending = tx /\ owner'.restorable
        /\ owner'.next = tx + 1 /\ owner'.stopping = owner.stopping
    <2> DEFINE n == tx + 1
               o == [owner EXCEPT !.active = 0, !.pending = tx, !.restorable = TRUE, !.next = n]
    <2>1. owner' = o
      BY <1>0 DEF Start, OwnerType
    <2>2. n \in Nat \ {0} /\ n = tx + 1
      BY <1>1
    <2> HIDE DEF n, tx
    <2>3. o \in OwnerType
      BY <1>0, <1>1, <2>2 DEF OwnerType
    <2>4. o.active = 0 /\ o.pending = tx /\ o.restorable /\ o.next = n /\ o.stopping = owner.stopping
      BY <1>0 DEF OwnerType
    <2> QED
      BY <2>1, <2>2, <2>3, <2>4
  <1> HIDE DEF gen, tx
  <1>4. /\ step \in ChatType /\ step.pc = "Validate" /\ step.tx = tx /\ step.session = gen /\ step.gen = chat[t].gen
    BY <1>1, <1>2 DEF ChatType, ChatPlaces, RecoverPlaces
  <1> HIDE DEF step
  <1>5. chat'[t] = step
    BY <1>2
  <1>6. OwnerMoves
    <2>1. owner'.pending < owner'.next
      <3>1. tx \in Nat /\ owner'.pending = tx /\ owner'.next = tx + 1
        BY <1>1, <1>3
      <3>2. tx < tx + 1
        BY <3>1
      <3> QED
        BY <3>1, <3>2
    <2> QED
      BY <1>0, <1>1, <1>2, <1>3, <2>1, StillService DEF OwnerMoves, ChatFrame, GensInv
  <1>7. Recovery(t)'
    <2>1. World'.ctl = ctl /\ World'.owner = owner'
      BY DEF World, ChatFrame
    <2>2. Lent(World')
      BY <1>1, <1>3, <2>1 DEF Lent
    <2>3. chat'[t].pc \in RecoverPlaces /\ chat'[t].pc # "Refreshed"
      BY <1>4, <1>5 DEF RecoverPlaces
    <2> QED
      BY <1>1, <1>2, <1>3, <1>4, <1>5, <2>2, <2>3 DEF Recovery
  <1>8. RecoveryInv'
    BY <1>2, <1>3, <1>4, <1>7, RecoveryTakes DEF ChatFrame, tx
  <1>9. step.gen \in Gens' /\ step.session \in Gens'
    BY <1>2, <1>4, StillService
  <1> QED
    BY <1>2, <1>6, <1>8, <1>9, ThreadSafe

LEMMA AfterSendSafe ==
  ASSUME SessionInv, NEW t \in Threads, AfterSend(t), ChatFrame
  PROVE  SessionInv'
  <1>0. chat[t].pc = "Sent" /\ UNCHANGED <<service, superseded, saved>>
    BY DEF AfterSend, apiVars
  <1>1. chat[t].tx = 0
    BY <1>0, NotOut DEF RecoverPlaces, Walking
  <1> DEFINE ends == \E result : Finish(t, result) /\ UNCHANGED owner
             again == Go(t, [chat[t] EXCEPT !.pc = "Send", !.attempt = 1, !.gen = owner.active,
                                            !.rev = owner.revision]) /\ UNCHANGED owner
             takes == /\ Go(t, [chat[t] EXCEPT !.pc = "Validate", !.tx = owner.next,
                                               !.session = owner.active])
                      /\ owner' = Start(owner, TRUE)
  <1>2. ends \/ again \/ (takes /\ Idle(owner) /\ owner.active # 0)
    <2>1. CASE Recover(t)
      <3> DEFINE a == Finish(t, "Retry") /\ UNCHANGED owner
                 b == Finish(t, "Failed") /\ UNCHANGED owner
                 c == again
                 d == IF chat[t].gen # owner.active THEN Finish(t, "Failed") /\ UNCHANGED owner ELSE takes
                 p == Idle(owner)
                 q == owner.active = 0 \/ chat[t].rev > owner.revision
                 r == chat[t].rev < owner.revision
                 s == owner.active # 0
      <3>1. (CASE ~p -> a [] p /\ q -> b [] p /\ s /\ r -> c [] OTHER -> d)
        BY <2>1, Zenon DEF Recover
      <3>2. (~s => q) /\ (q /\ s => ~r)
        <4>1. chat[t].rev \in Nat /\ owner.revision \in Nat
          BY ThreadParts, OwnerParts DEF ChatType
        <4> QED
          BY <4>1
      <3> HIDE DEF a, b, c, d, p, q, r, s
      <3>3. a \/ b \/ c \/ (p /\ s /\ d)
        <4>1. CASE ~p
          BY <3>1, <4>1, Zenon
        <4>2. CASE p /\ q
          BY <3>1, <3>2, <4>2, Zenon
        <4>3. CASE p /\ ~q /\ r
          BY <3>1, <3>2, <4>3, Zenon
        <4>4. CASE p /\ ~q /\ ~r
          BY <3>1, <3>2, <4>4, Zenon
        <4> QED
          BY <4>1, <4>2, <4>3, <4>4
      <3>4. a => ends
        BY DEF a
      <3>5. b => ends
        BY DEF b
      <3>6. p /\ s /\ d => ends \/ (takes /\ Idle(owner) /\ owner.active # 0)
        BY DEF p, s, d
      <3> QED
        BY <3>3, <3>4, <3>5, <3>6 DEF c
    <2> QED
      BY <2>1 DEF AfterSend
  <1>3. CASE ends
    BY <1>0, <1>1, <1>3, FrameStays, FinishWalk
  <1>4. CASE again
    BY <1>0, <1>1, <1>4, FrameStays, Secondly
  <1>5. CASE takes /\ Idle(owner) /\ owner.active # 0
    BY <1>0, <1>1, <1>5, TakesOutSafe
  <1> QED
    BY <1>2, <1>3, <1>4, <1>5

LEMMA DeliverySafe ==
  ASSUME SessionInv, NEW t \in Threads, DeliveryStep(t), ChatFrame
  PROVE  SessionInv'
  <1>1. CASE Acquire(t)
    <2>1. chat[t].tx = 0
      BY <1>1, NotOut DEF RecoverPlaces, Walking, Acquire
    <2> QED
      BY <1>1, <2>1, FrameStays, LeaseWalk DEF Acquire, apiVars, ownerVars
  <1>2. CASE Reacquire(t)
    <2>1. chat[t].tx = 0
      BY <1>2, NotOut DEF RecoverPlaces, Walking, Reacquire
    <2>2. SessionStays
      BY <1>2, FrameStays DEF Reacquire, apiVars, ownerVars
    <2> QED
      BY <1>2, <2>1, <2>2, LeaseWalk, Secondly DEF Reacquire
  <1> QED
    BY <1>1, <1>2, SendSafe, AfterSendSafe, RecoverValidateSafe, RecoverValidatedSafe, RecoverRefreshSafe,
       RecoverRefreshedSafe, RecoverRevalidatedSafe DEF DeliveryStep, RecoverStep

LEMMA BeginsSafe ==
  ASSUME SessionInv, NEW t \in Threads, NEW k \in Keys, chat[t].pc = "Idle",
         chat' = [chat EXCEPT ![t] = [Resting EXCEPT !.pc = "Acquire", !.key = k]], SessionStays
  PROVE  SessionInv'
  <1> DEFINE step == [Resting EXCEPT !.pc = "Acquire", !.key = k]
  <1>1. chat[t].tx = 0
    BY NotOut DEF RecoverPlaces, Walking
  <1>2. Resting \in ChatType /\ Resting.tx = 0 /\ Resting.gen = 0 /\ Resting.session = 0 /\ 0 \in Gens
    BY ThreadParts, SessionParts
  <1>3. step \in ChatType /\ step.tx = 0 /\ step.gen = 0 /\ step.session = 0 /\ step.pc = "Acquire"
    BY <1>2 DEF ChatType, ChatPlaces
  <1>4. chat' = [chat EXCEPT ![t] = step]
    OBVIOUS
  <1> HIDE DEF step
  <1>5. step.pc \notin RecoverPlaces
    BY <1>3 DEF RecoverPlaces
  <1> QED
    BY <1>1, <1>2, <1>3, <1>4, <1>5, WalkSafe

LEMMA ChatSafe ==
  ASSUME SessionInv, Chat, UNCHANGED authVars, CutOff
  PROVE  SessionInv'
  <1>0. ChatFrame
    BY DEF ChatFrame, authVars
  <1>1. ASSUME NEW t \in Posters, NEW k \in Keys, NEW manual \in BOOLEAN, TakeRequest(t, k, manual)
        PROVE  SessionInv'
    <2>1. SessionStays /\ t \in Threads /\ chat[t].pc = "Idle"
      BY <1>0, <1>1, FrameStays DEF TakeRequest, ownerVars, Threads
    <2>2. \/ chat' = chat
          \/ chat' = [chat EXCEPT ![t] = [Resting EXCEPT !.pc = "Acquire", !.key = k]]
      BY <1>1 DEF TakeRequest
    <2> QED
      BY <2>1, <2>2, StillSafe, BeginsSafe
  <1>2. CASE SendTest
    <2> DEFINE step == [Resting EXCEPT !.pc = "Acquire"]
    <2>1. SessionStays /\ Tester \in Threads /\ chat[Tester].pc = "Idle"
      BY <1>0, <1>2, FrameStays DEF SendTest, ownerVars, Threads
    <2>2. chat[Tester].tx = 0
      BY <2>1, NotOut DEF RecoverPlaces, Walking
    <2>3. Resting \in ChatType /\ Resting.tx = 0 /\ Resting.gen = 0 /\ Resting.session = 0 /\ 0 \in Gens
      BY <2>1, ThreadParts, SessionParts
    <2>4. step \in ChatType /\ step.tx = 0 /\ step.gen = 0 /\ step.session = 0 /\ step.pc = "Acquire"
      BY <2>3 DEF ChatType, ChatPlaces
    <2>5. chat' = [chat EXCEPT ![Tester] = step]
      BY <1>2 DEF SendTest
    <2> HIDE DEF step
    <2>6. step.pc \notin RecoverPlaces
      BY <2>4 DEF RecoverPlaces
    <2> QED
      BY <2>1, <2>2, <2>3, <2>4, <2>5, <2>6, WalkSafe
  <1>3. CASE PollTest
    <2>1. SessionStays /\ chat' = chat
      BY <1>0, <1>3, FrameStays DEF PollTest, apiVars, ownerVars
    <2> QED
      BY <2>1, StillSafe
  <1> QED
    BY <1>0, <1>1, <1>2, <1>3, DeliverySafe DEF Chat

LEMMA StopPoolsSafe ==
  ASSUME SessionInv, StopPools, UNCHANGED authVars, CutOff
  PROVE  SessionInv'
  <1>1. SessionStays /\ chat' = chat
    <2>1. ChatFrame /\ UNCHANGED <<service, superseded, owner, saved>> /\ chat' = chat
      BY DEF ChatFrame, authVars, StopPools, apiVars, ownerVars
    <2> QED
      BY <2>1, FrameStays
  <1> QED
    BY <1>1, StillSafe

LEMMA TokenExpiresSafe ==
  ASSUME SessionInv, TokenExpires, UNCHANGED <<ownerVars, authVars, chatVars>>, CutOff
  PROVE  SessionInv'
  <1>1. /\ UNCHANGED <<ctl, inbox, calling, results, started, owner, saved, superseded>> /\ CutOff
        /\ chat' = chat
    BY DEF TokenExpires, ownerVars, authVars, chatVars
  <1>2. PICK gen \in service.live : service' = [service EXCEPT !.live = @ \ {gen}]
    BY DEF TokenExpires
  <1>3. /\ service \in [last : Nat, live : SUBSET Nat, refreshable : SUBSET Nat]
        /\ service.live \cup service.refreshable \subseteq 1 .. service.last
    BY SessionParts DEF GensInv
  <1>4. /\ service' \in [last : Nat, live : SUBSET Nat, refreshable : SUBSET Nat]
        /\ service'.live \cup service'.refreshable \subseteq 1 .. service'.last
        /\ service.last <= service'.last
    BY <1>2, <1>3
  <1>5. SessionStays
    BY <1>1, <1>4 DEF SessionStays
  <1> QED
    BY <1>1, <1>5, StillSafe

(* A process that has just started.                                             *)
Fresh ==
  /\ owner = NewOwner /\ ctl = NewController
  /\ inbox = <<>> /\ calling = NoCall /\ results = <<>> /\ started = FALSE
  /\ chat = [t \in Threads |-> Resting] /\ superseded = {}
  /\ service \in [last : Nat, live : SUBSET Nat, refreshable : SUBSET Nat]
  /\ service.live \cup service.refreshable \subseteq 1 .. service.last
  /\ saved \in Gens
  /\ cut \in BOOLEAN /\ (cut => saved = 0)

LEMMA FreshSafe == Fresh => SessionInv
  <1> SUFFICES ASSUME Fresh PROVE SessionInv
    OBVIOUS
  <1>0. /\ owner.active = 0 /\ owner.pending = 0 /\ owner.next = 1 /\ owner.stopping = FALSE
        /\ owner \in OwnerType
    BY DEF Fresh, NewOwner, OwnerType
  <1>1. /\ ctl.tx = 0 /\ ctl.request = 0 /\ ctl.phase = None /\ ctl.gen = 0 /\ ctl.code = None
        /\ ctl.deferred = None /\ ctl.next = 1 /\ ctl.shut = FALSE /\ ctl \in CtlType
    BY DEF Fresh, NewController, CtlType, States, Phases, Validations, None
  <1>2. /\ calling.id = 0 /\ calling.gen = 0 /\ calling.reply = 0
        /\ inbox = <<>> /\ results = <<>> /\ Len(inbox) = 0 /\ Len(results) = 0
    BY DEF Fresh, NoCall
  <1>3. saved \in Nat /\ 0 \in Gens
    BY DEF Fresh, Gens
  <1>4. World.ctl = ctl /\ World.owner = owner /\ World.saved = saved /\ World.inbox = inbox
        /\ World \in WorldType
    <2>1. inbox \in Seq(Request)
      BY <1>2
    <2> QED
      BY <1>0, <1>1, <1>3, <2>1 DEF World, WorldType
  <1>5. WorldInv(World)
    <2>1. AuthCapacity \in Nat
      BY AuthCapacityAssumption
    <2> QED
      BY <1>0, <1>1, <1>2, <1>4, <2>1 DEF WorldInv
  <1>6. QueuesInv
    <2>1. calling = NoCall /\ results \in Seq(Answered)
      BY <1>2 DEF Fresh
    <2> QED
      BY <1>2, <2>1 DEF QueuesInv, AllCurrent, Distinct, Apart
  <1>r. /\ Resting \in ChatType /\ Resting.tx = 0 /\ Resting.gen = 0 /\ Resting.session = 0
        /\ Resting.pc \notin RecoverPlaces
    BY DEF Resting, ChatType, ChatPlaces, RecoverPlaces
  <1>7. chat \in [Threads -> ChatType] /\ \A t \in Threads : chat[t] = Resting
    BY <1>r DEF Fresh
  <1>8. GensInv
    BY <1>0, <1>1, <1>2, <1>3, <1>7, <1>r DEF Fresh, GensInv
  <1>9. RotationInv
    BY <1>0, <1>1, <1>2 DEF Fresh, RotationInv
  <1>10. RecoveryInv
    BY <1>0, <1>4, <1>7, <1>r DEF RecoveryInv, Recovery, Lent
  <1>11. cut => Gone(World)
    BY <1>0, <1>1, <1>4 DEF Fresh, Gone
  <1> QED
    BY <1>0, <1>1, <1>5, <1>6, <1>8, <1>9, <1>10, <1>11 DEF Fresh, SessionInv

LEMMA InitSafe == Init => SessionInv /\ PostsInv /\ chat \in [Threads -> ChatType]
  <1> SUFFICES ASSUME Init PROVE SessionInv /\ PostsInv /\ chat \in [Threads -> ChatType]
    OBVIOUS
  <1>1. PICK gen \in {0, 1} : /\ saved = gen
                              /\ service = [last |-> gen, live |-> 1 .. gen, refreshable |-> 1 .. gen]
    BY DEF Init
  <1>2. /\ service \in [last : Nat, live : SUBSET Nat, refreshable : SUBSET Nat]
        /\ service.live \cup service.refreshable \subseteq 1 .. service.last
        /\ saved \in Gens
    BY <1>1 DEF Gens
  <1>3. Fresh
    BY <1>2 DEF Init, Fresh
  <1>4. FreshPool
    BY DEF Init, FreshPool
  <1>5. SessionInv /\ PostsInv
    BY <1>3, <1>4, FreshSafe, FreshPosts
  <1> QED
    BY <1>5 DEF SessionInv, RecoveryInv

LEMMA RestartSafe ==
  ASSUME SessionInv, Restart, CutOff
  PROVE  SessionInv'
  <1>1. /\ service \in [last : Nat, live : SUBSET Nat, refreshable : SUBSET Nat]
        /\ service.live \cup service.refreshable \subseteq 1 .. service.last
        /\ saved \in Gens /\ World.saved = saved
    BY SessionParts DEF GensInv
  <1>2. service' = service /\ saved' = saved /\ started' = FALSE /\ ctl'.state = "Disconnected"
    BY DEF Restart, NewController
  <1>3. cut' \in BOOLEAN /\ (cut' => saved' = 0)
    <2>1. cut' <=> cut
      BY <1>2 DEF CutOff
    <2>2. cut' \in BOOLEAN
      BY DEF CutOff
    <2> QED
      BY <1>1, <1>2, <2>1, <2>2 DEF SessionInv, Gone
  <1>4. Fresh'
    <2>1. /\ owner' = NewOwner /\ ctl' = NewController
          /\ inbox' = <<>> /\ calling' = NoCall /\ results' = <<>> /\ started' = FALSE
          /\ chat' = [t \in Threads |-> Resting] /\ superseded' = {}
      BY DEF Restart
    <2> QED
      BY <1>1, <1>2, <1>3, <2>1 DEF Fresh, Gens, Threads, NewOwner, NewController, NoCall, Resting
  <1> QED
    BY <1>4, FreshSafe, PTL

LEMMA ShutdownSafe ==
  ASSUME SessionInv, Shutdown, UNCHANGED chatVars, CutOff
  PROVE  SessionInv'
  <1>0. /\ WorldInv(World) /\ World.ctl = ctl /\ World.owner = owner /\ World.saved = saved
        /\ World.inbox = inbox /\ owner \in OwnerType /\ ctl \in CtlType /\ saved \in Nat
        /\ GensInv /\ RotationInv /\ RecoveryInv /\ started \in BOOLEAN /\ 0 \in Gens
    BY SessionParts, WorldParts
  <1>1. PICK io \in Storage :
       LET w == IF ctl.state = "Disconnecting" THEN FinishDisconnect(World, io) ELSE World
       IN  Become([w EXCEPT !.owner = OwnerShutdown(@), !.inbox = <<>>,
                !.ctl = [Reset(@) EXCEPT !.tx = 0, !.state = "ShuttingDown", !.shut = TRUE]])
    BY DEF Shutdown, AuthShutdown
  <1> DEFINE w == IF ctl.state = "Disconnecting" THEN FinishDisconnect(World, io) ELSE World
             o == OwnerShutdown(w.owner)
             c == [Reset(w.ctl) EXCEPT !.tx = 0, !.state = "ShuttingDown", !.shut = TRUE]
             v == [w EXCEPT !.owner = o, !.inbox = <<>>, !.ctl = c]
  <1>2. Become(v)
    BY <1>1
  <1>3. w \in WorldType /\ w.saved \in {0, saved} /\ w.owner \in OwnerType /\ w.ctl \in CtlType
        /\ WorldInv(w)
    <2> DEFINE f == FinishDisconnect(World, io)
    <2>1. WorldInv(f) /\ f.saved \in {0, saved}
      BY <1>0, FinishFacts
    <2>2. WorldInv(w) /\ w.saved \in {0, saved}
      <3>1. w = f \/ w = World
        OBVIOUS
      <3> HIDE DEF w, f
      <3> QED
        BY <1>0, <2>1, <3>1
    <2> HIDE DEF w
    <2> QED
      BY <2>2 DEF WorldInv, WorldType
  <1> HIDE DEF w
  <1>4. /\ o \in OwnerType /\ o.active = 0 /\ o.pending = 0 /\ o.stopping = TRUE /\ o.next = w.owner.next
    BY <1>3 DEF OwnerShutdown, OwnerType
  <1>5. /\ c \in CtlType /\ c.tx = 0 /\ c.request = 0 /\ c.phase = None /\ c.gen = 0 /\ c.code = None
        /\ c.deferred = None /\ c.next = w.ctl.next /\ c.shut = TRUE /\ c.state = "ShuttingDown"
    BY <1>3 DEF CtlType, Reset, States, None
  <1> HIDE DEF o, c
  <1>6. v.owner = o /\ v.ctl = c /\ v.inbox = <<>> /\ v.saved = w.saved
    BY <1>3 DEF WorldType
  <1> HIDE DEF v
  <1>7. /\ owner' = o /\ ctl' = c /\ inbox' = <<>> /\ saved' = w.saved
        /\ calling' = NoCall /\ results' = <<>> /\ Len(inbox') = 0 /\ Len(results') = 0
        /\ UNCHANGED <<service, superseded, started, chat>>
    BY <1>2, <1>6 DEF Become, Shutdown, AuthShutdown, chatVars
  <1>n. NoCall.id = 0 /\ NoCall.gen = 0 /\ NoCall.reply = 0
    BY DEF NoCall
  <1>8. World'.ctl = c /\ World'.owner = o /\ World'.saved = w.saved /\ World'.inbox = <<>>
        /\ World' \in WorldType
    <2>1. <<>> \in Seq(Request) /\ w.saved \in Nat
      BY <1>0, <1>3
    <2>2. World' = [ctl |-> c, owner |-> o, saved |-> w.saved, inbox |-> <<>>]
      BY <1>7 DEF World
    <2> QED
      BY <1>4, <1>5, <2>1, <2>2 DEF WorldType
  <1>9. WorldInv(World')
    <2>1. AuthCapacity \in Nat /\ o.next \in Nat \ {0} /\ c.next \in Nat \ {0}
      BY <1>4, <1>5, AuthCapacityAssumption DEF OwnerType, CtlType
    <2> QED
      BY <1>4, <1>5, <1>7, <1>8, <2>1 DEF WorldInv
  <1>10. QueuesInv'
    <2>1. results' \in Seq(Answered)
      BY <1>7
    <2> QED
      BY <1>7, <1>n, <2>1 DEF QueuesInv, AllCurrent, Distinct, Apart
  <1>11. GensInv'
    <2>1. Gens' = Gens /\ Threads' = Threads /\ w.saved \in Gens
      BY <1>0, <1>3, <1>7 DEF Gens, Threads, GensInv
    <2> QED
      BY <1>0, <1>4, <1>5, <1>7, <1>n, <2>1 DEF GensInv
  <1>12. RotationInv'
    <2>1. 0 \notin superseded
      BY SessionParts
    <2> QED
      BY <1>0, <1>4, <1>5, <1>7, <1>n, <2>1 DEF RotationInv
  <1>13. RecoveryInv'
    <2>1. \A t \in Threads : Recovery(t)'
      BY <1>0, <1>4, <1>7 DEF RecoveryInv, Recovery
    <2>2. ~Lent(World')
      BY <1>4, <1>8 DEF Lent
    <2> QED
      BY <1>0, <1>4, <1>7, <2>1, <2>2 DEF RecoveryInv, Threads
  <1>14. cut' \in BOOLEAN /\ (cut' => Gone(World'))
    <2>1. cut' \in BOOLEAN /\ (cut' => cut)
      BY <1>5, <1>7 DEF CutOff, SessionInv
    <2>2. cut => saved = 0
      BY <1>0 DEF SessionInv, Gone
    <2> QED
      BY <1>3, <1>4, <1>5, <1>8, <2>1, <2>2 DEF Gone
  <1> QED
    BY <1>0, <1>4, <1>5, <1>7, <1>9, <1>10, <1>11, <1>12, <1>13, <1>14 DEF SessionInv

LEMMA StopSafe ==
  ASSUME SessionInv, UNCHANGED vars
  PROVE  SessionInv'
  <1>1. /\ UNCHANGED <<ctl, inbox, calling, results, started, owner, saved, superseded, service, chat, cut>>
    BY DEF vars, apiVars, ownerVars, authVars, chatVars
  <1>2. WorldInv(World) /\ QueuesInv /\ GensInv /\ RotationInv /\ RecoveryInv
    BY SessionParts
  <1>3. World' = World
    BY <1>1 DEF World
  <1>4. QueuesInv'
    BY <1>1, <1>2 DEF QueuesInv, AllCurrent, Current, Distinct, Apart
  <1>5. GensInv'
    BY <1>1, <1>2 DEF GensInv, Gens, Threads
  <1>6. RotationInv'
    BY <1>1, <1>2 DEF RotationInv, Usable, UsableAnswer
  <1>7. RecoveryInv'
    BY <1>1, <1>2, <1>3 DEF RecoveryInv, Recovery, Replacing, Threads
  <1> QED
    BY <1>1, <1>2, <1>3, <1>4, <1>5, <1>6, <1>7 DEF SessionInv

LEMMA TickSafe ==
  ASSUME SessionInv, Tick, UNCHANGED chatVars, CutOff
  PROVE  SessionInv'
  <1>1. UNCHANGED chat
    BY DEF chatVars
  <1> QED
    BY <1>1, TickExpiredSafe, TickResultSafe, TickDeferredSafe, TickPollSafe, TickWatchSafe,
       TickScheduleSafe DEF Tick

LEMMA ControllerSafe ==
  ASSUME SessionInv, Controller, UNCHANGED chatVars, CutOff
  PROVE  SessionInv'
  <1>1. UNCHANGED chat
    BY DEF chatVars
  <1> QED
    BY <1>1, TickSafe, BeginConnectionSafe, BeginSavedConnectionSafe, DisconnectSafe, EnablePostingSafe,
       WorkerTakesSafe, WorkerCallsSafe, WorkerAnswersSafe DEF Controller

LEMMA SessionStep ==
  ASSUME SessionInv, [Next]_vars
  PROVE  SessionInv'
  <1>1. CASE UNCHANGED vars
    BY <1>1, StopSafe
  <1>2. CASE Stopped
    BY <1>2, StopSafe DEF Stopped
  <1>3. CASE Next /\ ~Stopped
    BY <1>3, ControllerSafe, ChatSafe, StopPoolsSafe, ShutdownSafe, TokenExpiresSafe, RestartSafe DEF Next
  <1> QED
    BY <1>1, <1>2, <1>3 DEF Next

(***************************************************************************)
(* twitch_session_owner, the controller, its worker and the chat threads:  *)
(* between any two of their steps, and over crashes and shutdowns, the     *)
(* session has one place and what is on its way is usable (SessionInv),    *)
(* and no report is in the chat too often (PostsInv).                      *)
(***************************************************************************)
THEOREM ServiceInvariance == Spec => [](SessionInv /\ PostsInv)
  <1>1. Init => SessionInv /\ PostsInv
    BY InitSafe
  <1>2. SessionInv /\ PostsInv /\ [Next]_vars => (SessionInv /\ PostsInv)'
    <2> SUFFICES ASSUME SessionInv, PostsInv, [Next]_vars PROVE SessionInv' /\ PostsInv'
      OBVIOUS
    <2>1. chat \in [Threads -> ChatType]
      BY DEF SessionInv, RecoveryInv
    <2> QED
      BY <2>1, SessionStep, PostsStep
  <1> QED
    BY <1>1, <1>2, PTL DEF Spec

(* commit, persist_pending and erase_saved: at every moment the session the    *)
(* process works with is the one a crash would leave in the store.             *)
THEOREM ConnectedIsAlwaysSaved == Spec => []ConnectedIsSaved
  <1>1. SessionInv => ConnectedIsSaved
    <2> SUFFICES ASSUME SessionInv PROVE ConnectedIsSaved
      OBVIOUS
    <2>1. WorldInv(World) /\ World.owner = owner /\ World.saved = saved
      BY SessionParts
    <2> QED
      BY <2>1 DEF WorldInv, ConnectedIsSaved
  <1> QED
    BY <1>1, ServiceInvariance, PTL

(* accept_rotation and recover_current: a session whose replacement has        *)
(* reached the process is never put back.                                      *)
THEOREM RotationIsNeverUndone == Spec => []RotationNotUndone
  <1>1. SessionInv => RotationNotUndone
    BY DEF SessionInv, RotationInv, RotationNotUndone
  <1> QED
    BY <1>1, ServiceInvariance, PTL

(* disconnect and finish_disconnect: once the disconnect is shown complete     *)
(* nothing brings the session back, until the user connects again.             *)
THEOREM DisconnectIsAlwaysFinal == Spec => []DisconnectIsFinal
  <1>1. SessionInv => DisconnectIsFinal
    <2> SUFFICES ASSUME SessionInv PROVE DisconnectIsFinal
      OBVIOUS
    <2>1. World.owner = owner /\ World.saved = saved
      BY SessionParts
    <2> QED
      BY <2>1 DEF SessionInv, Gone, DisconnectIsFinal
  <1> QED
    BY <1>1, ServiceInvariance, PTL

(* Ledger and TwitchChatDelivery::send: one automatic post for each report,    *)
(* whatever the answers, for any number of threads and any capacity.           *)
THEOREM PostedAtMostOnce == Spec => []PostedOnce
  <1>1. PostsInv => PostedOnce
    BY DEF PostsInv, PostedOnce
  <1> QED
    BY <1>1, ServiceInvariance, PTL

LEMMA HoldersOne ==
  ASSUME SessionInv
  PROVE  OneHolder
  <1> SUFFICES ASSUME owner.pending # 0 PROVE owner.active = 0 /\ Cardinality(Holders) = 1
    BY DEF OneHolder
  <1>0. /\ WorldInv(World) /\ World.ctl = ctl /\ World.owner = owner /\ RecoveryInv
    BY SessionParts
  <1>1. owner.active = 0 /\ ~owner.stopping /\ (ctl.tx # 0 => ctl.tx = owner.pending)
    BY <1>0 DEF WorldInv
  <1>2. ASSUME NEW t \in Threads, chat[t].tx # 0 PROVE ctl.tx = 0 /\ chat[t].tx = owner.pending
    BY <1>0, <1>1, <1>2 DEF RecoveryInv, Recovery, Lent
  <1>3. \E x : Holders = {x}
    <2>1. CASE ctl.tx # 0
      <3>1. {t \in Threads : Recovering(t) /\ chat[t].tx = owner.pending} = {}
        BY <1>2, <2>1 DEF Recovering
      <3>2. Holders = {"controller"}
        BY <1>1, <2>1, <3>1 DEF Holders
      <3> QED
        BY <3>2
    <2>2. CASE ctl.tx = 0
      <3>1. PICK t \in Threads : chat[t].tx = owner.pending
        BY <1>0, <2>2 DEF RecoveryInv, Lent
      <3>2. \A u \in Threads : chat[u].tx = owner.pending => u = t
        BY <1>0, <3>1 DEF RecoveryInv
      <3>3. Holders = {u \in Threads : Recovering(u) /\ chat[u].tx = owner.pending}
        BY <2>2 DEF Holders
      <3>4. Holders = {t}
        BY <3>1, <3>2, <3>3 DEF Recovering
      <3> QED
        BY <3>4
    <2> QED
      BY <2>1, <2>2
  <1> QED
    BY <1>1, <1>3, FS_Singleton

LEMMA ServiceTypes ==
  ASSUME SessionInv, PostsInv
  PROVE  TwitchTypeOK
  <1>0. /\ WorldInv(World) /\ World.ctl = ctl /\ World.owner = owner /\ World.inbox = inbox
        /\ GensInv /\ ctl \in CtlType /\ owner \in OwnerType
    BY SessionParts
  <1>1. /\ saved \in Gens /\ superseded \subseteq Gens
        /\ service.live \cup service.refreshable \subseteq 1 .. service.last
        /\ \A t \in Threads : chat[t].gen \in Gens /\ chat[t].session \in Gens
        /\ ctl.gen \in Gens /\ owner.active \in Gens
    BY <1>0 DEF GensInv, Gens
  <1>2. owner \in [active : Gens, pending : Nat, restorable : BOOLEAN, revision : Nat,
                   next : Nat \ {0}, stopping : BOOLEAN]
    BY <1>0, <1>1 DEF OwnerType
  <1>3. ctl.state \in States /\ ctl.phase \in Phases \cup {None}
    BY <1>0 DEF CtlType
  <1>4. Len(inbox) <= AuthCapacity
    BY <1>0 DEF WorldInv
  <1>5. Len(ledger.settled) <= LedgerCapacity /\ ledger.active \subseteq Keys
    BY DEF PostsInv
  <1> QED
    BY <1>1, <1>2, <1>3, <1>4, <1>5 DEF TwitchTypeOK

(* checkout_active, commit, restore, discard and Ledger::claim: whatever is    *)
(* out, the session or a report, has exactly one holder.                       *)
THEOREM HeldExactlyOnce == Spec => []HeldOnce
  <1>1. SessionInv /\ PostsInv => HeldOnce
    BY HoldersOne, ServiceTypes DEF HeldOnce, PostsInv
  <1> QED
    BY <1>1, ServiceInvariance, PTL
=============================================================================
