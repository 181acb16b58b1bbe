------------------------ MODULE UploadSessionProofs ------------------------
(***************************************************************************)
(* Machine-checked proofs about UploadCoordinator, for every number of     *)
(* rows, every attempt limit, history limit and set of installed ports,    *)
(* and then about UploadSession: the coordinator inside the application    *)
(* owner's tick, across crashes and restarts, for every set of logs, every *)
(* history limit and every number of sessions.                             *)
(*                                                                         *)
(* The coordinator's own invariant IndInv is kept by every step of the     *)
(* session, restarts included.  ShapeInv adds the types of the session's   *)
(* variables and the fact that discovery knows every row and every record. *)
(* DurableInv and ResendInv tie the requests in flight and the deliveries  *)
(* of all sessions to the history document; they hold as long as the       *)
(* document has room for every log (Roomy): beyond that a save may drop    *)
(* the record of a row that is still busy.                                 *)
(* SavedInv says that a save writes every success the rows show, KeptInv   *)
(* (of SavedSession) that every success reported is shown by its row or,   *)
(* once the row is gone, on record.                                        *)
(***************************************************************************)
EXTENDS SavedSession, FiniteSetTheorems, SequenceTheorems, TLAPS

(***************************************************************************)
(* Part one: UploadCoordinator.                                            *)
(***************************************************************************)
-----------------------------------------------------------------------------
(* The operators on a job record.                                          *)

(* A transition changes one provider status and nothing else.              *)
LEMMA MovedFields ==
  ASSUME NEW job \in Job, NEW p \in Providers, NEW next \in States,
         next = "Active" => job.att[p] < AttemptLimit
  PROVE  /\ Moved(job, p, next) \in Job
         /\ Moved(job, p, next).meta = job.meta
         /\ Moved(job, p, next).report = job.report
         /\ Moved(job, p, next).receipt = job.receipt
         /\ Moved(job, p, next).st = [job.st EXCEPT ![p] = next]
         /\ Moved(job, p, next).att =
              [job.att EXCEPT ![p] = IF next = "Active" THEN job.att[p] + 1 ELSE job.att[p]]
  <1> DEFINE m == Moved(job, p, next)
  <1>1. m = [job EXCEPT !.st = [job.st EXCEPT ![p] = next],
                        !.att = [job.att EXCEPT ![p] = IF next = "Active" THEN job.att[p] + 1 ELSE job.att[p]]]
    BY DEF Moved
  <1>2. job.att[p] \in 0..AttemptLimit
    BY DEF Job
  <1>3. [job.st EXCEPT ![p] = next] \in [Providers -> States]
    BY DEF Job
  <1>4. [job.att EXCEPT ![p] = IF next = "Active" THEN job.att[p] + 1 ELSE job.att[p]] \in [Providers -> 0..AttemptLimit]
    BY <1>2, AttemptLimitAssumption DEF Job
  <1> QED
    BY <1>1, <1>3, <1>4 DEF Job

(* trim_to keeps what it keeps unchanged, and keeps every busy row.        *)
LEMMA TrimKeeps ==
  ASSUME NEW js, NEW limit
  PROVE  /\ DOMAIN TrimTo(js, limit) \subseteq DOMAIN js
         /\ \A i \in DOMAIN TrimTo(js, limit) : TrimTo(js, limit)[i] = js[i]
         /\ \A i \in DOMAIN js : Busy(js[i]) => i \in DOMAIN TrimTo(js, limit)
         /\ TrimTo(js, limit) = [i \in DOMAIN TrimTo(js, limit) |-> TrimTo(js, limit)[i]]
  BY DEF TrimTo, Kept

(* Settling changes waiting dependents only.                               *)
LEMMA SettleFields ==
  ASSUME NEW e \in Entry, NEW state \in {"Skipped", "Cancelled"}
  PROVE  LET s == SettleDependents(e, state)
         IN /\ s \in Entry
            /\ s.pending = e.pending /\ s.reupload = e.reupload /\ s.intents = e.intents
            /\ s.job.meta = e.job.meta /\ s.job.att = e.job.att
            /\ s.job.report = e.job.report /\ s.job.receipt = e.job.receipt
            /\ s.job.st = [p \in Providers |->
                             IF p \in DEPENDENTS /\ Settles(e, p) /\ e.job.st[p] = "Waiting"
                             THEN state ELSE e.job.st[p]]
  BY DEF SettleDependents, Entry, Job, States, BusyStates, ScheduledStates

(* A refused dispatch fails its destination, and with dps.report it skips  *)
(* the dependents that were waiting for it.                                *)
LEMMA FailDispatchFields ==
  ASSUME NEW e \in Entry, NEW p \in Providers
  PROVE  LET f == FailDispatch(e, p)
         IN /\ f \in Entry
            /\ f.pending = e.pending /\ f.reupload = e.reupload /\ f.intents = e.intents
            /\ f.job.meta = e.job.meta /\ f.job.att = e.job.att
            /\ f.job.report = e.job.report /\ f.job.receipt = e.job.receipt
            /\ f.job.st[p] = IF e.job.st[p] \in BusyStates THEN "Failed" ELSE e.job.st[p]
            /\ \A q \in Providers \ {p} :
                 f.job.st[q] =
                   IF /\ p = "DpsReport" /\ q \in DEPENDENTS
                      /\ Settles(e, q) /\ e.job.st[q] = "Waiting"
                   THEN "Skipped" ELSE e.job.st[q]
PROOF
  <1> DEFINE t == TryTransition(e.job, p, "Failed")
             g == [e EXCEPT !.job = t]
  <1>1. e.job \in Job
    BY DEF Entry
  <1>2. /\ t \in Job
        /\ t.meta = e.job.meta /\ t.report = e.job.report /\ t.receipt = e.job.receipt
        /\ t.att = e.job.att
        /\ t.st = [e.job.st EXCEPT ![p] = IF e.job.st[p] \in BusyStates
                                          THEN "Failed" ELSE e.job.st[p]]
    <2>1. CASE CanTransition(e.job, p, "Failed")
      <3>1. e.job.st[p] \in BusyStates
        BY <2>1 DEF CanTransition, Allows, BusyStates, ScheduledStates
      <3>2. "Failed" \in States /\ "Failed" # "Active"
        BY DEF States
      <3>3. t = Moved(e.job, p, "Failed")
        BY <2>1 DEF TryTransition
      <3>4. e.job.att \in [Providers -> 0..AttemptLimit]
        BY <1>1 DEF Job
      <3> QED
        BY <1>1, <3>1, <3>2, <3>3, <3>4, MovedFields
    <2>2. CASE ~CanTransition(e.job, p, "Failed")
      <3>1. e.job.st[p] \in States
        BY <1>1 DEF Job
      <3>2. e.job.st[p] \notin BusyStates
        BY <2>2, <3>1 DEF CanTransition, Allows, BusyStates, ScheduledStates, States
      <3>3. t = e.job
        BY <2>2 DEF TryTransition
      <3> QED
        BY <1>1, <3>2, <3>3 DEF Job
    <2> QED
      BY <2>1, <2>2
  <1>3. /\ g \in Entry /\ g.job = t
        /\ g.pending = e.pending /\ g.reupload = e.reupload /\ g.intents = e.intents
    BY <1>2 DEF Entry
  <1>4. e.job.st \in [Providers -> States]
    BY <1>1 DEF Job
  <1>5. CASE p = "DpsReport"
    <2>1. FailDispatch(e, p) = SettleDependents(g, "Skipped")
      BY <1>5 DEF FailDispatch
    <2>2. \A q : Settles(g, q) <=> Settles(e, q)
      BY <1>3 DEF Settles
    <2>3. "DpsReport" \notin DEPENDENTS
      BY DEF DEPENDENTS
    <2> HIDE DEF g, t
    <2> DEFINE s == SettleDependents(g, "Skipped")
    <2>4. /\ s \in Entry
          /\ s.pending = e.pending /\ s.reupload = e.reupload /\ s.intents = e.intents
          /\ s.job.meta = e.job.meta /\ s.job.att = e.job.att
          /\ s.job.report = e.job.report /\ s.job.receipt = e.job.receipt
      BY <1>2, <1>3, SettleFields
    <2>5. \A q \in Providers : s.job.st[q] = IF q \in DEPENDENTS /\ Settles(g, q) /\ t.st[q] = "Waiting"
                                             THEN "Skipped" ELSE t.st[q]
      <3>1. s.job.st = [q \in Providers |->
                          IF q \in DEPENDENTS /\ Settles(g, q) /\ g.job.st[q] = "Waiting"
                          THEN "Skipped" ELSE g.job.st[q]]
        BY <1>3, SettleFields
      <3> HIDE DEF s
      <3> QED
        BY <1>3, <3>1
    <2>6. s.job.st[p] = t.st[p]
      BY <1>5, <2>3, <2>5
    <2>7. \A q \in Providers \ {p} : t.st[q] = e.job.st[q]
      BY <1>2, <1>4
    <2>8. t.st[p] = IF e.job.st[p] \in BusyStates THEN "Failed" ELSE e.job.st[p]
      BY <1>2, <1>4
    <2> HIDE DEF s
    <2>9. \A q \in Providers \ {p} :
            s.job.st[q] = IF q \in DEPENDENTS /\ Settles(e, q) /\ e.job.st[q] = "Waiting"
                          THEN "Skipped" ELSE e.job.st[q]
      BY <2>2, <2>5, <2>7
    <2>10. FailDispatch(e, p) = s
      BY <2>1 DEF s
    <2> QED
      BY <1>5, <2>4, <2>6, <2>8, <2>9, <2>10
  <1>6. CASE p # "DpsReport"
    <2>1. FailDispatch(e, p) = g
      BY <1>6 DEF FailDispatch
    <2> HIDE DEF g, t
    <2> QED
      BY <1>2, <1>3, <1>4, <1>6, <2>1
  <1> QED
    BY <1>5, <1>6

-----------------------------------------------------------------------------
(* What a dispatch preserves.                                              *)

(* A row as the middle of a call leaves it, with P still to be dispatched. *)
Sound(id, e, P, R) ==
  /\ e \in Entry
  /\ ReportKept(e.job)
  /\ ReceiptsKept(e.job)
  /\ RoutedInv(e, P)
  /\ Matched(id, e, R)

(* f is e after the dispatch of p has failed, with or without an attempt.  *)
FailedFrom(e, f, p) ==
  /\ f \in Entry
  /\ f.pending = e.pending /\ f.reupload = e.reupload
  /\ f.job.meta = e.job.meta /\ f.job.report = e.job.report
  /\ f.job.receipt = e.job.receipt
  /\ \A q \in Providers \ {p} :
       /\ f.job.att[q] = e.job.att[q]
       /\ f.job.st[q] =
            IF /\ p = "DpsReport" /\ q \in DEPENDENTS
               /\ Settles(e, q) /\ e.job.st[q] = "Waiting"
            THEN "Skipped" ELSE e.job.st[q]
  /\ f.job.st[p] = IF e.job.st[p] \in BusyStates THEN "Failed" ELSE e.job.st[p]
  /\ \/ f.job.att[p] = e.job.att[p]
     \/ /\ f.job.att[p] = e.job.att[p] + 1
        /\ e.job.st[p] \in {"Waiting"} \cup ScheduledStates

LEMMA FailedKeeps ==
  ASSUME NEW id, NEW e, NEW f, NEW P \in SUBSET Providers, NEW p \in P, NEW R,
         R \subseteq Request, Sound(id, e, P, R), FailedFrom(e, f, p)
  PROVE  Sound(id, f, P \ {p}, R)
PROOF
  <1> USE DEF Sound
  <1>1. p \in Providers /\ e.job \in Job /\ f.job \in Job
    BY DEF Entry, FailedFrom
  <1>2. e.job.st \in [Providers -> States] /\ e.job.att \in [Providers -> 0..AttemptLimit]
    BY <1>1 DEF Job
  <1>3. e.job.st[p] # "Active"
    BY DEF RoutedInv
  <1>4. ReportKept(f.job)
    BY <1>1, <1>2, <1>3 DEF FailedFrom, ReportKept, Providers, DEPENDENTS, ScheduledStates, BusyStates
  <1>5. ReceiptsKept(f.job)
    BY <1>1, <1>2, <1>3 DEF FailedFrom, ReceiptsKept, Providers, DEPENDENTS, ScheduledStates, BusyStates
  <1>6. RoutedInv(f, P \ {p})
    BY <1>1, <1>2, <1>3
    DEF FailedFrom, RoutedInv, Under, Settles, Providers, DEPENDENTS, ScheduledStates, BusyStates
  <1>7. Matched(id, f, R)
    BY <1>1, <1>2, <1>3
    DEF FailedFrom, Matched, Request, Providers, DEPENDENTS, ScheduledStates, BusyStates
  <1> QED
    BY <1>4, <1>5, <1>6, <1>7 DEF FailedFrom

(* a is e after p has become Active.                                       *)
ActiveFrom(e, a, p) ==
  /\ a \in Entry
  /\ a.pending = e.pending /\ a.reupload = e.reupload
  /\ a.job.meta = e.job.meta /\ a.job.report = e.job.report
  /\ a.job.receipt = e.job.receipt
  /\ a.job.st = [e.job.st EXCEPT ![p] = "Active"]
  /\ a.job.att = [e.job.att EXCEPT ![p] = e.job.att[p] + 1]

LEMMA ActivateFields ==
  ASSUME NEW e \in Entry, NEW p \in Providers, Admissible(e.job, p)
  PROVE  LET a == [e EXCEPT !.job = Moved(@, p, "Active")]
         IN /\ ActiveFrom(e, a, p)
            /\ e.job.st[p] \in {"Waiting"} \cup ScheduledStates
            /\ a.job.att[p] \in 1..AttemptLimit
PROOF
  <1> DEFINE m == Moved(e.job, p, "Active")
             a == [e EXCEPT !.job = m]
  <1>1. e.job \in Job /\ "Active" \in States
    BY DEF Entry, States, BusyStates
  <1>2. e.job.att[p] < AttemptLimit /\ "Active" \in Allows(e.job.st[p])
    BY DEF Admissible, CanTransition
  <1>3. e.job.st[p] \in States /\ e.job.att[p] \in 0..AttemptLimit
    BY <1>1 DEF Job
  <1>4. e.job.st[p] \in {"Waiting"} \cup ScheduledStates
    BY <1>2, <1>3 DEF Allows, States, BusyStates, ScheduledStates
  <1>5. /\ m \in Job /\ m.meta = e.job.meta /\ m.report = e.job.report
        /\ m.receipt = e.job.receipt
        /\ m.st = [e.job.st EXCEPT ![p] = "Active"]
        /\ m.att = [e.job.att EXCEPT ![p] = e.job.att[p] + 1]
    BY <1>1, <1>2, MovedFields
  <1> HIDE DEF m
  <1>6. /\ a \in Entry /\ a.job = m
        /\ a.pending = e.pending /\ a.reupload = e.reupload /\ a.intents = e.intents
    BY <1>5 DEF Entry
  <1>7. m.att[p] \in 1..AttemptLimit
    <2>1. m.att[p] = e.job.att[p] + 1
      BY <1>1, <1>5 DEF Job
    <2> QED
      BY <1>2, <1>3, <2>1, AttemptLimitAssumption
  <1>8. a = [e EXCEPT !.job = Moved(@, p, "Active")]
    BY DEF m
  <1> HIDE DEF a
  <1>9. ActiveFrom(e, a, p) /\ a.job.att[p] \in 1..AttemptLimit
    BY <1>5, <1>6, <1>7 DEF ActiveFrom
  <1> QED
    BY <1>4, <1>8, <1>9

(* An accepted dispatch: the request that leaves is the active attempt.    *)
LEMMA ActivateKeeps ==
  ASSUME NEW id, NEW e, NEW a, NEW P \in SUBSET Providers, NEW p \in P, NEW R,
         R \subseteq Request, Sound(id, e, P, R), ActiveFrom(e, a, p),
         e.job.st[p] \in {"Waiting"} \cup ScheduledStates,
         a.job.att[p] \in 1..AttemptLimit,
         e.job.meta # "None", DependencyMet(e.job, p)
  PROVE  Sound(id, a, P \ {p}, R \cup {RequestOf(id, a, p, TRUE)})
PROOF
  <1> USE DEF Sound
  <1> DEFINE r == RequestOf(id, a, p, TRUE)
  <1>1. p \in Providers /\ e.job \in Job /\ a.job \in Job
    BY DEF Entry, ActiveFrom
  <1>2. e.job.st \in [Providers -> States] /\ e.job.att \in [Providers -> 0..AttemptLimit]
    BY <1>1 DEF Job
  <1>3. /\ a.job.st[p] = "Active"
        /\ \A q \in Providers \ {p} : a.job.st[q] = e.job.st[q] /\ a.job.att[q] = e.job.att[q]
    BY <1>1, <1>2 DEF ActiveFrom
  <1>4. ReportKept(a.job)
    BY <1>1, <1>2, <1>3 DEF ActiveFrom, ReportKept, Providers, ScheduledStates
  <1>5. ReceiptsKept(a.job)
    BY <1>1, <1>2, <1>3 DEF ActiveFrom, ReceiptsKept, Providers, DEPENDENTS, ScheduledStates
  <1>6. RoutedInv(a, P \ {p})
    BY <1>1, <1>2, <1>3
    DEF ActiveFrom, RoutedInv, DependencyMet, HasReport, Under, Providers, DEPENDENTS,
        ScheduledStates, BusyStates
  <1>7. /\ r.id = id /\ r.provider = p /\ r.attempt = a.job.att[p] /\ r.acked = TRUE
        /\ p # "DpsReport" => r.report = a.job.report
    BY DEF RequestOf
  <1> HIDE DEF r
  <1>8. Matched(id, a, R \cup {r})
    <2>1. \A q \in Providers :
            a.job.st[q] = "Active" =>
              \E x \in R \cup {r} : /\ x.acked /\ x.id = id /\ x.provider = q
                                    /\ x.attempt = a.job.att[q]
      BY <1>1, <1>3, <1>7 DEF Matched
    <2>2. \A x \in R : x.id = id /\ x.acked => x.provider # p
      BY DEF Matched, ScheduledStates
    <2>3. \A x \in R : x.id = id /\ x.acked =>
            /\ a.job.st[x.provider] = "Active"
            /\ x.attempt = a.job.att[x.provider]
            /\ x.provider \in {"Wingman", "DonBot"} => x.report = a.job.report
      BY <1>3, <2>2 DEF Matched, Request, ActiveFrom
    <2>4. a.job.att[p] = e.job.att[p] + 1 /\ e.job.att[p] \in Nat
      BY <1>1, <1>2 DEF ActiveFrom
    <2>5. \A x \in R : x.provider \in Providers
      BY DEF Request
    <2>6. \A x \in R : x.id = id => x.attempt <= e.job.att[x.provider]
      BY DEF Matched
    <2>7. \A x \in R : x.id = id /\ x.provider = p => x.attempt # a.job.att[p]
      <3> SUFFICES ASSUME NEW x \in R, x.id = id, x.provider = p, x.attempt = a.job.att[p]
                   PROVE  FALSE
        OBVIOUS
      <3>1. x.attempt <= e.job.att[p]
        BY <2>6
      <3> QED
        BY <2>4, <3>1
    <2>8. \A x \in R \cup {r} : x.id = id => x.attempt <= a.job.att[x.provider]
      <3> SUFFICES ASSUME NEW x \in R \cup {r}, x.id = id
                   PROVE  x.attempt <= a.job.att[x.provider]
        OBVIOUS
      <3>1. CASE x = r
        BY <1>7, <2>4, <3>1
      <3>2. CASE x \in R /\ x.provider # p
        BY <1>3, <2>5, <2>6, <3>2
      <3>3. CASE x \in R /\ x.provider = p
        <4>1. x.attempt <= e.job.att[p] /\ x.attempt \in Nat
          BY <2>6, <3>3 DEF Request
        <4> QED
          BY <2>4, <3>3, <4>1
      <3> QED
        BY <3>1, <3>2, <3>3
    <2>9. \A x, y \in R \cup {r} :
            x.id = id /\ y.id = id /\ x.provider = y.provider /\ x.attempt = y.attempt => x = y
      BY <1>7, <2>7 DEF Matched
    <2> QED
      BY <1>3, <1>7, <2>1, <2>3, <2>8, <2>9 DEF Matched
  <1> QED
    BY <1>4, <1>5, <1>6, <1>8 DEF ActiveFrom, r

(* GW2Wingman on a WvW log: a waiting destination is skipped.              *)
LEMMA SkipKeeps ==
  ASSUME NEW id, NEW e, NEW P \in SUBSET Providers, "Wingman" \in P, NEW R,
         R \subseteq Request, Sound(id, e, P, R)
  PROVE  Sound(id, [e EXCEPT !.job = TryTransition(@, "Wingman", "Skipped")],
               P \ {"Wingman"}, R)
PROOF
  <1> USE DEF Sound
  <1> DEFINE s == [e EXCEPT !.job = TryTransition(@, "Wingman", "Skipped")]
  <1>1. /\ e.job \in Job /\ "Wingman" \in Providers
        /\ "Skipped" \in States /\ "Skipped" # "Active"
    BY DEF Entry, Providers, States
  <1>2. e.job.st \in [Providers -> States] /\ e.job.att \in [Providers -> 0..AttemptLimit]
    BY <1>1 DEF Job
  <1>3. CASE CanTransition(e.job, "Wingman", "Skipped")
    <2>1. e.job.st["Wingman"] = "Waiting"
      BY <1>1, <1>2, <1>3 DEF CanTransition, Allows, RoutedInv, ScheduledStates
    <2> DEFINE m == Moved(e.job, "Wingman", "Skipped")
    <2>2. /\ m \in Job /\ m.meta = e.job.meta /\ m.report = e.job.report
          /\ m.receipt = e.job.receipt /\ m.st = [e.job.st EXCEPT !["Wingman"] = "Skipped"]
          /\ m.att = [e.job.att EXCEPT !["Wingman"] = e.job.att["Wingman"]]
      BY <1>1, MovedFields
    <2>3. s = [e EXCEPT !.job = m]
      BY <1>3 DEF TryTransition
    <2> HIDE DEF m, s
    <2>4. /\ s \in Entry /\ s.job = m
          /\ s.pending = e.pending /\ s.reupload = e.reupload
      BY <2>2, <2>3 DEF Entry
    <2>5. /\ m.st["Wingman"] = "Skipped"
          /\ \A q \in Providers : m.att[q] = e.job.att[q]
          /\ \A q \in Providers \ {"Wingman"} : m.st[q] = e.job.st[q]
      BY <1>1, <1>2, <2>2
    <2>6. ReportKept(m) /\ ReceiptsKept(m)
      BY <1>1, <2>1, <2>2, <2>5 DEF ReportKept, ReceiptsKept, Providers, DEPENDENTS
    <2>7. RoutedInv(s, P \ {"Wingman"})
      BY <1>1, <1>2, <2>1, <2>2, <2>4, <2>5
      DEF RoutedInv, Under, Providers, DEPENDENTS, ScheduledStates, BusyStates
    <2>8. Matched(id, s, R)
      BY <1>1, <1>2, <2>1, <2>2, <2>4, <2>5 DEF Matched, Request, Providers
    <2> QED
      BY <2>4, <2>6, <2>7, <2>8 DEF s
  <1>4. CASE ~CanTransition(e.job, "Wingman", "Skipped")
    <2>1. e.job.st["Wingman"] # "Waiting"
      BY <1>1, <1>2, <1>4 DEF CanTransition, Allows, ScheduledStates, Providers
    <2>2. s = e
      BY <1>4 DEF TryTransition, Entry
    <2> HIDE DEF s
    <2>3. RoutedInv(e, P \ {"Wingman"})
      BY <2>1 DEF RoutedInv, DEPENDENTS
    <2> QED
      BY <2>2, <2>3 DEF s
  <1> QED
    BY <1>3, <1>4

(* The accumulator of a call that has yet to dispatch the providers P.     *)
Chain(id, acc, P, R) ==
  /\ acc = [entry |-> acc.entry, sent |-> acc.sent]
  /\ acc.sent \subseteq Request
  /\ \A r \in acc.sent : r.id = id
  /\ Sound(id, acc.entry, P, R \cup acc.sent)

(* A request that was not acknowledged constrains no status.               *)
LEMMA UnackedKeeps ==
  ASSUME NEW id, NEW e, NEW P, NEW R, NEW r, ~r.acked, Sound(id, e, P, R),
         r.attempt <= e.job.att[r.provider],
         \A x \in R : x.id = id /\ x.provider = r.provider => x.attempt # r.attempt
  PROVE  Sound(id, e, P, R \cup {r})
  <1>1. Matched(id, e, R \cup {r})
    BY DEF Matched, Sound
  <1> QED
    BY <1>1 DEF Sound

LEMMA RequestOfType ==
  ASSUME NEW id \in Ids, NEW e \in Entry, NEW p \in Providers, NEW acked \in BOOLEAN,
         e.job.att[p] \in 1..AttemptLimit
  PROVE  /\ RequestOf(id, e, p, acked) \in Request
         /\ RequestOf(id, e, p, acked).id = id
         /\ RequestOf(id, e, p, acked).acked = acked
  <1>1. e.intents[p] \in Intents /\ e.job.report \in 0..AttemptLimit
    BY DEF Entry, Job
  <1>2. 0 \in 0..AttemptLimit
    BY AttemptLimitAssumption
  <1> QED
    BY <1>1, <1>2 DEF RequestOf, Request

(* The failure of a dispatch, before or after the attempt was counted.     *)
LEMMA FailureIsFailedFrom ==
  ASSUME NEW e \in Entry, NEW p \in Providers
  PROVE  /\ FailedFrom(e, FailDispatch(e, p), p)
         /\ \A a : /\ ActiveFrom(e, a, p)
                   /\ e.job.st[p] \in {"Waiting"} \cup ScheduledStates
                   => FailedFrom(e, FailDispatch(a, p), p)
PROOF
  <1>1. FailedFrom(e, FailDispatch(e, p), p)
    <2> DEFINE f == FailDispatch(e, p)
    <2>1. /\ f \in Entry
          /\ f.pending = e.pending /\ f.reupload = e.reupload
          /\ f.job.meta = e.job.meta /\ f.job.att = e.job.att
          /\ f.job.report = e.job.report /\ f.job.receipt = e.job.receipt
          /\ f.job.st[p] = IF e.job.st[p] \in BusyStates THEN "Failed" ELSE e.job.st[p]
          /\ \A q \in Providers \ {p} :
               f.job.st[q] =
                 IF /\ p = "DpsReport" /\ q \in DEPENDENTS
                    /\ Settles(e, q) /\ e.job.st[q] = "Waiting"
                 THEN "Skipped" ELSE e.job.st[q]
      BY FailDispatchFields
    <2> HIDE DEF f
    <2>2. FailedFrom(e, f, p)
      BY <2>1 DEF FailedFrom
    <2> QED
      BY <2>2 DEF f
  <1>2. ASSUME NEW a, ActiveFrom(e, a, p),
               e.job.st[p] \in {"Waiting"} \cup ScheduledStates
        PROVE  FailedFrom(e, FailDispatch(a, p), p)
    <2> DEFINE f == FailDispatch(a, p)
    <2>1. a \in Entry
      BY <1>2 DEF ActiveFrom
    <2>2. /\ f \in Entry
          /\ f.pending = a.pending /\ f.reupload = a.reupload
          /\ f.job.meta = a.job.meta /\ f.job.att = a.job.att
          /\ f.job.report = a.job.report /\ f.job.receipt = a.job.receipt
          /\ f.job.st[p] = IF a.job.st[p] \in BusyStates THEN "Failed" ELSE a.job.st[p]
          /\ \A q \in Providers \ {p} :
               f.job.st[q] =
                 IF /\ p = "DpsReport" /\ q \in DEPENDENTS
                    /\ Settles(a, q) /\ a.job.st[q] = "Waiting"
                 THEN "Skipped" ELSE a.job.st[q]
      BY <2>1, FailDispatchFields
    <2>3. e.job.st \in [Providers -> States] /\ e.job.att \in [Providers -> 0..AttemptLimit]
      BY DEF Entry, Job
    <2>4. \A q \in Providers \ {p} : a.job.st[q] = e.job.st[q] /\ a.job.att[q] = e.job.att[q]
      BY <1>2, <2>3 DEF ActiveFrom
    <2>5. a.job.st[p] = "Active"
      BY <1>2, <2>3 DEF ActiveFrom
    <2>6. \A q : Settles(a, q) <=> Settles(e, q)
      BY <1>2 DEF ActiveFrom, Settles
    <2> HIDE DEF f
    <2>7. FailedFrom(e, f, p)
      BY <1>2, <2>2, <2>4, <2>5, <2>6 DEF FailedFrom, ActiveFrom, BusyStates
    <2> QED
      BY <2>7 DEF f
  <1> QED
    BY <1>1, <1>2

(* One dispatch takes its provider off the list and keeps the rest sound.  *)
LEMMA DispatchKeeps ==
  ASSUME NEW id \in Ids, NEW acc, NEW P \in SUBSET Providers, NEW p \in P, NEW answer,
         NEW R \in SUBSET Request, Chain(id, acc, P, R)
  PROVE  /\ Chain(id, Dispatch(id, acc, p, answer), P \ {p}, R)
         /\ Dispatch(id, acc, p, answer).entry.pending = acc.entry.pending
PROOF
  <1> DEFINE e == acc.entry
             a == [e EXCEPT !.job = Moved(@, p, "Active")]
             d == Dispatch(id, acc, p, answer)
  <1>1. /\ e \in Entry /\ p \in Providers /\ R \cup acc.sent \subseteq Request
        /\ Sound(id, e, P, R \cup acc.sent)
        /\ acc = [entry |-> e, sent |-> acc.sent]
        /\ acc.sent \subseteq Request /\ \A r \in acc.sent : r.id = id
    BY DEF Chain, Sound
  <1>2. CASE p = "Wingman" /\ e.job.meta = "WvW"
    <2> DEFINE s == [e EXCEPT !.job = TryTransition(@, "Wingman", "Skipped")]
    <2>1. d = [entry |-> s, sent |-> acc.sent]
      BY <1>1, <1>2 DEF Dispatch
    <2>2. Sound(id, s, P \ {p}, R \cup acc.sent)
      BY <1>1, <1>2, SkipKeeps
    <2>3. s.pending = e.pending
      BY <1>1 DEF Entry
    <2> HIDE DEF s, d
    <2>4. d.entry = s /\ d.sent = acc.sent
      BY <2>1
    <2>5. Chain(id, d, P \ {p}, R)
      BY <1>1, <2>1, <2>2, <2>4 DEF Chain
    <2> QED
      BY <2>3, <2>4, <2>5 DEF d
  <1>3. CASE ~(p = "Wingman" /\ e.job.meta = "WvW") /\ ~Admissible(e.job, p)
    <2> DEFINE f == FailDispatch(e, p)
    <2>1. d = [entry |-> f, sent |-> acc.sent]
      BY <1>1, <1>3 DEF Dispatch
    <2>2. FailedFrom(e, f, p)
      BY <1>1, FailureIsFailedFrom
    <2> HIDE DEF f, d
    <2>3. Sound(id, f, P \ {p}, R \cup acc.sent) /\ f.pending = e.pending
      BY <1>1, <2>2, FailedKeeps DEF FailedFrom
    <2>4. d.entry = f /\ d.sent = acc.sent
      BY <2>1
    <2>5. Chain(id, d, P \ {p}, R)
      BY <1>1, <2>1, <2>3, <2>4 DEF Chain
    <2> QED
      BY <2>3, <2>4, <2>5 DEF d
  <1>4. CASE ~(p = "Wingman" /\ e.job.meta = "WvW") /\ Admissible(e.job, p)
    <2>1. /\ ActiveFrom(e, a, p) /\ a \in Entry
          /\ e.job.st[p] \in {"Waiting"} \cup ScheduledStates
          /\ a.job.att[p] \in 1..AttemptLimit
      BY <1>1, <1>4, ActivateFields DEF ActiveFrom
    <2>2. e.job.meta # "None" /\ DependencyMet(e.job, p)
      BY <1>4 DEF Admissible
    <2>3. d = [entry |-> IF answer = "Accepted" THEN a ELSE FailDispatch(a, p),
               sent |-> IF answer = "Refused" THEN acc.sent
                        ELSE acc.sent \cup {RequestOf(id, a, p, answer = "Accepted")}]
      BY <1>4 DEF Dispatch
    <2> HIDE DEF a, d
    <2>4. FailedFrom(e, FailDispatch(a, p), p)
      BY <1>1, <2>1, FailureIsFailedFrom
    <2>5. /\ Sound(id, FailDispatch(a, p), P \ {p}, R \cup acc.sent)
          /\ FailDispatch(a, p).pending = e.pending
      BY <1>1, <2>4, FailedKeeps DEF FailedFrom
    <2>6. CASE answer = "Accepted"
      <3> DEFINE r == RequestOf(id, a, p, TRUE)
      <3>1. d = [entry |-> a, sent |-> acc.sent \cup {r}]
        BY <2>3, <2>6
      <3>2. r \in Request /\ r.id = id
        BY <1>1, <2>1, RequestOfType
      <3>3. Sound(id, a, P \ {p}, (R \cup acc.sent) \cup {r})
        BY <1>1, <2>1, <2>2, ActivateKeeps
      <3> HIDE DEF r
      <3>4. d.entry = a /\ d.sent = acc.sent \cup {r} /\ (R \cup acc.sent) \cup {r} = R \cup d.sent
        BY <3>1
      <3>5. Chain(id, d, P \ {p}, R)
        BY <1>1, <3>1, <3>2, <3>3, <3>4 DEF Chain
      <3> QED
        BY <2>1, <3>4, <3>5 DEF d, ActiveFrom
    <2>7. CASE answer = "Refused"
      <3> DEFINE f == FailDispatch(a, p)
      <3>1. d = [entry |-> f, sent |-> acc.sent]
        BY <2>3, <2>7
      <3> HIDE DEF f
      <3>2. d.entry = f /\ d.sent = acc.sent
        BY <3>1
      <3>3. Chain(id, d, P \ {p}, R)
        BY <1>1, <2>5, <3>1, <3>2 DEF Chain, f
      <3> QED
        BY <2>5, <3>2, <3>3 DEF d, f
    <2>8. CASE answer \notin {"Accepted", "Refused"}
      <3> DEFINE r == RequestOf(id, a, p, FALSE)
                 f == FailDispatch(a, p)
      <3>1. d = [entry |-> f, sent |-> acc.sent \cup {r}]
        BY <2>3, <2>8
      <3>2. r \in Request /\ r.id = id /\ ~r.acked /\ r.provider = p /\ r.attempt = a.job.att[p]
        BY <1>1, <2>1, RequestOfType DEF RequestOf
      <3>3. f.job.att = a.job.att
        BY <1>1, <2>1, FailDispatchFields
      <3> HIDE DEF r, f
      <3>4. a.job.att[p] = e.job.att[p] + 1 /\ e.job.att[p] \in Nat
        BY <1>1, <2>1 DEF ActiveFrom, Entry, Job
      <3>5. \A x \in R \cup acc.sent : x.id = id /\ x.provider = p => x.attempt # r.attempt
        <4> SUFFICES ASSUME NEW x \in R \cup acc.sent, x.id = id, x.provider = p,
                            x.attempt = a.job.att[p]
                     PROVE  FALSE
          BY <3>2
        <4>1. x.attempt <= e.job.att[p]
          BY <1>1 DEF Sound, Matched
        <4> QED
          BY <3>4, <4>1
      <3>6. r.attempt <= f.job.att[r.provider]
        BY <3>2, <3>3, <3>4
      <3>7. Sound(id, f, P \ {p}, (R \cup acc.sent) \cup {r})
        BY <2>5, <3>2, <3>5, <3>6, UnackedKeeps DEF f
      <3>8. d.entry = f /\ d.sent = acc.sent \cup {r} /\ (R \cup acc.sent) \cup {r} = R \cup d.sent
        BY <3>1
      <3>9. Chain(id, d, P \ {p}, R)
        BY <1>1, <3>1, <3>2, <3>7, <3>8 DEF Chain
      <3> QED
        BY <2>5, <3>8, <3>9 DEF d, f
    <2> QED
      BY <2>6, <2>7, <2>8
  <1> QED
    BY <1>2, <1>3, <1>4

(* The dispatches of one call leave a row with nothing left to dispatch.   *)
LEMMA DispatchEachKeeps ==
  ASSUME NEW id \in Ids, NEW e, NEW P \in SUBSET Providers, NEW answers,
         NEW R \in SUBSET Request, Sound(id, e, P, R)
  PROVE  LET d == DispatchEach(id, e, P, answers)
         IN /\ Sound(id, d.entry, {}, R \cup d.sent)
            /\ d.sent \subseteq Request
            /\ \A r \in d.sent : r.id = id
PROOF
  <1> DEFINE Step(acc, p) == IF p \in P THEN Dispatch(id, acc, p, answers[p]) ELSE acc
             a0 == [entry |-> e, sent |-> {}]
             a1 == Step(a0, "DpsReport")
             a2 == Step(a1, "Wingman")
             a3 == Step(a2, "DonBot")
             a4 == Step(a3, "Twitch")
  <1>1. Chain(id, a0, P, R)
    BY DEF Chain
  <1>2. ASSUME NEW acc, NEW Q \in SUBSET P, NEW p \in Providers, Chain(id, acc, Q, R),
               p \in P <=> p \in Q
        PROVE  Chain(id, Step(acc, p), Q \ {p}, R)
    <2>1. CASE p \in P
      <3>1. Q \in SUBSET Providers /\ p \in Q
        BY <1>2, <2>1
      <3>2. Chain(id, Dispatch(id, acc, p, answers[p]), Q \ {p}, R)
        BY <1>2, <3>1, DispatchKeeps
      <3> QED
        BY <2>1, <3>2
    <2>2. CASE p \notin P
      <3>1. Q \ {p} = Q
        BY <1>2, <2>2
      <3> QED
        BY <1>2, <2>2, <3>1
    <2> QED
      BY <2>1, <2>2
  <1>3. DispatchEach(id, e, P, answers) = a4
    BY DEF DispatchEach
  <1> HIDE DEF Step, a0
  <1>4. {"DpsReport", "Wingman", "DonBot", "Twitch"} = Providers
    BY DEF Providers
  <1>5. Chain(id, a1, P \ {"DpsReport"}, R)
    BY <1>1, <1>2, <1>4
  <1> HIDE DEF a1
  <1>6. Chain(id, a2, (P \ {"DpsReport"}) \ {"Wingman"}, R)
    BY <1>2, <1>4, <1>5
  <1> HIDE DEF a2
  <1>7. Chain(id, a3, ((P \ {"DpsReport"}) \ {"Wingman"}) \ {"DonBot"}, R)
    BY <1>2, <1>4, <1>6
  <1> HIDE DEF a3
  <1>8. Chain(id, a4, (((P \ {"DpsReport"}) \ {"Wingman"}) \ {"DonBot"}) \ {"Twitch"}, R)
    BY <1>2, <1>4, <1>7
  <1> HIDE DEF a4
  <1>9. (((P \ {"DpsReport"}) \ {"Wingman"}) \ {"DonBot"}) \ {"Twitch"} = {}
    BY <1>4
  <1>10. Chain(id, a4, {}, R)
    BY <1>8, <1>9
  <1> QED
    BY <1>3, <1>10 DEF Chain

-----------------------------------------------------------------------------
(* The row table.                                                          *)

(* IndInv, of any row table js, requests R and next id n.                  *)
Rows(js, R, n) ==
  /\ DOMAIN js \subseteq Ids
  /\ js \in [DOMAIN js -> Entry]
  /\ R \subseteq Request
  /\ \A id \in DOMAIN js : id < n /\ RowInv(js[id]) /\ Matched(id, js[id], R)
  /\ \A r \in R : r.id < n /\ (r.acked => r.id \in DOMAIN js)

LEMMA IndInvIsRows ==
  IndInv <=> /\ Rows(jobs, inflight, nextId)
             /\ nextId \in 1..(MaxId + 1)
             /\ historyLimit \in 1..MaxHistoryLimit
             /\ restored \in BOOLEAN
             /\ stopping \in BOOLEAN
  BY DEF IndInv, TypeOK, Rows

(* Eviction never reaches a row with an acknowledged request.              *)
LEMMA TrimRows ==
  ASSUME NEW js, NEW R, NEW n, NEW limit, Rows(js, R, n)
  PROVE  Rows(TrimTo(js, limit), R, n)
PROOF
  <1> DEFINE t == TrimTo(js, limit)
  <1>1. /\ DOMAIN t \subseteq DOMAIN js
        /\ \A i \in DOMAIN t : t[i] = js[i]
        /\ \A i \in DOMAIN js : Busy(js[i]) => i \in DOMAIN t
        /\ t = [i \in DOMAIN t |-> t[i]]
    BY TrimKeeps
  <1> HIDE DEF t
  <1>2. t \in [DOMAIN t -> Entry]
    BY <1>1 DEF Rows
  <1>3. ASSUME NEW r \in R, r.acked
        PROVE  r.id \in DOMAIN t
    <2>1. r.id \in DOMAIN js /\ js[r.id].job.st[r.provider] = "Active" /\ r.provider \in Providers
      BY <1>3 DEF Rows, Matched, Request
    <2>2. Busy(js[r.id])
      BY <2>1 DEF Busy, BusyStates
    <2> QED
      BY <1>1, <2>1, <2>2
  <1>4. Rows(t, R, n)
    BY <1>1, <1>2, <1>3 DEF Rows
  <1> QED
    BY <1>4 DEF t

(* A row that a call has finished with is a row of the table again.        *)
LEMMA SoundIsRow ==
  ASSUME NEW id, NEW e, NEW R, Sound(id, e, {}, R)
  PROVE  e \in Entry /\ RowInv(e) /\ Matched(id, e, R)
  BY DEF Sound, RowInv, RoutedInv

(* One row changes, and with it only the requests of that row.             *)
LEMMA PutRows ==
  ASSUME NEW js, NEW R, NEW n, Rows(js, R, n), NEW id \in DOMAIN js, NEW e,
         NEW Q \in SUBSET Request, Sound(id, e, {}, Q),
         \A r \in Q : r.id = id \/ r \in R,
         \A r \in R : r.id = id \/ r \in Q
  PROVE  Rows(Put(js, id, e), Q, n)
PROOF
  <1> DEFINE t == Put(js, id, e)
  <1>1. /\ DOMAIN t = DOMAIN js
        /\ t[id] = e
        /\ \A i \in DOMAIN js \ {id} : t[i] = js[i]
        /\ t = [i \in DOMAIN js |-> t[i]]
    BY DEF Put
  <1> HIDE DEF t
  <1>2. e \in Entry /\ RowInv(e) /\ Matched(id, e, Q)
    BY SoundIsRow
  <1>3. t \in [DOMAIN t -> Entry]
    BY <1>1, <1>2 DEF Rows
  <1>4. ASSUME NEW i \in DOMAIN js \ {id}
        PROVE  Matched(i, js[i], Q)
    BY <1>4 DEF Rows, Matched
  <1>5. \A r \in Q : r.id < n /\ (r.acked => r.id \in DOMAIN js)
    BY DEF Rows
  <1>6. Rows(t, Q, n)
    BY <1>1, <1>2, <1>3, <1>4, <1>5 DEF Rows
  <1> QED
    BY <1>6 DEF t

(* What a call that prepared one row and dispatched it leaves behind.      *)
LEMMA CallKeepsRows ==
  ASSUME NEW js, NEW R, NEW n, Rows(js, R, n), NEW id \in DOMAIN js, NEW e,
         NEW P \in SUBSET Providers, NEW answers, NEW Q \in SUBSET R,
         \A r \in R \ Q : r.id = id, Sound(id, e, P, Q)
  PROVE  LET done == DispatchEach(id, e, P, answers)
         IN Rows(Put(js, id, done.entry), Q \cup done.sent, n)
PROOF
  <1> DEFINE done == DispatchEach(id, e, P, answers)
  <1>1. id \in Ids /\ Q \in SUBSET Request
    BY DEF Rows
  <1>2. /\ Sound(id, done.entry, {}, Q \cup done.sent)
        /\ done.sent \subseteq Request
        /\ \A r \in done.sent : r.id = id
    BY <1>1, DispatchEachKeeps
  <1> HIDE DEF done
  <1>3. Rows(Put(js, id, done.entry), Q \cup done.sent, n)
    BY <1>1, <1>2, PutRows
  <1> QED
    BY <1>3 DEF done

(* A call that neither starts nor ends an attempt keeps the requests.      *)
LEMMA SameActiveMatched ==
  ASSUME NEW id, NEW e, NEW f, NEW R \in SUBSET Request, Matched(id, e, R),
         f.job.att = e.job.att,
         \A p \in Providers : f.job.st[p] = "Active" <=> e.job.st[p] = "Active",
         \A p \in {"Wingman", "DonBot"} : e.job.st[p] = "Active" => f.job.report = e.job.report
  PROVE  Matched(id, f, R)
  BY DEF Matched, Request

(* The rows that calls start from.                                         *)
LEMMA RowIsSound ==
  ASSUME NEW js, NEW R, NEW n, Rows(js, R, n), NEW id \in DOMAIN js, ~js[id].pending
  PROVE  Sound(id, js[id], {}, R)
  BY DEF Rows, Sound, RowInv

LEMMA EntryParts ==
  ASSUME NEW e \in Entry
  PROVE  /\ e.job \in Job /\ e.pending \in BOOLEAN /\ e.reupload \in BOOLEAN
         /\ e.intents \in [Providers -> Intents]
         /\ e.job.st \in [Providers -> States]
         /\ e.job.att \in [Providers -> 0..AttemptLimit]
         /\ e.job.report \in 0..AttemptLimit
         /\ e.job.receipt \in [DEPENDENTS -> Receipts]
         /\ e.job.meta \in Metadata
  BY DEF Entry, Job

LEMMA SkipWingmanFields ==
  ASSUME NEW e \in Entry
  PROVE  LET s == SkipWingmanOnWvW(e)
         IN /\ s \in Entry
            /\ s.pending = e.pending /\ s.reupload = e.reupload
            /\ s.job.meta = e.job.meta /\ s.job.att = e.job.att
            /\ s.job.report = e.job.report /\ s.job.receipt = e.job.receipt
            /\ s.job.st["Wingman"] = IF e.job.meta = "WvW" /\ e.job.st["Wingman"] = "Waiting"
                                     THEN "Skipped" ELSE e.job.st["Wingman"]
            /\ \A p \in Providers \ {"Wingman"} : s.job.st[p] = e.job.st[p]
PROOF
  <1> DEFINE m == Moved(e.job, "Wingman", "Skipped")
             s == SkipWingmanOnWvW(e)
  <1>1. /\ e.job \in Job /\ e.job.st \in [Providers -> States]
        /\ e.job.att \in [Providers -> 0..AttemptLimit]
        /\ "Wingman" \in Providers /\ "Skipped" \in States /\ "Skipped" # "Active"
    BY EntryParts DEF Providers, States
  <1>2. /\ m \in Job /\ m.meta = e.job.meta /\ m.report = e.job.report
        /\ m.receipt = e.job.receipt
        /\ m.st = [e.job.st EXCEPT !["Wingman"] = "Skipped"]
        /\ m.att = [e.job.att EXCEPT !["Wingman"] = e.job.att["Wingman"]]
    BY <1>1, MovedFields
  <1>3. s = IF e.job.meta = "WvW" /\ e.job.st["Wingman"] = "Waiting"
            THEN [e EXCEPT !.job = m] ELSE e
    BY DEF SkipWingmanOnWvW
  <1> HIDE DEF m, s
  <1>4. m.att = e.job.att
    BY <1>1, <1>2
  <1>5. CASE e.job.meta = "WvW" /\ e.job.st["Wingman"] = "Waiting"
    <2>1. s = [e EXCEPT !.job = m]
      BY <1>3, <1>5
    <2>2. s \in Entry /\ s.job = m /\ s.pending = e.pending /\ s.reupload = e.reupload
      BY <1>2, <2>1 DEF Entry
    <2>3. m.st["Wingman"] = "Skipped" /\ \A p \in Providers \ {"Wingman"} : m.st[p] = e.job.st[p]
      BY <1>1, <1>2
    <2> QED
      BY <1>2, <1>4, <1>5, <2>2, <2>3 DEF s
  <1>6. CASE ~(e.job.meta = "WvW" /\ e.job.st["Wingman"] = "Waiting")
    <2>1. s = e
      BY <1>3, <1>6
    <2> QED
      BY <1>6, <2>1 DEF s
  <1> QED
    BY <1>5, <1>6

LEMMA SkipWingmanIntents ==
  ASSUME NEW e \in Entry
  PROVE  SkipWingmanOnWvW(e).intents = e.intents
PROOF
  <1> DEFINE m == Moved(e.job, "Wingman", "Skipped")
  <1>1. SkipWingmanOnWvW(e) = e \/ SkipWingmanOnWvW(e) = [e EXCEPT !.job = m]
    BY DEF SkipWingmanOnWvW
  <1> HIDE DEF m
  <1>2. [e EXCEPT !.job = m].intents = e.intents
    BY DEF Entry
  <1> QED
    BY <1>1, <1>2

-----------------------------------------------------------------------------
(* Admission and metadata.                                                 *)

LEMMA AddPendingKeeps ==
  ASSUME IndInv, NEW enabled \in SUBSET Installed, AddPending(enabled)
  PROVE  IndInv'
PROOF
  <1> DEFINE base == TrimTo(jobs, historyLimit - 1)
             new == NewEntry(NewJob(enabled), TRUE)
             t == Put(base, nextId, new)
  <1>1. Rows(jobs, inflight, nextId) /\ nextId \in Ids
    BY IndInvIsRows DEF AddPending, CanAdd
  <1>2. Rows(base, inflight, nextId)
    BY <1>1, TrimRows
  <1>3. /\ new \in Entry /\ new.pending = TRUE /\ new.reupload = FALSE
        /\ new.job.meta = "None" /\ new.job.report = 0
        /\ \A p \in Providers : /\ new.job.st[p] = IF p \in enabled THEN "Waiting" ELSE "Disabled"
                                /\ new.job.att[p] = 0
        /\ \A d \in DEPENDENTS : new.job.receipt[d] = "None"
    BY AttemptLimitAssumption
    DEF NewEntry, NewJob, Entry, Job, Intents, Metadata, Receipts, States, BusyStates,
        ScheduledStates
  <1>4. jobs' = t /\ nextId' = nextId + 1 /\ inflight' = inflight
    BY DEF AddPending, WithPending
  <1> HIDE DEF new, base
  <1>5. "Twitch" \in enabled => "DpsReport" \in enabled
    BY DEF AddPending, CanAdd, CanCreate
  <1>6. RowInv(new)
    <2>1. ReportKept(new.job) /\ ReceiptsKept(new.job)
      BY <1>3 DEF ReportKept, ReceiptsKept, Providers
    <2>2. PendingInv(new)
      BY <1>3, <1>5 DEF PendingInv, Providers
    <2> QED
      BY <1>3, <2>1, <2>2 DEF RowInv
  <1>7. nextId \in Nat /\ \A r \in inflight : r.id \in Nat /\ r.id < nextId
    BY <1>1 DEF Rows, Request, Ids
  <1>8. Matched(nextId, new, inflight)
    <2>1. \A r \in inflight : r.id # nextId
      BY <1>7
    <2>2. \A p \in Providers : new.job.st[p] # "Active"
      BY <1>3
    <2> QED
      BY <2>1, <2>2 DEF Matched
  <1>9. /\ DOMAIN t = DOMAIN base \cup {nextId}
        /\ \A i \in DOMAIN base : t[i] = IF i = nextId THEN new ELSE base[i]
        /\ t[nextId] = new
        /\ t = [i \in DOMAIN t |-> t[i]]
    BY DEF Put
  <1> HIDE DEF t
  <1>10. \A i \in DOMAIN base : i \in Nat /\ i < nextId
    BY <1>2 DEF Rows, Ids
  <1>11. t \in [DOMAIN t -> Entry]
    BY <1>2, <1>3, <1>9 DEF Rows
  <1>12. Rows(t, inflight, nextId + 1)
    <2>1. \A i \in DOMAIN t : i < nextId + 1 /\ RowInv(t[i]) /\ Matched(i, t[i], inflight)
      BY <1>2, <1>6, <1>7, <1>8, <1>9, <1>10 DEF Rows
    <2>2. \A r \in inflight : r.id < nextId + 1 /\ (r.acked => r.id \in DOMAIN t)
      BY <1>2, <1>7, <1>9 DEF Rows
    <2> QED
      BY <1>1, <1>2, <1>9, <1>11, <2>1, <2>2 DEF Rows
  <1>13. /\ nextId' \in 1..(MaxId + 1) /\ historyLimit' \in 1..MaxHistoryLimit
         /\ restored' \in BOOLEAN /\ stopping' \in BOOLEAN
    BY <1>1, <1>4, CoordinatorAssumption, IndInvIsRows DEF AddPending, Ids
  <1>14. Rows(jobs', inflight', nextId')
    BY <1>4, <1>12
  <1> QED
    BY <1>13, <1>14 DEF IndInv, TypeOK, Rows

(* The row that metadata arrives for.                                      *)
LEMMA PendingRow ==
  ASSUME NEW js, NEW R, NEW n, Rows(js, R, n), NEW id \in DOMAIN js, js[id].pending
  PROVE  /\ js[id] \in Entry /\ PendingInv(js[id]) /\ Matched(id, js[id], R)
         /\ ReportKept(js[id].job) /\ ReceiptsKept(js[id].job)
  BY DEF Rows, RowInv

(* The common end of every call that prepares one row and dispatches it.   *)
LEMMA CallKeepsInv ==
  ASSUME IndInv, NEW id \in DOMAIN jobs, NEW e, NEW P \in SUBSET Providers, NEW answers,
         NEW Q \in SUBSET inflight, \A r \in inflight \ Q : r.id = id,
         Sound(id, e, P, Q),
         LET done == DispatchEach(id, e, P, answers)
         IN /\ \/ jobs' = Put(jobs, id, done.entry)
               \/ jobs' = TrimTo(Put(jobs, id, done.entry), historyLimit)
            /\ inflight' = Q \cup done.sent,
         UNCHANGED <<nextId, historyLimit, restored, stopping>>
  PROVE  IndInv'
PROOF
  <1> DEFINE done == DispatchEach(id, e, P, answers)
             t == Put(jobs, id, done.entry)
  <1>1. Rows(jobs, inflight, nextId)
    BY IndInvIsRows
  <1>2. Rows(t, Q \cup done.sent, nextId)
    BY <1>1, CallKeepsRows
  <1>3. Rows(TrimTo(t, historyLimit), Q \cup done.sent, nextId)
    BY <1>2, TrimRows
  <1>4. (jobs' = t \/ jobs' = TrimTo(t, historyLimit)) /\ inflight' = Q \cup done.sent
    OBVIOUS
  <1> HIDE DEF t, done
  <1>5. Rows(jobs', inflight', nextId)
    BY <1>2, <1>3, <1>4
  <1>6. /\ nextId \in 1..(MaxId + 1) /\ historyLimit \in 1..MaxHistoryLimit
        /\ restored \in BOOLEAN /\ stopping \in BOOLEAN
    BY IndInvIsRows
  <1> QED
    BY <1>5, <1>6 DEF IndInv, TypeOK, Rows

LEMMA SetMetadataKeeps ==
  ASSUME IndInv, NEW id \in Ids, NEW meta \in {"PvE", "WvW"}, SetMetadata(id, meta)
  PROVE  IndInv'
PROOF
  <1> DEFINE b == [jobs[id] EXCEPT !.job.meta = meta, !.pending = FALSE]
             e == SkipWingmanOnWvW(b)
             P == IF e.job.st["DpsReport"] = "Waiting" THEN {"DpsReport"}
                  ELSE WaitingIn(e, {"Wingman", "DonBot"})
  <1>1. id \in DOMAIN jobs /\ jobs[id].pending /\ Rows(jobs, inflight, nextId)
    BY IndInvIsRows DEF SetMetadata, MetadataPending
  <1>2. /\ jobs[id] \in Entry /\ PendingInv(jobs[id]) /\ Matched(id, jobs[id], inflight)
        /\ ReportKept(jobs[id].job) /\ ReceiptsKept(jobs[id].job)
        /\ inflight \in SUBSET Request
    BY <1>1, PendingRow DEF Rows
  <1>3. /\ b \in Entry /\ b.pending = FALSE /\ b.reupload = jobs[id].reupload
        /\ b.job.meta = meta /\ b.job.st = jobs[id].job.st /\ b.job.att = jobs[id].job.att
        /\ b.job.report = jobs[id].job.report /\ b.job.receipt = jobs[id].job.receipt
    BY <1>2 DEF Entry, Job, Metadata
  <1>4. PICK answers \in [P -> EnqueueOutcomes] :
          LET done == DispatchEach(id, e, P, answers)
          IN /\ jobs' = TrimTo(Put(jobs, id, done.entry), historyLimit)
             /\ inflight' = inflight \cup done.sent
    BY DEF SetMetadata
  <1> HIDE DEF b
  <1>5. /\ e \in Entry /\ e.pending = FALSE /\ e.reupload = jobs[id].reupload
        /\ e.job.meta = meta /\ e.job.att = jobs[id].job.att
        /\ e.job.report = jobs[id].job.report /\ e.job.receipt = jobs[id].job.receipt
        /\ e.job.st["Wingman"] = IF meta = "WvW" /\ jobs[id].job.st["Wingman"] = "Waiting"
                                 THEN "Skipped" ELSE jobs[id].job.st["Wingman"]
        /\ \A p \in Providers \ {"Wingman"} : e.job.st[p] = jobs[id].job.st[p]
    BY <1>3, SkipWingmanFields
  <1> HIDE DEF e
  <1>6. \A p \in Providers : jobs[id].job.st[p] \in {"Waiting", "Disabled"}
    BY <1>2 DEF PendingInv
  <1>7. ReportKept(e.job) /\ ReceiptsKept(e.job)
    BY <1>2, <1>5, <1>6 DEF ReportKept, ReceiptsKept, Providers, DEPENDENTS
  <1>8. RoutedInv(e, P)
    BY <1>2, <1>5, <1>6
    DEF RoutedInv, PendingInv, Under, Providers, DEPENDENTS, ScheduledStates, WaitingIn
  <1>9. Matched(id, e, inflight)
    <2>1. \A p \in Providers : e.job.st[p] # "Active" /\ jobs[id].job.st[p] # "Active"
      BY <1>5, <1>6 DEF Providers
    <2>2. \A p \in {"Wingman", "DonBot"} : p \in Providers
      BY DEF Providers
    <2> QED
      BY <1>2, <1>5, <2>1, <2>2, SameActiveMatched
  <1>10. Sound(id, e, P, inflight)
    BY <1>5, <1>7, <1>8, <1>9 DEF Sound
  <1>11. P \in SUBSET Providers
    BY DEF WaitingIn, Providers
  <1>12. UNCHANGED <<nextId, historyLimit, restored, stopping>>
    BY DEF SetMetadata
  <1> HIDE DEF P
  <1> QED
    BY <1>1, <1>4, <1>10, <1>11, <1>12, CallKeepsInv

LEMMA DispatchNothing ==
  ASSUME NEW id, NEW e, NEW answers
  PROVE  DispatchEach(id, e, {}, answers) = [entry |-> e, sent |-> {}]
  BY DEF DispatchEach

(* The fields of a row whose log was not parsed.                           *)
LEMMA WithoutMetadataFields ==
  ASSUME NEW e \in Entry, NEW cancelled \in BOOLEAN
  PROVE  LET f == WithoutMetadata(e, cancelled)
         IN /\ f \in Entry /\ f.pending = FALSE /\ f.reupload = e.reupload
            /\ f.intents = e.intents
            /\ f.job.meta = e.job.meta /\ f.job.att = e.job.att
            /\ f.job.report = e.job.report /\ f.job.receipt = e.job.receipt
            /\ \A p \in Providers :
                 f.job.st[p] = IF e.job.st[p] = "Waiting"
                               THEN IF cancelled THEN "Cancelled" ELSE "Failed"
                               ELSE e.job.st[p]
  BY DEF WithoutMetadata, Entry, Job, States, BusyStates, ScheduledStates

LEMMA FailMetadataKeeps ==
  ASSUME IndInv, NEW id \in Ids, NEW cancelled \in BOOLEAN, FailMetadata(id, cancelled)
  PROVE  IndInv'
PROOF
  <1> DEFINE e == WithoutMetadata(jobs[id], cancelled)
             state == IF cancelled THEN "Cancelled" ELSE "Failed"
  <1>1. id \in DOMAIN jobs /\ jobs[id].pending /\ Rows(jobs, inflight, nextId)
    BY IndInvIsRows DEF FailMetadata, MetadataPending
  <1>2. /\ jobs[id] \in Entry /\ PendingInv(jobs[id]) /\ Matched(id, jobs[id], inflight)
        /\ ReportKept(jobs[id].job) /\ ReceiptsKept(jobs[id].job)
        /\ inflight \in SUBSET Request
    BY <1>1, PendingRow DEF Rows
  <1>3. /\ e \in Entry /\ e.pending = FALSE /\ e.reupload = jobs[id].reupload
        /\ e.job.meta = jobs[id].job.meta /\ e.job.att = jobs[id].job.att
        /\ e.job.report = jobs[id].job.report /\ e.job.receipt = jobs[id].job.receipt
        /\ \A p \in Providers : e.job.st[p] = IF jobs[id].job.st[p] = "Waiting" THEN state
                                              ELSE jobs[id].job.st[p]
    BY <1>2 DEF WithoutMetadata, Entry, Job, States, BusyStates, ScheduledStates
  <1> HIDE DEF e
  <1>4. \A p \in Providers : /\ jobs[id].job.st[p] \in {"Waiting", "Disabled"}
                             /\ e.job.st[p] \in {"Cancelled", "Failed", "Disabled"}
    BY <1>2, <1>3 DEF PendingInv
  <1>5. ReportKept(e.job) /\ ReceiptsKept(e.job)
    BY <1>2, <1>3, <1>4 DEF ReportKept, ReceiptsKept, Providers, DEPENDENTS
  <1>6. RoutedInv(e, {})
    BY <1>2, <1>3, <1>4
    DEF RoutedInv, PendingInv, Under, Providers, DEPENDENTS, ScheduledStates, BusyStates
  <1>7. Matched(id, e, inflight)
    <2>1. \A p \in Providers : e.job.st[p] # "Active" /\ jobs[id].job.st[p] # "Active"
      BY <1>4
    <2>2. \A p \in {"Wingman", "DonBot"} : p \in Providers
      BY DEF Providers
    <2> QED
      BY <1>2, <1>3, <2>1, <2>2, SameActiveMatched
  <1>8. Sound(id, e, {}, inflight)
    BY <1>3, <1>5, <1>6, <1>7 DEF Sound
  <1>9. /\ jobs' = TrimTo(Put(jobs, id, e), historyLimit)
        /\ inflight' = inflight
        /\ UNCHANGED <<nextId, historyLimit, restored, stopping>>
    BY DEF FailMetadata, e
  <1>10. LET done == DispatchEach(id, e, {}, <<>>)
         IN /\ jobs' = TrimTo(Put(jobs, id, done.entry), historyLimit)
            /\ inflight' = inflight \cup done.sent
    BY <1>9, DispatchNothing
  <1> QED
    BY <1>1, <1>8, <1>9, <1>10, CallKeepsInv

-----------------------------------------------------------------------------
(* Results.                                                                *)

(* What holds of the row and the request when a result is accepted.        *)
LEMMA AcceptedRow ==
  ASSUME IndInv, NEW r \in inflight, NEW outcome \in OutcomesOf(r.provider),
         Acceptable(r, outcome)
  PROVE  /\ r.id \in DOMAIN jobs /\ r.provider \in Providers
         /\ jobs[r.id].job.st[r.provider] = "Active"
         /\ Sound(r.id, jobs[r.id], {}, inflight)
         /\ \A s \in inflight \ {r} : s.id = r.id /\ s.acked => s.provider # r.provider
PROOF
  <1>1. /\ r.id \in DOMAIN jobs /\ jobs[r.id].job.st[r.provider] = "Active"
        /\ jobs[r.id].job.att[r.provider] = r.attempt
    BY DEF Acceptable
  <1>2. Rows(jobs, inflight, nextId)
    BY IndInvIsRows
  <1>3. r.provider \in Providers
    BY <1>2 DEF Rows, Request
  <1>4. ~jobs[r.id].pending
    BY <1>1, <1>2, <1>3 DEF Rows, RowInv, PendingInv
  <1>5. Sound(r.id, jobs[r.id], {}, inflight)
    BY <1>1, <1>2, <1>4, RowIsSound
  <1>6. ASSUME NEW s \in inflight, s.id = r.id, s.acked, s.provider = r.provider
        PROVE  s = r
    <2>1. s.attempt = jobs[r.id].job.att[s.provider]
      BY <1>5, <1>6 DEF Sound, Matched
    <2> QED
      BY <1>1, <1>5, <1>6, <2>1 DEF Sound, Matched
  <1> QED
    BY <1>1, <1>3, <1>5, <1>6

(* The record an accepted outcome leaves, before any dependent moves.      *)
LEMMA AppliedFields ==
  ASSUME NEW job \in Job, NEW p \in Providers, NEW outcome \in OutcomesOf(p) \ {"Malformed"}
  PROVE  LET a == AppliedJob(job, p, outcome)
         IN /\ a \in Job /\ a.meta = job.meta /\ a.att = job.att
            /\ a.report = IF p = "DpsReport" /\ outcome = "Succeeded"
                          THEN job.att[p] ELSE job.report
            /\ a.st = [job.st EXCEPT ![p] = NextState(outcome)]
            /\ \A d \in DEPENDENTS :
                 a.receipt[d] = IF d = p /\ StoresReceipt(p, outcome)
                                THEN IF outcome = "Succeeded" THEN "Recorded" ELSE "Dropped"
                                ELSE job.receipt[d]
            /\ NextState(outcome) \in
                 {"Succeeded", "Skipped", "RetryScheduled", "Failed", "Cancelled"}
PROOF
  <1> DEFINE receipt == IF outcome = "Succeeded" THEN "Recorded" ELSE "Dropped"
             kept == IF StoresReceipt(p, outcome) THEN RecordReceipt(job, p, receipt) ELSE job
             next == NextState(outcome)
             a == AppliedJob(job, p, outcome)
  <1>1. outcome \in AllOutcomes \ {"Malformed"}
    BY CoordinatorAssumption DEF OutcomesOf
  <1>2. next \in {"Succeeded", "Skipped", "RetryScheduled", "Failed", "Cancelled"}
    BY <1>1 DEF NextState, AllOutcomes
  <1>3. next \in States /\ next # "Active"
    BY <1>2 DEF States, BusyStates, ScheduledStates
  <1>4. CASE p = "DpsReport" /\ outcome = "Succeeded"
    <2>1. a = [job EXCEPT !.st["DpsReport"] = "Succeeded", !.report = job.att["DpsReport"]]
      BY <1>4 DEF AppliedJob, CompleteDpsReport
    <2>2. next = "Succeeded" /\ ~StoresReceipt(p, outcome)
      BY <1>4 DEF NextState, StoresReceipt
    <2>3. job.att["DpsReport"] \in 0..AttemptLimit
      BY <1>4 DEF Job
    <2> HIDE DEF a, next
    <2>4. /\ a \in Job /\ a.meta = job.meta /\ a.att = job.att
          /\ a.report = job.att["DpsReport"] /\ a.receipt = job.receipt
          /\ a.st = [job.st EXCEPT !["DpsReport"] = "Succeeded"]
      BY <1>3, <2>1, <2>2, <2>3 DEF Job
    <2>5. \A d \in DEPENDENTS : d # p
      BY <1>4 DEF DEPENDENTS
    <2> QED
      BY <1>2, <1>4, <2>2, <2>4, <2>5 DEF a, next
  <1>5. CASE ~(p = "DpsReport" /\ outcome = "Succeeded")
    <2>1. a = Moved(kept, p, next)
      BY <1>5 DEF AppliedJob
    <2>2. receipt \in Receipts
      BY DEF Receipts
    <2>3. /\ kept \in Job /\ kept.meta = job.meta /\ kept.att = job.att
          /\ kept.report = job.report /\ kept.st = job.st
          /\ \A d \in DEPENDENTS :
               kept.receipt[d] = IF d = p /\ StoresReceipt(p, outcome)
                                 THEN receipt ELSE job.receipt[d]
      BY <2>2 DEF RecordReceipt, Job
    <2> HIDE DEF kept, a, next
    <2>4. /\ a \in Job /\ a.meta = kept.meta /\ a.report = kept.report
          /\ a.receipt = kept.receipt /\ a.st = [kept.st EXCEPT ![p] = next]
          /\ a.att = [kept.att EXCEPT ![p] = kept.att[p]]
      BY <1>3, <2>1, <2>3, MovedFields
    <2>5. a.att = kept.att
      BY <2>3, <2>4 DEF Job
    <2>6. /\ a \in Job /\ a.meta = job.meta /\ a.att = job.att /\ a.report = job.report
          /\ a.st = [job.st EXCEPT ![p] = next]
          /\ \A d \in DEPENDENTS :
               a.receipt[d] = IF d = p /\ StoresReceipt(p, outcome)
                              THEN receipt ELSE job.receipt[d]
      BY <2>3, <2>4, <2>5
    <2> QED
      BY <1>2, <1>5, <2>6 DEF a, next
  <1> QED
    BY <1>4, <1>5

(* A result that does not settle dps.report, or one that succeeds it.      *)
LEMMA AppliedIsSound ==
  ASSUME NEW id, NEW e, NEW p \in Providers, NEW outcome \in OutcomesOf(p) \ {"Malformed"},
         NEW R \in SUBSET Request, NEW r \in R, r.id = id, r.provider = p,
         e.job.st[p] = "Active", Sound(id, e, {}, R),
         \A s \in R \ {r} : s.id = id /\ s.acked => s.provider # p
  PROVE  LET f == [e EXCEPT !.job = AppliedJob(@, p, outcome)]
         IN Sound(id, AfterResult(f, p, outcome), Released(f, p, outcome), R \ {r})
PROOF
  <1> DEFINE a == AppliedJob(e.job, p, outcome)
             f == [e EXCEPT !.job = AppliedJob(@, p, outcome)]
             next == NextState(outcome)
             g == AfterResult(f, p, outcome)
             P == Released(f, p, outcome)
  <1>1. /\ e \in Entry /\ ReportKept(e.job) /\ ReceiptsKept(e.job) /\ RoutedInv(e, {})
        /\ Matched(id, e, R)
    BY DEF Sound
  <1>2. /\ e.job \in Job /\ e.job.st \in [Providers -> States]
        /\ e.job.att \in [Providers -> 0..AttemptLimit]
    BY <1>1, EntryParts
  <1>3. /\ a \in Job /\ a.meta = e.job.meta /\ a.att = e.job.att
        /\ a.report = IF p = "DpsReport" /\ outcome = "Succeeded"
                      THEN e.job.att[p] ELSE e.job.report
        /\ a.st = [e.job.st EXCEPT ![p] = next]
        /\ \A d \in DEPENDENTS :
             a.receipt[d] = IF d = p /\ StoresReceipt(p, outcome)
                            THEN IF outcome = "Succeeded" THEN "Recorded" ELSE "Dropped"
                            ELSE e.job.receipt[d]
        /\ next \in {"Succeeded", "Skipped", "RetryScheduled", "Failed", "Cancelled"}
    BY <1>2, AppliedFields
  <1>4. outcome \in AllOutcomes \ {"Malformed"}
    BY CoordinatorAssumption DEF OutcomesOf
  <1>5. /\ next = "Succeeded" <=> outcome \in {"Succeeded", "SucceededBare"}
        /\ p = "DpsReport" => outcome \notin {"SucceededBare", "TwitchDropped"}
        /\ outcome = "TwitchDropped" => p = "Twitch" /\ next = "Failed"
    BY <1>4 DEF NextState, AllOutcomes, OutcomesOf, Providers
  <1> HIDE DEF a, next
  <1>6. /\ f \in Entry /\ f.job = a /\ f.pending = e.pending /\ f.reupload = e.reupload
    BY <1>1, <1>3 DEF Entry, a
  <1> HIDE DEF f
  <1>7. a.st[p] = next /\ \A q \in Providers \ {p} : a.st[q] = e.job.st[q]
    BY <1>2, <1>3
  <1>8. ReportKept(a)
    BY <1>1, <1>3, <1>5, <1>7 DEF ReportKept, Providers
  <1>9. ReceiptsKept(a)
    BY <1>1, <1>3, <1>4, <1>5, <1>7
    DEF ReceiptsKept, StoresReceipt, Providers, DEPENDENTS
  <1>10. ASSUME NEW h \in Entry, h.job.att = e.job.att,
                \A q \in Providers : h.job.st[q] = "Active" <=> q # p /\ e.job.st[q] = "Active",
                h.job.report = a.report
         PROVE  Matched(id, h, R \ {r})
    <2>1. \A q \in Providers : q # p /\ e.job.st[q] = "Active" =>
            \E s \in R \ {r} : /\ s.acked /\ s.id = id /\ s.provider = q
                               /\ s.attempt = e.job.att[q]
      BY <1>1 DEF Matched
    <2>2. \A s \in R \ {r} : s.id = id /\ s.acked /\ s.provider \in {"Wingman", "DonBot"} =>
            p # "DpsReport"
      BY <1>1 DEF Matched, RoutedInv, Under
    <2> QED
      BY <1>1, <1>3, <1>10, <2>1, <2>2 DEF Matched, Request
  <1>11. CASE p = "DpsReport" /\ next \in {"Failed", "Skipped", "Cancelled"}
    <2> DEFINE state == IF outcome = "Cancelled" THEN "Cancelled" ELSE "Skipped"
    <2>1. g = SettleDependents(f, state) /\ P = {}
      BY <1>5, <1>11 DEF AfterResult, Released, next
    <2>2. /\ g \in Entry /\ g.pending = f.pending /\ g.reupload = f.reupload
          /\ g.job.meta = a.meta /\ g.job.att = a.att
          /\ g.job.report = a.report /\ g.job.receipt = a.receipt
          /\ \A q \in Providers :
               g.job.st[q] = IF q \in DEPENDENTS /\ Settles(f, q) /\ a.st[q] = "Waiting"
                             THEN state ELSE a.st[q]
      <3>1. state \in {"Skipped", "Cancelled"}
        OBVIOUS
      <3> HIDE DEF state, g, P
      <3>2. /\ g \in Entry /\ g.pending = f.pending /\ g.reupload = f.reupload
            /\ g.job.meta = f.job.meta /\ g.job.att = f.job.att
            /\ g.job.report = f.job.report /\ g.job.receipt = f.job.receipt
            /\ g.job.st = [q \in Providers |->
                             IF q \in DEPENDENTS /\ Settles(f, q) /\ f.job.st[q] = "Waiting"
                             THEN state ELSE f.job.st[q]]
        BY <1>6, <2>1, <3>1, SettleFields
      <3>3. \A q \in Providers :
              g.job.st[q] = IF q \in DEPENDENTS /\ Settles(f, q) /\ f.job.st[q] = "Waiting"
                            THEN state ELSE f.job.st[q]
        BY <3>2
      <3> QED
        BY <1>6, <3>2, <3>3
    <2> HIDE DEF g, P
    <2>3. \A q \in Providers :
            g.job.st[q] = IF q \in DEPENDENTS /\ Settles(e, q) /\ a.st[q] = "Waiting"
                          THEN state ELSE a.st[q]
      BY <1>6, <2>2 DEF Settles
    <2>4. ReportKept(g.job) /\ ReceiptsKept(g.job)
      BY <1>8, <1>9, <2>2, <2>3 DEF ReportKept, ReceiptsKept, Providers, DEPENDENTS
    <2>5. RoutedInv(g, {})
      BY <1>1, <1>3, <1>6, <1>7, <1>11, <2>2, <2>3
      DEF RoutedInv, Under, Settles, Providers, DEPENDENTS, ScheduledStates, BusyStates
    <2>6. \A q \in Providers : g.job.st[q] = "Active" <=> q # p /\ e.job.st[q] = "Active"
      BY <1>3, <1>7, <2>3
    <2>7. Matched(id, g, R \ {r})
      BY <1>3, <1>10, <2>2, <2>6
    <2>8. Sound(id, g, P, R \ {r})
      BY <2>1, <2>2, <2>4, <2>5, <2>7 DEF Sound
    <2> QED
      BY <2>8 DEF g, P, f
  <1>12. CASE ~(p = "DpsReport" /\ next \in {"Failed", "Skipped", "Cancelled"})
    <2>1. g = f
      BY <1>12 DEF AfterResult, next
    <2>2. P = IF p = "DpsReport" /\ next = "Succeeded"
              THEN {d \in DEPENDENTS : a.st[d] = "Waiting" /\ Settles(e, d)} ELSE {}
      BY <1>5, <1>6 DEF Released, WaitingIn, Settles
    <2> HIDE DEF g, P
    <2>3. RoutedInv(f, P)
      <3>1. CASE p = "DpsReport" /\ next = "Succeeded"
        BY <1>1, <1>3, <1>6, <1>7, <2>2, <3>1
        DEF RoutedInv, Under, Settles, Providers, DEPENDENTS, ScheduledStates, BusyStates
      <3>2. CASE p = "DpsReport" /\ next = "RetryScheduled"
        BY <1>1, <1>3, <1>6, <1>7, <2>2, <3>2
        DEF RoutedInv, Under, Settles, Providers, DEPENDENTS, ScheduledStates, BusyStates
      <3>3. CASE p # "DpsReport"
        <4>1. P = {} /\ a.st["DpsReport"] = e.job.st["DpsReport"]
          BY <1>7, <2>2, <3>3 DEF Providers
        <4>2. a.meta # "None"
          BY <1>1, <1>3 DEF RoutedInv, BusyStates
        <4>3. \A d \in Providers : a.st[d] = "Waiting" => e.job.st[d] = "Waiting"
          BY <1>3, <1>7
        <4>4. \A d \in Providers : a.st[d] \in Under => e.job.st[d] \in Under
          BY <1>7 DEF Under
        <4> QED
          BY <1>1, <1>6, <4>1, <4>2, <4>3, <4>4 DEF RoutedInv, Providers, DEPENDENTS
      <3> QED
        BY <1>3, <1>12, <3>1, <3>2, <3>3
    <2>4. \A q \in Providers : f.job.st[q] = "Active" <=> q # p /\ e.job.st[q] = "Active"
      BY <1>3, <1>6, <1>7
    <2>5. Matched(id, f, R \ {r})
      BY <1>3, <1>6, <1>10, <2>4
    <2>6. Sound(id, f, P, R \ {r})
      BY <1>6, <1>8, <1>9, <2>3, <2>5 DEF Sound
    <2>7. Sound(id, g, P, R \ {r})
      BY <2>1, <2>6
    <2> QED
      BY <2>7 DEF g, P, f
  <1> QED
    BY <1>11, <1>12

LEMMA AcceptResultKeeps ==
  ASSUME IndInv, NEW r \in inflight, NEW outcome \in OutcomesOf(r.provider),
         AcceptResult(r, outcome)
  PROVE  IndInv'
PROOF
  <1> DEFINE f == [jobs[r.id] EXCEPT !.job = AppliedJob(@, r.provider, outcome)]
             e == AfterResult(f, r.provider, outcome)
             P == Released(f, r.provider, outcome)
  <1>1. Acceptable(r, outcome) /\ outcome # "Malformed"
    BY DEF AcceptResult, Acceptable
  <1>2. /\ r.id \in DOMAIN jobs /\ r.provider \in Providers
        /\ jobs[r.id].job.st[r.provider] = "Active"
        /\ Sound(r.id, jobs[r.id], {}, inflight)
        /\ \A s \in inflight \ {r} : s.id = r.id /\ s.acked => s.provider # r.provider
    BY <1>1, AcceptedRow
  <1>3. inflight \in SUBSET Request
    BY IndInvIsRows DEF Rows
  <1>4. Sound(r.id, e, P, inflight \ {r})
    BY <1>1, <1>2, <1>3, AppliedIsSound
  <1>5. PICK answers \in [P -> EnqueueOutcomes] :
          LET done == DispatchEach(r.id, e, P, answers)
          IN /\ jobs' = TrimTo(Put(jobs, r.id, done.entry), historyLimit)
             /\ inflight' = (inflight \ {r}) \cup done.sent
    BY DEF AcceptResult
  <1>6. P \in SUBSET Providers
    BY DEF Released, WaitingIn, DEPENDENTS, Providers
  <1>7. UNCHANGED <<nextId, historyLimit, restored, stopping>>
    BY DEF AcceptResult
  <1>8. \A s \in inflight \ (inflight \ {r}) : s.id = r.id
    OBVIOUS
  <1> HIDE DEF e, P, f
  <1> QED
    BY <1>2, <1>4, <1>5, <1>6, <1>7, <1>8, CallKeepsInv

(* Only a request that was never acknowledged can be answered in vain.     *)
LEMMA RejectResultKeeps ==
  ASSUME "Malformed" \notin Outcomes, IndInv, NEW r \in inflight,
         NEW outcome \in OutcomesOf(r.provider), RejectResult(r, outcome)
  PROVE  IndInv'
PROOF
  <1>1. Rows(jobs, inflight, nextId)
    BY IndInvIsRows
  <1>2. ~r.acked
    <2> SUFFICES ASSUME r.acked
                 PROVE  FALSE
      OBVIOUS
    <2>1. outcome # "Malformed"
      BY DEF OutcomesOf
    <2>2. /\ r.id \in DOMAIN jobs /\ r.provider \in Providers
          /\ jobs[r.id].job.st[r.provider] = "Active"
          /\ jobs[r.id].job.att[r.provider] = r.attempt
          /\ jobs[r.id] \in Entry /\ ReceiptsKept(jobs[r.id].job)
      BY <1>1 DEF Rows, Matched, RowInv, Request
    <2>3. StoresReceipt(r.provider, outcome) => r.provider \in DEPENDENTS
      BY <2>2 DEF StoresReceipt, Providers, DEPENDENTS
    <2>4. ASSUME r.provider \in DEPENDENTS
          PROVE  jobs[r.id].job.receipt[r.provider] = "None"
      <3>1. jobs[r.id].job.receipt[r.provider] \in Receipts
        BY <2>2, <2>4, EntryParts
      <3> QED
        BY <2>2, <2>4, <3>1 DEF ReceiptsKept, Receipts
    <2>5. Acceptable(r, outcome)
      BY <2>1, <2>2, <2>3, <2>4 DEF Acceptable, CanRecord
    <2> QED
      BY <2>5 DEF RejectResult
  <1>3. \A id \in DOMAIN jobs : Matched(id, jobs[id], inflight \ {r})
    BY <1>1, <1>2 DEF Rows, Matched
  <1>4. Rows(jobs, inflight \ {r}, nextId)
    BY <1>1, <1>3 DEF Rows
  <1>5. /\ inflight' = inflight \ {r}
        /\ UNCHANGED <<jobs, nextId, historyLimit, restored, stopping>>
    BY DEF RejectResult
  <1>6. /\ nextId \in 1..(MaxId + 1) /\ historyLimit \in 1..MaxHistoryLimit
        /\ restored \in BOOLEAN /\ stopping \in BOOLEAN
    BY IndInvIsRows
  <1>7. Rows(jobs', inflight', nextId')
    BY <1>4, <1>5
  <1> QED
    BY <1>5, <1>6, <1>7 DEF IndInv, TypeOK, Rows

-----------------------------------------------------------------------------
(* User actions.                                                           *)

(* What explicit delivery and manual retry do to a record.                 *)
LEMMA ExplicitFields ==
  ASSUME NEW job \in Job, NEW p \in Providers
  PROVE  LET x == PrepareExplicitDelivery(job, p)
         IN /\ x \in Job /\ x.meta = job.meta /\ x.att = job.att
            /\ x.report = IF p = "DpsReport" THEN 0 ELSE job.report
            /\ x.st = [job.st EXCEPT ![p] = "Waiting"]
            /\ \A d \in DEPENDENTS : x.receipt[d] = IF d = p THEN "None" ELSE job.receipt[d]
PROOF
  <1> DEFINE x == PrepareExplicitDelivery(job, p)
             receipt == [d \in DEPENDENTS |-> IF d = p THEN "None" ELSE job.receipt[d]]
             report == IF p = "DpsReport" THEN 0 ELSE job.report
             st == [job.st EXCEPT ![p] = "Waiting"]
  <1>1. x = [job EXCEPT !.st = st, !.report = report, !.receipt = receipt]
    BY DEF PrepareExplicitDelivery
  <1>2. receipt \in [DEPENDENTS -> Receipts]
    BY DEF Job, Receipts
  <1>3. report \in 0..AttemptLimit
    BY AttemptLimitAssumption DEF Job
  <1>4. st \in [Providers -> States]
    BY DEF Job, States, BusyStates
  <1>5. \A d \in DEPENDENTS : receipt[d] = IF d = p THEN "None" ELSE job.receipt[d]
    OBVIOUS
  <1> HIDE DEF x, receipt, report, st
  <1>6. x \in Job /\ x.meta = job.meta /\ x.att = job.att
        /\ x.report = report /\ x.st = st /\ x.receipt = receipt
    BY <1>1, <1>2, <1>3, <1>4 DEF Job
  <1> QED
    BY <1>5, <1>6 DEF x, report, st

LEMMA ExplicitUploadFields ==
  ASSUME NEW job \in Job, NEW p \in {"Wingman", "DonBot"}
  PROVE  LET x == PrepareExplicitDelivery(job, p)
         IN /\ x \in Job /\ x.meta = job.meta /\ x.att = job.att /\ x.report = job.report
            /\ x.st = [job.st EXCEPT ![p] = "Waiting"]
            /\ \A d \in DEPENDENTS : x.receipt[d] = IF d = p THEN "None" ELSE job.receipt[d]
  <1>1. p \in Providers /\ p # "DpsReport"
    BY DEF Providers
  <1> QED
    BY <1>1, ExplicitFields

LEMMA ManualFields ==
  ASSUME NEW job \in Job, NEW p \in Providers
  PROVE  LET x == PrepareManualRetry(job, p)
         IN /\ x \in Job /\ x.meta = job.meta /\ x.att = job.att /\ x.report = job.report
            /\ x.st[p] = "Waiting"
            /\ \A q \in Providers \ {p} :
                 x.st[q] = IF p = "DpsReport" /\ job.report = 0 /\ job.st[q] = "Skipped"
                           THEN "Waiting" ELSE job.st[q]
            /\ \A d \in DEPENDENTS :
                 x.receipt[d] = IF p = "Twitch" /\ d = "Twitch" THEN "None" ELSE job.receipt[d]
PROOF
  <1> DEFINE w == Moved(job, p, "Waiting")
             rearmed == {d \in DEPENDENTS : /\ p = "DpsReport"
                                            /\ job.report = 0
                                            /\ job.st[d] = "Skipped"}
             x == PrepareManualRetry(job, p)
  <1>1. "Waiting" \in States /\ "Waiting" # "Active" /\ "None" \in Receipts /\ "Twitch" \in DEPENDENTS
    BY DEF States, BusyStates, Receipts, DEPENDENTS
  <1>2. /\ w \in Job /\ w.meta = job.meta /\ w.report = job.report
        /\ w.receipt = job.receipt /\ w.st = [job.st EXCEPT ![p] = "Waiting"]
        /\ w.att = [job.att EXCEPT ![p] = job.att[p]]
    BY <1>1, MovedFields
  <1>3. x = [w EXCEPT !.st = [d \in Providers |-> IF d \in rearmed THEN "Waiting" ELSE w.st[d]],
                      !.receipt["Twitch"] = IF p = "Twitch" THEN "None" ELSE w.receipt["Twitch"]]
    BY DEF PrepareManualRetry
  <1> HIDE DEF w, x
  <1>4. w.att = job.att
    BY <1>2 DEF Job
  <1>5. /\ x \in Job /\ x.meta = w.meta /\ x.att = w.att /\ x.report = w.report
        /\ \A q \in Providers : x.st[q] = IF q \in rearmed THEN "Waiting" ELSE w.st[q]
        /\ \A d \in DEPENDENTS :
             x.receipt[d] = IF p = "Twitch" /\ d = "Twitch" THEN "None" ELSE w.receipt[d]
    BY <1>1, <1>2, <1>3 DEF Job
  <1>6. /\ w.st[p] = "Waiting"
        /\ \A q \in Providers \ {p} : w.st[q] = job.st[q]
    BY <1>2 DEF Job
  <1>7. \A q \in Providers \ {p} :
          q \in rearmed <=> p = "DpsReport" /\ job.report = 0 /\ job.st[q] = "Skipped"
    BY DEF Providers, DEPENDENTS
  <1> HIDE DEF rearmed
  <1> QED
    BY <1>2, <1>4, <1>5, <1>6, <1>7 DEF x

(* The common end of the user actions.                                     *)
LEMMA DispatchNowKeeps ==
  ASSUME IndInv, NEW id \in DOMAIN jobs, NEW e, NEW p \in Providers,
         Sound(id, e, {p}, inflight), DispatchNow(id, e, p)
  PROVE  IndInv'
PROOF
  <1>1. PICK answer \in EnqueueOutcomes :
          LET done == DispatchEach(id, e, {p}, [x \in {p} |-> answer])
          IN /\ jobs' = Put(jobs, id, done.entry)
             /\ inflight' = inflight \cup done.sent
    BY DEF DispatchNow
  <1>2. UNCHANGED <<nextId, historyLimit, restored, stopping>>
    BY DEF DispatchNow
  <1>3. {p} \in SUBSET Providers /\ inflight \in SUBSET inflight
    OBVIOUS
  <1>4. \A r \in inflight \ inflight : r.id = id
    OBVIOUS
  <1> QED
    BY <1>1, <1>2, <1>3, <1>4, CallKeepsInv

LEMMA KnownRow ==
  ASSUME IndInv, NEW id \in DOMAIN jobs, jobs[id].job.meta # "None"
  PROVE  /\ Sound(id, jobs[id], {}, inflight)
         /\ inflight \in SUBSET Request
  <1>1. Rows(jobs, inflight, nextId)
    BY IndInvIsRows
  <1>2. ~jobs[id].pending
    BY <1>1 DEF Rows, RowInv, PendingInv
  <1> QED
    BY <1>1, <1>2, RowIsSound DEF Rows

LEMMA RechatKeeps ==
  ASSUME IndInv, NEW id \in Ids, Rechat(id)
  PROVE  IndInv'
PROOF
  <1> DEFINE b == jobs[id]
             x == PrepareExplicitDelivery(b.job, "Twitch")
             e == [b EXCEPT !.job = PrepareExplicitDelivery(@, "Twitch"),
                            !.intents["Twitch"] = "Rechat"]
  <1>1. /\ id \in DOMAIN jobs /\ b.job.meta # "None"
        /\ b.job.st["Twitch"] \notin BusyStates /\ DependencyMet(b.job, "Twitch")
        /\ DispatchNow(id, e, "Twitch")
    BY DEF Rechat, CanDeliverExplicitly
  <1>2. Sound(id, b, {}, inflight) /\ inflight \in SUBSET Request
    BY <1>1, KnownRow
  <1>3. "Twitch" \in Providers /\ b \in Entry /\ b.job \in Job
    BY <1>2, EntryParts DEF Sound, Providers
  <1>4. /\ x \in Job /\ x.meta = b.job.meta /\ x.att = b.job.att
        /\ x.report = b.job.report
        /\ x.st = [b.job.st EXCEPT !["Twitch"] = "Waiting"]
        /\ \A d \in DEPENDENTS : x.receipt[d] = IF d = "Twitch" THEN "None" ELSE b.job.receipt[d]
    BY <1>3, ExplicitFields
  <1> HIDE DEF x
  <1>5. e \in Entry /\ e.job = x /\ e.pending = b.pending /\ e.reupload = b.reupload
    BY <1>3, <1>4 DEF Entry, Intents, x
  <1> HIDE DEF e, b
  <1>6. x.st["Twitch"] = "Waiting" /\ \A q \in Providers \ {"Twitch"} : x.st[q] = b.job.st[q]
    BY <1>3, <1>4 DEF Job
  <1>7. ReportKept(x)
    BY <1>2, <1>4, <1>6 DEF Sound, ReportKept, Providers
  <1>8. ReceiptsKept(x)
    BY <1>2, <1>4, <1>6 DEF Sound, ReceiptsKept, Providers, DEPENDENTS
  <1>9. RoutedInv(e, {"Twitch"})
    BY <1>1, <1>2, <1>4, <1>5, <1>6
    DEF Sound, RoutedInv, Providers, DEPENDENTS
  <1>10. Matched(id, e, inflight)
    <2>1. \A q \in Providers : x.st[q] = "Active" <=> b.job.st[q] = "Active"
      BY <1>1, <1>6 DEF BusyStates
    <2>2. /\ e.job.att = b.job.att /\ e.job.report = b.job.report
          /\ \A q \in Providers : e.job.st[q] = "Active" <=> b.job.st[q] = "Active"
      BY <1>4, <1>5, <2>1
    <2>3. Matched(id, b, inflight)
      BY <1>2 DEF Sound
    <2> QED
      BY <1>2, <2>2, <2>3, SameActiveMatched
  <1>11. Sound(id, e, {"Twitch"}, inflight)
    BY <1>5, <1>7, <1>8, <1>9, <1>10 DEF Sound
  <1> QED
    BY <1>1, <1>3, <1>11, DispatchNowKeeps

(* The record a failed-provider retry starts from.                         *)
LEMMA RetryFields ==
  ASSUME NEW b \in Entry, NEW p \in Providers
  PROVE  LET x == RetryJob(b, p)
         IN /\ x \in Job /\ x.meta = b.job.meta /\ x.att = b.job.att
            /\ x.report = b.job.report
            /\ x.st[p] = "Waiting"
            /\ \A q \in Providers \ {p} :
                 \/ x.st[q] = b.job.st[q]
                 \/ /\ p = "DpsReport" /\ q = "Twitch" => ~b.reupload
                    /\ p = "DpsReport" /\ b.job.st[q] = "Skipped" /\ x.st[q] = "Waiting"
            /\ \A d \in DEPENDENTS :
                 \/ x.receipt[d] = b.job.receipt[d] /\ ~(p = "Twitch" /\ d = p)
                 \/ x.receipt[d] = "None" /\ x.st[d] = "Waiting"
PROOF
  <1> DEFINE x == RetryJob(b, p)
             w == Moved(b.job, p, "Waiting")
             Rearm(job, d) == IF job.st[d] = "Skipped" THEN PrepareExplicitDelivery(job, d) ELSE job
             y == Rearm(w, "Wingman")
             z == Rearm(y, "DonBot")
  <1>1. /\ b.job \in Job /\ "Waiting" \in States /\ "Waiting" # "Active"
        /\ "Wingman" \in Providers /\ "DonBot" \in Providers
        /\ "Wingman" # "DpsReport" /\ "DonBot" # "DpsReport"
    BY EntryParts DEF States, BusyStates, Providers
  <1>2. CASE p = "DpsReport" /\ b.reupload
    <2>1. x = z
      BY <1>2 DEF RetryJob
    <2>2. /\ w \in Job /\ w.meta = b.job.meta /\ w.report = b.job.report
          /\ w.receipt = b.job.receipt /\ w.st = [b.job.st EXCEPT ![p] = "Waiting"]
          /\ w.att = [b.job.att EXCEPT ![p] = b.job.att[p]]
      BY <1>1, MovedFields
    <2>3. ASSUME NEW job \in Job, NEW d \in {"Wingman", "DonBot"}
          PROVE  /\ Rearm(job, d) \in Job /\ Rearm(job, d).meta = job.meta
                 /\ Rearm(job, d).att = job.att /\ Rearm(job, d).report = job.report
                 /\ \A q \in Providers \ {d} : Rearm(job, d).st[q] = job.st[q]
                 /\ \/ Rearm(job, d).st[d] = job.st[d]
                    \/ job.st[d] = "Skipped" /\ Rearm(job, d).st[d] = "Waiting"
                 /\ \A c \in DEPENDENTS :
                      \/ Rearm(job, d).receipt[c] = job.receipt[c]
                      \/ c = d /\ Rearm(job, d).receipt[c] = "None" /\ Rearm(job, d).st[c] = "Waiting"
      <3> DEFINE u == PrepareExplicitDelivery(job, d)
      <3>1. d \in Providers /\ d # "DpsReport"
        BY <1>1
      <3>2. /\ u \in Job /\ u.meta = job.meta /\ u.att = job.att
            /\ u.report = job.report
            /\ u.st = [job.st EXCEPT ![d] = "Waiting"]
            /\ \A c \in DEPENDENTS : u.receipt[c] = IF c = d THEN "None" ELSE job.receipt[c]
        BY <3>1, ExplicitFields
      <3> HIDE DEF u
      <3>3. u.st[d] = "Waiting" /\ \A q \in Providers \ {d} : u.st[q] = job.st[q]
        BY <3>1, <3>2 DEF Job
      <3>4. Rearm(job, d) = IF job.st[d] = "Skipped" THEN u ELSE job
        BY DEF u
      <3> HIDE DEF Rearm
      <3> QED
        BY <3>2, <3>3, <3>4
    <2> HIDE DEF w, x, y, z, Rearm
    <2>4. /\ y \in Job /\ y.meta = w.meta /\ y.att = w.att /\ y.report = w.report
          /\ \A q \in Providers \ {"Wingman"} : y.st[q] = w.st[q]
          /\ \/ y.st["Wingman"] = w.st["Wingman"]
             \/ w.st["Wingman"] = "Skipped" /\ y.st["Wingman"] = "Waiting"
          /\ \A c \in DEPENDENTS :
               \/ y.receipt[c] = w.receipt[c]
               \/ c = "Wingman" /\ y.receipt[c] = "None" /\ y.st[c] = "Waiting"
      BY <2>2, <2>3 DEF y
    <2>5. /\ z \in Job /\ z.meta = y.meta /\ z.att = y.att /\ z.report = y.report
          /\ \A q \in Providers \ {"DonBot"} : z.st[q] = y.st[q]
          /\ \/ z.st["DonBot"] = y.st["DonBot"]
             \/ y.st["DonBot"] = "Skipped" /\ z.st["DonBot"] = "Waiting"
          /\ \A c \in DEPENDENTS :
               \/ z.receipt[c] = y.receipt[c]
               \/ c = "DonBot" /\ z.receipt[c] = "None" /\ z.st[c] = "Waiting"
      BY <2>3, <2>4 DEF z
    <2>6. /\ w.att = b.job.att /\ w.st[p] = "Waiting"
          /\ \A q \in Providers \ {p} : w.st[q] = b.job.st[q]
      BY <1>1, <2>2 DEF Job
    <2>7. \A c \in DEPENDENTS : w.receipt[c] = b.job.receipt[c]
      BY <2>2
    <2>8. \A q \in Providers \ {p} :
            \/ z.st[q] = b.job.st[q]
            \/ q # "Twitch" /\ b.job.st[q] = "Skipped" /\ z.st[q] = "Waiting"
      BY <1>2, <2>4, <2>5, <2>6 DEF Providers
    <2>9. \A d \in DEPENDENTS :
            z.receipt[d] = b.job.receipt[d] \/ (z.receipt[d] = "None" /\ z.st[d] = "Waiting")
      BY <2>4, <2>5, <2>7 DEF DEPENDENTS, Providers
    <2>10. z.st[p] = "Waiting"
      BY <1>1, <1>2, <2>4, <2>5, <2>6
    <2>11. z \in Job /\ z.meta = b.job.meta /\ z.att = b.job.att /\ z.report = b.job.report
      BY <2>2, <2>4, <2>5, <2>6
    <2> QED
      BY <1>2, <2>1, <2>8, <2>9, <2>10, <2>11 DEF x
  <1>3. CASE ~(p = "DpsReport" /\ b.reupload)
    <2> DEFINE m == PrepareManualRetry(b.job, p)
    <2>1. x = m
      BY <1>3 DEF RetryJob
    <2>2. /\ m \in Job /\ m.meta = b.job.meta /\ m.att = b.job.att /\ m.report = b.job.report
          /\ m.st[p] = "Waiting"
          /\ \A q \in Providers \ {p} :
               m.st[q] = IF p = "DpsReport" /\ b.job.report = 0 /\ b.job.st[q] = "Skipped"
                         THEN "Waiting" ELSE b.job.st[q]
          /\ \A d \in DEPENDENTS :
               m.receipt[d] = IF p = "Twitch" /\ d = "Twitch" THEN "None" ELSE b.job.receipt[d]
      BY <1>1, ManualFields
    <2> HIDE DEF x, m
    <2>3. \A q \in Providers \ {p} :
            \/ m.st[q] = b.job.st[q]
            \/ /\ p = "DpsReport" /\ q = "Twitch" => ~b.reupload
               /\ p = "DpsReport" /\ b.job.st[q] = "Skipped" /\ m.st[q] = "Waiting"
      BY <1>3, <2>2
    <2>4. \A d \in DEPENDENTS :
            \/ m.receipt[d] = b.job.receipt[d] /\ ~(p = "Twitch" /\ d = p)
            \/ m.receipt[d] = "None" /\ m.st[d] = "Waiting"
      BY <2>2
    <2> QED
      BY <2>1, <2>2, <2>3, <2>4 DEF x
  <1> QED
    BY <1>2, <1>3

LEMMA RetryFailedKeeps ==
  ASSUME IndInv, NEW id \in Ids, NEW p \in Providers, RetryFailed(id, p)
  PROVE  IndInv'
PROOF
  <1> DEFINE b == jobs[id]
             x == RetryJob(b, p)
             e == [b EXCEPT !.job = RetryJob(b, p), !.intents[p] = RetryIntent(@)]
  <1>1. /\ id \in DOMAIN jobs /\ b.job.meta # "None" /\ b.job.st[p] = "Failed"
        /\ DependencyMet(b.job, p) /\ DispatchNow(id, e, p)
    BY DEF RetryFailed, CanRetryManually
  <1>2. Sound(id, b, {}, inflight) /\ inflight \in SUBSET Request
    BY <1>1, KnownRow
  <1>3. b \in Entry /\ b.intents[p] \in Intents /\ b.job.st \in [Providers -> States]
    BY <1>2, EntryParts DEF Sound
  <1>4. /\ x \in Job /\ x.meta = b.job.meta /\ x.att = b.job.att
        /\ x.report = b.job.report
        /\ x.st[p] = "Waiting"
        /\ \A q \in Providers \ {p} :
             \/ x.st[q] = b.job.st[q]
             \/ /\ p = "DpsReport" /\ q = "Twitch" => ~b.reupload
                /\ p = "DpsReport" /\ b.job.st[q] = "Skipped" /\ x.st[q] = "Waiting"
        /\ \A d \in DEPENDENTS :
             \/ x.receipt[d] = b.job.receipt[d] /\ ~(p = "Twitch" /\ d = p)
             \/ x.receipt[d] = "None" /\ x.st[d] = "Waiting"
    BY <1>3, RetryFields
  <1> HIDE DEF x
  <1>5. e \in Entry /\ e.job = x /\ e.pending = b.pending /\ e.reupload = b.reupload
    BY <1>3, <1>4 DEF Entry, Intents, RetryIntent, x
  <1> HIDE DEF e, b
  <1>6. ReportKept(x)
    BY <1>1, <1>2, <1>4 DEF Sound, ReportKept, Providers
  <1>7. ReceiptsKept(x)
    <2> SUFFICES ASSUME NEW d \in DEPENDENTS, x.receipt[d] = b.job.receipt[d],
                        ~(p = "Twitch" /\ d = p)
                 PROVE  /\ x.receipt[d] = "Recorded" => x.st[d] = "Succeeded"
                        /\ x.receipt[d] = "Dropped" => d = "Twitch" /\ x.st[d] = "Failed"
      BY <1>4 DEF ReceiptsKept
    <2>1. d \in Providers
      BY DEF DEPENDENTS, Providers
    <2>2. /\ x.receipt[d] = "Recorded" => b.job.st[d] = "Succeeded"
          /\ x.receipt[d] = "Dropped" => d = "Twitch" /\ b.job.st[d] = "Failed"
      BY <1>2 DEF Sound, ReceiptsKept
    <2>3. CASE d # p
      BY <1>4, <2>1, <2>2, <2>3
    <2>4. CASE d = p /\ p # "Twitch"
      BY <1>1, <2>2, <2>4
    <2> QED
      BY <2>3, <2>4
  <1>8. RoutedInv(e, {p})
    BY <1>1, <1>2, <1>4, <1>5
    DEF Sound, RoutedInv, Under, DependencyMet, HasReport, Providers, DEPENDENTS,
        ScheduledStates, BusyStates
  <1>9. Matched(id, e, inflight)
    <2>1. /\ e.job.att = b.job.att /\ e.job.report = b.job.report
          /\ \A q \in Providers : e.job.st[q] = "Active" <=> b.job.st[q] = "Active"
      BY <1>1, <1>4, <1>5
    <2>2. Matched(id, b, inflight)
      BY <1>2 DEF Sound
    <2> QED
      BY <1>2, <2>1, <2>2, SameActiveMatched
  <1>10. Sound(id, e, {p}, inflight)
    BY <1>5, <1>6, <1>7, <1>8, <1>9 DEF Sound
  <1> QED
    BY <1>1, <1>10, DispatchNowKeeps

(* The row a reupload starts from.                                         *)
LEMMA ReuploadFields ==
  ASSUME NEW b \in Entry
  PROVE  LET e == ReuploadEntry(b)
         IN /\ e \in Entry /\ e.pending = b.pending /\ e.reupload = TRUE
            /\ e.job.meta = b.job.meta /\ e.job.att = b.job.att /\ e.job.report = 0
            /\ e.job.receipt["Wingman"] = "None" /\ e.job.receipt["DonBot"] = "None"
            /\ e.job.receipt["Twitch"] = b.job.receipt["Twitch"]
            /\ e.job.st["Wingman"] \in {"Waiting", "Skipped"}
            /\ e.job.st["DpsReport"] = "Waiting" /\ e.job.st["DonBot"] = "Waiting"
            /\ e.job.st["Twitch"] = b.job.st["Twitch"]
            /\ \A p \in Providers : e.intents[p] = IF p \in UPLOADS THEN "Reupload" ELSE b.intents[p]
PROOF
  <1> DEFINE x == PrepareExplicitDelivery(b.job, "DpsReport")
             y == PrepareExplicitDelivery(x, "Wingman")
             z == PrepareExplicitDelivery(y, "DonBot")
             i == [p \in Providers |-> IF p \in UPLOADS THEN "Reupload" ELSE b.intents[p]]
             w == [b EXCEPT !.job = z, !.reupload = TRUE, !.intents = i]
             e == SkipWingmanOnWvW(w)
  <1>1. /\ b.job \in Job /\ b.intents \in [Providers -> Intents]
        /\ "DpsReport" \in Providers /\ "Wingman" \in Providers /\ "DonBot" \in Providers
    BY EntryParts DEF Providers
  <1>2. ReuploadEntry(b) = e
    BY DEF ReuploadEntry
  <1>3. /\ x \in Job /\ x.meta = b.job.meta /\ x.att = b.job.att /\ x.report = 0
        /\ x.st = [b.job.st EXCEPT !["DpsReport"] = "Waiting"]
        /\ \A d \in DEPENDENTS : x.receipt[d] = IF d = "DpsReport" THEN "None" ELSE b.job.receipt[d]
    BY <1>1, ExplicitFields
  <1> HIDE DEF x
  <1>4. /\ y \in Job /\ y.meta = x.meta /\ y.att = x.att /\ y.report = x.report
        /\ y.st = [x.st EXCEPT !["Wingman"] = "Waiting"]
        /\ \A d \in DEPENDENTS : y.receipt[d] = IF d = "Wingman" THEN "None" ELSE x.receipt[d]
    BY <1>3, ExplicitUploadFields
  <1> HIDE DEF y
  <1>5. /\ z \in Job /\ z.meta = y.meta /\ z.att = y.att /\ z.report = y.report
        /\ z.st = [y.st EXCEPT !["DonBot"] = "Waiting"]
        /\ \A d \in DEPENDENTS : z.receipt[d] = IF d = "DonBot" THEN "None" ELSE y.receipt[d]
    BY <1>4, ExplicitUploadFields
  <1> HIDE DEF z
  <1>6. /\ i \in [Providers -> Intents]
        /\ \A p \in Providers : i[p] = IF p \in UPLOADS THEN "Reupload" ELSE b.intents[p]
    BY <1>1 DEF Intents
  <1> HIDE DEF i
  <1>7. w \in Entry /\ w.job = z /\ w.pending = b.pending /\ w.reupload = TRUE /\ w.intents = i
    BY <1>5, <1>6 DEF Entry
  <1> HIDE DEF w
  <1>8. /\ z.meta = b.job.meta /\ z.att = b.job.att /\ z.report = 0
        /\ \A p \in UPLOADS : z.st[p] = "Waiting"
        /\ z.st["Twitch"] = b.job.st["Twitch"]
        /\ z.receipt["Wingman"] = "None" /\ z.receipt["DonBot"] = "None"
        /\ z.receipt["Twitch"] = b.job.receipt["Twitch"]
    <2>1. z.st \in [Providers -> States] /\ y.st \in [Providers -> States] /\ x.st \in [Providers -> States]
          /\ b.job.st \in [Providers -> States]
      BY <1>1, <1>3, <1>4, <1>5 DEF Job
    <2>2. z.meta = b.job.meta /\ z.att = b.job.att /\ z.report = 0
      BY <1>3, <1>4, <1>5
    <2>3. (\A p \in UPLOADS : z.st[p] = "Waiting") /\ z.st["Twitch"] = b.job.st["Twitch"]
      BY <1>3, <1>4, <1>5, <2>1 DEF UPLOADS, Providers
    <2>4. /\ z.receipt["Wingman"] = "None" /\ z.receipt["DonBot"] = "None"
          /\ z.receipt["Twitch"] = b.job.receipt["Twitch"]
      BY <1>3, <1>4, <1>5 DEF DEPENDENTS
    <2> QED
      BY <2>2, <2>3, <2>4
  <1>9. /\ e \in Entry /\ e.pending = w.pending /\ e.reupload = w.reupload /\ e.intents = w.intents
        /\ e.job.meta = z.meta /\ e.job.att = z.att
        /\ e.job.report = z.report /\ e.job.receipt = z.receipt
        /\ e.job.st["Wingman"] = IF z.meta = "WvW" /\ z.st["Wingman"] = "Waiting"
                                 THEN "Skipped" ELSE z.st["Wingman"]
        /\ \A p \in Providers \ {"Wingman"} : e.job.st[p] = z.st[p]
    BY <1>7, SkipWingmanFields, SkipWingmanIntents
  <1> HIDE DEF e
  <1>10. \A p \in Providers : e.intents[p] = IF p \in UPLOADS THEN "Reupload" ELSE b.intents[p]
    BY <1>6, <1>7, <1>9
  <1> QED
    BY <1>2, <1>7, <1>8, <1>9, <1>10 DEF UPLOADS, Providers

LEMMA ReuploadKeeps ==
  ASSUME IndInv, NEW id \in Ids, Reupload(id)
  PROVE  IndInv'
PROOF
  <1> DEFINE b == jobs[id]
             e == ReuploadEntry(b)
  <1>1. /\ id \in DOMAIN jobs /\ b.job.meta # "None"
        /\ \A p \in UPLOADS : b.job.st[p] \notin BusyStates
        /\ DispatchNow(id, e, "DpsReport")
    BY DEF Reupload, CanDeliverExplicitly, UPLOADS
  <1>2. Sound(id, b, {}, inflight) /\ inflight \in SUBSET Request
    BY <1>1, KnownRow
  <1>3. b \in Entry /\ "DpsReport" \in Providers
    BY <1>2 DEF Sound, Providers
  <1>4. /\ e \in Entry /\ e.pending = b.pending /\ e.reupload = TRUE
        /\ e.job.meta = b.job.meta /\ e.job.att = b.job.att /\ e.job.report = 0
        /\ e.job.receipt["Wingman"] = "None" /\ e.job.receipt["DonBot"] = "None"
        /\ e.job.receipt["Twitch"] = b.job.receipt["Twitch"]
        /\ e.job.st["Wingman"] \in {"Waiting", "Skipped"}
        /\ e.job.st["DpsReport"] = "Waiting" /\ e.job.st["DonBot"] = "Waiting"
        /\ e.job.st["Twitch"] = b.job.st["Twitch"]
    BY <1>3, ReuploadFields
  <1> HIDE DEF e, b
  <1>5. ReportKept(e.job)
    BY <1>4 DEF ReportKept
  <1>6. ReceiptsKept(e.job)
    BY <1>2, <1>4 DEF Sound, ReceiptsKept, DEPENDENTS
  <1>7. b.job.st["Twitch"] # "Waiting"
    BY <1>1, <1>2 DEF Sound, RoutedInv, Under, UPLOADS, DEPENDENTS, BusyStates, ScheduledStates
  <1>8. RoutedInv(e, {"DpsReport"})
    BY <1>1, <1>2, <1>4, <1>7
    DEF Sound, RoutedInv, Under, DEPENDENTS, ScheduledStates
  <1>9. Matched(id, e, inflight)
    <2>1. \A q \in Providers : e.job.st[q] = "Active" <=> b.job.st[q] = "Active"
      BY <1>1, <1>4 DEF Providers, UPLOADS, BusyStates
    <2>2. \A q \in {"Wingman", "DonBot"} : b.job.st[q] # "Active"
      BY <1>1 DEF UPLOADS, BusyStates
    <2>3. Matched(id, b, inflight) /\ e.job.att = b.job.att
      BY <1>2, <1>4 DEF Sound
    <2> QED
      BY <1>2, <2>1, <2>2, <2>3, SameActiveMatched
  <1>10. Sound(id, e, {"DpsReport"}, inflight)
    BY <1>4, <1>5, <1>6, <1>8, <1>9 DEF Sound
  <1> QED
    BY <1>1, <1>3, <1>10, DispatchNowKeeps

-----------------------------------------------------------------------------
(* Retry deadlines and the sweep.                                          *)

LEMMA DeadlinePassesKeeps ==
  ASSUME IndInv, NEW id \in Ids, NEW p \in Providers, DeadlinePasses(id, p)
  PROVE  IndInv'
PROOF
  <1> DEFINE b == jobs[id]
             e == [b EXCEPT !.job.st[p] = "RetryDue"]
  <1>1. /\ id \in DOMAIN jobs /\ b.job.st[p] = "RetryScheduled"
        /\ jobs' = [jobs EXCEPT ![id] = e]
        /\ UNCHANGED <<nextId, historyLimit, restored, stopping, inflight>>
    BY DEF DeadlinePasses
  <1>2. Rows(jobs, inflight, nextId)
    BY IndInvIsRows
  <1>3. ~b.pending
    BY <1>1, <1>2 DEF Rows, RowInv, PendingInv
  <1>4. Sound(id, b, {}, inflight) /\ inflight \in SUBSET Request
    BY <1>1, <1>2, <1>3, RowIsSound DEF Rows
  <1>5. /\ e \in Entry /\ e.pending = b.pending /\ e.reupload = b.reupload
        /\ e.job.meta = b.job.meta /\ e.job.att = b.job.att
        /\ e.job.report = b.job.report /\ e.job.receipt = b.job.receipt
        /\ e.job.st = [b.job.st EXCEPT ![p] = "RetryDue"]
        /\ b.job.st \in [Providers -> States]
    BY <1>4 DEF Sound, Entry, Job, States, BusyStates, ScheduledStates
  <1>6. jobs' = Put(jobs, id, e)
    BY <1>1, <1>2 DEF Put, Rows
  <1> HIDE DEF e, b
  <1>7. e.job.st[p] = "RetryDue" /\ \A q \in Providers \ {p} : e.job.st[q] = b.job.st[q]
    BY <1>5
  <1>8. ReportKept(e.job) /\ ReceiptsKept(e.job)
    BY <1>1, <1>4, <1>5, <1>7 DEF Sound, ReportKept, ReceiptsKept, Providers, DEPENDENTS
  <1>9. RoutedInv(e, {})
    BY <1>1, <1>4, <1>5, <1>7
    DEF Sound, RoutedInv, Under, Providers, DEPENDENTS, ScheduledStates, BusyStates
  <1>10. Matched(id, e, inflight)
    <2>1. /\ e.job.att = b.job.att /\ e.job.report = b.job.report
          /\ \A q \in Providers : e.job.st[q] = "Active" <=> b.job.st[q] = "Active"
      BY <1>1, <1>5, <1>7
    <2>2. Matched(id, b, inflight)
      BY <1>4 DEF Sound
    <2> QED
      BY <1>4, <2>1, <2>2, SameActiveMatched
  <1>11. Sound(id, e, {}, inflight)
    BY <1>5, <1>8, <1>9, <1>10 DEF Sound
  <1>12. Rows(Put(jobs, id, e), inflight, nextId)
    BY <1>1, <1>2, <1>4, <1>11, PutRows
  <1>13. Rows(jobs', inflight', nextId')
    BY <1>1, <1>6, <1>12
  <1> QED
    BY <1>1, <1>13, IndInvIsRows DEF IndInv, TypeOK, Rows

(* The sweep of one row.                                                   *)
LEMMA SweptRow ==
  ASSUME NEW id \in Ids, NEW e \in Entry, NEW R \in SUBSET Request,
         RowInv(e), Matched(id, e, R),
         NEW P \in SUBSET Providers, NEW answers,
         \A p \in P : e.job.st[p] = "RetryDue"
  PROVE  LET d == DispatchEach(id, e, P, answers)
         IN /\ d.entry \in Entry /\ RowInv(d.entry) /\ Matched(id, d.entry, R \cup d.sent)
            /\ d.sent \subseteq Request
            /\ \A r \in d.sent : r.id = id
PROOF
  <1> DEFINE d == DispatchEach(id, e, P, answers)
  <1>1. CASE P = {}
    <2>1. d = [entry |-> e, sent |-> {}]
      BY <1>1, DispatchNothing
    <2> HIDE DEF d
    <2> QED
      BY <2>1 DEF d
  <1>2. CASE P # {}
    <2>1. ~e.pending
      BY <1>2 DEF RowInv, PendingInv
    <2>2. Sound(id, e, {}, R)
      BY <2>1 DEF RowInv, Sound
    <2>3. RoutedInv(e, P)
      BY <2>2 DEF Sound, RoutedInv
    <2>4. Sound(id, e, P, R)
      BY <2>2, <2>3 DEF Sound
    <2>5. /\ Sound(id, d.entry, {}, R \cup d.sent)
          /\ d.sent \subseteq Request
          /\ \A r \in d.sent : r.id = id
      BY <2>4, DispatchEachKeeps
    <2> HIDE DEF d
    <2> QED
      BY <2>5, SoundIsRow DEF d
  <1> QED
    BY <1>1, <1>2

LEMMA DispatchDueRetriesKeeps ==
  ASSUME IndInv, DispatchDueRetries
  PROVE  IndInv'
PROOF
  <1> DEFINE P(id) == {p \in Providers : <<id, p>> \in Swept}
             Answers(a, id) == [p \in {q \in Providers : <<id, q>> \in Swept} |-> a[<<id, p>>]]
             Done(a) == [id \in DOMAIN jobs |-> DispatchEach(id, jobs[id], P(id), Answers(a, id))]
  <1>1. PICK a \in [Swept -> EnqueueOutcomes] :
          /\ jobs' = TrimTo([id \in DOMAIN jobs |-> Done(a)[id].entry], historyLimit)
          /\ inflight' = inflight \cup UNION {Done(a)[id].sent : id \in DOMAIN jobs}
    BY DEF DispatchDueRetries
  <1>2. Rows(jobs, inflight, nextId)
    BY IndInvIsRows
  <1>3. ASSUME NEW id \in DOMAIN jobs
        PROVE  P(id) \in SUBSET Providers /\ \A p \in P(id) : jobs[id].job.st[p] = "RetryDue"
    BY DEF Swept, Due, DueAt
  <1> DEFINE d == Done(a)
             S == UNION {d[id].sent : id \in DOMAIN jobs}
             t == [id \in DOMAIN jobs |-> d[id].entry]
  <1>4. ASSUME NEW id \in DOMAIN jobs
        PROVE  /\ d[id].entry \in Entry /\ RowInv(d[id].entry)
               /\ Matched(id, d[id].entry, inflight \cup d[id].sent)
               /\ d[id].sent \subseteq Request
               /\ \A r \in d[id].sent : r.id = id
    <2>1. d[id] = DispatchEach(id, jobs[id], P(id), Answers(a, id))
      OBVIOUS
    <2>2. P(id) \in SUBSET Providers /\ \A p \in P(id) : jobs[id].job.st[p] = "RetryDue"
      BY <1>3
    <2> DEFINE Pid == P(id)
               ans == Answers(a, id)
               x == DispatchEach(id, jobs[id], Pid, ans)
    <2>3. Pid \in SUBSET Providers /\ \A p \in Pid : jobs[id].job.st[p] = "RetryDue"
      BY <2>2
    <2>4. d[id] = x
      BY <2>1
    <2> HIDE DEF P, Answers, d, Pid, ans
    <2>5. /\ x.entry \in Entry /\ RowInv(x.entry)
          /\ Matched(id, x.entry, inflight \cup x.sent)
          /\ x.sent \subseteq Request
          /\ \A r \in x.sent : r.id = id
      <3>1. /\ id \in Ids /\ jobs[id] \in Entry /\ inflight \in SUBSET Request
            /\ RowInv(jobs[id]) /\ Matched(id, jobs[id], inflight)
        BY <1>2 DEF Rows
      <3> DEFINE e == jobs[id]
                 R == inflight
      <3>2. /\ id \in Ids /\ e \in Entry /\ R \in SUBSET Request
            /\ RowInv(e) /\ Matched(id, e, R)
            /\ Pid \in SUBSET Providers /\ \A p \in Pid : e.job.st[p] = "RetryDue"
        BY <2>3, <3>1
      <3>3. LET y == DispatchEach(id, e, Pid, ans)
            IN /\ y.entry \in Entry /\ RowInv(y.entry) /\ Matched(id, y.entry, R \cup y.sent)
               /\ y.sent \subseteq Request
               /\ \A r \in y.sent : r.id = id
        <4> HIDE DEF e, R
        <4> QED
          BY <3>2, SweptRow
      <3> QED
        BY <3>3
    <2> QED
      BY <2>4, <2>5
  <1> HIDE DEF P, Answers, Done, d
  <1>5. /\ \A r \in S : r \in Request /\ r.id \in DOMAIN jobs
        /\ \A id \in DOMAIN jobs : d[id].sent \subseteq S
        /\ \A id \in DOMAIN jobs : \A r \in S : r.id = id => r \in d[id].sent
    <2>1. \A r \in S : \E id \in DOMAIN jobs : r \in d[id].sent
      OBVIOUS
    <2>2. \A id \in DOMAIN jobs : d[id].sent \subseteq S
      OBVIOUS
    <2>3. \A r \in S : r \in Request /\ r.id \in DOMAIN jobs /\ r \in d[r.id].sent
      BY <1>4, <2>1
    <2> HIDE DEF S
    <2> QED
      BY <2>2, <2>3
  <1> HIDE DEF S
  <1>6. \A id \in DOMAIN jobs : Matched(id, d[id].entry, inflight \cup S)
    BY <1>4, <1>5 DEF Matched
  <1>7. /\ DOMAIN t = DOMAIN jobs /\ t \in [DOMAIN t -> Entry]
        /\ \A id \in DOMAIN jobs : RowInv(t[id]) /\ Matched(id, t[id], inflight \cup S)
    BY <1>4, <1>6
  <1> HIDE DEF t
  <1>8. Rows(t, inflight \cup S, nextId)
    BY <1>2, <1>5, <1>7 DEF Rows
  <1>9. Rows(TrimTo(t, historyLimit), inflight \cup S, nextId)
    BY <1>8, TrimRows
  <1>10. jobs' = TrimTo(t, historyLimit) /\ inflight' = inflight \cup S
    BY <1>1 DEF t, S, d
  <1>11. UNCHANGED <<nextId, historyLimit, restored, stopping>>
    BY DEF DispatchDueRetries
  <1>12. Rows(jobs', inflight', nextId')
    BY <1>9, <1>10, <1>11
  <1> QED
    BY <1>11, <1>12, IndInvIsRows DEF IndInv, TypeOK, Rows

-----------------------------------------------------------------------------
(* Lifecycle.                                                              *)

LEMMA SetHistoryLimitKeeps ==
  ASSUME IndInv, NEW limit \in 1..MaxHistoryLimit, SetHistoryLimit(limit)
  PROVE  IndInv'
PROOF
  <1>1. Rows(TrimTo(jobs, limit), inflight, nextId)
    BY IndInvIsRows, TrimRows
  <1>2. Rows(jobs', inflight', nextId')
    BY <1>1 DEF SetHistoryLimit
  <1> QED
    BY <1>2, IndInvIsRows DEF IndInv, TypeOK, Rows, SetHistoryLimit

LEMMA CancelAllKeeps ==
  ASSUME IndInv, CancelAll
  PROVE  IndInv'
PROOF
  <1> DEFINE t == [id \in DOMAIN jobs |-> CancelledEntry(jobs[id])]
  <1>1. Rows(jobs, inflight, nextId)
    BY IndInvIsRows
  <1>2. ASSUME NEW id \in DOMAIN jobs
        PROVE  /\ CancelledEntry(jobs[id]) \in Entry
               /\ RowInv(CancelledEntry(jobs[id]))
               /\ Matched(id, CancelledEntry(jobs[id]), {})
    <2> DEFINE b == jobs[id]
               c == CancelledEntry(b)
    <2>1. b \in Entry /\ RowInv(b)
      BY <1>1 DEF Rows
    <2>2. /\ c \in Entry /\ c.pending = FALSE /\ c.reupload = b.reupload
          /\ c.job.meta = b.job.meta /\ c.job.att = b.job.att
          /\ c.job.report = b.job.report /\ c.job.receipt = b.job.receipt
          /\ \A p \in Providers : c.job.st[p] = IF b.job.st[p] \in BusyStates THEN "Cancelled"
                                                ELSE b.job.st[p]
      BY <2>1 DEF CancelledEntry, Entry, Job, States
    <2> HIDE DEF b, c
    <2>3. ReportKept(c.job) /\ ReceiptsKept(c.job)
      BY <2>1, <2>2
      DEF RowInv, ReportKept, ReceiptsKept, Providers, DEPENDENTS, BusyStates, ScheduledStates
    <2>4. \A p \in Providers : c.job.st[p] \notin BusyStates
      BY <2>2 DEF BusyStates, ScheduledStates
    <2>5. RoutedInv(c, {}) /\ Matched(id, c, {})
      BY <2>2, <2>4
      DEF RoutedInv, Matched, Under, Providers, DEPENDENTS, BusyStates, ScheduledStates
    <2> QED
      BY <2>2, <2>3, <2>5 DEF RowInv, c, b
  <1>3. /\ DOMAIN t = DOMAIN jobs /\ t \in [DOMAIN t -> Entry]
        /\ \A id \in DOMAIN jobs : RowInv(t[id]) /\ Matched(id, t[id], {})
    BY <1>2
  <1>4. jobs' = TrimTo(t, historyLimit) /\ inflight' = {} /\ stopping' = TRUE
        /\ UNCHANGED <<nextId, historyLimit, restored>>
    BY DEF CancelAll
  <1> HIDE DEF t
  <1>5. Rows(t, {}, nextId)
    BY <1>1, <1>3 DEF Rows
  <1>6. Rows(TrimTo(t, historyLimit), {}, nextId)
    BY <1>5, TrimRows
  <1>7. Rows(jobs', inflight', nextId')
    BY <1>4, <1>6
  <1> QED
    BY <1>4, <1>7, IndInvIsRows DEF IndInv, TypeOK, Rows

(* A restored record is an idle row.                                       *)
LEMMA RestoredRow ==
  ASSUME NEW record \in Job, ReportKept(record), ReceiptsKept(record),
         NEW id, NEW R, \A r \in R : r.id # id
  PROVE  LET e == NewEntry(RestoredJob(record), FALSE)
         IN e \in Entry /\ RowInv(e) /\ Matched(id, e, R)
PROOF
  <1> DEFINE j == RestoredJob(record)
             e == NewEntry(j, FALSE)
  <1>1. record \in Job /\ ReportKept(record) /\ ReceiptsKept(record)
    OBVIOUS
  <1>2. /\ j \in Job /\ j.meta = record.meta /\ j.att = record.att
        /\ j.report = record.report /\ j.receipt = record.receipt
        /\ \A p \in Providers : j.st[p] = IF record.st[p] \in BusyStates THEN "Failed"
                                          ELSE record.st[p]
    BY <1>1 DEF RestoredJob, Job, States
  <1> HIDE DEF j
  <1>3. e \in Entry /\ e.job = j /\ e.pending = FALSE /\ e.reupload = FALSE
    BY <1>2 DEF NewEntry, Entry, Intents
  <1> HIDE DEF e
  <1>4. ReportKept(j) /\ ReceiptsKept(j)
    BY <1>1, <1>2
    DEF ReportKept, ReceiptsKept, Providers, DEPENDENTS, BusyStates, ScheduledStates
  <1>5. \A p \in Providers : j.st[p] \notin BusyStates
    BY <1>2 DEF BusyStates, ScheduledStates
  <1>6. RoutedInv(e, {}) /\ Matched(id, e, R)
    BY <1>3, <1>5
    DEF RoutedInv, Matched, Under, Providers, DEPENDENTS, BusyStates, ScheduledStates
  <1> QED
    BY <1>3, <1>4, <1>6 DEF RowInv, e, j

(* A history of any length: the table takes what its limit allows.         *)
LEMMA RestoreKeepsInv ==
  ASSUME IndInv, NEW n \in Nat, NEW records \in [1..n -> Job], Restore(records),
         \A i \in 1..n : ReportKept(records[i]) /\ ReceiptsKept(records[i]),
         n <= MaxId \/ historyLimit <= MaxId
  PROVE  IndInv'
PROOF
  <1> DEFINE skip == IF Len(records) > historyLimit THEN Len(records) - historyLimit ELSE 0
             kept == Len(records) - skip
             t == [id \in 1..kept |-> NewEntry(RestoredJob(records[skip + id]), FALSE)]
  <1>1. MaxId \in Nat /\ n \in Nat
    BY CoordinatorAssumption
  <1>2. Len(records) = n
    BY <1>1
  <1>3. Rows(jobs, inflight, nextId) /\ historyLimit \in Nat
    BY IndInvIsRows
  <1>4. /\ nextId = 1 /\ jobs' = t /\ nextId' = kept + 1 /\ restored' = TRUE
        /\ UNCHANGED <<historyLimit, stopping, inflight>>
    BY DEF Restore
  <1>5. inflight = {}
    <2> SUFFICES ASSUME NEW r \in inflight
                 PROVE  FALSE
      OBVIOUS
    <2>1. r.id \in 1..MaxId /\ r.id < 1
      BY <1>3, <1>4 DEF Rows, Request, Ids
    <2> QED
      BY <1>1, <2>1
  <1>6. /\ skip \in Nat /\ kept \in Nat /\ skip + kept = n /\ kept <= MaxId
    BY <1>1, <1>2, <1>3
  <1> HIDE DEF skip, kept
  <1>7. ASSUME NEW id \in 1..kept
        PROVE  /\ id \in Ids /\ id < kept + 1
               /\ t[id] \in Entry /\ RowInv(t[id]) /\ Matched(id, t[id], {})
    <2>1. skip + id \in 1..n
      BY <1>1, <1>6
    <2>2. /\ records[skip + id] \in Job
          /\ ReportKept(records[skip + id]) /\ ReceiptsKept(records[skip + id])
      BY <2>1
    <2>3. t[id] = NewEntry(RestoredJob(records[skip + id]), FALSE)
      OBVIOUS
    <2> HIDE DEF t
    <2>4. id \in Ids /\ id < kept + 1
      BY <1>1, <1>6 DEF Ids
    <2> DEFINE record == records[skip + id]
               e == NewEntry(RestoredJob(record), FALSE)
    <2>5. record \in Job /\ ReportKept(record) /\ ReceiptsKept(record) /\ t[id] = e
      BY <2>2, <2>3
    <2> HIDE DEF record
    <2>6. e \in Entry /\ RowInv(e) /\ Matched(id, e, {})
      BY <2>5, RestoredRow
    <2> QED
      BY <2>4, <2>5, <2>6
  <1>8. DOMAIN t = 1..kept /\ t \in [DOMAIN t -> Entry]
    BY <1>7
  <1> HIDE DEF t
  <1>9. Rows(t, {}, kept + 1)
    BY <1>7, <1>8 DEF Rows
  <1>10. Rows(jobs', inflight', nextId')
    BY <1>4, <1>5, <1>9
  <1>11. nextId' \in 1..(MaxId + 1)
    BY <1>1, <1>4, <1>6
  <1> QED
    BY <1>4, <1>10, <1>11, IndInvIsRows DEF IndInv, TypeOK, Rows

LEMMA RestoreKeeps ==
  ASSUME IndInv, NEW n \in 0..MaxId, NEW records \in [1..n -> Records], Restore(records)
  PROVE  IndInv'
  <1>1. n \in Nat /\ n <= MaxId /\ records \in [1..n -> Job]
    BY CoordinatorAssumption
  <1>2. \A i \in 1..n : ReportKept(records[i]) /\ ReceiptsKept(records[i])
    BY RecordsAssumption
  <1> QED
    BY <1>1, <1>2, RestoreKeepsInv

-----------------------------------------------------------------------------
(* Eviction.                                                               *)

Place(S, x) == Cardinality({y \in S : y <= x})

(* The place of an element in the order of a finite set of numbers.        *)
LEMMA PlaceFacts ==
  ASSUME NEW S \in SUBSET Nat, IsFiniteSet(S)
  PROVE  /\ Cardinality(S) \in Nat
         /\ \A x \in S : Place(S, x) \in 1..Cardinality(S)
         /\ \A x, y \in S : x < y => Place(S, x) < Place(S, y)
         /\ \A i \in 1..Cardinality(S) : \E x \in S : Place(S, x) = i
PROOF
  <1> DEFINE Below(x) == {y \in S : y <= x}
             n == Cardinality(S)
  <1>1. n \in Nat
    BY FS_CardinalityType
  <1>0. \A x \in S : x \in Nat
    OBVIOUS
  <1>2. ASSUME NEW x \in S
        PROVE  IsFiniteSet(Below(x)) /\ Place(S, x) \in 1..n
    <2>1. Below(x) \in SUBSET S /\ x \in Below(x)
      OBVIOUS
    <2>2. IsFiniteSet(Below(x)) /\ Cardinality(Below(x)) <= n
      BY <2>1, FS_Subset
    <2>3. Cardinality(Below(x)) \in Nat /\ Cardinality(Below(x)) # 0
      BY <2>1, <2>2, FS_CardinalityType, FS_EmptySet
    <2> QED
      BY <1>1, <2>2, <2>3 DEF Place
  <1>3. ASSUME NEW x \in S, NEW y \in S, x < y
        PROVE  Place(S, x) < Place(S, y)
    <2>1. Below(x) \in SUBSET Below(y) /\ y \in Below(y) /\ y \notin Below(x)
      <3>1. x \in Nat /\ y \in Nat
        BY <1>0
      <3>2. \A z \in S : z <= x => z <= y
        BY <1>0, <1>3, <3>1
      <3>3. y <= y /\ ~(y <= x)
        BY <1>3, <3>1
      <3> QED
        BY <3>2, <3>3
    <2>2. IsFiniteSet(Below(y))
      BY <1>2
    <2>3. /\ Cardinality(Below(x)) <= Cardinality(Below(y))
          /\ Cardinality(Below(x)) # Cardinality(Below(y))
      BY <2>1, <2>2, FS_Subset
    <2> QED
      BY <1>2, <2>3 DEF Place
  <1>4. \A x, y \in S : x # y => Place(S, x) # Place(S, y)
    <2>0. SUFFICES ASSUME NEW x \in S, NEW y \in S, x # y
                   PROVE  Place(S, x) # Place(S, y)
      OBVIOUS
    <2>1. x < y \/ y < x
      <3>1. x \in Nat /\ y \in Nat
        BY <1>0
      <3> QED
        BY <2>0, <3>1
    <2> QED
      <3> DEFINE a == Place(S, x)
                 b == Place(S, y)
      <3>1. a \in 1..n /\ b \in 1..n
        BY <1>2
      <3>2. a < b \/ b < a
        BY <1>3, <2>1
      <3>3. a \in Nat /\ b \in Nat
        BY <1>1, <3>1
      <3> HIDE DEF a, b
      <3>4. a # b
        BY <3>2, <3>3
      <3> QED
        BY <3>4 DEF a, b
  <1> DEFINE f == [x \in S |-> Place(S, x)]
  <1>5. f \in Injection(S, 1..n)
    BY <1>2, <1>4 DEF Injection, IsInjective
  <1>6. IsFiniteSet(1..n) /\ Cardinality(1..n) = n
    BY <1>1, FS_Interval
  <1>7. f \in Surjection(S, 1..n)
    BY <1>5, <1>6, FS_Injection
  <1>8. \A i \in 1..n : \E x \in S : f[x] = i
    BY <1>7 DEF Surjection
  <1> QED
    BY <1>1, <1>2, <1>3, <1>8

(* A table over its limit has no idle row.                                 *)
Tight(js, limit) == Cardinality(DOMAIN js) > limit => Idle(js) = {}

(* Of the rows js the table t keeps, those older than an evicted one are   *)
(* busy.                                                                   *)
OldestGone(js, t) ==
  \A gone \in DOMAIN js \ DOMAIN t, id \in DOMAIN js \cap DOMAIN t :
    id < gone => Busy(t[id])

(* What the count in Kept comes to: the oldest idle rows go, enough of     *)
(* them to bring the table to its limit.                                   *)
LEMMA TrimEvicts ==
  ASSUME NEW js, DOMAIN js \in SUBSET Nat, IsFiniteSet(DOMAIN js), NEW limit \in Nat
  PROVE  Tight(TrimTo(js, limit), limit) /\ OldestGone(js, TrimTo(js, limit))
PROOF
  <1> DEFINE t == TrimTo(js, limit)
             D == DOMAIN js
             K == DOMAIN t
             I == Idle(js)
             n == Cardinality(D)
  <1>1. /\ I \in SUBSET D /\ I \in SUBSET Nat /\ IsFiniteSet(I)
        /\ n \in Nat /\ Cardinality(I) \in Nat
    BY FS_Subset, FS_CardinalityType DEF Idle
  <1>2. /\ K \in SUBSET D
        /\ \A i \in K : t[i] = js[i]
        /\ \A i \in D : i \in K <=> i \notin I \/ Place(I, i) + limit > n
    BY DEF TrimTo, Kept, Idle, Place
  <1>3. /\ \A x \in I : Place(I, x) \in 1..Cardinality(I)
        /\ \A x, y \in I : x < y => Place(I, x) < Place(I, y)
        /\ \A i \in 1..Cardinality(I) : \E x \in I : Place(I, x) = i
    BY <1>1, PlaceFacts
  <1>4. Idle(t) = I \cap K
    BY <1>2 DEF Idle
  <1>5. \A i \in D : ~Busy(js[i]) <=> i \in I
    BY DEF Idle
  <1> HIDE DEF t, D, K, I, n
  <1>6. OldestGone(js, t)
    <2> SUFFICES ASSUME NEW gone \in D \ K, NEW id \in D \cap K, id < gone, id \in I
                 PROVE  FALSE
      BY <1>2, <1>5 DEF OldestGone, D, K
    <2>1. gone \in I /\ ~(Place(I, gone) + limit > n) /\ Place(I, id) + limit > n
      BY <1>2
    <2>2. Place(I, id) < Place(I, gone) /\ Place(I, id) \in Nat /\ Place(I, gone) \in Nat
      BY <1>1, <1>3, <2>1
    <2> QED
      BY <1>1, <2>1, <2>2
  <1>7. Tight(t, limit)
    <2> SUFFICES ASSUME Cardinality(K) > limit, NEW x \in I \cap K
                 PROVE  FALSE
      BY <1>4 DEF Tight, K
    <2> DEFINE d == n - limit
               E == D \ K
    <2>1. IsFiniteSet(D) /\ IsFiniteSet(K) /\ Cardinality(K) \in Nat /\ Cardinality(K) <= n
      BY <1>2, FS_Subset, FS_CardinalityType DEF D, n
    <2>2. d \in Nat /\ d >= 1
      BY <1>1, <2>1
    <2>3. Place(I, x) + limit > n /\ Place(I, x) \in 1..Cardinality(I)
      BY <1>2, <1>3
    <2>4. d <= Cardinality(I)
      BY <1>1, <2>3
    <2>5. \A j \in 1..d : \E y \in E : Place(I, y) = j
      <3> SUFFICES ASSUME NEW j \in 1..d
                   PROVE  \E y \in E : Place(I, y) = j
        OBVIOUS
      <3>1. j \in 1..Cardinality(I) /\ j \in Nat /\ ~(j + limit > n)
        BY <1>1, <2>2, <2>4
      <3>2. PICK y \in I : Place(I, y) = j
        BY <1>3, <3>1
      <3>3. y \in D /\ y \notin K
        BY <1>1, <1>2, <3>1, <3>2
      <3> QED
        BY <3>2, <3>3
    <2> DEFINE g == [j \in 1..d |-> CHOOSE y \in E : Place(I, y) = j]
    <2>6. \A j \in 1..d : g[j] \in E /\ Place(I, g[j]) = j
      BY <2>5
    <2> HIDE DEF E
    <2>7. IsFiniteSet(E) /\ Cardinality(E) = n - Cardinality(K)
      <3>1. D \cap K = K
        BY <1>2
      <3> QED
        BY <2>1, <3>1, FS_Difference DEF E, n
    <2>8. \A j \in 1..d : g[j] \in E
      BY <2>6
    <2>9. \A j, k \in 1..d : g[j] = g[k] => j = k
      BY <2>6
    <2>10. g = [j \in 1..d |-> g[j]]
      OBVIOUS
    <2> HIDE DEF g, d
    <2>11. g \in Injection(1..d, E)
      BY <2>8, <2>9, <2>10 DEF Injection, IsInjective
    <2>12. Cardinality(1..d) <= Cardinality(E)
      BY <2>7, <2>11, FS_Injection
    <2>13. Cardinality(1..d) = d
      BY <2>2, FS_Interval
    <2>14. d <= n - Cardinality(K)
      BY <2>7, <2>12, <2>13
    <2> QED
      BY <1>1, <2>1, <2>14 DEF d
  <1> QED
    BY <1>6, <1>7 DEF t

(* What EvictsOldestIdle asks of a step.                                   *)
EvictionStep ==
  /\ OverLimitOnlyBusy'
  /\ \A gone \in DOMAIN jobs \ DOMAIN jobs', id \in DOMAIN jobs \cap DOMAIN jobs' :
       id < gone => Busy(jobs'[id])

LEMMA FinitelyManyRows ==
  ASSUME IndInv
  PROVE  DOMAIN jobs \in SUBSET Nat /\ IsFiniteSet(DOMAIN jobs) /\ historyLimit \in Nat \ {0}
PROOF
  <1>1. DOMAIN jobs \subseteq 1..MaxId /\ MaxId \in Nat
    BY CoordinatorAssumption DEF IndInv, TypeOK, Ids
  <1>2. IsFiniteSet(1..MaxId)
    BY <1>1, FS_Interval
  <1>3. IsFiniteSet(DOMAIN jobs)
    BY <1>1, <1>2, FS_Subset
  <1> QED
    BY <1>1, <1>3 DEF IndInv, TypeOK

(* A call that ends with trim_to.                                          *)
LEMMA TrimmedStep ==
  ASSUME IndInv, NEW u, DOMAIN u = DOMAIN jobs, NEW limit \in Nat,
         jobs' = TrimTo(u, limit), historyLimit' = limit
  PROVE  EvictionStep
PROOF
  <1>1. Tight(TrimTo(u, limit), limit) /\ OldestGone(u, TrimTo(u, limit))
    BY FinitelyManyRows, TrimEvicts
  <1>2. OverLimitOnlyBusy'
    BY <1>1 DEF Tight, OverLimitOnlyBusy, Idle
  <1>3. OldestGone(u, jobs')
    BY <1>1
  <1> QED
    BY <1>2, <1>3 DEF OldestGone, EvictionStep

(* A call that removes no row and leaves no busy one idle.                 *)
LEMMA UntrimmedStep ==
  ASSUME OverLimitOnlyBusy, DOMAIN jobs' = DOMAIN jobs, historyLimit' = historyLimit,
         \A i \in DOMAIN jobs : Busy(jobs[i]) => Busy(jobs'[i])
  PROVE  EvictionStep
  BY DEF OverLimitOnlyBusy, Idle, EvictionStep

LEMMA PutDomain ==
  ASSUME NEW js, NEW id \in DOMAIN js, NEW e
  PROVE  /\ DOMAIN Put(js, id, e) = DOMAIN js
         /\ Put(js, id, e)[id] = e
         /\ \A i \in DOMAIN js \ {id} : Put(js, id, e)[i] = js[i]
  BY DEF Put

(* The trimming calls.                                                     *)
LEMMA TrimmingCalls ==
  ASSUME IndInv,
         \/ \E id \in Ids : TakeMetadata(id)
         \/ \E r \in inflight, outcome \in AllOutcomes : AcceptResult(r, outcome)
         \/ DispatchDueRetries
         \/ \E limit \in 1..MaxHistoryLimit : SetHistoryLimit(limit)
         \/ CancelAll
  PROVE  EvictionStep
PROOF
  <1>0. historyLimit \in Nat
    BY FinitelyManyRows
  <1>1. ASSUME NEW id, NEW meta, SetMetadata(id, meta)
        PROVE  EvictionStep
    <2>1. \E e : jobs' = TrimTo(Put(jobs, id, e), historyLimit)
      BY <1>1 DEF SetMetadata
    <2>2. id \in DOMAIN jobs /\ historyLimit' = historyLimit
      BY <1>1 DEF SetMetadata, MetadataPending
    <2> QED
      BY <1>0, <2>1, <2>2, PutDomain, TrimmedStep
  <1>2. ASSUME NEW id, NEW cancelled, FailMetadata(id, cancelled)
        PROVE  EvictionStep
    <2>1. \E e : jobs' = TrimTo(Put(jobs, id, e), historyLimit)
      BY <1>2 DEF FailMetadata
    <2>2. id \in DOMAIN jobs /\ historyLimit' = historyLimit
      BY <1>2 DEF FailMetadata, MetadataPending
    <2> QED
      BY <1>0, <2>1, <2>2, PutDomain, TrimmedStep
  <1>3. ASSUME NEW r, NEW outcome, AcceptResult(r, outcome)
        PROVE  EvictionStep
    <2>1. \E e : jobs' = TrimTo(Put(jobs, r.id, e), historyLimit)
      BY <1>3 DEF AcceptResult
    <2>2. r.id \in DOMAIN jobs /\ historyLimit' = historyLimit
      BY <1>3 DEF AcceptResult, Acceptable
    <2> QED
      BY <1>0, <2>1, <2>2, PutDomain, TrimmedStep
  <1>4. CASE DispatchDueRetries
    <2>1. \E u : DOMAIN u = DOMAIN jobs /\ jobs' = TrimTo(u, historyLimit)
      BY <1>4 DEF DispatchDueRetries
    <2>2. historyLimit' = historyLimit
      BY <1>4 DEF DispatchDueRetries
    <2> QED
      BY <1>0, <2>1, <2>2, TrimmedStep
  <1>5. ASSUME NEW limit \in 1..MaxHistoryLimit, SetHistoryLimit(limit)
        PROVE  EvictionStep
    BY <1>5, TrimmedStep DEF SetHistoryLimit
  <1>6. CASE CancelAll
    <2>1. \E u : DOMAIN u = DOMAIN jobs /\ jobs' = TrimTo(u, historyLimit)
      BY <1>6 DEF CancelAll
    <2>2. historyLimit' = historyLimit
      BY <1>6 DEF CancelAll
    <2> QED
      BY <1>0, <2>1, <2>2, TrimmedStep
  <1> QED
    BY <1>1, <1>2, <1>3, <1>4, <1>5, <1>6 DEF TakeMetadata

(* The row that is added is busy, and room was made for it before.         *)
LEMMA AdmissionEvicts ==
  ASSUME IndInv, NEW enabled, CanAdd(enabled)
  PROVE  /\ Tight(WithPending(enabled), historyLimit)
         /\ OldestGone(jobs, WithPending(enabled))
         /\ DOMAIN WithPending(enabled) \subseteq DOMAIN jobs \cup {nextId}
         /\ nextId \notin DOMAIN jobs
PROOF
  <1> DEFINE base == TrimTo(jobs, historyLimit - 1)
             new == NewEntry(NewJob(enabled), TRUE)
             t == WithPending(enabled)
  <1>0. /\ DOMAIN jobs \in SUBSET Nat /\ IsFiniteSet(DOMAIN jobs)
        /\ historyLimit - 1 \in Nat /\ historyLimit \in Nat
    BY FinitelyManyRows
  <1>1. Tight(base, historyLimit - 1) /\ OldestGone(jobs, base)
    BY <1>0, TrimEvicts
  <1>2. nextId \in Nat /\ \A id \in DOMAIN jobs : id \in Nat /\ id < nextId
    BY IndInvIsRows DEF Rows, Ids, CanAdd
  <1>3. nextId \notin DOMAIN jobs
    BY <1>2
  <1>4. DOMAIN base \subseteq DOMAIN jobs /\ Busy(new)
    BY TrimKeeps DEF NewEntry, Busy
  <1>5. /\ DOMAIN t = DOMAIN base \cup {nextId}
        /\ t[nextId] = new
        /\ \A i \in DOMAIN base : i # nextId => t[i] = base[i]
    BY DEF WithPending, Put
  <1> HIDE DEF t, base, new
  <1>6. IsFiniteSet(DOMAIN base)
    BY <1>0, <1>4, FS_Subset
  <1>7. Idle(t) = Idle(base)
    BY <1>3, <1>4, <1>5 DEF Idle
  <1>8. Tight(t, historyLimit)
    <2>1. Cardinality(DOMAIN t) = Cardinality(DOMAIN base) + 1 /\ Cardinality(DOMAIN base) \in Nat
      BY <1>3, <1>4, <1>5, <1>6, FS_AddElement, FS_CardinalityType
    <2> QED
      BY <1>0, <1>1, <1>7, <2>1 DEF Tight
  <1>9. OldestGone(jobs, t)
    BY <1>1, <1>3, <1>4, <1>5 DEF OldestGone
  <1> QED
    BY <1>3, <1>4, <1>5, <1>8, <1>9 DEF t

LEMMA AddPendingEvicts ==
  ASSUME IndInv, NEW enabled, AddPending(enabled)
  PROVE  EvictionStep
PROOF
  <1>1. CanAdd(enabled) /\ jobs' = WithPending(enabled) /\ historyLimit' = historyLimit
    BY DEF AddPending
  <1>2. Tight(jobs', historyLimit) /\ OldestGone(jobs, jobs')
    BY <1>1, AdmissionEvicts
  <1>3. OverLimitOnlyBusy'
    BY <1>1, <1>2 DEF Tight, OverLimitOnlyBusy, Idle
  <1> QED
    BY <1>2, <1>3 DEF OldestGone, EvictionStep

(* The table is restored up to its limit.                                  *)
LEMMA RestoreEvicts ==
  ASSUME IndInv, NEW n \in Nat, NEW records, DOMAIN records = 1..n, records \in [1..n -> Job], Restore(records)
  PROVE  EvictionStep
PROOF
  <1> DEFINE skip == IF Len(records) > historyLimit THEN Len(records) - historyLimit ELSE 0
             kept == Len(records) - skip
  <1>1. Len(records) = n /\ historyLimit \in Nat
    BY FinitelyManyRows
  <1>2. kept \in Nat /\ kept <= historyLimit
    BY <1>1
  <1>3. DOMAIN jobs' = 1..kept /\ DOMAIN jobs = {} /\ historyLimit' = historyLimit
    BY DEF Restore
  <1> HIDE DEF kept
  <1>4. Cardinality(DOMAIN jobs') = kept
    BY <1>2, <1>3, FS_Interval
  <1>5. OverLimitOnlyBusy'
    BY <1>1, <1>2, <1>3, <1>4 DEF OverLimitOnlyBusy
  <1> QED
    BY <1>3, <1>5 DEF EvictionStep

(* A dispatch takes away nothing that is under way, and nothing that waits *)
(* unless it is a failed one of dps.report.                                *)
LEMMA DispatchSpares ==
  ASSUME NEW id, NEW e \in Entry, NEW p \in Providers, NEW q \in Providers \ {p}, NEW answers,
         e.job.st[q] = "Waiting" => p # "DpsReport"
  PROVE  DispatchEach(id, e, {p}, answers).entry.job.st[q] = e.job.st[q]
PROOF
  <1> DEFINE a0 == [entry |-> e, sent |-> {}]
             d == Dispatch(id, a0, p, answers[p])
             a == [e EXCEPT !.job = Moved(@, p, "Active")]
  <1>1. DispatchEach(id, e, {p}, answers) = d
    BY DEF DispatchEach, Providers
  <1>2. a0.entry = e
    OBVIOUS
  <1>3. e.job \in Job /\ e.job.st \in [Providers -> States]
    BY EntryParts
  <1>4. CASE p = "Wingman" /\ e.job.meta = "WvW"
    <2> DEFINE j == TryTransition(e.job, "Wingman", "Skipped")
    <2>1. d.entry = [e EXCEPT !.job = j]
      BY <1>4 DEF Dispatch
    <2>2. j.st[q] = e.job.st[q]
      BY <1>3, <1>4 DEF TryTransition, Moved, Job
    <2> HIDE DEF j, d
    <2>3. d.entry.job = j
      BY <2>1 DEF Entry
    <2> QED
      BY <1>1, <2>2, <2>3 
  <1>5. ASSUME NEW f, FailedFrom(e, f, p)
        PROVE  f.job.st[q] = e.job.st[q]
    BY <1>5 DEF FailedFrom
  <1>6. CASE ~(p = "Wingman" /\ e.job.meta = "WvW") /\ ~Admissible(e.job, p)
    <2>1. d.entry = FailDispatch(e, p)
      BY <1>6 DEF Dispatch
    <2> HIDE DEF d
    <2> QED
      BY <1>1, <1>5, <2>1, FailureIsFailedFrom
  <1>7. CASE ~(p = "Wingman" /\ e.job.meta = "WvW") /\ Admissible(e.job, p)
    <2>1. d.entry = IF answers[p] = "Accepted" THEN a ELSE FailDispatch(a, p)
      BY <1>7 DEF Dispatch
    <2>2. ActiveFrom(e, a, p) /\ e.job.st[p] \in {"Waiting"} \cup ScheduledStates
      BY <1>7, ActivateFields
    <2> HIDE DEF a, d
    <2>3. FailedFrom(e, FailDispatch(a, p), p)
      BY <2>2, FailureIsFailedFrom
    <2>4. a.job.st[q] = e.job.st[q]
      BY <1>3, <2>2 DEF ActiveFrom
    <2> QED
      BY <1>1, <1>5, <2>1, <2>3, <2>4
  <1> QED
    BY <1>4, <1>6, <1>7

(* In a routed row something is under way, or nothing is left to do: what  *)
(* waits waits for dps.report.                                             *)
LEMMA BusyReason ==
  ASSUME IndInv, NEW id \in DOMAIN jobs, jobs[id].job.meta # "None", Busy(jobs[id])
  PROVE  \E q \in Providers : jobs[id].job.st[q] \in Under
PROOF
  <1> DEFINE e == jobs[id]
  <1>1. RowInv(e)
    BY DEF IndInv
  <1>2. ~e.pending /\ RoutedInv(e, {})
    BY <1>1 DEF RowInv, PendingInv
  <1>3. PICK q \in Providers : e.job.st[q] \in BusyStates
    BY <1>2 DEF Busy
  <1> HIDE DEF e
  <1>4. e.job.st[q] = "Waiting" => e.job.st["DpsReport"] \in Under
    BY <1>2, <1>3 DEF RoutedInv, Providers, DEPENDENTS
  <1> QED
    BY <1>3, <1>4 DEF Under, BusyStates, Providers, e

(* A user action on a busy row: what is under way keeps it busy.           *)
LEMMA DispatchNowEvicts ==
  ASSUME IndInv, OverLimitOnlyBusy, NEW id \in DOMAIN jobs, jobs[id].job.meta # "None",
         NEW e \in Entry, NEW p \in Providers, DispatchNow(id, e, p),
         jobs[id].job.st[p] \notin Under,
         \A q \in Providers \ {p} : jobs[id].job.st[q] \in Under => e.job.st[q] = jobs[id].job.st[q]
  PROVE  EvictionStep
PROOF
  <1>1. PICK answer \in EnqueueOutcomes :
          jobs' = Put(jobs, id, DispatchEach(id, e, {p}, [x \in {p} |-> answer]).entry)
    BY DEF DispatchNow
  <1> DEFINE f == DispatchEach(id, e, {p}, [x \in {p} |-> answer]).entry
  <1>2. ASSUME Busy(jobs[id])
        PROVE  Busy(f)
    <2>1. PICK q \in Providers : jobs[id].job.st[q] \in Under
      BY <1>2, BusyReason
    <2>2. q \in Providers \ {p} /\ e.job.st[q] \in Under
      BY <2>1
    <2>3. e.job.st[q] # "Waiting" /\ e.job.st[q] \in BusyStates
      BY <2>2 DEF Under, BusyStates, ScheduledStates
    <2>4. f.job.st[q] = e.job.st[q]
      BY <2>2, <2>3, DispatchSpares
    <2> HIDE DEF f
    <2> QED
      BY <2>3, <2>4 DEF Busy
  <1>3. jobs' = Put(jobs, id, f)
    BY <1>1
  <1> HIDE DEF f
  <1>4. /\ DOMAIN jobs' = DOMAIN jobs
        /\ \A i \in DOMAIN jobs : Busy(jobs[i]) => Busy(jobs'[i])
    BY <1>2, <1>3, PutDomain
  <1>5. historyLimit' = historyLimit
    BY DEF DispatchNow
  <1> QED
    BY <1>4, <1>5, UntrimmedStep

LEMMA RechatEvicts ==
  ASSUME IndInv, OverLimitOnlyBusy, NEW id, Rechat(id)
  PROVE  EvictionStep
PROOF
  <1> DEFINE b == jobs[id]
             x == PrepareExplicitDelivery(b.job, "Twitch")
             e == [b EXCEPT !.job = PrepareExplicitDelivery(@, "Twitch"),
                            !.intents["Twitch"] = "Rechat"]
  <1>1. /\ id \in DOMAIN jobs /\ b.job.meta # "None"
        /\ b.job.st["Twitch"] \notin BusyStates /\ DispatchNow(id, e, "Twitch")
    BY DEF Rechat, CanDeliverExplicitly
  <1>2. b \in Entry /\ b.job \in Job /\ "Twitch" \in Providers
    BY <1>1, EntryParts DEF IndInv, TypeOK, Providers
  <1>3. x \in Job /\ x.st = [b.job.st EXCEPT !["Twitch"] = "Waiting"]
    BY <1>2, ExplicitFields
  <1> HIDE DEF x
  <1>4. e \in Entry /\ e.job = x
    BY <1>2, <1>3 DEF Entry, Intents, x
  <1> HIDE DEF e
  <1>5. \A q \in Providers \ {"Twitch"} : e.job.st[q] = b.job.st[q]
    BY <1>2, <1>3, <1>4 DEF Job
  <1>6. b.job.st["Twitch"] \notin Under
    BY <1>1 DEF Under, BusyStates
  <1> QED
    BY <1>1, <1>2, <1>4, <1>5, <1>6, DispatchNowEvicts

LEMMA RetryFailedEvicts ==
  ASSUME IndInv, OverLimitOnlyBusy, NEW id, NEW p \in Providers, RetryFailed(id, p)
  PROVE  EvictionStep
PROOF
  <1> DEFINE b == jobs[id]
             x == RetryJob(b, p)
             e == [b EXCEPT !.job = RetryJob(b, p), !.intents[p] = RetryIntent(@)]
  <1>1. /\ id \in DOMAIN jobs /\ b.job.meta # "None" /\ b.job.st[p] = "Failed"
        /\ DispatchNow(id, e, p)
    BY DEF RetryFailed, CanRetryManually
  <1>2. b \in Entry /\ b.intents[p] \in Intents
    BY <1>1, EntryParts DEF IndInv, TypeOK
  <1>3. /\ x \in Job
        /\ \A q \in Providers \ {p} : x.st[q] = b.job.st[q] \/ b.job.st[q] = "Skipped"
    BY <1>2, RetryFields
  <1> HIDE DEF x
  <1>4. e \in Entry /\ e.job = x
    BY <1>2, <1>3 DEF Entry, Intents, RetryIntent, x
  <1> HIDE DEF e
  <1>5. "Failed" \notin Under /\ "Skipped" \notin Under
    BY DEF Under, ScheduledStates
  <1> QED
    BY <1>1, <1>3, <1>4, <1>5, DispatchNowEvicts

LEMMA ReuploadEvicts ==
  ASSUME IndInv, OverLimitOnlyBusy, NEW id, Reupload(id)
  PROVE  EvictionStep
PROOF
  <1> DEFINE b == jobs[id]
             e == ReuploadEntry(b)
  <1>1. /\ id \in DOMAIN jobs /\ b.job.meta # "None"
        /\ \A p \in UPLOADS : b.job.st[p] \notin BusyStates
        /\ DispatchNow(id, e, "DpsReport")
    BY DEF Reupload, CanDeliverExplicitly, UPLOADS
  <1>2. b \in Entry /\ "DpsReport" \in Providers
    BY <1>1 DEF IndInv, TypeOK, Providers
  <1>3. e \in Entry /\ e.job.st["Twitch"] = b.job.st["Twitch"]
    BY <1>2, ReuploadFields
  <1> HIDE DEF e
  <1>4. \A p \in UPLOADS : b.job.st[p] \notin Under
    BY <1>1 DEF Under, BusyStates
  <1> QED
    BY <1>1, <1>2, <1>3, <1>4, DispatchNowEvicts DEF UPLOADS, Providers

LEMMA DeadlinePassesEvicts ==
  ASSUME IndInv, OverLimitOnlyBusy, NEW id, NEW p \in Providers, DeadlinePasses(id, p)
  PROVE  EvictionStep
PROOF
  <1>1. /\ id \in DOMAIN jobs
        /\ jobs' = [jobs EXCEPT ![id].job.st[p] = "RetryDue"]
        /\ historyLimit' = historyLimit
    BY DEF DeadlinePasses
  <1>2. jobs[id] \in Entry /\ jobs[id].job \in Job /\ jobs[id].job.st \in [Providers -> States]
    BY <1>1, EntryParts DEF IndInv, TypeOK
  <1>3. /\ DOMAIN jobs' = DOMAIN jobs /\ jobs'[id].job.st[p] = "RetryDue"
        /\ \A i \in DOMAIN jobs \ {id} : jobs'[i] = jobs[i]
    BY <1>1, <1>2 DEF Entry, Job
  <1>4. Busy(jobs'[id])
    BY <1>3 DEF Busy, BusyStates, ScheduledStates
  <1> QED
    BY <1>1, <1>3, <1>4, UntrimmedStep

LEMMA NextEvicts ==
  ASSUME IndInv, OverLimitOnlyBusy, Next
  PROVE  EvictionStep
PROOF
  <1>1. CASE \E enabled \in SUBSET Installed : AddPending(enabled)
    BY <1>1, AddPendingEvicts
  <1>2. CASE \E r \in inflight : TakeResult(r)
    <2>1. PICK r \in inflight : \E outcome \in OutcomesOf(r.provider) :
                                  AcceptResult(r, outcome) \/ RejectResult(r, outcome)
      BY <1>2 DEF TakeResult
    <2>2. PICK outcome \in OutcomesOf(r.provider) : AcceptResult(r, outcome) \/ RejectResult(r, outcome)
      BY <2>1
    <2>3. outcome \in AllOutcomes
      BY CoordinatorAssumption DEF OutcomesOf
    <2>4. CASE RejectResult(r, outcome)
      BY <2>4, UntrimmedStep DEF RejectResult
    <2> QED
      BY <2>2, <2>3, <2>4, TrimmingCalls
  <1>3. CASE \E id \in Ids, p \in Providers : DeadlinePasses(id, p)
    BY <1>3, DeadlinePassesEvicts
  <1>4. CASE \E id \in Ids : UserAction(id)
    BY <1>4, RetryFailedEvicts, ReuploadEvicts, RechatEvicts DEF UserAction
  <1>5. CASE \E n \in 0..MaxId : \E records \in [1..n -> Records] : Restore(records)
    <2>1. PICK n \in 0..MaxId : \E records \in [1..n -> Records] : Restore(records)
      BY <1>5
    <2>2. PICK records \in [1..n -> Records] : Restore(records)
      BY <2>1
    <2>3. n \in Nat /\ records \in [1..n -> Job] /\ DOMAIN records = 1..n
      BY CoordinatorAssumption
    <2> QED
      BY <2>2, <2>3, RestoreEvicts
  <1> QED
    BY <1>1, <1>2, <1>3, <1>4, <1>5, TrimmingCalls DEF Next

-----------------------------------------------------------------------------
(* Automatic requests.                                                     *)

(* What keeps a row from sending by itself what it has sent before: who    *)
(* waits to be sent automatically was never sent, and so was no dependent  *)
(* of a dps.report that is still to succeed.  A reupload starts over, but  *)
(* with an intent of its own.                                              *)
Fresh(e) ==
  /\ \A p \in Providers : e.job.st[p] = "Waiting" /\ e.intents[p] = "Automatic" => e.job.att[p] = 0
  /\ e.job.st["DpsReport"] \in {"Waiting", "Failed"} \cup Under /\ ~e.reupload =>
       \A d \in DEPENDENTS : e.intents[d] = "Automatic" => e.job.att[d] = 0
  /\ e.reupload => \A d \in {"Wingman", "DonBot"} : e.intents[d] # "Automatic"

(* No record is that of a reupload which dps.report did not complete.      *)
SettledRecords ==
  \A record \in Records :
    record.st["DpsReport"] \in {"Failed"} \cup BusyStates =>
      \A d \in DEPENDENTS : record.att[d] = 0

(* A request of the call that has dispatched P of the row e.               *)
Replays(r) == r.intent = "Automatic" /\ r.attempt > 1

NoReplay(id, e, P, sent) ==
  \A r \in sent : /\ r.id = id /\ r.provider \in P
                  /\ Replays(r) => e.job.st[r.provider] # "Waiting"

Accumulated(acc, entry, sent) == acc = [entry |-> entry, sent |-> sent]

FreshFrom(id, e, P, acc) ==
  /\ Accumulated(acc, acc.entry, acc.sent)
  /\ acc.entry \in Entry /\ Fresh(acc.entry)
  /\ \A q \in Providers \ P : e.job.st[q] = "Waiting" => acc.entry.job.st[q] \in {"Waiting", "Skipped"}
  /\ NoReplay(id, e, P, acc.sent)

(* A dispatch that fails, with or without an attempt, or is accepted.      *)
LEMMA FailedIsFresh ==
  ASSUME NEW e \in Entry, NEW f, NEW p \in Providers, Fresh(e), FailedFrom(e, f, p),
         f.intents = e.intents,
         f.job.att[p] # e.job.att[p] => DependencyMet(e.job, p)
  PROVE  Fresh(f)
PROOF
  <1>1. e.job.st \in [Providers -> States] /\ f.job.st \in [Providers -> States]
    BY EntryParts DEF FailedFrom
  <1>2. \A q \in Providers : f.job.st[q] = "Waiting" => /\ e.job.st[q] = "Waiting"
                                                        /\ f.job.att[q] = e.job.att[q]
    BY DEF FailedFrom, BusyStates
  <1>3. f.job.st["DpsReport"] \in {"Waiting", "Failed"} \cup Under =>
          e.job.st["DpsReport"] \in {"Waiting", "Failed"} \cup Under
    BY DEF FailedFrom, Providers, DEPENDENTS, Under, BusyStates
  <1>4. ASSUME NEW d \in DEPENDENTS, f.job.st["DpsReport"] \in {"Waiting", "Failed"} \cup Under
        PROVE  f.job.att[d] = e.job.att[d]
    <2>1. d \in Providers /\ d # "DpsReport" /\ "DpsReport" \in Providers
      BY DEF DEPENDENTS, Providers
    <2>2. CASE d # p
      BY <2>1, <2>2 DEF FailedFrom
    <2>3. CASE d = p /\ f.job.att[p] # e.job.att[p]
      <3>1. e.job.st["DpsReport"] \in {"Disabled", "Succeeded"}
        BY <2>1, <2>3 DEF DependencyMet, HasReport
      <3> QED
        BY <1>3, <1>4, <3>1 DEF Under, ScheduledStates
    <2> QED
      BY <2>2, <2>3
  <1>5. f.reupload = e.reupload
    BY DEF FailedFrom
  <1> QED
    BY <1>2, <1>3, <1>4, <1>5 DEF Fresh

LEMMA ActiveIsFresh ==
  ASSUME NEW e \in Entry, NEW a, NEW p \in Providers, Fresh(e), ActiveFrom(e, a, p),
         a.intents = e.intents, DependencyMet(e.job, p),
         e.job.st[p] \in {"Waiting"} \cup ScheduledStates
  PROVE  Fresh(a)
PROOF
  <1>1. e.job.st \in [Providers -> States] /\ e.job.att \in [Providers -> 0..AttemptLimit]
    BY EntryParts
  <1>2. /\ a.job.st[p] = "Active"
        /\ \A q \in Providers \ {p} : a.job.st[q] = e.job.st[q] /\ a.job.att[q] = e.job.att[q]
    BY <1>1 DEF ActiveFrom
  <1>3. a.reupload = e.reupload
    BY DEF ActiveFrom
  <1>4. ASSUME NEW d \in DEPENDENTS, a.job.st["DpsReport"] \in {"Waiting", "Failed"} \cup Under, ~e.reupload,
               e.intents[d] = "Automatic"
        PROVE  a.job.att[d] = 0
    <2>1. d \in Providers /\ d # "DpsReport" /\ "DpsReport" \in Providers
      BY DEF DEPENDENTS, Providers
    <2>2. CASE p = "DpsReport"
      BY <1>2, <1>4, <2>1, <2>2 DEF Fresh, Under
    <2>3. CASE p # "DpsReport"
      <3>1. e.job.st["DpsReport"] \in {"Disabled", "Succeeded"}
        BY <2>3 DEF DependencyMet, HasReport
      <3> QED
        BY <1>2, <1>4, <2>1, <2>3, <3>1 DEF Under, ScheduledStates
    <2> QED
      BY <2>2, <2>3
  <1>5. \A q \in Providers : a.job.st[q] = "Waiting" /\ a.intents[q] = "Automatic" => a.job.att[q] = 0
    BY <1>2 DEF Fresh
  <1> QED
    BY <1>3, <1>4, <1>5 DEF Fresh

(* A failed dispatch keeps the intents.                                    *)
LEMMA FailDispatchIntents ==
  ASSUME NEW e \in Entry, NEW p \in Providers
  PROVE  FailDispatch(e, p).intents = e.intents /\ FailDispatch(e, p).job.att = e.job.att
  BY FailDispatchFields

(* One more destination of the call.                                       *)
LEMMA FreshMore ==
  ASSUME NEW id, NEW e, NEW P, NEW acc, FreshFrom(id, e, P, acc), NEW p, NEW f \in Entry, Fresh(f),
         \A q \in Providers \ {p} : acc.entry.job.st[q] \in {"Waiting", "Skipped"} =>
                                      f.job.st[q] \in {"Waiting", "Skipped"},
         NEW sent, NoReplay(id, e, P \cup {p}, sent), NEW d, Accumulated(d, f, sent)
  PROVE  FreshFrom(id, e, P \cup {p}, d)
PROOF
  <1>1. d.entry = f /\ d.sent = sent
    BY DEF Accumulated
  <1>2. Accumulated(d, d.entry, d.sent)
    BY <1>1
  <1>3. \A q \in Providers \ (P \cup {p}) : e.job.st[q] = "Waiting" => f.job.st[q] \in {"Waiting", "Skipped"}
    BY DEF FreshFrom
  <1> QED
    BY <1>1, <1>2, <1>3 DEF FreshFrom

LEMMA DispatchFresh ==
  ASSUME NEW id, NEW e, NEW P \in SUBSET Providers, NEW acc, FreshFrom(id, e, P, acc),
         NEW p \in Providers \ P, NEW answer
  PROVE  FreshFrom(id, e, P \cup {p}, Dispatch(id, acc, p, answer))
PROOF
  <1> DEFINE x == acc.entry
             a == [x EXCEPT !.job = Moved(@, p, "Active")]
             d == Dispatch(id, acc, p, answer)
             r == RequestOf(id, a, p, answer = "Accepted")
  <1>1. /\ x \in Entry /\ Fresh(x) /\ p \in Providers
        /\ acc = [entry |-> x, sent |-> acc.sent]
        /\ e.job.st[p] = "Waiting" => x.job.st[p] \in {"Waiting", "Skipped"}
        /\ NoReplay(id, e, P, acc.sent)
    BY DEF FreshFrom, Accumulated
  <1>2. FreshFrom(id, e, P, acc)
    OBVIOUS
  <1>3. x.job \in Job /\ x.job.st \in [Providers -> States] /\ x.job.att \in [Providers -> 0..AttemptLimit]
    BY <1>1, EntryParts
  <1>4. NoReplay(id, e, P \cup {p}, acc.sent)
    BY <1>1 DEF NoReplay
  <1>5. ASSUME NEW f, FailedFrom(x, f, p)
        PROVE  /\ f \in Entry
               /\ \A q \in Providers \ {p} : x.job.st[q] \in {"Waiting", "Skipped"} =>
                                               f.job.st[q] \in {"Waiting", "Skipped"}
    BY <1>5 DEF FailedFrom
  <1>6. CASE p = "Wingman" /\ x.job.meta = "WvW"
    <2> DEFINE j == TryTransition(x.job, "Wingman", "Skipped")
               f == [x EXCEPT !.job = j]
    <2>1. Accumulated(d, f, acc.sent)
      BY <1>1, <1>6 DEF Dispatch, Accumulated
    <2>2. /\ j \in Job /\ j.att = x.job.att
          /\ \A q \in Providers \ {"Wingman"} : j.st[q] = x.job.st[q]
          /\ j.st["Wingman"] = "Waiting" => x.job.st["Wingman"] = "Waiting"
      <3>1. "Skipped" \in States /\ "Skipped" # "Active"
        BY DEF States
      <3>2. CASE j = x.job
        BY <1>3, <3>2
      <3>3. CASE j = Moved(x.job, "Wingman", "Skipped")
        <4> DEFINE m == Moved(x.job, "Wingman", "Skipped")
        <4>1. "Wingman" \in Providers /\ x.job \in Job
          BY <1>3 DEF Providers
        <4>2. /\ m \in Job /\ m.st = [x.job.st EXCEPT !["Wingman"] = "Skipped"]
              /\ m.att = [x.job.att EXCEPT !["Wingman"] = x.job.att["Wingman"]]
          BY <3>1, <4>1, MovedFields
        <4>3. j = m
          BY <3>3
        <4> HIDE DEF j, m, x
        <4> QED
          BY <1>3, <4>1, <4>2, <4>3
      <3> QED
        BY <3>2, <3>3 DEF TryTransition
    <2> HIDE DEF j
    <2>3. f \in Entry /\ f.job = j /\ f.intents = x.intents /\ f.reupload = x.reupload
      BY <1>1, <2>2 DEF Entry
    <2> HIDE DEF f
    <2>4. Fresh(f)
      BY <1>1, <2>2, <2>3 DEF Fresh, Providers, DEPENDENTS
    <2>5. \A q \in Providers \ {p} : acc.entry.job.st[q] \in {"Waiting", "Skipped"} =>
                                       f.job.st[q] \in {"Waiting", "Skipped"}
      BY <1>6, <2>2, <2>3
    <2> HIDE DEF d, x
    <2> QED
      BY ONLY <1>2, <1>4, <2>1, <2>3, <2>4, <2>5, FreshMore DEF d
  <1>7. CASE ~(p = "Wingman" /\ x.job.meta = "WvW") /\ ~Admissible(x.job, p)
    <2> DEFINE f == FailDispatch(x, p)
    <2>1. Accumulated(d, f, acc.sent)
      BY <1>1, <1>7 DEF Dispatch, Accumulated
    <2>2. FailedFrom(x, f, p)
      BY <1>1, FailureIsFailedFrom
    <2>3. f.intents = x.intents /\ f.job.att = x.job.att
      BY <1>1, FailDispatchIntents
    <2> HIDE DEF f
    <2>4. Fresh(f)
      BY <1>1, <2>2, <2>3, FailedIsFresh
    <2>5. /\ f \in Entry
          /\ \A q \in Providers \ {p} : acc.entry.job.st[q] \in {"Waiting", "Skipped"} =>
                                          f.job.st[q] \in {"Waiting", "Skipped"}
      BY <1>5, <2>2
    <2> HIDE DEF d, x
    <2> QED
      BY ONLY <1>2, <1>4, <2>1, <2>4, <2>5, FreshMore DEF d
  <1>8. CASE ~(p = "Wingman" /\ x.job.meta = "WvW") /\ Admissible(x.job, p)
    <2>1. d = [entry |-> IF answer = "Accepted" THEN a ELSE FailDispatch(a, p),
               sent |-> IF answer = "Refused" THEN acc.sent ELSE acc.sent \cup {r}]
      BY <1>8 DEF Dispatch
    <2>2. a.intents = x.intents
      BY <1>1 DEF Entry
    <2>3. /\ ActiveFrom(x, a, p) /\ a \in Entry
          /\ x.job.st[p] \in {"Waiting"} \cup ScheduledStates
      BY <1>1, <1>8, ActivateFields DEF ActiveFrom
    <2>4. DependencyMet(x.job, p)
      BY <1>8 DEF Admissible
    <2>5. r.id = id /\ r.provider = p /\ r.intent = a.intents[p] /\ r.attempt = a.job.att[p]
      BY DEF RequestOf
    <2> HIDE DEF a, d, r, x
    <2>6. a.job.att[p] = x.job.att[p] + 1 /\ x.job.att[p] \in Nat
      BY <1>1, <1>3, <2>3 DEF ActiveFrom
    <2>7. Replays(r) => x.job.st[p] # "Waiting"
      <3>1. x.job.st[p] = "Waiting" /\ x.intents[p] = "Automatic" => x.job.att[p] = 0
        BY <1>1 DEF Fresh
      <3>2. r.intent = x.intents[p] /\ r.attempt = x.job.att[p] + 1
        BY <2>2, <2>5, <2>6
      <3> QED
        BY <3>1, <3>2 DEF Replays
    <2>8. Replays(r) => e.job.st[p] # "Waiting"
      BY <1>1, <2>3, <2>7 DEF ScheduledStates
    <2> DEFINE f == IF answer = "Accepted" THEN a ELSE FailDispatch(a, p)
               sent == IF answer = "Refused" THEN acc.sent ELSE acc.sent \cup {r}
    <2>9. NoReplay(id, e, P \cup {p}, sent)
      BY <1>4, <2>5, <2>8 DEF NoReplay
    <2>10. Fresh(a)
      BY <1>1, <2>2, <2>3, <2>4, ActiveIsFresh
    <2>11. FailedFrom(x, FailDispatch(a, p), p) /\ FailDispatch(a, p).intents = x.intents
      BY <1>1, <2>2, <2>3, FailureIsFailedFrom, FailDispatchIntents
    <2>12. Fresh(FailDispatch(a, p)) /\ FailDispatch(a, p) \in Entry
      BY <1>1, <2>4, <2>11, FailedIsFresh DEF FailedFrom
    <2>13. f \in Entry /\ Fresh(f)
      BY <2>3, <2>10, <2>12
    <2>14. \A q \in Providers \ {p} : a.job.st[q] = x.job.st[q]
      BY <1>3, <2>3 DEF ActiveFrom
    <2>15. \A q \in Providers \ {p} : acc.entry.job.st[q] \in {"Waiting", "Skipped"} =>
                                        f.job.st[q] \in {"Waiting", "Skipped"}
      <3>1. \A q \in Providers \ {p} : x.job.st[q] \in {"Waiting", "Skipped"} =>
                                         FailDispatch(a, p).job.st[q] \in {"Waiting", "Skipped"}
        BY <1>5, <2>11
      <3> QED
        BY <2>14, <3>1 DEF x
    <2> HIDE DEF f, sent
    <2>16. Accumulated(d, f, sent)
      BY <2>1 DEF f, sent, Accumulated
    <2> QED
      BY ONLY <1>2, <2>9, <2>13, <2>15, <2>16, FreshMore DEF d
  <1> QED
    BY <1>6, <1>7, <1>8

(* The whole call.                                                         *)
LEMMA DispatchEachFresh ==
  ASSUME NEW id, NEW e \in Entry, Fresh(e), NEW P \in SUBSET Providers, NEW answers
  PROVE  LET d == DispatchEach(id, e, P, answers)
         IN d.entry \in Entry /\ Fresh(d.entry) /\ NoReplay(id, e, P, d.sent)
PROOF
  <1> DEFINE Step(acc, p) == IF p \in P THEN Dispatch(id, acc, p, answers[p]) ELSE acc
             a0 == [entry |-> e, sent |-> {}]
             a1 == Step(a0, "DpsReport")
             a2 == Step(a1, "Wingman")
             a3 == Step(a2, "DonBot")
             a4 == Step(a3, "Twitch")
  <1>1. FreshFrom(id, e, {}, a0)
    BY DEF FreshFrom, NoReplay, Accumulated
  <1>2. ASSUME NEW acc, NEW Q \in SUBSET Providers, NEW p \in Providers \ Q, FreshFrom(id, e, P \cap Q, acc)
        PROVE  FreshFrom(id, e, P \cap (Q \cup {p}), Step(acc, p))
    <2>1. CASE p \in P
      <3>1. P \cap (Q \cup {p}) = (P \cap Q) \cup {p} /\ P \cap Q \in SUBSET Providers /\ p \in Providers \ (P \cap Q)
        BY <2>1
      <3>2. FreshFrom(id, e, (P \cap Q) \cup {p}, Dispatch(id, acc, p, answers[p]))
        BY <1>2, <3>1, DispatchFresh
      <3> QED
        BY <2>1, <3>1, <3>2
    <2>2. CASE p \notin P
      <3>1. P \cap (Q \cup {p}) = P \cap Q
        BY <2>2
      <3> QED
        BY <1>2, <2>2, <3>1
    <2> QED
      BY <2>1, <2>2
  <1>3. DispatchEach(id, e, P, answers) = a4
    BY DEF DispatchEach
  <1> HIDE DEF Step, a0
  <1>4. /\ "DpsReport" \in Providers /\ "Wingman" \in Providers /\ "DonBot" \in Providers
        /\ "Twitch" \in Providers
    BY DEF Providers
  <1>5. FreshFrom(id, e, P \cap {}, a0)
    <2>1. P \cap {} = {}
      OBVIOUS
    <2> QED
      BY <1>1, <2>1
  <1>6. FreshFrom(id, e, P \cap ({} \cup {"DpsReport"}), a1)
    BY <1>2, <1>4, <1>5
  <1> HIDE DEF a1
  <1>7. FreshFrom(id, e, P \cap (({} \cup {"DpsReport"}) \cup {"Wingman"}), a2)
    BY <1>2, <1>4, <1>6
  <1> HIDE DEF a2
  <1>8. FreshFrom(id, e, P \cap ((({} \cup {"DpsReport"}) \cup {"Wingman"}) \cup {"DonBot"}), a3)
    BY <1>2, <1>4, <1>7
  <1> HIDE DEF a3
  <1>9. FreshFrom(id, e, P \cap (((({} \cup {"DpsReport"}) \cup {"Wingman"}) \cup {"DonBot"}) \cup {"Twitch"}), a4)
    BY <1>2, <1>4, <1>8
  <1> HIDE DEF a4
  <1>10. P \cap (((({} \cup {"DpsReport"}) \cup {"Wingman"}) \cup {"DonBot"}) \cup {"Twitch"}) = P
    BY DEF Providers
  <1>11. FreshFrom(id, e, P, a4)
    BY <1>9, <1>10
  <1> QED
    BY <1>3, <1>11 DEF FreshFrom

(* Every row keeps to it, and only a due retry is repeated automatically.  *)
FreshInv == \A id \in DOMAIN jobs : Fresh(jobs[id])

OnlyDueReplays ==
  \A r \in inflight' \ inflight : Replays(r) => jobs[r.id].job.st[r.provider] = "RetryDue"

FreshStep == FreshInv' /\ OnlyDueReplays

(* A row that begins to wait for nothing stays fresh.                      *)
LEMMA FreshKept ==
  ASSUME NEW e, Fresh(e), NEW f, f.job.att = e.job.att, f.intents = e.intents, f.reupload = e.reupload,
         \A q \in Providers : f.job.st[q] = "Waiting" => e.job.st[q] = "Waiting",
         f.job.st["DpsReport"] \in {"Waiting", "Failed"} \cup Under =>
           e.job.st["DpsReport"] \in {"Waiting", "Failed"} \cup Under
  PROVE  Fresh(f)
  BY DEF Fresh

(* A table all of whose rows are fresh, trimmed or not.                    *)
LEMMA FreshTable ==
  ASSUME NEW t, \A i \in DOMAIN t : Fresh(t[i]),
         jobs' = t \/ \E limit : jobs' = TrimTo(t, limit)
  PROVE  FreshInv'
PROOF
  <1>1. DOMAIN jobs' \subseteq DOMAIN t /\ \A i \in DOMAIN jobs' : jobs'[i] = t[i]
    BY TrimKeeps
  <1> QED
    BY <1>1 DEF FreshInv

(* A call that dispatches destinations which wait.                         *)
LEMMA FreshCall ==
  ASSUME FreshInv, NEW id \in DOMAIN jobs, NEW e \in Entry, Fresh(e), NEW P \in SUBSET Providers,
         \A p \in P : e.job.st[p] = "Waiting", NEW answers,
         LET done == DispatchEach(id, e, P, answers)
         IN /\ \/ jobs' = Put(jobs, id, done.entry)
               \/ jobs' = TrimTo(Put(jobs, id, done.entry), historyLimit)
            /\ inflight' \subseteq inflight \cup done.sent
  PROVE  FreshStep
PROOF
  <1> DEFINE d == DispatchEach(id, e, P, answers)
             t == Put(jobs, id, d.entry)
  <1>1. Fresh(d.entry) /\ NoReplay(id, e, P, d.sent)
    BY DispatchEachFresh
  <1>2. /\ jobs' = t \/ jobs' = TrimTo(t, historyLimit)
        /\ inflight' \subseteq inflight \cup d.sent
    OBVIOUS
  <1> HIDE DEF d
  <1>3. \A i \in DOMAIN t : Fresh(t[i])
    BY <1>1, PutDomain DEF FreshInv
  <1> HIDE DEF t
  <1>4. FreshInv'
    BY <1>2, <1>3, FreshTable
  <1>5. \A r \in d.sent : ~Replays(r)
    BY <1>1 DEF NoReplay
  <1> QED
    BY <1>2, <1>4, <1>5 DEF FreshStep, OnlyDueReplays

LEMMA SetMetadataFresh ==
  ASSUME IndInv, FreshInv, NEW id, NEW meta \in {"PvE", "WvW"}, SetMetadata(id, meta)
  PROVE  FreshStep
PROOF
  <1> DEFINE b == [jobs[id] EXCEPT !.job.meta = meta, !.pending = FALSE]
             e == SkipWingmanOnWvW(b)
             P == IF e.job.st["DpsReport"] = "Waiting" THEN {"DpsReport"}
                  ELSE WaitingIn(e, {"Wingman", "DonBot"})
  <1>1. id \in DOMAIN jobs /\ jobs[id] \in Entry
    BY IndInvIsRows DEF SetMetadata, MetadataPending, Rows
  <1>2. /\ b \in Entry /\ b.reupload = jobs[id].reupload /\ b.intents = jobs[id].intents
        /\ b.job.st = jobs[id].job.st /\ b.job.att = jobs[id].job.att
    BY <1>1 DEF Entry, Job, Metadata
  <1>3. PICK answers \in [P -> EnqueueOutcomes] :
          LET done == DispatchEach(id, e, P, answers)
          IN /\ jobs' = TrimTo(Put(jobs, id, done.entry), historyLimit)
             /\ inflight' = inflight \cup done.sent
    BY DEF SetMetadata
  <1> HIDE DEF b
  <1>4. /\ e \in Entry /\ e.reupload = b.reupload /\ e.intents = b.intents /\ e.job.att = b.job.att
        /\ e.job.st["Wingman"] = "Waiting" => b.job.st["Wingman"] = "Waiting"
        /\ \A p \in Providers \ {"Wingman"} : e.job.st[p] = b.job.st[p]
    BY <1>2, SkipWingmanFields, SkipWingmanIntents
  <1> HIDE DEF e
  <1>5. P \in SUBSET Providers /\ \A p \in P : e.job.st[p] = "Waiting"
    BY DEF WaitingIn, Providers
  <1> HIDE DEF P
  <1>6. Fresh(jobs[id])
    BY <1>1 DEF FreshInv
  <1>7. Fresh(e)
    <2>1. /\ e.job.att = jobs[id].job.att /\ e.intents = jobs[id].intents /\ e.reupload = jobs[id].reupload
          /\ \A q \in Providers : e.job.st[q] = "Waiting" => jobs[id].job.st[q] = "Waiting"
          /\ e.job.st["DpsReport"] = jobs[id].job.st["DpsReport"]
      BY <1>2, <1>4 DEF Providers
    <2> QED
      BY <1>6, <2>1, FreshKept
  <1> QED
    BY <1>1, <1>3, <1>4, <1>5, <1>7, FreshCall

LEMMA FailMetadataFresh ==
  ASSUME IndInv, FreshInv, NEW id, NEW cancelled \in BOOLEAN, FailMetadata(id, cancelled)
  PROVE  FreshStep
PROOF
  <1> DEFINE b == jobs[id]
             f == WithoutMetadata(b, cancelled)
             t == Put(jobs, id, f)
  <1>1. id \in DOMAIN jobs /\ b \in Entry /\ Fresh(b)
        /\ \A p \in Providers : b.job.st[p] \in {"Waiting", "Disabled"}
    BY IndInvIsRows DEF FailMetadata, MetadataPending, Rows, FreshInv
  <1>2. jobs' = TrimTo(t, historyLimit) /\ inflight' = inflight
    BY DEF FailMetadata
  <1>3. /\ f.reupload = b.reupload /\ f.intents = b.intents /\ f.job.att = b.job.att
        /\ \A p \in Providers : f.job.st[p] = IF b.job.st[p] = "Waiting"
                                              THEN IF cancelled THEN "Cancelled" ELSE "Failed"
                                              ELSE b.job.st[p]
    <2> HIDE DEF b
    <2> QED
      BY <1>1, WithoutMetadataFields
  <1> HIDE DEF f
  <1>4. Fresh(f)
    <2>1. \A q \in Providers : f.job.st[q] = "Waiting" => b.job.st[q] = "Waiting"
      BY <1>3
    <2>2. f.job.st["DpsReport"] \in {"Waiting", "Failed"} \cup Under =>
            b.job.st["DpsReport"] \in {"Waiting", "Failed"} \cup Under
      BY <1>1, <1>3 DEF Providers
    <2> QED
      BY <1>1, <1>3, <2>1, <2>2, FreshKept
  <1>5. \A i \in DOMAIN t : Fresh(t[i])
    BY <1>1, <1>4, PutDomain DEF FreshInv
  <1> HIDE DEF t
  <1>6. FreshInv'
    BY <1>2, <1>5, FreshTable
  <1> QED
    BY <1>2, <1>6 DEF FreshStep, OnlyDueReplays

LEMMA AcceptResultFresh ==
  ASSUME IndInv, FreshInv, NEW r \in inflight, NEW outcome \in OutcomesOf(r.provider),
         AcceptResult(r, outcome)
  PROVE  FreshStep
PROOF
  <1> DEFINE b == jobs[r.id]
             p == r.provider
             a == AppliedJob(b.job, p, outcome)
             f == [b EXCEPT !.job = AppliedJob(@, p, outcome)]
             e == AfterResult(f, p, outcome)
             P == Released(f, p, outcome)
  <1>1. Acceptable(r, outcome) /\ outcome # "Malformed"
    BY DEF AcceptResult, Acceptable
  <1>2. r.id \in DOMAIN jobs /\ p \in Providers /\ b.job.st[p] = "Active" /\ b \in Entry
    BY <1>1, AcceptedRow DEF Sound
  <1>3. PICK answers \in [P -> EnqueueOutcomes] :
          LET done == DispatchEach(r.id, e, P, answers)
          IN /\ jobs' = TrimTo(Put(jobs, r.id, done.entry), historyLimit)
             /\ inflight' = (inflight \ {r}) \cup done.sent
    BY DEF AcceptResult
  <1>4. Fresh(b)
    BY <1>2 DEF FreshInv
  <1>5. b.job \in Job /\ outcome \in OutcomesOf(p) \ {"Malformed"} /\ b.job.st \in [Providers -> States]
    BY <1>1, <1>2, EntryParts
  <1>6. /\ a \in Job /\ a.att = b.job.att /\ a.st = [b.job.st EXCEPT ![p] = NextState(outcome)]
        /\ NextState(outcome) \in {"Succeeded", "Skipped", "RetryScheduled", "Failed", "Cancelled"}
    <2> DEFINE job == b.job
    <2> HIDE DEF job, p
    <2> QED
      BY <1>2, <1>5, AppliedFields DEF job
  <1> HIDE DEF a
  <1>7. f \in Entry /\ f.job = a /\ f.intents = b.intents /\ f.reupload = b.reupload
    BY <1>2, <1>6 DEF Entry, a
  <1> HIDE DEF f
  <1>8. Fresh(f)
    <2>1. \A q \in Providers : f.job.st[q] = "Waiting" => b.job.st[q] = "Waiting"
      BY <1>5, <1>6, <1>7
    <2>2. f.job.st["DpsReport"] \in {"Waiting", "Failed"} \cup Under =>
            b.job.st["DpsReport"] \in {"Waiting", "Failed"} \cup Under
      <3>1. CASE p = "DpsReport"
        BY <1>2, <3>1 DEF Under
      <3>2. CASE p # "DpsReport"
        BY <1>5, <1>6, <1>7, <3>2 DEF Providers
      <3> QED
        BY <3>1, <3>2
    <2>3. f.job.att = b.job.att
      BY <1>6, <1>7
    <2> HIDE DEF b
    <2> QED
      BY <1>4, <1>7, <2>1, <2>2, <2>3, FreshKept
  <1>9. e = f \/ (p = "DpsReport" /\ \E state \in {"Skipped", "Cancelled"} : e = SettleDependents(f, state))
    BY DEF AfterResult
  <1>10. e \in Entry /\ Fresh(e)
    <2>1. ASSUME NEW state \in {"Skipped", "Cancelled"}
          PROVE  SettleDependents(f, state) \in Entry /\ Fresh(SettleDependents(f, state))
      <3> DEFINE s == SettleDependents(f, state)
      <3>1. /\ s \in Entry /\ s.reupload = f.reupload /\ s.intents = f.intents /\ s.job.att = f.job.att
            /\ s.job.st = [q \in Providers |->
                             IF q \in DEPENDENTS /\ Settles(f, q) /\ f.job.st[q] = "Waiting"
                             THEN state ELSE f.job.st[q]]
        BY <1>7, SettleFields
      <3> HIDE DEF s
      <3>2. /\ \A q \in Providers : s.job.st[q] = "Waiting" => f.job.st[q] = "Waiting"
            /\ s.job.st["DpsReport"] = f.job.st["DpsReport"]
        BY <3>1 DEF Providers, DEPENDENTS
      <3>3. Fresh(s)
        BY <1>8, <3>1, <3>2, FreshKept
      <3> QED
        BY <3>1, <3>3 DEF s
    <2> HIDE DEF e
    <2> QED
      BY <1>7, <1>8, <1>9, <2>1
  <1>11. P \in SUBSET Providers /\ \A q \in P : e.job.st[q] = "Waiting"
    <2>1. P \in SUBSET Providers /\ \A q \in P : f.job.st[q] = "Waiting"
      BY DEF Released, WaitingIn, DEPENDENTS, Providers
    <2>2. P = {} \/ outcome = "Succeeded"
      BY DEF Released
    <2>3. outcome = "Succeeded" => NextState(outcome) = "Succeeded"
      BY Zenon DEF NextState
    <2>4. outcome = "Succeeded" => e = f
      BY <2>3 DEF AfterResult
    <2> HIDE DEF P, e
    <2> QED
      BY <2>1, <2>2, <2>4
  <1>12. LET done == DispatchEach(r.id, e, P, answers)
         IN /\ jobs' = TrimTo(Put(jobs, r.id, done.entry), historyLimit)
            /\ inflight' \subseteq inflight \cup done.sent
    BY <1>3
  <1> HIDE DEF e, P, b
  <1> QED
    BY <1>2, <1>10, <1>11, <1>12, FreshCall

LEMMA DeadlinePassesFresh ==
  ASSUME IndInv, FreshInv, NEW id, NEW p \in Providers, DeadlinePasses(id, p)
  PROVE  FreshStep
PROOF
  <1> DEFINE b == jobs[id]
             f == jobs'[id]
  <1>1. /\ id \in DOMAIN jobs /\ b.job.st[p] = "RetryScheduled"
        /\ jobs' = [jobs EXCEPT ![id].job.st[p] = "RetryDue"]
        /\ inflight' = inflight
    BY DEF DeadlinePasses
  <1>2. b \in Entry /\ b.job \in Job /\ b.job.st \in [Providers -> States] /\ Fresh(b)
    BY <1>1, EntryParts DEF IndInv, TypeOK, FreshInv
  <1>3. /\ DOMAIN jobs' = DOMAIN jobs
        /\ \A i \in DOMAIN jobs \ {id} : jobs'[i] = jobs[i]
        /\ f.job.st = [b.job.st EXCEPT ![p] = "RetryDue"]
        /\ f.job.att = b.job.att /\ f.intents = b.intents /\ f.reupload = b.reupload
    BY <1>1, <1>2 DEF Entry, Job
  <1> HIDE DEF b, f
  <1>4. Fresh(f)
    <2>1. \A q \in Providers : f.job.st[q] = "Waiting" => b.job.st[q] = "Waiting"
      BY <1>2, <1>3
    <2>2. f.job.st["DpsReport"] \in {"Waiting", "Failed"} \cup Under =>
            b.job.st["DpsReport"] \in {"Waiting", "Failed"} \cup Under
      BY <1>1, <1>2, <1>3 DEF Under, ScheduledStates, Providers
    <2> QED
      BY <1>2, <1>3, <2>1, <2>2, FreshKept
  <1>5. FreshInv'
    BY <1>3, <1>4 DEF FreshInv, f
  <1> QED
    BY <1>1, <1>5 DEF FreshStep, OnlyDueReplays

LEMMA DueRetriesFresh ==
  ASSUME IndInv, FreshInv, DispatchDueRetries
  PROVE  FreshStep
PROOF
  <1> DEFINE P(id) == {p \in Providers : <<id, p>> \in Swept}
             Answers(a, id) == [p \in {q \in Providers : <<id, q>> \in Swept} |-> a[<<id, p>>]]
             Done(a) == [id \in DOMAIN jobs |-> DispatchEach(id, jobs[id], P(id), Answers(a, id))]
  <1>1. PICK a \in [Swept -> EnqueueOutcomes] :
          /\ jobs' = TrimTo([id \in DOMAIN jobs |-> Done(a)[id].entry], historyLimit)
          /\ inflight' = inflight \cup UNION {Done(a)[id].sent : id \in DOMAIN jobs}
    BY DEF DispatchDueRetries
  <1>2. ASSUME NEW id \in DOMAIN jobs
        PROVE  P(id) \in SUBSET Providers /\ \A p \in P(id) : jobs[id].job.st[p] = "RetryDue"
    BY DEF Swept, Due, DueAt
  <1> DEFINE d == Done(a)
             S == UNION {d[id].sent : id \in DOMAIN jobs}
             t == [id \in DOMAIN jobs |-> d[id].entry]
  <1>3. ASSUME NEW id \in DOMAIN jobs
        PROVE  /\ Fresh(d[id].entry)
               /\ \A r \in d[id].sent : r.id = id /\ jobs[id].job.st[r.provider] = "RetryDue"
    <2> DEFINE e == jobs[id]
               Pid == P(id)
               ans == Answers(a, id)
               x == DispatchEach(id, e, Pid, ans)
    <2>1. e \in Entry /\ Fresh(e)
      BY IndInvIsRows DEF Rows, FreshInv
    <2>2. Pid \in SUBSET Providers /\ \A p \in Pid : e.job.st[p] = "RetryDue"
      BY <1>2
    <2>3. d[id] = x
      OBVIOUS
    <2>4. Fresh(x.entry) /\ NoReplay(id, e, Pid, x.sent)
      <3> HIDE DEF e, Pid, ans
      <3> QED
        BY <2>1, <2>2, DispatchEachFresh
    <2> HIDE DEF d, x, Pid
    <2> QED
      BY <2>2, <2>3, <2>4 DEF NoReplay
  <1> HIDE DEF P, Answers, Done, d
  <1>4. \A r \in S : \E id \in DOMAIN jobs : r \in d[id].sent
    OBVIOUS
  <1>5. DOMAIN t = DOMAIN jobs /\ \A id \in DOMAIN jobs : t[id] = d[id].entry
    OBVIOUS
  <1>6. jobs' = TrimTo(t, historyLimit) /\ inflight' = inflight \cup S
    BY <1>1 DEF d
  <1> HIDE DEF S, t
  <1>7. FreshInv'
    BY <1>3, <1>5, <1>6, FreshTable
  <1>8. OnlyDueReplays
    BY <1>3, <1>4, <1>6 DEF OnlyDueReplays
  <1> QED
    BY <1>7, <1>8 DEF FreshStep

LEMMA CancelAllFresh ==
  ASSUME IndInv, FreshInv, CancelAll
  PROVE  FreshStep
PROOF
  <1> DEFINE t == [id \in DOMAIN jobs |-> CancelledEntry(jobs[id])]
  <1>1. ASSUME NEW id \in DOMAIN jobs
        PROVE  Fresh(t[id])
    <2> DEFINE b == jobs[id]
               c == CancelledEntry(b)
    <2>1. b \in Entry /\ Fresh(b)
      BY IndInvIsRows DEF Rows, FreshInv
    <2>2. /\ \A p \in Providers : c.job.st[p] = IF b.job.st[p] \in BusyStates THEN "Cancelled" ELSE b.job.st[p]
          /\ c.job.att = b.job.att /\ c.intents = b.intents /\ c.reupload = b.reupload
      BY <2>1 DEF CancelledEntry, Entry, Job
    <2>3. t[id] = c
      OBVIOUS
    <2> HIDE DEF b, c
    <2>4. \A p \in Providers : c.job.st[p] = "Waiting" => b.job.st[p] = "Waiting"
      BY <2>2
    <2>5. c.job.st["DpsReport"] \in {"Waiting", "Failed"} \cup Under =>
            b.job.st["DpsReport"] \in {"Waiting", "Failed"} \cup Under
      BY <2>2 DEF Providers, Under, ScheduledStates, BusyStates
    <2>6. Fresh(c)
      BY <2>1, <2>2, <2>4, <2>5, FreshKept
    <2> QED
      BY <2>3, <2>6
  <1>2. DOMAIN t = DOMAIN jobs
    OBVIOUS
  <1>3. jobs' = TrimTo(t, historyLimit) /\ inflight' = {}
    BY DEF CancelAll
  <1> HIDE DEF t
  <1>4. FreshInv'
    BY <1>1, <1>2, <1>3, FreshTable
  <1> QED
    BY <1>3, <1>4 DEF FreshStep, OnlyDueReplays

(* A user action: one destination, which waits.                            *)
LEMMA DispatchNowFresh ==
  ASSUME FreshInv, NEW id \in DOMAIN jobs, NEW e \in Entry, Fresh(e), NEW p \in Providers,
         e.job.st[p] = "Waiting", DispatchNow(id, e, p)
  PROVE  FreshStep
PROOF
  <1>1. PICK answer \in EnqueueOutcomes :
          LET done == DispatchEach(id, e, {p}, [x \in {p} |-> answer])
          IN /\ jobs' = Put(jobs, id, done.entry)
             /\ inflight' = inflight \cup done.sent
    BY DEF DispatchNow
  <1> DEFINE answers == [x \in {p} |-> answer]
             P == {p}
  <1>2. LET done == DispatchEach(id, e, P, answers)
        IN /\ jobs' = Put(jobs, id, done.entry)
           /\ inflight' \subseteq inflight \cup done.sent
    BY <1>1
  <1>3. P \in SUBSET Providers /\ \A q \in P : e.job.st[q] = "Waiting"
    OBVIOUS
  <1> HIDE DEF answers, P
  <1> QED
    BY <1>2, <1>3, FreshCall

(* Retry gives its destination an intent of the user.  What a retry of     *)
(* dps.report arms with it was never sent, or has the intent of the        *)
(* reupload.                                                               *)
LEMMA RetryFailedFresh ==
  ASSUME IndInv, FreshInv, NEW id, NEW p \in Providers, RetryFailed(id, p)
  PROVE  FreshStep
PROOF
  <1> DEFINE b == jobs[id]
             x == RetryJob(b, p)
             e == [b EXCEPT !.job = RetryJob(b, p), !.intents[p] = RetryIntent(@)]
  <1>1. /\ id \in DOMAIN jobs /\ b.job.st[p] = "Failed" /\ DispatchNow(id, e, p)
    BY DEF RetryFailed, CanRetryManually
  <1>2. b \in Entry /\ b.intents \in [Providers -> Intents] /\ Fresh(b)
    BY <1>1, EntryParts DEF IndInv, TypeOK, FreshInv
  <1>3. /\ x \in Job /\ x.att = b.job.att /\ x.st[p] = "Waiting"
        /\ \A q \in Providers \ {p} :
             \/ x.st[q] = b.job.st[q]
             \/ /\ q = "Twitch" => ~b.reupload
                /\ p = "DpsReport" /\ x.st[q] = "Waiting"
    BY <1>2, RetryFields
  <1> HIDE DEF x
  <1>4. /\ e \in Entry /\ e.job = x /\ e.reupload = b.reupload
        /\ e.intents[p] # "Automatic" /\ \A q \in Providers \ {p} : e.intents[q] = b.intents[q]
    BY <1>2, <1>3 DEF Entry, Intents, RetryIntent, x
  <1> HIDE DEF e, b
  <1>5. Fresh(e)
    <2>1. "DpsReport" \in Providers /\ \A d \in DEPENDENTS : d \in Providers /\ d # "DpsReport"
      BY DEF Providers, DEPENDENTS
    <2>2. ASSUME NEW q \in Providers, e.job.st[q] = "Waiting", e.intents[q] = "Automatic"
          PROVE  e.job.att[q] = 0
      <3>1. q # p /\ b.intents[q] = "Automatic"
        BY <1>4, <2>2
      <3>2. CASE x.st[q] = b.job.st[q]
        BY <1>2, <1>3, <1>4, <2>2, <3>1, <3>2 DEF Fresh
      <3>3. CASE x.st[q] # b.job.st[q]
        <4>1. p = "DpsReport" /\ (q = "Twitch" => ~b.reupload)
          BY <1>3, <3>1, <3>3
        <4>2. q \in DEPENDENTS /\ ~b.reupload
          BY <1>2, <3>1, <4>1 DEF Fresh, DEPENDENTS, Providers
        <4> QED
          BY <1>1, <1>2, <1>3, <1>4, <3>1, <4>1, <4>2 DEF Fresh
      <3> QED
        BY <3>2, <3>3
    <2>3. ASSUME e.job.st["DpsReport"] \in {"Waiting", "Failed"} \cup Under, ~e.reupload,
                 NEW d \in DEPENDENTS, e.intents[d] = "Automatic"
          PROVE  e.job.att[d] = 0
      <3>1. d # p /\ b.intents[d] = "Automatic"
        BY <1>4, <2>1, <2>3
      <3>2. b.job.st["DpsReport"] \in {"Waiting", "Failed"} \cup Under
        BY <1>1, <1>3, <1>4, <2>1, <2>3
      <3> QED
        BY <1>2, <1>3, <1>4, <2>3, <3>1, <3>2 DEF Fresh
    <2>4. e.reupload => \A d \in {"Wingman", "DonBot"} : e.intents[d] # "Automatic"
      BY <1>2, <1>4 DEF Fresh, Providers
    <2> QED
      BY <2>2, <2>3, <2>4 DEF Fresh
  <1> QED
    BY <1>1, <1>3, <1>4, <1>5, DispatchNowFresh

LEMMA ReuploadFresh ==
  ASSUME IndInv, FreshInv, NEW id, Reupload(id)
  PROVE  FreshStep
PROOF
  <1> DEFINE b == jobs[id]
             e == ReuploadEntry(b)
  <1>1. id \in DOMAIN jobs /\ DispatchNow(id, e, "DpsReport")
    BY DEF Reupload
  <1>2. b \in Entry /\ Fresh(b) /\ "DpsReport" \in Providers
    BY <1>1 DEF IndInv, TypeOK, FreshInv, Providers
  <1>3. /\ e \in Entry /\ e.reupload = TRUE /\ e.job.att = b.job.att
        /\ e.job.st["Twitch"] = b.job.st["Twitch"] /\ e.job.st["DpsReport"] = "Waiting"
        /\ \A p \in Providers : e.intents[p] = IF p \in UPLOADS THEN "Reupload" ELSE b.intents[p]
    BY <1>2, ReuploadFields
  <1> HIDE DEF b, e
  <1>4. Fresh(e)
    BY <1>2, <1>3 DEF Fresh, Providers, UPLOADS
  <1> QED
    BY <1>1, <1>2, <1>3, <1>4, DispatchNowFresh DEF b

LEMMA RechatFresh ==
  ASSUME IndInv, FreshInv, NEW id, Rechat(id)
  PROVE  FreshStep
PROOF
  <1> DEFINE b == jobs[id]
             x == PrepareExplicitDelivery(b.job, "Twitch")
             e == [b EXCEPT !.job = PrepareExplicitDelivery(@, "Twitch"),
                            !.intents["Twitch"] = "Rechat"]
  <1>1. id \in DOMAIN jobs /\ DispatchNow(id, e, "Twitch")
    BY DEF Rechat
  <1>2. /\ b \in Entry /\ b.job \in Job /\ "Twitch" \in Providers /\ b.intents \in [Providers -> Intents]
        /\ b.job.st \in [Providers -> States] /\ Fresh(b)
    BY <1>1, EntryParts DEF IndInv, TypeOK, FreshInv, Providers
  <1>3. x \in Job /\ x.att = b.job.att /\ x.st = [b.job.st EXCEPT !["Twitch"] = "Waiting"]
    BY <1>2, ExplicitFields
  <1> HIDE DEF x
  <1>4. /\ e \in Entry /\ e.job = x /\ e.reupload = b.reupload
        /\ e.intents = [b.intents EXCEPT !["Twitch"] = "Rechat"]
    BY <1>2, <1>3 DEF Entry, Intents, x
  <1> HIDE DEF e, b
  <1>5. /\ \A q \in Providers \ {"Twitch"} : e.job.st[q] = b.job.st[q] /\ e.intents[q] = b.intents[q]
        /\ e.job.st["Twitch"] = "Waiting" /\ e.intents["Twitch"] = "Rechat"
        /\ e.job.att = b.job.att
    BY <1>2, <1>3, <1>4
  <1>6. Fresh(e)
    BY <1>2, <1>4, <1>5 DEF Fresh, Providers, DEPENDENTS
  <1> QED
    BY <1>1, <1>2, <1>4, <1>5, <1>6, DispatchNowFresh

LEMMA AddPendingFresh ==
  ASSUME FreshInv, NEW enabled, AddPending(enabled)
  PROVE  FreshStep
PROOF
  <1> DEFINE base == TrimTo(jobs, historyLimit - 1)
             new == NewEntry(NewJob(enabled), TRUE)
             t == Put(base, nextId, new)
  <1>1. \A i \in DOMAIN base : Fresh(base[i])
    BY TrimKeeps DEF FreshInv
  <1>2. new.reupload = FALSE /\ \A p \in Providers : new.job.att[p] = 0
    BY DEF NewEntry, NewJob
  <1>3. jobs' = t /\ inflight' = inflight
    BY DEF AddPending, WithPending
  <1> HIDE DEF base, new
  <1>4. Fresh(new)
    BY <1>2 DEF Fresh, DEPENDENTS, Providers
  <1>5. \A i \in DOMAIN t : Fresh(t[i])
    BY <1>1, <1>4 DEF Put
  <1> HIDE DEF t
  <1>6. FreshInv'
    BY <1>3, <1>5, FreshTable
  <1> QED
    BY <1>3, <1>6 DEF FreshStep, OnlyDueReplays

LEMMA RestoreFresh ==
  ASSUME IndInv, SettledRecords, NEW n \in Nat, NEW records \in [1..n -> Records], Restore(records)
  PROVE  FreshStep
PROOF
  <1> DEFINE skip == IF Len(records) > historyLimit THEN Len(records) - historyLimit ELSE 0
             kept == Len(records) - skip
             t == [id \in 1..kept |-> NewEntry(RestoredJob(records[skip + id]), FALSE)]
  <1>1. Len(records) = n /\ n \in Nat /\ historyLimit \in Nat
    BY IndInvIsRows
  <1>2. jobs' = t /\ inflight' = inflight
    BY DEF Restore
  <1>3. skip \in Nat /\ kept \in Nat /\ skip + kept = n
    BY <1>1
  <1> HIDE DEF skip, kept
  <1>4. ASSUME NEW record \in Records
        PROVE  Fresh(NewEntry(RestoredJob(record), FALSE))
    <2> DEFINE j == RestoredJob(record)
               e == NewEntry(j, FALSE)
    <2>1. record \in Job
      BY CoordinatorAssumption
    <2>2. /\ j.att = record.att
          /\ \A p \in Providers : j.st[p] = IF record.st[p] \in BusyStates THEN "Failed" ELSE record.st[p]
      BY <2>1 DEF RestoredJob, Job
    <2> HIDE DEF j
    <2>3. e.job = j /\ e.reupload = FALSE
      BY DEF NewEntry
    <2> HIDE DEF e
    <2>4. \A p \in Providers : j.st[p] # "Waiting"
      BY <2>2 DEF BusyStates
    <2>5. j.st["DpsReport"] \in {"Waiting", "Failed"} \cup Under =>
            record.st["DpsReport"] \in {"Failed"} \cup BusyStates
      BY <2>2 DEF BusyStates, Under, Providers
    <2>6. \A d \in DEPENDENTS : j.st["DpsReport"] \in {"Waiting", "Failed"} \cup Under => j.att[d] = 0
      BY <2>2, <2>5 DEF SettledRecords
    <2>7. Fresh(e)
      BY <2>3, <2>4, <2>6 DEF Fresh
    <2> QED
      BY <2>7 DEF e, j
  <1>5. \A id \in 1..kept : skip + id \in 1..n
    BY <1>1, <1>3
  <1>6. \A id \in DOMAIN t : Fresh(t[id])
    BY <1>4, <1>5
  <1> HIDE DEF t
  <1>7. FreshInv'
    BY <1>2, <1>6, FreshTable
  <1> QED
    BY <1>2, <1>7 DEF FreshStep, OnlyDueReplays

LEMMA NextFresh ==
  ASSUME SettledRecords, IndInv, FreshInv, Next
  PROVE  FreshStep
PROOF
  <1>1. CASE \E enabled \in SUBSET Installed : AddPending(enabled)
    BY <1>1, AddPendingFresh
  <1>2. CASE \E id \in Ids : TakeMetadata(id)
    BY <1>2, SetMetadataFresh, FailMetadataFresh DEF TakeMetadata
  <1>3. CASE \E r \in inflight : TakeResult(r)
    <2>1. ASSUME NEW r, NEW outcome, RejectResult(r, outcome)
          PROVE  FreshStep
      BY <2>1 DEF RejectResult, FreshStep, FreshInv, OnlyDueReplays
    <2> QED
      BY <1>3, <2>1, AcceptResultFresh DEF TakeResult
  <1>4. CASE \E id \in Ids, p \in Providers : DeadlinePasses(id, p)
    BY <1>4, DeadlinePassesFresh
  <1>5. CASE DispatchDueRetries
    BY <1>5, DueRetriesFresh
  <1>6. CASE \E id \in Ids : UserAction(id)
    BY <1>6, RetryFailedFresh, ReuploadFresh, RechatFresh DEF UserAction
  <1>7. CASE \E n \in 0..MaxId : \E records \in [1..n -> Records] : Restore(records)
    <2>1. PICK n \in 0..MaxId : \E records \in [1..n -> Records] : Restore(records)
      BY <1>7
    <2>2. PICK records \in [1..n -> Records] : Restore(records)
      BY <2>1
    <2>3. n \in Nat
      BY CoordinatorAssumption
    <2> QED
      BY <2>2, <2>3, RestoreFresh
  <1>8. ASSUME NEW limit, SetHistoryLimit(limit)
        PROVE  FreshStep
    <2>1. jobs' = TrimTo(jobs, limit) /\ inflight' = inflight
      BY <1>8 DEF SetHistoryLimit
    <2>2. FreshInv'
      BY <2>1, FreshTable DEF FreshInv
    <2> QED
      BY <2>1, <2>2 DEF FreshStep, OnlyDueReplays
  <1>9. CASE CancelAll
    BY <1>9, CancelAllFresh
  <1> QED
    BY <1>1, <1>2, <1>3, <1>4, <1>5, <1>6, <1>7, <1>8, <1>9 DEF Next

-----------------------------------------------------------------------------
(* The invariant.                                                          *)

LEMMA InitHolds == Init => IndInv
  <1> SUFFICES ASSUME Init
               PROVE  IndInv
    OBVIOUS
  <1>1. DOMAIN jobs = {} /\ jobs = [id \in {} |-> NewEntry(NewJob({}), FALSE)]
    BY DEF Init, NoJobs
  <1>2. jobs \in [DOMAIN jobs -> Entry]
    BY <1>1
  <1>3. nextId \in 1..(MaxId + 1)
    BY CoordinatorAssumption DEF Init
  <1> QED
    BY <1>1, <1>2, <1>3 DEF Init, IndInv, TypeOK

LEMMA StutterKeeps ==
  ASSUME IndInv, UNCHANGED vars
  PROVE  IndInv'
  <1>1. Rows(jobs', inflight', nextId')
    BY IndInvIsRows DEF vars
  <1> QED
    BY <1>1, IndInvIsRows DEF vars, IndInv, TypeOK, Rows

LEMMA NextKeeps ==
  ASSUME "Malformed" \notin Outcomes, IndInv, Next
  PROVE  IndInv'
PROOF
  <1>1. CASE \E enabled \in SUBSET Installed : AddPending(enabled)
    BY <1>1, AddPendingKeeps
  <1>2. CASE \E id \in Ids : TakeMetadata(id)
    BY <1>2, SetMetadataKeeps, FailMetadataKeeps DEF TakeMetadata
  <1>3. CASE \E r \in inflight : TakeResult(r)
    BY <1>3, AcceptResultKeeps, RejectResultKeeps DEF TakeResult
  <1>4. CASE \E id \in Ids, p \in Providers : DeadlinePasses(id, p)
    BY <1>4, DeadlinePassesKeeps
  <1>5. CASE DispatchDueRetries
    BY <1>5, DispatchDueRetriesKeeps
  <1>6. CASE \E id \in Ids : UserAction(id)
    BY <1>6, RetryFailedKeeps, ReuploadKeeps, RechatKeeps DEF UserAction
  <1>7. CASE \E n \in 0..MaxId : \E records \in [1..n -> Records] : Restore(records)
    BY <1>7, RestoreKeeps
  <1>8. CASE \E limit \in 1..MaxHistoryLimit : SetHistoryLimit(limit)
    BY <1>8, SetHistoryLimitKeeps
  <1>9. CASE CancelAll
    BY <1>9, CancelAllKeeps
  <1> QED
    BY <1>1, <1>2, <1>3, <1>4, <1>5, <1>6, <1>7, <1>8, <1>9 DEF Next

(* While every port answers with a well-formed outcome, which the adapters *)
(* under src/rust/src/providers see to, the inductive invariant holds.     *)
THEOREM Invariance ==
  ASSUME "Malformed" \notin Outcomes
  PROVE  Spec => []IndInv
PROOF
  <1>1. IndInv /\ [Next]_vars => IndInv'
    BY NextKeeps, StutterKeeps
  <1> QED
    BY <1>1, InitHolds, PTL DEF Spec

(* Every variable stays in its type: attempt numbers and job ids never     *)
(* leave the integer widths the code gives them.                           *)
THEOREM TypeCorrect ==
  ASSUME "Malformed" \notin Outcomes
  PROVE  Spec => []TypeOK
PROOF
  <1>1. IndInv => TypeOK
    BY DEF IndInv
  <1> QED
    BY <1>1, Invariance, PTL

(* No row is stranded: a destination that waits is waited for by a pending *)
(* parse or by a dps.report attempt that is under way or scheduled.        *)
THEOREM NoRowIsStranded ==
  ASSUME "Malformed" \notin Outcomes
  PROVE  Spec => []WaitingHasWaker
PROOF
  <1>1. IndInv => WaitingHasWaker
    <2> SUFFICES ASSUME IndInv, NEW id \in DOMAIN jobs, NEW p \in Providers,
                        jobs[id].job.st[p] = "Waiting", ~jobs[id].pending
                 PROVE  /\ p # "DpsReport"
                        /\ jobs[id].job.st["DpsReport"] \in {"Active"} \cup ScheduledStates
      BY DEF WaitingHasWaker
    <2>1. RoutedInv(jobs[id], {})
      BY DEF IndInv, RowInv
    <2> QED
      BY <2>1 DEF RoutedInv, Under, Providers, DEPENDENTS
  <1> QED
    BY <1>1, Invariance, PTL

(* Acknowledged requests and active attempts are the same thing: no row is *)
(* Active with no answer to come, none is evicted or re-armed under one.   *)
THEOREM ActiveMeansInFlight ==
  ASSUME "Malformed" \notin Outcomes
  PROVE  Spec => []ActiveIffInFlight
PROOF
  <1>1. IndInv => ActiveIffInFlight
    BY DEF IndInv, Matched, ActiveIffInFlight
  <1> QED
    BY <1>1, Invariance, PTL

(* An upload in flight carries the report its row still has.               *)
THEOREM UploadsCarryTheReport ==
  ASSUME "Malformed" \notin Outcomes
  PROVE  Spec => []UploadsUseCurrentReport
PROOF
  <1>1. IndInv => UploadsUseCurrentReport
    <2> SUFFICES ASSUME IndInv, NEW r \in inflight, r.acked,
                        r.provider \in {"Wingman", "DonBot"}
                 PROVE  /\ r.report = jobs[r.id].job.report
                        /\ jobs[r.id].job.st["DpsReport"] =
                             IF r.report = 0 THEN "Disabled" ELSE "Succeeded"
      BY DEF UploadsUseCurrentReport
    <2> DEFINE e == jobs[r.id]
    <2>1. r.id \in DOMAIN jobs /\ RowInv(e) /\ Matched(r.id, e, inflight)
      BY DEF IndInv
    <2>2. e.job.st[r.provider] = "Active" /\ r.report = e.job.report
      BY <2>1 DEF Matched
    <2>3. r.provider \in Providers
      BY DEF Providers
    <2>4. RoutedInv(e, {})
      BY <2>1, <2>2, <2>3 DEF RowInv, PendingInv
    <2>5. e.job.st["DpsReport"] \in {"Disabled", "Succeeded"}
      BY <2>2, <2>4 DEF RoutedInv, Under
    <2>6. ReportKept(e.job)
      BY <2>1 DEF RowInv
    <2> QED
      BY <2>2, <2>5, <2>6 DEF ReportKept
  <1> QED
    BY <1>1, Invariance, PTL

(* The retained report is the one of the latest dps.report attempt.        *)
THEOREM ReportIsOfLatestAttempt ==
  ASSUME "Malformed" \notin Outcomes
  PROVE  Spec => []ReportIsLatest
PROOF
  <1>1. IndInv => ReportIsLatest
    BY DEF IndInv, RowInv, ReportKept, ReportIsLatest
  <1> QED
    BY <1>1, Invariance, PTL

(* Rows and deliveries agree on the latest report.                         *)
THEOREM ReportsAlwaysCurrent ==
  ASSUME "Malformed" \notin Outcomes
  PROVE  Spec => []ReportsAreCurrent
PROOF
  <1>1. ReportIsLatest /\ UploadsUseCurrentReport => ReportsAreCurrent
    BY DEF ReportsAreCurrent
  <1> QED
    BY <1>1, UploadsCarryTheReport, ReportIsOfLatestAttempt, PTL

(* trim_to runs wherever a row can become idle: the table is over its      *)
(* limit only by rows that are all busy.                                   *)
THEOREM OverLimitIsAlwaysBusy ==
  ASSUME "Malformed" \notin Outcomes
  PROVE  Spec => []OverLimitOnlyBusy
PROOF
  <1>1. Init => OverLimitOnlyBusy
    BY DEF Init, NoJobs, OverLimitOnlyBusy, Idle
  <1>2. IndInv /\ OverLimitOnlyBusy /\ [Next]_vars => OverLimitOnlyBusy'
    <2>1. ASSUME UNCHANGED vars, OverLimitOnlyBusy
          PROVE  OverLimitOnlyBusy'
      BY <2>1 DEF vars, OverLimitOnlyBusy, Idle
    <2> QED
      BY <2>1, NextEvicts DEF EvictionStep
  <1> QED
    BY <1>1, <1>2, Invariance, PTL DEF Spec

(* Eviction takes the oldest idle rows and enough of them.                 *)
THEOREM OldestIdleGoFirst ==
  ASSUME "Malformed" \notin Outcomes
  PROVE  Spec => EvictsOldestIdle
PROOF
  <1>1. IndInv /\ OverLimitOnlyBusy /\ [Next]_vars => [EvictionStep]_vars
    BY NextEvicts
  <1>2. EvictsOldestIdle <=> [][EvictionStep]_vars
    BY DEF EvictsOldestIdle, EvictionStep
  <1> QED
    BY <1>1, <1>2, Invariance, OverLimitIsAlwaysBusy, PTL DEF Spec

(* No row sends by itself what it has sent before, but for a retry that a  *)
(* provider asked for, as long as no record is that of a reupload which    *)
(* dps.report did not complete.                                            *)
THEOREM NoRowReplays ==
  ASSUME "Malformed" \notin Outcomes, SettledRecords
  PROVE  Spec => NoAutomaticReplay
PROOF
  <1>1. Init => FreshInv
    BY DEF Init, NoJobs, FreshInv
  <1>2. IndInv /\ FreshInv /\ [Next]_vars => FreshInv' /\ [OnlyDueReplays]_vars
    <2>1. ASSUME UNCHANGED vars, FreshInv
          PROVE  FreshInv'
      BY <2>1 DEF vars, FreshInv
    <2> QED
      BY <2>1, NextFresh DEF FreshStep
  <1>3. NoAutomaticReplay <=> [][OnlyDueReplays]_vars
    BY DEF NoAutomaticReplay, OnlyDueReplays, Replays
  <1> QED
    BY <1>1, <1>2, <1>3, Invariance, PTL DEF Spec

(***************************************************************************)
(* Part two: UploadSession.                                                *)
(***************************************************************************)

-----------------------------------------------------------------------------
(* Sets of ids in their order.                                             *)

(* InOrder lists every element once.                                       *)
LEMMA InOrderFacts ==
  ASSUME NEW S \in SUBSET Nat, IsFiniteSet(S)
  PROVE  /\ Cardinality(S) \in Nat
         /\ DOMAIN InOrder(S) = 1..Cardinality(S)
         /\ \A i \in 1..Cardinality(S) : InOrder(S)[i] \in S
         /\ \A i, j \in 1..Cardinality(S) : InOrder(S)[i] = InOrder(S)[j] => i = j
         /\ \A x \in S : \E i \in 1..Cardinality(S) : InOrder(S)[i] = x
PROOF
  <1> DEFINE n == Cardinality(S)
             o == InOrder(S)
  <1>0. /\ n \in Nat
        /\ \A x \in S : Place(S, x) \in 1..n
        /\ \A x, y \in S : x < y => Place(S, x) < Place(S, y)
        /\ \A i \in 1..n : \E x \in S : Place(S, x) = i
    BY PlaceFacts
  <1>1. o = [i \in 1..n |-> CHOOSE x \in S : Place(S, x) = i]
    BY DEF InOrder, Place
  <1> HIDE DEF o, n
  <1>2. \A i \in 1..n : o[i] \in S /\ Place(S, o[i]) = i
    BY <1>0, <1>1
  <1>3. \A i, j \in 1..n : o[i] = o[j] => i = j
    BY <1>2
  <1>4. ASSUME NEW x \in S
        PROVE  \E i \in 1..n : o[i] = x
    <2>1. Place(S, x) \in 1..n
      BY <1>0
    <2>2. o[Place(S, x)] \in S /\ Place(S, o[Place(S, x)]) = Place(S, x)
      BY <1>2, <2>1
    <2> DEFINE k == Place(S, x)
               z == o[k]
    <2>3. x \in Nat /\ z \in Nat /\ k \in Nat /\ z \in S /\ Place(S, z) = k
      <3>1. z \in S /\ Place(S, z) = k
        BY <2>2
      <3>2. \A y \in S : y \in Nat
        OBVIOUS
      <3>3. k \in Nat
        BY <1>0, <2>1
      <3> QED
        BY <3>1, <3>2, <3>3
    <2>4. z < x => Place(S, z) < k
      BY <1>0, <2>3
    <2>5. x < z => k < Place(S, z)
      BY <1>0, <2>3
    <2> HIDE DEF k, z
    <2>6. z = x
      BY <2>3, <2>4, <2>5
    <2> QED
      BY <2>1, <2>6 DEF z, k
  <1> QED
    BY <1>0, <1>1, <1>2, <1>3, <1>4 DEF n, o

-----------------------------------------------------------------------------
(* The history document.                                                   *)

JobKept(job) == job \in Job /\ ReportKept(job) /\ ReceiptsKept(job)

(* A list of records, of any length.                                       *)
Listing(d) ==
  /\ d \in Seq(Record)
  /\ \A i \in 1..Len(d) : JobKept(d[i].job)
  /\ \A i, j \in 1..Len(d) : d[i].file = d[j].file => i = j

Document(d) == Listing(d) /\ Len(d) <= HistoryCapacity

Rowed == {files[id] : id \in DOMAIN jobs}

OneRowEach == \A i, j \in DOMAIN jobs : files[i] = files[j] => i = j

(* Dropping the oldest records leaves a document.                          *)
LEMMA NewestIsDocument ==
  ASSUME NEW d, Listing(d)
  PROVE  /\ Document(Newest(d))
         /\ FilesOn(Newest(d)) \subseteq FilesOn(d)
         /\ Len(d) <= HistoryCapacity => Newest(d) = d
         /\ \A i \in DOMAIN Newest(d) : \E j \in 1..Len(d) : Newest(d)[i] = d[j]
PROOF
  <1>1. HistoryCapacity \in Nat /\ HistoryCapacity # 0
    BY SessionAssumption
  <1>2. d \in Seq(Record) /\ Len(d) \in Nat
    BY DEF Listing
  <1>3. CASE Len(d) <= HistoryCapacity
    <2>1. Newest(d) = d /\ DOMAIN d = 1..Len(d)
      BY <1>1, <1>2, <1>3 DEF Newest
    <2> QED
      BY <1>3, <2>1 DEF Document
  <1>4. CASE ~(Len(d) <= HistoryCapacity)
    <2> DEFINE k == Len(d) - HistoryCapacity
               s == SubSeq(d, k + 1, Len(d))
    <2>1. Newest(d) = s
      BY <1>1, <1>2, <1>4 DEF Newest
    <2>2. k \in Nat /\ k + 1 \in 1..Len(d) /\ k + HistoryCapacity = Len(d)
      BY <1>1, <1>2, <1>4
    <2>3. /\ s \in Seq(Record) /\ Len(s) = HistoryCapacity
          /\ \A i \in 1..HistoryCapacity : s[i] = d[k + i]
      <3>1. \A i \in k + 1..Len(d) : d[i] \in Record
        BY <1>2, <2>2
      <3>2. Len(s) = Len(d) - (k + 1) + 1 /\ s \in Seq(Record)
        BY <1>2, <2>2, <3>1, SubSeqProperties
      <3>3. \A i \in 1..(Len(d) - (k + 1) + 1) : s[i] = d[k + 1 + i - 1]
        BY <1>2, <2>2, SubSeqProperties
      <3>4. Len(d) - (k + 1) + 1 = HistoryCapacity
        BY <1>1, <1>2
      <3>5. \A i \in 1..HistoryCapacity : k + 1 + i - 1 = k + i
        BY <1>1, <2>2
      <3> QED
        BY <3>2, <3>3, <3>4, <3>5
    <2> HIDE DEF s, k
    <2>4. \A i \in 1..HistoryCapacity : k + i \in 1..Len(d)
      BY <1>1, <2>2
    <2>5. \A i, j \in 1..HistoryCapacity : k + i = k + j => i = j
      BY <1>1, <2>2
    <2>6. \A i \in 1..Len(s) : JobKept(s[i].job)
      BY <2>3, <2>4 DEF Listing
    <2>7. \A i, j \in 1..Len(s) : s[i].file = s[j].file => i = j
      BY <2>3, <2>4, <2>5 DEF Listing
    <2>8. Document(s)
      BY <1>1, <2>3, <2>6, <2>7 DEF Document, Listing
    <2>9. FilesOn(s) \subseteq FilesOn(d)
      <3>1. DOMAIN s = 1..HistoryCapacity /\ DOMAIN d = 1..Len(d)
        BY <1>2, <2>3
      <3> QED
        BY <2>3, <2>4, <3>1 DEF FilesOn
    <2>10. \A i \in DOMAIN s : \E j \in 1..Len(d) : s[i] = d[j]
      <3>1. DOMAIN s = 1..HistoryCapacity
        BY <2>3
      <3> QED
        BY <2>3, <2>4, <3>1
    <2> QED
      BY <1>4, <2>1, <2>8, <2>9, <2>10
  <1> QED
    BY <1>3, <1>4

(* Every identity has one record, so the list is no longer than the        *)
(* identities are many.                                                    *)
LEMMA ListingIsShort ==
  ASSUME NEW d, Listing(d), IsFiniteSet(Files)
  PROVE  Len(d) <= Cardinality(Files)
PROOF
  <1> DEFINE f == [i \in 1..Len(d) |-> d[i].file]
  <1>1. d \in Seq(Record) /\ Len(d) \in Nat
    BY DEF Listing
  <1>2. \A i \in 1..Len(d) : d[i].file \in Files
    <2>1. \A i \in 1..Len(d) : d[i] \in Record
      BY <1>1
    <2> QED
      BY <2>1 DEF Record
  <1>3. f \in Injection(1..Len(d), Files)
    BY <1>2 DEF Listing, Injection, IsInjective
  <1>4. Cardinality(1..Len(d)) <= Cardinality(Files)
    BY <1>3, FS_Injection
  <1>5. Cardinality(1..Len(d)) = Len(d)
    <2>1. Cardinality(1..Len(d)) = IF 1 > Len(d) THEN 0 ELSE Len(d) - 1 + 1
      BY <1>1, FS_Interval
    <2> QED
      BY <1>1, <2>1
  <1> QED
    BY <1>4, <1>5

(* What a row contributes to the document.                                 *)
LEMMA RowIsRecord ==
  ASSUME IndInv, files \in Seq(Files), Len(files) = nextId - 1, NEW id \in DOMAIN jobs
  PROVE  /\ id \in Nat /\ id \in 1..Len(files) /\ files[id] \in Files
         /\ Row(id) \in Record /\ Row(id).file = files[id] /\ Row(id).job = jobs[id].job
         /\ JobKept(Row(id).job)
  <1>1. Rows(jobs, inflight, nextId) /\ nextId \in Nat
    BY IndInvIsRows, CoordinatorAssumption
  <1>2. id \in 1..MaxId /\ id < nextId /\ jobs[id] \in Entry /\ RowInv(jobs[id])
    BY <1>1 DEF Rows, Ids
  <1>3. id \in Nat /\ id \in 1..Len(files)
    BY <1>1, <1>2, CoordinatorAssumption
  <1>4. files[id] \in Files
    BY <1>3
  <1>5. JobKept(jobs[id].job)
    BY <1>2 DEF JobKept, RowInv, Entry
  <1> QED
    BY <1>3, <1>4, <1>5 DEF Row, Record, JobKept

(* merge_and_save: the result is a document again; it adds nothing but the *)
(* rows, has them as they are, and loses nothing where it has room for     *)
(* every log.                                                              *)
LEMMA MergedFacts ==
  ASSUME IndInv, files \in Seq(Files), Len(files) = nextId - 1, OneRowEach, Document(disk)
  PROVE  /\ Document(Merged)
         /\ FilesOn(Merged) \subseteq FilesOn(disk) \cup Rowed
         /\ \A i \in DOMAIN Merged, id \in DOMAIN jobs :
              Merged[i].file = files[id] => Merged[i] = Row(id)
         /\ IsFiniteSet(Files) /\ Cardinality(Files) <= HistoryCapacity =>
              /\ FilesOn(disk) \cup Rowed \subseteq FilesOn(Merged)
              /\ \A i \in DOMAIN disk : RowOf(disk[i].file) = {} =>
                   \E j \in DOMAIN Merged : Merged[j] = disk[i]
PROOF
  <1> DEFINE n == Len(disk)
             u == Updated
             S == FreshRows
             m == Cardinality(S)
             o == InOrder(S)
             a == RowsInOrder(S)
             M == u \o a
  <1>1. disk \in Seq(Record) /\ n \in Nat /\ DOMAIN disk = 1..n
    BY DEF Document, Listing
  <1>2. S \in SUBSET Nat /\ IsFiniteSet(S) /\ S \subseteq DOMAIN jobs
    <2>1. S \subseteq 1..MaxId /\ S \subseteq DOMAIN jobs
      BY DEF FreshRows, IndInv, TypeOK, Ids
    <2>2. IsFiniteSet(1..MaxId)
      BY CoordinatorAssumption, FS_Interval
    <2>3. IsFiniteSet(S)
      BY <2>1, <2>2, FS_Subset
    <2> QED
      BY <2>1, <2>3
  <1>3. /\ m \in Nat /\ DOMAIN o = 1..m
        /\ \A i \in 1..m : o[i] \in S
        /\ \A i, j \in 1..m : o[i] = o[j] => i = j
        /\ \A x \in S : \E i \in 1..m : o[i] = x
    BY <1>2, InOrderFacts
  <1>4. /\ u \in Seq(Record) /\ Len(u) = n
        /\ \A i \in 1..n : u[i].file = disk[i].file /\ JobKept(u[i].job)
        /\ \A i \in 1..n, id \in DOMAIN jobs : disk[i].file = files[id] => u[i] = Row(id)
        /\ \A i \in 1..n : RowOf(disk[i].file) = {} => u[i] = disk[i]
    <2>1. u = [i \in 1..n |-> IF RowOf(disk[i].file) = {} THEN disk[i]
                              ELSE Row(CHOOSE id \in RowOf(disk[i].file) : TRUE)]
      BY <1>1 DEF Updated
    <2>2. ASSUME NEW i \in 1..n
          PROVE  /\ u[i] \in Record /\ u[i].file = disk[i].file /\ JobKept(u[i].job)
                 /\ \A id \in DOMAIN jobs : disk[i].file = files[id] => u[i] = Row(id)
                 /\ RowOf(disk[i].file) = {} => u[i] = disk[i]
      <3>1. CASE RowOf(disk[i].file) = {}
        <4>1. u[i] = disk[i]
          BY <2>1, <3>1
        <4>2. \A id \in DOMAIN jobs : disk[i].file # files[id]
          BY <3>1 DEF RowOf
        <4> QED
          BY <1>1, <4>1, <4>2 DEF Document, Listing
      <3>2. CASE RowOf(disk[i].file) # {}
        <4> DEFINE id == CHOOSE k \in RowOf(disk[i].file) : TRUE
        <4>1. id \in RowOf(disk[i].file)
          BY <3>2
        <4>2. u[i] = Row(id)
          BY <2>1, <3>2
        <4> HIDE DEF id, u
        <4>3. id \in DOMAIN jobs /\ files[id] = disk[i].file
          BY <4>1 DEF RowOf
        <4>4. \A k \in DOMAIN jobs : disk[i].file = files[k] => k = id
          BY <4>3 DEF OneRowEach
        <4> QED
          BY <3>2, <4>2, <4>3, <4>4, RowIsRecord
      <3> QED
        BY <3>1, <3>2
    <2> HIDE DEF u
    <2>3. u \in [1..n -> Record]
      BY <2>1, <2>2
    <2>4. u \in Seq(Record) /\ Len(u) = n
      BY <1>1, <2>3
    <2> QED
      BY <2>2, <2>4
  <1>5. /\ a \in Seq(Record) /\ Len(a) = m
        /\ \A i \in 1..m : a[i].file = files[o[i]] /\ JobKept(a[i].job) /\ a[i] = Row(o[i])
    <2>1. a = [i \in 1..m |-> Row(o[i])]
      BY <1>3 DEF RowsInOrder
    <2>2. ASSUME NEW i \in 1..m
          PROVE  a[i] \in Record /\ a[i].file = files[o[i]] /\ JobKept(a[i].job) /\ a[i] = Row(o[i])
      <3>1. a[i] = Row(o[i]) /\ o[i] \in DOMAIN jobs
        BY <1>2, <1>3, <2>1
      <3> HIDE DEF a, o
      <3> QED
        BY <3>1, RowIsRecord
    <2> HIDE DEF a
    <2>3. a \in [1..m -> Record]
      BY <2>1, <2>2
    <2>4. a \in Seq(Record) /\ Len(a) = m
      BY <1>3, <2>3
    <2> QED
      BY <2>2, <2>4
  <1>6. Merged = Newest(M)
    BY DEF Merged
  <1>7. \A x \in S : x \in DOMAIN jobs /\ files[x] \notin FilesOn(disk)
    BY DEF FreshRows
  <1>8. \A x \in DOMAIN jobs : x \in S \/ files[x] \in FilesOn(disk)
    BY DEF FreshRows
  <1> HIDE DEF u, a, o, m, S
  <1>9. /\ M \in Seq(Record) /\ Len(M) = n + m
        /\ \A i \in 1..(n + m) : M[i] = IF i <= n THEN u[i] ELSE a[i - n]
    <2>0. u \in Seq(Record) /\ a \in Seq(Record)
      BY <1>4, <1>5
    <2>1. /\ u \o a \in Seq(Record)
          /\ Len(u \o a) = Len(u) + Len(a)
          /\ \A i \in 1..Len(u) + Len(a) : (u \o a)[i] = IF i <= Len(u) THEN u[i] ELSE a[i - Len(u)]
      BY ONLY <2>0, ConcatProperties
    <2> QED
      BY <1>4, <1>5, <2>1
  <1> HIDE DEF M, n
  <1>10. ASSUME NEW i \in 1..(n + m)
         PROVE  \/ i \in 1..n /\ M[i] = u[i] /\ M[i].file = disk[i].file /\ M[i].file \in FilesOn(disk)
                \/ i - n \in 1..m /\ M[i] = a[i - n] /\ M[i].file = files[o[i - n]]
                   /\ M[i].file \notin FilesOn(disk) /\ M[i].file \in Rowed
    <2>1. CASE i <= n
      <3>1. i \in 1..n /\ M[i] = u[i]
        BY <1>1, <1>3, <1>9, <2>1
      <3>2. disk[i].file \in FilesOn(disk)
        BY <1>1, <3>1 DEF FilesOn
      <3> QED
        BY <1>4, <3>1, <3>2
    <2>2. CASE ~(i <= n)
      <3>1. i - n \in 1..m /\ M[i] = a[i - n]
        BY <1>1, <1>3, <1>9, <2>2
      <3>2. o[i - n] \in S
        BY <1>3, <3>1
      <3> QED
        BY <1>5, <1>7, <3>1, <3>2 DEF Rowed
    <2> QED
      BY <2>1, <2>2
  <1>11. \A i \in 1..(n + m) : JobKept(M[i].job)
    BY <1>4, <1>5, <1>10
  <1>12. ASSUME NEW i \in 1..(n + m), NEW j \in 1..(n + m), M[i].file = M[j].file
         PROVE  i = j
    <2>1. CASE M[i].file \in FilesOn(disk)
      <3>1. i \in 1..n /\ j \in 1..n /\ disk[i].file = disk[j].file
        BY <1>10, <1>12, <2>1
      <3> QED
        BY <3>1 DEF Document, Listing, n
    <2>2. CASE M[i].file \notin FilesOn(disk)
      <3>1. i - n \in 1..m /\ j - n \in 1..m /\ files[o[i - n]] = files[o[j - n]]
        BY <1>10, <1>12, <2>2
      <3>2. o[i - n] \in DOMAIN jobs /\ o[j - n] \in DOMAIN jobs
        BY <1>3, <1>7, <3>1
      <3>3. o[i - n] = o[j - n]
        BY <3>1, <3>2 DEF OneRowEach
      <3>4. i - n = j - n
        BY <1>3, <3>1, <3>3
      <3> QED
        BY <1>1, <1>3, <3>4
    <2> QED
      BY <2>1, <2>2
  <1>13. Listing(M)
    BY <1>9, <1>11, <1>12 DEF Listing
  <1>14. DOMAIN M = 1..(n + m)
    BY <1>9
  <1>15. FilesOn(M) \subseteq FilesOn(disk) \cup Rowed
    BY <1>10, <1>14 DEF FilesOn
  <1>16. FilesOn(disk) \cup Rowed \subseteq FilesOn(M)
    <2>1. ASSUME NEW i \in 1..n
          PROVE  disk[i].file \in FilesOn(M)
      <3>1. i \in 1..(n + m) /\ i <= n
        BY <1>1, <1>3
      <3>2. M[i].file = disk[i].file
        BY <1>4, <1>9, <3>1
      <3> QED
        BY <1>14, <3>1, <3>2 DEF FilesOn
    <2>2. FilesOn(disk) \subseteq FilesOn(M)
      BY <1>1, <2>1 DEF FilesOn
    <2>3. ASSUME NEW x \in S
          PROVE  files[x] \in FilesOn(M)
      <3>1. PICK i \in 1..m : o[i] = x
        BY <1>3
      <3>2. n + i \in 1..(n + m) /\ ~(n + i <= n) /\ n + i - n = i
        BY <1>1, <1>3
      <3> DEFINE k == n + i
      <3>4. k \in 1..(n + m) /\ ~(k <= n) /\ k - n = i
        BY <1>1, <1>3
      <3> HIDE DEF k
      <3>5. M[k] = a[i]
        BY <1>9, <3>4
      <3>3. M[n + i].file = files[x]
        BY <1>5, <3>1, <3>5 DEF k
      <3> QED
        BY <1>14, <3>2, <3>3 DEF FilesOn
    <2>4. Rowed \subseteq FilesOn(M)
      BY <1>8, <2>2, <2>3 DEF Rowed
    <2> QED
      BY <2>2, <2>4
  <1>17. /\ Document(Merged) /\ FilesOn(Merged) \subseteq FilesOn(M)
         /\ Len(M) <= HistoryCapacity => Merged = M
         /\ \A i \in DOMAIN Merged : \E j \in 1..Len(M) : Merged[i] = M[j]
    BY <1>6, <1>13, NewestIsDocument DEF M
  <1>18. ASSUME IsFiniteSet(Files), Cardinality(Files) <= HistoryCapacity
         PROVE  Merged = M
    <2>1. Len(M) <= Cardinality(Files) /\ Cardinality(Files) \in Nat
      BY <1>13, <1>18, ListingIsShort, FS_CardinalityType
    <2>2. Len(M) <= HistoryCapacity
      BY <1>1, <1>3, <1>9, <1>18, <2>1, SessionAssumption
    <2> QED
      BY <1>17, <2>2
  <1>19. ASSUME NEW i \in 1..(n + m), NEW id \in DOMAIN jobs, M[i].file = files[id]
         PROVE  M[i] = Row(id)
    <2>1. CASE i \in 1..n /\ M[i] = u[i] /\ M[i].file = disk[i].file
      BY <1>4, <1>19, <2>1
    <2>2. CASE i - n \in 1..m /\ M[i] = a[i - n] /\ M[i].file = files[o[i - n]]
      <3>1. o[i - n] \in DOMAIN jobs /\ files[o[i - n]] = files[id]
        BY <1>3, <1>7, <1>19, <2>2
      <3>2. o[i - n] = id
        BY <3>1 DEF OneRowEach
      <3> QED
        BY <1>5, <2>2, <3>2
    <2> QED
      BY <1>10, <2>1, <2>2
  <1>20. \A i \in DOMAIN Merged, id \in DOMAIN jobs : Merged[i].file = files[id] => Merged[i] = Row(id)
    BY <1>9, <1>17, <1>19
  <1>21. ASSUME Merged = M, NEW i \in 1..n, RowOf(disk[i].file) = {}
         PROVE  \E j \in DOMAIN Merged : Merged[j] = disk[i]
    <2>1. i \in 1..(n + m) /\ i <= n
      BY <1>1, <1>3
    <2>2. M[i] = disk[i]
      BY <1>4, <1>9, <1>21, <2>1
    <2> QED
      BY <1>14, <1>21, <2>1, <2>2
  <1> QED
    BY <1>1, <1>15, <1>16, <1>17, <1>18, <1>20, <1>21

-----------------------------------------------------------------------------
(* What one call of the coordinator sends.                                 *)

(* What has succeeded of the entry e is still so in f.                     *)
Lasting(e, f) == \A p \in Providers : e.job.st[p] = "Succeeded" => f.job.st[p] = "Succeeded"

LEMMA LastingOn ==
  ASSUME NEW e, NEW f, NEW g, Lasting(e, f), Lasting(f, g)
  PROVE  Lasting(e, e) /\ Lasting(e, g)
  BY DEF Lasting

(* An entry from which the providers P have been dispatched: none of them  *)
(* waits any more, nobody has begun to wait, what had succeeded still has, *)
(* and every request has the intent of its destination.                    *)
SentBy(id, e, P, sent) ==
  \A r \in sent : r.id = id /\ r.provider \in P /\ r.intent = e.intents[r.provider]

Pairs(acc, entry, sent) == acc = [entry |-> entry, sent |-> sent]

SentFrom(id, e, P, acc) ==
  /\ Pairs(acc, acc.entry, acc.sent)
  /\ acc.entry \in Entry /\ acc.entry.intents = e.intents
  /\ \A q \in Providers : acc.entry.job.st[q] = "Waiting" => e.job.st[q] = "Waiting" /\ q \notin P
  /\ Lasting(e, acc.entry)
  /\ SentBy(id, e, P, acc.sent)

(* What a single dispatch may leave of an entry.                           *)
LeftBy(e, f, p) ==
  /\ f \in Entry /\ f.intents = e.intents
  /\ f.job.st[p] # "Waiting"
  /\ \A q \in Providers \ {p} : f.job.st[q] = "Waiting" => e.job.st[q] = "Waiting"
  /\ Lasting(e, f)

(* A failed dispatch, and the Wingman upload of a WvW log, skipped.        *)
LEMMA FailureLeaves ==
  ASSUME NEW e \in Entry, NEW p \in Providers
  PROVE  LeftBy(e, FailDispatch(e, p), p)
PROOF
  <1> DEFINE f == FailDispatch(e, p)
  <1>1. /\ f \in Entry /\ f.intents = e.intents
        /\ f.job.st[p] = IF e.job.st[p] \in BusyStates THEN "Failed" ELSE e.job.st[p]
        /\ \A q \in Providers \ {p} :
             f.job.st[q] =
               IF /\ p = "DpsReport" /\ q \in DEPENDENTS
                  /\ Settles(e, q) /\ e.job.st[q] = "Waiting"
               THEN "Skipped" ELSE e.job.st[q]
    BY FailDispatchFields
  <1> HIDE DEF f
  <1>2. f.job.st[p] # "Waiting"
    BY <1>1 DEF BusyStates
  <1>3. \A q \in Providers \ {p} : f.job.st[q] = "Waiting" => e.job.st[q] = "Waiting"
    BY <1>1
  <1>4. Lasting(e, f)
    BY <1>1 DEF Lasting, BusyStates, ScheduledStates
  <1> QED
    BY <1>1, <1>2, <1>3, <1>4 DEF LeftBy, f

LEMMA SkipLeaves ==
  ASSUME NEW e \in Entry
  PROVE  LeftBy(e, [e EXCEPT !.job = TryTransition(@, "Wingman", "Skipped")], "Wingman")
PROOF
  <1> DEFINE t == TryTransition(e.job, "Wingman", "Skipped")
             s == [e EXCEPT !.job = t]
  <1>1. /\ e.job \in Job /\ e.job.st \in [Providers -> States]
        /\ "Wingman" \in Providers /\ "Skipped" \in States /\ "Skipped" # "Active"
    BY EntryParts DEF Providers, States
  <1>2. /\ t \in Job /\ t.st["Wingman"] # "Waiting"
        /\ \A q \in Providers \ {"Wingman"} : t.st[q] = e.job.st[q]
        /\ e.job.st["Wingman"] = "Succeeded" => t.st["Wingman"] = "Succeeded"
    <2>1. CASE CanTransition(e.job, "Wingman", "Skipped")
      <3> DEFINE m == Moved(e.job, "Wingman", "Skipped")
      <3>1. t = m
        BY <2>1 DEF TryTransition
      <3>3. /\ m \in Job /\ m.meta = e.job.meta /\ m.report = e.job.report
            /\ m.receipt = e.job.receipt /\ m.st = [e.job.st EXCEPT !["Wingman"] = "Skipped"]
            /\ m.att = [e.job.att EXCEPT !["Wingman"] = e.job.att["Wingman"]]
        BY <1>1, MovedFields
      <3> HIDE DEF t
      <3> HIDE DEF m
      <3>2. t \in Job /\ t.st = [e.job.st EXCEPT !["Wingman"] = "Skipped"]
        BY <3>1, <3>3
      <3>4. e.job.st["Wingman"] # "Succeeded"
        BY <2>1 DEF CanTransition, Allows, ScheduledStates
      <3> QED
        BY <1>1, <3>2, <3>4
    <2>2. CASE ~CanTransition(e.job, "Wingman", "Skipped")
      <3>1. t = e.job
        BY <2>2 DEF TryTransition
      <3>2. e.job.st["Wingman"] # "Waiting"
        BY <1>1, <2>2 DEF CanTransition, Allows, ScheduledStates, Providers
      <3> QED
        BY <1>1, <3>1, <3>2
    <2> QED
      BY <2>1, <2>2
  <1> HIDE DEF t
  <1>3. s \in Entry /\ s.intents = e.intents /\ s.job = t
    BY <1>2 DEF Entry
  <1>4. LeftBy(e, s, "Wingman")
    BY <1>2, <1>3 DEF LeftBy, Lasting
  <1> QED
    BY <1>4 DEF t

(* One more destination of the call.                                       *)
LEMMA SentMore ==
  ASSUME NEW id, NEW e, NEW P, NEW acc, SentFrom(id, e, P, acc), NEW p,
         NEW f, LeftBy(acc.entry, f, p), NEW sent,
         SentBy(id, e, P \cup {p}, sent), NEW d, Pairs(d, f, sent)
  PROVE  SentFrom(id, e, P \cup {p}, d)
PROOF
  <1>1. /\ acc.entry \in Entry /\ acc.entry.intents = e.intents
        /\ \A q \in Providers : acc.entry.job.st[q] = "Waiting" => e.job.st[q] = "Waiting" /\ q \notin P
    BY DEF SentFrom
  <1>2. d.entry = f /\ d.sent = sent
    BY DEF Pairs
  <1>3. Pairs(d, d.entry, d.sent)
    BY <1>2
  <1>4. /\ f \in Entry /\ f.intents = acc.entry.intents
        /\ f.job.st[p] # "Waiting"
        /\ \A q \in Providers \ {p} : f.job.st[q] = "Waiting" => acc.entry.job.st[q] = "Waiting"
    BY DEF LeftBy
  <1>5. \A q \in Providers : f.job.st[q] = "Waiting" => e.job.st[q] = "Waiting" /\ q \notin P \cup {p}
    BY <1>1, <1>4
  <1>6. /\ d.entry \in Entry /\ d.entry.intents = e.intents
        /\ \A q \in Providers : d.entry.job.st[q] = "Waiting" => e.job.st[q] = "Waiting" /\ q \notin P \cup {p}
    BY <1>1, <1>2, <1>4, <1>5
  <1>7. SentBy(id, e, P \cup {p}, d.sent)
    BY <1>2
  <1>8. Lasting(e, d.entry)
    BY <1>2, LastingOn DEF SentFrom, LeftBy
  <1> QED
    BY <1>3, <1>6, <1>7, <1>8 DEF SentFrom

LEMMA DispatchSends ==
  ASSUME NEW id, NEW e, NEW P \in SUBSET Providers, NEW acc, SentFrom(id, e, P, acc),
         NEW p \in Providers, NEW answer
  PROVE  SentFrom(id, e, P \cup {p}, Dispatch(id, acc, p, answer))
PROOF
  <1> DEFINE x == acc.entry
             a == [x EXCEPT !.job = Moved(@, p, "Active")]
             d == Dispatch(id, acc, p, answer)
             r == RequestOf(id, a, p, answer = "Accepted")
  <1>1. /\ x \in Entry /\ x.intents = e.intents
        /\ acc = [entry |-> x, sent |-> acc.sent]
        /\ \A q \in Providers : x.job.st[q] = "Waiting" => e.job.st[q] = "Waiting" /\ q \notin P
        /\ \A s \in acc.sent : s.id = id /\ s.provider \in P /\ s.intent = e.intents[s.provider]
    BY DEF SentFrom, SentBy, Pairs
  <1>2. SentFrom(id, e, P, acc)
    OBVIOUS
  <1>3. CASE p = "Wingman" /\ x.job.meta = "WvW"
    <2> DEFINE f == [x EXCEPT !.job = TryTransition(@, "Wingman", "Skipped")]
    <2>1. Pairs(d, f, acc.sent)
      BY <1>1, <1>3 DEF Dispatch, Pairs
    <2>2. LeftBy(x, f, p)
      BY <1>1, <1>3, SkipLeaves
    <2>3. SentBy(id, e, P \cup {p}, acc.sent)
      BY <1>1 DEF SentBy
    <2>4. LeftBy(acc.entry, f, p)
      BY <2>2
    <2> HIDE DEF f, d, x
    <2> QED
      BY ONLY <1>2, <2>1, <2>3, <2>4, SentMore DEF d
  <1>4. CASE ~(p = "Wingman" /\ x.job.meta = "WvW") /\ ~Admissible(x.job, p)
    <2> DEFINE f == FailDispatch(x, p)
    <2>1. Pairs(d, f, acc.sent)
      BY <1>1, <1>4 DEF Dispatch, Pairs
    <2>2. LeftBy(x, f, p)
      BY <1>1, FailureLeaves
    <2>3. SentBy(id, e, P \cup {p}, acc.sent)
      BY <1>1 DEF SentBy
    <2>4. LeftBy(acc.entry, f, p)
      BY <2>2
    <2> HIDE DEF f, d, x
    <2> QED
      BY ONLY <1>2, <2>1, <2>3, <2>4, SentMore DEF d
  <1>5. CASE ~(p = "Wingman" /\ x.job.meta = "WvW") /\ Admissible(x.job, p)
    <2>1. d = [entry |-> IF answer = "Accepted" THEN a ELSE FailDispatch(a, p),
               sent |-> IF answer = "Refused" THEN acc.sent ELSE acc.sent \cup {r}]
      BY <1>5 DEF Dispatch
    <2>2. a.intents = x.intents
      BY <1>1 DEF Entry
    <2>3. ActiveFrom(x, a, p) /\ x.job.st[p] # "Succeeded"
      BY <1>1, <1>5, ActivateFields DEF ScheduledStates
    <2>4. r.id = id /\ r.provider = p /\ r.intent = x.intents[p]
      BY <2>2 DEF RequestOf
    <2> HIDE DEF a, d, r, x
    <2>5. x.job.st \in [Providers -> States]
      BY <1>1, EntryParts
    <2>6. LeftBy(x, a, p)
      BY <2>2, <2>3, <2>5 DEF ActiveFrom, LeftBy, Lasting
    <2>7. LeftBy(a, FailDispatch(a, p), p)
      BY <2>6, FailureLeaves DEF LeftBy
    <2>8. LeftBy(x, FailDispatch(a, p), p)
      BY <2>6, <2>7, LastingOn DEF LeftBy
    <2> DEFINE f == IF answer = "Accepted" THEN a ELSE FailDispatch(a, p)
               sent == IF answer = "Refused" THEN acc.sent ELSE acc.sent \cup {r}
    <2>9. LeftBy(x, f, p)
      BY <2>6, <2>8
    <2>10. SentBy(id, e, P \cup {p}, sent)
      BY <1>1, <2>4 DEF SentBy
    <2> HIDE DEF f, sent
    <2>11. Pairs(d, f, sent)
      BY <2>1 DEF f, sent, Pairs
    <2>12. LeftBy(acc.entry, f, p)
      BY <2>9 DEF x
    <2> QED
      BY ONLY <1>2, <2>10, <2>11, <2>12, SentMore DEF d
  <1> QED
    BY <1>3, <1>4, <1>5

(* The whole call.                                                         *)
LEMMA DispatchEachSends ==
  ASSUME NEW id, NEW e \in Entry, NEW P \in SUBSET Providers, NEW answers
  PROVE  SentFrom(id, e, P, DispatchEach(id, e, P, answers))
PROOF
  <1> DEFINE Step(acc, p) == IF p \in P THEN Dispatch(id, acc, p, answers[p]) ELSE acc
             a0 == [entry |-> e, sent |-> {}]
             a1 == Step(a0, "DpsReport")
             a2 == Step(a1, "Wingman")
             a3 == Step(a2, "DonBot")
             a4 == Step(a3, "Twitch")
  <1>1. SentFrom(id, e, {}, a0)
    BY DEF SentFrom, SentBy, Pairs, Lasting
  <1>2. ASSUME NEW acc, NEW Q \in SUBSET Providers, NEW p \in Providers, SentFrom(id, e, P \cap Q, acc)
        PROVE  SentFrom(id, e, P \cap (Q \cup {p}), Step(acc, p))
    <2>1. CASE p \in P
      <3>1. P \cap (Q \cup {p}) = (P \cap Q) \cup {p} /\ P \cap Q \in SUBSET Providers
        BY <2>1
      <3>2. SentFrom(id, e, (P \cap Q) \cup {p}, Dispatch(id, acc, p, answers[p]))
        BY <1>2, <3>1, DispatchSends
      <3> QED
        BY <2>1, <3>1, <3>2
    <2>2. CASE p \notin P
      <3>1. P \cap (Q \cup {p}) = P \cap Q
        BY <2>2
      <3> QED
        BY <1>2, <2>2, <3>1
    <2> QED
      BY <2>1, <2>2
  <1>3. DispatchEach(id, e, P, answers) = a4
    BY DEF DispatchEach
  <1> HIDE DEF Step, a0
  <1>4. /\ "DpsReport" \in Providers /\ "Wingman" \in Providers /\ "DonBot" \in Providers
        /\ "Twitch" \in Providers
    BY DEF Providers
  <1>5. SentFrom(id, e, P \cap {}, a0)
    <2>1. P \cap {} = {}
      OBVIOUS
    <2> QED
      BY <1>1, <2>1
  <1>6. SentFrom(id, e, P \cap ({} \cup {"DpsReport"}), a1)
    BY <1>2, <1>4, <1>5
  <1> HIDE DEF a1
  <1>7. SentFrom(id, e, P \cap (({} \cup {"DpsReport"}) \cup {"Wingman"}), a2)
    BY <1>2, <1>4, <1>6
  <1> HIDE DEF a2
  <1>8. SentFrom(id, e, P \cap ((({} \cup {"DpsReport"}) \cup {"Wingman"}) \cup {"DonBot"}), a3)
    BY <1>2, <1>4, <1>7
  <1> HIDE DEF a3
  <1>9. SentFrom(id, e, P \cap (((({} \cup {"DpsReport"}) \cup {"Wingman"}) \cup {"DonBot"}) \cup {"Twitch"}), a4)
    BY <1>2, <1>4, <1>8
  <1> HIDE DEF a4
  <1>10. P \cap (((({} \cup {"DpsReport"}) \cup {"Wingman"}) \cup {"DonBot"}) \cup {"Twitch"}) = P
    BY DEF Providers
  <1> QED
    BY <1>3, <1>9, <1>10

-----------------------------------------------------------------------------
(* Calm steps: the ones in which nobody begins to wait, and in which       *)
(* nothing that has succeeded is done again.                               *)

(* A call takes the row of id from b to f and hands over the requests sent.*)
Quiet(id, b, f, sent) ==
  /\ \A p \in Providers : f.job.st[p] = "Waiting" => b.job.st[p] = "Waiting"
  /\ Lasting(b, f)
  /\ \A r \in sent : /\ r.id = id /\ r.provider \in Providers
                     /\ b.job.st[r.provider] \in {"Waiting", "RetryDue"}
                     /\ f.job.st[r.provider] # "Waiting"

(* The same of the whole table, and of what the ports hold.                *)
CalmTo(js, t, R, Q) ==
  /\ DOMAIN t \subseteq DOMAIN js
  /\ \A id \in DOMAIN t, p \in Providers :
       t[id].job.st[p] = "Waiting" => js[id].job.st[p] = "Waiting"
  /\ \A id \in DOMAIN t : Lasting(js[id], t[id])
  /\ \A r \in Q \ R : /\ r.id \in DOMAIN js /\ r.provider \in Providers
                      /\ js[r.id].job.st[r.provider] \in {"Waiting", "RetryDue"}
                      /\ r.id \in DOMAIN t => t[r.id].job.st[r.provider] # "Waiting"

Calm == nextId' = nextId /\ CalmTo(jobs, jobs', inflight, inflight')

(* Nobody begins to wait in a dispatch; what it sends waited or was due.   *)
LEMMA DispatchIsQuiet ==
  ASSUME NEW id, NEW b, NEW e \in Entry, NEW P \in SUBSET Providers, NEW answers,
         \A p \in Providers : e.job.st[p] = "Waiting" => b.job.st[p] = "Waiting",
         \A p \in P : b.job.st[p] \in {"Waiting", "RetryDue"}, Lasting(b, e)
  PROVE  LET d == DispatchEach(id, e, P, answers) IN Quiet(id, b, d.entry, d.sent)
PROOF
  <1> DEFINE d == DispatchEach(id, e, P, answers)
  <1>1. SentFrom(id, e, P, d)
    BY DispatchEachSends
  <1> HIDE DEF d
  <1>2. Lasting(b, d.entry)
    BY <1>1, LastingOn DEF SentFrom
  <1>3. Quiet(id, b, d.entry, d.sent)
    BY <1>1, <1>2 DEF SentFrom, SentBy, Quiet
  <1> QED
    BY <1>3 DEF d

LEMMA CalmTrim ==
  ASSUME NEW js, NEW t, NEW R, NEW Q, CalmTo(js, t, R, Q), NEW limit
  PROVE  CalmTo(js, TrimTo(t, limit), R, Q)
PROOF
  <1> DEFINE u == TrimTo(t, limit)
  <1>1. DOMAIN u \subseteq DOMAIN t /\ \A i \in DOMAIN u : u[i] = t[i]
    BY TrimKeeps
  <1> HIDE DEF u
  <1>2. CalmTo(js, u, R, Q)
    BY <1>1 DEF CalmTo
  <1> QED
    BY <1>2 DEF u

LEMMA CalmPut ==
  ASSUME NEW js, NEW id \in DOMAIN js, NEW f, NEW sent, NEW R, NEW Q, Q \subseteq R \cup sent,
         Quiet(id, js[id], f, sent)
  PROVE  CalmTo(js, Put(js, id, f), R, Q)
PROOF
  <1> DEFINE t == Put(js, id, f)
  <1>1. DOMAIN t = DOMAIN js /\ t[id] = f /\ \A i \in DOMAIN js \ {id} : t[i] = js[i]
    BY DEF Put
  <1> HIDE DEF t
  <1>3. \A i \in DOMAIN js : Lasting(js[i], js[i])
    BY DEF Lasting
  <1>2. CalmTo(js, t, R, Q)
    BY <1>1, <1>3 DEF CalmTo, Quiet
  <1> QED
    BY <1>2 DEF t

(* A call that prepares one row and dispatches some of its destinations.   *)
LEMMA CallIsCalm ==
  ASSUME NEW id \in DOMAIN jobs, NEW e \in Entry, NEW P \in SUBSET Providers, NEW answers,
         NEW Q \in SUBSET inflight,
         \A p \in Providers : e.job.st[p] = "Waiting" => jobs[id].job.st[p] = "Waiting",
         \A p \in P : jobs[id].job.st[p] \in {"Waiting", "RetryDue"},
         Lasting(jobs[id], e),
         LET done == DispatchEach(id, e, P, answers)
         IN /\ jobs' = TrimTo(Put(jobs, id, done.entry), historyLimit)
            /\ inflight' = Q \cup done.sent,
         nextId' = nextId
  PROVE  Calm
PROOF
  <1> DEFINE b == jobs[id]
             d == DispatchEach(id, e, P, answers)
             f == d.entry
             t == Put(jobs, id, f)
  <1>1. /\ \A p \in Providers : e.job.st[p] = "Waiting" => b.job.st[p] = "Waiting"
        /\ \A p \in P : b.job.st[p] \in {"Waiting", "RetryDue"}
        /\ Lasting(b, e)
    OBVIOUS
  <1>2. Quiet(id, b, f, d.sent)
    <2> HIDE DEF b
    <2> QED
      BY <1>1, DispatchIsQuiet
  <1>3. jobs' = TrimTo(t, historyLimit) /\ inflight' = Q \cup d.sent
    OBVIOUS
  <1> HIDE DEF d, f
  <1>4. inflight' \subseteq inflight \cup d.sent
    BY <1>3
  <1>5. CalmTo(jobs, t, inflight, inflight')
    BY <1>2, <1>4, CalmPut
  <1> HIDE DEF t
  <1>6. CalmTo(jobs, jobs', inflight, inflight')
    BY <1>3, <1>5, CalmTrim
  <1> QED
    BY <1>6 DEF Calm

LEMMA SetMetadataIsCalm ==
  ASSUME IndInv, NEW id \in Ids, NEW meta \in {"PvE", "WvW"}, SetMetadata(id, meta)
  PROVE  Calm
PROOF
  <1> DEFINE b == [jobs[id] EXCEPT !.job.meta = meta, !.pending = FALSE]
             e == SkipWingmanOnWvW(b)
             P == IF e.job.st["DpsReport"] = "Waiting" THEN {"DpsReport"}
                  ELSE WaitingIn(e, {"Wingman", "DonBot"})
  <1>1. id \in DOMAIN jobs /\ jobs[id] \in Entry
    BY IndInvIsRows DEF SetMetadata, MetadataPending, Rows
  <1>2. b \in Entry /\ b.job.st = jobs[id].job.st
    BY <1>1 DEF Entry, Job, Metadata
  <1>3. PICK answers \in [P -> EnqueueOutcomes] :
          LET done == DispatchEach(id, e, P, answers)
          IN /\ jobs' = TrimTo(Put(jobs, id, done.entry), historyLimit)
             /\ inflight' = inflight \cup done.sent
    BY DEF SetMetadata
  <1> HIDE DEF b
  <1>4. /\ e \in Entry
        /\ e.job.st["Wingman"] = IF b.job.meta = "WvW" /\ b.job.st["Wingman"] = "Waiting"
                                 THEN "Skipped" ELSE b.job.st["Wingman"]
        /\ \A p \in Providers \ {"Wingman"} : e.job.st[p] = b.job.st[p]
    BY <1>2, SkipWingmanFields
  <1> HIDE DEF e
  <1>5. \A p \in Providers : e.job.st[p] = "Waiting" => jobs[id].job.st[p] = "Waiting"
    BY <1>2, <1>4 DEF Providers
  <1>6. P \in SUBSET Providers /\ \A p \in P : e.job.st[p] = "Waiting"
    BY DEF WaitingIn, Providers
  <1>7. \A p \in P : jobs[id].job.st[p] \in {"Waiting", "RetryDue"}
    BY <1>5, <1>6
  <1>8. nextId' = nextId
    BY DEF SetMetadata
  <1>9. Lasting(jobs[id], e)
    BY <1>2, <1>4 DEF Providers, Lasting
  <1> HIDE DEF P
  <1> QED
    BY <1>1, <1>3, <1>4, <1>5, <1>6, <1>7, <1>8, <1>9, CallIsCalm

LEMMA FailMetadataIsCalm ==
  ASSUME IndInv, NEW id \in Ids, NEW cancelled \in BOOLEAN, FailMetadata(id, cancelled)
  PROVE  Calm
PROOF
  <1> DEFINE f == WithoutMetadata(jobs[id], cancelled)
             t == Put(jobs, id, f)
  <1>1. id \in DOMAIN jobs /\ jobs[id] \in Entry
    BY IndInvIsRows DEF FailMetadata, MetadataPending, Rows
  <1>2. /\ jobs' = TrimTo(t, historyLimit)
        /\ inflight' = inflight /\ nextId' = nextId
    BY DEF FailMetadata
  <1>3. (\A p \in Providers : f.job.st[p] # "Waiting") /\ Lasting(jobs[id], f)
    <2> DEFINE b == jobs[id]
    <2>1. b \in Entry
      BY <1>1
    <2> HIDE DEF b
    <2>2. LET g == WithoutMetadata(b, cancelled)
          IN \A p \in Providers :
               g.job.st[p] = IF b.job.st[p] = "Waiting"
                             THEN IF cancelled THEN "Cancelled" ELSE "Failed"
                             ELSE b.job.st[p]
      BY <2>1, WithoutMetadataFields
    <2>3. \A p \in Providers : WithoutMetadata(b, cancelled).job.st[p] # "Waiting"
      BY <2>2
    <2>4. Lasting(b, WithoutMetadata(b, cancelled))
      BY <2>2 DEF Lasting
    <2> QED
      BY <2>3, <2>4 DEF b
  <1> HIDE DEF f
  <1>4. Quiet(id, jobs[id], f, {})
    BY <1>3 DEF Quiet
  <1>5. CalmTo(jobs, t, inflight, inflight)
    BY <1>1, <1>4, CalmPut
  <1> HIDE DEF t
  <1>6. CalmTo(jobs, jobs', inflight, inflight)
    BY <1>2, <1>5, CalmTrim
  <1> QED
    BY <1>2, <1>6 DEF Calm

LEMMA AcceptResultIsCalm ==
  ASSUME IndInv, NEW r \in inflight, NEW outcome \in OutcomesOf(r.provider),
         AcceptResult(r, outcome)
  PROVE  Calm
PROOF
  <1> DEFINE b == jobs[r.id]
             f == [jobs[r.id] EXCEPT !.job = AppliedJob(@, r.provider, outcome)]
             e == AfterResult(f, r.provider, outcome)
             P == Released(f, r.provider, outcome)
  <1>1. Acceptable(r, outcome) /\ outcome # "Malformed"
    BY DEF AcceptResult, Acceptable
  <1>2. /\ r.id \in DOMAIN jobs /\ r.provider \in Providers
        /\ jobs[r.id] \in Entry /\ jobs[r.id].job.st[r.provider] = "Active"
    BY <1>1, AcceptedRow DEF Sound
  <1>3. /\ f \in Entry /\ f.job.st = [b.job.st EXCEPT ![r.provider] = NextState(outcome)]
        /\ b.job.st \in [Providers -> States]
    <2> DEFINE job == b.job
               a == AppliedJob(job, r.provider, outcome)
    <2>1. job \in Job /\ b.job.st \in [Providers -> States]
      BY <1>2, EntryParts
    <2>2. a \in Job /\ a.st = [job.st EXCEPT ![r.provider] = NextState(outcome)]
      <3> HIDE DEF job
      <3> QED
        BY <1>1, <1>2, <2>1, AppliedFields
    <2>3. f = [b EXCEPT !.job = a]
      OBVIOUS
    <2> HIDE DEF a, f
    <2>4. f \in Entry /\ f.job = a
      BY <1>2, <2>2, <2>3 DEF Entry
    <2> QED
      BY <2>1, <2>2, <2>4
  <1>4. NextState(outcome) # "Waiting"
    BY <1>1, CoordinatorAssumption DEF NextState, OutcomesOf, AllOutcomes
  <1>5. PICK answers \in [P -> EnqueueOutcomes] :
          LET done == DispatchEach(r.id, e, P, answers)
          IN /\ jobs' = TrimTo(Put(jobs, r.id, done.entry), historyLimit)
             /\ inflight' = (inflight \ {r}) \cup done.sent
    BY DEF AcceptResult
  <1> HIDE DEF f
  <1>6. /\ \A p \in Providers : f.job.st[p] = "Waiting" => jobs[r.id].job.st[p] = "Waiting"
        /\ Lasting(jobs[r.id], f)
    BY <1>2, <1>3, <1>4 DEF Lasting
  <1>7. /\ e \in Entry /\ \A p \in Providers : e.job.st[p] = "Waiting" => f.job.st[p] = "Waiting"
        /\ Lasting(f, e)
    <2>1. CASE e = f
      BY <1>3, <2>1 DEF Lasting
    <2>2. ASSUME NEW state \in {"Skipped", "Cancelled"}, e = SettleDependents(f, state)
          PROVE  /\ e \in Entry /\ \A p \in Providers : e.job.st[p] = "Waiting" => f.job.st[p] = "Waiting"
                 /\ Lasting(f, e)
      <3> HIDE DEF e
      <3>1. /\ e \in Entry
            /\ e.job.st = [p \in Providers |->
                             IF p \in DEPENDENTS /\ Settles(f, p) /\ f.job.st[p] = "Waiting"
                             THEN state ELSE f.job.st[p]]
        BY <1>3, <2>2, SettleFields
      <3> QED
        BY <3>1 DEF Lasting
    <2>3. e = f \/ e = SettleDependents(f, "Cancelled") \/ e = SettleDependents(f, "Skipped")
      BY DEF AfterResult
    <2> HIDE DEF e
    <2> QED
      BY <2>1, <2>2, <2>3
  <1>8. P \in SUBSET Providers /\ \A p \in P : f.job.st[p] = "Waiting"
    BY DEF Released, WaitingIn, DEPENDENTS, Providers
  <1> HIDE DEF e, P
  <1>9. /\ \A p \in Providers : e.job.st[p] = "Waiting" => jobs[r.id].job.st[p] = "Waiting"
        /\ \A p \in P : jobs[r.id].job.st[p] \in {"Waiting", "RetryDue"}
        /\ Lasting(jobs[r.id], e)
    BY <1>6, <1>7, <1>8, LastingOn
  <1>10. nextId' = nextId
    BY DEF AcceptResult
  <1>11. inflight \ {r} \in SUBSET inflight
    OBVIOUS
  <1> QED
    BY <1>2, <1>5, <1>7, <1>8, <1>9, <1>10, <1>11, CallIsCalm

LEMMA StillIsCalm ==
  ASSUME NEW limit, jobs' = jobs \/ jobs' = TrimTo(jobs, limit),
         inflight' \subseteq inflight, nextId' = nextId
  PROVE  Calm
PROOF
  <1>1. CalmTo(jobs, jobs, inflight, inflight')
    BY DEF CalmTo, Lasting
  <1>2. CalmTo(jobs, jobs', inflight, inflight')
    BY <1>1, CalmTrim
  <1> QED
    BY <1>2 DEF Calm

LEMMA DeadlineIsCalm ==
  ASSUME IndInv, NEW id \in Ids, NEW p \in Providers, DeadlinePasses(id, p)
  PROVE  Calm
PROOF
  <1> DEFINE e == [jobs[id] EXCEPT !.job.st[p] = "RetryDue"]
  <1>1. /\ id \in DOMAIN jobs
        /\ jobs' = [jobs EXCEPT ![id] = e]
        /\ inflight' = inflight /\ nextId' = nextId
    BY DEF DeadlinePasses
  <1>2. jobs[id] \in Entry /\ jobs[id].job.st[p] = "RetryScheduled"
    BY <1>1, IndInvIsRows DEF Rows, DeadlinePasses
  <1>3. e.job.st = [jobs[id].job.st EXCEPT ![p] = "RetryDue"] /\ jobs[id].job.st \in [Providers -> States]
    BY <1>2 DEF Entry, Job
  <1> HIDE DEF e
  <1>4. /\ \A q \in Providers : e.job.st[q] = "Waiting" => jobs[id].job.st[q] = "Waiting"
        /\ Lasting(jobs[id], e)
    BY <1>2, <1>3 DEF Lasting
  <1>7. \A i \in DOMAIN jobs : Lasting(jobs[i], jobs[i])
    BY DEF Lasting
  <1>5. DOMAIN jobs' = DOMAIN jobs /\ \A i \in DOMAIN jobs : jobs'[i] = IF i = id THEN e ELSE jobs[i]
    BY <1>1
  <1>6. CalmTo(jobs, jobs', inflight, inflight')
    BY <1>1, <1>4, <1>5, <1>7 DEF CalmTo
  <1> QED
    BY <1>1, <1>6 DEF Calm

LEMMA DueRetriesAreCalm ==
  ASSUME IndInv, DispatchDueRetries
  PROVE  Calm
PROOF
  <1> DEFINE P(id) == {p \in Providers : <<id, p>> \in Swept}
             Answers(a, id) == [p \in {q \in Providers : <<id, q>> \in Swept} |-> a[<<id, p>>]]
             Done(a) == [id \in DOMAIN jobs |-> DispatchEach(id, jobs[id], P(id), Answers(a, id))]
  <1>1. PICK a \in [Swept -> EnqueueOutcomes] :
          /\ jobs' = TrimTo([id \in DOMAIN jobs |-> Done(a)[id].entry], historyLimit)
          /\ inflight' = inflight \cup UNION {Done(a)[id].sent : id \in DOMAIN jobs}
    BY DEF DispatchDueRetries
  <1>2. Rows(jobs, inflight, nextId)
    BY IndInvIsRows
  <1>3. ASSUME NEW id \in DOMAIN jobs
        PROVE  P(id) \in SUBSET Providers /\ \A p \in P(id) : jobs[id].job.st[p] = "RetryDue"
    BY DEF Swept, Due, DueAt
  <1> DEFINE d == Done(a)
             S == UNION {d[id].sent : id \in DOMAIN jobs}
             t == [id \in DOMAIN jobs |-> d[id].entry]
  <1>4. ASSUME NEW id \in DOMAIN jobs
        PROVE  Quiet(id, jobs[id], d[id].entry, d[id].sent)
    <2> DEFINE e == jobs[id]
               Pid == P(id)
               ans == Answers(a, id)
               x == DispatchEach(id, e, Pid, ans)
    <2>1. e \in Entry
      BY <1>2 DEF Rows
    <2>2. /\ Pid \in SUBSET Providers
          /\ \A p \in Pid : e.job.st[p] \in {"Waiting", "RetryDue"}
          /\ \A p \in Providers : e.job.st[p] = "Waiting" => e.job.st[p] = "Waiting"
          /\ Lasting(e, e)
      BY <1>3 DEF Lasting
    <2>3. d[id] = x
      OBVIOUS
    <2>4. Quiet(id, e, x.entry, x.sent)
      <3> HIDE DEF e, Pid, ans
      <3> QED
        BY <2>1, <2>2, DispatchIsQuiet
    <2> HIDE DEF d, x
    <2> QED
      BY <2>3, <2>4
  <1> HIDE DEF P, Answers, Done, d
  <1>5. \A r \in S : \E id \in DOMAIN jobs : r \in d[id].sent
    OBVIOUS
  <1>6. DOMAIN t = DOMAIN jobs /\ \A id \in DOMAIN jobs : t[id] = d[id].entry
    OBVIOUS
  <1>7. jobs' = TrimTo(t, historyLimit) /\ inflight' = inflight \cup S
    BY <1>1 DEF d
  <1> HIDE DEF S, t
  <1>8. /\ \A r \in inflight' \ inflight : \E id \in DOMAIN jobs : r \in d[id].sent
        /\ \A id \in DOMAIN jobs : Quiet(id, jobs[id], t[id], d[id].sent)
    BY <1>4, <1>5, <1>6, <1>7
  <1>9. CalmTo(jobs, t, inflight, inflight')
    BY <1>6, <1>8 DEF CalmTo, Quiet
  <1>10. CalmTo(jobs, jobs', inflight, inflight')
    BY <1>7, <1>9, CalmTrim
  <1>11. nextId' = nextId
    BY DEF DispatchDueRetries
  <1> QED
    BY <1>10, <1>11 DEF Calm

LEMMA CancelAllIsCalm ==
  ASSUME IndInv, CancelAll
  PROVE  Calm
PROOF
  <1> DEFINE t == [id \in DOMAIN jobs |-> CancelledEntry(jobs[id])]
  <1>1. ASSUME NEW id \in DOMAIN jobs, NEW p \in Providers
        PROVE  /\ t[id].job.st[p] # "Waiting"
               /\ jobs[id].job.st[p] = "Succeeded" => t[id].job.st[p] = "Succeeded"
    <2> DEFINE b == jobs[id]
               c == CancelledEntry(b)
    <2>1. b \in Entry
      BY IndInvIsRows DEF Rows
    <2>2. c.job.st[p] = IF b.job.st[p] \in BusyStates THEN "Cancelled" ELSE b.job.st[p]
      BY <2>1 DEF CancelledEntry, Entry, Job
    <2>3. c.job.st[p] # "Waiting" /\ (b.job.st[p] = "Succeeded" => c.job.st[p] = "Succeeded")
      BY <2>2 DEF BusyStates, ScheduledStates
    <2> QED
      BY <2>3
  <1>2. /\ jobs' = TrimTo(t, historyLimit) /\ inflight' = {} /\ nextId' = nextId
        /\ DOMAIN t = DOMAIN jobs
    BY DEF CancelAll
  <1> HIDE DEF t
  <1>5. \A id \in DOMAIN jobs : Lasting(jobs[id], t[id])
    BY <1>1 DEF Lasting
  <1>3. CalmTo(jobs, t, inflight, {})
    BY <1>1, <1>2, <1>5 DEF CalmTo
  <1>4. CalmTo(jobs, jobs', inflight, inflight')
    BY <1>2, <1>3, CalmTrim
  <1> QED
    BY <1>2, <1>4 DEF Calm

-----------------------------------------------------------------------------
(* The user's actions: one row, and no request with the automatic intent.  *)

Manual(id) ==
  /\ id \in DOMAIN jobs /\ DOMAIN jobs' = DOMAIN jobs /\ nextId' = nextId
  /\ \A i \in DOMAIN jobs \ {id} : jobs'[i] = jobs[i]
  /\ \A r \in inflight' \ inflight : r.id = id /\ r.provider \in Providers /\ r.intent # "Automatic"

LEMMA DispatchNowIsManual ==
  ASSUME NEW id \in DOMAIN jobs, NEW e \in Entry, NEW p \in Providers,
         e.intents[p] # "Automatic", DispatchNow(id, e, p)
  PROVE  Manual(id)
PROOF
  <1>1. PICK answer \in EnqueueOutcomes :
          LET done == DispatchEach(id, e, {p}, [x \in {p} |-> answer])
          IN /\ jobs' = Put(jobs, id, done.entry)
             /\ inflight' = inflight \cup done.sent
    BY DEF DispatchNow
  <1> DEFINE answers == [x \in {p} |-> answer]
             d == DispatchEach(id, e, {p}, answers)
  <1>2. SentFrom(id, e, {p}, d)
    <2> HIDE DEF answers
    <2> QED
      BY DispatchEachSends
  <1>3. jobs' = Put(jobs, id, d.entry) /\ inflight' = inflight \cup d.sent
    BY <1>1
  <1> HIDE DEF d
  <1>4. \A r \in d.sent : r.id = id /\ r.provider = p /\ r.intent = e.intents[r.provider]
    BY <1>2 DEF SentFrom, SentBy
  <1>5. DOMAIN jobs' = DOMAIN jobs /\ \A i \in DOMAIN jobs \ {id} : jobs'[i] = jobs[i]
    BY <1>3 DEF Put
  <1>6. nextId' = nextId
    BY DEF DispatchNow
  <1> QED
    BY <1>3, <1>4, <1>5, <1>6 DEF Manual

LEMMA RechatIsManual ==
  ASSUME IndInv, NEW id \in Ids, Rechat(id)
  PROVE  Manual(id)
PROOF
  <1> DEFINE b == jobs[id]
             job == b.job
             x == PrepareExplicitDelivery(job, "Twitch")
             e == [b EXCEPT !.job = x, !.intents["Twitch"] = "Rechat"]
  <1>1. /\ id \in DOMAIN jobs
        /\ DispatchNow(id, e, "Twitch")
    BY DEF Rechat
  <1>2. b \in Entry /\ "Twitch" \in Providers /\ job \in Job
    BY <1>1, IndInvIsRows, EntryParts DEF Rows, Providers
  <1>3. x \in Job
    <2> HIDE DEF job
    <2> QED
      BY <1>2, ExplicitFields
  <1> HIDE DEF x
  <1>4. e \in Entry /\ e.intents["Twitch"] = "Rechat"
    BY <1>2, <1>3 DEF Entry, Intents
  <1> HIDE DEF e
  <1> QED
    BY <1>1, <1>2, <1>4, DispatchNowIsManual

LEMMA RetryFailedIsManual ==
  ASSUME IndInv, NEW id \in Ids, NEW p \in Providers, RetryFailed(id, p)
  PROVE  Manual(id)
PROOF
  <1> DEFINE b == jobs[id]
             x == RetryJob(b, p)
             intent == RetryIntent(b.intents[p])
             e == [b EXCEPT !.job = x, !.intents[p] = intent]
  <1>1. /\ id \in DOMAIN jobs
        /\ DispatchNow(id, e, p)
    BY DEF RetryFailed
  <1>2. b \in Entry /\ b.intents[p] \in Intents
    BY <1>1, IndInvIsRows, EntryParts DEF Rows
  <1>3. x \in Job
    <2> HIDE DEF b
    <2> QED
      BY <1>2, RetryFields
  <1>4. intent \in Intents /\ intent # "Automatic"
    BY <1>2 DEF RetryIntent, Intents
  <1> HIDE DEF x, intent
  <1>5. e \in Entry /\ e.intents[p] # "Automatic"
    BY <1>2, <1>3, <1>4 DEF Entry
  <1> HIDE DEF e
  <1> QED
    BY <1>1, <1>5, DispatchNowIsManual

LEMMA ReuploadIsManual ==
  ASSUME IndInv, NEW id \in Ids, Reupload(id)
  PROVE  Manual(id)
PROOF
  <1> DEFINE b == jobs[id]
             job == b.job
             x == PrepareExplicitDelivery(job, "DpsReport")
             y == PrepareExplicitDelivery(x, "Wingman")
             z == PrepareExplicitDelivery(y, "DonBot")
             i == [p \in Providers |-> IF p \in UPLOADS THEN "Reupload" ELSE b.intents[p]]
             w == [b EXCEPT !.job = z, !.reupload = TRUE, !.intents = i]
             e == SkipWingmanOnWvW(w)
  <1>1. id \in DOMAIN jobs /\ DispatchNow(id, ReuploadEntry(b), "DpsReport")
    BY DEF Reupload
  <1>2. /\ b \in Entry /\ job \in Job /\ b.intents \in [Providers -> Intents]
        /\ "DpsReport" \in Providers /\ "Wingman" \in Providers /\ "DonBot" \in Providers
    BY <1>1, IndInvIsRows, EntryParts DEF Rows, Providers
  <1>3. ReuploadEntry(b) = e
    BY DEF ReuploadEntry
  <1>4. x \in Job
    <2> HIDE DEF job
    <2> QED
      BY <1>2, ExplicitFields
  <1> HIDE DEF x
  <1>5. y \in Job
    BY <1>2, <1>4, ExplicitFields
  <1> HIDE DEF y
  <1>6. z \in Job
    BY <1>2, <1>5, ExplicitFields
  <1> HIDE DEF z
  <1>7. i \in [Providers -> Intents] /\ i["DpsReport"] = "Reupload"
    BY <1>2 DEF Intents, UPLOADS
  <1> HIDE DEF i
  <1>8. w \in Entry /\ w.intents = i
    BY <1>2, <1>6, <1>7 DEF Entry
  <1> HIDE DEF w
  <1>9. e \in Entry /\ e.intents = i
    BY <1>8, SkipWingmanFields, SkipWingmanIntents
  <1> HIDE DEF e
  <1> QED
    BY <1>1, <1>2, <1>3, <1>7, <1>9, DispatchNowIsManual

LEMMA UserActionIsManual ==
  ASSUME IndInv, NEW id \in Ids, UserAction(id)
  PROVE  Manual(id)
  BY RetryFailedIsManual, ReuploadIsManual, RechatIsManual DEF UserAction

-----------------------------------------------------------------------------
(* The shape of a session.                                                 *)

ShapeInv ==
  /\ phase \in Phases
  /\ files \in Seq(Files) /\ Len(files) = nextId - 1
  /\ known \subseteq Files
  /\ sessions \in 0..MaxSessions
  /\ delivered \subseteq Files \X Providers /\ succeeded \subseteq Files \X Providers
  /\ touched \subseteq Files
  /\ Document(disk)
  /\ OneRowEach
  /\ phase # "down" => Rowed \subseteq known /\ FilesOn(disk) \subseteq known
  /\ phase = "down" => inflight = {}

(* Every row has an identity.                                              *)
LEMMA RowFiles ==
  ASSUME IndInv, ShapeInv, NEW id \in DOMAIN jobs
  PROVE  id \in 1..Len(files) /\ files[id] \in Files /\ files[id] \in Rowed
  BY RowIsRecord DEF ShapeInv, Rowed

(* A row that is gone takes nothing with it.                               *)
LEMMA FewerRows ==
  ASSUME ShapeInv, DOMAIN jobs' \subseteq DOMAIN jobs, files' = files
  PROVE  Rowed' \subseteq Rowed /\ OneRowEach'
  BY DEF ShapeInv, Rowed, OneRowEach

(* What the work of a tick leaves of the shape.                            *)
LEMMA WorkKeepsShape ==
  ASSUME ShapeInv, DOMAIN jobs' \subseteq DOMAIN jobs, nextId' = nextId,
         files' = files, known' = known, disk' = disk, sessions' = sessions,
         phase # "down", phase' \in Phases \ {"down"},
         delivered' \subseteq Files \X Providers, succeeded' \subseteq Files \X Providers,
         touched' \subseteq Files
  PROVE  ShapeInv'
PROOF
  <1>1. Rowed' \subseteq Rowed /\ OneRowEach'
    BY FewerRows
  <1>2. Rowed' \subseteq known' /\ FilesOn(disk') \subseteq known'
    BY <1>1 DEF ShapeInv
  <1>3. Document(disk')
    BY DEF ShapeInv
  <1>4. files' \in Seq(Files) /\ Len(files') = nextId' - 1 /\ known' \subseteq Files
        /\ sessions' \in 0..MaxSessions
    BY DEF ShapeInv
  <1> QED
    BY <1>1, <1>2, <1>3, <1>4 DEF ShapeInv

(* The observers record identities only.                                   *)
LEMMA NewSends ==
  ASSUME IndInv, ShapeInv, Observe,
         \A r \in inflight' \ inflight : r.id \in DOMAIN jobs /\ r.provider \in Providers
  PROVE  delivered' \subseteq Files \X Providers
PROOF
  <1>1. \A r \in inflight' \ inflight : <<files[r.id], r.provider>> \in Files \X Providers
    BY RowFiles
  <1>2. FirstAutomatic \subseteq Files \X Providers
    BY <1>1 DEF FirstAutomatic
  <1> QED
    BY <1>2 DEF Observe, ShapeInv

LEMMA ActKeepsShape ==
  ASSUME IndInv, ShapeInv, NEW id \in Ids, Act(id)
  PROVE  IndInv' /\ ShapeInv'
PROOF
  <1>1. IndInv'
    BY RetryFailedKeeps, ReuploadKeeps, RechatKeeps DEF Act, UserAction
  <1>2. Manual(id)
    BY UserActionIsManual DEF Act
  <1>3. delivered' \subseteq Files \X Providers
    BY <1>2, NewSends DEF Manual, Act
  <1>4. files[id] \in Files
    BY <1>2, RowFiles DEF Manual
  <1>5. /\ phase = "actions" /\ phase' = phase /\ files' = files /\ known' = known
        /\ disk' = disk /\ sessions' = sessions /\ succeeded' = succeeded
        /\ touched' = touched \cup {files[id]}
    BY DEF Act, runtime
  <1>6. /\ phase # "down" /\ phase' \in Phases \ {"down"}
        /\ succeeded' \subseteq Files \X Providers /\ touched' \subseteq Files
    BY <1>4, <1>5 DEF ShapeInv, Phases
  <1>7. ShapeInv'
    BY <1>2, <1>3, <1>5, <1>6, WorkKeepsShape DEF Manual
  <1> QED
    BY <1>1, <1>7

(* The calm steps of a session.                                            *)
CalmWork ==
  /\ Calm /\ Observe
  /\ phase # "down" /\ phase' \in Phases \ {"down"}
  /\ UNCHANGED <<files, known, disk, sessions, touched>>
  /\ inflight' \subseteq inflight \/ phase \in {"metadata", "results"}
  /\ phase' = phase \/ phase' \in {"scan", "final"}
  /\ succeeded' = succeeded \/ \E r \in inflight : /\ r.id \in DOMAIN jobs
                                                   /\ succeeded' = succeeded \cup {<<files[r.id], r.provider>>}

LEMMA CalmKeepsShape ==
  ASSUME IndInv, ShapeInv, CalmWork
  PROVE  ShapeInv'
PROOF
  <1>1. /\ DOMAIN jobs' \subseteq DOMAIN jobs /\ nextId' = nextId
        /\ \A r \in inflight' \ inflight : r.id \in DOMAIN jobs /\ r.provider \in Providers
    BY DEF CalmWork, Calm, CalmTo
  <1>2. delivered' \subseteq Files \X Providers
    BY <1>1, NewSends DEF CalmWork
  <1>3. inflight \subseteq Request
    BY DEF IndInv, TypeOK
  <1>4. \A r \in inflight : r.id \in DOMAIN jobs => <<files[r.id], r.provider>> \in Files \X Providers
    BY <1>3, RowFiles DEF Request
  <1>5. succeeded' \subseteq Files \X Providers
    BY <1>4 DEF CalmWork, ShapeInv
  <1>6. /\ files' = files /\ known' = known /\ disk' = disk /\ sessions' = sessions
        /\ touched' \subseteq Files /\ phase # "down" /\ phase' \in Phases \ {"down"}
    BY DEF CalmWork, ShapeInv
  <1> QED
    BY <1>1, <1>2, <1>5, <1>6, WorkKeepsShape

(* Nothing is sent, nothing is observed.                                   *)
LEMMA QuietObserve ==
  ASSUME inflight' \subseteq inflight, delivered' = delivered
  PROVE  Observe
PROOF
  <1>1. FirstAutomatic = {}
    BY DEF FirstAutomatic
  <1> QED
    BY <1>1 DEF Observe

LEMMA HandleMetadataIsCalm ==
  ASSUME IndInv, NEW id \in Ids, HandleMetadata(id)
  PROVE  IndInv' /\ CalmWork
PROOF
  <1>1. IndInv'
    BY SetMetadataKeeps, FailMetadataKeeps DEF HandleMetadata, TakeMetadata
  <1>2. Calm
    BY SetMetadataIsCalm, FailMetadataIsCalm DEF HandleMetadata, TakeMetadata
  <1> QED
    BY <1>1, <1>2 DEF HandleMetadata, CalmWork, runtime, Phases

LEMMA HandleResultIsCalm ==
  ASSUME "Malformed" \notin Outcomes, IndInv, NEW r \in inflight, HandleResult(r)
  PROVE  IndInv' /\ CalmWork
PROOF
  <1>1. PICK outcome \in OutcomesOf(r.provider) :
          \/ /\ AcceptResult(r, outcome)
             /\ succeeded' = IF NextState(outcome) = "Succeeded"
                             THEN succeeded \cup {<<files[r.id], r.provider>>} ELSE succeeded
          \/ RejectResult(r, outcome) /\ UNCHANGED succeeded
    BY DEF HandleResult
  <1>2. CASE AcceptResult(r, outcome) /\ succeeded' = IF NextState(outcome) = "Succeeded"
                                                      THEN succeeded \cup {<<files[r.id], r.provider>>} ELSE succeeded
    <2>1. IndInv' /\ Calm
      BY <1>2, AcceptResultKeeps, AcceptResultIsCalm
    <2>2. r.id \in DOMAIN jobs
      BY <1>2 DEF AcceptResult, Acceptable
    <2>3. succeeded' = succeeded \/ succeeded' = succeeded \cup {<<files[r.id], r.provider>>}
      BY <1>2
    <2> QED
      BY <2>1, <2>2, <2>3 DEF HandleResult, CalmWork, runtime, Phases
  <1>3. CASE RejectResult(r, outcome) /\ UNCHANGED succeeded
    <2>1. IndInv'
      BY <1>3, RejectResultKeeps
    <2>2. jobs' = jobs /\ inflight' \subseteq inflight /\ nextId' = nextId
      BY <1>3 DEF RejectResult
    <2>3. Calm
      BY <2>2, StillIsCalm
    <2> QED
      BY <1>3, <2>1, <2>3 DEF HandleResult, CalmWork, runtime, Phases
  <1> QED
    BY <1>1, <1>2, <1>3

LEMMA SweepIsCalm ==
  ASSUME IndInv, Sweep
  PROVE  IndInv' /\ CalmWork
PROOF
  <1>1. CASE DispatchDueRetries
    <2>1. IndInv' /\ Calm
      BY <1>1, DispatchDueRetriesKeeps, DueRetriesAreCalm
    <2> QED
      BY <2>1 DEF Sweep, CalmWork, Phases
  <1>2. CASE UNCHANGED vars
    <2>1. IndInv'
      BY <1>2, StutterKeeps
    <2>2. jobs' = jobs /\ inflight' \subseteq inflight /\ nextId' = nextId
      BY <1>2 DEF vars
    <2>3. Calm
      BY <2>2, StillIsCalm
    <2> QED
      BY <2>1, <2>3 DEF Sweep, CalmWork, Phases
  <1> QED
    BY <1>1, <1>2 DEF Sweep

LEMMA DeadlineReachedIsCalm ==
  ASSUME IndInv, ShapeInv, DeadlineReached
  PROVE  IndInv' /\ CalmWork
PROOF
  <1>1. PICK id \in Ids, p \in Providers : DeadlinePasses(id, p)
    BY DEF DeadlineReached
  <1>2. IndInv' /\ Calm
    BY <1>1, DeadlinePassesKeeps, DeadlineIsCalm
  <1>3. inflight' \subseteq inflight /\ delivered' = delivered
    BY <1>1 DEF DeadlinePasses, DeadlineReached, observers
  <1>4. Observe
    BY <1>3, QuietObserve
  <1> QED
    BY <1>2, <1>3, <1>4 DEF DeadlineReached, CalmWork, runtime, observers, ShapeInv

LEMMA ApplySettingsIsCalm ==
  ASSUME IndInv, ApplySettings
  PROVE  IndInv' /\ CalmWork
PROOF
  <1>1. PICK limit \in Limits : SetHistoryLimit(limit)
    BY DEF ApplySettings
  <1>2. IndInv'
    BY <1>1, SetHistoryLimitKeeps, SessionAssumption
  <1>3. jobs' = TrimTo(jobs, limit) /\ inflight' \subseteq inflight /\ nextId' = nextId
    BY <1>1 DEF SetHistoryLimit
  <1>4. Calm
    BY <1>3, StillIsCalm
  <1>5. delivered' = delivered
    BY DEF ApplySettings, observers
  <1>6. Observe
    BY <1>3, <1>5, QuietObserve
  <1> QED
    BY <1>2, <1>3, <1>4, <1>6 DEF ApplySettings, CalmWork, runtime, observers, Phases

LEMMA ShutdownIsCalm ==
  ASSUME IndInv, Shutdown
  PROVE  IndInv' /\ CalmWork
PROOF
  <1>1. IndInv' /\ Calm
    BY CancelAllKeeps, CancelAllIsCalm DEF Shutdown
  <1>2. inflight' \subseteq inflight /\ delivered' = delivered
    BY DEF Shutdown, CancelAll, observers
  <1>3. Observe
    BY <1>2, QuietObserve
  <1> QED
    BY <1>1, <1>2, <1>3 DEF Shutdown, CalmWork, observers, Phases

-----------------------------------------------------------------------------
(* Saving, and going on.                                                   *)

(* A save that goes through, one that fails, a step besides the work.      *)
LEMMA SavedShape ==
  ASSUME IndInv, ShapeInv, phase # "down", phase' \in Phases \ {"down"},
         disk' = disk \/ disk' = Merged,
         UNCHANGED <<vars, files, known, sessions, observers>>
  PROVE  IndInv' /\ ShapeInv'
PROOF
  <1>1. IndInv'
    BY StutterKeeps
  <1>2. Document(Merged) /\ FilesOn(Merged) \subseteq FilesOn(disk) \cup Rowed
    BY MergedFacts DEF ShapeInv
  <1>3. Document(disk') /\ FilesOn(disk') \subseteq FilesOn(disk) \cup Rowed
    BY <1>2 DEF ShapeInv
  <1>4. /\ jobs' = jobs /\ nextId' = nextId /\ inflight' = inflight /\ files' = files
        /\ known' = known /\ sessions' = sessions /\ delivered' = delivered
        /\ succeeded' = succeeded /\ touched' = touched
    BY DEF vars, observers
  <1>5. Rowed' = Rowed /\ OneRowEach'
    BY <1>4 DEF Rowed, ShapeInv, OneRowEach
  <1>6. ShapeInv'
    BY <1>3, <1>4, <1>5 DEF ShapeInv
  <1> QED
    BY <1>1, <1>6

LEMMA SaveBeforeWorkKeepsShape ==
  ASSUME IndInv, ShapeInv, SaveBeforeWork
  PROVE  IndInv' /\ ShapeInv'
  BY SavedShape DEF SaveBeforeWork, SaveSucceeds, SaveFails, Phases

LEMMA SaveAfterWorkKeepsShape ==
  ASSUME IndInv, ShapeInv, SaveAfterWork
  PROVE  IndInv' /\ ShapeInv'
  BY SavedShape DEF SaveAfterWork, SaveSucceeds, SaveFails, Phases

LEMMA ProceedKeepsShape ==
  ASSUME IndInv, ShapeInv, Proceed
  PROVE  IndInv' /\ ShapeInv'
PROOF
  <1>1. phase # "down" /\ phase' \in Phases \ {"down"}
    BY DEF Proceed, Phases
  <1>2. disk' = disk /\ UNCHANGED <<vars, files, known, sessions, observers>>
    BY DEF Proceed
  <1> QED
    BY <1>1, <1>2, SavedShape

LEMMA StutterKeepsShape ==
  ASSUME IndInv, ShapeInv, UNCHANGED allVars
  PROVE  IndInv' /\ ShapeInv'
PROOF
  <1>1. /\ UNCHANGED vars /\ files' = files /\ known' = known /\ sessions' = sessions
        /\ delivered' = delivered /\ succeeded' = succeeded /\ touched' = touched
        /\ disk' = disk /\ phase' = phase
    BY DEF allVars, runtime, observers
  <1>2. jobs' = jobs /\ nextId' = nextId /\ inflight' = inflight
    BY <1>1 DEF vars
  <1>3. IndInv'
    BY <1>1, StutterKeeps
  <1>4. Rowed' = Rowed /\ OneRowEach'
    BY <1>1, <1>2 DEF Rowed, ShapeInv, OneRowEach
  <1>5. ShapeInv'
    BY <1>1, <1>2, <1>4 DEF ShapeInv
  <1> QED
    BY <1>3, <1>5

-----------------------------------------------------------------------------
(* A file becomes a job.                                                   *)

(* A row whose log the parser refuses at once.                             *)
LEMMA RefusedKeeps ==
  ASSUME IndInv, NEW enabled \in SUBSET Installed, CanAdd(enabled),
         jobs' = TrimTo([WithPending(enabled) EXCEPT ![nextId] = WithoutMetadata(@, FALSE)],
                        historyLimit),
         nextId' = nextId + 1,
         UNCHANGED <<historyLimit, restored, stopping, inflight>>
  PROVE  IndInv'
PROOF
  <1> DEFINE base == TrimTo(jobs, historyLimit - 1)
             new == NewEntry(NewJob(enabled), TRUE)
             f == WithoutMetadata(new, FALSE)
             t == Put(base, nextId, f)
  <1>1. Rows(jobs, inflight, nextId)
    BY IndInvIsRows
  <1>2. Rows(base, inflight, nextId)
    BY <1>1, TrimRows
  <1>3. nextId \in Ids /\ MaxId \in Nat
    BY CoordinatorAssumption DEF CanAdd
  <1>4. new \in Entry /\ \A p \in Providers : new.job.st[p] \in {"Waiting", "Disabled"}
    BY AttemptLimitAssumption DEF NewEntry, NewJob, Entry, Job, Intents, Metadata, States, BusyStates, Receipts
  <1>5. /\ new.job.meta = "None" /\ new.job.report = 0 /\ new.reupload = FALSE
        /\ \A p \in Providers : new.job.att[p] = 0
        /\ \A d \in DEPENDENTS : new.job.receipt[d] = "None"
    BY DEF NewEntry, NewJob
  <1> HIDE DEF new
  <1>6. /\ f \in Entry /\ f.pending = FALSE /\ f.reupload = FALSE
        /\ f.job.meta = "None" /\ f.job.att = new.job.att /\ f.job.report = 0
        /\ f.job.receipt = new.job.receipt
        /\ \A p \in Providers : f.job.st[p] = IF new.job.st[p] = "Waiting" THEN "Failed"
                                              ELSE new.job.st[p]
    BY <1>4, <1>5, WithoutMetadataFields
  <1> HIDE DEF f
  <1>7. \A p \in Providers : f.job.st[p] \in {"Failed", "Disabled"}
    BY <1>4, <1>6
  <1>8. ReportKept(f.job) /\ ReceiptsKept(f.job)
    BY <1>5, <1>6, <1>7 DEF ReportKept, ReceiptsKept, Providers, DEPENDENTS
  <1>9. RoutedInv(f, {})
    BY <1>6, <1>7
    DEF RoutedInv, Under, Providers, DEPENDENTS, ScheduledStates, BusyStates
  <1>10. RowInv(f)
    BY <1>6, <1>8, <1>9 DEF RowInv
  <1>11. \A r \in inflight : r.id < nextId /\ r.id \in Nat
    BY <1>1, <1>3 DEF Rows, Request, Ids
  <1>12. \A r \in inflight : r.id # nextId
    BY <1>3, <1>11 DEF Ids
  <1>13. Matched(nextId, f, inflight)
    BY <1>7, <1>12 DEF Matched
  <1>14. /\ DOMAIN t = DOMAIN base \cup {nextId} /\ t[nextId] = f
         /\ \A i \in DOMAIN base : t[i] = IF i = nextId THEN f ELSE base[i]
    BY DEF Put
  <1>15. \A i \in DOMAIN base : i \in Ids /\ i < nextId
    BY <1>2 DEF Rows
  <1>16. \A i \in DOMAIN base : i # nextId
    BY <1>3, <1>15 DEF Ids
  <1>17. [WithPending(enabled) EXCEPT ![nextId] = WithoutMetadata(@, FALSE)] = t
    BY DEF WithPending, Put, f, new
  <1>18. t = [i \in DOMAIN t |-> t[i]]
    BY DEF Put
  <1> HIDE DEF t, base
  <1>19. t \in [DOMAIN t -> Entry]
    BY <1>2, <1>6, <1>14, <1>16, <1>18 DEF Rows
  <1>20. Rows(t, inflight, nextId + 1)
    <2>1. DOMAIN t \subseteq Ids /\ \A i \in DOMAIN t : i < nextId + 1
      BY <1>3, <1>14, <1>15 DEF Ids
    <2>2. \A i \in DOMAIN t : RowInv(t[i]) /\ Matched(i, t[i], inflight)
      BY <1>2, <1>10, <1>13, <1>14, <1>16 DEF Rows
    <2>3. \A r \in inflight : r.id < nextId + 1 /\ (r.acked => r.id \in DOMAIN t)
      BY <1>2, <1>3, <1>11, <1>14 DEF Rows, Ids
    <2> QED
      BY <1>1, <1>19, <2>1, <2>2, <2>3 DEF Rows
  <1>21. Rows(TrimTo(t, historyLimit), inflight, nextId + 1)
    BY <1>20, TrimRows
  <1>22. Rows(jobs', inflight', nextId')
    BY <1>17, <1>21
  <1>23. nextId' \in 1..(MaxId + 1)
    BY <1>3 DEF Ids
  <1> QED
    BY <1>22, <1>23, IndInvIsRows DEF IndInv, TypeOK, Rows

(* Either way one row is new at most, and the others are as they were.     *)
LEMMA NewRows ==
  ASSUME IndInv, NEW enabled \in SUBSET Installed, CanAdd(enabled),
         \/ jobs' = WithPending(enabled)
         \/ jobs' = TrimTo([WithPending(enabled) EXCEPT ![nextId] = WithoutMetadata(@, FALSE)],
                           historyLimit)
  PROVE  /\ nextId \in Ids
         /\ DOMAIN jobs' \subseteq DOMAIN jobs \cup {nextId}
         /\ \A i \in DOMAIN jobs' \ {nextId} : jobs'[i] = jobs[i]
PROOF
  <1> DEFINE base == TrimTo(jobs, historyLimit - 1)
             w == WithPending(enabled)
             v == [w EXCEPT ![nextId] = WithoutMetadata(@, FALSE)]
             u == TrimTo(v, historyLimit)
  <1>1. DOMAIN base \subseteq DOMAIN jobs /\ \A i \in DOMAIN base : base[i] = jobs[i]
    BY TrimKeeps
  <1>2. /\ DOMAIN w = DOMAIN base \cup {nextId}
        /\ \A i \in DOMAIN w \ {nextId} : w[i] = base[i]
    BY DEF WithPending, Put
  <1> HIDE DEF w, base
  <1>3. DOMAIN v = DOMAIN w /\ \A i \in DOMAIN v \ {nextId} : v[i] = w[i]
    OBVIOUS
  <1> HIDE DEF v
  <1>4. DOMAIN u \subseteq DOMAIN v /\ \A i \in DOMAIN u : u[i] = v[i]
    BY TrimKeeps
  <1>5. jobs' = w \/ jobs' = u
    BY DEF w, v
  <1> HIDE DEF u
  <1>6. nextId \in Ids
    BY DEF CanAdd
  <1> QED
    BY <1>1, <1>2, <1>3, <1>4, <1>5, <1>6

LEMMA SubmitKeepsShape ==
  ASSUME IndInv, ShapeInv, NEW file \in Files, Submit(file)
  PROVE  IndInv' /\ ShapeInv'
PROOF
  <1>1. /\ phase = "scan" /\ file \notin known
        /\ UNCHANGED <<historyLimit, restored, stopping, inflight, disk, saved, sessions, observers>>
    BY DEF Submit
  <1>2. PICK enabled \in Selections :
          \/ /\ CanAdd(enabled)
             /\ \/ jobs' = WithPending(enabled)
                \/ jobs' = TrimTo([WithPending(enabled) EXCEPT ![nextId] = WithoutMetadata(@, FALSE)],
                                  historyLimit)
             /\ nextId' = nextId + 1
             /\ files' = Append(files, file)
             /\ known' = known \cup {file}
             /\ UNCHANGED phase
          \/ ~CanAdd(enabled) /\ phase' = "save" /\ UNCHANGED <<jobs, nextId, files, known>>
    BY DEF Submit
  <1>3. enabled \in SUBSET Installed
    BY SessionAssumption
  <1>4. CASE ~CanAdd(enabled) /\ phase' = "save" /\ UNCHANGED <<jobs, nextId, files, known>>
    <2>1. /\ phase # "down" /\ phase' \in Phases \ {"down"} /\ disk' = disk
          /\ UNCHANGED <<vars, files, known, sessions, observers>>
      BY <1>1, <1>4 DEF Phases, vars
    <2> QED
      BY <2>1, SavedShape
  <1>5. CASE /\ CanAdd(enabled)
             /\ \/ jobs' = WithPending(enabled)
                \/ jobs' = TrimTo([WithPending(enabled) EXCEPT ![nextId] = WithoutMetadata(@, FALSE)],
                                  historyLimit)
             /\ nextId' = nextId + 1
             /\ files' = Append(files, file)
             /\ known' = known \cup {file}
             /\ UNCHANGED phase
    <2>1. IndInv'
      <3>1. CASE jobs' = WithPending(enabled)
        <4>1. AddPending(enabled)
          BY <1>1, <1>5, <3>1 DEF AddPending
        <4> QED
          BY <1>3, <4>1, AddPendingKeeps
      <3>2. CASE jobs' # WithPending(enabled)
        BY <1>1, <1>3, <1>5, <3>2, RefusedKeeps
      <3> QED
        BY <3>1, <3>2
    <2>2. /\ nextId \in Ids
          /\ DOMAIN jobs' \subseteq DOMAIN jobs \cup {nextId}
      BY <1>3, <1>5, NewRows
    <2>3. nextId \in Nat /\ nextId - 1 \in Nat /\ Len(files) = nextId - 1 /\ files \in Seq(Files)
      BY <2>2, CoordinatorAssumption DEF Ids, ShapeInv
    <2>4. /\ files' \in Seq(Files) /\ Len(files') = nextId' - 1
          /\ files'[nextId] = file
          /\ \A i \in 1..Len(files) : files'[i] = files[i]
      BY <1>5, <2>3
    <2>5. \A i \in DOMAIN jobs : i \in 1..Len(files) /\ files[i] \in known
      BY <1>1, RowFiles DEF ShapeInv
    <2>6. \A i \in DOMAIN jobs : files'[i] = files[i] /\ files[i] # file
      BY <1>1, <2>4, <2>5
    <2>7. OneRowEach'
      <3>1. \A i, j \in DOMAIN jobs : files[i] = files[j] => i = j
        BY DEF ShapeInv, OneRowEach
      <3>2. \A i, j \in DOMAIN jobs \cup {nextId} : files'[i] = files'[j] => i = j
        BY <2>4, <2>6, <3>1
      <3> QED
        BY <2>2, <3>2 DEF OneRowEach
    <2>8. Rowed' \subseteq known'
      BY <1>5, <2>2, <2>4, <2>5, <2>6 DEF Rowed
    <2>9. /\ phase' = phase /\ phase # "down" /\ phase \in Phases /\ disk' = disk /\ sessions' = sessions
          /\ delivered' = delivered /\ succeeded' = succeeded /\ touched' = touched
          /\ known' \subseteq Files /\ FilesOn(disk) \subseteq known'
      BY <1>1, <1>5 DEF ShapeInv, observers
    <2>10. ShapeInv'
      BY <2>4, <2>7, <2>8, <2>9 DEF ShapeInv
    <2> QED
      BY <2>1, <2>10
  <1> QED
    BY <1>2, <1>4, <1>5

-----------------------------------------------------------------------------
(* The life of the process.                                                *)

(* A process that has stopped keeps nothing but the document.              *)
LEMMA StoppedKeepsShape ==
  ASSUME IndInv, ShapeInv, NEW document, Document(document), Stopped(document)
  PROVE  IndInv' /\ ShapeInv'
PROOF
  <1>1. /\ phase' = "down" /\ jobs' = NoJobs /\ nextId' = 1 /\ restored' = FALSE
        /\ stopping' = FALSE /\ inflight' = {} /\ files' = <<>> /\ known' = {}
        /\ disk' = document
        /\ historyLimit' = historyLimit /\ sessions' = sessions /\ delivered' = delivered
        /\ succeeded' = succeeded /\ touched' = touched
    BY DEF Stopped, observers
  <1>2. DOMAIN NoJobs = {} /\ NoJobs \in [DOMAIN NoJobs -> Entry]
    BY DEF NoJobs
  <1>3. Rows(NoJobs, {}, 1)
    BY <1>2 DEF Rows
  <1>4. Rows(jobs', inflight', nextId')
    BY <1>1, <1>3
  <1>5. 1 \in 1..(MaxId + 1)
    BY CoordinatorAssumption
  <1>6. IndInv'
    BY <1>1, <1>4, <1>5, IndInvIsRows DEF IndInv, TypeOK, Rows
  <1>7. Rowed' = {} /\ OneRowEach'
    BY <1>1, <1>2 DEF Rowed, OneRowEach
  <1>8. files' \in Seq(Files) /\ Len(files') = nextId' - 1
    BY <1>1
  <1>9. ShapeInv'
    BY <1>1, <1>7, <1>8 DEF ShapeInv, Phases
  <1> QED
    BY <1>6, <1>9

LEMMA ExitKeepsShape ==
  ASSUME IndInv, ShapeInv, Exit
  PROVE  IndInv' /\ ShapeInv'
PROOF
  <1>1. Document(disk) /\ Document(Merged)
    BY MergedFacts DEF ShapeInv
  <1> QED
    BY <1>1, StoppedKeepsShape DEF Exit

LEMMA CrashKeepsShape ==
  ASSUME IndInv, ShapeInv, Crash
  PROVE  IndInv' /\ ShapeInv'
PROOF
  <1>1. Document(disk)
    BY DEF ShapeInv
  <1> QED
    BY <1>1, StoppedKeepsShape DEF Crash

(* What a start leaves: the rows of the newest records, all of them idle.  *)
LEMMA StartFacts ==
  ASSUME IndInv, ShapeInv, Start
  PROVE  /\ IndInv'
         /\ files' \in Seq(Files) /\ Len(files') = nextId' - 1
         /\ DOMAIN jobs' = 1..Len(files')
         /\ \E skip \in Nat : /\ skip + Len(files') = Len(disk)
                              /\ Len(disk) <= historyLimit => skip = 0
                              /\ \A i \in 1..Len(files') :
                                   /\ files'[i] = disk[skip + i].file
                                   /\ Lasting(disk[skip + i], jobs'[i])
         /\ \A id \in DOMAIN jobs', p \in Providers : jobs'[id].job.st[p] # "Waiting"
PROOF
  <1> DEFINE n == Len(disk)
             records == [i \in DOMAIN disk |-> disk[i].job]
             skip == IF Len(records) > historyLimit THEN Len(records) - historyLimit ELSE 0
             kept == Len(records) - skip
             t == [id \in 1..kept |-> NewEntry(RestoredJob(records[skip + id]), FALSE)]
  <1>1. /\ Restore(records)
        /\ files' = [i \in DOMAIN jobs' |-> disk[Len(disk) - Cardinality(DOMAIN jobs') + i].file]
    BY DEF Start
  <1>2. /\ disk \in Seq(Record) /\ n \in Nat /\ DOMAIN disk = 1..n
        /\ \A i \in 1..n : disk[i] \in Record /\ JobKept(disk[i].job)
    <2>1. disk \in Seq(Record) /\ \A i \in 1..n : JobKept(disk[i].job)
      BY DEF ShapeInv, Document, Listing
    <2>2. n \in Nat /\ DOMAIN disk = 1..n /\ \A i \in 1..n : disk[i] \in Record
      BY <2>1
    <2> QED
      BY <2>1, <2>2
  <1>3. /\ records \in [1..n -> Job]
        /\ \A i \in 1..n : ReportKept(records[i]) /\ ReceiptsKept(records[i])
        /\ Len(records) = n
    BY <1>2 DEF JobKept
  <1>4. historyLimit \in Nat /\ historyLimit <= MaxId /\ MaxId \in Nat
    BY IndInvIsRows, SessionAssumption, CoordinatorAssumption
  <1>5. IndInv'
    <2> HIDE DEF records, n
    <2> QED
      BY <1>1, <1>2, <1>3, <1>4, RestoreKeepsInv
  <1>6. jobs' = t /\ nextId' = kept + 1
    BY <1>1 DEF Restore
  <1>7. skip \in Nat /\ kept \in Nat /\ skip + kept = n /\ (n <= historyLimit => skip = 0)
    <2>1. Len(records) = n /\ n \in Nat /\ historyLimit \in Nat
      BY <1>2, <1>3, <1>4
    <2> HIDE DEF records, n
    <2> QED
      BY <2>1
  <1> HIDE DEF skip, kept
  <1>8. DOMAIN jobs' = 1..kept
    BY <1>6
  <1>9. Cardinality(1..kept) = kept
    <2>1. 1 \in Int /\ kept \in Int
      BY <1>7
    <2>2. Cardinality(1..kept) = IF 1 > kept THEN 0 ELSE kept - 1 + 1
      BY <2>1, FS_Interval
    <2> QED
      BY <1>7, <2>2
  <1>10. files' = [i \in 1..kept |-> disk[n - kept + i].file]
    BY <1>1, <1>8, <1>9
  <1>11. ASSUME NEW i \in 1..kept
         PROVE  /\ skip + i \in 1..n /\ n - kept + i = skip + i
                /\ disk[skip + i].file \in Files /\ files'[i] = disk[skip + i].file
    <2>1. skip + i \in 1..n /\ n - kept + i = skip + i
      BY <1>2, <1>7
    <2>2. disk[skip + i].file \in Files
      BY <1>2, <2>1 DEF Record
    <2> QED
      BY <1>10, <2>1, <2>2
  <1>12. files' \in [1..kept -> Files]
    BY <1>10, <1>11
  <1>13. files' \in Seq(Files) /\ Len(files') = kept
    BY <1>7, <1>12
  <1>14. ASSUME NEW id \in 1..kept, NEW p \in Providers
         PROVE  /\ jobs'[id].job.st[p] # "Waiting"
                /\ disk[skip + id].job.st[p] = "Succeeded" => jobs'[id].job.st[p] = "Succeeded"
    <2> DEFINE record == records[skip + id]
    <2>1. record \in Job /\ record = disk[skip + id].job
      BY <1>2, <1>3, <1>11
    <2>2. jobs'[id] = NewEntry(RestoredJob(record), FALSE)
      BY <1>6
    <2> HIDE DEF record
    <2>3. NewEntry(RestoredJob(record), FALSE).job = RestoredJob(record)
      BY DEF NewEntry
    <2>4. RestoredJob(record).st[p] = IF record.st[p] \in BusyStates THEN "Failed" ELSE record.st[p]
      BY <2>1 DEF RestoredJob, Job
    <2> QED
      BY <2>1, <2>2, <2>3, <2>4 DEF BusyStates, ScheduledStates
  <1>15. Len(files') = nextId' - 1
    BY <1>6, <1>7, <1>13
  <1>16. \A i \in 1..kept : files'[i] = disk[skip + i].file /\ Lasting(disk[skip + i], jobs'[i])
    BY <1>11, <1>14 DEF Lasting
  <1> QED
    BY <1>5, <1>7, <1>8, <1>13, <1>14, <1>15, <1>16

LEMMA StartKeepsShape ==
  ASSUME IndInv, ShapeInv, Start
  PROVE  IndInv' /\ ShapeInv'
PROOF
  <1>1. PICK skip \in Nat : /\ skip + Len(files') = Len(disk)
                            /\ \A i \in 1..Len(files') : files'[i] = disk[skip + i].file
    BY StartFacts
  <1>2. /\ IndInv' /\ files' \in Seq(Files) /\ Len(files') = nextId' - 1
        /\ DOMAIN jobs' = 1..Len(files')
    BY StartFacts
  <1>3. /\ phase' = "begin" /\ sessions < MaxSessions /\ sessions' = sessions + 1
        /\ known' = FilesOn(disk) /\ disk' = disk /\ delivered' = delivered
        /\ succeeded' = succeeded /\ touched' = touched
    BY DEF Start, Retained, observers
  <1>4. /\ disk \in Seq(Record) /\ Len(disk) \in Nat /\ DOMAIN disk = 1..Len(disk)
        /\ \A i, j \in 1..Len(disk) : disk[i].file = disk[j].file => i = j
    BY DEF ShapeInv, Document, Listing
  <1> DEFINE k == Len(files')
  <1>5. k \in Nat
    BY <1>2
  <1>6. \A i \in 1..k : skip + i \in 1..Len(disk)
    BY <1>1, <1>4, <1>5
  <1>7. \A i, j \in 1..k : skip + i = skip + j => i = j
    BY <1>1, <1>5
  <1>8. \A i, j \in 1..k : files'[i] = files'[j] => i = j
    BY <1>1, <1>4, <1>6, <1>7
  <1>9. OneRowEach'
    BY <1>2, <1>8 DEF OneRowEach
  <1>10. Rowed' \subseteq FilesOn(disk)
    BY <1>1, <1>2, <1>4, <1>6 DEF Rowed, FilesOn
  <1>11. FilesOn(disk) \subseteq Files
    <2>1. \A i \in 1..Len(disk) : disk[i] \in Record
      BY <1>4
    <2> QED
      BY <1>4, <2>1 DEF FilesOn, Record
  <1>12. sessions' \in 0..MaxSessions
    BY <1>3, SessionAssumption DEF ShapeInv
  <1>13. phase' \in Phases /\ phase' # "down"
    BY <1>3 DEF Phases
  <1>14. ShapeInv'
    BY <1>2, <1>3, <1>9, <1>10, <1>11, <1>12, <1>13 DEF ShapeInv
  <1> QED
    BY <1>2, <1>14

-----------------------------------------------------------------------------
(* The first invariant.                                                    *)

LEMMA SessionInitHolds == SessionInit => IndInv /\ ShapeInv
PROOF
  <1> SUFFICES ASSUME SessionInit
               PROVE  IndInv /\ ShapeInv
    OBVIOUS
  <1>1. IndInv
    BY InitHolds DEF SessionInit
  <1>2. /\ DOMAIN jobs = {} /\ nextId = 1 /\ inflight = {} /\ phase = "down" /\ files = <<>>
        /\ known = {} /\ disk = <<>> /\ sessions = 0 /\ delivered = {} /\ succeeded = {}
        /\ touched = {}
    BY DEF SessionInit, Init, NoJobs
  <1>3. Listing(<<>>) /\ Len(<<>>) = 0
    BY DEF Listing
  <1>4. Document(disk)
    BY <1>2, <1>3, SessionAssumption DEF Document
  <1>5. Rowed = {} /\ OneRowEach
    BY <1>2 DEF Rowed, OneRowEach
  <1>6. files \in Seq(Files) /\ Len(files) = nextId - 1
    BY <1>2
  <1>7. 0 \in 0..MaxSessions
    BY SessionAssumption
  <1> QED
    BY <1>1, <1>2, <1>4, <1>5, <1>6, <1>7 DEF ShapeInv, Phases

LEMMA SessionNextKeepsShape ==
  ASSUME "Malformed" \notin Outcomes, IndInv, ShapeInv, SessionNext
  PROVE  IndInv' /\ ShapeInv'
PROOF
  <1>1. CASE TickStep
    <2>1. CASE SaveBeforeWork
      BY <2>1, SaveBeforeWorkKeepsShape
    <2>2. CASE Proceed
      BY <2>2, ProceedKeepsShape
    <2>3. ASSUME NEW id \in Ids, HandleMetadata(id)
          PROVE  IndInv' /\ ShapeInv'
      BY <2>3, HandleMetadataIsCalm, CalmKeepsShape
    <2>4. ASSUME NEW r \in inflight, HandleResult(r)
          PROVE  IndInv' /\ ShapeInv'
      BY <2>4, HandleResultIsCalm, CalmKeepsShape
    <2>5. CASE Sweep
      BY <2>5, SweepIsCalm, CalmKeepsShape
    <2>6. ASSUME NEW file \in Files, Submit(file)
          PROVE  IndInv' /\ ShapeInv'
      BY <2>6, SubmitKeepsShape
    <2>7. CASE SaveAfterWork
      BY <2>7, SaveAfterWorkKeepsShape
    <2> QED
      BY <1>1, <2>1, <2>2, <2>3, <2>4, <2>5, <2>6, <2>7 DEF TickStep
  <1>2. CASE ApplySettings
    BY <1>2, ApplySettingsIsCalm, CalmKeepsShape
  <1>3. ASSUME NEW id \in Ids, Act(id)
        PROVE  IndInv' /\ ShapeInv'
    BY <1>3, ActKeepsShape
  <1>4. CASE DeadlineReached
    BY <1>4, DeadlineReachedIsCalm, CalmKeepsShape
  <1>5. CASE Shutdown
    BY <1>5, ShutdownIsCalm, CalmKeepsShape
  <1>6. CASE Exit
    BY <1>6, ExitKeepsShape
  <1>7. CASE Crash
    BY <1>7, CrashKeepsShape
  <1>8. CASE Start
    BY <1>8, StartKeepsShape
  <1> QED
    BY <1>1, <1>2, <1>3, <1>4, <1>5, <1>6, <1>7, <1>8 DEF SessionNext

(* Every step of a session, a start from the history and a crash included, *)
(* keeps the invariant of the coordinator and the shape of the session.    *)
THEOREM SessionShape ==
  ASSUME "Malformed" \notin Outcomes
  PROVE  SessionSpec => [](IndInv /\ ShapeInv)
PROOF
  <1>1. IndInv /\ ShapeInv /\ [SessionNext]_allVars => IndInv' /\ ShapeInv'
    BY SessionNextKeepsShape, StutterKeepsShape
  <1> QED
    BY <1>1, SessionInitHolds, PTL DEF SessionSpec

(* No identity has two rows or two records, whatever was restored, evicted *)
(* and submitted again, so merge_and_save never meets a duplicate.         *)
THEOREM SessionAlwaysTyped ==
  ASSUME "Malformed" \notin Outcomes
  PROVE  SessionSpec => []SessionTypeOK
PROOF
  <1>1. IndInv /\ ShapeInv => SessionTypeOK
    <2> SUFFICES ASSUME ShapeInv
                 PROVE  SessionTypeOK
      OBVIOUS
    <2>1. /\ disk \in Seq(Record) /\ Len(disk) <= HistoryCapacity /\ DOMAIN disk = 1..Len(disk)
          /\ \A i, j \in 1..Len(disk) : disk[i].file = disk[j].file => i = j
      BY DEF ShapeInv, Document, Listing
    <2>2. \A i, j \in DOMAIN jobs : files[i] = files[j] => i = j
      BY DEF ShapeInv, OneRowEach
    <2>3. DistinctIdentities
      BY <2>1, <2>2 DEF DistinctIdentities
    <2> QED
      BY <2>1, <2>3 DEF ShapeInv, SessionTypeOK
  <1> QED
    BY <1>1, SessionShape, PTL

-----------------------------------------------------------------------------
(* Nothing is sent that the history does not know.                         *)

(* The history can hold every log there is, so that none is dropped.       *)
Roomy == IsFiniteSet(Files) /\ Cardinality(Files) <= HistoryCapacity

WorkPhases == {"actions", "metadata", "results"}

(* The work of a tick is done on rows that a save has covered.             *)
DurableInv ==
  /\ DispatchedIsDurable
  /\ phase \in WorkPhases => Rowed \subseteq FilesOn(disk)

(* Every delivery is on record, and a row that has made its automatic one  *)
(* does not wait for it again.                                             *)
ResendInv ==
  /\ \A d \in delivered : d[1] \in FilesOn(disk)
  /\ \A id \in DOMAIN jobs, p \in Providers :
       files[id] \notin touched /\ <<files[id], p>> \in delivered =>
         jobs[id].job.st[p] # "Waiting"

(* What a step may send automatically for the first time.                  *)
Sending == \A d \in FirstAutomatic : d \in delivered => d[1] \in touched

SessionInv == IndInv /\ ShapeInv /\ DurableInv /\ ResendInv

(* Requests of a step of the work are for rows, and rows are on disk.      *)
LEMMA WorkIsDurable ==
  ASSUME SessionInv, files' = files, disk' = disk,
         DOMAIN jobs' \subseteq DOMAIN jobs,
         \A r \in inflight' \ inflight : r.id \in DOMAIN jobs,
         inflight' \subseteq inflight \/ phase \in WorkPhases,
         phase' = phase \/ phase' \notin WorkPhases
  PROVE  DurableInv'
PROOF
  <1>1. Rowed' \subseteq Rowed
    BY FewerRows DEF SessionInv
  <1>2. \A r \in inflight' \ inflight : files[r.id] \in FilesOn(disk)
    BY DEF SessionInv, DurableInv, Rowed
  <1>3. \A r \in inflight : files[r.id] \in FilesOn(disk)
    BY DEF SessionInv, DurableInv, DispatchedIsDurable
  <1>4. FilesOn(disk)' = FilesOn(disk)
    BY DEF FilesOn
  <1>5. \A r \in inflight' : files'[r.id] \in FilesOn(disk)'
    BY <1>2, <1>3, <1>4
  <1>6. DispatchedIsDurable'
    BY <1>5 DEF DispatchedIsDurable
  <1>7. phase' \in WorkPhases => Rowed' \subseteq FilesOn(disk)'
    BY <1>1, <1>4 DEF SessionInv, DurableInv
  <1> QED
    BY <1>6, <1>7 DEF DurableInv

LEMMA CalmKeepsDurable ==
  ASSUME SessionInv, CalmWork
  PROVE  DurableInv'
PROOF
  <1>1. /\ DOMAIN jobs' \subseteq DOMAIN jobs
        /\ \A r \in inflight' \ inflight : r.id \in DOMAIN jobs
    BY DEF CalmWork, Calm, CalmTo
  <1>2. /\ files' = files /\ disk' = disk
        /\ inflight' \subseteq inflight \/ phase \in WorkPhases
        /\ phase' = phase \/ phase' \notin WorkPhases
    BY DEF CalmWork, WorkPhases
  <1> QED
    BY <1>1, <1>2, WorkIsDurable

(* A calm step sends automatically, for the first time, only what waited.  *)
LEMMA FirstWaited ==
  ASSUME Calm, NEW d \in FirstAutomatic
  PROVE  \E id \in DOMAIN jobs, p \in Providers :
            /\ d = <<files[id], p>>
            /\ jobs[id].job.st[p] = "Waiting"
            /\ id \in DOMAIN jobs' => jobs'[id].job.st[p] # "Waiting"
            /\ \E r \in inflight' \ inflight : r.id = id
PROOF
  <1>1. PICK r \in inflight' \ inflight : /\ d = <<files[r.id], r.provider>>
                                          /\ jobs[r.id].job.st[r.provider] # "RetryDue"
    BY DEF FirstAutomatic
  <1>2. /\ r.id \in DOMAIN jobs /\ r.provider \in Providers
        /\ jobs[r.id].job.st[r.provider] = "Waiting"
        /\ r.id \in DOMAIN jobs' => jobs'[r.id].job.st[r.provider] # "Waiting"
    BY <1>1 DEF Calm, CalmTo
  <1> QED
    BY <1>1, <1>2

LEMMA CalmKeepsResend ==
  ASSUME SessionInv, CalmWork
  PROVE  ResendInv' /\ Sending
PROOF
  <1>1. /\ files' = files /\ disk' = disk /\ touched' = touched
        /\ delivered' = delivered \cup FirstAutomatic /\ Calm
        /\ inflight' \subseteq inflight \/ phase \in WorkPhases
    BY DEF CalmWork, Observe, WorkPhases
  <1>2. /\ DOMAIN jobs' \subseteq DOMAIN jobs
        /\ \A id \in DOMAIN jobs', p \in Providers :
             jobs'[id].job.st[p] = "Waiting" => jobs[id].job.st[p] = "Waiting"
    BY <1>1 DEF Calm, CalmTo
  <1>3. ASSUME NEW d \in FirstAutomatic
        PROVE  /\ d[1] \in FilesOn(disk)
               /\ d \in delivered => d[1] \in touched
    <2>1. PICK id \in DOMAIN jobs, p \in Providers :
            /\ d = <<files[id], p>>
            /\ jobs[id].job.st[p] = "Waiting"
            /\ \E r \in inflight' \ inflight : r.id = id
      BY <1>1, FirstWaited
    <2>2. d[1] = files[id]
      BY <2>1
    <2>3. phase \in WorkPhases
      BY <1>1, <2>1
    <2>4. files[id] \in FilesOn(disk)
      BY <2>3 DEF SessionInv, DurableInv, Rowed
    <2>5. files[id] \notin touched => <<files[id], p>> \notin delivered
      BY <2>1 DEF SessionInv, ResendInv
    <2> QED
      BY <2>1, <2>2, <2>4, <2>5
  <1>4. \A d \in delivered' : d[1] \in FilesOn(disk)
    BY <1>1, <1>3 DEF SessionInv, ResendInv
  <1>5. ASSUME NEW id \in DOMAIN jobs', NEW p \in Providers,
               files[id] \notin touched, <<files[id], p>> \in delivered'
        PROVE  jobs'[id].job.st[p] # "Waiting"
    <2>1. CASE <<files[id], p>> \in delivered
      BY <1>2, <1>5, <2>1 DEF SessionInv, ResendInv
    <2>2. CASE <<files[id], p>> \in FirstAutomatic
      <3>1. PICK i \in DOMAIN jobs, q \in Providers :
              /\ <<files[id], p>> = <<files[i], q>>
              /\ i \in DOMAIN jobs' => jobs'[i].job.st[q] # "Waiting"
        BY <1>1, <2>2, FirstWaited
      <3>2. files[id] = files[i] /\ p = q
        BY <3>1
      <3>3. i = id
        BY <1>2, <3>2 DEF SessionInv, ShapeInv, OneRowEach
      <3> QED
        BY <3>1, <3>2, <3>3
    <2> QED
      BY <1>1, <1>5, <2>1, <2>2
  <1>6. FilesOn(disk)' = FilesOn(disk)
    BY <1>1 DEF FilesOn
  <1>7. ResendInv'
    BY <1>1, <1>4, <1>5, <1>6 DEF ResendInv
  <1> QED
    BY <1>3, <1>7 DEF Sending

LEMMA CalmKeepsAll ==
  ASSUME SessionInv, CalmWork
  PROVE  DurableInv' /\ ResendInv' /\ Sending
  BY CalmKeepsDurable, CalmKeepsResend

(* The user's actions touch what they send.                                *)
LEMMA ActKeepsAll ==
  ASSUME SessionInv, NEW id \in Ids, Act(id)
  PROVE  DurableInv' /\ ResendInv' /\ Sending
PROOF
  <1>1. Manual(id)
    BY UserActionIsManual DEF Act, SessionInv
  <1>2. /\ phase = "actions" /\ phase' = phase /\ files' = files /\ disk' = disk
        /\ touched' = touched \cup {files[id]} /\ delivered' = delivered \cup FirstAutomatic
    BY DEF Act, runtime, Observe
  <1>3. /\ DOMAIN jobs' = DOMAIN jobs /\ id \in DOMAIN jobs
        /\ \A i \in DOMAIN jobs \ {id} : jobs'[i] = jobs[i]
        /\ \A r \in inflight' \ inflight : r.id \in DOMAIN jobs
    BY <1>1 DEF Manual
  <1>4. DurableInv'
    BY <1>2, <1>3, WorkIsDurable DEF WorkPhases
  <1>5. FirstAutomatic = {}
    BY <1>1 DEF Manual, FirstAutomatic
  <1>6. ASSUME NEW i \in DOMAIN jobs, NEW p \in Providers,
               files[i] \notin touched', <<files[i], p>> \in delivered
        PROVE  jobs'[i].job.st[p] # "Waiting"
    <2>1. i # id /\ files[i] \notin touched
      BY <1>2, <1>6
    <2> QED
      BY <1>3, <1>6, <2>1 DEF SessionInv, ResendInv
  <1>7. FilesOn(disk)' = FilesOn(disk)
    BY <1>2 DEF FilesOn
  <1>8. \A d \in delivered' : d[1] \in FilesOn(disk)'
    BY <1>2, <1>5, <1>7 DEF SessionInv, ResendInv
  <1>9. ResendInv'
    BY <1>2, <1>3, <1>5, <1>6, <1>8 DEF ResendInv
  <1> QED
    BY <1>4, <1>5, <1>9 DEF Sending

(* A step that hands over nothing sends nothing again.                     *)
LEMMA NothingSent ==
  ASSUME inflight' \subseteq inflight
  PROVE  Sending
  BY DEF Sending, FirstAutomatic

(* The history only grows, and a save that has gone through covers every   *)
(* row.                                                                    *)
LEMMA SavedAll ==
  ASSUME SessionInv, Roomy,
         disk' = disk \/ disk' = Merged,
         phase' \in WorkPhases => phase \in WorkPhases \/ disk' = Merged,
         UNCHANGED <<vars, files, known, sessions, observers>>
  PROVE  DurableInv' /\ ResendInv' /\ Sending
PROOF
  <1>1. /\ jobs' = jobs /\ inflight' = inflight /\ files' = files
        /\ delivered' = delivered /\ touched' = touched
    BY DEF vars, observers
  <1>2. FilesOn(disk) \cup Rowed \subseteq FilesOn(Merged)
    BY MergedFacts DEF SessionInv, ShapeInv, Roomy
  <1>3. FilesOn(disk) \subseteq FilesOn(disk') /\ (disk' = Merged => Rowed \subseteq FilesOn(disk'))
    BY <1>2
  <1>4. FilesOn(disk)' = FilesOn(disk') /\ Rowed' = Rowed
    BY <1>1 DEF FilesOn, Rowed
  <1>5. DispatchedIsDurable'
    BY <1>1, <1>3, <1>4 DEF SessionInv, DurableInv, DispatchedIsDurable
  <1>6. phase' \in WorkPhases => Rowed' \subseteq FilesOn(disk)'
    BY <1>3, <1>4 DEF SessionInv, DurableInv
  <1>7. ResendInv'
    BY <1>1, <1>3, <1>4 DEF SessionInv, ResendInv
  <1>8. Sending
    BY <1>1, NothingSent
  <1> QED
    BY <1>5, <1>6, <1>7, <1>8 DEF DurableInv

LEMMA SaveBeforeWorkKeepsAll ==
  ASSUME SessionInv, Roomy, SaveBeforeWork
  PROVE  DurableInv' /\ ResendInv' /\ Sending
  BY SavedAll DEF SaveBeforeWork, SaveSucceeds, SaveFails, WorkPhases

LEMMA SaveAfterWorkKeepsAll ==
  ASSUME SessionInv, Roomy, SaveAfterWork
  PROVE  DurableInv' /\ ResendInv' /\ Sending
  BY SavedAll DEF SaveAfterWork, SaveSucceeds, SaveFails, WorkPhases

LEMMA ProceedKeepsAll ==
  ASSUME SessionInv, Roomy, Proceed
  PROVE  DurableInv' /\ ResendInv' /\ Sending
PROOF
  <1>1. phase' \in WorkPhases => phase \in WorkPhases
    BY DEF Proceed, WorkPhases
  <1>2. disk' = disk /\ UNCHANGED <<vars, files, known, sessions, observers>>
    BY DEF Proceed
  <1> QED
    BY <1>1, <1>2, SavedAll

LEMMA StutterKeepsAll ==
  ASSUME SessionInv, Roomy, UNCHANGED allVars
  PROVE  DurableInv' /\ ResendInv' /\ Sending
PROOF
  <1>1. /\ phase' = phase /\ disk' = disk
        /\ UNCHANGED <<vars, files, known, sessions, observers>>
    BY DEF allVars, runtime
  <1> QED
    BY <1>1, SavedAll

(* A file that discovery did not know is in no record, so it was never     *)
(* delivered.                                                              *)
LEMMA SubmitKeepsAll ==
  ASSUME SessionInv, NEW file \in Files, Submit(file)
  PROVE  DurableInv' /\ ResendInv' /\ Sending
PROOF
  <1>1. /\ phase = "scan" /\ file \notin known /\ inflight' = inflight /\ disk' = disk
        /\ delivered' = delivered /\ touched' = touched
    BY DEF Submit, observers
  <1>2. Sending
    BY <1>1, NothingSent
  <1>3. FilesOn(disk)' = FilesOn(disk)
    BY <1>1 DEF FilesOn
  <1>4. /\ files \in Seq(Files) /\ Len(files) = nextId - 1 /\ FilesOn(disk) \subseteq known
    BY <1>1 DEF SessionInv, ShapeInv
  <1>5. PICK enabled \in Selections :
          \/ /\ CanAdd(enabled)
             /\ \/ jobs' = WithPending(enabled)
                \/ jobs' = TrimTo([WithPending(enabled) EXCEPT ![nextId] = WithoutMetadata(@, FALSE)],
                                  historyLimit)
             /\ nextId' = nextId + 1
             /\ files' = Append(files, file)
             /\ known' = known \cup {file}
             /\ UNCHANGED phase
          \/ ~CanAdd(enabled) /\ phase' = "save" /\ UNCHANGED <<jobs, nextId, files, known>>
    BY DEF Submit
  <1>6. phase' \notin WorkPhases
    BY <1>1, <1>5 DEF WorkPhases
  <1>7. enabled \in SUBSET Installed
    BY SessionAssumption
  <1>8. nextId \in Nat /\ nextId - 1 \in Nat
    BY IndInvIsRows, CoordinatorAssumption DEF SessionInv
  <1>9. /\ \A i \in 1..(nextId - 1) : files'[i] = files[i]
        /\ \A i \in DOMAIN jobs' : \/ i \in DOMAIN jobs /\ jobs'[i] = jobs[i]
                                   \/ i = nextId /\ files'[i] = file
    <2>1. CASE UNCHANGED <<jobs, nextId, files, known>>
      BY <2>1
    <2>2. CASE /\ CanAdd(enabled)
               /\ \/ jobs' = WithPending(enabled)
                  \/ jobs' = TrimTo([WithPending(enabled) EXCEPT ![nextId] = WithoutMetadata(@, FALSE)],
                                    historyLimit)
               /\ nextId' = nextId + 1
               /\ files' = Append(files, file)
      <3>1. /\ DOMAIN jobs' \subseteq DOMAIN jobs \cup {nextId}
            /\ \A i \in DOMAIN jobs' \ {nextId} : jobs'[i] = jobs[i]
        BY <1>7, <2>2, NewRows DEF SessionInv
      <3>2. files'[nextId] = file /\ \A i \in 1..(nextId - 1) : files'[i] = files[i]
        BY <1>4, <1>8, <2>2
      <3> QED
        BY <3>1, <3>2
    <2> QED
      BY <1>5, <2>1, <2>2
  <1>10. \A r \in inflight : r.id \in 1..(nextId - 1)
    <2>1. \A r \in inflight : r.id \in 1..MaxId /\ r.id < nextId
      BY IndInvIsRows DEF SessionInv, Rows, Request, Ids
    <2> QED
      BY <1>8, <2>1, CoordinatorAssumption
  <1>11. DispatchedIsDurable'
    BY <1>1, <1>3, <1>9, <1>10 DEF SessionInv, DurableInv, DispatchedIsDurable
  <1>12. DurableInv'
    BY <1>6, <1>11 DEF DurableInv
  <1>13. \A p \in Providers : <<file, p>> \notin delivered
    <2>1. ASSUME NEW p \in Providers, <<file, p>> \in delivered
          PROVE  FALSE
      <3>1. <<file, p>>[1] \in FilesOn(disk)
        BY <2>1 DEF SessionInv, ResendInv
      <3> QED
        BY <1>1, <1>4, <3>1
    <2> QED
      BY <2>1
  <1>14. \A i \in DOMAIN jobs : i \in 1..(nextId - 1)
    <2>1. \A i \in DOMAIN jobs : i \in 1..Len(files)
      BY RowFiles DEF SessionInv
    <2> QED
      BY <1>4, <2>1
  <1>15. ASSUME NEW i \in DOMAIN jobs', NEW p \in Providers,
                files'[i] \notin touched, <<files'[i], p>> \in delivered
         PROVE  jobs'[i].job.st[p] # "Waiting"
    <2>1. i \in DOMAIN jobs /\ jobs'[i] = jobs[i] /\ files'[i] = files[i]
      BY <1>9, <1>13, <1>14, <1>15
    <2> QED
      BY <1>15, <2>1 DEF SessionInv, ResendInv
  <1>16. ResendInv'
    BY <1>1, <1>3, <1>15 DEF SessionInv, ResendInv
  <1> QED
    BY <1>2, <1>12, <1>16

(* A crash forgets the requests in flight, never the records.              *)
LEMMA StoppedKeepsAll ==
  ASSUME SessionInv, NEW document, Stopped(document), FilesOn(disk) \subseteq FilesOn(document)
  PROVE  DurableInv' /\ ResendInv' /\ Sending
PROOF
  <1>1. /\ phase' = "down" /\ DOMAIN jobs' = {} /\ inflight' = {} /\ disk' = document
        /\ delivered' = delivered
    BY DEF Stopped, NoJobs, observers
  <1>2. DurableInv'
    BY <1>1 DEF DurableInv, DispatchedIsDurable, WorkPhases
  <1>3. FilesOn(disk)' = FilesOn(document)
    BY <1>1 DEF FilesOn
  <1>4. ResendInv'
    BY <1>1, <1>3 DEF SessionInv, ResendInv
  <1>5. Sending
    BY <1>1, NothingSent
  <1> QED
    BY <1>2, <1>4, <1>5

LEMMA ExitKeepsAll ==
  ASSUME SessionInv, Roomy, Exit
  PROVE  DurableInv' /\ ResendInv' /\ Sending
PROOF
  <1>1. FilesOn(disk) \subseteq FilesOn(Merged)
    BY MergedFacts DEF SessionInv, ShapeInv, Roomy
  <1> QED
    BY <1>1, StoppedKeepsAll DEF Exit

LEMMA CrashKeepsAll ==
  ASSUME SessionInv, Crash
  PROVE  DurableInv' /\ ResendInv' /\ Sending
  BY StoppedKeepsAll DEF Crash

LEMMA StartKeepsAll ==
  ASSUME SessionInv, Start
  PROVE  DurableInv' /\ ResendInv' /\ Sending
PROOF
  <1>1. /\ phase = "down" /\ phase' = "begin" /\ inflight' = inflight /\ disk' = disk
        /\ delivered' = delivered
    BY DEF Start, Restore, observers
  <1>2. inflight' = {}
    BY <1>1 DEF SessionInv, ShapeInv
  <1>3. DurableInv'
    BY <1>1, <1>2 DEF DurableInv, DispatchedIsDurable, WorkPhases
  <1>4. \A id \in DOMAIN jobs', p \in Providers : jobs'[id].job.st[p] # "Waiting"
    BY StartFacts DEF SessionInv
  <1>5. FilesOn(disk)' = FilesOn(disk)
    BY <1>1 DEF FilesOn
  <1>6. ResendInv'
    BY <1>1, <1>4, <1>5 DEF SessionInv, ResendInv
  <1>7. Sending
    BY <1>2, NothingSent
  <1> QED
    BY <1>3, <1>6, <1>7

-----------------------------------------------------------------------------
(* The second invariant.                                                   *)

LEMMA SessionNextKeepsAll ==
  ASSUME "Malformed" \notin Outcomes, Roomy, SessionInv, SessionNext
  PROVE  DurableInv' /\ ResendInv' /\ Sending
PROOF
  <1>0. IndInv /\ ShapeInv
    BY DEF SessionInv
  <1>1. CASE TickStep
    <2>1. CASE SaveBeforeWork
      BY <2>1, SaveBeforeWorkKeepsAll
    <2>2. CASE Proceed
      BY <2>2, ProceedKeepsAll
    <2>3. ASSUME NEW id \in Ids, HandleMetadata(id)
          PROVE  DurableInv' /\ ResendInv' /\ Sending
      BY <1>0, <2>3, HandleMetadataIsCalm, CalmKeepsAll
    <2>4. ASSUME NEW r \in inflight, HandleResult(r)
          PROVE  DurableInv' /\ ResendInv' /\ Sending
      BY <1>0, <2>4, HandleResultIsCalm, CalmKeepsAll
    <2>5. CASE Sweep
      BY <1>0, <2>5, SweepIsCalm, CalmKeepsAll
    <2>6. ASSUME NEW file \in Files, Submit(file)
          PROVE  DurableInv' /\ ResendInv' /\ Sending
      BY <2>6, SubmitKeepsAll
    <2>7. CASE SaveAfterWork
      BY <2>7, SaveAfterWorkKeepsAll
    <2> QED
      BY <1>1, <2>1, <2>2, <2>3, <2>4, <2>5, <2>6, <2>7 DEF TickStep
  <1>2. CASE ApplySettings
    BY <1>0, <1>2, ApplySettingsIsCalm, CalmKeepsAll
  <1>3. ASSUME NEW id \in Ids, Act(id)
        PROVE  DurableInv' /\ ResendInv' /\ Sending
    BY <1>3, ActKeepsAll
  <1>4. CASE DeadlineReached
    BY <1>0, <1>4, DeadlineReachedIsCalm, CalmKeepsAll
  <1>5. CASE Shutdown
    BY <1>0, <1>5, ShutdownIsCalm, CalmKeepsAll
  <1>6. CASE Exit
    BY <1>6, ExitKeepsAll
  <1>7. CASE Crash
    BY <1>7, CrashKeepsAll
  <1>8. CASE Start
    BY <1>8, StartKeepsAll
  <1> QED
    BY <1>1, <1>2, <1>3, <1>4, <1>5, <1>6, <1>7, <1>8 DEF SessionNext

LEMMA SessionInitEmpty == SessionInit => DurableInv /\ ResendInv
PROOF
  <1> SUFFICES ASSUME SessionInit
               PROVE  DurableInv /\ ResendInv
    OBVIOUS
  <1>1. DOMAIN jobs = {} /\ inflight = {} /\ phase = "down" /\ delivered = {}
    BY DEF SessionInit, Init, NoJobs
  <1> QED
    BY <1>1 DEF DurableInv, DispatchedIsDurable, ResendInv, WorkPhases

(* While the document has room for every log: requests in flight and       *)
(* deliveries of every session are in the history, and what was delivered  *)
(* automatically does not wait a second time unless the user acted.        *)
THEOREM SessionInvariance ==
  ASSUME "Malformed" \notin Outcomes, Roomy
  PROVE  SessionSpec => []SessionInv
PROOF
  <1>1. SessionInit => SessionInv
    BY SessionInitHolds, SessionInitEmpty DEF SessionInv
  <1>2. SessionInv /\ [SessionNext]_allVars => DurableInv' /\ ResendInv'
    BY SessionNextKeepsAll, StutterKeepsAll
  <1>3. SessionInv /\ [SessionNext]_allVars => IndInv' /\ ShapeInv'
    BY SessionNextKeepsShape, StutterKeepsShape DEF SessionInv
  <1>4. SessionInv /\ [SessionNext]_allVars => SessionInv'
    BY <1>2, <1>3 DEF SessionInv
  <1> QED
    BY <1>1, <1>4, PTL DEF SessionSpec

(* A provider is asked to upload a log only after the identity of that log *)
(* is in the history file: the tick saves before it works, and rows that   *)
(* appear later wait for the next save.                                    *)
THEOREM DispatchedIsAlwaysDurable ==
  ASSUME "Malformed" \notin Outcomes, Roomy
  PROVE  SessionSpec => []DispatchedIsDurable
PROOF
  <1>1. SessionInv => DispatchedIsDurable
    BY DEF SessionInv, DurableInv
  <1> QED
    BY <1>1, SessionInvariance, PTL

(* Over all sessions a log the user never acted on is sent automatically   *)
(* to a destination at most once, wherever the process crashes.            *)
THEOREM NeverSentTwice ==
  ASSUME "Malformed" \notin Outcomes, Roomy
  PROVE  SessionSpec => NoAutomaticResend
PROOF
  <1>1. SessionInv /\ [SessionNext]_allVars =>
          [\A d \in FirstAutomatic : d \in delivered => d[1] \in touched]_allVars
    BY SessionNextKeepsAll DEF Sending
  <1> QED
    BY <1>1, SessionInvariance, PTL DEF SessionSpec, NoAutomaticResend

(* Inside the runtime too a row is Active exactly while a port holds its   *)
(* acknowledged request: neither the restored rows nor the rows a changed  *)
(* limit evicts leave an upload behind that nobody counts on.              *)
THEOREM SessionActiveInFlight ==
  ASSUME "Malformed" \notin Outcomes
  PROVE  SessionSpec => []ActiveIffInFlight
PROOF
  <1>1. IndInv => ActiveIffInFlight
    BY DEF IndInv, Matched, ActiveIffInFlight
  <1> QED
    BY <1>1, SessionShape, PTL

-----------------------------------------------------------------------------
(* What the rows show as delivered is saved.                               *)

(* A save writes every row as it is.                                       *)
LEMMA MergedRecords ==
  ASSUME IndInv, ShapeInv, Roomy, NEW id \in DOMAIN jobs, NEW p,
         jobs[id].job.st[p] = "Succeeded"
  PROVE  Recorded(Merged, files[id], p)
PROOF
  <1>1. /\ \A i \in DOMAIN Merged : Merged[i].file = files[id] => Merged[i] = Row(id)
        /\ Rowed \subseteq FilesOn(Merged)
    BY MergedFacts DEF ShapeInv, Roomy
  <1>2. PICK i \in DOMAIN Merged : Merged[i].file = files[id]
    BY <1>1 DEF Rowed, FilesOn
  <1>3. Merged[i].job = jobs[id].job
    BY <1>1, <1>2 DEF Row
  <1> QED
    BY <1>2, <1>3 DEF Recorded

(* At the end of a tick that has saved, what the rows show as delivered is *)
(* on record.                                                              *)
SavedRows ==
  phase = "begin" /\ saved =>
    \A id \in DOMAIN jobs, p \in Providers :
      jobs[id].job.st[p] = "Succeeded" => Recorded(disk, files[id], p)

SavedInv == SavedRows /\ (phase = "down" => ~saved)

(* Between two ticks a row may leave, a deadline may pass.                 *)
LEMMA IdleKeepsSaved ==
  ASSUME SavedInv, phase' = phase, saved' = saved, disk' = disk, files' = files,
         DOMAIN jobs' \subseteq DOMAIN jobs,
         \A id \in DOMAIN jobs', p \in Providers :
           jobs'[id].job.st[p] = "Succeeded" => jobs[id].job.st[p] = "Succeeded"
  PROVE  SavedInv'
PROOF
  <1>1. SavedRows'
    BY DEF SavedInv, SavedRows, Recorded
  <1> QED
    BY <1>1 DEF SavedInv

LEMMA SaveKeepsSaved ==
  ASSUME IndInv, ShapeInv, Roomy, SaveBeforeWork \/ SaveAfterWork
  PROVE  SavedInv'
PROOF
  <1>1. /\ jobs' = jobs /\ files' = files /\ phase' \in {"begin", "actions"}
        /\ saved' = FALSE \/ disk' = Merged
    BY DEF SaveBeforeWork, SaveAfterWork, SaveSucceeds, SaveFails, vars
  <1>2. CASE saved' = FALSE
    BY <1>1, <1>2 DEF SavedInv, SavedRows
  <1>3. CASE disk' = Merged
    <2>1. \A id \in DOMAIN jobs, p \in Providers :
            jobs[id].job.st[p] = "Succeeded" => Recorded(Merged, files[id], p)
      BY MergedRecords
    <2>2. SavedRows'
      BY <1>1, <1>3, <2>1 DEF SavedRows, Recorded
    <2> QED
      BY <1>1, <2>2 DEF SavedInv
  <1> QED
    BY <1>1, <1>2, <1>3

LEMMA SessionNextKeepsSaved ==
  ASSUME IndInv, ShapeInv, Roomy, SavedInv, SessionNext
  PROVE  SavedInv'
PROOF
  <1>0. phase' \notin {"begin", "down"} \/ saved' = FALSE => SavedInv'
    BY DEF SavedInv, SavedRows
  <1>1. CASE TickStep
    <2>1. CASE SaveBeforeWork \/ SaveAfterWork
      BY <2>1, SaveKeepsSaved
    <2>2. CASE Proceed
      BY <1>0, <2>2 DEF Proceed
    <2>3. ASSUME NEW id \in Ids, HandleMetadata(id)
          PROVE  SavedInv'
      BY <1>0, <2>3 DEF HandleMetadata, runtime
    <2>4. ASSUME NEW r \in inflight, HandleResult(r)
          PROVE  SavedInv'
      BY <1>0, <2>4 DEF HandleResult, runtime
    <2>5. CASE Sweep
      BY <1>0, <2>5 DEF Sweep
    <2>6. ASSUME NEW file \in Files, Submit(file)
          PROVE  SavedInv'
      BY <1>0, <2>6 DEF Submit
    <2> QED
      BY <1>1, <2>1, <2>2, <2>3, <2>4, <2>5, <2>6 DEF TickStep
  <1>2. CASE ApplySettings
    <2>1. PICK limit \in Limits : jobs' = TrimTo(jobs, limit)
      BY <1>2 DEF ApplySettings, SetHistoryLimit
    <2>2. DOMAIN jobs' \subseteq DOMAIN jobs /\ \A i \in DOMAIN jobs' : jobs'[i] = jobs[i]
      BY <2>1, TrimKeeps
    <2> QED
      BY <1>2, <2>2, IdleKeepsSaved DEF ApplySettings, runtime
  <1>3. ASSUME NEW id \in Ids, Act(id)
        PROVE  SavedInv'
    BY <1>0, <1>3 DEF Act, runtime
  <1>4. CASE DeadlineReached
    <2>1. PICK id \in Ids, p \in Providers : DeadlinePasses(id, p)
      BY <1>4 DEF DeadlineReached
    <2>2. id \in DOMAIN jobs /\ jobs[id] \in Entry
      BY <2>1, IndInvIsRows DEF DeadlinePasses, Rows
    <2>3. jobs[id].job.st \in [Providers -> States]
      BY <2>2, EntryParts
    <2>4. DOMAIN jobs' = DOMAIN jobs /\ \A i \in DOMAIN jobs \ {id} : jobs'[i] = jobs[i]
      BY <2>1 DEF DeadlinePasses
    <2>5. jobs'[id].job.st = [jobs[id].job.st EXCEPT ![p] = "RetryDue"]
      BY <2>1, <2>2 DEF DeadlinePasses, Entry, Job
    <2>6. \A i \in DOMAIN jobs', q \in Providers :
            jobs'[i].job.st[q] = "Succeeded" => jobs[i].job.st[q] = "Succeeded"
      BY <2>3, <2>4, <2>5
    <2> QED
      BY <1>4, <2>4, <2>6, IdleKeepsSaved DEF DeadlineReached, runtime
  <1>5. CASE Shutdown
    BY <1>0, <1>5 DEF Shutdown
  <1>6. CASE Exit \/ Crash
    BY <1>0, <1>6 DEF Exit, Crash, Stopped
  <1>7. CASE Start
    BY <1>0, <1>7 DEF Start, SavedInv
  <1> QED
    BY <1>1, <1>2, <1>3, <1>4, <1>5, <1>6, <1>7 DEF SessionNext

(* The rows and the history agree after every tick that saved, in every    *)
(* session and under every limit: a delivery a retained row shows as       *)
(* successful is recorded as such, so no restart makes it Failed again and *)
(* offers the user to repeat it.                                           *)
THEOREM SuccessfulRowsAreSaved ==
  ASSUME "Malformed" \notin Outcomes, Roomy
  PROVE  SessionSpec => []SavedRows
PROOF
  <1>1. SessionInit => SavedInv
    BY DEF SessionInit, SavedInv, SavedRows
  <1>2. UNCHANGED allVars /\ SavedInv => SavedInv'
    BY DEF allVars, vars, runtime, SavedInv, SavedRows, Recorded
  <1>3. IndInv /\ ShapeInv /\ SavedInv /\ [SessionNext]_allVars => SavedInv'
    BY <1>2, SessionNextKeepsSaved
  <1>4. SavedInv => SavedRows
    BY DEF SavedInv
  <1> QED
    BY <1>1, <1>3, <1>4, SessionShape, PTL DEF SessionSpec

-----------------------------------------------------------------------------
(* What was reported as delivered is saved.                                *)

(* A success is in the row of its log, or the log has no row and a record. *)
Keeping(d) ==
  /\ RowOf(d[1]) # {} \/ Recorded(disk, d[1], d[2])
  /\ \A id \in RowOf(d[1]) : jobs[id].job.st[d[2]] = "Succeeded"

KeptInv == \A d \in succeeded \ lost : d[1] \notin touched => Keeping(d)

(* A row that goes leaves its success on record or is counted as lost.     *)
LEMMA StillKept ==
  ASSUME Lose, NEW d \in succeeded' \ lost', RowOf(d[1]) # {} \/ Recorded(disk', d[1], d[2]),
         \A id \in RowOf(d[1])' : jobs'[id].job.st[d[2]] = "Succeeded"
  PROVE  Keeping(d)' /\ d \notin lost
  BY DEF Lose, Keeping

(* The work of a tick undoes no success, whichever rows it evicts.         *)
LEMMA CalmKeepsKept ==
  ASSUME ShapeInv, KeptInv, Lose, CalmWork,
         \A d \in succeeded' \ succeeded :
           /\ RowOf(d[1]) # {}
           /\ \A id \in RowOf(d[1])' : jobs'[id].job.st[d[2]] = "Succeeded"
  PROVE  KeptInv'
PROOF
  <1>1. /\ files' = files /\ touched' = touched /\ disk' = disk /\ DOMAIN jobs' \subseteq DOMAIN jobs
        /\ \A id \in DOMAIN jobs' : Lasting(jobs[id], jobs'[id])
    BY DEF CalmWork, Calm, CalmTo
  <1>2. ASSUME NEW d \in succeeded' \ lost', d[1] \notin touched
        PROVE  Keeping(d)'
    <2>1. CASE d \in succeeded
      <3>1. d[2] \in Providers /\ d \notin lost
        BY <1>2, <2>1 DEF ShapeInv, Lose
      <3>2. Keeping(d)
        BY <1>2, <2>1, <3>1 DEF KeptInv
      <3>3. \A id \in RowOf(d[1])' : id \in RowOf(d[1]) /\ jobs'[id].job.st[d[2]] = "Succeeded"
        BY <1>1, <3>1, <3>2 DEF RowOf, Keeping, Lasting
      <3> QED
        BY <1>1, <1>2, <3>2, <3>3, StillKept DEF Keeping
    <2>2. CASE d \notin succeeded
      BY <1>2, <2>2, StillKept
    <2> QED
      BY <2>1, <2>2
  <1> QED
    BY <1>1, <1>2 DEF KeptInv

(* A result that reports a success shows it in its row, if that stays.     *)
LEMMA SuccessIsShown ==
  ASSUME IndInv, NEW r \in inflight, NEW outcome \in OutcomesOf(r.provider),
         AcceptResult(r, outcome), NextState(outcome) = "Succeeded"
  PROVE  /\ r.id \in DOMAIN jobs
         /\ r.id \in DOMAIN jobs' => jobs'[r.id].job.st[r.provider] = "Succeeded"
PROOF
  <1> DEFINE b == jobs[r.id]
             f == [jobs[r.id] EXCEPT !.job = AppliedJob(@, r.provider, outcome)]
             P == Released(f, r.provider, outcome)
  <1>1. Acceptable(r, outcome) /\ outcome # "Malformed"
    BY DEF AcceptResult, Acceptable
  <1>2. r.id \in DOMAIN jobs /\ r.provider \in Providers /\ b \in Entry
    BY <1>1, AcceptedRow DEF Sound
  <1>3. f \in Entry /\ f.job.st[r.provider] = "Succeeded"
    <2> DEFINE job == b.job
               a == AppliedJob(job, r.provider, outcome)
    <2>1. job \in Job /\ job.st \in [Providers -> States]
      BY <1>2, EntryParts
    <2>2. a \in Job /\ a.st = [job.st EXCEPT ![r.provider] = NextState(outcome)]
      <3> HIDE DEF job
      <3> QED
        BY <1>1, <1>2, <2>1, AppliedFields
    <2>3. f = [b EXCEPT !.job = a]
      OBVIOUS
    <2> HIDE DEF a, f
    <2>4. f \in Entry /\ f.job = a
      BY <1>2, <2>2, <2>3 DEF Entry
    <2> QED
      BY <1>2, <2>1, <2>2, <2>4
  <1>4. AfterResult(f, r.provider, outcome) = f
    BY DEF AfterResult
  <1>5. PICK answers \in [P -> EnqueueOutcomes] :
          LET done == DispatchEach(r.id, AfterResult(f, r.provider, outcome), P, answers)
          IN jobs' = TrimTo(Put(jobs, r.id, done.entry), historyLimit)
    BY DEF AcceptResult
  <1>6. P \in SUBSET Providers
    BY DEF Released, WaitingIn, DEPENDENTS, Providers
  <1> HIDE DEF f, P
  <1> DEFINE d == DispatchEach(r.id, f, P, answers)
             t == Put(jobs, r.id, d.entry)
  <1>7. jobs' = TrimTo(t, historyLimit)
    BY <1>4, <1>5
  <1>8. SentFrom(r.id, f, P, d)
    BY <1>3, <1>6, DispatchEachSends
  <1> HIDE DEF d
  <1>9. d.entry.job.st[r.provider] = "Succeeded"
    BY <1>2, <1>3, <1>8 DEF SentFrom, Lasting
  <1>10. t[r.id] = d.entry
    BY DEF Put
  <1> HIDE DEF t
  <1>11. r.id \in DOMAIN jobs' => jobs'[r.id] = t[r.id]
    BY <1>7, TrimKeeps
  <1> QED
    BY <1>2, <1>9, <1>10, <1>11

LEMMA HandleResultKeepsKept ==
  ASSUME "Malformed" \notin Outcomes, IndInv, ShapeInv, KeptInv, Lose,
         NEW r \in inflight, HandleResult(r)
  PROVE  KeptInv'
PROOF
  <1>1. PICK outcome \in OutcomesOf(r.provider) :
          \/ /\ AcceptResult(r, outcome)
             /\ succeeded' = IF NextState(outcome) = "Succeeded"
                             THEN succeeded \cup {<<files[r.id], r.provider>>} ELSE succeeded
          \/ RejectResult(r, outcome) /\ UNCHANGED succeeded
    BY DEF HandleResult
  <1>2. CalmWork /\ files' = files /\ DOMAIN jobs' \subseteq DOMAIN jobs
    BY HandleResultIsCalm DEF CalmWork, Calm, CalmTo
  <1>3. ASSUME NEW d \in succeeded' \ succeeded
        PROVE  /\ RowOf(d[1]) # {}
               /\ \A id \in RowOf(d[1])' : jobs'[id].job.st[d[2]] = "Succeeded"
    <2>1. AcceptResult(r, outcome) /\ NextState(outcome) = "Succeeded" /\ d = <<files[r.id], r.provider>>
      BY <1>1, <1>3
    <2>2. /\ r.id \in DOMAIN jobs
          /\ r.id \in DOMAIN jobs' => jobs'[r.id].job.st[r.provider] = "Succeeded"
      BY <2>1, SuccessIsShown
    <2>3. d[1] = files[r.id] /\ d[2] = r.provider
      BY <2>1
    <2>4. \A id \in RowOf(d[1])' : id = r.id /\ id \in DOMAIN jobs'
      BY <1>2, <2>2, <2>3 DEF RowOf, ShapeInv, OneRowEach
    <2> QED
      BY <2>2, <2>3, <2>4 DEF RowOf
  <1> QED
    BY <1>2, <1>3, CalmKeepsKept

(* The other calm steps report nothing.                                    *)
LEMMA QuietKeepsKept ==
  ASSUME "Malformed" \notin Outcomes, IndInv, ShapeInv, KeptInv, Lose,
         \/ \E id \in Ids : HandleMetadata(id)
         \/ Sweep
         \/ DeadlineReached
         \/ ApplySettings
         \/ Shutdown
  PROVE  KeptInv'
PROOF
  <1>1. CalmWork
    BY HandleMetadataIsCalm, SweepIsCalm, DeadlineReachedIsCalm, ApplySettingsIsCalm, ShutdownIsCalm
  <1>2. succeeded' = succeeded
    BY DEF HandleMetadata, Sweep, DeadlineReached, ApplySettings, Shutdown, observers
  <1> QED
    BY <1>1, <1>2, CalmKeepsKept

(* The user changes the row of the log the user touches, and no other.     *)
LEMMA ActKeepsKept ==
  ASSUME IndInv, ShapeInv, KeptInv, Lose, NEW id \in Ids, Act(id)
  PROVE  KeptInv'
PROOF
  <1>1. /\ files' = files /\ disk' = disk /\ succeeded' = succeeded /\ touched' = touched \cup {files[id]}
    BY DEF Act, runtime
  <1>2. DOMAIN jobs' = DOMAIN jobs /\ \A i \in DOMAIN jobs \ {id} : jobs'[i] = jobs[i]
    BY UserActionIsManual DEF Act, Manual
  <1>3. ASSUME NEW d \in succeeded' \ lost', d[1] \notin touched'
        PROVE  Keeping(d)'
    <2>1. d \notin lost /\ d[1] \notin touched /\ d[1] # files[id]
      BY <1>1, <1>3 DEF Lose
    <2>2. Keeping(d)
      BY <1>1, <2>1 DEF KeptInv
    <2>3. \A i \in RowOf(d[1])' : i \in RowOf(d[1]) /\ i # id
      BY <1>1, <1>2, <2>1 DEF RowOf
    <2> QED
      BY <1>1, <1>2, <1>3, <2>2, <2>3, StillKept DEF Keeping, RowOf
  <1> QED
    BY <1>3 DEF KeptInv

(* A log that was delivered is known, by its row or by its record, so a    *)
(* log that is submitted has no success yet; the other rows are as they    *)
(* were, or have been evicted.                                             *)
LEMMA SubmitKeepsKept ==
  ASSUME IndInv, ShapeInv, KeptInv, Lose, NEW file \in Files, Submit(file)
  PROVE  KeptInv'
PROOF
  <1>1. /\ phase = "scan" /\ file \notin known
        /\ disk' = disk /\ succeeded' = succeeded /\ touched' = touched
    BY DEF Submit, observers
  <1>2. PICK enabled \in Selections :
          \/ /\ CanAdd(enabled)
             /\ \/ jobs' = WithPending(enabled)
                \/ jobs' = TrimTo([WithPending(enabled) EXCEPT ![nextId] = WithoutMetadata(@, FALSE)],
                                  historyLimit)
             /\ files' = Append(files, file)
          \/ ~CanAdd(enabled) /\ UNCHANGED <<jobs, nextId, files, known>>
    BY DEF Submit
  <1>3. enabled \in SUBSET Installed
    BY SessionAssumption
  <1>4. \A i \in DOMAIN jobs' :
          \/ i \in DOMAIN jobs /\ jobs'[i] = jobs[i] /\ files'[i] = files[i]
          \/ files'[i] = file
    <2>1. CASE UNCHANGED <<jobs, nextId, files, known>>
      BY <2>1
    <2>2. CASE /\ CanAdd(enabled)
               /\ \/ jobs' = WithPending(enabled)
                  \/ jobs' = TrimTo([WithPending(enabled) EXCEPT ![nextId] = WithoutMetadata(@, FALSE)],
                                    historyLimit)
               /\ files' = Append(files, file)
      <3>1. /\ nextId \in Nat /\ DOMAIN jobs' \subseteq DOMAIN jobs \cup {nextId}
            /\ \A i \in DOMAIN jobs' \ {nextId} : jobs'[i] = jobs[i]
        <4>1. /\ nextId \in Ids /\ DOMAIN jobs' \subseteq DOMAIN jobs \cup {nextId}
              /\ \A i \in DOMAIN jobs' \ {nextId} : jobs'[i] = jobs[i]
          BY <1>3, <2>2, NewRows
        <4> QED
          BY <4>1, CoordinatorAssumption DEF Ids
      <3>2. /\ files'[nextId] = file /\ \A i \in 1..Len(files) : files'[i] = files[i]
        BY <2>2, <3>1 DEF ShapeInv
      <3> QED
        BY <3>1, <3>2, RowFiles
    <2> QED
      BY <1>2, <2>1, <2>2
  <1>5. ASSUME NEW d \in succeeded' \ lost', d[1] \notin touched
        PROVE  Keeping(d)'
    <2>1. d \in succeeded \ lost
      BY <1>1, <1>5 DEF Lose
    <2>2. Keeping(d)
      BY <1>5, <2>1 DEF KeptInv
    <2>3. d[1] # file
      <3>1. d[1] \in Rowed \/ d[1] \in FilesOn(disk)
        BY <2>2 DEF Keeping, RowOf, Rowed, Recorded, FilesOn
      <3> QED
        BY <1>1, <3>1 DEF ShapeInv
    <2>4. \A i \in RowOf(d[1])' : i \in RowOf(d[1]) /\ jobs'[i] = jobs[i]
      BY <1>4, <2>3 DEF RowOf
    <2> QED
      BY <1>1, <1>5, <2>2, <2>4, StillKept DEF Keeping
  <1> QED
    BY <1>1, <1>5 DEF KeptInv

(* A save keeps the records without a row, also the last one.              *)
LEMMA RecordsStay ==
  ASSUME IndInv, ShapeInv, Roomy, NEW d, Recorded(disk, d[1], d[2]), RowOf(d[1]) = {}
  PROVE  Recorded(Merged, d[1], d[2])
PROOF
  <1>1. PICK i \in DOMAIN disk : disk[i].file = d[1] /\ disk[i].job.st[d[2]] = "Succeeded"
    BY DEF Recorded
  <1>2. PICK j \in DOMAIN Merged : Merged[j] = disk[i]
    BY <1>1, MergedFacts DEF ShapeInv, Roomy
  <1> QED
    BY <1>1, <1>2 DEF Recorded

LEMMA DocumentKeepsKept ==
  ASSUME IndInv, ShapeInv, Roomy, KeptInv, Lose, disk' \in {disk, Merged},
         succeeded' = succeeded, touched' = touched,
         \/ jobs' = jobs /\ files' = files
         \/ jobs' = NoJobs
  PROVE  KeptInv'
PROOF
  <1>1. ASSUME NEW d \in succeeded \ lost', d[1] \notin touched
        PROVE  Keeping(d)'
    <2>1. d \notin lost
      BY <1>1 DEF Lose
    <2>2. Keeping(d)
      BY <1>1, <2>1 DEF KeptInv
    <2>3. RowOf(d[1]) # {} \/ Recorded(disk', d[1], d[2])
      BY <2>2, RecordsStay DEF Keeping
    <2>4. \A id \in RowOf(d[1])' : jobs'[id].job.st[d[2]] = "Succeeded"
      BY <2>2 DEF Keeping, RowOf, NoJobs
    <2> QED
      BY <1>1, <2>3, <2>4, StillKept
  <1> QED
    BY <1>1 DEF KeptInv

(* A restart reads every success of a record into its row.                 *)
LEMMA StartKeepsKept ==
  ASSUME IndInv, ShapeInv, KeptInv, Lose, Start
  PROVE  KeptInv'
PROOF
  <1>1. PICK skip \in Nat : /\ skip + Len(files') = Len(disk)
                            /\ \A i \in 1..Len(files') :
                                 /\ files'[i] = disk[skip + i].file
                                 /\ Lasting(disk[skip + i], jobs'[i])
    BY StartFacts
  <1>2. DOMAIN jobs' = 1..Len(files') /\ Len(files') \in Nat
    BY StartFacts
  <1>3. DOMAIN jobs = {} /\ disk' = disk /\ succeeded' = succeeded /\ touched' = touched
    BY DEF Start, Restore, observers
  <1>4. /\ DOMAIN disk = 1..Len(disk) /\ Len(disk) \in Nat
        /\ \A i, j \in 1..Len(disk) : disk[i].file = disk[j].file => i = j
    BY DEF ShapeInv, Document, Listing
  <1>5. ASSUME NEW d \in succeeded' \ lost', d[1] \notin touched'
        PROVE  Keeping(d)'
    <2>1. d \in succeeded \ lost /\ d[2] \in Providers
      BY <1>3, <1>5 DEF Lose, ShapeInv
    <2>2. Recorded(disk, d[1], d[2])
      BY <1>3, <1>5, <2>1 DEF KeptInv, Keeping, RowOf
    <2>3. PICK i \in DOMAIN disk : disk[i].file = d[1] /\ disk[i].job.st[d[2]] = "Succeeded"
      BY <2>2 DEF Recorded
    <2>4. ASSUME NEW id \in RowOf(d[1])'
          PROVE  jobs'[id].job.st[d[2]] = "Succeeded"
      <3>1. id \in 1..Len(files') /\ files'[id] = d[1]
        BY <1>2, <2>4 DEF RowOf
      <3>2. skip + id \in 1..Len(disk) /\ disk[skip + id].file = d[1] /\ Lasting(disk[skip + id], jobs'[id])
        BY <1>1, <1>2, <1>4, <3>1
      <3>3. skip + id = i
        BY <1>4, <2>3, <3>2
      <3> QED
        BY <2>1, <2>3, <3>2, <3>3 DEF Lasting
    <2> QED
      BY <1>3, <1>5, <2>2, <2>4, StillKept
  <1> QED
    BY <1>5 DEF KeptInv

LEMMA SavedNextKeepsKept ==
  ASSUME "Malformed" \notin Outcomes, IndInv, ShapeInv, Roomy, KeptInv, SavedNext
  PROVE  KeptInv'
PROOF
  <1>0. Lose /\ SessionNext
    BY DEF SavedNext
  <1>1. CASE TickStep
    <2>1. CASE SaveBeforeWork \/ SaveAfterWork
      BY <1>0, <2>1, DocumentKeepsKept
         DEF SaveBeforeWork, SaveAfterWork, SaveSucceeds, SaveFails, vars, observers
    <2>2. CASE Proceed
      BY <1>0, <2>2, DocumentKeepsKept DEF Proceed, vars, observers
    <2>3. ASSUME NEW id \in Ids, HandleMetadata(id)
          PROVE  KeptInv'
      BY <1>0, <2>3, QuietKeepsKept
    <2>4. ASSUME NEW r \in inflight, HandleResult(r)
          PROVE  KeptInv'
      BY <1>0, <2>4, HandleResultKeepsKept
    <2>5. CASE Sweep
      BY <1>0, <2>5, QuietKeepsKept
    <2>6. ASSUME NEW file \in Files, Submit(file)
          PROVE  KeptInv'
      BY <1>0, <2>6, SubmitKeepsKept
    <2> QED
      BY <1>1, <2>1, <2>2, <2>3, <2>4, <2>5, <2>6 DEF TickStep
  <1>2. CASE ApplySettings \/ DeadlineReached \/ Shutdown
    BY <1>0, <1>2, QuietKeepsKept
  <1>3. ASSUME NEW id \in Ids, Act(id)
        PROVE  KeptInv'
    BY <1>0, <1>3, ActKeepsKept
  <1>4. CASE Exit \/ Crash
    BY <1>0, <1>4, DocumentKeepsKept DEF Exit, Crash, Stopped, observers
  <1>5. CASE Start
    BY <1>0, <1>5, StartKeepsKept
  <1> QED
    BY <1>0, <1>1, <1>2, <1>3, <1>4, <1>5 DEF SessionNext

(* When a tick has ended with a save, every success reported so far is in  *)
(* the history file (logs the user replayed apart), in every session and   *)
(* under every limit, unless its row went before a save could write it:    *)
(* accept_result settles the row, merge_and_save writes it and keeps it    *)
(* when the row is evicted, restore reads it back.                         *)
THEOREM SuccessesAreAlwaysSaved ==
  ASSUME "Malformed" \notin Outcomes, Roomy
  PROVE  SavedSpec => []SuccessesAreSaved
PROOF
  <1>1. SavedInit => SessionInit /\ KeptInv
    BY DEF SavedInit, SessionInit, KeptInv
  <1>2. [SavedNext]_savedVars => [SessionNext]_allVars
    BY DEF SavedNext, savedVars
  <1>3. SavedSpec => SessionSpec
    BY <1>1, <1>2, PTL DEF SavedSpec, SessionSpec
  <1>4. SessionSpec => []SavedRows
    BY SuccessfulRowsAreSaved
  <1>5. SessionSpec => [](IndInv /\ ShapeInv)
    BY SessionShape
  <1>6. UNCHANGED savedVars /\ KeptInv => KeptInv'
    BY DEF savedVars, allVars, vars, runtime, observers, KeptInv, Keeping, RowOf, Recorded
  <1>7. IndInv /\ ShapeInv /\ KeptInv /\ [SavedNext]_savedVars => KeptInv'
    BY <1>6, SavedNextKeepsKept
  <1>8. ShapeInv /\ SavedRows /\ KeptInv => SuccessesAreSaved
    <2> SUFFICES ASSUME ShapeInv, SavedRows, KeptInv, phase = "begin", saved,
                        NEW d \in succeeded \ lost, d[1] \notin touched
                 PROVE  Recorded(disk, d[1], d[2])
      BY DEF SuccessesAreSaved
    <2>1. d[2] \in Providers /\ Keeping(d)
      BY DEF ShapeInv, KeptInv
    <2>2. ASSUME NEW id \in RowOf(d[1])
          PROVE  Recorded(disk, d[1], d[2])
      BY <2>1, <2>2 DEF SavedRows, RowOf, Keeping
    <2> QED
      BY <2>1, <2>2 DEF Keeping
  <1> QED
    BY <1>1, <1>3, <1>4, <1>5, <1>7, <1>8, PTL DEF SavedSpec

-----------------------------------------------------------------------------
(* Eviction in the runtime.                                                *)

(* A log the parser refuses is trimmed for twice: before it has a row and  *)
(* once its row has failed.                                                *)
LEMMA SubmitEvicts ==
  ASSUME IndInv, NEW enabled \in SUBSET Installed, CanAdd(enabled),
         \/ jobs' = WithPending(enabled)
         \/ jobs' = TrimTo([WithPending(enabled) EXCEPT ![nextId] = WithoutMetadata(@, FALSE)],
                           historyLimit),
         historyLimit' = historyLimit
  PROVE  EvictionStep
PROOF
  <1> DEFINE w == WithPending(enabled)
             v == [w EXCEPT ![nextId] = WithoutMetadata(@, FALSE)]
             u == TrimTo(v, historyLimit)
  <1>1. /\ Tight(w, historyLimit) /\ OldestGone(jobs, w)
        /\ DOMAIN w \subseteq DOMAIN jobs \cup {nextId}
        /\ nextId \notin DOMAIN jobs
    BY AdmissionEvicts
  <1>2. DOMAIN v = DOMAIN w /\ \A i \in DOMAIN v \ {nextId} : v[i] = w[i]
    OBVIOUS
  <1>3. jobs' = w \/ jobs' = u
    OBVIOUS
  <1> HIDE DEF w, v
  <1>4. DOMAIN v \in SUBSET Nat /\ IsFiniteSet(DOMAIN v) /\ historyLimit \in Nat
    <2>1. DOMAIN jobs \in SUBSET Nat /\ IsFiniteSet(DOMAIN jobs) /\ historyLimit \in Nat
      BY FinitelyManyRows
    <2>2. nextId \in Nat
      BY CoordinatorAssumption DEF CanAdd, Ids
    <2>3. IsFiniteSet(DOMAIN jobs \cup {nextId})
      BY <2>1, FS_AddElement
    <2>4. IsFiniteSet(DOMAIN v)
      BY <1>1, <1>2, <2>3, FS_Subset
    <2> QED
      BY <1>1, <1>2, <2>1, <2>2, <2>4
  <1>5. Tight(u, historyLimit) /\ OldestGone(v, u)
    BY <1>4, TrimEvicts
  <1>6. DOMAIN u \subseteq DOMAIN v /\ \A i \in DOMAIN u : u[i] = v[i]
    BY TrimKeeps
  <1> HIDE DEF u
  <1>7. OldestGone(jobs, u)
    <2> SUFFICES ASSUME NEW gone \in DOMAIN jobs \ DOMAIN u, NEW id \in DOMAIN jobs \cap DOMAIN u,
                        id < gone
                 PROVE  Busy(u[id])
      BY DEF OldestGone
    <2>1. id \in DOMAIN w /\ u[id] = w[id]
      BY <1>1, <1>2, <1>6
    <2>2. CASE gone \in DOMAIN w
      BY <1>2, <1>5, <1>6, <2>2 DEF OldestGone
    <2>3. CASE gone \notin DOMAIN w
      BY <1>1, <2>1, <2>3 DEF OldestGone
    <2> QED
      BY <2>2, <2>3
  <1>8. Tight(jobs', historyLimit) /\ OldestGone(jobs, jobs')
    BY <1>1, <1>3, <1>5, <1>7
  <1>9. OverLimitOnlyBusy'
    BY <1>8 DEF Tight, OverLimitOnlyBusy, Idle
  <1> QED
    BY <1>8, <1>9 DEF OldestGone, EvictionStep

(* A process that is gone has no rows.                                     *)
LEMMA StoppedEvicts ==
  ASSUME IndInv, NEW document, Stopped(document)
  PROVE  EvictionStep
PROOF
  <1>1. DOMAIN jobs' = {} /\ historyLimit' = historyLimit
    BY DEF Stopped, NoJobs
  <1>2. OverLimitOnlyBusy'
    BY <1>1 DEF OverLimitOnlyBusy, Idle
  <1> QED
    BY <1>1, <1>2 DEF EvictionStep

LEMMA SessionNextEvicts ==
  ASSUME IndInv, ShapeInv, OverLimitOnlyBusy, SessionNext
  PROVE  EvictionStep
PROOF
  <1>0. UNCHANGED <<jobs, historyLimit>> => EvictionStep
    BY UntrimmedStep
  <1>1. CASE TickStep
    <2>1. CASE SaveBeforeWork \/ SaveAfterWork \/ Proceed
      BY <1>0, <2>1 DEF SaveBeforeWork, SaveAfterWork, SaveSucceeds, SaveFails, Proceed, vars
    <2>2. ASSUME NEW id \in Ids, HandleMetadata(id)
          PROVE  EvictionStep
      BY <2>2, TrimmingCalls DEF HandleMetadata
    <2>3. ASSUME NEW r \in inflight, HandleResult(r)
          PROVE  EvictionStep
      <3>1. PICK outcome \in OutcomesOf(r.provider) : AcceptResult(r, outcome) \/ RejectResult(r, outcome)
        BY <2>3 DEF HandleResult
      <3>2. outcome \in AllOutcomes
        BY CoordinatorAssumption DEF OutcomesOf
      <3>3. CASE RejectResult(r, outcome)
        BY <1>0, <3>3 DEF RejectResult
      <3> QED
        BY <3>1, <3>2, <3>3, TrimmingCalls
    <2>4. CASE Sweep
      BY <1>0, <2>4, TrimmingCalls DEF Sweep, vars
    <2>5. ASSUME NEW file \in Files, Submit(file)
          PROVE  EvictionStep
      <3>1. historyLimit' = historyLimit
        BY <2>5 DEF Submit
      <3>2. PICK enabled \in Selections :
              \/ /\ CanAdd(enabled)
                 /\ \/ jobs' = WithPending(enabled)
                    \/ jobs' = TrimTo([WithPending(enabled) EXCEPT ![nextId] = WithoutMetadata(@, FALSE)],
                                      historyLimit)
              \/ UNCHANGED jobs
        BY <2>5 DEF Submit
      <3>3. enabled \in SUBSET Installed
        BY SessionAssumption
      <3> QED
        BY <1>0, <3>1, <3>2, <3>3, SubmitEvicts
    <2> QED
      BY <1>1, <2>1, <2>2, <2>3, <2>4, <2>5 DEF TickStep
  <1>2. CASE ApplySettings
    BY <1>2, SessionAssumption, TrimmingCalls DEF ApplySettings
  <1>3. ASSUME NEW id \in Ids, Act(id)
        PROVE  EvictionStep
    BY <1>3, RetryFailedEvicts, ReuploadEvicts, RechatEvicts DEF Act, UserAction
  <1>4. CASE DeadlineReached
    BY <1>4, DeadlinePassesEvicts DEF DeadlineReached
  <1>5. CASE Shutdown
    BY <1>5, TrimmingCalls DEF Shutdown
  <1>6. CASE Exit \/ Crash
    BY <1>6, StoppedEvicts DEF Exit, Crash
  <1>7. CASE Start
    <2> DEFINE records == [i \in DOMAIN disk |-> disk[i].job]
    <2>1. Restore(records) /\ Document(disk)
      BY <1>7 DEF Start, ShapeInv
    <2>2. Len(disk) \in Nat /\ DOMAIN disk = 1..Len(disk) /\ \A i \in DOMAIN disk : disk[i].job \in Job
      BY <2>1 DEF Document, Listing, JobKept
    <2>3. records \in [1..Len(disk) -> Job] /\ DOMAIN records = 1..Len(disk)
      BY <2>2
    <2> HIDE DEF records
    <2> QED
      BY <2>1, <2>2, <2>3, RestoreEvicts
  <1> QED
    BY <1>1, <1>2, <1>3, <1>4, <1>5, <1>6, <1>7 DEF SessionNext

(* In every session, whatever is restored, submitted, refused or cut short *)
(* by a new limit: rows leave the table oldest idle one first, and it is   *)
(* over its limit only by rows that are all busy.                          *)
THEOREM SessionEvictsOldest ==
  ASSUME "Malformed" \notin Outcomes
  PROVE  SessionSpec => EvictsOldestIdle
PROOF
  <1>1. SessionInit => OverLimitOnlyBusy
    BY DEF SessionInit, Init, NoJobs, OverLimitOnlyBusy, Idle
  <1>2. UNCHANGED vars /\ OverLimitOnlyBusy => OverLimitOnlyBusy'
    BY DEF vars, OverLimitOnlyBusy, Idle
  <1>3. UNCHANGED allVars => UNCHANGED vars
    BY DEF allVars
  <1>4. IndInv /\ ShapeInv /\ OverLimitOnlyBusy /\ [SessionNext]_allVars
          => OverLimitOnlyBusy' /\ [EvictionStep]_vars
    BY <1>2, <1>3, SessionNextEvicts DEF EvictionStep
  <1>5. EvictsOldestIdle <=> [][EvictionStep]_vars
    BY DEF EvictsOldestIdle, EvictionStep
  <1> QED
    BY <1>1, <1>4, <1>5, SessionShape, PTL DEF SessionSpec
=============================================================================
