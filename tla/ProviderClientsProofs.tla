------------------------- MODULE ProviderClientsProofs -------------------------
(***************************************************************************)
(* Machine-checked proofs about ProviderClients: what the three workers    *)
(* report of their uploads is true, and what DonBot has is what it was     *)
(* asked for, for any set of requests, guilds and rounds, any number of    *)
(* attempts and any intervals and timeouts.                                *)
(***************************************************************************)
EXTENDS ProviderClients, TLAPS

(* The steps of the three workers.                                         *)
DpsSteps == {"Token", "Upload", "Store"}
WingmanSteps == {"Post", "TicketWait", "Ticket", "Check", "Link", "LinkCheck"}
DonBotSteps == {"Key", "Create", "Patch", "Stream", "Import"}

Options == [guild : {c.guild : c \in Choices} \cup {"None"}, delivery : BOOLEAN]

Attempt ==
  [pc : {"New", "Done"} \cup DpsSteps \cup WingmanSteps \cup DonBotSteps,
   sent : BOOLEAN, arrived : BOOLEAN, attempt : Nat, opt : Options, token : Nat, offered : Nat,
   id : BOOLEAN, now : Nat, deadline : Nat, out : Settled \cup {"None"}, receipt : Receipts]

DonBotRecord ==
  [records : Nat, asked : BOOLEAN, state : {"None", "Pending", "Complete", "Failed"},
   receipt : Receipts, announced : Nat]

Services ==
  [reports : SUBSET Logs, issued : Nat, wingman : SUBSET Logs, donbot : [Keys -> DonBotRecord]]

ShapeInv ==
  /\ options \in Choices
  /\ run \in [Requests -> Attempt]
  /\ stop \in BOOLEAN
  /\ secrets \in [open : BOOLEAN, token : Nat]
  /\ server \in Services
  /\ secrets.token \in kept \cup {0}

(* What DonBot keeps under a key.                                          *)
RecordInv(k) ==
  LET x == server.donbot[k]
  IN /\ x.records <= 1
     /\ x.records = 0 => ~x.asked /\ x.announced = 0 /\ x.state = "None"
     /\ x.announced <= 1
     /\ x.state = "Pending" => x.announced = 0
     /\ x.asked \/ x.announced > 0 => k \in asked
     /\ x.state = "Complete" /\ x.receipt = "Sent" => x.announced > 0
     /\ x.state = "Complete" /\ x.receipt = "Failed" => x.announced = 0

(* Nothing of the log has been sent to DonBot.                             *)
Unsent(c) ==
  \/ c.pc \in {"New", "Key", "Create"}
  \/ c.pc = "Patch" /\ ~c.sent
  \/ c.out = "Retry"

Direct(r) == r.provider = "DonBot" /\ ~r.imported

(* The call is at the service, or has been.                                *)
Reached(c, calls, later) ==
  \/ c.pc \in calls /\ c.sent /\ c.arrived
  \/ c.pc \in later
  \/ c.out = "Succeeded"

StepInv(r) ==
  LET c == run[r]
  IN /\ c.pc \in DpsSteps => r.provider = "DpsReport"
     /\ c.pc \in WingmanSteps => r.provider = "Wingman"
     /\ c.pc \in DonBotSteps => r.provider = "DonBot"
     /\ c.pc \in {"Create", "Patch"} => ~r.imported
     /\ c.pc = "Import" => r.imported
     /\ c.out # "None" <=> c.pc = "Done"
     /\ c.pc \in {"TicketWait", "Ticket", "Check"} => c.now <= c.deadline
     /\ c.token \in kept \cup {0}
     /\ c.offered \in 0 .. server.issued
     /\ r.provider # "DpsReport" => c.offered = 0

ServiceInv(r) ==
  LET c == run[r]
  IN /\ r.provider = "DpsReport" /\ Reached(c, {"Upload"}, {"Store"}) => r.log \in server.reports
     /\ r.provider = "Wingman" /\ Reached(c, {"Post", "Link"}, {"TicketWait", "Ticket", "Check", "LinkCheck"})
          => r.log \in server.wingman
     /\ c.out = "Succeeded" /\ c.offered > 0 /\ secrets.open => c.offered \in kept

DonBotInv(r) ==
  LET c == run[r]
      k == <<r.log, c.opt.guild, r.report>>
  IN r.provider = "DonBot" =>
       /\ c.pc # "New" => c.opt.guild \in Guilds /\ (c.opt.delivery => k \in asked)
       /\ Reached(c, {"Patch", "Import"}, {"Stream"}) => server.donbot[k].records > 0
       /\ c.out = "Succeeded" /\ c.receipt \in {"Sent", "Failed"} =>
            server.donbot[k].state = "Complete" /\ server.donbot[k].receipt = c.receipt
       /\ ~r.imported /\ Unsent(c) => \A g \in Guilds : server.donbot[<<r.log, g, r.report>>].records = 0

AttemptInv(r) == StepInv(r) /\ ServiceInv(r) /\ DonBotInv(r)

ClientInv ==
  /\ ShapeInv
  /\ \A k \in Keys : RecordInv(k)
  /\ \A r \in Requests : AttemptInv(r)

-----------------------------------------------------------------------------
(* What the services have is never less, and what DonBot has completed     *)
(* stays as it is.                                                         *)
Grows ==
  /\ server.reports \subseteq server'.reports /\ server.wingman \subseteq server'.wingman
  /\ server.issued <= server'.issued
  /\ kept \subseteq kept' /\ asked \subseteq asked' /\ secrets'.open = secrets.open
  /\ \A k \in Keys :
       /\ server.donbot[k].records > 0 => server'.donbot[k].records > 0
       /\ server.donbot[k].records > 0 /\ server.donbot[k].state = "Complete" =>
            /\ server'.donbot[k].state = "Complete"
            /\ server'.donbot[k].receipt = server.donbot[k].receipt

(* The direct uploads do not see DonBot change.                            *)
Spared(q) ==
  Direct(q) => \A g \in Guilds :
    server'.donbot[<<q.log, g, q.report>>].records = server.donbot[<<q.log, g, q.report>>].records

(* An attempt that is not touched stays true while the services grow.    *)
LEMMA AttemptKept ==
  ASSUME ClientInv, NEW q \in Requests, ShapeInv', Grows, Spared(q), run'[q] = run[q]
  PROVE  AttemptInv(q)'
PROOF
  <1>0. /\ run[q] \in Attempt /\ q.log \in Logs /\ q.report \in Reports /\ AttemptInv(q)
        /\ server.issued \in Nat /\ server'.issued \in Nat
    BY DEF ClientInv, ShapeInv, Services, Logs, Reports
  <1>1. StepInv(q)'
    <2>1. run[q].offered \in 0 .. server'.issued
      BY <1>0 DEF AttemptInv, StepInv, Grows
    <2> QED
      BY <1>0, <2>1 DEF AttemptInv, StepInv, Grows
  <1>2. ServiceInv(q)'
    BY <1>0 DEF AttemptInv, ServiceInv, Reached, Grows
  <1>3. DonBotInv(q)'
    <2> SUFFICES ASSUME q.provider = "DonBot"
                 PROVE  DonBotInv(q)'
      BY DEF DonBotInv
    <2> DEFINE c == run[q]
               k == <<q.log, c.opt.guild, q.report>>
    <2>1. c.pc # "New" => k \in Keys
      BY <1>0 DEF AttemptInv, DonBotInv, Keys
    <2>2. c.out = "Succeeded" => c.pc # "New"
      BY <1>0 DEF AttemptInv, StepInv
    <2>3. Reached(c, {"Patch", "Import"}, {"Stream"}) => c.pc # "New" /\ server.donbot[k].records > 0
      BY <1>0, <2>2 DEF AttemptInv, DonBotInv, Reached
    <2>4. Reached(c, {"Patch", "Import"}, {"Stream"}) => server'.donbot[k].records > 0
      BY <2>1, <2>3 DEF Grows
    <2>5. c.out = "Succeeded" /\ c.receipt \in {"Sent", "Failed"} =>
            server'.donbot[k].state = "Complete" /\ server'.donbot[k].receipt = c.receipt
      <3>1. c.out = "Succeeded" => k \in Keys /\ server.donbot[k].records > 0
        BY <2>1, <2>2, <2>3 DEF Reached
      <3> QED
        BY <1>0, <3>1 DEF AttemptInv, DonBotInv, Grows
    <2>6. c.pc # "New" => c.opt.guild \in Guilds /\ (c.opt.delivery => k \in asked')
      BY <1>0 DEF AttemptInv, DonBotInv, Grows
    <2>7. ~q.imported /\ Unsent(c) => \A g \in Guilds : server'.donbot[<<q.log, g, q.report>>].records = 0
      BY <1>0 DEF AttemptInv, DonBotInv, Spared, Direct
    <2>8. run'[q] = c
      OBVIOUS
    <2> HIDE DEF c
    <2> QED
      BY <2>4, <2>5, <2>6, <2>7, <2>8 DEF DonBotInv
  <1> QED
    BY <1>1, <1>2, <1>3 DEF AttemptInv

(* A step of one worker that leaves DonBot alone.                          *)
LEMMA WorkerStep ==
  ASSUME ClientInv, NEW r \in Requests, ShapeInv', Grows, server'.donbot = server.donbot,
         \A q \in Requests \ {r} : run'[q] = run[q], AttemptInv(r)'
  PROVE  ClientInv'
PROOF
  <1>1. \A q \in Requests : Spared(q)
    BY DEF Spared
  <1>2. \A q \in Requests \ {r} : AttemptInv(q)'
    BY <1>1, AttemptKept
  <1>3. ASSUME NEW k \in Keys
        PROVE  RecordInv(k)'
    BY DEF ClientInv, RecordInv, Grows
  <1> QED
    BY <1>2, <1>3 DEF ClientInv, Keys, Guilds, Logs, Reports

(* The services and histories are as they were.                            *)
LEMMA NothingElse ==
  ASSUME ShapeInv, UNCHANGED <<secrets, server, asked, kept>>
  PROVE  Grows /\ server'.donbot = server.donbot
  BY DEF Grows, ShapeInv, Services

(* An attempt that ends.                                                   *)
LEMMA SettleFields ==
  ASSUME run \in [Requests -> Attempt], NEW r \in Requests, NEW out \in Settled, NEW receipt \in Receipts,
         \/ run' = Settle(r, out) /\ receipt = "NotRequested"
         \/ run' = [Settle(r, out) EXCEPT ![r].receipt = receipt]
  PROVE  /\ run' \in [Requests -> Attempt]
         /\ \A q \in Requests \ {r} : run'[q] = run[q]
         /\ run'[r].pc = "Done" /\ run'[r].out = out /\ run'[r].receipt = receipt
         /\ run'[r].opt = run[r].opt /\ run'[r].offered = run[r].offered /\ run'[r].token = 0
PROOF
  <1> DEFINE s == [Idle EXCEPT !.pc = "Done", !.out = out, !.attempt = run[r].attempt,
                               !.opt = run[r].opt, !.offered = run[r].offered]
             x == [s EXCEPT !.receipt = receipt]
  <1>1. run[r] \in Attempt
    OBVIOUS
  <1>2. /\ s \in Attempt /\ s.pc = "Done" /\ s.out = out /\ s.receipt = "NotRequested"
        /\ s.opt = run[r].opt /\ s.offered = run[r].offered /\ s.token = 0
    BY <1>1 DEF Attempt, Idle, Receipts
  <1>3. Settle(r, out) = [run EXCEPT ![r] = s]
    BY DEF Settle
  <1> HIDE DEF s
  <1>4. /\ x \in Attempt /\ x.pc = "Done" /\ x.out = out /\ x.receipt = receipt
        /\ x.opt = run[r].opt /\ x.offered = run[r].offered /\ x.token = 0
    BY <1>2 DEF Attempt
  <1>5. \/ run' = [run EXCEPT ![r] = s] /\ receipt = "NotRequested"
        \/ run' = [run EXCEPT ![r] = x]
    BY <1>3
  <1> HIDE DEF x
  <1>6. CASE run' = [run EXCEPT ![r] = s] /\ receipt = "NotRequested"
    BY <1>2, <1>6
  <1>7. CASE run' = [run EXCEPT ![r] = x]
    BY <1>4, <1>7
  <1> QED
    BY <1>5, <1>6, <1>7

(* What is required of an attempt that settles.                            *)
Settles(r, out, receipt) ==
  LET x == server.donbot[<<r.log, run[r].opt.guild, r.report>>]
  IN /\ out = "Retry" /\ Direct(r) => Unsent(run[r])
     /\ out = "Succeeded" =>
          /\ r.provider = "DpsReport" => r.log \in server.reports
          /\ r.provider = "Wingman" => r.log \in server.wingman
          /\ r.provider = "DonBot" =>
               /\ x.records > 0
               /\ receipt \in {"Sent", "Failed"} => x.state = "Complete" /\ x.receipt = receipt
          /\ run[r].offered > 0 /\ secrets.open => run[r].offered \in kept'

(* Settling keeps the invariant when what is settled is required.        *)
LEMMA SettleKeeps ==
  ASSUME ClientInv, NEW r \in Requests, Working(r), NEW out \in Settled, NEW receipt \in Receipts,
         \/ run' = Settle(r, out) /\ receipt = "NotRequested"
         \/ run' = [Settle(r, out) EXCEPT ![r].receipt = receipt],
         Settles(r, out, receipt), UNCHANGED <<options, stop, server, asked>>, Grows,
         secrets' \in [open : BOOLEAN, token : Nat], secrets'.token \in kept' \cup {0}
  PROVE  ClientInv'
PROOF
  <1>1. /\ run' \in [Requests -> Attempt]
        /\ \A q \in Requests \ {r} : run'[q] = run[q]
        /\ run'[r].pc = "Done" /\ run'[r].out = out /\ run'[r].receipt = receipt
        /\ run'[r].opt = run[r].opt /\ run'[r].offered = run[r].offered /\ run'[r].token = 0
    BY SettleFields DEF ClientInv, ShapeInv
  <1>2. ShapeInv'
    BY <1>1 DEF ClientInv, ShapeInv
  <1>3. StepInv(r) /\ DonBotInv(r) /\ run[r].pc # "New"
    BY DEF ClientInv, AttemptInv, Working
  <1>4. StepInv(r)'
    BY <1>1, <1>3 DEF StepInv, DpsSteps, WingmanSteps, DonBotSteps, Settled
  <1>5. ServiceInv(r)'
    BY <1>1 DEF ServiceInv, Reached, Settles, Grows
  <1>6. DonBotInv(r)'
    <2> SUFFICES ASSUME r.provider = "DonBot"
                 PROVE  DonBotInv(r)'
      BY DEF DonBotInv
    <2> DEFINE c == run'[r]
               k == <<r.log, c.opt.guild, r.report>>
    <2>1. c.opt.guild \in Guilds /\ (c.opt.delivery => k \in asked')
      BY <1>1, <1>3 DEF DonBotInv
    <2>2. Reached(c, {"Patch", "Import"}, {"Stream"}) => server.donbot[k].records > 0
      BY <1>1 DEF Reached, Settles
    <2>3. c.out = "Succeeded" /\ c.receipt \in {"Sent", "Failed"} =>
            server.donbot[k].state = "Complete" /\ server.donbot[k].receipt = c.receipt
      BY <1>1 DEF Settles
    <2>4. Unsent(c) => out = "Retry"
      BY <1>1 DEF Unsent
    <2>5. ~r.imported /\ Unsent(c) => \A g \in Guilds : server.donbot[<<r.log, g, r.report>>].records = 0
      BY <1>3, <2>4 DEF DonBotInv, Settles, Direct
    <2> HIDE DEF c
    <2>6. run'[r] = c /\ server' = server
      BY DEF c
    <2> QED
      BY <2>1, <2>2, <2>3, <2>5, <2>6 DEF DonBotInv
  <1>7. AttemptInv(r)'
    BY <1>4, <1>5, <1>6 DEF AttemptInv
  <1> QED
    BY <1>1, <1>2, <1>7, WorkerStep

(* The two ways out.                                                       *)
LEMMA FailsKeeps ==
  ASSUME ClientInv, NEW r \in Requests, Working(r), NEW out \in Settled \ {"Succeeded"},
         run' = Settle(r, out),
         out = "Retry" /\ Direct(r) => Unsent(run[r]),
         UNCHANGED <<options, stop, secrets, server, asked, kept>>
  PROVE  ClientInv'
PROOF
  <1>1. Settles(r, out, "NotRequested") /\ "NotRequested" \in Receipts
    BY DEF Settles, Receipts
  <1>2. /\ secrets' \in [open : BOOLEAN, token : Nat] /\ secrets'.token \in kept' \cup {0}
        /\ Grows
    BY NothingElse DEF ClientInv, ShapeInv
  <1> QED
    BY <1>1, <1>2, SettleKeeps

(* A success, with the receipt of the service.                           *)
LEMMA SucceedsKeeps ==
  ASSUME ClientInv, NEW r \in Requests, Working(r), NEW receipt \in Receipts, run' = Succeed(r, receipt),
         Settles(r, "Succeeded", receipt),
         UNCHANGED <<options, stop, secrets, server, asked, kept>>
  PROVE  ClientInv'
PROOF
  <1>1. "Succeeded" \in Settled /\ run' = [Settle(r, "Succeeded") EXCEPT ![r].receipt = receipt]
    BY DEF Settled, Succeed
  <1>2. /\ secrets' \in [open : BOOLEAN, token : Nat] /\ secrets'.token \in kept' \cup {0}
        /\ Grows
    BY NothingElse DEF ClientInv, ShapeInv
  <1> QED
    BY <1>1, <1>2, SettleKeeps

(* An error is retried or fails.                                         *)
LEMMA ClassifiedIsSettled ==
  ASSUME NEW e \in Errors
  PROVE  Classified(e) \in Settled \ {"Succeeded"}
  BY DEF Classified, Settled

(* A call fails: nothing of the log has been sent to DonBot.               *)
LEMMA FailedCall ==
  ASSUME ClientInv, NEW r \in Requests, Working(r), Fails(r), Direct(r) => Unsent(run[r]),
         UNCHANGED <<options, stop, secrets, server, asked, kept>>
  PROVE  ClientInv'
  BY ClassifiedIsSettled, FailsKeeps DEF Fails

-----------------------------------------------------------------------------
(* dps.report.                                                             *)

(* A step that stays within the attempt.                                   *)
Within(r, pc, sent) ==
  /\ run' \in [Requests -> Attempt]
  /\ \A q \in Requests \ {r} : run'[q] = run[q]
  /\ run'[r].pc = pc /\ run'[r].sent = sent
  /\ run'[r].opt = run[r].opt /\ run'[r].out = run[r].out /\ run'[r].receipt = run[r].receipt

(* The token is one that was stored, or none.                            *)
LEMMA LoadTokenKeeps ==
  ASSUME ClientInv, NEW r \in Requests, Working(r), LoadToken(r)
  PROVE  ClientInv'
PROOF
  <1>1. CASE run' = Settle(r, "Failed")
    BY <1>1, FailsKeeps DEF LoadToken, Settled
  <1>2. CASE run' = [Go(r, "Upload") EXCEPT ![r].token = secrets.token]
    <2>1. run \in [Requests -> Attempt] /\ secrets.token \in Nat /\ run[r] \in Attempt
      BY DEF ClientInv, ShapeInv
    <2>2. Within(r, "Upload", FALSE) /\ run'[r].token = secrets.token /\ run'[r].offered = run[r].offered
      BY <1>2, <2>1 DEF Go, Attempt, Within, DpsSteps
    <2>3. UNCHANGED <<options, stop, secrets, server, asked, kept>> /\ run[r].pc = "Token"
      BY DEF LoadToken
    <2>4. ShapeInv'
      BY <2>2, <2>3 DEF ClientInv, ShapeInv, Within
    <2>5. r.provider = "DpsReport" /\ StepInv(r) /\ run[r].out = "None"
      BY <2>3 DEF ClientInv, AttemptInv, StepInv, DpsSteps
    <2>6. AttemptInv(r)'
      BY <2>2, <2>3, <2>5 DEF AttemptInv, StepInv, ServiceInv, DonBotInv, Reached, Within, DpsSteps,
           WingmanSteps, DonBotSteps, ClientInv, ShapeInv
    <2> QED
      BY <2>2, <2>3, <2>4, <2>6, NothingElse, WorkerStep DEF ClientInv, Within
  <1> QED
    BY <1>1, <1>2 DEF LoadToken

(* dps.report has the log once the call arrives, answered or not.        *)
LEMMA UploadKeeps ==
  ASSUME ClientInv, NEW r \in Requests, Working(r), Upload(r)
  PROVE  ClientInv'
PROOF
  <1>1. run \in [Requests -> Attempt] /\ run[r] \in Attempt /\ server \in Services /\ r.log \in Logs
    BY DEF ClientInv, ShapeInv, Logs
  <1>2. PICK new, arrived \in BOOLEAN :
          /\ run[r].pc = "Upload" /\ ~run[r].sent
          /\ run' = [run EXCEPT ![r].sent = TRUE, ![r].arrived = arrived,
                                ![r].offered = IF arrived /\ new THEN server.issued + 1 ELSE 0]
          /\ server' = IF ~arrived THEN server
                       ELSE [server EXCEPT !.reports = @ \cup {r.log},
                                           !.issued = IF new THEN @ + 1 ELSE @]
          /\ UNCHANGED <<options, stop, secrets, asked, kept>>
    BY DEF Upload
  <1> DEFINE issued == IF new THEN server.issued + 1 ELSE server.issued
             offered == IF arrived /\ new THEN server.issued + 1 ELSE 0
             reports == server.reports \cup {r.log}
  <1>a. /\ issued \in Nat /\ server.issued \in Nat /\ server.issued <= issued /\ offered \in Nat
        /\ offered \in 0 .. (IF arrived THEN issued ELSE server.issued) /\ reports \in SUBSET Logs
    BY <1>1 DEF Services
  <1>b. server' = IF ~arrived THEN server ELSE [server EXCEPT !.reports = reports, !.issued = issued]
    BY <1>2
  <1>c. run' = [run EXCEPT ![r].sent = TRUE, ![r].arrived = arrived, ![r].offered = offered]
    BY <1>2
  <1> HIDE DEF issued, offered, reports
  <1>d. /\ server' \in Services /\ server'.donbot = server.donbot /\ server'.wingman = server.wingman
        /\ server'.reports = (IF arrived THEN reports ELSE server.reports)
        /\ server'.issued = (IF arrived THEN issued ELSE server.issued)
    BY <1>1, <1>a, <1>b DEF Services
  <1>3. /\ server' \in Services /\ server'.donbot = server.donbot /\ server'.wingman = server.wingman
        /\ server.reports \subseteq server'.reports /\ (arrived => r.log \in server'.reports)
        /\ server.issued \in Nat /\ server'.issued \in Nat /\ server.issued <= server'.issued
    BY <1>a, <1>d DEF reports
  <1> DEFINE c == [run[r] EXCEPT !.sent = TRUE, !.arrived = arrived, !.offered = offered]
  <1>e. run' = [run EXCEPT ![r] = c]
    BY <1>c
  <1>f. /\ c \in Attempt /\ c.pc = run[r].pc /\ c.sent = TRUE /\ c.arrived = arrived /\ c.opt = run[r].opt
        /\ c.out = run[r].out /\ c.receipt = run[r].receipt /\ c.token = run[r].token /\ c.offered = offered
    BY <1>1, <1>2, <1>a DEF Attempt
  <1> HIDE DEF c
  <1>g. run'[r] = c /\ run' \in [Requests -> Attempt] /\ \A q \in Requests \ {r} : run'[q] = run[q]
    BY <1>1, <1>e, <1>f
  <1>4. Within(r, "Upload", TRUE) /\ run'[r].arrived = arrived
    BY <1>2, <1>f, <1>g, Zenon DEF Within
  <1>5. run'[r].token = run[r].token /\ run'[r].offered = offered
    BY <1>1, <1>e, <1>f
  <1>6. ShapeInv'
    BY <1>2, <1>3, <1>4 DEF ClientInv, ShapeInv, Within
  <1>7. Grows
    BY <1>2, <1>3 DEF Grows
  <1>8. r.provider = "DpsReport" /\ StepInv(r) /\ run[r].out = "None"
    BY <1>2 DEF ClientInv, AttemptInv, StepInv, DpsSteps
  <1>9. run'[r].offered \in 0 .. server'.issued
    BY <1>5, <1>a, <1>d
  <1>10. AttemptInv(r)'
    BY <1>2, <1>3, <1>4, <1>5, <1>8, <1>9 DEF AttemptInv, StepInv, ServiceInv, DonBotInv, Reached,
         Within, DpsSteps, WingmanSteps, DonBotSteps
  <1> QED
    BY <1>3, <1>4, <1>6, <1>7, <1>10, WorkerStep DEF Within

Steps == DpsSteps \cup WingmanSteps \cup DonBotSteps

(* An attempt c of the worker.                                             *)
LEMMA WithinFields ==
  ASSUME run \in [Requests -> Attempt], NEW r \in Requests, NEW c \in Attempt, run' = [run EXCEPT ![r] = c],
         c.opt = run[r].opt, c.out = run[r].out, c.receipt = run[r].receipt
  PROVE  Within(r, c.pc, c.sent) /\ run'[r] = c
PROOF
  <1>1. run'[r] = c /\ run' \in [Requests -> Attempt] /\ \A q \in Requests \ {r} : run'[q] = run[q]
    OBVIOUS
  <1> QED
    BY <1>1, Zenon DEF Within

(* What a call changes of its attempt.                                   *)
LEMMA SendFields ==
  ASSUME run \in [Requests -> Attempt], NEW r \in Requests, NEW arrived \in BOOLEAN,
         run' = [run EXCEPT ![r].sent = TRUE, ![r].arrived = arrived]
  PROVE  /\ Within(r, run[r].pc, TRUE) /\ run'[r].arrived = arrived
         /\ run'[r].token = run[r].token /\ run'[r].offered = run[r].offered
         /\ run'[r].now = run[r].now /\ run'[r].deadline = run[r].deadline
PROOF
  <1> DEFINE c == [run[r] EXCEPT !.sent = TRUE, !.arrived = arrived]
  <1>1. /\ c \in Attempt /\ c.pc = run[r].pc /\ c.sent = TRUE /\ c.arrived = arrived /\ c.opt = run[r].opt
        /\ c.out = run[r].out /\ c.receipt = run[r].receipt
    BY DEF Attempt
  <1>2. c.token = run[r].token /\ c.offered = run[r].offered /\ c.now = run[r].now /\ c.deadline = run[r].deadline
    BY DEF Attempt
  <1>3. run' = [run EXCEPT ![r] = c]
    OBVIOUS
  <1> HIDE DEF c
  <1>4. Within(r, c.pc, c.sent) /\ run'[r] = c
    BY <1>1, <1>3, WithinFields
  <1> QED
    BY <1>1, <1>2, <1>4, Zenon

(* Where a worker goes on, and by when.                                    *)
Goes(r, pc, now, deadline) ==
  \/ run' = Go(r, pc) /\ now = run[r].now /\ deadline = run[r].deadline
  \/ run' = [Go(r, pc) EXCEPT ![r].now = now] /\ deadline = run[r].deadline
  \/ run' = [Go(r, pc) EXCEPT ![r].deadline = deadline] /\ now = run[r].now
  \/ run' = [Go(r, pc) EXCEPT ![r].now = now, ![r].deadline = deadline]
  \/ /\ \E id \in BOOLEAN : run' = [Go(r, pc) EXCEPT ![r].id = id]
     /\ now = run[r].now /\ deadline = run[r].deadline

(* What going on changes of an attempt.                                  *)
LEMMA GoFields ==
  ASSUME run \in [Requests -> Attempt], NEW r \in Requests, NEW pc \in Steps,
         NEW now \in Nat, NEW deadline \in Nat,
         Goes(r, pc, now, deadline)
  PROVE  /\ Within(r, pc, FALSE)
         /\ run'[r].token = run[r].token /\ run'[r].offered = run[r].offered
         /\ run'[r].now = now /\ run'[r].deadline = deadline
PROOF
  <1> DEFINE b == [run[r] EXCEPT !.pc = pc, !.sent = FALSE]
             c == [b EXCEPT !.now = now, !.deadline = deadline]
  <1>0. run[r] \in Attempt
    OBVIOUS
  <1>1. /\ b \in Attempt /\ b.pc = pc /\ b.sent = FALSE /\ b.opt = run[r].opt
        /\ b.out = run[r].out /\ b.receipt = run[r].receipt
        /\ b.token = run[r].token /\ b.offered = run[r].offered
        /\ b.now = run[r].now /\ b.deadline = run[r].deadline
    BY <1>0 DEF Attempt, Steps
  <1>2. Go(r, pc) = [run EXCEPT ![r] = b]
    BY DEF Go
  <1> HIDE DEF b
  <1>3. /\ c \in Attempt /\ c.pc = pc /\ c.sent = FALSE /\ c.opt = run[r].opt
        /\ c.out = run[r].out /\ c.receipt = run[r].receipt
        /\ c.token = run[r].token /\ c.offered = run[r].offered
        /\ c.now = now /\ c.deadline = deadline
    BY <1>1 DEF Attempt
  <1>5. \E e \in Attempt : /\ run' = [run EXCEPT ![r] = e]
                           /\ e.pc = pc /\ e.sent = FALSE /\ e.opt = run[r].opt
                           /\ e.out = run[r].out /\ e.receipt = run[r].receipt
                           /\ e.token = run[r].token /\ e.offered = run[r].offered
                           /\ e.now = now /\ e.deadline = deadline
    <2>1. CASE run' = Go(r, pc) /\ now = run[r].now /\ deadline = run[r].deadline
      BY <1>1, <1>2, <2>1
    <2>2. ASSUME NEW id \in BOOLEAN, run' = [Go(r, pc) EXCEPT ![r].id = id], now = run[r].now,
                 deadline = run[r].deadline
          PROVE  \E e \in Attempt : /\ run' = [run EXCEPT ![r] = e]
                                    /\ e.pc = pc /\ e.sent = FALSE /\ e.opt = run[r].opt
                                    /\ e.out = run[r].out /\ e.receipt = run[r].receipt
                                    /\ e.token = run[r].token /\ e.offered = run[r].offered
                                    /\ e.now = now /\ e.deadline = deadline
      <3> DEFINE n == [b EXCEPT !.id = id]
      <3>1. run' = [run EXCEPT ![r] = n]
        BY <1>2, <2>2
      <3>2. /\ n \in Attempt /\ n.pc = pc /\ n.sent = FALSE /\ n.opt = run[r].opt
            /\ n.out = run[r].out /\ n.receipt = run[r].receipt
            /\ n.token = run[r].token /\ n.offered = run[r].offered
            /\ n.now = now /\ n.deadline = deadline
        BY <1>1, <2>2 DEF Attempt
      <3> HIDE DEF n
      <3> QED
        BY <3>1, <3>2
    <2>3. CASE run' = [Go(r, pc) EXCEPT ![r].now = now] /\ deadline = run[r].deadline
      <3> DEFINE n == [b EXCEPT !.now = now]
      <3>1. run' = [run EXCEPT ![r] = n]
        BY <1>2, <2>3
      <3>2. /\ n \in Attempt /\ n.pc = pc /\ n.sent = FALSE /\ n.opt = run[r].opt
            /\ n.out = run[r].out /\ n.receipt = run[r].receipt
            /\ n.token = run[r].token /\ n.offered = run[r].offered
            /\ n.now = now /\ n.deadline = deadline
        BY <1>1, <2>3 DEF Attempt
      <3> HIDE DEF n
      <3> QED
        BY <3>1, <3>2
    <2>4. CASE run' = [Go(r, pc) EXCEPT ![r].deadline = deadline] /\ now = run[r].now
      <3> DEFINE n == [b EXCEPT !.deadline = deadline]
      <3>1. run' = [run EXCEPT ![r] = n]
        BY <1>2, <2>4
      <3>2. /\ n \in Attempt /\ n.pc = pc /\ n.sent = FALSE /\ n.opt = run[r].opt
            /\ n.out = run[r].out /\ n.receipt = run[r].receipt
            /\ n.token = run[r].token /\ n.offered = run[r].offered
            /\ n.now = now /\ n.deadline = deadline
        BY <1>1, <2>4 DEF Attempt
      <3> HIDE DEF n
      <3> QED
        BY <3>1, <3>2
    <2>5. CASE run' = [Go(r, pc) EXCEPT ![r].now = now, ![r].deadline = deadline]
      <3>1. run' = [run EXCEPT ![r] = c]
        BY <1>2, <2>5
      <3> HIDE DEF c
      <3> QED
        BY <1>3, <3>1
    <2> QED
      BY <2>1, <2>2, <2>3, <2>4, <2>5 DEF Goes
  <1>6. PICK e \in Attempt : /\ run' = [run EXCEPT ![r] = e]
                             /\ e.pc = pc /\ e.sent = FALSE /\ e.opt = run[r].opt
                             /\ e.out = run[r].out /\ e.receipt = run[r].receipt
                             /\ e.token = run[r].token /\ e.offered = run[r].offered
                             /\ e.now = now /\ e.deadline = deadline
    BY <1>5
  <1>7. Within(r, e.pc, e.sent) /\ run'[r] = e
    BY <1>6, WithinFields
  <1> QED
    BY <1>6, <1>7, Zenon

(* Steps of dps.report.                                                    *)
LEMMA UploadedKeeps ==
  ASSUME ClientInv, NEW r \in Requests, Working(r), Uploaded(r)
  PROVE  ClientInv'
PROOF
  <1>0. /\ run[r].pc = "Upload" /\ run[r].sent
        /\ UNCHANGED <<options, stop, secrets, server, asked, kept>>
    BY DEF Uploaded, Receive
  <1>1. r.provider = "DpsReport" /\ AttemptInv(r) /\ run[r].out = "None" /\ ShapeInv
    BY <1>0 DEF ClientInv, AttemptInv, StepInv, DpsSteps
  <1>2. CASE Fails(r)
    BY <1>0, <1>1, <1>2, FailedCall DEF Direct
  <1>3. CASE run[r].arrived /\ run[r].offered > 0 /\ secrets.open /\ run' = Go(r, "Store")
    <2>1. /\ Within(r, "Store", FALSE)
          /\ run'[r].token = run[r].token /\ run'[r].offered = run[r].offered
      <3>1. Goes(r, "Store", run[r].now, run[r].deadline) /\ "Store" \in Steps
        BY <1>3 DEF Goes, Steps, DpsSteps
      <3>2. run[r].now \in Nat /\ run[r].deadline \in Nat /\ run \in [Requests -> Attempt]
        BY <1>1 DEF ShapeInv, Attempt
      <3> QED
        BY <3>1, <3>2, GoFields
    <2>2. ShapeInv'
      BY <1>0, <1>1, <2>1 DEF ShapeInv, Within
    <2>3. AttemptInv(r)'
      BY <1>0, <1>1, <1>3, <2>1 DEF AttemptInv, StepInv, ServiceInv, DonBotInv, Reached, Within, DpsSteps,
           WingmanSteps, DonBotSteps
    <2> QED
      BY <1>0, <1>1, <2>1, <2>2, <2>3, NothingElse, WorkerStep DEF Within
  <1>4. CASE run[r].arrived /\ ~(run[r].offered > 0 /\ secrets.open) /\ run' = Succeed(r, "NotRequested")
    <2>1. Settles(r, "Succeeded", "NotRequested")
      BY <1>0, <1>1, <1>4 DEF Settles, AttemptInv, ServiceInv, Reached
    <2> QED
      BY <1>0, <1>4, <2>1, SucceedsKeeps DEF Receipts
  <1> QED
    BY <1>2, <1>3, <1>4 DEF Uploaded, Receive, Answered

(* The token is stored before the report is published.                   *)
LEMMA StoreTokenKeeps ==
  ASSUME ClientInv, NEW r \in Requests, Working(r), StoreToken(r)
  PROVE  ClientInv'
PROOF
  <1>1. PICK stored \in BOOLEAN :
          /\ run' = AfterStore(r, stored)
          /\ secrets' = IF stored THEN [secrets EXCEPT !.token = run[r].offered] ELSE secrets
          /\ kept' = IF stored THEN kept \cup {run[r].offered} ELSE kept
    BY DEF StoreToken
  <1>2. run[r].pc = "Store" /\ UNCHANGED <<options, stop, server, asked>>
    BY DEF StoreToken
  <1>3. r.provider = "DpsReport" /\ AttemptInv(r) /\ ShapeInv /\ run[r] \in Attempt
    BY <1>2 DEF ClientInv, AttemptInv, StepInv, DpsSteps, ShapeInv
  <1>4. CASE ~stored
    <2>1. run' = Settle(r, "Failed") /\ UNCHANGED <<secrets, kept>>
      BY <1>1, <1>4 DEF AfterStore
    <2> QED
      BY <1>2, <2>1, FailsKeeps DEF Settled
  <1>5. CASE stored
    <2>1. /\ run' = [Settle(r, "Succeeded") EXCEPT ![r].receipt = "NotRequested"]
          /\ secrets' = [secrets EXCEPT !.token = run[r].offered]
          /\ kept' = kept \cup {run[r].offered}
      BY <1>1, <1>5 DEF AfterStore, Succeed
    <2>2. /\ secrets' \in [open : BOOLEAN, token : Nat] /\ secrets'.token \in kept' \cup {0}
          /\ secrets'.open = secrets.open
      BY <1>3, <2>1 DEF ShapeInv, Attempt
    <2>3. Grows
      BY <1>2, <1>3, <2>1, <2>2 DEF Grows, ShapeInv, Services
    <2>4. Settles(r, "Succeeded", "NotRequested")
      BY <1>2, <1>3, <2>1 DEF Settles, AttemptInv, ServiceInv, Reached
    <2>5. "Succeeded" \in Settled /\ "NotRequested" \in Receipts
      BY DEF Settled, Receipts
    <2> QED
      BY <1>2, <2>1, <2>2, <2>3, <2>4, <2>5, SettleKeeps
  <1> QED
    BY <1>4, <1>5

-----------------------------------------------------------------------------
(* Wingman.                                                                *)

Times == {"TicketWait", "Ticket", "Check"}

(* What is known of a request that Wingman's worker has.                 *)
LEMMA WingmanRow ==
  ASSUME ClientInv, NEW r \in Requests, run[r].pc \in WingmanSteps
  PROVE  /\ r.provider = "Wingman" /\ run[r].out = "None" /\ AttemptInv(r) /\ ~Direct(r)
         /\ run[r].pc \in {"TicketWait", "Ticket", "Check", "LinkCheck"} => r.log \in server.wingman
         /\ run[r].pc \in Times => run[r].now <= run[r].deadline
         /\ run[r] \in Attempt /\ run \in [Requests -> Attempt] /\ r.log \in Logs
         /\ run[r].now \in Nat /\ run[r].deadline \in Nat /\ run[r].offered = 0
PROOF
  <1>1. ShapeInv /\ AttemptInv(r) /\ run[r] \in Attempt /\ run \in [Requests -> Attempt] /\ r.log \in Logs
    BY DEF ClientInv, ShapeInv, Logs
  <1>2. run[r].now \in Nat /\ run[r].deadline \in Nat
    BY <1>1 DEF Attempt
  <1>3. r.provider = "Wingman"
    BY <1>1 DEF AttemptInv, StepInv
  <1> QED
    BY <1>1, <1>2, <1>3 DEF AttemptInv, StepInv, ServiceInv, Reached, WingmanSteps, Direct, Times

(* The next step of the worker: Wingman has the log once a call arrived. *)
LEMMA WingmanMove ==
  ASSUME ClientInv, NEW r \in Requests, run[r].pc \in WingmanSteps, NEW pc \in WingmanSteps, NEW sent,
         Within(r, pc, sent), run'[r].token = run[r].token, run'[r].offered = run[r].offered,
         pc \in Times => run'[r].now <= run'[r].deadline,
         UNCHANGED <<options, stop, secrets, asked, kept>>,
         server' = server \/ server' = [server EXCEPT !.wingman = @ \cup {r.log}],
         pc \in {"TicketWait", "Ticket", "Check", "LinkCheck"} \/ (sent /\ run'[r].arrived) =>
           r.log \in server'.wingman
  PROVE  ClientInv'
PROOF
  <1>1. /\ r.provider = "Wingman" /\ run[r].out = "None" /\ AttemptInv(r) /\ r.log \in Logs
        /\ ShapeInv
    BY WingmanRow DEF ClientInv
  <1>2. /\ server' \in Services /\ server'.donbot = server.donbot /\ server'.reports = server.reports
        /\ server'.issued = server.issued /\ server.issued \in Nat /\ server.wingman \subseteq server'.wingman
    BY <1>1 DEF ShapeInv, Services
  <1>3. Grows
    BY <1>2 DEF Grows
  <1>4. ShapeInv'
    BY <1>1, <1>2 DEF ShapeInv, Within
  <1>5. run'[r].pc = pc /\ run'[r].sent = sent /\ run'[r].out = "None"
    BY <1>1, Zenon DEF Within
  <1>6. StepInv(r)'
    BY <1>1, <1>2, <1>5 DEF AttemptInv, StepInv, WingmanSteps, DpsSteps, DonBotSteps, Times
  <1>7. ServiceInv(r)' /\ DonBotInv(r)'
    BY <1>1, <1>5 DEF ServiceInv, DonBotInv, Reached, WingmanSteps
  <1> QED
    BY <1>2, <1>3, <1>4, <1>6, <1>7, WorkerStep DEF AttemptInv, Within

(* The log or its link goes out.                                         *)
LEMMA WingmanCall ==
  ASSUME ClientInv, NEW r \in Requests, Working(r), Post(r) \/ Link(r) \/ LinkCheck(r)
  PROVE  ClientInv'
PROOF
  <1>1. PICK arrived \in BOOLEAN :
          /\ run' = [run EXCEPT ![r].sent = TRUE, ![r].arrived = arrived]
          /\ UNCHANGED <<options, stop, secrets, asked, kept>>
          /\ \/ /\ run[r].pc \in {"Post", "Link"}
                /\ server' = IF arrived THEN [server EXCEPT !.wingman = @ \cup {r.log}] ELSE server
             \/ run[r].pc = "LinkCheck" /\ server' = server
    BY DEF Post, Link, LinkCheck, Send
  <1>2. run[r].pc \in WingmanSteps
    BY <1>1 DEF WingmanSteps
  <1>3. run \in [Requests -> Attempt] /\ r.log \in Logs /\ server \in Services
        /\ (run[r].pc = "LinkCheck" => r.log \in server.wingman)
    BY <1>2, WingmanRow DEF ClientInv, ShapeInv
  <1>4. /\ Within(r, run[r].pc, TRUE) /\ run'[r].arrived = arrived
        /\ run'[r].token = run[r].token /\ run'[r].offered = run[r].offered
    BY <1>1, <1>3, SendFields
  <1>5. arrived \/ run[r].pc = "LinkCheck" => r.log \in server'.wingman
    BY <1>1, <1>3 DEF Services
  <1>6. run[r].pc \notin Times /\ run[r].pc \notin {"TicketWait", "Ticket", "Check"}
    BY <1>1 DEF Times
  <1>7. run[r].pc \in {"TicketWait", "Ticket", "Check", "LinkCheck"} \/ (TRUE /\ run'[r].arrived) =>
          r.log \in server'.wingman
    BY <1>4, <1>5, <1>6
  <1>8. server' = server \/ server' = [server EXCEPT !.wingman = @ \cup {r.log}]
    BY <1>1
  <1> QED
    BY <1>1, <1>2, <1>4, <1>6, <1>7, <1>8, WingmanMove

(* Where a worker of Wingman goes on once the service has the log.         *)
LEMMA WingmanGoes ==
  ASSUME ClientInv, NEW r \in Requests, run[r].pc \in WingmanSteps, r.log \in server.wingman,
         NEW pc \in {"TicketWait", "Ticket", "Check", "LinkCheck"}, NEW now \in Nat, NEW deadline \in Nat,
         pc \in Times => now <= deadline,
         Goes(r, pc, now, deadline),
         UNCHANGED <<options, stop, secrets, server, asked, kept>>
  PROVE  ClientInv'
PROOF
  <1>1. run \in [Requests -> Attempt] /\ pc \in WingmanSteps /\ pc \in Steps
    BY WingmanRow DEF WingmanSteps, Steps
  <1>2. /\ Within(r, pc, FALSE)
        /\ run'[r].token = run[r].token /\ run'[r].offered = run[r].offered
        /\ run'[r].now = now /\ run'[r].deadline = deadline
    <2>1. Goes(r, pc, now, deadline) /\ now \in Nat /\ deadline \in Nat /\ r \in Requests
      OBVIOUS
    <2> QED
      BY <1>1, <2>1, GoFields, ZenonT(30)
  <1> QED
    BY <1>1, <1>2, WingmanMove

(* A call fails, to be tried again or not: Wingman may have the log.     *)
LEMMA WingmanFails ==
  ASSUME ClientInv, NEW r \in Requests, Working(r), run[r].pc \in WingmanSteps, NEW e \in Errors,
         run' = Settle(r, Classified(e)), UNCHANGED <<options, stop, secrets, server, asked, kept>>
  PROVE  ClientInv'
  BY WingmanRow, ClassifiedIsSettled, FailsKeeps

(* A success is published only when Wingman has the log.                 *)
LEMMA WingmanSucceeds ==
  ASSUME ClientInv, NEW r \in Requests, Working(r), run[r].pc \in WingmanSteps, r.log \in server.wingman,
         run' = Succeed(r, "NotRequested"), UNCHANGED <<options, stop, secrets, server, asked, kept>>
  PROVE  ClientInv'
PROOF
  <1>1. r.provider = "Wingman" /\ run[r].offered = 0
    BY WingmanRow
  <1>2. Settles(r, "Succeeded", "NotRequested") /\ "NotRequested" \in Receipts
    BY <1>1 DEF Settles, Receipts
  <1> QED
    BY <1>2, SucceedsKeeps

(* The answers to the calls.                                             *)
LEMMA WingmanAnswered ==
  ASSUME ClientInv, NEW r \in Requests, Working(r), Posted(r) \/ Linked(r) \/ LinkChecked(r)
  PROVE  ClientInv'
PROOF
  <1>1. /\ run[r].pc \in WingmanSteps /\ run[r].sent
        /\ UNCHANGED <<options, stop, secrets, server, asked, kept>>
    BY DEF Posted, Linked, LinkChecked, Receive, WingmanSteps
  <1>2. CASE Fails(r)
    BY <1>1, <1>2, WingmanFails DEF Fails
  <1>3. CASE ~Fails(r)
    <2>1. run[r].arrived /\ run[r].pc \in {"Post", "Link", "LinkCheck"}
      BY <1>3 DEF Posted, Linked, LinkChecked, Receive, Answered
    <2>2. /\ AttemptInv(r) /\ r.provider = "Wingman" /\ run[r].now \in Nat /\ run[r].deadline \in Nat
          /\ CheckTimeout \in Nat /\ TicketTimeout \in Nat
      BY <1>1, WingmanRow, ClientConstants
    <2>3. r.log \in server.wingman
      BY <1>1, <2>1, <2>2 DEF AttemptInv, ServiceInv, Reached
    <2>4. CASE run' = [Go(r, "Check") EXCEPT ![r].deadline = run[r].now + CheckTimeout]
      <3>1. run[r].now + CheckTimeout \in Nat /\ run[r].now <= run[r].now + CheckTimeout
        BY <2>2
      <3> QED
        BY <1>1, <2>2, <2>3, <2>4, <3>1, WingmanGoes DEF Goes
    <2>5. CASE run' = [Go(r, "TicketWait") EXCEPT ![r].deadline = run[r].now + TicketTimeout]
      <3>1. run[r].now + TicketTimeout \in Nat /\ run[r].now <= run[r].now + TicketTimeout
        BY <2>2
      <3> QED
        BY <1>1, <2>2, <2>3, <2>5, <3>1, WingmanGoes DEF Goes
    <2>6. CASE run' = Go(r, "LinkCheck")
      <3>1. "LinkCheck" \notin Times
        BY DEF Times
      <3> QED
        BY <1>1, <2>2, <2>3, <2>6, <3>1, WingmanGoes DEF Goes
    <2>7. CASE run' = Succeed(r, "NotRequested")
      BY <1>1, <2>3, <2>7, WingmanSucceeds
    <2> QED
      BY <1>3, <2>4, <2>5, <2>6, <2>7 DEF Posted, Linked, LinkChecked, Receive, Found
  <1> QED
    BY <1>2, <1>3

(* No wait is longer than the time that is left.                         *)
LEMMA LeastFacts ==
  ASSUME NEW a \in Nat, NEW b \in Nat
  PROVE  Least(a, b) \in Nat /\ Least(a, b) <= a /\ Least(a, b) <= b
  BY DEF Least

(* The wait for the next poll ends by the deadline.                      *)
LEMMA TicketWaitKeeps ==
  ASSUME ClientInv, NEW r \in Requests, Working(r), TicketWait(r)
  PROVE  ClientInv'
PROOF
  <1> DEFINE at == Least(run[r].now + TicketInterval, run[r].deadline)
  <1>1. /\ run[r].pc = "TicketWait"
        /\ run' = IF AfterTicket(r, at) = "Check" THEN ToCheck(r, at)
                  ELSE [Go(r, "Ticket") EXCEPT ![r].now = at]
        /\ UNCHANGED <<options, stop, secrets, server, asked, kept>>
    BY DEF TicketWait
  <1>2. run[r].pc \in WingmanSteps
    BY <1>1 DEF WingmanSteps
  <1>3. run[r].now \in Nat /\ run[r].deadline \in Nat /\ r.log \in server.wingman
    BY <1>1, <1>2, WingmanRow
  <1>4. TicketInterval \in Nat /\ CheckTimeout \in Nat
    BY ClientConstants
  <1>5. at \in Nat /\ at <= run[r].deadline
    <2>1. run[r].now + TicketInterval \in Nat
      BY <1>3, <1>4
    <2> QED
      BY <1>3, <2>1, LeastFacts
  <1> HIDE DEF at
  <1>6. CASE run' = ToCheck(r, at)
    <2>1. at + CheckTimeout \in Nat /\ at <= at + CheckTimeout
      BY <1>4, <1>5
    <2> QED
      BY <1>1, <1>2, <1>3, <1>5, <1>6, <2>1, WingmanGoes DEF ToCheck, Goes
  <1>7. CASE run' = [Go(r, "Ticket") EXCEPT ![r].now = at]
    BY <1>1, <1>2, <1>3, <1>5, <1>7, WingmanGoes DEF Goes
  <1> QED
    BY <1>1, <1>6, <1>7

(* A poll of the ticket ends by the deadline.                            *)
LEMMA TicketPollKeeps ==
  ASSUME ClientInv, NEW r \in Requests, Working(r), TicketPoll(r)
  PROVE  ClientInv'
PROOF
  <1>1. run[r].pc = "Ticket" /\ UNCHANGED <<options, stop, secrets, server, asked, kept>>
    BY DEF TicketPoll
  <1>2. run[r].pc \in WingmanSteps /\ "Ticket" \in Times
    BY <1>1 DEF WingmanSteps, Times
  <1>3. /\ run[r].now \in Nat /\ run[r].deadline \in Nat /\ r.log \in server.wingman
        /\ run[r].now <= run[r].deadline
    BY <1>1, <1>2, WingmanRow
  <1>4. OperationTime \in Nat /\ CheckTimeout \in Nat
    BY ClientConstants
  <1>5. PICK time \in 0 .. PollTime(r) :
          \/ \E e \in Errors : run' = Settle(r, Classified(e))
          \/ run' = ToCheck(r, run[r].now + time)
          \/ run' = [Go(r, "TicketWait") EXCEPT ![r].now = run[r].now + time]
    BY DEF TicketPoll
  <1> DEFINE at == run[r].now + time
  <1>6. at \in Nat /\ at <= run[r].deadline
    <2>1. run[r].deadline - run[r].now \in Nat
      BY <1>3
    <2>2. PollTime(r) \in Nat /\ PollTime(r) <= run[r].deadline - run[r].now
      BY <1>4, <2>1, LeastFacts DEF PollTime
    <2> QED
      BY <1>3, <1>5, <2>2
  <1>7. CASE run' = ToCheck(r, at)
    <2>1. at + CheckTimeout \in Nat /\ at <= at + CheckTimeout
      BY <1>4, <1>6
    <2> HIDE DEF at
    <2> QED
      BY <1>1, <1>2, <1>3, <1>6, <1>7, <2>1, WingmanGoes DEF ToCheck, Goes
  <1>8. CASE run' = [Go(r, "TicketWait") EXCEPT ![r].now = at]
    <2> HIDE DEF at
    <2> QED
      BY <1>1, <1>2, <1>3, <1>6, <1>8, WingmanGoes DEF Goes
  <1> QED
    BY <1>1, <1>2, <1>5, <1>7, <1>8, WingmanFails

(* A poll for the link ends by the deadline, and without a link it succeeds. *)
LEMMA CheckPollKeeps ==
  ASSUME ClientInv, NEW r \in Requests, Working(r), CheckPoll(r)
  PROVE  ClientInv'
PROOF
  <1>1. run[r].pc = "Check" /\ UNCHANGED <<options, stop, secrets, server, asked, kept>>
    BY DEF CheckPoll
  <1>2. run[r].pc \in WingmanSteps /\ "Check" \in Times
    BY <1>1 DEF WingmanSteps, Times
  <1>3. /\ run[r].now \in Nat /\ run[r].deadline \in Nat /\ r.log \in server.wingman
        /\ run[r].now <= run[r].deadline
    BY <1>1, <1>2, WingmanRow
  <1>4. OperationTime \in Nat /\ CheckInterval \in Nat
    BY ClientConstants
  <1>5. CASE run' = Succeed(r, "NotRequested")
    BY <1>1, <1>2, <1>3, <1>5, WingmanSucceeds
  <1>6. CASE run' # Succeed(r, "NotRequested")
    <2>1. PICK time \in 0 .. PollTime(r) :
            \/ \E e \in Errors : run' = Settle(r, Classified(e))
            \/ run' = [Go(r, "Check") EXCEPT ![r].now = Least(run[r].now + time + CheckInterval, run[r].deadline)]
      BY <1>6 DEF CheckPoll, Found
    <2> DEFINE at == Least(run[r].now + time + CheckInterval, run[r].deadline)
    <2>2. at \in Nat /\ at <= run[r].deadline
      <3>1. run[r].deadline - run[r].now \in Nat
        BY <1>3
      <3>2. PollTime(r) \in Nat
        BY <1>4, <3>1, LeastFacts DEF PollTime
      <3>3. run[r].now + time + CheckInterval \in Nat
        BY <1>3, <1>4, <2>1, <3>2
      <3> QED
        BY <1>3, <3>3, LeastFacts
    <2> HIDE DEF at
    <2>3. CASE run' = [Go(r, "Check") EXCEPT ![r].now = at]
      BY <1>1, <1>2, <1>3, <2>2, <2>3, WingmanGoes DEF Goes
    <2> QED
      BY <1>1, <1>2, <2>1, <2>3, WingmanFails DEF at
  <1> QED
    BY <1>5, <1>6

(* Every step of Wingman's worker.                                       *)
LEMMA WingmanKeeps ==
  ASSUME ClientInv, NEW r \in Requests, Working(r), WingmanStep(r)
  PROVE  ClientInv'
  BY WingmanCall, WingmanAnswered, TicketWaitKeeps, TicketPollKeeps, CheckPollKeeps DEF WingmanStep

-----------------------------------------------------------------------------
(* DonBot.                                                                 *)

(* What is known of a request that DonBot's worker has.                  *)
LEMMA DonBotRow ==
  ASSUME ClientInv, NEW r \in Requests, run[r].pc \in DonBotSteps
  PROVE  /\ r.provider = "DonBot" /\ run[r].out = "None" /\ run[r].offered = 0
         /\ StepInv(r) /\ DonBotInv(r) /\ RecordInv(Key(r))
         /\ Key(r) = <<r.log, run[r].opt.guild, r.report>> /\ Key(r) \in Keys
         /\ Record(r) = server.donbot[Key(r)] /\ Record(r) \in DonBotRecord
         /\ Requested(r) = run[r].opt.delivery /\ Requested(r) \in BOOLEAN
         /\ run[r] \in Attempt /\ run \in [Requests -> Attempt] /\ server \in Services /\ ShapeInv
PROOF
  <1>1. /\ ShapeInv /\ StepInv(r) /\ DonBotInv(r) /\ run[r] \in Attempt /\ run \in [Requests -> Attempt]
        /\ r.log \in Logs /\ r.report \in Reports /\ server \in Services
    BY DEF ClientInv, ShapeInv, Logs, Reports, AttemptInv
  <1>2. run[r].opt \in Options /\ run[r].opt.delivery \in BOOLEAN
    BY <1>1 DEF Attempt, Options
  <1>3. r.provider = "DonBot" /\ run[r].out = "None" /\ run[r].offered = 0 /\ run[r].pc # "New"
    BY <1>1 DEF StepInv, DonBotSteps
  <1>4. Key(r) = <<r.log, run[r].opt.guild, r.report>> /\ Requested(r) = run[r].opt.delivery
    BY DEF Key, Used, Requested
  <1>5. Key(r) \in Keys
    BY <1>1, <1>3, <1>4 DEF DonBotInv, Keys
  <1>6. Record(r) = server.donbot[Key(r)]
    BY DEF Record
  <1>7. RecordInv(Key(r))
    BY <1>5 DEF ClientInv
  <1>8. Record(r) \in DonBotRecord
    BY <1>1, <1>5, <1>6 DEF Services
  <1> QED
    BY <1>1, <1>2, <1>3, <1>4, <1>5, <1>6, <1>7, <1>8

(* The next step of the worker, DonBot's records as they were.             *)
LEMMA DonBotMove ==
  ASSUME ClientInv, NEW r \in Requests, run[r].pc \in DonBotSteps, NEW pc \in DonBotSteps, NEW sent,
         Within(r, pc, sent), run'[r].token = run[r].token, run'[r].offered = run[r].offered,
         pc \in {"Create", "Patch"} => ~r.imported, pc = "Import" => r.imported,
         pc = "Stream" \/ (pc \in {"Patch", "Import"} /\ sent /\ run'[r].arrived) => Record(r).records > 0,
         Direct(r) /\ (pc \in {"Key", "Create"} \/ (pc = "Patch" /\ ~sent)) => Unsent(run[r]),
         UNCHANGED <<options, stop, secrets, server, asked, kept>>
  PROVE  ClientInv'
PROOF
  <1>1. /\ r.provider = "DonBot" /\ run[r].out = "None" /\ run[r].offered = 0
        /\ StepInv(r) /\ DonBotInv(r) /\ ShapeInv
        /\ Key(r) = <<r.log, run[r].opt.guild, r.report>> /\ Record(r) = server.donbot[Key(r)]
    BY DonBotRow
  <1>2. Grows /\ server'.donbot = server.donbot
    BY <1>1, NothingElse
  <1>3. ShapeInv'
    BY <1>1 DEF ShapeInv, Within
  <1>4. run'[r].pc = pc /\ run'[r].sent = sent /\ run'[r].out = "None" /\ run'[r].opt = run[r].opt
    BY <1>1, Zenon DEF Within
  <1>5. StepInv(r)' /\ ServiceInv(r)'
    BY <1>1, <1>4 DEF StepInv, ServiceInv, DpsSteps, WingmanSteps, DonBotSteps
  <1>6. DonBotInv(r)'
    <2> DEFINE c == run'[r]
               k == <<r.log, c.opt.guild, r.report>>
    <2>1. run[r].pc # "New" /\ c.pc # "New"
      BY <1>4 DEF DonBotSteps
    <2>2. c.opt.guild \in Guilds /\ (c.opt.delivery => k \in asked')
      BY <1>1, <1>4, <2>1 DEF DonBotInv
    <2>3. Reached(c, {"Patch", "Import"}, {"Stream"}) => server.donbot[k].records > 0
      BY <1>1, <1>4 DEF Reached
    <2>4. ~r.imported /\ Unsent(c) => Unsent(run[r])
      BY <1>1, <1>4 DEF Unsent, Direct, DonBotSteps
    <2>5. ~r.imported /\ Unsent(c) => \A g \in Guilds : server.donbot[<<r.log, g, r.report>>].records = 0
      BY <1>1, <2>4 DEF DonBotInv
    <2>6. run'[r] = c /\ server' = server /\ c.out # "Succeeded"
      BY <1>4
    <2> HIDE DEF c
    <2> QED
      BY <2>2, <2>3, <2>5, <2>6 DEF DonBotInv
  <1> QED
    BY <1>2, <1>3, <1>5, <1>6, WorkerStep DEF AttemptInv, Within

(* The first record of a key.                                              *)
FirstRecord(b) ==
  [records |-> 1, asked |-> b, state |-> "Pending", receipt |-> "NotRequested", announced |-> 0]

(* Its fields.                                                           *)
LEMMA FirstRecordFields ==
  ASSUME NEW b \in BOOLEAN
  PROVE  /\ FirstRecord(b) \in DonBotRecord /\ FirstRecord(b).records = 1 /\ FirstRecord(b).asked = b
         /\ FirstRecord(b).state = "Pending" /\ FirstRecord(b).announced = 0
PROOF
  <1>1. FirstRecord(b).asked = b
    BY Zenon DEF FirstRecord
  <1>2. FirstRecord(b) \in DonBotRecord
    BY DEF FirstRecord, DonBotRecord, Receipts
  <1> QED
    BY <1>1, <1>2 DEF FirstRecord

(* DonBot makes a record of the log, the first one of its key.             *)
LEMMA DonBotWrites ==
  ASSUME ClientInv, NEW r \in Requests, run[r].pc \in {"Patch", "Import"},
         run' = [run EXCEPT ![r].sent = TRUE, ![r].arrived = TRUE],
         Record(r).records = 0, server' = NewRecord(r), UNCHANGED <<options, stop, secrets, asked, kept>>
  PROVE  ClientInv'
PROOF
  <1>0. run[r].pc \in DonBotSteps
    BY DEF DonBotSteps
  <1>1. /\ r.provider = "DonBot" /\ run[r].out = "None" /\ run[r].offered = 0
        /\ StepInv(r) /\ DonBotInv(r) /\ ShapeInv /\ RecordInv(Key(r))
        /\ Key(r) = <<r.log, run[r].opt.guild, r.report>> /\ Record(r) = server.donbot[Key(r)]
        /\ Requested(r) = run[r].opt.delivery /\ Requested(r) \in BOOLEAN
        /\ Key(r) \in Keys /\ server \in Services /\ run \in [Requests -> Attempt]
    BY <1>0, DonBotRow
  <1>2. /\ Within(r, run[r].pc, TRUE) /\ run'[r].arrived = TRUE
        /\ run'[r].token = run[r].token /\ run'[r].offered = run[r].offered
    BY <1>1, SendFields
  <1> DEFINE k == Key(r)
             x == [NoRecord EXCEPT !.records = Record(r).records + 1, !.asked = Requested(r),
                                   !.state = "Pending", !.announced = Record(r).announced]
  <1>3. Record(r).announced = 0
    BY <1>1 DEF RecordInv
  <1>4. /\ x \in DonBotRecord /\ x.records = 1 /\ x.asked = Requested(r) /\ x.state = "Pending"
        /\ x.announced = 0
    <2>1. Record(r).records + 1 = 1
      OBVIOUS
    <2>2. x = FirstRecord(Requested(r))
      <3> DEFINE n == Record(r).records + 1
                 m == Record(r).announced
                 b == Requested(r)
      <3>1. n = 1 /\ m = 0 /\ b \in BOOLEAN
        BY <1>1, <1>3, <2>1
      <3>2. x = [NoRecord EXCEPT !.records = n, !.asked = b, !.state = "Pending", !.announced = m]
        OBVIOUS
      <3> HIDE DEF n, m, b, x
      <3>3. x = [records |-> n, asked |-> b, state |-> "Pending", receipt |-> "NotRequested", announced |-> m]
        BY <3>1, <3>2 DEF NoRecord
      <3>4. x = FirstRecord(b)
        BY <3>1, <3>3, Zenon DEF FirstRecord
      <3> QED
        BY <3>4, Zenon DEF b
    <2> QED
      BY <1>1, <2>2, FirstRecordFields, Zenon
  <1>5. server' = [server EXCEPT !.donbot[k] = x]
    BY DEF NewRecord
  <1> HIDE DEF x, k
  <1>6. k \in Keys
    BY <1>1 DEF k
  <1>7. /\ server' \in Services /\ server'.reports = server.reports /\ server'.wingman = server.wingman
        /\ server'.issued = server.issued /\ server.issued \in Nat
        /\ server'.donbot[k] = x /\ \A j \in Keys \ {k} : server'.donbot[j] = server.donbot[j]
    BY <1>1, <1>4, <1>5, <1>6 DEF Services
  <1>8. Grows
    <2>1. server.donbot[k].records = 0
      BY <1>1 DEF k
    <2> QED
      BY <1>7, <2>1 DEF Grows
  <1>9. ShapeInv'
    BY <1>1, <1>2, <1>7 DEF ShapeInv, Within
  <1>10. ASSUME NEW q \in Requests \ {r}
         PROVE  AttemptInv(q)'
    <2>1. Direct(q) => q.report # r.report
      BY <1>1, DirectUploads DEF Direct
    <2>2. ASSUME Direct(q), NEW g \in Guilds
          PROVE  server'.donbot[<<q.log, g, q.report>>].records = server.donbot[<<q.log, g, q.report>>].records
      <3>1. <<q.log, g, q.report>> \in Keys /\ <<q.log, g, q.report>> # k
        BY <1>1, <2>1, <2>2 DEF Keys, Logs, Reports, k
      <3> QED
        BY <1>7, <3>1
    <2>3. Spared(q) /\ run'[q] = run[q]
      BY <1>2, <2>2 DEF Spared, Within
    <2> QED
      BY <1>8, <1>9, <2>3, AttemptKept
  <1>11. run'[r].pc = run[r].pc /\ run'[r].sent = TRUE /\ run'[r].out = "None" /\ run'[r].opt = run[r].opt
    BY <1>1, <1>2, Zenon DEF Within
  <1>12. StepInv(r)' /\ ServiceInv(r)'
    BY <1>0, <1>1, <1>2, <1>7, <1>11 DEF StepInv, ServiceInv, DpsSteps, WingmanSteps, DonBotSteps
  <1>13. DonBotInv(r)'
    <2> DEFINE c == run'[r]
    <2>1. run[r].pc # "New" /\ c.pc # "New" /\ ~Unsent(c) /\ c.out # "Succeeded"
      BY <1>11 DEF Unsent
    <2>2. c.opt.guild \in Guilds /\ (c.opt.delivery => k \in asked') /\ <<r.log, c.opt.guild, r.report>> = k
      BY <1>1, <1>11, <2>1 DEF DonBotInv, k
    <2>3. server'.donbot[k].records > 0
      BY <1>4, <1>7
    <2>4. run'[r] = c
      OBVIOUS
    <2> HIDE DEF c
    <2> QED
      BY <2>1, <2>2, <2>3, <2>4 DEF DonBotInv
  <1>14. AttemptInv(r)'
    BY <1>12, <1>13 DEF AttemptInv
  <1>15. x.asked => k \in asked
    <2>1. run[r].pc # "New"
      OBVIOUS
    <2> QED
      BY <1>1, <1>4, <2>1 DEF DonBotInv, k
  <1>16. ASSUME NEW j \in Keys
         PROVE  RecordInv(j)'
    <2>1. RecordInv(j)
      BY DEF ClientInv
    <2>2. CASE j = k
      BY <1>4, <1>7, <1>15, <2>2 DEF RecordInv
    <2>3. CASE j # k
      BY <1>7, <2>1, <2>3 DEF RecordInv
    <2> QED
      BY <2>2, <2>3
  <1>17. \A q \in Requests : AttemptInv(q)'
    BY <1>10, <1>14
  <1> QED
    BY <1>9, <1>16, <1>17 DEF ClientInv, Keys, Guilds, Logs, Reports

(* A receipt that is shown is the one of a completed record.               *)
LEMMA CompleteKeeps ==
  ASSUME ClientInv, NEW r \in Requests, Working(r), run[r].pc \in DonBotSteps, NEW receipt \in Receipts,
         run' = Complete(r, receipt), Record(r).records > 0,
         receipt \in {"Sent", "Failed"} => Record(r).state = "Complete" /\ Record(r).receipt = receipt,
         UNCHANGED <<options, stop, secrets, server, asked, kept>>
  PROVE  ClientInv'
PROOF
  <1>1. /\ r.provider = "DonBot" /\ run[r].offered = 0
        /\ Key(r) = <<r.log, run[r].opt.guild, r.report>> /\ Record(r) = server.donbot[Key(r)]
    BY DonBotRow
  <1>2. CASE run' = Succeed(r, receipt)
    <2>1. Settles(r, "Succeeded", receipt)
      BY <1>1 DEF Settles
    <2> QED
      BY <1>2, <2>1, SucceedsKeeps
  <1>3. CASE run' = Settle(r, "Failed")
    BY <1>3, FailsKeeps DEF Settled
  <1> QED
    BY <1>2, <1>3 DEF Complete

(* The last event of the stream decides.                                 *)
LEMMA ProgressKeeps ==
  ASSUME ClientInv, NEW r \in Requests, Working(r), run[r].pc \in DonBotSteps,
         run' = Progress(r), Record(r).records > 0,
         UNCHANGED <<options, stop, secrets, server, asked, kept>>
  PROVE  ClientInv'
PROOF
  <1>1. Record(r) \in DonBotRecord
    BY DonBotRow
  <1>2. CASE Record(r).state = "Complete"
    <2> DEFINE receipt == IF Requested(r) THEN Record(r).receipt ELSE "NotRequested"
    <2>1. receipt \in Receipts /\ run' = Complete(r, receipt)
      BY <1>1, <1>2 DEF Progress, DonBotRecord, Receipts
    <2>2. receipt \in {"Sent", "Failed"} => Record(r).state = "Complete" /\ Record(r).receipt = receipt
      BY <1>2
    <2> HIDE DEF receipt
    <2> QED
      BY <2>1, <2>2, CompleteKeeps
  <1>3. CASE Record(r).state # "Complete"
    BY <1>3, FailsKeeps DEF Progress, Settled
  <1> QED
    BY <1>2, <1>3

(* The worker goes on to its next call.                                  *)
LEMMA DonBotGoes ==
  ASSUME ClientInv, NEW r \in Requests, run[r].pc \in DonBotSteps, NEW pc \in DonBotSteps,
         run' = Go(r, pc) \/ \E id \in BOOLEAN : run' = [Go(r, pc) EXCEPT ![r].id = id],
         pc \in {"Create", "Patch"} => ~r.imported, pc = "Import" => r.imported,
         pc = "Stream" => Record(r).records > 0,
         Direct(r) /\ pc \in {"Key", "Create", "Patch"} => Unsent(run[r]),
         UNCHANGED <<options, stop, secrets, server, asked, kept>>
  PROVE  ClientInv'
PROOF
  <1>1. run \in [Requests -> Attempt] /\ run[r] \in Attempt
    BY DonBotRow
  <1>2. run[r].now \in Nat /\ run[r].deadline \in Nat /\ pc \in Steps
    BY <1>1 DEF Attempt, Steps
  <1>3. Goes(r, pc, run[r].now, run[r].deadline)
    BY Zenon DEF Goes
  <1>4. Within(r, pc, FALSE) /\ run'[r].token = run[r].token /\ run'[r].offered = run[r].offered
    BY <1>1, <1>2, <1>3, GoFields, ZenonT(30)
  <1>5. FALSE /\ run'[r].arrived => Record(r).records > 0
    OBVIOUS
  <1> QED
    BY <1>4, <1>5, DonBotMove

(* A call that DonBot makes no record for.                                 *)
LEMMA DonBotCalls ==
  ASSUME ClientInv, NEW r \in Requests, run[r].pc \in {"Create", "Patch", "Stream", "Import"},
         NEW arrived \in BOOLEAN, run' = [run EXCEPT ![r].sent = TRUE, ![r].arrived = arrived],
         run[r].pc \in {"Patch", "Import"} /\ arrived => Record(r).records > 0,
         UNCHANGED <<options, stop, secrets, server, asked, kept>>
  PROVE  ClientInv'
PROOF
  <1> DEFINE pc == run[r].pc
  <1>1. pc \in DonBotSteps
    BY DEF DonBotSteps
  <1>2. run \in [Requests -> Attempt] /\ StepInv(r) /\ DonBotInv(r)
        /\ r.provider = "DonBot" /\ Key(r) = <<r.log, run[r].opt.guild, r.report>> /\ Record(r) = server.donbot[Key(r)]
    BY <1>1, DonBotRow
  <1>3. /\ Within(r, pc, TRUE) /\ run'[r].arrived = arrived
        /\ run'[r].token = run[r].token /\ run'[r].offered = run[r].offered
    BY <1>2, SendFields
  <1>4. /\ pc \in {"Create", "Patch"} => ~r.imported
        /\ pc = "Import" => r.imported
    BY <1>2 DEF StepInv
  <1>5. pc = "Stream" => Record(r).records > 0
    BY <1>2 DEF DonBotInv, Reached
  <1>6. Direct(r) /\ (pc \in {"Key", "Create"} \/ (pc = "Patch" /\ ~TRUE)) => Unsent(run[r])
    BY DEF Unsent
  <1>7. pc = "Stream" \/ (pc \in {"Patch", "Import"} /\ TRUE /\ run'[r].arrived) => Record(r).records > 0
    BY <1>3, <1>5
  <1> HIDE DEF pc
  <1>8. run[r].pc \in DonBotSteps
    BY <1>1 DEF pc
  <1> QED
    BY <1>1, <1>3, <1>4, <1>6, <1>7, <1>8, DonBotMove

(* The key is there, or the upload fails.                                *)
LEMMA LoadKeyKeeps ==
  ASSUME ClientInv, NEW r \in Requests, Working(r), LoadKey(r)
  PROVE  ClientInv'
PROOF
  <1>1. run[r].pc = "Key" /\ UNCHANGED <<options, stop, secrets, server, asked, kept>>
    BY DEF LoadKey
  <1>2. CASE run' = Settle(r, "Failed")
    BY <1>1, <1>2, FailsKeeps DEF Settled
  <1> DEFINE pc == IF r.imported THEN "Import" ELSE "Create"
  <1>3. CASE run' = Go(r, pc)
    <2>1. run[r].pc \in DonBotSteps /\ pc \in DonBotSteps /\ Unsent(run[r])
      BY <1>1 DEF DonBotSteps, Unsent
    <2>2. /\ pc \in {"Create", "Patch"} => ~r.imported
          /\ pc = "Import" => r.imported
          /\ pc # "Stream"
      OBVIOUS
    <2> HIDE DEF pc
    <2> QED
      BY <1>1, <1>3, <2>1, <2>2, DonBotGoes
  <1> QED
    BY <1>2, <1>3 DEF LoadKey

(* A resumable upload was created: nothing of the log is at DonBot.      *)
LEMMA CreatedKeeps ==
  ASSUME ClientInv, NEW r \in Requests, Working(r), Created(r)
  PROVE  ClientInv'
PROOF
  <1>1. run[r].pc = "Create" /\ UNCHANGED <<options, stop, secrets, server, asked, kept>>
    BY DEF Created, Receive
  <1>2. run[r].pc \in DonBotSteps /\ Unsent(run[r])
    BY <1>1 DEF DonBotSteps, Unsent
  <1>3. CASE Fails(r)
    BY <1>1, <1>2, <1>3, FailedCall
  <1>4. CASE run' = Settle(r, "Unconfirmed")
    BY <1>1, <1>4, FailsKeeps DEF Settled
  <1>5. ASSUME NEW id \in BOOLEAN, run' = [Go(r, "Patch") EXCEPT ![r].id = id]
        PROVE  ClientInv'
    <2>1. ~r.imported
      BY <1>1 DEF ClientInv, AttemptInv, StepInv
    <2>2. "Patch" \in DonBotSteps
      BY DEF DonBotSteps
    <2>3. \E i \in BOOLEAN : run' = [Go(r, "Patch") EXCEPT ![r].id = i]
      BY <1>5, Zenon
    <2> QED
      BY <1>1, <1>2, <2>1, <2>2, <2>3, DonBotGoes
  <1>6. \/ Fails(r) \/ run' = Settle(r, "Unconfirmed")
        \/ \E id \in BOOLEAN : run' = [Go(r, "Patch") EXCEPT ![r].id = id]
    BY Zenon DEF Created, Receive
  <1> QED
    BY <1>3, <1>4, <1>5, <1>6

(* The bytes go out, once: the log has no record anywhere yet.           *)
LEMMA PatchKeeps ==
  ASSUME ClientInv, NEW r \in Requests, Working(r), Patch(r)
  PROVE  ClientInv'
PROOF
  <1>1. run[r].pc = "Patch" /\ ~run[r].sent /\ UNCHANGED <<options, stop, secrets, asked, kept>>
    BY DEF Patch, Send
  <1>2. CASE run' = Settle(r, "Failed") /\ server' = server
    BY <1>1, <1>2, FailsKeeps DEF Settled
  <1>3. ASSUME NEW arrived \in BOOLEAN, run' = [run EXCEPT ![r].sent = TRUE, ![r].arrived = arrived],
               server' = IF arrived THEN NewRecord(r) ELSE server
        PROVE  ClientInv'
    <2>1. CASE ~arrived
      BY <1>1, <1>3, <2>1, DonBotCalls
    <2>2. CASE arrived
      <3>1. run[r].pc \in DonBotSteps
        BY <1>1 DEF DonBotSteps
      <3>2. /\ r.provider = "DonBot" /\ StepInv(r) /\ DonBotInv(r)
            /\ Key(r) = <<r.log, run[r].opt.guild, r.report>> /\ Record(r) = server.donbot[Key(r)]
        BY <3>1, DonBotRow
      <3>3. run[r].opt.guild \in Guilds /\ ~r.imported /\ Unsent(run[r])
        BY <1>1, <3>2 DEF StepInv, DonBotInv, Unsent
      <3>4. Record(r).records = 0
        BY <3>2, <3>3 DEF DonBotInv
      <3>5. run' = [run EXCEPT ![r].sent = TRUE, ![r].arrived = TRUE]
        <4>1. arrived = TRUE
          BY <2>2
        <4> QED
          BY <1>3, <4>1, Zenon
      <3>6. server' = NewRecord(r)
        BY <1>3, <2>2
      <3> QED
        BY <1>1, <3>4, <3>5, <3>6, DonBotWrites
    <2> QED
      BY <2>1, <2>2
  <1>4. \/ run' = Settle(r, "Failed") /\ server' = server
        \/ \E arrived \in BOOLEAN : /\ run' = [run EXCEPT ![r].sent = TRUE, ![r].arrived = arrived]
                                    /\ server' = IF arrived THEN NewRecord(r) ELSE server
    BY Zenon DEF Patch, Send
  <1> QED
    BY <1>2, <1>3, <1>4

(* A report makes a record unless DonBot has one of it.                  *)
LEMMA ImportKeeps ==
  ASSUME ClientInv, NEW r \in Requests, Working(r), Import(r)
  PROVE  ClientInv'
PROOF
  <1>1. run[r].pc = "Import" /\ ~run[r].sent /\ UNCHANGED <<options, stop, secrets, asked, kept>>
    BY DEF Import, Send
  <1>2. run[r].pc \in DonBotSteps
    BY <1>1 DEF DonBotSteps
  <1>3. Record(r) \in DonBotRecord
    BY <1>2, DonBotRow
  <1>4. ASSUME NEW arrived \in BOOLEAN, run' = [run EXCEPT ![r].sent = TRUE, ![r].arrived = arrived],
               server' = IF arrived THEN (IF Record(r).records > 0 THEN server ELSE NewRecord(r)) ELSE server
        PROVE  ClientInv'
    <2>1. CASE ~arrived \/ Record(r).records > 0
      BY <1>1, <1>4, <2>1, DonBotCalls
    <2>2. CASE arrived /\ ~(Record(r).records > 0)
      <3>1. Record(r).records = 0
        BY <1>3, <2>2 DEF DonBotRecord
      <3>2. run' = [run EXCEPT ![r].sent = TRUE, ![r].arrived = TRUE]
        <4>1. arrived = TRUE
          BY <2>2
        <4> QED
          BY <1>4, <4>1, Zenon
      <3>3. server' = NewRecord(r)
        BY <1>4, <2>2
      <3> QED
        BY <1>1, <3>1, <3>2, <3>3, DonBotWrites
    <2> QED
      BY <2>1, <2>2
  <1> QED
    BY <1>4 DEF Import, Send

(* The calls that leave DonBot as it is.                                 *)
LEMMA CreateStreamKeeps ==
  ASSUME ClientInv, NEW r \in Requests, Working(r), Create(r) \/ Stream(r)
  PROVE  ClientInv'
PROOF
  <1>1. PICK arrived \in BOOLEAN :
          /\ run[r].pc \in {"Create", "Stream"} /\ run' = [run EXCEPT ![r].sent = TRUE, ![r].arrived = arrived]
          /\ UNCHANGED <<options, stop, secrets, server, asked, kept>>
    BY DEF Create, Stream, Send
  <1> QED
    BY <1>1, DonBotCalls

(* An answer that is lost is not tried again.                            *)
LEMMA PatchedKeeps ==
  ASSUME ClientInv, NEW r \in Requests, Working(r), Patched(r)
  PROVE  ClientInv'
PROOF
  <1>1. /\ run[r].pc = "Patch" /\ run[r].sent /\ UNCHANGED <<options, stop, secrets, server, asked, kept>>
        /\ \/ run' = Settle(r, "Unconfirmed")
           \/ /\ Answered(r)
              /\ run' = Go(r, "Stream") \/ run' = Complete(r, "NotRequested")
    BY DEF Patched, Receive, Unconfirmed
  <1>2. run[r].pc \in DonBotSteps
    BY <1>1 DEF DonBotSteps
  <1>3. CASE run' = Settle(r, "Unconfirmed")
    BY <1>1, <1>3, FailsKeeps DEF Settled
  <1>4. CASE Answered(r) /\ (run' = Go(r, "Stream") \/ run' = Complete(r, "NotRequested"))
    <2>1. r.provider = "DonBot" /\ DonBotInv(r) /\ Key(r) = <<r.log, run[r].opt.guild, r.report>>
          /\ Record(r) = server.donbot[Key(r)]
      BY <1>2, DonBotRow
    <2>2. Record(r).records > 0
      BY <1>1, <1>4, <2>1 DEF DonBotInv, Reached, Answered
    <2>3. "Stream" \in DonBotSteps /\ "NotRequested" \in Receipts
      BY DEF DonBotSteps, Receipts
    <2>4. CASE run' = Go(r, "Stream")
      BY <1>1, <1>2, <2>2, <2>3, <2>4, DonBotGoes
    <2>5. CASE run' = Complete(r, "NotRequested")
      BY <1>1, <1>2, <2>2, <2>3, <2>5, CompleteKeeps
    <2> QED
      BY <1>4, <2>4, <2>5
  <1> QED
    BY <1>1, <1>3, <1>4

(* The stream ends, early or with the result.                            *)
LEMMA StreamedKeeps ==
  ASSUME ClientInv, NEW r \in Requests, Working(r), Streamed(r)
  PROVE  ClientInv'
PROOF
  <1>1. /\ run[r].pc = "Stream" /\ UNCHANGED <<options, stop, secrets, server, asked, kept>>
        /\ \/ run' = Settle(r, "Unconfirmed") \/ run' = Settle(r, "Failed")
           \/ run' = Complete(r, "NotRequested") \/ run' = Progress(r)
    BY DEF Streamed, Receive
  <1>2. run[r].pc \in DonBotSteps /\ "NotRequested" \in Receipts
    BY <1>1 DEF DonBotSteps, Receipts
  <1>3. r.provider = "DonBot" /\ DonBotInv(r) /\ Key(r) = <<r.log, run[r].opt.guild, r.report>>
        /\ Record(r) = server.donbot[Key(r)]
    BY <1>2, DonBotRow
  <1>4. Record(r).records > 0
    BY <1>1, <1>3 DEF DonBotInv, Reached
  <1>5. CASE run' = Settle(r, "Unconfirmed") \/ run' = Settle(r, "Failed")
    BY <1>1, <1>5, FailsKeeps DEF Settled
  <1>6. CASE run' = Complete(r, "NotRequested")
    BY <1>1, <1>2, <1>4, <1>6, CompleteKeeps
  <1>7. CASE run' = Progress(r)
    BY <1>1, <1>2, <1>4, <1>7, ProgressKeeps
  <1> QED
    BY <1>1, <1>5, <1>6, <1>7

(* A report may be imported again.                                       *)
LEMMA ImportedKeeps ==
  ASSUME ClientInv, NEW r \in Requests, Working(r), Imported(r)
  PROVE  ClientInv'
PROOF
  <1>1. /\ run[r].pc = "Import" /\ run[r].sent /\ UNCHANGED <<options, stop, secrets, server, asked, kept>>
        /\ \/ Fails(r) \/ run' = Settle(r, "Unconfirmed")
           \/ Answered(r) /\ (run' = Progress(r) \/ run' = Go(r, "Stream"))
    BY DEF Imported, Receive
  <1>2. run[r].pc \in DonBotSteps
    BY <1>1 DEF DonBotSteps
  <1>3. r.provider = "DonBot" /\ StepInv(r) /\ DonBotInv(r) /\ Key(r) = <<r.log, run[r].opt.guild, r.report>>
        /\ Record(r) = server.donbot[Key(r)]
    BY <1>2, DonBotRow
  <1>4. ~Direct(r)
    BY <1>1, <1>3 DEF StepInv, Direct
  <1>5. CASE Fails(r)
    BY <1>1, <1>4, <1>5, FailedCall
  <1>6. CASE run' = Settle(r, "Unconfirmed")
    BY <1>1, <1>6, FailsKeeps DEF Settled
  <1>7. CASE Answered(r) /\ (run' = Progress(r) \/ run' = Go(r, "Stream"))
    <2>1. Record(r).records > 0 /\ "Stream" \in DonBotSteps
      BY <1>1, <1>3, <1>7 DEF DonBotInv, Reached, Answered, DonBotSteps
    <2>2. CASE run' = Progress(r)
      BY <1>1, <1>2, <2>1, <2>2, ProgressKeeps
    <2>3. CASE run' = Go(r, "Stream")
      BY <1>1, <1>2, <2>1, <2>3, DonBotGoes
    <2> QED
      BY <1>7, <2>2, <2>3
  <1> QED
    BY <1>1, <1>5, <1>6, <1>7

(* Every step of DonBot's worker.                                        *)
LEMMA DonBotKeeps ==
  ASSUME ClientInv, NEW r \in Requests, Working(r), DonBotStep(r)
  PROVE  ClientInv'
  BY LoadKeyKeeps, CreateStreamKeeps, CreatedKeeps, PatchKeeps, PatchedKeeps, StreamedKeeps, ImportKeeps,
     ImportedKeeps DEF DonBotStep

-----------------------------------------------------------------------------
(* The coordinator, the user and DonBot.                                   *)

(* Where an attempt starts, and with which options.                        *)
LEMMA FirstStep ==
  ASSUME NEW r \in Requests
  PROVE  /\ r.provider = "DpsReport" => First(r) = "Token"
         /\ r.provider = "Wingman" => First(r) \in {"Link", "Post"}
         /\ r.provider = "DonBot" => First(r) = "Key"
PROOF
  <1>1. ASSUME r.provider = "DpsReport" PROVE First(r) = "Token"
    BY <1>1, Zenon DEF First
  <1>2. ASSUME r.provider = "Wingman" PROVE First(r) \in {"Link", "Post"}
    <2>1. First(r) = IF r.imported THEN "Link" ELSE "Post"
      BY <1>2, Zenon DEF First
    <2> QED
      BY <2>1
  <1>3. ASSUME r.provider = "DonBot" PROVE First(r) = "Key"
    BY <1>3, Zenon DEF First
  <1> QED
    BY <1>1, <1>2, <1>3

(* Only an automatic request may announce, in the guild of the moment.   *)
LEMMA CapturedOptions ==
  ASSUME ShapeInv, NEW r \in Requests
  PROVE  /\ Captured(r) \in Options
         /\ r.provider = "DonBot" =>
              /\ Captured(r).guild = options.guild
              /\ Captured(r).delivery => r.intent = "Automatic" /\ options.delivery
PROOF
  <1>0. options \in Choices /\ options = [guild |-> options.guild, delivery |-> options.delivery]
        /\ options.delivery \in BOOLEAN
    BY ClientConstants DEF ShapeInv
  <1>1. CASE r.provider # "DonBot"
    <2>1. Captured(r) = NoGuild
      BY <1>1, Zenon DEF Captured
    <2> QED
      BY <1>1, <2>1 DEF NoGuild, Options
  <1>2. CASE r.provider = "DonBot" /\ r.intent = "Automatic"
    <2>1. Captured(r) = options
      BY <1>2, Zenon DEF Captured
    <2>2. options \in Options
      BY <1>0 DEF Options
    <2> QED
      BY <1>2, <2>1, <2>2
  <1>3. CASE r.provider = "DonBot" /\ r.intent # "Automatic"
    <2>1. Captured(r) = [options EXCEPT !.delivery = FALSE]
      BY <1>3, Zenon DEF Captured
    <2>2. /\ [options EXCEPT !.delivery = FALSE] \in Options
          /\ [options EXCEPT !.delivery = FALSE].guild = options.guild
          /\ ~[options EXCEPT !.delivery = FALSE].delivery
      BY <1>0 DEF Options
    <2> QED
      BY <2>1, <2>2, Zenon
  <1> QED
    BY <1>1, <1>2, <1>3

(* A request is admitted only with a guild.                              *)
LEMMA AcceptedByDonBot ==
  ASSUME NEW r \in Requests, r.provider = "DonBot", Accepts(r)
  PROVE  options.guild # "None"
  BY Zenon DEF Accepts

(* A request starts, or starts again after a retry.                      *)
LEMMA EnqueueKeeps ==
  ASSUME ClientInv, NEW r \in Requests, Enqueue(r)
  PROVE  ClientInv'
PROOF
  <1> DEFINE c == [Idle EXCEPT !.pc = First(r), !.attempt = run[r].attempt + 1, !.opt = Captured(r)]
  <1>1. /\ run[r].pc = "New" \/ run[r].out = "Retry"
        /\ Accepts(r) /\ run' = [run EXCEPT ![r] = c]
        /\ asked' = IF r.provider = "DonBot" /\ r.intent = "Automatic" /\ options.delivery
                    THEN asked \cup {<<r.log, options.guild, r.report>>} ELSE asked
        /\ UNCHANGED <<options, stop, secrets, server, kept>>
    BY DEF Enqueue
  <1>2. ShapeInv /\ run \in [Requests -> Attempt] /\ run[r] \in Attempt /\ DonBotInv(r)
        /\ server.issued \in Nat
    BY DEF ClientInv, ShapeInv, AttemptInv, Services
  <1>3. /\ r.provider \in {"DpsReport", "Wingman", "DonBot"}
        /\ r.provider = "DpsReport" => First(r) = "Token"
        /\ r.provider = "Wingman" => First(r) \in {"Link", "Post"}
        /\ r.provider = "DonBot" => First(r) = "Key"
    BY FirstStep, ClientConstants
  <1>4. First(r) \in Steps
    BY <1>3 DEF Steps, DpsSteps, WingmanSteps, DonBotSteps
  <1>5. /\ Captured(r) \in Options
        /\ r.provider = "DonBot" =>
             /\ Captured(r).guild = options.guild
             /\ Captured(r).delivery => r.intent = "Automatic" /\ options.delivery
    BY <1>2, CapturedOptions
  <1>6. run[r].attempt + 1 \in Nat
    BY <1>2 DEF Attempt
  <1>7. /\ c \in Attempt /\ c.pc = First(r) /\ c.opt = Captured(r) /\ c.out = "None" /\ ~c.sent
        /\ c.token = 0 /\ c.offered = 0 /\ c.receipt = "NotRequested"
    BY <1>4, <1>5, <1>6 DEF Idle, Attempt, Receipts, Steps
  <1> HIDE DEF c
  <1>8. /\ run' \in [Requests -> Attempt] /\ run'[r] = c
        /\ \A q \in Requests \ {r} : run'[q] = run[q]
    BY <1>1, <1>2, <1>7
  <1>9. ShapeInv'
    BY <1>1, <1>2, <1>8 DEF ShapeInv
  <1>10. Grows
    BY <1>1, <1>2 DEF Grows
  <1>11. StepInv(r)'
    BY <1>1, <1>2, <1>3, <1>7, <1>8 DEF StepInv, DpsSteps, WingmanSteps, DonBotSteps
  <1>12. ServiceInv(r)'
    BY <1>3, <1>7, <1>8 DEF ServiceInv, Reached
  <1>13. DonBotInv(r)'
    <2> SUFFICES ASSUME r.provider = "DonBot"
                 PROVE  DonBotInv(r)'
      BY DEF DonBotInv
    <2>1. options \in Choices /\ options.guild # "None"
      BY <1>1, <1>2, AcceptedByDonBot DEF ShapeInv
    <2>2. c.opt.guild = options.guild /\ options.guild \in Guilds
      BY <1>5, <1>7, <2>1 DEF Guilds
    <2>3. c.opt.delivery => <<r.log, options.guild, r.report>> \in asked'
      BY <1>1, <1>5, <1>7
    <2>4. ~Reached(c, {"Patch", "Import"}, {"Stream"}) /\ c.out # "Succeeded"
      BY <1>3, <1>7 DEF Reached
    <2>5. ~r.imported => \A g \in Guilds : server.donbot[<<r.log, g, r.report>>].records = 0
      BY <1>1, <1>2 DEF DonBotInv, Unsent
    <2> QED
      BY <1>1, <1>8, <2>2, <2>3, <2>4, <2>5 DEF DonBotInv
  <1>14. AttemptInv(r)'
    BY <1>11, <1>12, <1>13 DEF AttemptInv
  <1> QED
    BY <1>1, <1>8, <1>9, <1>10, <1>14, WorkerStep

(* The attempts are as they were.                                          *)
LEMMA AttemptsKept ==
  ASSUME ClientInv, ShapeInv', UNCHANGED <<run, secrets, server, asked, kept>>
  PROVE  ClientInv'
PROOF
  <1>1. Grows /\ server'.donbot = server.donbot
    BY NothingElse DEF ClientInv
  <1>2. \A q \in Requests : Spared(q)
    BY DEF Spared
  <1>3. \A q \in Requests : AttemptInv(q)'
    BY <1>1, <1>2, AttemptKept
  <1>4. \A k \in Keys : RecordInv(k)'
    BY DEF ClientInv, RecordInv
  <1> QED
    BY <1>3, <1>4 DEF ClientInv, Keys, Guilds, Logs, Reports

(* What DonBot may make of a record it has pending.                        *)
Processed(rec, result) ==
  /\ result \in DonBotRecord /\ result.records = rec.records /\ result.asked = rec.asked
  /\ result.state \in {"Complete", "Failed"} /\ result.announced <= 1
  /\ result.announced > 0 => rec.asked
  /\ result.state = "Complete" /\ result.receipt = "Sent" => result.announced > 0
  /\ result.state = "Complete" /\ result.receipt = "Failed" => result.announced = 0

(* It fails: nothing is announced.                                       *)
LEMMA FailedProcessing ==
  ASSUME NEW rec \in DonBotRecord, rec.announced = 0
  PROVE  Processed(rec, [rec EXCEPT !.state = "Failed"])
PROOF
  <1> DEFINE x == [rec EXCEPT !.state = "Failed"]
  <1>1. /\ x \in DonBotRecord /\ x.records = rec.records /\ x.state = "Failed" /\ x.announced = 0
    BY DEF DonBotRecord
  <1>2. x.asked = rec.asked
    BY DEF DonBotRecord
  <1> HIDE DEF x
  <1>3. Processed(rec, x)
    BY <1>1, <1>2 DEF Processed
  <1> QED
    BY <1>3 DEF x

(* It completes, with at most one message if that was asked for.         *)
LEMMA DoneProcessing ==
  ASSUME NEW rec \in DonBotRecord, rec.announced = 0, NEW receipt \in Receipts, NEW messages \in {0, 1},
         messages = 1 => rec.asked, receipt = "Sent" => messages = 1, receipt = "Failed" => messages = 0
  PROVE  Processed(rec, [rec EXCEPT !.state = "Complete", !.receipt = receipt, !.announced = @ + messages])
PROOF
  <1> DEFINE n == rec.announced + messages
             x == [rec EXCEPT !.state = "Complete", !.receipt = receipt, !.announced = n]
  <1>0. n = messages /\ n \in Nat
    OBVIOUS
  <1> HIDE DEF n
  <1>1. /\ x \in DonBotRecord /\ x.records = rec.records /\ x.state = "Complete" /\ x.announced = n
        /\ x.receipt = receipt
    BY <1>0 DEF DonBotRecord
  <1>2. x.asked = rec.asked
    BY DEF DonBotRecord
  <1> HIDE DEF x
  <1>3. Processed(rec, x)
    BY <1>0, <1>1, <1>2 DEF Processed
  <1> QED
    BY <1>3 DEF x, n

(* DonBot processes a record, beside the workers.                        *)
LEMMA ServiceKeeps ==
  ASSUME ClientInv, ServiceProcesses
  PROVE  ClientInv'
PROOF
  <1>1. ShapeInv /\ server \in Services
    BY DEF ClientInv, ShapeInv
  <1>2. DOMAIN server.donbot = Keys
    BY <1>1 DEF Services
  <1>3. PICK k \in Keys :
          /\ server.donbot[k].state = "Pending" /\ UNCHANGED <<options, run, stop, secrets, asked, kept>>
          /\ LET rec == server.donbot[k]
                 done(receipt, messages) == [rec EXCEPT !.state = "Complete", !.receipt = receipt,
                                                        !.announced = @ + messages]
             IN  \E result \in {[rec EXCEPT !.state = "Failed"]} \cup
                   (IF rec.asked THEN {done("Sent", 1), done("Failed", 0), done("Ambiguous", 0),
                                       done("Ambiguous", 1)}
                    ELSE {done("NotRequested", 0)}) :
                   server' = [server EXCEPT !.donbot[k] = result]
    BY <1>2, Zenon DEF ServiceProcesses
  <1> DEFINE rec == server.donbot[k]
  <1>4. /\ rec \in DonBotRecord /\ RecordInv(k) /\ rec.announced = 0 /\ rec.records > 0
        /\ rec.records \in Nat /\ rec.asked \in BOOLEAN
    <2>1. rec \in DonBotRecord /\ RecordInv(k)
      BY <1>1 DEF ClientInv, Services
    <2> QED
      BY <1>3, <2>1 DEF RecordInv, DonBotRecord
  <1>5. \E x : Processed(rec, x) /\ server' = [server EXCEPT !.donbot[k] = x]
    <2> DEFINE done(receipt, messages) == [rec EXCEPT !.state = "Complete", !.receipt = receipt,
                                                      !.announced = @ + messages]
    <2>1. PICK result \in {[rec EXCEPT !.state = "Failed"]} \cup
                   (IF rec.asked THEN {done("Sent", 1), done("Failed", 0), done("Ambiguous", 0),
                                       done("Ambiguous", 1)}
                    ELSE {done("NotRequested", 0)}) :
                   server' = [server EXCEPT !.donbot[k] = result]
      BY <1>3, Zenon
    <2>2. \/ result = [rec EXCEPT !.state = "Failed"]
          \/ rec.asked /\ result \in {done("Sent", 1), done("Failed", 0), done("Ambiguous", 0), done("Ambiguous", 1)}
          \/ result = done("NotRequested", 0)
      BY <2>1, Zenon
    <2>3. Processed(rec, [rec EXCEPT !.state = "Failed"])
      BY <1>4, FailedProcessing
    <2>a. {"NotRequested", "Sent", "Failed", "Ambiguous"} \subseteq Receipts
      BY DEF Receipts
    <2>b. 0 \in {0, 1} /\ 1 \in {0, 1} /\ 0 # 1
      OBVIOUS
    <2>c. rec \in DonBotRecord /\ rec.announced = 0
      BY <1>4
    <2> HIDE DEF rec
    <2>4. Processed(rec, done("NotRequested", 0))
      BY <2>a, <2>b, <2>c, DoneProcessing, Zenon
    <2>5. rec.asked => /\ Processed(rec, done("Sent", 1)) /\ Processed(rec, done("Failed", 0))
                       /\ Processed(rec, done("Ambiguous", 0)) /\ Processed(rec, done("Ambiguous", 1))
      BY <2>a, <2>b, <2>c, DoneProcessing, Zenon
    <2>6. Processed(rec, result)
      BY <2>2, <2>3, <2>4, <2>5, Zenon
    <2> QED
      BY <2>1, <2>6, Zenon
  <1>6. PICK x : Processed(rec, x) /\ server' = [server EXCEPT !.donbot[k] = x]
    BY <1>5
  <1> HIDE DEF rec
  <1>a. rec = server.donbot[k]
    BY DEF rec
  <1>7. /\ server' \in Services /\ server'.reports = server.reports /\ server'.wingman = server.wingman
        /\ server'.issued = server.issued /\ server.issued \in Nat
        /\ server'.donbot[k] = x /\ \A j \in Keys \ {k} : server'.donbot[j] = server.donbot[j]
    BY <1>1, <1>3, <1>6 DEF Services, Processed
  <1>8. \A j \in Keys : server'.donbot[j].records = server.donbot[j].records
    BY <1>6, <1>7, <1>a DEF Processed
  <1>9. Grows
    <2>1. rec.state # "Complete"
      BY <1>3, <1>a
    <2> QED
      BY <1>3, <1>7, <1>8, <1>a, <2>1 DEF Grows
  <1>10. ShapeInv'
    BY <1>1, <1>3, <1>7 DEF ShapeInv
  <1>11. ASSUME NEW q \in Requests
         PROVE  AttemptInv(q)'
    <2>1. Spared(q)
      BY <1>8 DEF Spared, Keys, Logs, Reports
    <2> QED
      BY <1>3, <1>9, <1>10, <2>1, AttemptKept
  <1>12. ASSUME NEW j \in Keys
         PROVE  RecordInv(j)'
    <2>1. CASE j = k
      <3>1. rec.records <= 1 /\ (rec.asked => k \in asked)
        BY <1>4, <1>a DEF RecordInv
      <3> QED
        BY <1>3, <1>4, <1>6, <1>7, <2>1, <3>1 DEF RecordInv, Processed
    <2>2. CASE j # k
      <3>1. RecordInv(j)
        BY DEF ClientInv
      <3> QED
        BY <1>3, <1>7, <2>2, <3>1 DEF RecordInv
    <2> QED
      BY <2>1, <2>2
  <1> QED
    BY <1>10, <1>11, <1>12 DEF ClientInv, Keys, Guilds, Logs, Reports

-----------------------------------------------------------------------------
(* The specification.                                                      *)

(* Every step of a worker, cancelled or not.                             *)
LEMMA ClientStepKeeps ==
  ASSUME ClientInv, NEW r \in Requests, ClientStep(r)
  PROVE  ClientInv'
PROOF
  <1>1. Working(r)
    BY DEF ClientStep
  <1>2. CASE stop
    BY <1>1, <1>2, FailsKeeps DEF ClientStep, Settled
  <1>3. CASE ~stop
    <2>1. CASE DpsStep(r)
      BY <1>1, <2>1, LoadTokenKeeps, UploadKeeps, UploadedKeeps, StoreTokenKeeps DEF DpsStep
    <2>2. CASE WingmanStep(r)
      BY <1>1, <2>2, WingmanKeeps
    <2>3. CASE DonBotStep(r)
      BY <1>1, <2>3, DonBotKeeps
    <2> QED
      BY <1>3, <2>1, <2>2, <2>3 DEF ClientStep
  <1> QED
    BY <1>2, <1>3

(* Nothing is known and nothing done in the beginning.                   *)
LEMMA ClientsStart ==
  ASSUME Init
  PROVE  ClientInv
PROOF
  <1>1. /\ Idle \in Attempt /\ Idle.pc = "New" /\ Idle.out = "None" /\ ~Idle.sent
        /\ Idle.token = 0 /\ Idle.offered = 0
    BY DEF Idle, Attempt, NoGuild, Options, Receipts
  <1>2. /\ NoRecord \in DonBotRecord /\ NoRecord.records = 0 /\ ~NoRecord.asked
        /\ NoRecord.announced = 0 /\ NoRecord.state = "None"
    BY DEF NoRecord, DonBotRecord, Receipts
  <1> DEFINE none == [k \in Keys |-> NoRecord]
  <1>3. /\ options \in Choices /\ run = [r \in Requests |-> Idle] /\ stop = FALSE
        /\ secrets \in [open : BOOLEAN, token : {0}]
        /\ server = [reports |-> {}, issued |-> 0, wingman |-> {}, donbot |-> none]
        /\ asked = {} /\ kept = {}
    BY DEF Init, Keys
  <1>4. none \in [Keys -> DonBotRecord] /\ \A k \in Keys : none[k] = NoRecord
    BY <1>2
  <1> HIDE DEF none
  <1>5. server \in Services /\ server.issued = 0 /\ server.donbot = none
    BY <1>3, <1>4 DEF Services
  <1>6. ShapeInv
    <2>1. run \in [Requests -> Attempt]
      BY <1>1, <1>3
    <2>2. secrets \in [open : BOOLEAN, token : Nat] /\ secrets.token = 0
      BY <1>3
    <2> QED
      BY <1>3, <1>5, <2>1, <2>2 DEF ShapeInv
  <1>7. \A k \in Keys : RecordInv(k)
    BY <1>2, <1>4, <1>5 DEF RecordInv
  <1>8. ASSUME NEW r \in Requests
        PROVE  AttemptInv(r)
    <2>1. run[r] = Idle
      BY <1>3
    <2>2. StepInv(r)
      BY <1>1, <1>5, <2>1 DEF StepInv, DpsSteps, WingmanSteps, DonBotSteps
    <2>3. ServiceInv(r)
      BY <1>1, <2>1 DEF ServiceInv, Reached
    <2>4. \A g \in Guilds : server.donbot[<<r.log, g, r.report>>].records = 0
      BY <1>2, <1>4, <1>5 DEF Keys, Logs, Reports
    <2>5. DonBotInv(r)
      BY <1>1, <2>1, <2>4 DEF DonBotInv, Reached
    <2> QED
      BY <2>2, <2>3, <2>5 DEF AttemptInv
  <1> QED
    BY <1>6, <1>7, <1>8 DEF ClientInv

(* Every step keeps the invariant.                                       *)
LEMMA ClientsKeep ==
  ASSUME ClientInv, [Next]_vars
  PROVE  ClientInv'
PROOF
  <1>1. CASE \E r \in Requests : Enqueue(r) \/ ClientStep(r)
    BY <1>1, EnqueueKeeps, ClientStepKeeps
  <1>2. CASE Configure
    BY <1>2, AttemptsKept DEF Configure, ClientInv, ShapeInv
  <1>3. CASE CancelPending
    BY <1>3, AttemptsKept DEF CancelPending, ClientInv, ShapeInv
  <1>4. CASE ServiceProcesses
    BY <1>4, ServiceKeeps
  <1>5. CASE UNCHANGED vars
    BY <1>5, AttemptsKept DEF vars, ClientInv, ShapeInv
  <1> QED
    BY <1>1, <1>2, <1>3, <1>4, <1>5 DEF Next

(* ClientInv holds in every state: what the workers take the services to   *)
(* have, the services have, and a log whose bytes may still go out to      *)
(* DonBot has no record there (upload_inner of the DonBot client never     *)
(* repeats bytes that may have arrived).                                   *)
THEOREM ClientsInvariance ==
  Spec => []ClientInv
PROOF
  <1>1. Init => ClientInv
    BY ClientsStart
  <1>2. ClientInv /\ [Next]_vars => ClientInv'
    BY ClientsKeep
  <1> QED
    BY <1>1, <1>2, PTL DEF Spec

(* Announcements are asked for by the automatic requests.                  *)
AskedInv ==
  \A k \in asked : \E r \in Requests :
    r.provider = "DonBot" /\ r.intent = "Automatic" /\ k[1] = r.log /\ k[3] = r.report

(* Only the coordinator asks.                                              *)
LEMMA StepsDoNotAsk ==
  ASSUME NEW r \in Requests, ClientStep(r)
  PROVE  asked' = asked
PROOF
  <1>1. CASE stop
    BY <1>1 DEF ClientStep
  <1>2. CASE DpsStep(r)
    BY <1>2 DEF DpsStep, LoadToken, Upload, Uploaded, StoreToken, Receive
  <1>3. CASE WingmanStep(r)
    BY <1>3 DEF WingmanStep, Post, Posted, TicketWait, TicketPoll, CheckPoll, Link, Linked, LinkCheck,
                LinkChecked, Send, Receive
  <1>4. CASE DonBotStep(r)
    BY <1>4 DEF DonBotStep, LoadKey, Create, Created, Patch, Patched, Stream, Streamed, Import, Imported,
                Send, Receive
  <1> QED
    BY <1>1, <1>2, <1>3, <1>4 DEF ClientStep

(* Every step keeps what is known of the announcements.                    *)
LEMMA AskedKeep ==
  ASSUME AskedInv, [Next]_vars
  PROVE  AskedInv'
PROOF
  <1>1. ASSUME NEW r \in Requests, Enqueue(r)
        PROVE  AskedInv'
    <2>1. \A k \in asked' \ asked :
            r.provider = "DonBot" /\ r.intent = "Automatic" /\ k = <<r.log, options.guild, r.report>>
      BY <1>1 DEF Enqueue
    <2> QED
      BY <2>1 DEF AskedInv
  <1>2. CASE asked' = asked
    BY <1>2 DEF AskedInv
  <1> QED
    BY <1>1, <1>2, StepsDoNotAsk DEF Next, Configure, CancelPending, ServiceProcesses, vars

(* DonBotAsAsked in every state: whichever answers are lost and however    *)
(* often an attempt is retried, DonBot keeps one record of an upload in a  *)
(* guild, announces a log there once at most, whatever reports a reupload  *)
(* makes of it, and only what was asked for when                           *)
(* DonBotProviderWorker::enqueue admitted the request.                     *)
THEOREM DonBotAlwaysAsAsked ==
  Spec => []DonBotAsAsked
PROOF
  <1>1. Init => AskedInv
    BY DEF Init, AskedInv
  <1>2. Spec => []AskedInv
    BY <1>1, AskedKeep, PTL DEF Spec
  <1>3. ClientInv /\ AskedInv => DonBotAsAsked
    <2> SUFFICES ASSUME ClientInv, AskedInv
                 PROVE  DonBotAsAsked
      OBVIOUS
    <2>1. DOMAIN server.donbot = Keys
      BY DEF ClientInv, ShapeInv, Services
    <2>2. ASSUME NEW k \in Keys
          PROVE  /\ server.donbot[k].records <= 1 /\ server.donbot[k].announced <= 1
                 /\ server.donbot[k].asked \/ server.donbot[k].announced > 0 => k \in asked
      BY DEF ClientInv, RecordInv
    <2>3. ASSUME NEW k \in Keys, NEW j \in Keys, k \in asked, j \in asked, j[1] = k[1], j[2] = k[2]
          PROVE  j = k
      <3>1. j[3] = k[3]
        BY <2>3, OneAutomaticDelivery DEF AskedInv
      <3> QED
        BY <2>3, <3>1 DEF Keys
    <2> QED
      BY <2>2, <2>3 DEF DonBotAsAsked, DonBotOnce, AnnouncedAsAsked
  <1> QED
    BY <1>2, <1>3, ClientsInvariance, PTL

(* SettledTruthfully in every state: a success that a worker publishes is  *)
(* real at the service, its announcement was made when it is shown as sent *)
(* and not made when it is shown as failed, the token that dps.report gave *)
(* was stored before (DpsProcessor::upload), and no poll of Wingman runs   *)
(* past its deadline.                                                      *)
THEOREM SettledAlwaysTruthfully ==
  Spec => []SettledTruthfully
PROOF
  <1>1. ClientInv => SettledTruthfully
    <2> SUFFICES ASSUME ClientInv
                 PROVE  SettledTruthfully
      OBVIOUS
    <2>1. ASSUME NEW r \in Requests
          PROVE  run[r] \in Attempt /\ StepInv(r) /\ ServiceInv(r) /\ DonBotInv(r)
      BY DEF ClientInv, ShapeInv, AttemptInv
    <2>2. ClientTypeOK
      <3>1. secrets.token \in kept \cup {0}
        BY DEF ClientInv, ShapeInv
      <3>2. ASSUME NEW r \in Requests
            PROVE  LET c == run[r] IN
                   /\ c.out \in Settled \cup {"None"} /\ c.receipt \in Receipts
                   /\ c.out # "None" <=> c.pc = "Done"
                   /\ c.pc \in {"TicketWait", "Ticket", "Check"} => c.now <= c.deadline
                   /\ c.token \in kept \cup {0} /\ c.offered \in 0 .. server.issued
        BY <2>1 DEF Attempt, StepInv
      <3> QED
        BY <3>1, <3>2 DEF ClientTypeOK
    <2>3. TokensAreKept
      BY <2>1 DEF TokensAreKept, ServiceInv
    <2>4. ASSUME NEW r \in Requests, run[r].out = "Succeeded"
          PROVE  /\ r.provider = "DpsReport" => r.log \in server.reports
                 /\ r.provider = "Wingman" => r.log \in server.wingman
                 /\ r.provider = "DonBot" =>
                      /\ Record(r).records > 0
                      /\ run[r].receipt = "Sent" => Record(r).announced > 0
                      /\ run[r].receipt = "Failed" => Record(r).announced = 0
      <3>1. r.provider = "DpsReport" => r.log \in server.reports
        BY <2>1, <2>4 DEF ServiceInv, Reached
      <3>2. r.provider = "Wingman" => r.log \in server.wingman
        BY <2>1, <2>4 DEF ServiceInv, Reached
      <3>3. ASSUME r.provider = "DonBot"
            PROVE  /\ Record(r).records > 0
                   /\ run[r].receipt = "Sent" => Record(r).announced > 0
                   /\ run[r].receipt = "Failed" => Record(r).announced = 0
        <4>1. run[r].pc # "New" /\ r.log \in Logs /\ r.report \in Reports
          BY <2>1, <2>4 DEF StepInv, Logs, Reports
        <4>2. Key(r) = <<r.log, run[r].opt.guild, r.report>> /\ Record(r) = server.donbot[Key(r)]
          BY DEF Key, Used, Record
        <4>3. Key(r) \in Keys
          BY <2>1, <3>3, <4>1, <4>2 DEF DonBotInv, Keys
        <4>4. RecordInv(Key(r))
          BY <4>3 DEF ClientInv
        <4>5. /\ Record(r).records > 0
              /\ run[r].receipt \in {"Sent", "Failed"} =>
                   Record(r).state = "Complete" /\ Record(r).receipt = run[r].receipt
          BY <2>1, <2>4, <3>3, <4>2 DEF DonBotInv, Reached
        <4> QED
          BY <4>2, <4>4, <4>5 DEF RecordInv
      <3> QED
        BY <3>1, <3>2, <3>3
    <2>5. SuccessIsReal
      <3> SUFFICES ASSUME NEW r \in Requests, run[r].out = "Succeeded"
                   PROVE  CASE r.provider = "DpsReport" -> r.log \in server.reports
                            [] r.provider = "Wingman" -> r.log \in server.wingman
                            [] r.provider = "DonBot" ->
                                 /\ Record(r).records > 0
                                 /\ run[r].receipt = "Sent" => Record(r).announced > 0
                                 /\ run[r].receipt = "Failed" => Record(r).announced = 0
        BY Zenon DEF SuccessIsReal
      <3>1. r.provider \in {"DpsReport", "Wingman", "DonBot"}
        BY ClientConstants
      <3>2. CASE r.provider = "DpsReport"
        BY <2>4, <3>2, Zenon
      <3>3. CASE r.provider = "Wingman"
        BY <2>4, <3>3, Zenon
      <3>4. CASE r.provider = "DonBot"
        BY <2>4, <3>4, Zenon
      <3> QED
        BY <3>1, <3>2, <3>3, <3>4, Zenon
    <2> QED
      BY <2>2, <2>3, <2>5 DEF SettledTruthfully
  <1> QED
    BY <1>1, ClientsInvariance, PTL
=============================================================================
