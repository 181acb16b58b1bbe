---------------------------- MODULE ProviderClients ----------------------------
(* src/rust/src/providers: what a worker thread does with one upload request to  *)
(* dps.report, Wingman or DonBot, call by call, beside the services it calls.    *)
(* A call is sent and answered in two steps: it may take effect at the service   *)
(* although the answer is lost, and the stop token may be set in between.  The   *)
(* queues and threads around it are WorkerPool's, the attempts UploadJob's.      *)
(* Texts, addresses and the bytes of a body are left out; a response that does   *)
(* not decode is an error that is refused.                                       *)
EXTENDS Naturals, FiniteSets

CONSTANTS
  Requests,       \* [provider, log, intent, imported, report, wvw]: report is what DonBot
                  \* knows an upload by, the permalink or, of a direct upload, itself
  Choices,        \* what the user may configure for DonBot: [guild, delivery]
  MaxAttempts,    \* [Requests -> attempts of it the coordinator starts]
  Rounds,         \* sets of requests that are dispatched together
  TicketInterval, TicketTimeout, CheckInterval, CheckTimeout, OperationTime

ASSUME ClientConstants ==
  /\ \A r \in Requests : r.provider \in {"DpsReport", "Wingman", "DonBot"} /\ r.imported \in BOOLEAN
  /\ \A c \in Choices : /\ c = [guild |-> c.guild, delivery |-> c.delivery]
                        /\ c.delivery \in BOOLEAN /\ (c.delivery => c.guild # "None")
  /\ MaxAttempts \in [Requests -> Nat \ {0}]
  /\ Rounds \subseteq SUBSET Requests
  /\ {TicketInterval, CheckInterval, OperationTime} \subseteq Nat \ {0}
  /\ {TicketTimeout, CheckTimeout} \subseteq Nat

(* Bytes that are uploaded directly are no other request's upload, even of the   *)
(* same log.                                                                     *)
ASSUME DirectUploads ==
  \A r, q \in Requests :
    r.provider = "DonBot" /\ q.provider = "DonBot" /\ ~r.imported /\ q.report = r.report => q = r

(* In a session the coordinator makes one automatic delivery of a log to DonBot; *)
(* a later report of the log is one of a reupload (UploadCoordinator).           *)
ASSUME OneAutomaticDelivery ==
  \A r, q \in Requests :
    /\ r.provider = "DonBot" /\ r.intent = "Automatic"
    /\ q.provider = "DonBot" /\ q.intent = "Automatic"
    /\ r.log = q.log
    => r.report = q.report

VARIABLES
  options,  \* DonBot's guild and whether delivery is requested
  run,      \* [Requests -> the attempt a thread works on, or has settled]
  stop,     \* the stop token of the pools
  secrets,  \* the dps.report token (0: none), the DonBot key, whether there is a store
  server,   \* what the services have
  asked,    \* history: announcements some admitted request asked for
  kept      \* history: dps.report tokens that were stored

vars == <<options, run, stop, secrets, server, asked, kept>>

Errors == {"Timeout", "Busy", "Refused"}
Receipts == {"NotRequested", "Sent", "Failed", "Ambiguous"}
Settled == {"Succeeded", "Retry", "Failed", "Unconfirmed", "Cancelled"}
NoGuild == [guild |-> "None", delivery |-> FALSE]
Logs == {r.log : r \in Requests}
Guilds == {c.guild : c \in Choices} \ {"None"}
Reports == {r.report : r \in Requests}
Keys == Logs \X Guilds \X Reports
NoRecord == [records |-> 0, asked |-> FALSE, state |-> "None", receipt |-> "NotRequested",
             announced |-> 0]
Idle == [pc |-> "New", sent |-> FALSE, arrived |-> FALSE, attempt |-> 0, opt |-> NoGuild,
         token |-> 0, offered |-> 0, id |-> FALSE, now |-> 0, deadline |-> 0,
         out |-> "None", receipt |-> "NotRequested"]

------------------------------------------------------------------------------
(* Common steps. *)
Go(r, pc) == [run EXCEPT ![r].pc = pc, ![r].sent = FALSE]
Settle(r, out) ==
  [run EXCEPT ![r] = [Idle EXCEPT !.pc = "Done", !.out = out, !.attempt = run[r].attempt,
                                  !.opt = run[r].opt, !.offered = run[r].offered]]
Succeed(r, receipt) == [Settle(r, "Succeeded") EXCEPT ![r].receipt = receipt]

(* classify_transport and classify_status. *)
Classified(error) == IF error = "Refused" THEN "Failed" ELSE "Retry"

(* A request goes out, and reaches the service or not. *)
Send(r, at, effect) ==
  /\ run[r].pc = at /\ ~run[r].sent
  /\ \E arrived \in BOOLEAN :
       /\ run' = [run EXCEPT ![r].sent = TRUE, ![r].arrived = arrived]
       /\ server' = IF arrived THEN effect ELSE server
  /\ UNCHANGED <<options, stop, secrets, asked, kept>>

Receive(r, at, next) ==
  /\ run[r].pc = at /\ run[r].sent /\ next
  /\ UNCHANGED <<options, stop, secrets, server, asked, kept>>

Answered(r) == run[r].arrived
Fails(r) == \E e \in Errors : run' = Settle(r, Classified(e))

------------------------------------------------------------------------------
(* dps.report: the token is read, the log posted, and a token that comes back    *)
(* stored before the report is published.                                        *)
LoadToken(r) ==
  /\ run[r].pc = "Token"
  /\ \/ run' = [Go(r, "Upload") EXCEPT ![r].token = secrets.token]
     \/ secrets.open /\ run' = Settle(r, "Failed")
  /\ UNCHANGED <<options, stop, secrets, server, asked, kept>>

(* The service gives a token of its own to an upload, or leaves it. *)
Upload(r) ==
  \E new \in BOOLEAN :
    /\ run[r].pc = "Upload" /\ ~run[r].sent
    /\ \E arrived \in BOOLEAN :
         /\ run' = [run EXCEPT ![r].sent = TRUE, ![r].arrived = arrived,
                               ![r].offered = IF arrived /\ new THEN server.issued + 1 ELSE 0]
         /\ server' = IF ~arrived THEN server
                      ELSE [server EXCEPT !.reports = @ \cup {r.log},
                                          !.issued = IF new THEN @ + 1 ELSE @]
    /\ UNCHANGED <<options, stop, secrets, asked, kept>>

Uploaded(r) ==
  Receive(r, "Upload",
    \/ Fails(r)
    \/ Answered(r) /\ run' = IF run[r].offered > 0 /\ secrets.open THEN Go(r, "Store")
                             ELSE Succeed(r, "NotRequested"))

AfterStore(r, stored) ==
  IF stored THEN Succeed(r, "NotRequested") ELSE Settle(r, "Failed")

StoreToken(r) ==
  /\ run[r].pc = "Store"
  /\ \E stored \in BOOLEAN :
       /\ run' = AfterStore(r, stored)
       /\ secrets' = IF stored THEN [secrets EXCEPT !.token = run[r].offered] ELSE secrets
       /\ kept' = IF stored THEN kept \cup {run[r].offered} ELSE kept
  /\ UNCHANGED <<options, stop, server, asked>>

DpsStep(r) == LoadToken(r) \/ Upload(r) \/ Uploaded(r) \/ StoreToken(r)

------------------------------------------------------------------------------
(* Wingman without a report: the log is posted, its ticket polled, and then its  *)
(* link looked for, each until a deadline.                                       *)
Least(a, b) == IF a < b THEN a ELSE b

(* poll_request: an operation ends by the deadline. *)
PollTime(r) == Least(OperationTime, run[r].deadline - run[r].now)

Post(r) == Send(r, "Post", [server EXCEPT !.wingman = @ \cup {r.log}])

Posted(r) ==
  LET check == [Go(r, "Check") EXCEPT ![r].deadline = run[r].now + CheckTimeout]
      ticket == [Go(r, "TicketWait") EXCEPT ![r].deadline = run[r].now + TicketTimeout]
  IN  Receive(r, "Post", Fails(r) \/ (Answered(r) /\ run' \in {check, ticket, Succeed(r, "NotRequested")}))

(* Mutant: the ticket is polled as long as it is not finished. *)
AfterTicketAgain(r, at) == "Ticket"

(* wait: the next poll, or on to the link when the time is over. *)
AfterTicket(r, at) == IF at < run[r].deadline THEN "Ticket" ELSE "Check"

ToCheck(r, at) ==
  [Go(r, "Check") EXCEPT ![r].now = at, ![r].deadline = at + CheckTimeout]

TicketWait(r) ==
  LET at == Least(run[r].now + TicketInterval, run[r].deadline)
  IN  /\ run[r].pc = "TicketWait"
      /\ run' = IF AfterTicket(r, at) = "Check" THEN ToCheck(r, at)
                ELSE [Go(r, "Ticket") EXCEPT ![r].now = at]
      /\ UNCHANGED <<options, stop, secrets, server, asked, kept>>

TicketPoll(r) ==
  /\ run[r].pc = "Ticket"
  /\ \E time \in 0 .. PollTime(r) :
       LET at == run[r].now + time
           fails == {Settle(r, Classified(e)) : e \in Errors}
       IN  run' \in fails \cup {ToCheck(r, at), [Go(r, "TicketWait") EXCEPT ![r].now = at]}
  /\ UNCHANGED <<options, stop, secrets, server, asked, kept>>

Found(r) == Succeed(r, "NotRequested")

CheckPoll(r) ==
  /\ run[r].pc = "Check"
  /\ IF run[r].now >= run[r].deadline THEN run' = Succeed(r, "NotRequested")
     ELSE \E time \in 0 .. PollTime(r) :
            LET at == run[r].now + time
                fails == {Settle(r, Classified(e)) : e \in Errors}
                again == [Go(r, "Check") EXCEPT
                            ![r].now = Least(at + CheckInterval, run[r].deadline)]
            IN  run' \in fails \cup {Found(r), again}
  /\ UNCHANGED <<options, stop, secrets, server, asked, kept>>

(* With a report: the link is queued, then looked up. *)
Link(r) == Send(r, "Link", [server EXCEPT !.wingman = @ \cup {r.log}])
Linked(r) == Receive(r, "Link", Fails(r) \/ (Answered(r) /\ run' = Go(r, "LinkCheck")))
LinkCheck(r) == Send(r, "LinkCheck", server)
LinkChecked(r) == Receive(r, "LinkCheck", Fails(r) \/ (Answered(r) /\ run' = Found(r)))

WingmanStep(r) ==
  \/ Post(r) \/ Posted(r) \/ TicketWait(r) \/ TicketPoll(r) \/ CheckPoll(r)
  \/ Link(r) \/ Linked(r) \/ LinkCheck(r) \/ LinkChecked(r)

------------------------------------------------------------------------------
(* DonBot. *)
(* The options of the moment the request was admitted. *)
Used(r) == run[r].opt

Requested(r) == Used(r).delivery
Key(r) == <<r.log, Used(r).guild, r.report>>
Record(r) == server.donbot[Key(r)]
NewRecord(r) ==
  [server EXCEPT !.donbot[Key(r)] = [NoRecord EXCEPT !.records = Record(r).records + 1,
     !.asked = Requested(r), !.state = "Pending", !.announced = Record(r).announced]]

(* The worker refuses a receipt that does not answer what was requested. *)
Complete(r, receipt) ==
  IF Requested(r) = (receipt # "NotRequested") THEN Succeed(r, receipt) ELSE Settle(r, "Failed")

LoadKey(r) ==
  /\ run[r].pc = "Key"
  /\ run' \in {Settle(r, "Failed")} \cup
       (IF secrets.open THEN {Go(r, IF r.imported THEN "Import" ELSE "Create")} ELSE {})
  /\ UNCHANGED <<options, stop, secrets, server, asked, kept>>

(* A resumable upload is created; nothing of the log is there yet. *)
Create(r) == Send(r, "Create", server)

Created(r) ==
  Receive(r, "Create",
    \/ Fails(r)
    \/ /\ Answered(r)
       /\ \E id, accepted \in BOOLEAN :
            run' = IF Requested(r) /\ ~(id /\ accepted) THEN Settle(r, "Unconfirmed")
                   ELSE [Go(r, "Patch") EXCEPT ![r].id = id])

(* The bytes go out, unless the file is not the one that was found any more. *)
Patch(r) ==
  \/ Send(r, "Patch", NewRecord(r))
  \/ /\ run[r].pc = "Patch" /\ ~run[r].sent
     /\ run' = Settle(r, "Failed")
     /\ UNCHANGED <<options, stop, secrets, server, asked, kept>>

(* Mutant: an upload that may have been received is tried again. *)
UnconfirmedRetried(error) == Classified(error)

(* unconfirmed: after the bytes have gone out nothing is tried again. *)
Unconfirmed(error) == "Unconfirmed"

Patched(r) ==
  Receive(r, "Patch",
    \/ \E e \in Errors : run' = Settle(r, Unconfirmed(e))
    \/ Answered(r) /\ run' = IF run[r].id THEN Go(r, "Stream") ELSE Complete(r, "NotRequested"))

Stream(r) == Send(r, "Stream", server)

(* Mutant: a stream that ends early counts as an announcement. *)
ProgressEarly(r) == IF Requested(r) THEN Complete(r, "Sent") ELSE Complete(r, "NotRequested")

(* progress: the last event must complete the processing. *)
Progress(r) ==
  IF Record(r).state = "Complete"
  THEN Complete(r, IF Requested(r) THEN Record(r).receipt ELSE "NotRequested")
  ELSE Settle(r, "Failed")

(* The stream is optional unless an announcement was requested. *)
Streamed(r) ==
  Receive(r, "Stream",
    \/ run' = IF Requested(r) THEN Settle(r, "Unconfirmed") ELSE Complete(r, "NotRequested")
    \/ Answered(r) /\ run' \in {Progress(r), Settle(r, "Failed")})

(* The service knows a report it was given before, for the same guild (the key,  *)
(* and with it the account, stays the same).                                     *)
Import(r) == Send(r, "Import", IF Record(r).records > 0 THEN server ELSE NewRecord(r))

Imported(r) ==
  Receive(r, "Import",
    \/ Fails(r)
    \/ Answered(r) /\ run' = IF Requested(r) /\ ~Record(r).asked THEN Settle(r, "Unconfirmed")
                             ELSE IF Record(r).state = "Complete" THEN Progress(r)
                             ELSE Go(r, "Stream"))

DonBotStep(r) ==
  \/ LoadKey(r) \/ Create(r) \/ Created(r) \/ Patch(r) \/ Patched(r) \/ Stream(r) \/ Streamed(r)
  \/ Import(r) \/ Imported(r)

------------------------------------------------------------------------------
(* The workers. *)
Working(r) == run[r].pc \notin {"New", "Done"}

Accepts(r) ==
  CASE r.provider = "DpsReport" -> ~r.imported
    [] r.provider = "Wingman" -> ~r.wvw
    [] r.provider = "DonBot" -> options.guild # "None" /\ r.intent # "Rechat"

(* What the request is processed with is fixed when it is admitted, and only an  *)
(* automatic one may announce.                                                   *)
Captured(r) ==
  CASE r.provider # "DonBot" -> NoGuild
    [] r.provider = "DonBot" /\ r.intent = "Automatic" -> options
    [] OTHER -> [options EXCEPT !.delivery = FALSE]

First(r) ==
  CASE r.provider = "DpsReport" -> "Token"
    [] r.provider = "Wingman" -> IF r.imported THEN "Link" ELSE "Post"
    [] r.provider = "DonBot" -> "Key"

(* The coordinator has one attempt of a destination of a log at a time, and a    *)
(* replay by the user ends the automatic attempts.                               *)
InTurn(r) ==
  \A q \in Requests \ {r} : q.provider = r.provider /\ q.log = r.log =>
    ~Working(q) /\ (r.intent = "Automatic" => run[q].pc = "New")

(* The coordinator dispatches a request, and again after a retry. *)
Enqueue(r) ==
  /\ run[r].pc = "New" \/ run[r].out = "Retry"
  /\ \E round \in Rounds : {r} \cup {q \in Requests : run[q].pc # "New"} \subseteq round
  /\ run[r].attempt < MaxAttempts[r] /\ ~stop /\ Accepts(r) /\ InTurn(r)
  /\ run' = [run EXCEPT ![r] = [Idle EXCEPT !.pc = First(r), !.attempt = run[r].attempt + 1,
                                            !.opt = Captured(r)]]
  /\ asked' = IF r.provider = "DonBot" /\ r.intent = "Automatic" /\ options.delivery
              THEN asked \cup {<<r.log, options.guild, r.report>>} ELSE asked
  /\ UNCHANGED <<options, stop, secrets, server, kept>>

Configure ==
  /\ ~stop /\ options' \in Choices
  /\ UNCHANGED <<run, stop, secrets, server, asked, kept>>

CancelPending ==
  /\ ~stop /\ stop' = TRUE
  /\ UNCHANGED <<options, run, secrets, server, asked, kept>>

(* The stop token is checked before and after every call. *)
ClientStep(r) ==
  /\ Working(r)
  /\ IF stop
     THEN run' = Settle(r, "Cancelled") /\ UNCHANGED <<options, stop, secrets, server, asked, kept>>
     ELSE DpsStep(r) \/ WingmanStep(r) \/ DonBotStep(r)

(* DonBot processes what it received, and announces it if that was asked for. *)
ServiceProcesses ==
  \E k \in Keys :
    /\ server.donbot[k].state = "Pending"
    /\ LET rec == server.donbot[k]
           done(receipt, messages) == [rec EXCEPT !.state = "Complete", !.receipt = receipt,
                                                  !.announced = @ + messages]
       IN  \E result \in {[rec EXCEPT !.state = "Failed"]} \cup
             (IF rec.asked THEN {done("Sent", 1), done("Failed", 0), done("Ambiguous", 0),
                                 done("Ambiguous", 1)}
              ELSE {done("NotRequested", 0)}) :
             server' = [server EXCEPT !.donbot[k] = result]
    /\ UNCHANGED <<options, run, stop, secrets, asked, kept>>

Init ==
  /\ options \in Choices
  /\ run = [r \in Requests |-> Idle] /\ stop = FALSE
  /\ secrets \in [open : BOOLEAN, token : {0}]
  /\ server = [reports |-> {}, issued |-> 0, wingman |-> {},
               donbot |-> [k \in Keys |-> NoRecord]]
  /\ asked = {} /\ kept = {}

Next ==
  \/ \E r \in Requests : Enqueue(r) \/ ClientStep(r)
  \/ Configure \/ CancelPending \/ ServiceProcesses

(* Threads run, a call of the transport ends by its timeout and a wait by its    *)
(* deadline: while requests are worked on, one of them goes on at last.          *)
Spec == Init /\ [][Next]_vars /\ WF_vars(\E r \in Requests : ClientStep(r))

------------------------------------------------------------------------------
(* Properties. *)
(* The state has the shape the code gives it, and a poll of Wingman never starts *)
(* or ends after its deadline: poll_request caps the time of an operation.       *)
ClientTypeOK ==
  /\ \A r \in Requests : LET c == run[r] IN
       /\ c.out \in Settled \cup {"None"} /\ c.receipt \in Receipts
       /\ c.out # "None" <=> c.pc = "Done"
       /\ c.pc \in {"TicketWait", "Ticket", "Check"} => c.now <= c.deadline
       /\ c.token \in kept \cup {0} /\ c.offered \in 0 .. server.issued
  /\ secrets.token \in kept \cup {0}

(* The attempts of an upload leave one record in a guild at most, whichever      *)
(* answers were lost: upload_inner never repeats bytes that may have arrived,    *)
(* and DonBot knows a report that is imported again.  A reupload of the log has  *)
(* a record of its own, but all uploads of a log together are announced once at  *)
(* most in a guild.                                                              *)
DonBotOnce ==
  \A k \in Keys :
    /\ server.donbot[k].records <= 1 /\ server.donbot[k].announced <= 1
    /\ \A j \in Keys :
         server.donbot[k].announced > 0 /\ server.donbot[j].announced > 0
           /\ j[1] = k[1] /\ j[2] = k[2] => j = k

(* What DonBot announces was asked for: automatically, for the upload that asked *)
(* for it, and in the guild that was configured when the request was admitted    *)
(* (DonBotProviderWorker::enqueue).                                              *)
AnnouncedAsAsked ==
  \A k \in Keys :
    server.donbot[k].asked \/ server.donbot[k].announced > 0 => k \in asked

(* A success is real: the service has the log, and an announcement shown as sent *)
(* was made, one shown as failed was not.                                        *)
SuccessIsReal ==
  \A r \in Requests : run[r].out = "Succeeded" =>
    CASE r.provider = "DpsReport" -> r.log \in server.reports
      [] r.provider = "Wingman" -> r.log \in server.wingman
      [] r.provider = "DonBot" ->
           /\ Record(r).records > 0
           /\ run[r].receipt = "Sent" => Record(r).announced > 0
           /\ run[r].receipt = "Failed" => Record(r).announced = 0

(* The token dps.report gave to a published report was stored before             *)
(* (DpsProcessor::upload), so that the next upload belongs to the same user.     *)
TokensAreKept ==
  \A r \in Requests :
    run[r].out = "Succeeded" /\ run[r].offered > 0 /\ secrets.open => run[r].offered \in kept

(* Whatever the services answer the threads come to rest: calls have timeouts    *)
(* and both polls of Wingman a deadline.                                         *)
UploadsEnd == []<>(\A r \in Requests : ~Working(r))

(* DonBot gets an upload once and announces a log where and when it was asked.   *)
DonBotAsAsked == DonBotOnce /\ AnnouncedAsAsked

(* A settled upload says what happened: a success is real and its token kept.    *)
SettledTruthfully == ClientTypeOK /\ SuccessIsReal /\ TokensAreKept
=============================================================================
