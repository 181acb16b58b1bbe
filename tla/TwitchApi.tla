------------------------------ MODULE TwitchApi ------------------------------
(* The Twitch client (src/rust/src/providers/twitch/mod.rs and response.rs)   *)
(* and, external to the repository, the Twitch service it calls.  A session   *)
(* is the generation number of its token pair, 0 is "no session".  Twitch     *)
(* refresh tokens of a public client work once: a refresh that reaches the    *)
(* service ends the refresh token it was given, whatever becomes of the       *)
(* response.  Identities, expiry dates and scopes are folded into the answer  *)
(* "mismatch": a well-formed answer the application must not accept.          *)
EXTENDS Naturals, FiniteSets, Sequences

CONSTANTS
  MaxFaults,  \* unusual answers, unanswered requests and storage failures
  MaxEvents   \* what users, clocks and the process itself do

ASSUME TwitchBounds == MaxFaults \in Nat /\ MaxEvents \in Nat

VARIABLES
  service,     \* [last, live, refreshable]: the service's own record of tokens
  superseded,  \* generations whose replacement has reached this process
  faults,      \* faults so far
  events       \* events so far

apiVars == <<service, superseded, faults, events>>

Operations == {"Start", "Poll", "Validate", "Refresh", "Revoke", "SendChat"}

(* What the transport reports: a 200 with a good body; 401 (400 for a refresh); *)
(* another 4xx; 429 or a connection never made; 408, 5xx or a request cut off  *)
(* after it was sent; a 200 nobody can read; a readable but wrong answer.      *)
Answers == {"done", "unauthorized", "denied", "limited", "lost", "garbled", "mismatch"}

Unread == {"lost", "garbled"}   \* the service may have carried these out

Disposition(op, answer) ==
  CASE answer \in {"done", "mismatch"} -> "Ok"
    [] answer \in {"limited", "lost"} -> "Retry"
    [] answer = "unauthorized" /\ op \in {"Validate", "Refresh", "SendChat"} -> "Reconnect"
    [] answer = "garbled" /\ op = "Validate" -> "Reconnect"
    [] OTHER -> "Failed"

Fault(n) == faults' = faults + n /\ faults' <= MaxFaults
Event == events' = events + 1 /\ events' <= MaxEvents

(* Validation changes nothing at the service. *)
CallValidate(gen, answer) ==
  /\ \/ answer = (IF gen \in service.live THEN "done" ELSE "unauthorized") /\ Fault(0)
     \/ answer \in {"denied", "limited", "lost", "garbled"} /\ Fault(1)
     \/ answer = "mismatch" /\ gen \in service.live /\ Fault(1)
  /\ UNCHANGED <<service, superseded, events>>

Granted(s, gone) ==
  [last        |-> s.last + 1,
   live        |-> s.live \cup {s.last + 1},
   refreshable |-> (s.refreshable \ {gone}) \cup {s.last + 1}]

(* reply is the generation the caller receives, 0 when it receives none. *)
CallRefresh(gen, answer, reply) ==
  /\ \/ /\ gen \in service.refreshable /\ answer = "done" /\ Fault(0)
        /\ service' = Granted(service, gen) /\ reply = service'.last
        /\ superseded' = superseded \cup {gen}
     \/ /\ gen \notin service.refreshable /\ answer = "unauthorized" /\ Fault(0)
        /\ reply = 0 /\ UNCHANGED <<service, superseded>>
     \/ /\ answer \in {"denied", "limited", "lost", "garbled"} /\ Fault(1)
        /\ reply = 0 /\ UNCHANGED <<service, superseded>>
     \/ /\ gen \in service.refreshable /\ answer \in Unread /\ Fault(1)
        /\ reply = 0 /\ service' = Granted(service, gen) /\ UNCHANGED superseded
  /\ UNCHANGED events

(* A device authorization: the user may not have confirmed it yet. *)
CallPoll(answer, reply) ==
  /\ \/ answer = "done" /\ Fault(0) /\ service' = Granted(service, 0) /\ reply = service'.last
     \/ answer \in {"pending", "denied", "limited", "lost", "garbled"} /\ Fault(1)
        /\ reply = 0 /\ UNCHANGED service
  /\ UNCHANGED <<superseded, events>>

CallStart(answer) ==
  /\ \/ answer = "done" /\ Fault(0)
     \/ answer \in {"denied", "limited", "lost", "garbled"} /\ Fault(1)
  /\ UNCHANGED <<service, superseded, events>>

CallRevoke(gen, answer) ==
  /\ \/ answer = "done" /\ Fault(0)
        /\ service' = [service EXCEPT !.live = @ \ {gen}]
     \/ answer \in {"denied", "limited", "lost"} /\ Fault(1) /\ UNCHANGED service
  /\ UNCHANGED <<superseded, events>>

(* delivered: the message has appeared in the chat. *)
CallSendChat(gen, answer, delivered) ==
  /\ \/ gen \in service.live /\ answer = "done" /\ delivered /\ Fault(0)
     \/ gen \notin service.live /\ answer = "unauthorized" /\ ~delivered /\ Fault(0)
     \/ answer \in {"dropped", "denied", "limited"} \cup Unread /\ ~delivered /\ Fault(1)
     \/ gen \in service.live /\ answer \in Unread /\ delivered /\ Fault(1)
  /\ UNCHANGED <<service, superseded, events>>

(* An access token ends: its time is up, or the user withdrew it at Twitch. *)
TokenExpires ==
  /\ Event
  /\ \E gen \in service.live : service' = [service EXCEPT !.live = @ \ {gen}]
  /\ UNCHANGED <<superseded, faults>>
=============================================================================
