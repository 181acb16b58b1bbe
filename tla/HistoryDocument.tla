--------------------------- MODULE HistoryDocument ---------------------------
(* src/rust/src/config/history_json.rs, history_wire.rs and the merge of         *)
(* history_store.rs: how the rows of the upload history become a document and    *)
(* come back.  A row is [path, size, written, detected, job]; a path is a name   *)
(* with the prefix Windows gave it, times are nanoseconds around 1970, the job   *)
(* is UploadJob's.  Text limits, report addresses and JSON syntax are left out:  *)
(* a document that does not parse is torn.                                       *)
EXTENDS UploadJob, Integers, Sequences, FiniteSets

CONSTANTS
  TickNanos,    \* nanoseconds in a tick of a file time, 100 in the code
  MilliNanos,   \* nanoseconds in a millisecond, 1,000,000 in the code
  EpochTicks,   \* ticks from 1601 to 1970
  MaxTicks,     \* i64::MAX in the code
  MaxRecords,   \* rows one save may be handed, 10,000 in the code
  Capacity      \* rows this document holds, 10,000 in the code

ASSUME DocumentConstants ==
  /\ TickNanos \in Nat \ {0} /\ MilliNanos \in Nat \ {0} /\ Capacity \in 1 .. MaxRecords
  /\ EpochTicks \in Nat /\ MaxTicks \in Nat /\ MaxRecords \in Nat

ProviderOrder == <<"DpsReport", "Wingman", "DonBot", "Twitch">>

------------------------------------------------------------------------------
(* Times. *)
Truncated(n, d) == IF n >= 0 THEN n \div d ELSE -((-n) \div d)

(* Mutant: a file time between two ticks is rounded. *)
HasFileTimeRounded(nanos) == Truncated(nanos, TickNanos) + EpochTicks \in 0 .. MaxTicks

(* Rounding would change the identity after a restart. *)
HasFileTime(nanos) ==
  nanos % TickNanos = 0 /\ Truncated(nanos, TickNanos) + EpochTicks \in 0 .. MaxTicks

EncodeFileTime(nanos) == Truncated(nanos, TickNanos) + EpochTicks
DecodeFileTime(ticks) == (ticks - EpochTicks) * TickNanos
EncodeDetectedTime(nanos) == Truncated(nanos, MilliNanos)
DecodeDetectedTime(ms) == ms * MilliNanos

------------------------------------------------------------------------------
(* Paths: \\?\C:\ and \\?\UNC\ are written without the prefix, and an identity   *)
(* does not tell the two apart.                                                  *)
EncodePath(path) == [path EXCEPT !.verbatim = FALSE]
Identity(r) == <<r.path.name, r.size, r.written>>

(* The rows of logs with these names. *)
Rows(names) ==
  [path : [name : names, verbatim : BOOLEAN], size : Nat, written : Int, detected : Int, job : Job]

------------------------------------------------------------------------------
(* Rows. *)
StateCode(state) ==
  CASE state = "Disabled" -> 0 [] state = "Waiting" -> 1 [] state = "Active" -> 2
    [] state = "Succeeded" -> 3 [] state = "Skipped" -> 4 [] state \in ScheduledStates -> 5
    [] state = "Failed" -> 6 [] state = "Cancelled" -> 7

(* No retry deadline is kept. *)
StateOf(code) ==
  CASE code = 0 -> "Disabled" [] code \in {1, 2, 5} -> "Waiting" [] code = 3 -> "Succeeded"
    [] code = 4 -> "Skipped" [] code = 6 -> "Failed" [] code = 7 -> "Cancelled"

ReceiptCodes == <<"None", "Recorded", "Dropped">>
ReceiptCode(receipt) == CHOOSE i \in DOMAIN ReceiptCodes : ReceiptCodes[i] = receipt

ValidRecord(r) == r.size # 0 /\ HasFileTime(r.written)

ValidRecords(rs, limit) ==
  /\ Len(rs) <= limit
  /\ \A i \in DOMAIN rs : ValidRecord(rs[i])
  /\ \A i, j \in DOMAIN rs : Identity(rs[i]) = Identity(rs[j]) => i = j

EncodeRecord(r) ==
  [path |-> EncodePath(r.path), size |-> r.size,
   ticks |-> EncodeFileTime(r.written), ms |-> EncodeDetectedTime(r.detected),
   meta |-> r.job.meta, report |-> r.job.report,
   receipts |-> [p \in DEPENDENTS |-> ReceiptCode(r.job.receipt[p])],
   providers |-> [i \in 1 .. 4 |-> [state |-> StateCode(r.job.st[ProviderOrder[i]]),
                                    attempts |-> r.job.att[ProviderOrder[i]]]]]

At4(p) == CHOOSE i \in 1 .. 4 : ProviderOrder[i] = p

DecodeRecord(wire) ==
  [path |-> wire.path, size |-> wire.size, written |-> DecodeFileTime(wire.ticks),
   detected |-> DecodeDetectedTime(wire.ms),
   job |-> RestoredJob(
     [meta |-> wire.meta,
      st |-> [p \in Providers |-> StateOf(wire.providers[At4(p)].state)],
      att |-> [p \in Providers |-> wire.providers[At4(p)].attempts],
      report |-> wire.report,
      receipt |-> [p \in DEPENDENTS |-> ReceiptCodes[wire.receipts[p]]]])]

------------------------------------------------------------------------------
(* Documents. *)
EncodeHistory(rs) == [i \in DOMAIN rs |-> EncodeRecord(rs[i])]
DecodeHistory(wires) == [i \in DOMAIN wires |-> DecodeRecord(wires[i])]

(* merge_and_save: each row handed in replaces the one of the same identity or   *)
(* goes to the end, and the oldest go when there are too many.                   *)
Put(rs, r) ==
  IF \E i \in DOMAIN rs : Identity(rs[i]) = Identity(r)
  THEN [i \in DOMAIN rs |-> IF Identity(rs[i]) = Identity(r) THEN r ELSE rs[i]]
  ELSE Append(rs, r)

Newest(rs) == SubSeq(rs, IF Len(rs) > Capacity THEN Len(rs) - Capacity + 1 ELSE 1, Len(rs))

MergeRecords(rs, updates) ==
  LET merged[u \in 0 .. Len(updates)] == IF u = 0 THEN rs ELSE Put(merged[u - 1], updates[u])
  IN  Newest(merged[Len(updates)])

(* What the documentation promises of a row after a restart: the same log, with  *)
(* work under way turned into a failure and the detection time in milliseconds.  *)
Reloaded(r) ==
  [r EXCEPT !.path = EncodePath(@), !.job = RestoredJob(@),
            !.detected = Truncated(@, MilliNanos) * MilliNanos]
=============================================================================
