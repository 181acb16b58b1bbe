-------------------------- MODULE AddonStorageProofs ---------------------------
(* Machine-checked proofs about AddonStorage: what settings, secrets and      *)
(* history read as after any failing call and any power failure, for any      *)
(* paths, documents, rows and times, and any number of operations, faults and *)
(* failures.                                                                  *)
EXTENDS AddonStorage, WellFoundedInduction, SequenceTheorems, TLAPS

------------------------------------------------------------------------------
(* What merge_and_save keeps, and how a row comes back from its record. *)

(* A set of natural numbers that has a member has a least one. *)
LEMMA LeastNatural ==
  ASSUME NEW T, T \subseteq Nat, T # {}
  PROVE  \E x \in T : \A y \in T : x <= y
<1> DEFINE R == {ss \in Nat \X Nat : ss[1] < ss[2]}
<1>1. IsWellFoundedOn(R, Nat)
  BY NatLessThanWellFounded, Zenon DEF OpToRel
<1>3. \A x, y \in Nat : <<y, x>> \in R <=> y < x
  BY SMT
<1> HIDE DEF R
<1>2. PICK x \in T : \A y \in T : ~ (<<y, x>> \in R)
  BY <1>1, WFMin, Zenon
<1>4. \A y \in T : ~ (y < x) /\ x \in Nat /\ y \in Nat
  BY <1>2, <1>3, Zenon
<1>5. \A y \in T : x <= y
  BY <1>4, SMT
<1> QED BY <1>5

(* A row that is put among rows, in its place or at the end, gives rows. *)
LEMMA PutKeepsRows ==
  ASSUME NEW R, NEW rs \in Seq(R), NEW r \in R
  PROVE  Put(rs, r) \in Seq(R)
<1>1. CASE \E i \in DOMAIN rs : Identity(rs[i]) = Identity(r)
  <2> DEFINE S == [i \in DOMAIN rs |-> IF Identity(rs[i]) = Identity(r) THEN r ELSE rs[i]]
  <2>1. S \in Seq(R)
     <3>1. DOMAIN rs = 1 .. Len(rs) /\ Len(rs) \in Nat
       OBVIOUS
     <3>2. \A i \in DOMAIN rs : S[i] \in R
       BY <3>1
     <3>3. S \in [1 .. Len(rs) -> R]
       BY <3>1, <3>2
     <3> HIDE DEF S
     <3> QED BY <3>3, <3>1, SeqDef
  <2>2. Put(rs, r) = S
    BY <1>1 DEF Put
  <2> QED BY <2>1, <2>2
<1>2. CASE ~\E i \in DOMAIN rs : Identity(rs[i]) = Identity(r)
  <2>1. Put(rs, r) = Append(rs, r)
    BY <1>2 DEF Put
  <2> QED BY <2>1
<1> QED BY <1>1, <1>2

(* The newest rows are rows: merge drops the oldest ones beyond the capacity. *)
LEMMA NewestKeepsRows ==
  ASSUME NEW R, NEW rs \in Seq(R), Capacity \in Nat
  PROVE  Newest(rs) \in Seq(R)
<1> DEFINE from == IF Len(rs) > Capacity THEN Len(rs) - Capacity + 1 ELSE 1
<1>1. from \in 1 .. Len(rs) + 1
  OBVIOUS
<1>2. \A i \in from .. Len(rs) : rs[i] \in R
  BY <1>1
<1> HIDE DEF from
<1>3. SubSeq(rs, from, Len(rs)) \in Seq(R)
  BY <1>1
<1> QED BY <1>3 DEF Newest, from

(* m is the merge loop: m[u] is what the rows are after u updates. *)
Folded(rs, us, m) == m = [u \in 0 .. Len(us) |-> IF u = 0 THEN rs ELSE Put(m[u - 1], us[u])]

(* merge_and_save keeps the newest of what the loop leaves. *)
LEMMA MergeRecordsUnfolded ==
  ASSUME NEW rs, NEW us
  PROVE  MergeRecords(rs, us) = Newest((CHOOSE m : Folded(rs, us, m))[Len(us)])
BY DEF MergeRecords, Folded

(* The loop has a result for every update, by least counterexample: a first   *)
(* update without one would follow an update that has one.                    *)
LEMMA FoldedExists ==
  ASSUME NEW R, NEW rs \in Seq(R), NEW us \in Seq(R)
  PROVE  \E m : Folded(rs, us, m)
<1> DEFINE Upto(n, m) == m = [u \in 0 .. n |-> IF u = 0 THEN rs ELSE Put(m[u - 1], us[u])]
           Bad == {n \in Nat : ~ \E m : Upto(n, m)}
<1>1. \E m : Upto(0, m)
  <2> DEFINE m == [u \in 0 .. 0 |-> rs]
  <2>1. m = [u \in 0 .. 0 |-> IF u = 0 THEN rs ELSE Put(m[u - 1], us[u])]
    OBVIOUS
  <2>2. Upto(0, m)
    BY <2>1
  <2> QED BY <2>2
<1>2. ASSUME NEW n \in Nat, NEW m, Upto(n, m)
      PROVE  \E l : Upto(n + 1, l)
  <2> DEFINE l == [u \in 0 .. n + 1 |-> IF u = n + 1 THEN Put(m[n], us[n + 1]) ELSE m[u]]
             r == [u \in 0 .. n + 1 |-> IF u = 0 THEN rs ELSE Put(l[u - 1], us[u])]
  <2>1. \A u \in 0 .. n : m[u] = IF u = 0 THEN rs ELSE Put(m[u - 1], us[u])
    BY <1>2
  <2>2. \A u \in 0 .. n : l[u] = m[u]
    OBVIOUS
  <2>3. ASSUME NEW u \in 0 .. n + 1
        PROVE  l[u] = r[u]
    <3>1. CASE u = n + 1
      <4>1. l[u] = Put(m[n], us[n + 1])
        BY <3>1
      <4>2. r[u] = Put(l[n], us[n + 1])
        BY <3>1
      <4>3. l[n] = m[n]
        BY <2>2
      <4> QED BY <4>1, <4>2, <4>3
    <3>2. CASE u \in 1 .. n
      <4>1. l[u] = Put(m[u - 1], us[u])
        BY <2>1, <2>2, <3>2
      <4>2. l[u - 1] = m[u - 1]
        BY <2>2, <3>2
      <4>3. r[u] = Put(l[u - 1], us[u])
        BY <3>2
      <4> QED BY <4>1, <4>2, <4>3
    <3>3. CASE u = 0
      BY <2>1, <2>2, <3>3
    <3> QED BY <3>1, <3>2, <3>3
  <2>4. l = r
    <3> QED BY <2>3
  <2>5. Upto(n + 1, l)
    BY <2>4
  <2> HIDE DEF l, r
  <2> QED BY <2>5
<1>3. Bad = {}
  <2> SUFFICES ASSUME Bad # {} PROVE FALSE
    OBVIOUS
  <2>1. PICK x \in Bad : \A y \in Bad : x <= y
    <3>1. Bad \subseteq Nat
      OBVIOUS
    <3> HIDE DEF Bad
    <3> QED BY <3>1, LeastNatural
  <2>2. x \in Nat /\ ~ \E m : Upto(x, m)
    OBVIOUS
  <2> HIDE DEF Upto
  <2>3. x # 0
    BY <2>2, <1>1
  <2>4. x - 1 \in Nat /\ x - 1 \notin Bad
    <3>1. x - 1 \in Nat /\ ~ (x <= x - 1)
      BY <2>2, <2>3
    <3> HIDE DEF Bad
    <3> QED BY <3>1, <2>1
  <2>5. PICK m : Upto(x - 1, m)
    BY <2>4
  <2>6. \E l : Upto((x - 1) + 1, l)
    BY <2>4, <2>5, <1>2
  <2>7. (x - 1) + 1 = x
    BY <2>2
  <2> QED BY <2>2, <2>6, <2>7
<1>4. Len(us) \in Nat
  OBVIOUS
<1> HIDE DEF Upto
<1>5. \E m : Upto(Len(us), m)
  BY <1>3, <1>4
<1> QED BY <1>5 DEF Upto, Folded

(* Each turn of the loop leaves rows, again by least counterexample. *)
LEMMA FoldedKeepsRows ==
  ASSUME NEW R, NEW rs \in Seq(R), NEW us \in Seq(R), NEW m, Folded(rs, us, m)
  PROVE  m[Len(us)] \in Seq(R)
<1> DEFINE n == Len(us)
           Bad == {u \in 0 .. n : m[u] \notin Seq(R)}
<1>1. n \in Nat /\ \A u \in 1 .. n : us[u] \in R
  OBVIOUS
<1>2. m[0] = rs /\ \A u \in 1 .. n : m[u] = Put(m[u - 1], us[u])
  BY <1>1 DEF Folded
<1> HIDE DEF n
<1>3. Bad = {}
  <2> SUFFICES ASSUME Bad # {} PROVE FALSE
    OBVIOUS
  <2>1. PICK x \in Bad : \A y \in Bad : x <= y
    <3>1. Bad \subseteq Nat
      BY <1>1
    <3> HIDE DEF Bad
    <3> QED BY <3>1, LeastNatural
  <2>2. x \in 0 .. n /\ m[x] \notin Seq(R)
    OBVIOUS
  <2>3. x # 0
    BY <2>2, <1>2
  <2>4. x - 1 \in 0 .. n /\ x \in 1 .. n /\ ~ (x <= x - 1)
    BY <2>2, <2>3, <1>1
  <2>5. m[x - 1] \in Seq(R)
    BY <2>4, <2>1
  <2> QED BY <2>5, <2>4, <2>2, <1>1, <1>2, PutKeepsRows
<1> QED BY <1>3, <1>1 DEF n

(* merge_and_save turns rows and rows into rows, whatever their number. *)
THEOREM MergeKeepsRows ==
  ASSUME NEW R, NEW rs \in Seq(R), NEW us \in Seq(R), Capacity \in Nat
  PROVE  MergeRecords(rs, us) \in Seq(R)
<1> DEFINE m == CHOOSE f : Folded(rs, us, f)
<1>1. Folded(rs, us, m)
  BY FoldedExists, Zenon
<1>2. MergeRecords(rs, us) = Newest(m[Len(us)])
  BY MergeRecordsUnfolded
<1> HIDE DEF m
<1>3. m[Len(us)] \in Seq(R)
  BY <1>1, FoldedKeepsRows
<1> QED BY <1>2, <1>3, NewestKeepsRows

(* Division with remainder, as the provers need it stated. *)
LEMMA Quotients ==
  ASSUME NEW n \in Int, NEW d \in Nat \ {0}
  PROVE  /\ n \div d \in Int /\ n % d \in 0 .. d - 1
         /\ n = d * (n \div d) + (n % d)
         /\ n >= 0 => n \div d >= 0
<1>1. n \div d \in Int /\ n % d \in 0 .. d - 1 /\ n = d * (n \div d) + (n % d)
  BY Z3
<1>2. n >= 0 => n \div d >= 0
  BY <1>1, Z3
<1> QED BY <1>1, <1>2

(* Zero is the only multiple of d nearer to zero than d. *)
LEMMA OnlyMultiple ==
  ASSUME NEW d \in Nat \ {0}, NEW x \in Int, d * x \in -(d - 1) .. d - 1
  PROVE  x = 0
<1>1. CASE x >= 1
  <2>1. d * x >= d
    BY <1>1, Z3
  <2> QED BY <2>1
<1>2. CASE x <= -1
  <2>1. d * x <= -d
    BY <1>2, Z3
  <2> QED BY <2>1
<1> QED BY <1>1, <1>2

(* Multiplication distributes over a difference. *)
LEMMA Distributes ==
  ASSUME NEW a \in Int, NEW b \in Int, NEW d \in Int
  PROVE  d * (a - b) = d * a - d * b
BY Z3

(* Dividing a multiple gives back the factor. *)
LEMMA QuotientOfMultiple ==
  ASSUME NEW q \in Int, NEW d \in Nat \ {0}
  PROVE  (d * q) \div d = q /\ (d * q) % d = 0
<1> DEFINE n == d * q
           k == n \div d
           r == n % d
<1>1. n \in Int
  BY Z3
<1>2. k \in Int /\ r \in 0 .. d - 1 /\ n = d * k + r
  BY <1>1, Quotients
<1> HIDE DEF k, r
<1>3. d * (q - k) = d * q - d * k
  BY <1>2, Distributes
<1>4. d * (q - k) = r
  BY <1>2, <1>3
<1>5. q - k = 0
  BY <1>2, <1>4, OnlyMultiple
<1>6. r = 0
  BY <1>4, <1>5, <1>2
<1> QED BY <1>5, <1>6, <1>2 DEF k, r

(* A multiple stays one under negation, and so does its quotient. *)
LEMMA NegativeRemainder ==
  ASSUME NEW n \in Int, NEW d \in Nat \ {0}, n % d = 0
  PROVE  (-n) % d = 0 /\ (-n) \div d = -(n \div d)
<1> DEFINE k == n \div d
<1>1. k \in Int /\ n = d * k
  BY Quotients
<1>2. -n = d * (-k)
  BY <1>1, Z3
<1>3. -k \in Int
  BY <1>1
<1>4. (d * (-k)) \div d = -k /\ (d * (-k)) % d = 0
  BY <1>3, QuotientOfMultiple
<1> QED BY <1>2, <1>4

(* Division that rounds towards zero gives an integer. *)
LEMMA TruncatedInt ==
  ASSUME NEW n \in Int, NEW d \in Nat \ {0}
  PROVE  Truncated(n, d) \in Int
<1>1. n \div d \in Int /\ (-n) \div d \in Int
  BY Quotients
<1> QED BY <1>1 DEF Truncated

(* A time that is a multiple of the unit is not changed by the unit. *)
LEMMA TruncatedMultiple ==
  ASSUME NEW n \in Int, NEW d \in Nat \ {0}, n % d = 0
  PROVE  Truncated(n, d) * d = n
<1>1. n \div d \in Int /\ n = d * (n \div d)
  BY Quotients
<1>2. Truncated(n, d) = n \div d
  <2>1. (-n) \div d = -(n \div d)
    BY NegativeRemainder
  <2>2. n < 0 => Truncated(n, d) = -(-(n \div d))
    BY <2>1 DEF Truncated
  <2>3. n >= 0 => Truncated(n, d) = n \div d
    BY DEF Truncated
  <2> QED BY <2>2, <2>3, <1>1
<1>3. (n \div d) * d = d * (n \div d)
  BY <1>1
<1> QED BY <1>1, <1>2, <1>3

(* Rounding to a unit twice is rounding to it once. *)
LEMMA TruncatedTwice ==
  ASSUME NEW n \in Int, NEW d \in Nat \ {0}
  PROVE  LET t == Truncated(n, d) * d IN t \in Int /\ Truncated(t, d) * d = t
<1> DEFINE q == Truncated(n, d)
           t == q * d
<1>1. q \in Int
  BY TruncatedInt
<1>2. t \in Int /\ t = d * q
  BY <1>1
<1>3. t % d = 0
  BY <1>1, <1>2, QuotientOfMultiple
<1> HIDE DEF t
<1> QED BY <1>2, <1>3, TruncatedMultiple DEF t

(* What each code of a provider state is read as. *)
LEMMA DecodedStates ==
  /\ StateOf(0) = "Disabled"
  /\ StateOf(1) = "Waiting"
  /\ StateOf(2) = "Waiting"
  /\ StateOf(3) = "Succeeded"
  /\ StateOf(4) = "Skipped"
  /\ StateOf(5) = "Waiting"
  /\ StateOf(6) = "Failed"
  /\ StateOf(7) = "Cancelled"
<1>1. StateOf(0) = "Disabled"
  <2>1. 0 # 3 /\ 0 # 4 /\ 0 # 6 /\ 0 # 7 /\ 0 \notin {1, 2, 5}
    OBVIOUS
  <2> QED BY <2>1, Zenon DEF StateOf
<1>2. StateOf(1) = "Waiting"
  <2>1. 1 # 0 /\ 1 # 3 /\ 1 # 4 /\ 1 # 6 /\ 1 # 7 /\ 1 \in {1, 2, 5}
    OBVIOUS
  <2> QED BY <2>1, Zenon DEF StateOf
<1>3. StateOf(2) = "Waiting"
  <2>1. 2 # 0 /\ 2 # 3 /\ 2 # 4 /\ 2 # 6 /\ 2 # 7 /\ 2 \in {1, 2, 5}
    OBVIOUS
  <2> QED BY <2>1, Zenon DEF StateOf
<1>4. StateOf(3) = "Succeeded"
  <2>1. 3 # 0 /\ 3 # 4 /\ 3 # 6 /\ 3 # 7 /\ 3 \notin {1, 2, 5}
    OBVIOUS
  <2> QED BY <2>1, Zenon DEF StateOf
<1>5. StateOf(4) = "Skipped"
  <2>1. 4 # 0 /\ 4 # 3 /\ 4 # 6 /\ 4 # 7 /\ 4 \notin {1, 2, 5}
    OBVIOUS
  <2> QED BY <2>1, Zenon DEF StateOf
<1>6. StateOf(5) = "Waiting"
  <2>1. 5 # 0 /\ 5 # 3 /\ 5 # 4 /\ 5 # 6 /\ 5 # 7 /\ 5 \in {1, 2, 5}
    OBVIOUS
  <2> QED BY <2>1, Zenon DEF StateOf
<1>7. StateOf(6) = "Failed"
  <2>1. 6 # 0 /\ 6 # 3 /\ 6 # 4 /\ 6 # 7 /\ 6 \notin {1, 2, 5}
    OBVIOUS
  <2> QED BY <2>1, Zenon DEF StateOf
<1>8. StateOf(7) = "Cancelled"
  <2>1. 7 # 0 /\ 7 # 3 /\ 7 # 4 /\ 7 # 6 /\ 7 \notin {1, 2, 5}
    OBVIOUS
  <2> QED BY <2>1, Zenon DEF StateOf
<1> QED BY <1>1, <1>2, <1>3, <1>4, <1>5, <1>6, <1>7, <1>8

(* A provider state comes back from its code; work under way comes back as    *)
(* waiting.                                                                   *)
LEMMA StateCodes ==
  ASSUME NEW s \in States
  PROVE  StateOf(StateCode(s)) = IF s \in BusyStates THEN "Waiting" ELSE s
<1>1. CASE s = "Disabled"
  <2>1. StateCode(s) = 0
    BY <1>1, Zenon DEF StateCode, ScheduledStates
  <2>2. s \notin BusyStates
    BY <1>1 DEF BusyStates, ScheduledStates
  <2> QED BY <2>1, <2>2, <1>1, DecodedStates
<1>2. CASE s = "Waiting"
  <2>1. StateCode(s) = 1
    BY <1>2, Zenon DEF StateCode, ScheduledStates
  <2>2. s \in BusyStates
    BY <1>2 DEF BusyStates, ScheduledStates
  <2> QED BY <2>1, <2>2, <1>2, DecodedStates
<1>3. CASE s = "Active"
  <2>1. StateCode(s) = 2
    BY <1>3, Zenon DEF StateCode, ScheduledStates
  <2>2. s \in BusyStates
    BY <1>3 DEF BusyStates, ScheduledStates
  <2> QED BY <2>1, <2>2, <1>3, DecodedStates
<1>4. CASE s = "Succeeded"
  <2>1. StateCode(s) = 3
    BY <1>4, Zenon DEF StateCode, ScheduledStates
  <2>2. s \notin BusyStates
    BY <1>4 DEF BusyStates, ScheduledStates
  <2> QED BY <2>1, <2>2, <1>4, DecodedStates
<1>5. CASE s = "Skipped"
  <2>1. StateCode(s) = 4
    BY <1>5, Zenon DEF StateCode, ScheduledStates
  <2>2. s \notin BusyStates
    BY <1>5 DEF BusyStates, ScheduledStates
  <2> QED BY <2>1, <2>2, <1>5, DecodedStates
<1>6. CASE s = "RetryScheduled"
  <2>1. StateCode(s) = 5
    BY <1>6, Zenon DEF StateCode, ScheduledStates
  <2>2. s \in BusyStates
    BY <1>6 DEF BusyStates, ScheduledStates
  <2> QED BY <2>1, <2>2, <1>6, DecodedStates
<1>7. CASE s = "RetryDue"
  <2>1. StateCode(s) = 5
    BY <1>7, Zenon DEF StateCode, ScheduledStates
  <2>2. s \in BusyStates
    BY <1>7 DEF BusyStates, ScheduledStates
  <2> QED BY <2>1, <2>2, <1>7, DecodedStates
<1>8. CASE s = "Failed"
  <2>1. StateCode(s) = 6
    BY <1>8, Zenon DEF StateCode, ScheduledStates
  <2>2. s \notin BusyStates
    BY <1>8 DEF BusyStates, ScheduledStates
  <2> QED BY <2>1, <2>2, <1>8, DecodedStates
<1>9. CASE s = "Cancelled"
  <2>1. StateCode(s) = 7
    BY <1>9, Zenon DEF StateCode, ScheduledStates
  <2>2. s \notin BusyStates
    BY <1>9 DEF BusyStates, ScheduledStates
  <2> QED BY <2>1, <2>2, <1>9, DecodedStates
<1> QED BY <1>1, <1>2, <1>3, <1>4, <1>5, <1>6, <1>7, <1>8, <1>9 DEF States, BusyStates, ScheduledStates

(* The four providers and the receipts have a code each, and come back from   *)
(* it.                                                                        *)
LEMMA Codes ==
  /\ \A p \in Providers : At4(p) \in 1 .. 4 /\ ProviderOrder[At4(p)] = p
  /\ \A c \in Receipts : ReceiptCodes[ReceiptCode(c)] = c
<1>1. ASSUME NEW p \in Providers
      PROVE  At4(p) \in 1 .. 4 /\ ProviderOrder[At4(p)] = p
  <2>1. \E i \in 1 .. 4 : ProviderOrder[i] = p
    <3>1. ProviderOrder[1] = "DpsReport" /\ ProviderOrder[2] = "Wingman"
          /\ ProviderOrder[3] = "DonBot" /\ ProviderOrder[4] = "Twitch"
      BY DEF ProviderOrder
    <3>2. 1 \in 1 .. 4 /\ 2 \in 1 .. 4 /\ 3 \in 1 .. 4 /\ 4 \in 1 .. 4
      OBVIOUS
    <3> QED BY <3>1, <3>2, Zenon DEF Providers
  <2> QED BY <2>1, Zenon DEF At4
<1>2. ASSUME NEW c \in Receipts
      PROVE  ReceiptCodes[ReceiptCode(c)] = c
  <2>1. \E i \in DOMAIN ReceiptCodes : ReceiptCodes[i] = c
    <3>1. ReceiptCodes[1] = "None" /\ ReceiptCodes[2] = "Recorded" /\ ReceiptCodes[3] = "Dropped"
      BY DEF ReceiptCodes
    <3>2. 1 \in DOMAIN ReceiptCodes /\ 2 \in DOMAIN ReceiptCodes /\ 3 \in DOMAIN ReceiptCodes
      BY DEF ReceiptCodes
    <3> QED BY <3>1, <3>2, Zenon DEF Receipts
  <2> QED BY <2>1, Zenon DEF ReceiptCode
<1> QED BY <1>1, <1>2

(* A job comes back as a restart leaves it. *)
LEMMA JobReadsBack ==
  ASSUME NEW r, r.job \in Job
  PROVE  DecodeRecord(EncodeRecord(r)).job = RestoredJob(r.job)
<1> DEFINE w == EncodeRecord(r)
           d == [meta |-> w.meta,
                 st |-> [p \in Providers |-> StateOf(w.providers[At4(p)].state)],
                 att |-> [p \in Providers |-> w.providers[At4(p)].attempts],
                 report |-> w.report,
                 receipt |-> [p \in DEPENDENTS |-> ReceiptCodes[w.receipts[p]]]]
           j == r.job
<1>1. DecodeRecord(w).job = RestoredJob(d)
  BY DEF DecodeRecord
<1>2. /\ w.meta = j.meta /\ w.report = j.report
      /\ w.receipts = [p \in DEPENDENTS |-> ReceiptCode(j.receipt[p])]
      /\ w.providers = [i \in 1 .. 4 |-> [state |-> StateCode(j.st[ProviderOrder[i]]),
                                           attempts |-> j.att[ProviderOrder[i]]]]
  BY DEF EncodeRecord
<1>j. /\ j = [meta |-> j.meta, st |-> j.st, att |-> j.att, report |-> j.report, receipt |-> j.receipt]
      /\ j.st \in [Providers -> States] /\ j.att = [p \in Providers |-> j.att[p]]
      /\ j.receipt \in [DEPENDENTS -> Receipts]
  BY DEF Job
<1> HIDE DEF w, j
<1>3. \A p \in Providers : w.providers[At4(p)].state = StateCode(j.st[p])
                           /\ w.providers[At4(p)].attempts = j.att[p]
  BY <1>2, Codes
<1>4. d.att = j.att /\ d.meta = j.meta /\ d.report = j.report
  BY <1>2, <1>3, <1>j
<1>5. d.receipt = j.receipt
  <2>1. \A p \in DEPENDENTS : d.receipt[p] = j.receipt[p]
    <3> TAKE p \in DEPENDENTS
    <3>1. d.receipt[p] = ReceiptCodes[ReceiptCode(j.receipt[p])]
      BY <1>2
    <3>2. j.receipt[p] \in Receipts
      BY <1>j
    <3> QED BY <3>1, <3>2, Codes
  <2>2. d.receipt = [p \in DEPENDENTS |-> d.receipt[p]] /\ j.receipt = [p \in DEPENDENTS |-> j.receipt[p]]
    BY <1>j
  <2> HIDE DEF d
  <2> QED BY <2>1, <2>2
<1>6. \A p \in Providers : /\ j.st[p] \in States
                           /\ d.st[p] = IF j.st[p] \in BusyStates THEN "Waiting" ELSE j.st[p]
  <2> TAKE p \in Providers
  <2>1. d.st[p] = StateOf(StateCode(j.st[p])) /\ j.st[p] \in States
    BY <1>3, <1>j
  <2> QED BY <2>1, StateCodes
<1>7. "Waiting" \in BusyStates
  BY DEF BusyStates
<1> DEFINE Settled(q) == [p \in Providers |-> IF q.st[p] \in BusyStates THEN "Failed" ELSE q.st[p]]
<1>8. Settled(d) = Settled(j)
  <2>1. \A p \in Providers : (IF d.st[p] \in BusyStates THEN "Failed" ELSE d.st[p])
                             = (IF j.st[p] \in BusyStates THEN "Failed" ELSE j.st[p])
    <3> HIDE DEF d
    <3> QED BY <1>6, <1>7
  <2> HIDE DEF d
  <2> QED BY <2>1
<1>9. RestoredJob(d) = [meta |-> d.meta, st |-> Settled(d), att |-> d.att, report |-> d.report,
                        receipt |-> d.receipt]
  <2> DEFINE t == Settled(d)
  <2>1. RestoredJob(d) = [d EXCEPT !.st = t]
    BY DEF RestoredJob
  <2>2. d = [meta |-> d.meta, st |-> d.st, att |-> d.att, report |-> d.report,
             receipt |-> d.receipt]
    OBVIOUS
  <2> HIDE DEF t, d
  <2>3. [d EXCEPT !.st = t] = [meta |-> d.meta, st |-> t, att |-> d.att, report |-> d.report,
                               receipt |-> d.receipt]
    BY <2>2
  <2> QED BY <2>1, <2>3 DEF t
<1>10. RestoredJob(j) = [meta |-> j.meta, st |-> Settled(j), att |-> j.att, report |-> j.report,
                         receipt |-> j.receipt]
  <2> DEFINE t == Settled(j)
  <2>1. RestoredJob(j) = [j EXCEPT !.st = t]
    BY DEF RestoredJob
  <2> HIDE DEF t
  <2>2. [j EXCEPT !.st = t] = [meta |-> j.meta, st |-> t, att |-> j.att, report |-> j.report,
                               receipt |-> j.receipt]
    BY <1>j
  <2> QED BY <2>1, <2>2 DEF t
<1> HIDE DEF d, Settled
<1> QED BY <1>1, <1>4, <1>5, <1>8, <1>9, <1>10 DEF w, j

(* A second restart changes nothing more in a job. *)
LEMMA RestoredTwice ==
  ASSUME NEW j \in Job
  PROVE  RestoredJob(j) \in Job /\ RestoredJob(RestoredJob(j)) = RestoredJob(j)
<1> DEFINE st == [p \in Providers |-> IF j.st[p] \in BusyStates THEN "Failed" ELSE j.st[p]]
           k == [j EXCEPT !.st = st]
<1>1. RestoredJob(j) = k
  BY DEF RestoredJob
<1>2. "Failed" \in States /\ "Failed" \notin BusyStates
  BY DEF States, BusyStates, ScheduledStates
<1>3. st \in [Providers -> States] /\ \A p \in Providers : st[p] \notin BusyStates
  <2>1. j.st \in [Providers -> States]
    BY DEF Job
  <2> QED BY <1>2, <2>1
<1> HIDE DEF st
<1>4. k \in Job /\ k.st = st
  BY <1>3 DEF Job
<1> HIDE DEF k
<1>5. [p \in Providers |-> IF k.st[p] \in BusyStates THEN "Failed" ELSE k.st[p]] = st
  BY <1>3, <1>4
<1>6. [k EXCEPT !.st = st] = k
  BY <1>4 DEF Job
<1>7. RestoredJob(k) = k
  BY <1>5, <1>6 DEF RestoredJob
<1> QED BY <1>1, <1>4, <1>7

(* The fields of a row after a restart. *)
LEMMA ReloadedFields ==
  ASSUME NEW N, NEW r \in Rows(N)
  PROVE  Reloaded(r) = [path |-> EncodePath(r.path), size |-> r.size, written |-> r.written,
                        detected |-> Truncated(r.detected, MilliNanos) * MilliNanos,
                        job |-> RestoredJob(r.job)]
<1> DEFINE t == Truncated(r.detected, MilliNanos) * MilliNanos
           q == EncodePath(r.path)
           k == RestoredJob(r.job)
           e == [path |-> q, size |-> r.size, written |-> r.written, detected |-> t, job |-> k]
<1>1. /\ r.path \in [name : N, verbatim : BOOLEAN] /\ r.size \in Nat /\ r.written \in Int
      /\ r.detected \in Int /\ r.job \in Job
      /\ r = [path |-> r.path, size |-> r.size, written |-> r.written, detected |-> r.detected,
              job |-> r.job]
  BY DEF Rows
<1>5. Reloaded(r) = [r EXCEPT !.path = q, !.job = k, !.detected = t]
  BY DEF Reloaded
<1> HIDE DEF t, q, k
<1>6. Reloaded(r) = e
  BY <1>5, <1>1
<1> QED BY <1>6 DEF t, q, k

(* A row with a file time that can be written comes back from its record: the *)
(* same log, its job as a restart leaves it, its detection time in            *)
(* milliseconds.                                                              *)
LEMMA RowReadsBack ==
  ASSUME NEW N, NEW r \in Rows(N), HasFileTime(r.written), DocumentConstants
  PROVE  DecodeRecord(EncodeRecord(r)) = Reloaded(r)
<1> DEFINE w == EncodeRecord(r)
           d == DecodeRecord(w)
           e == Reloaded(r)
<1>1. /\ d = [path |-> d.path, size |-> d.size, written |-> d.written, detected |-> d.detected,
              job |-> d.job]
      /\ d.path = w.path /\ d.size = w.size /\ d.written = DecodeFileTime(w.ticks)
      /\ d.detected = DecodeDetectedTime(w.ms)
  BY DEF DecodeRecord
<1>2. /\ w.path = EncodePath(r.path) /\ w.size = r.size /\ w.ticks = EncodeFileTime(r.written)
      /\ w.ms = EncodeDetectedTime(r.detected)
  BY DEF EncodeRecord
<1>3. d.job = RestoredJob(r.job)
  BY JobReadsBack DEF Rows
<1>4. /\ r.path \in [name : N, verbatim : BOOLEAN] /\ r.size \in Nat /\ r.written \in Int
      /\ r.detected \in Int /\ r.job \in Job
      /\ r = [path |-> r.path, size |-> r.size, written |-> r.written, detected |-> r.detected,
              job |-> r.job]
  BY DEF Rows
<1>5. DecodeFileTime(EncodeFileTime(r.written)) = r.written
  <2> DEFINE t == Truncated(r.written, TickNanos)
  <2>1. TickNanos \in Nat \ {0} /\ EpochTicks \in Nat /\ r.written % TickNanos = 0
    BY DEF DocumentConstants, HasFileTime
  <2>2. t \in Int /\ t * TickNanos = r.written
    BY <2>1, <1>4, TruncatedInt, TruncatedMultiple
  <2> HIDE DEF t
  <2>3. (t + EpochTicks) - EpochTicks = t
    BY <2>1, <2>2
  <2> QED BY <2>2, <2>3 DEF DecodeFileTime, EncodeFileTime, t
<1>6. d.detected = Truncated(r.detected, MilliNanos) * MilliNanos
  BY <1>1, <1>2 DEF DecodeDetectedTime, EncodeDetectedTime
<1> DEFINE t == Truncated(r.detected, MilliNanos) * MilliNanos
           q == EncodePath(r.path)
           k == RestoredJob(r.job)
<1>7. Reloaded(r) = [path |-> q, size |-> r.size, written |-> r.written, detected |-> t, job |-> k]
  BY ReloadedFields
<1> HIDE DEF t, q, k
<1> HIDE DEF d, w
<1>9. d.path = q /\ d.size = r.size /\ d.written = r.written /\ d.detected = t /\ d.job = k
  BY <1>1, <1>2, <1>3, <1>5, <1>6 DEF t, q, k
<1>10. d = [path |-> q, size |-> r.size, written |-> r.written, detected |-> t, job |-> k]
  BY <1>1, <1>9
<1> QED BY <1>7, <1>10 DEF d, w

(* A second restart changes nothing more in a row. *)
LEMMA ReloadedTwice ==
  ASSUME NEW N, NEW r \in Rows(N), DocumentConstants
  PROVE  Reloaded(r) \in Rows(N) /\ Reloaded(Reloaded(r)) = Reloaded(r)
<1> DEFINE t == Truncated(r.detected, MilliNanos) * MilliNanos
           q == EncodePath(r.path)
           k == RestoredJob(r.job)
           e == [path |-> q, size |-> r.size, written |-> r.written, detected |-> t, job |-> k]
<1>1. /\ r.path \in [name : N, verbatim : BOOLEAN] /\ r.size \in Nat /\ r.written \in Int
      /\ r.detected \in Int /\ r.job \in Job
      /\ r = [path |-> r.path, size |-> r.size, written |-> r.written, detected |-> r.detected,
              job |-> r.job]
  BY DEF Rows
<1>2. t \in Int /\ Truncated(t, MilliNanos) * MilliNanos = t
  BY <1>1, TruncatedTwice DEF DocumentConstants
<1>3. q \in [name : N, verbatim : BOOLEAN] /\ EncodePath(q) = q
  BY <1>1 DEF EncodePath
<1>4. k \in Job /\ RestoredJob(k) = k
  BY <1>1, RestoredTwice
<1>6. Reloaded(r) = e
  BY ReloadedFields
<1> HIDE DEF t, q, k
<1>7. e \in Rows(N)
  BY <1>1, <1>2, <1>3, <1>4 DEF Rows
<1>8. Reloaded(e) = [e EXCEPT !.path = q, !.job = k, !.detected = t]
  <2>1. e.path = q /\ e.job = k /\ e.detected = t
    OBVIOUS
  <2> HIDE DEF e
  <2> QED BY <2>1, <1>2, <1>3, <1>4 DEF Reloaded
<1>9. [e EXCEPT !.path = q, !.job = k, !.detected = t] = e
  <2>1. e.path = q /\ e.job = k /\ e.detected = t
    OBVIOUS
  <2> HIDE DEF e
  <2> QED BY <2>1, <1>7 DEF Rows
<1> QED BY <1>6, <1>7, <1>8, <1>9

(* The rows of a history after a restart. *)
ReloadedRows(rs) == [i \in DOMAIN rs |-> Reloaded(rs[i])]

(* A history that may be saved comes back from its document as a restart      *)
(* leaves it, and from then on unchanged: for every number of rows and every  *)
(* time they carry.                                                           *)
THEOREM HistoryReads ==
  ASSUME NEW N, NEW rs \in Seq(Rows(N)), ValidRecords(rs, Capacity), DocumentConstants
  PROVE  /\ DecodeHistory(EncodeHistory(rs)) = ReloadedRows(rs)
         /\ ReloadedRows(rs) \in Seq(Rows(N)) /\ Len(ReloadedRows(rs)) <= Capacity
         /\ ReloadedRows(ReloadedRows(rs)) = ReloadedRows(rs)
<1> DEFINE S == ReloadedRows(rs)
           R == Rows(N)
           W == EncodeHistory(rs)
<1>1. Len(rs) \in Nat /\ DOMAIN rs = 1 .. Len(rs) /\ \A i \in 1 .. Len(rs) : rs[i] \in R
  OBVIOUS
<1>2. Len(rs) <= Capacity /\ \A i \in DOMAIN rs : HasFileTime(rs[i].written)
  BY DEF ValidRecords, ValidRecord
<1>3. DOMAIN S = DOMAIN rs /\ \A i \in DOMAIN rs : S[i] = Reloaded(rs[i])
  BY DEF ReloadedRows
<1>4. \A i \in DOMAIN rs : S[i] \in R /\ Reloaded(S[i]) = S[i]
  BY <1>1, <1>3, ReloadedTwice
<1>5. S = [i \in 1 .. Len(rs) |-> S[i]]
  BY <1>1 DEF ReloadedRows
<1> HIDE DEF S, R
<1>6. S \in [1 .. Len(rs) -> R]
  BY <1>5, <1>4, <1>1
<1>7. S \in Seq(R)
  BY <1>6, <1>1, SeqDef
<1>8. Len(S) = Len(rs)
  BY <1>7, <1>3, <1>1, LenProperties
<1>9. ReloadedRows(S) = S
  <2>1. ReloadedRows(S) = [i \in 1 .. Len(rs) |-> Reloaded(S[i])]
    BY <1>3, <1>1 DEF ReloadedRows
  <2>2. [i \in 1 .. Len(rs) |-> Reloaded(S[i])] = [i \in 1 .. Len(rs) |-> S[i]]
    BY <1>4, <1>1
  <2> QED BY <2>1, <2>2, <1>5
<1>10. W = [i \in 1 .. Len(rs) |-> EncodeRecord(rs[i])] /\ DOMAIN W = 1 .. Len(rs)
  BY <1>1 DEF EncodeHistory
<1>11. DecodeHistory(W) = [i \in 1 .. Len(rs) |-> DecodeRecord(EncodeRecord(rs[i]))]
  BY <1>10 DEF DecodeHistory
<1>12. \A i \in 1 .. Len(rs) : DecodeRecord(EncodeRecord(rs[i])) = Reloaded(rs[i])
  BY <1>1, <1>2, RowReadsBack DEF R
<1>13. DecodeHistory(W) = S
  <2>1. [i \in 1 .. Len(rs) |-> DecodeRecord(EncodeRecord(rs[i]))]
        = [i \in 1 .. Len(rs) |-> Reloaded(rs[i])]
    BY <1>12
  <2> QED BY <2>1, <1>11, <1>1 DEF S, ReloadedRows
<1> QED BY <1>13, <1>7, <1>8, <1>2, <1>9 DEF S, R

------------------------------------------------------------------------------
(* One file: what each step of a write or a removal leaves, and what a power  *)
(* failure does.                                                              *)

(* The documents the stores write, and the rows a history may be saved with. *)
SettingsDocuments == {SettingsDocument(s) : s \in Settings}
SecretRecords == {SecretRecord(id, v) : id \in SecretIds, v \in SecretValues}
Saved == {rs \in Seq(Rows(Names)) : ValidRecords(rs, Capacity)}
HistoryOf(rs) == Document("history", EncodeHistory(rs))

(* The documents a path may hold, and its contents with nothing and torn      *)
(* bytes.                                                                     *)
Documents(p) ==
  IF p \in {"settings", "settings.bak"} THEN SettingsDocuments
  ELSE IF p = "history" THEN {HistoryOf(rs) : rs \in Saved}
  ELSE SecretRecords
Contents(p) == {Nothing, Torn} \cup Documents(p)

(* A file whose contents are C, and what holds of the file at a path: only a  *)
(* temporary may be unflushed.                                                *)
Places(C) == [main : C, temp : C]
FileOf(C) == [main : C, temp : C, flushed : BOOLEAN, old : Places(C)]
FileInv(f, p) == f \in FileOf(Contents(p)) /\ (f.flushed \/ f.temp # Nothing)
FilesInv ==
  /\ files = [p \in Paths |-> files[p]]
  /\ \A p \in Paths : FileInv(files[p], p)

(* A write or a removal has this shape. *)
Steps == {"Create", "Fill", "Flush", "Replace", "WriteThrough", "RemoveMain", "RemoveTemp",
          "Done", "Failed", "Idle"}
CallShape(c) ==
  /\ c = [step |-> c.step, path |-> c.path, doc |-> c.doc, failed |-> c.failed]
  /\ c.step \in Steps /\ c.path \in Paths /\ c.doc \in {Nothing} \cup Documents(c.path)
  /\ c.failed \in BOOLEAN

(* What the file is known to hold at each step of write_atomic and of a       *)
(* removal: no temporary replaces the destination before it is written whole  *)
(* and flushed.                                                               *)
StepInv(f, c) ==
  /\ c.step \in {"Create", "Fill", "Flush", "Replace"} => c.doc # Nothing
  /\ c.step = "Flush" => f.temp = c.doc
  /\ c.step = "Replace" => f.temp = c.doc /\ f.flushed
  /\ c.step \in {"RemoveMain", "RemoveTemp"} => c.doc = Nothing
  /\ c.step = "RemoveTemp" /\ ~c.failed => f.main = Nothing
  /\ c.step = "WriteThrough" => f.main = c.doc /\ f.temp = Nothing
  /\ c.step = "Done" => /\ f.main = c.doc /\ f.temp = Nothing
                        /\ c.doc # Nothing => f.old = [main |-> f.main, temp |-> f.temp]

(* What a call of the operating system may do to a file. *)
Advances(f, c, g, d) ==
  /\ CallShape(d) /\ d.path = c.path /\ d.doc = c.doc /\ d.step # "Idle"
  /\ FileInv(g, c.path) /\ StepInv(g, d)
  /\ g.main \in {f.main, c.doc}
  /\ g.old.main = f.old.main \/ g.old.main = f.main

(* A document is neither nothing nor torn. *)
LEMMA Kinds ==
  /\ Nothing.kind = "Absent" /\ Torn.kind = "Torn" /\ Nothing # Torn
  /\ \A p : \A c \in Documents(p) : c.kind = "Document" /\ c # Nothing /\ c # Torn
<1>1. Nothing.kind = "Absent" /\ Torn.kind = "Torn"
  BY DEF Nothing, Torn
<1>2. ASSUME NEW p, NEW c \in Documents(p)
      PROVE  c.kind = "Document"
  <2>1. c \in SettingsDocuments \/ (\E rs \in Saved : c = HistoryOf(rs)) \/ c \in SecretRecords
    BY DEF Documents
  <2>2. c \in SettingsDocuments => c.kind = "Document"
    BY DEF SettingsDocuments, SettingsDocument, Document
  <2>3. ASSUME NEW rs \in Saved, c = HistoryOf(rs) PROVE c.kind = "Document"
    BY <2>3 DEF HistoryOf, Document
  <2>4. c \in SecretRecords => c.kind = "Document"
    BY DEF SecretRecords, SecretRecord, Document
  <2> QED BY <2>1, <2>2, <2>3, <2>4
<1> QED BY <1>1, <1>2

(* A call that goes on keeps its path and its document. *)
LEMMA AtFields ==
  ASSUME CallShape(call), NEW s \in Steps
  PROVE  /\ CallShape(At(s)) /\ At(s).step = s /\ At(s).path = call.path /\ At(s).doc = call.doc
         /\ At(s).failed = call.failed
<1> DEFINE d == [step |-> s, path |-> call.path, doc |-> call.doc, failed |-> call.failed]
<1>1. At(s) = d
  BY DEF At, CallShape
<1>2. d.step = s /\ d.path = call.path /\ d.doc = call.doc /\ d.failed = call.failed
  OBVIOUS
<1>3. CallShape(d)
  BY <1>2 DEF CallShape
<1> QED BY <1>1, <1>2, <1>3

(* The parts of a file. *)
LEMMA FileFields ==
  ASSUME NEW C, NEW f \in FileOf(C)
  PROVE  /\ f = [main |-> f.main, temp |-> f.temp, flushed |-> f.flushed, old |-> f.old]
         /\ f.main \in C /\ f.temp \in C /\ f.flushed \in BOOLEAN /\ f.old \in Places(C)
         /\ f.old.main \in C /\ f.old.temp \in C
BY DEF FileOf, Places

(* Creating the temporary, or failing to, advances the call. *)
LEMMA CreateAdvances ==
  ASSUME CallShape(call), FileInv(File, call.path), StepInv(File, call),
         NEW ok \in BOOLEAN, CreateTemporary(ok)
  PROVE  \E f : /\ files' = [files EXCEPT ![call.path] = f]
                /\ Advances(File, call, f, call')
<1> DEFINE C == Contents(call.path)
<1>1. Nothing \in C /\ Torn \in C /\ call.step = "Create" /\ Torn # Nothing
  BY Kinds DEF Contents, CreateTemporary, Step
<1>2. File \in FileOf(C) /\ (File.flushed \/ File.temp # Nothing)
  BY DEF FileInv
<1>3. CASE ok
  <2> DEFINE f == [File EXCEPT !.temp = Torn, !.flushed = FALSE]
  <2>1. files' = [files EXCEPT ![call.path] = f] /\ call' = At("Fill")
    BY <1>3 DEF CreateTemporary, Step
  <2>2. /\ f \in FileOf(C) /\ f.temp = Torn /\ f.main = File.main /\ f.old = File.old
    BY <1>1, <1>2 DEF FileOf
  <2> HIDE DEF f, C
  <2>3. FileInv(f, call.path)
    BY <2>2, <1>1 DEF FileInv, C
  <2>4. "Fill" \in Steps
    BY DEF Steps
  <2>5. StepInv(f, call') /\ call'.step = "Fill" /\ CallShape(call') /\ call'.path = call.path /\ call'.doc = call.doc
    BY <2>1, <2>4, AtFields, <1>1 DEF StepInv
  <2> QED BY <2>1, <2>2, <2>3, <2>5 DEF Advances
<1>4. CASE ~ok
  <2>0. PICK temp \in {File.temp, Nothing} :
           /\ files' = [files EXCEPT ![call.path] = [File EXCEPT !.temp = temp, !.flushed = @ \/ temp = Nothing]]
           /\ call' = At("Failed")
    BY <1>4 DEF CreateTemporary, Step
  <2> DEFINE f == [File EXCEPT !.temp = temp, !.flushed = @ \/ temp = Nothing]
  <2>1. files' = [files EXCEPT ![call.path] = f] /\ call' = At("Failed")
    BY <2>0
  <2>2. /\ f \in FileOf(C) /\ f.temp = temp /\ f.main = File.main /\ f.old = File.old
        /\ f.flushed = (File.flushed \/ temp = Nothing)
    BY <1>1, <1>2, FileFields DEF FileOf
  <2> HIDE DEF f, C
  <2>3. FileInv(f, call.path)
    BY <2>2, <1>2, <1>1 DEF FileInv, C
  <2>4. "Failed" \in Steps
    BY DEF Steps
  <2>5. StepInv(f, call') /\ call'.step = "Failed" /\ CallShape(call') /\ call'.path = call.path /\ call'.doc = call.doc
    BY <2>1, <2>4, AtFields, <1>1 DEF StepInv
  <2> QED BY <2>1, <2>2, <2>3, <2>5 DEF Advances
<1> QED BY <1>3, <1>4

(* Writing the temporary, or failing to, advances the call. *)
LEMMA FillAdvances ==
  ASSUME CallShape(call), FileInv(File, call.path), StepInv(File, call),
         NEW ok \in BOOLEAN, FillTemporary(ok)
  PROVE  \E f : /\ files' = [files EXCEPT ![call.path] = f]
                /\ Advances(File, call, f, call')
<1> DEFINE C == Contents(call.path)
<1>1. Nothing \in C /\ Torn \in C /\ call.doc \in C /\ Torn # Nothing
  BY Kinds DEF Contents, CallShape
<1>2. File \in FileOf(C) /\ (File.flushed \/ File.temp # Nothing)
  BY DEF FileInv
<1>0. call.step = "Fill"
  BY DEF FillTemporary, Step
<1>3. CASE ok
  <2> DEFINE f == [File EXCEPT !.temp = call.doc]
  <2>1. files' = [files EXCEPT ![call.path] = f] /\ call' = At("Flush")
    BY <1>3 DEF FillTemporary, Step, AfterFill
  <2>2. /\ f \in FileOf(C) /\ f.temp = call.doc /\ f.main = File.main /\ f.old = File.old /\ f.flushed = File.flushed
    BY <1>1, <1>2, FileFields DEF FileOf, Places
  <2> HIDE DEF f, C
  <2>3. FileInv(f, call.path)
    BY <2>2, <1>0, <1>1, <1>2 DEF FileInv, C, StepInv
  <2>4. "Flush" \in Steps
    BY DEF Steps
  <2>5. call'.step = "Flush" /\ CallShape(call') /\ call'.path = call.path /\ call'.doc = call.doc
        /\ call'.failed = call.failed
    BY <2>1, <2>4, AtFields
  <2>6. StepInv(f, call')
    BY <2>2, <2>5, <1>0, <1>3 DEF StepInv
  <2> QED BY <2>1, <2>2, <2>3, <2>5, <2>6, <1>0 DEF Advances, StepInv
<1>4. CASE ~ok
  <2> DEFINE f == [File EXCEPT !.temp = Torn]
  <2>1. files' = [files EXCEPT ![call.path] = f] /\ call' = At("Failed")
    BY <1>4 DEF FillTemporary, Step, AfterFill
  <2>2. /\ f \in FileOf(C) /\ f.temp = Torn /\ f.main = File.main /\ f.old = File.old /\ f.flushed = File.flushed
    BY <1>1, <1>2, FileFields DEF FileOf, Places
  <2> HIDE DEF f, C
  <2>3. FileInv(f, call.path)
    BY <2>2, <1>0, <1>1, <1>2 DEF FileInv, C, StepInv
  <2>4. "Failed" \in Steps
    BY DEF Steps
  <2>5. call'.step = "Failed" /\ CallShape(call') /\ call'.path = call.path /\ call'.doc = call.doc
        /\ call'.failed = call.failed
    BY <2>1, <2>4, AtFields
  <2>6. StepInv(f, call')
    BY <2>2, <2>5, <1>0, <1>4 DEF StepInv
  <2> QED BY <2>1, <2>2, <2>3, <2>5, <2>6, <1>0 DEF Advances, StepInv
<1> QED BY <1>3, <1>4

(* Flushing the temporary, or failing to, advances the call. *)
LEMMA FlushAdvances ==
  ASSUME CallShape(call), FileInv(File, call.path), StepInv(File, call),
         NEW ok \in BOOLEAN, FlushTemporary(ok)
  PROVE  \E f : /\ files' = [files EXCEPT ![call.path] = f]
                /\ Advances(File, call, f, call')
<1> DEFINE C == Contents(call.path)
<1>1. Nothing \in C /\ Torn \in C /\ call.doc \in C /\ Torn # Nothing
  BY Kinds DEF Contents, CallShape
<1>2. File \in FileOf(C) /\ (File.flushed \/ File.temp # Nothing)
  BY DEF FileInv
<1>0. call.step = "Flush"
  BY DEF FlushTemporary, Step
<1>3. CASE ok
  <2> DEFINE f == [File EXCEPT !.flushed = ok]
  <2>1. files' = [files EXCEPT ![call.path] = f] /\ call' = At("Replace")
    BY <1>3 DEF FlushTemporary, Step, AfterFill
  <2>2. /\ f \in FileOf(C) /\ f.temp = File.temp /\ f.main = File.main /\ f.old = File.old /\ f.flushed = ok
    BY <1>1, <1>2, FileFields DEF FileOf, Places
  <2> HIDE DEF f, C
  <2>3. FileInv(f, call.path)
    BY <2>2, <1>0, <1>1, <1>2 DEF FileInv, C, StepInv
  <2>4. "Replace" \in Steps
    BY DEF Steps
  <2>5. call'.step = "Replace" /\ CallShape(call') /\ call'.path = call.path /\ call'.doc = call.doc
        /\ call'.failed = call.failed
    BY <2>1, <2>4, AtFields
  <2>6. StepInv(f, call')
    BY <2>2, <2>5, <1>0, <1>3 DEF StepInv
  <2> QED BY <2>1, <2>2, <2>3, <2>5, <2>6, <1>0 DEF Advances, StepInv
<1>4. CASE ~ok
  <2> DEFINE f == [File EXCEPT !.flushed = ok]
  <2>1. files' = [files EXCEPT ![call.path] = f] /\ call' = At("Failed")
    BY <1>4 DEF FlushTemporary, Step, AfterFill
  <2>2. /\ f \in FileOf(C) /\ f.temp = File.temp /\ f.main = File.main /\ f.old = File.old /\ f.flushed = ok
    BY <1>1, <1>2, FileFields DEF FileOf, Places
  <2> HIDE DEF f, C
  <2>3. FileInv(f, call.path)
    BY <2>2, <1>0, <1>1, <1>2 DEF FileInv, C, StepInv
  <2>4. "Failed" \in Steps
    BY DEF Steps
  <2>5. call'.step = "Failed" /\ CallShape(call') /\ call'.path = call.path /\ call'.doc = call.doc
        /\ call'.failed = call.failed
    BY <2>1, <2>4, AtFields
  <2>6. StepInv(f, call')
    BY <2>2, <2>5, <1>0, <1>4 DEF StepInv
  <2> QED BY <2>1, <2>2, <2>3, <2>5, <2>6, <1>0 DEF Advances, StepInv
<1> QED BY <1>3, <1>4

(* Replacing the destination by a flushed temporary, or failing to, advances  *)
(* the call.                                                                  *)
LEMMA ReplaceAdvances ==
  ASSUME CallShape(call), FileInv(File, call.path), StepInv(File, call),
         NEW ok \in BOOLEAN, ReplaceDestination(ok)
  PROVE  \E f : /\ files' = [files EXCEPT ![call.path] = f]
                /\ Advances(File, call, f, call')
<1> DEFINE C == Contents(call.path)
<1>1. Nothing \in C /\ Torn \in C /\ call.doc \in C /\ Torn # Nothing
  BY Kinds DEF Contents, CallShape
<1>2. File \in FileOf(C) /\ (File.flushed \/ File.temp # Nothing)
  BY DEF FileInv
<1>0. call.step = "Replace"
  BY DEF ReplaceDestination, Step
<1>3. CASE ok
  <2> DEFINE f == [File EXCEPT !.main = File.temp, !.temp = Nothing]
  <2>1. files' = [files EXCEPT ![call.path] = f] /\ call' = At("WriteThrough")
    BY <1>3 DEF ReplaceDestination, Step, AfterFill
  <2>2. /\ f \in FileOf(C) /\ f.temp = Nothing /\ f.main = File.temp /\ f.old = File.old /\ f.flushed = File.flushed
    BY <1>1, <1>2, FileFields DEF FileOf, Places
  <2> HIDE DEF f, C
  <2>3. FileInv(f, call.path)
    BY <2>2, <1>0, <1>1, <1>2 DEF FileInv, C, StepInv
  <2>4. "WriteThrough" \in Steps
    BY DEF Steps
  <2>5. call'.step = "WriteThrough" /\ CallShape(call') /\ call'.path = call.path /\ call'.doc = call.doc
        /\ call'.failed = call.failed
    BY <2>1, <2>4, AtFields
  <2>6. StepInv(f, call')
    BY <2>2, <2>5, <1>0, <1>3 DEF StepInv
  <2> QED BY <2>1, <2>2, <2>3, <2>5, <2>6, <1>0 DEF Advances, StepInv
<1>4. CASE ~ok
  <2> DEFINE f == File
  <2>1. files' = [files EXCEPT ![call.path] = f] /\ call' = At("Failed")
    BY <1>4 DEF ReplaceDestination, Step, AfterFill
  <2>2. /\ f \in FileOf(C) /\ f = File
    BY <1>1, <1>2, FileFields DEF FileOf, Places
  <2> HIDE DEF f, C
  <2>3. FileInv(f, call.path)
    BY <2>2, <1>0, <1>1, <1>2 DEF FileInv, C, StepInv
  <2>4. "Failed" \in Steps
    BY DEF Steps
  <2>5. call'.step = "Failed" /\ CallShape(call') /\ call'.path = call.path /\ call'.doc = call.doc
        /\ call'.failed = call.failed
    BY <2>1, <2>4, AtFields
  <2>6. StepInv(f, call')
    BY <2>2, <2>5, <1>0, <1>4 DEF StepInv
  <2> QED BY <2>1, <2>2, <2>3, <2>5, <2>6, <1>0 DEF Advances, StepInv
<1> QED BY <1>3, <1>4

(* The move reaching the disk, or not, advances the call. *)
LEMMA WriteThroughAdvances ==
  ASSUME CallShape(call), FileInv(File, call.path), StepInv(File, call),
         NEW ok \in BOOLEAN, WriteThrough(ok)
  PROVE  \E f : /\ files' = [files EXCEPT ![call.path] = f]
                /\ Advances(File, call, f, call')
<1> DEFINE C == Contents(call.path)
<1>1. Nothing \in C /\ Torn \in C /\ call.doc \in C /\ Torn # Nothing
  BY Kinds DEF Contents, CallShape
<1>2. File \in FileOf(C) /\ (File.flushed \/ File.temp # Nothing)
  BY DEF FileInv
<1>0. call.step = "WriteThrough"
  BY DEF WriteThrough, Step
<1>3. CASE ok
  <2> DEFINE f == [File EXCEPT !.old = [main |-> File.main, temp |-> File.temp]]
  <2>1. files' = [files EXCEPT ![call.path] = f] /\ call' = At("Done")
    BY <1>3 DEF WriteThrough, MoveOnDisk, Step
  <2>2. /\ f \in FileOf(C) /\ f.temp = File.temp /\ f.main = File.main /\ f.old = [main |-> f.main, temp |-> f.temp] /\ f.flushed = File.flushed
        /\ f.old.main = File.main
    BY <1>1, <1>2, FileFields DEF FileOf, Places
  <2> HIDE DEF f, C
  <2>3. FileInv(f, call.path)
    BY <2>2, <1>0, <1>1, <1>2 DEF FileInv, C, StepInv
  <2>4. "Done" \in Steps
    BY DEF Steps
  <2>5. call'.step = "Done" /\ CallShape(call') /\ call'.path = call.path /\ call'.doc = call.doc
        /\ call'.failed = call.failed
    BY <2>1, <2>4, AtFields
  <2>6. StepInv(f, call')
    BY <2>2, <2>5, <1>0, <1>3 DEF StepInv
  <2> QED BY <2>1, <2>2, <2>3, <2>5, <2>6, <1>0 DEF Advances, StepInv
<1>4. CASE ~ok
  <2> DEFINE f == File
  <2>1. files' = [files EXCEPT ![call.path] = f] /\ call' = At("Failed")
    BY <1>4 DEF WriteThrough, MoveOnDisk, Step
  <2>2. /\ f \in FileOf(C) /\ f = File
    BY <1>1, <1>2, FileFields DEF FileOf, Places
  <2> HIDE DEF f, C
  <2>3. FileInv(f, call.path)
    BY <2>2, <1>0, <1>1, <1>2 DEF FileInv, C, StepInv
  <2>4. "Failed" \in Steps
    BY DEF Steps
  <2>5. call'.step = "Failed" /\ CallShape(call') /\ call'.path = call.path /\ call'.doc = call.doc
        /\ call'.failed = call.failed
    BY <2>1, <2>4, AtFields
  <2>6. StepInv(f, call')
    BY <2>2, <2>5, <1>0, <1>4 DEF StepInv
  <2> QED BY <2>1, <2>2, <2>3, <2>5, <2>6, <1>0 DEF Advances, StepInv
<1> QED BY <1>3, <1>4

(* Removing the record, or failing to, advances the call. *)
LEMMA RemoveMainAdvances ==
  ASSUME CallShape(call), FileInv(File, call.path), StepInv(File, call),
         NEW ok \in BOOLEAN, RemoveMain(ok)
  PROVE  \E f : /\ files' = [files EXCEPT ![call.path] = f]
                /\ Advances(File, call, f, call')
<1> DEFINE C == Contents(call.path)
           f == IF ok THEN [File EXCEPT !.main = Nothing] ELSE File
           failed == ~ok
           d == [step |-> "RemoveTemp", path |-> call.path, doc |-> call.doc, failed |-> failed]
<1>0. call.step = "RemoveMain" /\ call.doc = Nothing
  BY DEF RemoveMain, Step, StepInv
<1>1. Nothing \in C /\ File \in FileOf(C) /\ (File.flushed \/ File.temp # Nothing)
  BY DEF Contents, FileInv
<1>2. files' = [files EXCEPT ![call.path] = f]
      /\ call' = [At("RemoveTemp") EXCEPT !.failed = failed]
  BY DEF RemoveMain, Step
<1>3. At("RemoveTemp") = [step |-> "RemoveTemp", path |-> call.path, doc |-> call.doc,
                         failed |-> call.failed]
  BY DEF At, CallShape
<1>4. failed \in BOOLEAN /\ (~failed => ok)
  OBVIOUS
<1> HIDE DEF failed
<1>5. call' = d
  BY <1>2, <1>3
<1>6. /\ f \in FileOf(C) /\ f.temp = File.temp /\ f.old = File.old /\ f.flushed = File.flushed
      /\ f.main = IF ok THEN Nothing ELSE File.main
  BY <1>1, FileFields DEF FileOf
<1>7. /\ d.step = "RemoveTemp" /\ d.path = call.path /\ d.doc = call.doc /\ d.failed = failed
  OBVIOUS
<1>8. CallShape(d)
  BY <1>4, <1>7 DEF CallShape, Steps
<1> HIDE DEF f, d, C
<1>9. FileInv(f, call.path)
  BY <1>1, <1>6 DEF FileInv, C
<1>10. StepInv(f, d)
  BY <1>0, <1>4, <1>6, <1>7 DEF StepInv
<1> QED BY <1>0, <1>2, <1>5, <1>6, <1>7, <1>8, <1>9, <1>10 DEF Advances

(* Removing a stale temporary, or failing to, advances the call. *)
LEMMA RemoveTempAdvances ==
  ASSUME CallShape(call), FileInv(File, call.path), StepInv(File, call),
         NEW ok \in BOOLEAN, RemoveTemp(ok)
  PROVE  \E f : /\ files' = [files EXCEPT ![call.path] = f]
                /\ Advances(File, call, f, call')
<1> DEFINE C == Contents(call.path)
           f == IF ok THEN [File EXCEPT !.temp = Nothing, !.flushed = TRUE] ELSE File
           failed == call.failed \/ ~ok
           next == IF failed THEN "Failed" ELSE "Done"
           d == [step |-> next, path |-> call.path, doc |-> call.doc, failed |-> failed]
<1>0. call.step = "RemoveTemp" /\ call.doc = Nothing /\ (~call.failed => File.main = Nothing)
  BY DEF RemoveTemp, Step, StepInv
<1>1. Nothing \in C /\ File \in FileOf(C) /\ (File.flushed \/ File.temp # Nothing)
  BY DEF Contents, FileInv
<1>2. files' = [files EXCEPT ![call.path] = f] /\ call' = [At(next) EXCEPT !.failed = failed]
  BY DEF RemoveTemp, Step, TemporaryRemoved
<1>3. At(next) = [step |-> next, path |-> call.path, doc |-> call.doc,
                  failed |-> call.failed]
  <2> HIDE DEF next
  <2> QED BY DEF At, CallShape
<1>4. /\ failed \in BOOLEAN /\ next \in {"Failed", "Done"}
      /\ next = "Done" => ~failed
      /\ ~failed => ok /\ ~call.failed
  BY DEF CallShape
<1> HIDE DEF failed, next
<1>5. call' = d
  BY <1>2, <1>3
<1>6. /\ f \in FileOf(C) /\ f.main = File.main /\ f.old = File.old
      /\ f.temp = IF ok THEN Nothing ELSE File.temp
      /\ f.flushed = IF ok THEN TRUE ELSE File.flushed
  BY <1>1, FileFields DEF FileOf
<1>7. /\ d.step = next /\ d.path = call.path /\ d.doc = call.doc /\ d.failed = failed
  OBVIOUS
<1>8. CallShape(d)
  BY <1>4, <1>7 DEF CallShape, Steps
<1> HIDE DEF f, d, C
<1>9. FileInv(f, call.path)
  BY <1>1, <1>6 DEF FileInv, C
<1>10. StepInv(f, d)
  BY <1>0, <1>4, <1>6, <1>7 DEF StepInv
<1> QED BY <1>0, <1>2, <1>4, <1>5, <1>6, <1>7, <1>8, <1>9, <1>10 DEF Advances

(* Every call of the operating system advances the write or the removal it is *)
(* part of: the destination is what it was or the document, whole.            *)
LEMMA StoreAdvances ==
  ASSUME CallShape(call), FileInv(File, call.path), StepInv(File, call),
         NEW ok \in BOOLEAN, StoreStep(ok)
  PROVE  \E f : /\ files' = [files EXCEPT ![call.path] = f]
                /\ Advances(File, call, f, call')
<1>1. CASE CreateTemporary(ok)
  BY <1>1, CreateAdvances, Zenon
<1>2. CASE FillTemporary(ok)
  BY <1>2, FillAdvances, Zenon
<1>3. CASE FlushTemporary(ok)
  BY <1>3, FlushAdvances, Zenon
<1>4. CASE ReplaceDestination(ok)
  BY <1>4, ReplaceAdvances, Zenon
<1>5. CASE WriteThrough(ok)
  BY <1>5, WriteThroughAdvances, Zenon
<1>6. CASE RemoveMain(ok)
  BY <1>6, RemoveMainAdvances, Zenon
<1>7. CASE RemoveTemp(ok)
  BY <1>7, RemoveTempAdvances, Zenon
<1> QED BY <1>1, <1>2, <1>3, <1>4, <1>5, <1>6, <1>7, Zenon DEF StoreStep

(* A power failure leaves a destination that was there or was durable, keeps  *)
(* the file sound, and leaves no temporary where none was.                    *)
LEMMA LeftBehind ==
  ASSUME NEW p, NEW f, FileInv(f, p), NEW kept \in BOOLEAN, NEW torn \in BOOLEAN
  PROVE  LET l == Left(f, kept, torn)
         IN  /\ FileInv(l, p)
             /\ l.main \in {f.main, f.old.main} /\ l.old.main = l.main
             /\ l.old.temp = l.temp
             /\ f.temp = Nothing /\ f.old.temp = Nothing => l.temp = Nothing
<1> DEFINE C == Contents(p)
           lost(content) == IF torn /\ content.kind = "Document" THEN Torn ELSE content
           now == CASE ~kept -> f.old
                    [] kept /\ f.flushed -> [main |-> f.main, temp |-> f.temp]
                    [] kept /\ ~f.flushed /\ f.temp = Nothing -> [main |-> lost(f.main), temp |-> Nothing]
                    [] OTHER -> [main |-> f.main, temp |-> lost(f.temp)]
           l == [main |-> now.main, temp |-> now.temp, flushed |-> TRUE, old |-> now]
<1>1. Left(f, kept, torn) = l
  BY DEF Left
<1>2. /\ Nothing \in C /\ Torn \in C /\ f \in FileOf(C) /\ (f.flushed \/ f.temp # Nothing)
      /\ Nothing.kind # "Document"
  BY Kinds DEF FileInv, Contents
<1>3. /\ f.main \in C /\ f.temp \in C /\ f.flushed \in BOOLEAN
      /\ f.old = [main |-> f.old.main, temp |-> f.old.temp] /\ f.old.main \in C /\ f.old.temp \in C
  BY <1>2, FileFields DEF Places
<1>4. /\ now \in Places(C) /\ now.main \in {f.main, f.old.main}
      /\ f.temp = Nothing /\ f.old.temp = Nothing => now.temp = Nothing
  <2>1. CASE ~kept
    <3>1. now = f.old
      BY <2>1, Zenon
    <3> HIDE DEF now
    <3> QED BY <3>1, <1>3 DEF Places
  <2>2. CASE kept /\ f.flushed
    <3>1. now = [main |-> f.main, temp |-> f.temp]
      BY <2>2, Zenon
    <3> HIDE DEF now
    <3> QED BY <3>1, <1>3 DEF Places
  <2>3. CASE kept /\ ~f.flushed
    <3>1. now = [main |-> f.main, temp |-> lost(f.temp)]
      BY <2>3, <1>2, Zenon
    <3> HIDE DEF now
    <3> QED BY <3>1, <1>2, <1>3 DEF Places
  <2> QED BY <2>1, <2>2, <2>3, <1>3
<1> HIDE DEF now
<1>5. /\ l.main = now.main /\ l.temp = now.temp /\ l.flushed = TRUE /\ l.old = now
  OBVIOUS
<1>6. now.main \in C /\ now.temp \in C
  BY <1>4 DEF Places
<1>7. l \in FileOf(C)
  BY <1>4, <1>6 DEF FileOf
<1> HIDE DEF l, C
<1>8. FileInv(l, p)
  BY <1>5, <1>7 DEF FileInv, C
<1> QED BY <1>1, <1>4, <1>5, <1>8, Zenon

------------------------------------------------------------------------------
(* The inductive invariant. *)

(* What a path may read as after a power failure. *)
Mains(p) == {files[p].main, files[p].old.main}

(* The operation under way: saving settings (the backup first), a secret, the *)
(* history.                                                                   *)
SettingsWork ==
  /\ task.op = "Settings"
  /\ \E s \in tried.settings : task.doc = SettingsDocument(s)
  /\ \/ task.todo = <<>> /\ call.path = "settings" /\ call.doc = task.doc
     \/ /\ task.todo = <<WriteAtomic("settings", task.doc)>>
        /\ call.path = "settings.bak" /\ call.doc = files["settings"].main /\ call.doc # Nothing

SecretWork ==
  /\ task.op \in {"Secret", "Erase"} /\ task.todo = <<>>
  /\ call.path \in SecretIds /\ call.doc = task.doc
  /\ task.doc \in {Nothing} \cup Records(call.path) /\ task.doc \in tried.secrets[call.path]
  /\ (task.op = "Erase" <=> task.doc = Nothing)

HistoryWork ==
  /\ task.op = "History" /\ task.todo = <<>>
  /\ call.path = "history" /\ call.doc = task.doc
  /\ task.rows \in tried.rows /\ task.doc = HistoryOf(task.rows)

(* The call belongs to the operation, and an unloaded add-on has no write     *)
(* pending.                                                                   *)
TaskInv ==
  /\ CallShape(call) /\ StepInv(files[call.path], call)
  /\ task = [op |-> task.op, todo |-> task.todo, doc |-> task.doc, rows |-> task.rows]
  /\ task = NoTask => call = IdleCall
  /\ task # NoTask => up /\ call.step # "Idle" /\ (SettingsWork \/ SecretWork \/ HistoryWork)
  /\ ~up => \A p \in Paths : files[p].old.main = files[p].main

(* What the add-on holds, and what operations that did not succeed were       *)
(* writing.                                                                   *)
MemInv ==
  /\ mem \in [settings : Settings \cup {Defaults}, source : {"Primary", "Backup", "Defaults"},
              rows : Seq(Rows(Names)), recovery : {"None", "InvalidDocument", "File"}]
  /\ Len(mem.rows) <= Capacity
  /\ secrets \in [SecretIds -> {Nothing} \cup SecretRecords]
  /\ tried \in [settings : SUBSET Settings, rows : SUBSET Saved,
                secrets : [SecretIds -> SUBSET ({Nothing} \cup SecretRecords)]]

(* The files, the operation under way and the memory are sound. *)
Base == FilesInv /\ TaskInv /\ MemInv

(* No path reads as torn bytes unless it was damaged. *)
WholeInv == \A p \in Paths \ damaged : Torn \notin Mains(p)

(* Once settings were saved one of the two settings files is surely there. *)
SavedInv == mem.source # "Defaults" => Nothing \notin Mains("settings") \/ Nothing \notin Mains("settings.bak")

(* What a reader of the settings may find. *)
Wanted == {mem.settings} \cup tried.settings

(* A primary that is there reads as wanted; while the primary may be missing  *)
(* so does the backup, and if both may be missing the defaults are wanted.    *)
CurrentInv ==
  up => /\ "settings" \notin damaged =>
             \A c \in Mains("settings") : c \in SettingsDocuments => c.value[1] \in Wanted
        /\ damaged \cap {"settings", "settings.bak"} = {} /\ Nothing \in Mains("settings") =>
             \A c \in Mains("settings.bak") : c \in SettingsDocuments => c.value[1] \in Wanted
        /\ Nothing \in Mains("settings") /\ Nothing \in Mains("settings.bak") => Defaults \in Wanted

(* What a reader of a secret may find. *)
Expected(id) ==
  {secrets[id]} \cup tried.secrets[id]
    \cup (IF id \in damaged THEN {Torn, Nothing} \cup Records(id) ELSE {})
SecretsInv == \A id \in SecretIds : \A c \in Mains(id) : LoadSecret(id, c) \in Expected(id)

(* What a reader of the history may find. *)
ReadableRows == {ReloadedRows(rs) : rs \in {mem.rows} \cup tried.rows}
HistoryInv ==
  up /\ mem.recovery = "None" /\ "history" \notin damaged =>
    \A c \in Mains("history") : LoadHistory(c).rows \in ReadableRows

(* The paths are told apart. *)
LEMMA PathFacts ==
  /\ "settings" \in Paths /\ "settings.bak" \in Paths /\ "history" \in Paths
  /\ SecretIds \subseteq Paths
  /\ "settings" \notin SecretIds /\ "settings.bak" \notin SecretIds /\ "history" \notin SecretIds
BY StorageConstants DEF StorageConstants

(* The documents of each path. *)
LEMMA DocumentFacts ==
  /\ Documents("settings") = SettingsDocuments /\ Documents("settings.bak") = SettingsDocuments
  /\ Documents("history") = {HistoryOf(rs) : rs \in Saved}
  /\ \A id \in SecretIds : Documents(id) = SecretRecords /\ Records(id) \subseteq SecretRecords
  /\ \A s : SettingsDocument(s).value[1] = s
  /\ \A rs : HistoryOf(rs).value = EncodeHistory(rs) /\ HistoryOf(rs).kind = "Document"
  /\ \A id, v : SecretRecord(id, v).id = id
<1>1. /\ Documents("settings") = SettingsDocuments /\ Documents("settings.bak") = SettingsDocuments
      /\ Documents("history") = {HistoryOf(rs) : rs \in Saved}
  BY DEF Documents
<1>2. \A id \in SecretIds : Documents(id) = SecretRecords
  BY PathFacts DEF Documents
<1>3. \A id \in SecretIds : Records(id) \subseteq SecretRecords
  BY DEF Records, SecretRecords
<1>4. \A s : SettingsDocument(s).value[1] = s
  BY DEF SettingsDocument, Document
<1>5. \A rs : HistoryOf(rs).value = EncodeHistory(rs) /\ HistoryOf(rs).kind = "Document"
  BY DEF HistoryOf, Document
<1>6. \A id, v : SecretRecord(id, v).id = id
  BY DEF SecretRecord, Document
<1> QED BY <1>1, <1>2, <1>3, <1>4, <1>5, <1>6

(* A write begins with the temporary. *)
LEMMA WriteAtomicFields ==
  ASSUME NEW p, NEW doc
  PROVE  WriteAtomic(p, doc)
         = [step |-> "Create", path |-> p, doc |-> doc, failed |-> FALSE]
<1>1. PICK f : f = FALSE
  OBVIOUS
<1>2. NoCall(p, "Create")
      = [step |-> "Create", path |-> p, doc |-> Nothing, failed |-> f]
  BY <1>1 DEF NoCall
<1>3. [NoCall(p, "Create") EXCEPT !.doc = doc]
      = [step |-> "Create", path |-> p, doc |-> doc, failed |-> f]
  BY <1>2
<1> QED BY <1>3, <1>1 DEF WriteAtomic

(* A write or a removal that begins is sound whatever the file holds. *)
LEMMA FreshCalls ==
  /\ \A p \in Paths : \A doc \in Documents(p) :
       LET c == WriteAtomic(p, doc)
       IN  /\ CallShape(c) /\ c.step = "Create" /\ c.path = p /\ c.doc = doc
           /\ \A f : StepInv(f, c)
  /\ \A p \in Paths :
       LET c == Erase(p)
       IN  /\ CallShape(c) /\ c.step = "RemoveMain" /\ c.path = p /\ c.doc = Nothing
           /\ \A f : StepInv(f, c)
  /\ CallShape(IdleCall) /\ IdleCall.step = "Idle" /\ IdleCall.path = "settings"
  /\ \A f : StepInv(f, IdleCall)
<1>1. ASSUME NEW p \in Paths, NEW doc \in Documents(p)
      PROVE  LET c == WriteAtomic(p, doc)
             IN  /\ CallShape(c) /\ c.step = "Create" /\ c.path = p /\ c.doc = doc
                 /\ \A f : StepInv(f, c)
  <2> DEFINE c == [step |-> "Create", path |-> p, doc |-> doc, failed |-> FALSE]
  <2>1. WriteAtomic(p, doc) = c
    BY WriteAtomicFields
  <2>2. CallShape(c)
    BY DEF CallShape, Steps
  <2>3. c.step = "Create" /\ c.path = p /\ c.doc = doc /\ doc # Nothing
    BY Kinds
  <2> HIDE DEF c
  <2>4. \A f : StepInv(f, c)
    BY <2>3 DEF StepInv
  <2> QED BY <2>1, <2>2, <2>3, <2>4
<1>2. ASSUME NEW p \in Paths
      PROVE  LET c == Erase(p)
             IN  /\ CallShape(c) /\ c.step = "RemoveMain" /\ c.path = p /\ c.doc = Nothing
                 /\ \A f : StepInv(f, c)
  <2> DEFINE c == [step |-> "RemoveMain", path |-> p, doc |-> Nothing, failed |-> FALSE]
  <2>1. Erase(p) = c
    BY DEF Erase, NoCall
  <2>2. CallShape(c)
    BY DEF CallShape, Steps
  <2>3. c.step = "RemoveMain" /\ c.path = p /\ c.doc = Nothing
    OBVIOUS
  <2> HIDE DEF c
  <2>4. \A f : StepInv(f, c)
    BY <2>3 DEF StepInv
  <2> QED BY <2>1, <2>2, <2>3, <2>4
<1>3. CallShape(IdleCall) /\ IdleCall.step = "Idle" /\ IdleCall.path = "settings"
  BY PathFacts DEF IdleCall, NoCall, CallShape, Steps
<1>4. \A f : StepInv(f, IdleCall)
  BY <1>3 DEF StepInv
<1> QED BY <1>1, <1>2, <1>3, <1>4

(* What loading settings gives for each content of the two files. *)
LEMMA SettingsRead ==
  ASSUME NEW a \in Contents("settings"), NEW b \in Contents("settings.bak")
  PROVE  LET l == LoadSettings(a, b)
         IN  /\ a \in SettingsDocuments => l.source = "Primary" /\ l.settings = a.value[1]
             /\ a \notin SettingsDocuments /\ b \in SettingsDocuments =>
                  l.source = "Backup" /\ l.settings = b.value[1]
             /\ a = Nothing /\ b = Nothing => l.source = "Defaults" /\ l.settings = Defaults
             /\ a \notin SettingsDocuments /\ b \notin SettingsDocuments /\ ~(a = Nothing /\ b = Nothing) =>
                  l.source = "Error" /\ l.settings = Defaults
<1> DEFINE l == LoadSettings(a, b)
<1>1. /\ a \in SettingsDocuments <=> a.kind = "Document"
      /\ b \in SettingsDocuments <=> b.kind = "Document"
      /\ Nothing.kind # "Document"
  <2>1. a \in {Nothing, Torn} \cup SettingsDocuments /\ b \in {Nothing, Torn} \cup SettingsDocuments
    BY DocumentFacts DEF Contents
  <2>2. \A c \in SettingsDocuments : c.kind = "Document"
    BY Kinds, DocumentFacts
  <2> QED BY <2>1, <2>2, Kinds
<1>2. CASE a.kind = "Document"
  <2>1. l = [source |-> "Primary", settings |-> a.value[1]]
    BY <1>2, <1>1, Zenon DEF LoadSettings
  <2> HIDE DEF l
  <2> QED BY <1>1, <1>2, <2>1 DEF l
<1>3. CASE a.kind # "Document" /\ b.kind = "Document"
  <2>1. l = [source |-> "Backup", settings |-> b.value[1]]
    BY <1>3, <1>1, Zenon DEF LoadSettings
  <2> HIDE DEF l
  <2> QED BY <1>1, <1>3, <2>1 DEF l
<1>4. CASE a.kind # "Document" /\ b.kind # "Document" /\ a = Nothing /\ b = Nothing
  <2>1. l = [source |-> "Defaults", settings |-> Defaults]
    BY <1>4, <1>1, Zenon DEF LoadSettings
  <2> HIDE DEF l
  <2> QED BY <1>1, <1>4, <2>1 DEF l
<1>5. CASE a.kind # "Document" /\ b.kind # "Document" /\ ~(a = Nothing /\ b = Nothing)
  <2>1. l = [source |-> "Error", settings |-> Defaults]
    BY <1>5, <1>1, Zenon DEF LoadSettings
  <2> HIDE DEF l
  <2> QED BY <1>1, <1>5, <2>1 DEF l
<1> QED BY <1>2, <1>3, <1>4, <1>5

(* A secret record reads as itself, one of another secret as corrupt. *)
LEMMA SecretRead ==
  ASSUME NEW id \in SecretIds
  PROVE  /\ \A c \in {Nothing, Torn} \cup Records(id) : LoadSecret(id, c) = c
         /\ \A c \in {Nothing, Torn} \cup SecretRecords : LoadSecret(id, c) \in {Nothing, Torn} \cup Records(id)
<1>1. ASSUME NEW c, ~(c.kind = "Document" /\ c.id # id)
      PROVE  LoadSecret(id, c) = c
  BY <1>1, Zenon DEF LoadSecret
<1>2. ASSUME NEW c, c.kind = "Document" /\ c.id # id
      PROVE  LoadSecret(id, c) = Torn
  BY <1>2, Zenon DEF LoadSecret
<1>3. \A c \in Records(id) : c.id = id
  BY DocumentFacts DEF Records
<1>4. \A c \in SecretRecords : c.id = id => c \in Records(id)
  BY DocumentFacts DEF Records, SecretRecords
<1>5. ASSUME NEW c \in {Nothing, Torn} \cup Records(id)
      PROVE  LoadSecret(id, c) = c
  <2>1. c.kind = "Document" => c.id = id
    BY <1>3, Kinds
  <2> QED BY <2>1, <1>1
<1>6. ASSUME NEW c \in {Nothing, Torn} \cup SecretRecords
      PROVE  LoadSecret(id, c) \in {Nothing, Torn} \cup Records(id)
  <2>1. CASE c \in {Nothing, Torn} \cup Records(id)
    BY <1>5, <2>1
  <2>2. CASE c \in SecretRecords /\ c.id # id
    <3>1. c.kind = "Document"
      BY <2>2, DocumentFacts, Kinds
    <3> QED BY <3>1, <2>2, <1>2
  <2>3. CASE c \in SecretRecords /\ c.id = id
    BY <2>3, <1>4, <2>1
  <2> QED BY <2>1, <2>2, <2>3
<1> QED BY <1>5, <1>6

(* What loading the history gives for each content of its file. *)
LEMMA HistoryRead ==
  /\ LoadHistory(Nothing) = [rows |-> <<>>, recovery |-> "None"]
  /\ \A rs \in Saved : LoadHistory(HistoryOf(rs)) = [rows |-> ReloadedRows(rs), recovery |-> "None"]
  /\ LoadHistory(Torn) = [rows |-> <<>>, recovery |-> "InvalidDocument"]
<1>1. LoadHistory(Nothing) = [rows |-> <<>>, recovery |-> "None"]
  BY Kinds, Zenon DEF LoadHistory
<1>2. LoadHistory(Torn) = [rows |-> <<>>, recovery |-> "InvalidDocument"]
  <2>1. Torn # Nothing /\ Torn.kind # "Document"
    BY Kinds
  <2> QED BY <2>1, Zenon DEF LoadHistory
<1>3. ASSUME NEW rs \in Saved
      PROVE  LoadHistory(HistoryOf(rs)) = [rows |-> ReloadedRows(rs), recovery |-> "None"]
  <2>1. HistoryOf(rs) # Nothing /\ HistoryOf(rs).kind = "Document"
    BY Kinds, DocumentFacts
  <2>2. LoadHistory(HistoryOf(rs)) = [rows |-> DecodeHistory(HistoryOf(rs).value), recovery |-> "None"]
    BY <2>1, Zenon DEF LoadHistory
  <2>3. DecodeHistory(HistoryOf(rs).value) = ReloadedRows(rs)
    BY HistoryReads, DocumentFacts, DocumentConstants DEF Saved
  <2> QED BY <2>2, <2>3
<1> QED BY <1>1, <1>2, <1>3

------------------------------------------------------------------------------
(* A call of the operating system. *)

(* The invariant holds where nothing was ever written. *)
LEMMA InitBase ==
  ASSUME Init
  PROVE  Base /\ WholeInv /\ SavedInv /\ CurrentInv /\ SecretsInv /\ HistoryInv
<1>1. /\ files = [p \in Paths |-> NoFile] /\ call = IdleCall /\ task = NoTask /\ up = TRUE
      /\ mem = [settings |-> Defaults, source |-> "Defaults", rows |-> <<>>, recovery |-> "None"]
      /\ secrets = [id \in SecretIds |-> Nothing] /\ tried = NoTries /\ damaged = {}
  BY DEF Init
<1>2. /\ NoFile.main = Nothing /\ NoFile.temp = Nothing /\ NoFile.flushed = TRUE
      /\ NoFile.old.main = Nothing /\ NoFile.old.temp = Nothing
      /\ \A C : Nothing \in C => NoFile \in FileOf(C)
  BY DEF NoFile, FileOf, Places
<1>3. FilesInv
  <2>1. \A p \in Paths : FileInv(NoFile, p)
    BY <1>2 DEF FileInv, Contents
  <2> QED BY <2>1, <1>1 DEF FilesInv
<1>4. \A p \in Paths : Mains(p) = {Nothing}
  BY <1>1, <1>2 DEF Mains
<1>5. TaskInv
  <2>1. task = [op |-> task.op, todo |-> task.todo, doc |-> task.doc, rows |-> task.rows]
    BY <1>1 DEF NoTask
  <2> QED BY <1>1, <2>1, FreshCalls DEF TaskInv
<1>6. MemInv
  <2>1. Len(<<>>) = 0 /\ Capacity \in Nat /\ <<>> \in Seq(Rows(Names))
    BY DocumentConstants DEF DocumentConstants
  <2>2. /\ tried.settings = {} /\ tried.rows = {} /\ tried.secrets = [id \in SecretIds |-> {}]
        /\ tried = [settings |-> {}, rows |-> {}, secrets |-> tried.secrets]
    BY <1>1 DEF NoTries
  <2>3. tried \in [settings : SUBSET Settings, rows : SUBSET Saved,
                   secrets : [SecretIds -> SUBSET ({Nothing} \cup SecretRecords)]]
    BY <2>2
  <2> QED BY <1>1, <2>1, <2>3 DEF MemInv
<1>7. WholeInv /\ SavedInv
  BY <1>1, <1>4, Kinds DEF WholeInv, SavedInv
<1>8. CurrentInv
  <2>1. \A c \in {Nothing} : c \notin SettingsDocuments
    BY Kinds, DocumentFacts
  <2> QED BY <1>1, <1>4, <2>1, PathFacts DEF CurrentInv, Wanted
<1>9. SecretsInv
  <2>1. \A id \in SecretIds : LoadSecret(id, Nothing) = Nothing /\ secrets[id] = Nothing
    BY SecretRead, <1>1
  <2> QED BY <1>4, <2>1, PathFacts DEF SecretsInv, Expected
<1>11. HistoryInv
  <2>1. LoadHistory(Nothing).rows = <<>> /\ mem.rows = <<>>
    BY <1>1, HistoryRead
  <2>2. ReloadedRows(<<>>) = <<>>
    BY DEF ReloadedRows
  <2>3. <<>> \in ReadableRows
    BY <2>1, <2>2 DEF ReadableRows
  <2> QED BY <1>4, <2>1, <2>3, PathFacts DEF HistoryInv
<1> QED BY <1>3, <1>5, <1>6, <1>7, <1>8, <1>9, <1>11 DEF Base

(* An operation under way is one of the three kinds, its call sound. *)
LEMMA WorkFacts ==
  ASSUME Base, task # NoTask
  PROVE  /\ up /\ call.path \in Paths /\ FileInv(File, call.path) /\ CallShape(call) /\ StepInv(File, call)
         /\ SettingsWork \/ SecretWork \/ HistoryWork
BY DEF Base, FilesInv, TaskInv, CallShape, File

(* A call of the operating system advances the file of the operation under    *)
(* way.                                                                       *)
LEMMA DiskCallMoves ==
  ASSUME Base, DiskCall
  PROVE  /\ task # NoTask
         /\ UNCHANGED <<up, task, mem, secrets, tried, damaged>>
         /\ \E f : /\ files' = [files EXCEPT ![call.path] = f]
                   /\ Advances(File, call, f, call')
<1>1. PICK ok \in BOOLEAN : StoreStep(ok)
  BY DEF DiskCall
<1>2. call.step # "Idle"
  BY <1>1 DEF StoreStep, CreateTemporary, FillTemporary, FlushTemporary, ReplaceDestination,
       WriteThrough, RemoveMain, RemoveTemp, Step
<1>3. task # NoTask
  BY <1>2, FreshCalls DEF Base, TaskInv
<1>4. CallShape(call) /\ FileInv(File, call.path) /\ StepInv(File, call)
  BY <1>3, WorkFacts
<1>5. \E f : files' = [files EXCEPT ![call.path] = f] /\ Advances(File, call, f, call')
  BY <1>1, <1>4, StoreAdvances, Zenon
<1> QED BY <1>3, <1>5 DEF DiskCall

(* It leaves the other files alone. *)
LEMMA DiskCallFiles ==
  ASSUME Base, DiskCall
  PROVE  /\ task # NoTask /\ UNCHANGED <<up, task, mem, secrets, tried, damaged>>
         /\ files' = [p \in Paths |-> files'[p]]
         /\ Advances(files[call.path], call, files'[call.path], call')
         /\ \A p \in Paths \ {call.path} : files'[p] = files[p]
         /\ call.path \in Paths
<1>1. PICK f : files' = [files EXCEPT ![call.path] = f] /\ Advances(File, call, f, call')
  BY DiskCallMoves
<1>2. task # NoTask /\ UNCHANGED <<up, task, mem, secrets, tried, damaged>>
  BY DiskCallMoves
<1>3. call.path \in Paths /\ files = [p \in Paths |-> files[p]]
  BY <1>2, WorkFacts DEF Base, FilesInv
<1>4. files'[call.path] = f /\ (\A p \in Paths \ {call.path} : files'[p] = files[p])
      /\ files' = [p \in Paths |-> files'[p]]
  BY <1>1, <1>3
<1> QED BY <1>1, <1>2, <1>3, <1>4 DEF File

(* It keeps the files, the operation and the memory sound. *)
LEMMA DiskCallBase ==
  ASSUME Base, DiskCall
  PROVE  Base'
<1>1. /\ task # NoTask /\ UNCHANGED <<up, task, mem, secrets, tried, damaged>>
      /\ files' = [p \in Paths |-> files'[p]]
      /\ Advances(files[call.path], call, files'[call.path], call')
      /\ \A p \in Paths \ {call.path} : files'[p] = files[p]
      /\ call.path \in Paths
  BY DiskCallFiles
<1>2. /\ CallShape(call') /\ call'.path = call.path /\ call'.doc = call.doc /\ call'.step # "Idle"
      /\ FileInv(files'[call.path], call.path) /\ StepInv(files'[call.path], call')
  BY <1>1 DEF Advances
<1>3. FilesInv'
  BY <1>1, <1>2 DEF Base, FilesInv
<1>4. up /\ (SettingsWork \/ SecretWork \/ HistoryWork)
  BY <1>1, WorkFacts
<1>5. SettingsWork => SettingsWork'
  <2>1. call.path = "settings.bak" => files'["settings"] = files["settings"]
    BY <1>1, PathFacts
  <2> QED BY <1>1, <1>2, <2>1 DEF SettingsWork
<1>6. (SecretWork => SecretWork') /\ (HistoryWork => HistoryWork')
  BY <1>1, <1>2 DEF SecretWork, HistoryWork
<1>7. TaskInv'
  <2>1. CallShape(call') /\ StepInv(files'[call'.path], call')
    BY <1>2
  <2> QED BY <2>1, <1>1, <1>2, <1>4, <1>5, <1>6 DEF Base, TaskInv
<1>8. MemInv'
  BY <1>1 DEF Base, MemInv
<1> QED BY <1>3, <1>7, <1>8 DEF Base

(* It adds nothing but the document to what its path may read as. *)
LEMMA DiskCallMains ==
  ASSUME Base, DiskCall, NEW p \in Paths
  PROVE  /\ Mains(p)' \subseteq Mains(p) \cup (IF p = call.path THEN {call.doc} ELSE {})
         /\ p # call.path => Mains(p)' = Mains(p) /\ files'[p] = files[p]
<1>1. /\ Advances(files[call.path], call, files'[call.path], call')
      /\ \A q \in Paths \ {call.path} : files'[q] = files[q]
  BY DiskCallFiles
<1>2. CASE p = call.path
  BY <1>1, <1>2 DEF Advances, Mains
<1>3. CASE p # call.path
  BY <1>1, <1>3 DEF Mains
<1> QED BY <1>2, <1>3

(* What the operation under way writes where. *)
LEMMA WorkWrites ==
  ASSUME Base, task # NoTask
  PROVE  /\ call.path \in {"settings", "settings.bak"} =>
              /\ SettingsWork /\ call.doc \in SettingsDocuments
              /\ call.path = "settings" => call.doc.value[1] \in tried.settings
              /\ call.path = "settings.bak" => call.doc = files["settings"].main
         /\ call.path = "history" => HistoryWork /\ task.rows \in Saved
         /\ call.path \in SecretIds => SecretWork
         /\ call.doc # Torn
<1>1. SettingsWork \/ SecretWork \/ HistoryWork
  BY WorkFacts
<1>2. call.doc \in {Nothing} \cup Documents(call.path) /\ call.path \in Paths
  BY WorkFacts DEF CallShape
<1>3. CASE SettingsWork
  <2>1. PICK s \in tried.settings : task.doc = SettingsDocument(s)
    BY <1>3 DEF SettingsWork
  <2>2. s \in Settings
    BY DEF Base, MemInv
  <2>3. task.doc \in SettingsDocuments /\ task.doc.value[1] = s
    BY <2>1, <2>2, DocumentFacts DEF SettingsDocuments
  <2>4. \/ call.path = "settings" /\ call.doc = task.doc
        \/ call.path = "settings.bak" /\ call.doc = files["settings"].main /\ call.doc # Nothing
    BY <1>3 DEF SettingsWork
  <2> QED BY <1>2, <1>3, <2>3, <2>4, DocumentFacts, PathFacts, Kinds
<1>4. CASE SecretWork
  BY <1>2, <1>4, DocumentFacts, PathFacts, Kinds DEF SecretWork
<1>5. CASE HistoryWork
  <2>1. task.rows \in Saved /\ call.path = "history"
    BY <1>5 DEF HistoryWork, Base, MemInv
  <2> QED BY <1>2, <1>5, <2>1, PathFacts, DocumentFacts, Kinds
<1> QED BY <1>1, <1>3, <1>4, <1>5

(* No destination becomes torn by a call, failed or not. *)
LEMMA DiskCallWhole ==
  ASSUME Base, DiskCall, WholeInv
  PROVE  WholeInv'
<1>1. task # NoTask /\ UNCHANGED damaged
  BY DiskCallFiles
<1>2. call.doc # Torn
  BY <1>1, WorkWrites
<1>3. \A p \in Paths \ damaged : Torn \notin Mains(p)'
  BY <1>2, DiskCallMains DEF WholeInv
<1> QED BY <1>1, <1>3 DEF WholeInv

(* Saved settings stay there: nothing removes them. *)
LEMMA DiskCallSaved ==
  ASSUME Base, DiskCall, SavedInv
  PROVE  SavedInv'
<1>1. task # NoTask /\ UNCHANGED mem
  BY DiskCallFiles
<1>2. call.path \in {"settings", "settings.bak"} => call.doc # Nothing
  BY <1>1, WorkWrites, Kinds, DocumentFacts
<1>3. \A p \in {"settings", "settings.bak"} : Nothing \notin Mains(p) => Nothing \notin Mains(p)'
  BY <1>2, DiskCallMains, PathFacts
<1> QED BY <1>1, <1>3 DEF SavedInv

(* While settings are written the reader finds the old ones or the new ones:  *)
(* the backup is written from the primary, and before it.                     *)
LEMMA DiskCallCurrent ==
  ASSUME Base, DiskCall, CurrentInv
  PROVE  CurrentInv'
<1>1. task # NoTask /\ UNCHANGED <<up, mem, tried, damaged>>
  BY DiskCallFiles
<1>2. up
  BY <1>1, WorkFacts
<1>3. call.path \in {"settings", "settings.bak"} => call.doc # Nothing
  BY <1>1, WorkWrites, Kinds, DocumentFacts
<1>4. \A p \in {"settings", "settings.bak"} : Nothing \in Mains(p)' => Nothing \in Mains(p)
  BY <1>3, DiskCallMains, PathFacts
<1>5. Wanted' = Wanted
  BY <1>1 DEF Wanted
<1>6. ASSUME "settings" \notin damaged, NEW c \in Mains("settings")', c \in SettingsDocuments
      PROVE  c.value[1] \in Wanted
  <2>1. c \in Mains("settings") \/ (call.path = "settings" /\ c = call.doc)
    BY DiskCallMains, PathFacts
  <2>2. c \in Mains("settings") => c.value[1] \in Wanted
    BY <1>2, <1>6 DEF CurrentInv
  <2>3. call.path = "settings" => call.doc.value[1] \in Wanted
    BY <1>1, WorkWrites DEF Wanted
  <2> QED BY <2>1, <2>2, <2>3
<1>7. ASSUME damaged \cap {"settings", "settings.bak"} = {}, Nothing \in Mains("settings")',
             NEW c \in Mains("settings.bak")', c \in SettingsDocuments
      PROVE  c.value[1] \in Wanted
  <2>1. c \in Mains("settings.bak") \/ (call.path = "settings.bak" /\ c = call.doc)
    BY DiskCallMains, PathFacts
  <2>2. c \in Mains("settings.bak") => c.value[1] \in Wanted
    BY <1>2, <1>4, <1>7 DEF CurrentInv
  <2>3. call.path = "settings.bak" => call.doc \in Mains("settings")
    BY <1>1, WorkWrites DEF Mains
  <2>4. \A d \in Mains("settings") : d \in SettingsDocuments => d.value[1] \in Wanted
    BY <1>2, <1>7 DEF CurrentInv
  <2> QED BY <2>1, <2>2, <2>3, <2>4, <1>7
<1>8. Nothing \in Mains("settings")' /\ Nothing \in Mains("settings.bak")' => Defaults \in Wanted
  BY <1>2, <1>4 DEF CurrentInv
<1> QED BY <1>1, <1>5, <1>6, <1>7, <1>8 DEF CurrentInv

(* A secret is read as it was, or as the operation under way writes it. *)
LEMMA DiskCallSecrets ==
  ASSUME Base, DiskCall, SecretsInv
  PROVE  SecretsInv'
<1>1. task # NoTask /\ UNCHANGED <<secrets, tried, damaged>>
  BY DiskCallFiles
<1>2. \A id \in SecretIds : Expected(id)' = Expected(id)
  BY <1>1 DEF Expected
<1>3. ASSUME NEW id \in SecretIds, NEW c \in Mains(id)'
      PROVE  LoadSecret(id, c) \in Expected(id)
  <2>1. c \in Mains(id) \/ (call.path = id /\ c = call.doc)
    BY DiskCallMains, PathFacts
  <2>2. c \in Mains(id) => LoadSecret(id, c) \in Expected(id)
    BY DEF SecretsInv
  <2>3. CASE call.path = id
    <3>1. SecretWork
      BY <1>1, <2>3, WorkWrites
    <3>2. call.doc \in {Nothing} \cup Records(id) /\ call.doc \in tried.secrets[id]
      BY <2>3, <3>1 DEF SecretWork
    <3>3. LoadSecret(id, call.doc) \in Expected(id)
      BY <3>2, SecretRead DEF Expected
    <3> QED BY <2>1, <2>2, <3>3
  <2> QED BY <2>1, <2>2, <2>3
<1> QED BY <1>1, <1>2, <1>3 DEF SecretsInv

(* The history is read as it was, or as the save under way writes it. *)
LEMMA DiskCallHistory ==
  ASSUME Base, DiskCall, HistoryInv
  PROVE  HistoryInv'
<1>1. task # NoTask /\ UNCHANGED <<up, mem, tried, damaged>>
  BY DiskCallFiles
<1>2. ReadableRows' = ReadableRows
  BY <1>1 DEF ReadableRows
<1>3. ASSUME up, mem.recovery = "None", "history" \notin damaged, NEW c \in Mains("history")'
      PROVE  LoadHistory(c).rows \in ReadableRows
  <2>1. c \in Mains("history") \/ (call.path = "history" /\ c = call.doc)
    BY DiskCallMains, PathFacts
  <2>2. c \in Mains("history") => LoadHistory(c).rows \in ReadableRows
    BY <1>3 DEF HistoryInv
  <2>3. CASE call.path = "history"
    <3>1. task.rows \in Saved /\ task.rows \in tried.rows /\ call.doc = HistoryOf(task.rows)
      BY <1>1, <2>3, WorkWrites DEF HistoryWork
    <3>2. LoadHistory(call.doc).rows = ReloadedRows(task.rows)
      BY <3>1, HistoryRead
    <3>3. ReloadedRows(task.rows) \in ReadableRows
      BY <3>1 DEF ReadableRows
    <3> QED BY <2>1, <2>2, <3>2, <3>3
  <2> QED BY <2>1, <2>2, <2>3
<1> QED BY <1>1, <1>2, <1>3 DEF HistoryInv

------------------------------------------------------------------------------
(* Operations that begin. *)

(* What the stores promise, in terms of what each path may read as. *)
Topics == WholeInv /\ SavedInv /\ CurrentInv /\ SecretsInv /\ HistoryInv

(* A call of the operating system keeps every promise. *)
LEMMA DiskCallTopics ==
  ASSUME Base, DiskCall, Topics
  PROVE  Topics'
BY DiskCallWhole, DiskCallSaved, DiskCallCurrent, DiskCallSecrets, DiskCallHistory
   DEF Topics

(* More may be found than before: operations under way are only added. *)
TriesGrow ==
  /\ tried.settings \subseteq tried'.settings /\ tried.rows \subseteq tried'.rows
  /\ \A id \in SecretIds : tried.secrets[id] \subseteq tried'.secrets[id]

(* An operation that only begins keeps every promise. *)
LEMMA TopicsKept ==
  ASSUME Topics, UNCHANGED <<files, up, mem, secrets, damaged>>, TriesGrow
  PROVE  Topics'
<1>1. \A p : Mains(p)' = Mains(p)
  BY DEF Mains
<1>2. WholeInv' /\ SavedInv'
  BY <1>1 DEF Topics, WholeInv, SavedInv
<1>3. CurrentInv'
  <2>1. Wanted \subseteq Wanted'
    BY DEF Wanted, TriesGrow
  <2> QED BY <1>1, <2>1 DEF Topics, CurrentInv
<1>4. SecretsInv'
  <2>1. \A id \in SecretIds : Expected(id) \subseteq Expected(id)'
    BY DEF Expected, TriesGrow
  <2> QED BY <1>1, <2>1 DEF Topics, SecretsInv
<1>6. HistoryInv'
  <2>1. ReadableRows \subseteq ReadableRows'
    BY DEF ReadableRows, TriesGrow
  <2> QED BY <1>1, <2>1 DEF Topics, HistoryInv
<1> QED BY <1>2, <1>3, <1>4, <1>6 DEF Topics

(* The lists of one and of two calls. *)
LEMMA SeqFacts ==
  /\ \A a : <<>> \o <<a>> = <<a>> /\ Head(<<a>>) = a /\ Tail(<<a>>) = <<>> /\ <<a>> # <<>>
  /\ \A a, b : Head(<<a>> \o <<b>>) = a /\ Tail(<<a>> \o <<b>>) = <<b>>
<1>1. ASSUME NEW a
      PROVE  <<>> \o <<a>> = <<a>> /\ Head(<<a>>) = a /\ Tail(<<a>>) = <<>> /\ <<a>> # <<>>
  <2>1. <<>> \in Seq({a}) /\ <<a>> \in Seq({a})
    OBVIOUS
  <2>2. Head(<<a>>) = a /\ Tail(<<a>>) = <<>> /\ <<a>> # <<>>
    OBVIOUS
  <2>3. <<>> \o <<a>> = <<a>>
    BY <2>1, ConcatEmptySeq
  <2> QED BY <2>2, <2>3
<1>2. ASSUME NEW a, NEW b
      PROVE  Head(<<a>> \o <<b>>) = a /\ Tail(<<a>> \o <<b>>) = <<b>>
  <2>1. <<a>> \o <<b>> = <<a, b>>
    <3>1. <<a>> \in Seq({a, b}) /\ <<b>> \in Seq({a, b}) /\ <<a, b>> \in Seq({a, b})
      OBVIOUS
    <3>2. Len(<<a>>) = 1 /\ Len(<<b>>) = 1 /\ Len(<<a, b>>) = 2
      OBVIOUS
    <3>3. <<a>> \o <<b>> \in Seq({a, b}) /\ Len(<<a>> \o <<b>>) = 2
      BY <3>1, <3>2
    <3>4. (<<a>> \o <<b>>)[1] = a /\ (<<a>> \o <<b>>)[2] = b
      BY <3>1, <3>2
    <3>5. \A i \in 1 .. 2 : (<<a>> \o <<b>>)[i] = <<a, b>>[i]
      BY <3>4
    <3> QED BY <3>1, <3>2, <3>3, <3>5, SeqEqual
  <2>2. Head(<<a, b>>) = a /\ Tail(<<a, b>>) = <<b>>
    OBVIOUS
  <2> QED BY <2>1, <2>2
<1> QED BY <1>1, <1>2

(* The operation that begins is sound. *)
LEMMA Begun ==
  ASSUME Base, NEW op, NEW todo, NEW doc, NEW rows, Begin(op, todo, doc, rows), op # "None",
         Head(todo).path \in Paths, CallShape(Head(todo)), Head(todo).step # "Idle",
         \A f : StepInv(f, Head(todo)), MemInv',
         (SettingsWork \/ SecretWork \/ HistoryWork)'
  PROVE  Base'
<1>1. /\ task' = [op |-> op, todo |-> Tail(todo), doc |-> doc, rows |-> rows]
      /\ call' = Head(todo) /\ UNCHANGED <<files, up, mem, secrets, damaged>> /\ up
  BY DEF Begin
<1>2. FilesInv'
  BY <1>1 DEF Base, FilesInv
<1>3. task' # NoTask
  BY <1>1 DEF NoTask
<1>4. task' = [op |-> task'.op, todo |-> task'.todo, doc |-> task'.doc, rows |-> task'.rows]
  BY <1>1
<1>5. TaskInv'
  BY <1>1, <1>3, <1>4 DEF TaskInv
<1> QED BY <1>2, <1>5 DEF Base

(* The parts of what was tried. *)
LEMMA TriedTypes ==
  ASSUME Base
  PROVE  /\ tried = [settings |-> tried.settings, rows |-> tried.rows, secrets |-> tried.secrets]
         /\ tried.settings \subseteq Settings /\ tried.rows \subseteq Saved
         /\ tried.secrets \in [SecretIds -> SUBSET ({Nothing} \cup SecretRecords)]
BY DEF Base, MemInv

(* Saving settings begins, with the backup if the primary reads as settings. *)
LEMMA SaveSettingsKeeps ==
  ASSUME Base, Topics, SaveSettings
  PROVE  Base' /\ Topics'
<1>0. PICK s \in Settings :
        LET doc == SettingsDocument(s)
        IN  /\ Begin("Settings", Backup(files["settings"].main) \o <<WriteAtomic("settings", doc)>>,
                     doc, <<>>)
            /\ tried' = [tried EXCEPT !.settings = @ \cup {s}]
  BY DEF SaveSettings
<1> DEFINE doc == SettingsDocument(s)
           main == files["settings"].main
           w == WriteAtomic("settings", doc)
           todo == Backup(main) \o <<w>>
<1>1. Begin("Settings", todo, doc, <<>>) /\ tried' = [tried EXCEPT !.settings = @ \cup {s}]
  BY <1>0
<1>2. doc \in SettingsDocuments
  BY DEF SettingsDocuments
<1>3. main \in {Nothing, Torn} \cup SettingsDocuments
  BY PathFacts, DocumentFacts, FileFields DEF Base, FilesInv, FileInv, Contents
<1>4. \/ todo = <<w>> 
      \/ main \in SettingsDocuments /\ todo = <<WriteAtomic("settings.bak", main)>> \o <<w>>
  <2>1. CASE main.kind = "Document"
    <3>1. main \in SettingsDocuments
      BY <1>3, <2>1, Kinds
    <3>2. Backup(main) = <<WriteAtomic("settings.bak", main)>>
      BY <2>1 DEF Backup
    <3> QED BY <3>1, <3>2
  <2>2. CASE main.kind # "Document"
    <3>1. Backup(main) = <<>>
      BY <2>2 DEF Backup
    <3> HIDE DEF w
    <3> QED BY <3>1, SeqFacts
  <2> QED BY <2>1, <2>2
<1>5. /\ task'.op = "Settings" /\ task'.doc = doc /\ task'.todo = Tail(todo) /\ call' = Head(todo)
      /\ UNCHANGED <<files, up, mem, secrets, damaged>>
  BY <1>1 DEF Begin
<1>6. /\ tried'.settings = tried.settings \cup {s} /\ tried'.rows = tried.rows /\ tried'.secrets = tried.secrets
      /\ MemInv'
  <2>1. tried' = [settings |-> tried.settings \cup {s}, rows |-> tried.rows, secrets |-> tried.secrets]
    BY <1>1, TriedTypes
  <2> QED BY <2>1, <1>5, TriedTypes DEF Base, MemInv
<1>7. SettingsWork'
      /\ CallShape(Head(todo)) /\ Head(todo).step # "Idle" /\ Head(todo).path \in Paths
      /\ \A f : StepInv(f, Head(todo))
  <2>0. \E t \in tried'.settings : doc = SettingsDocument(t)
    BY <1>6
  <2>1. CASE todo = <<w>>
    <3>1. Head(todo) = w /\ Tail(todo) = <<>>
      <4> HIDE DEF w, todo
      <4> QED BY <2>1, SeqFacts
    <3>2. /\ CallShape(w) /\ w.step = "Create" /\ w.path = "settings" /\ w.doc = doc
          /\ \A f : StepInv(f, w)
      BY <1>2, FreshCalls, PathFacts, DocumentFacts
    <3> HIDE DEF w, todo, doc
    <3> QED BY <3>1, <3>2, <2>0, <1>5, PathFacts DEF SettingsWork
  <2>2. CASE main \in SettingsDocuments /\ todo = <<WriteAtomic("settings.bak", main)>> \o <<w>>
    <3> DEFINE v == WriteAtomic("settings.bak", main)
    <3>1. Head(todo) = v /\ Tail(todo) = <<w>>
      <4> HIDE DEF w, v
      <4> QED BY <2>2, SeqFacts DEF v
    <3>2. /\ CallShape(v) /\ v.step = "Create" /\ v.path = "settings.bak" /\ v.doc = main
          /\ \A f : StepInv(f, v)
      BY <2>2, FreshCalls, PathFacts, DocumentFacts
    <3>3. main # Nothing
      BY <2>2, Kinds, DocumentFacts
    <3>4. task'.todo = <<WriteAtomic("settings", task'.doc)>>
      BY <3>1, <1>5
    <3> HIDE DEF v, w, todo, doc
    <3> QED BY <3>1, <3>2, <3>3, <3>4, <2>0, <1>5, PathFacts DEF SettingsWork
  <2> QED BY <1>4, <2>1, <2>2
<1>8. Base'
  <2> HIDE DEF todo, doc
  <2>1. "Settings" # "None"
    OBVIOUS
  <2> QED BY <1>1, <1>6, <1>7, <2>1, Begun
<1>9. TriesGrow
  BY <1>6 DEF TriesGrow
<1> QED BY <1>5, <1>8, <1>9, TopicsKept

(* Storing a secret begins. *)
LEMMA StoreSecretKeeps ==
  ASSUME Base, Topics, StoreSecret
  PROVE  Base' /\ Topics'
<1>0. PICK id \in SecretIds, v \in SecretValues :
        /\ Begin("Secret", <<WriteAtomic(id, SecretRecord(id, v))>>, SecretRecord(id, v), <<>>)
        /\ tried' = [tried EXCEPT !.secrets[id] = @ \cup {SecretRecord(id, v)}]
  BY DEF StoreSecret
<1> DEFINE doc == SecretRecord(id, v)
           w == WriteAtomic(id, doc)
           todo == <<w>>
<1>1. Begin("Secret", todo, doc, <<>>) /\ tried' = [tried EXCEPT !.secrets[id] = @ \cup {doc}]
  BY <1>0
<1>2. doc \in SecretRecords /\ doc \in Records(id) /\ doc \in Documents(id) /\ doc # Nothing
  <2>1. doc \in SecretRecords /\ doc \in Records(id) /\ doc \in Documents(id)
    BY DocumentFacts DEF SecretRecords, Records
  <2>2. doc # Nothing
    BY <2>1, PathFacts, Kinds
  <2> QED BY <2>1, <2>2
<1>3. Head(todo) = w /\ Tail(todo) = <<>>
  BY SeqFacts
<1>4. /\ CallShape(w) /\ w.step = "Create" /\ w.path = id /\ w.doc = doc
      /\ \A f : StepInv(f, w)
  BY <1>2, FreshCalls, PathFacts
<1> HIDE DEF todo, doc, w
<1>5. /\ task'.op = "Secret" /\ task'.doc = doc /\ task'.todo = <<>> /\ call' = w
      /\ UNCHANGED <<files, up, mem, secrets, damaged>>
  BY <1>1, <1>3 DEF Begin
<1>6. /\ tried'.settings = tried.settings /\ tried'.rows = tried.rows
      /\ tried'.secrets = [tried.secrets EXCEPT ![id] = @ \cup {doc}]
      /\ tried' = [settings |-> tried.settings, rows |-> tried.rows, secrets |-> tried'.secrets]
  BY <1>1, TriedTypes
<1>7. /\ tried'.secrets \in [SecretIds -> SUBSET ({Nothing} \cup SecretRecords)]
      /\ doc \in tried'.secrets[id] /\ TriesGrow
  BY <1>2, <1>6, TriedTypes DEF TriesGrow
<1>8. MemInv'
  BY <1>5, <1>6, <1>7, TriedTypes DEF Base, MemInv
<1>9. SecretWork'
  BY <1>2, <1>4, <1>5, <1>7 DEF SecretWork
<1>10. Base'
  <2>1. "Secret" # "None" /\ w.step # "Idle" /\ w.path \in Paths
    BY <1>4, PathFacts
  <2> QED BY <1>1, <1>3, <1>4, <1>8, <1>9, <2>1, Begun
<1> QED BY <1>5, <1>7, <1>10, TopicsKept

(* Erasing a secret begins. *)
LEMMA EraseSecretKeeps ==
  ASSUME Base, Topics, EraseSecret
  PROVE  Base' /\ Topics'
<1>0. PICK id \in SecretIds :
        /\ Begin("Erase", <<Erase(id)>>, Nothing, <<>>)
        /\ tried' = [tried EXCEPT !.secrets[id] = @ \cup {Nothing}]
  BY DEF EraseSecret
<1> DEFINE w == Erase(id)
           todo == <<w>>
<1>1. Begin("Erase", todo, Nothing, <<>>) /\ tried' = [tried EXCEPT !.secrets[id] = @ \cup {Nothing}]
  BY <1>0
<1>3. Head(todo) = w /\ Tail(todo) = <<>>
  BY SeqFacts
<1>4. /\ CallShape(w) /\ w.step = "RemoveMain" /\ w.path = id /\ w.doc = Nothing
      /\ \A f : StepInv(f, w)
  BY FreshCalls, PathFacts
<1> HIDE DEF todo, w
<1>5. /\ task'.op = "Erase" /\ task'.doc = Nothing /\ task'.todo = <<>> /\ call' = w
      /\ UNCHANGED <<files, up, mem, secrets, damaged>>
  BY <1>1, <1>3 DEF Begin
<1>6. /\ tried'.settings = tried.settings /\ tried'.rows = tried.rows
      /\ tried'.secrets = [tried.secrets EXCEPT ![id] = @ \cup {Nothing}]
      /\ tried' = [settings |-> tried.settings, rows |-> tried.rows, secrets |-> tried'.secrets]
  BY <1>1, TriedTypes
<1>7. /\ tried'.secrets \in [SecretIds -> SUBSET ({Nothing} \cup SecretRecords)]
      /\ Nothing \in tried'.secrets[id] /\ TriesGrow
  BY <1>6, TriedTypes DEF TriesGrow
<1>8. MemInv'
  BY <1>5, <1>6, <1>7, TriedTypes DEF Base, MemInv
<1>9. SecretWork'
  BY <1>4, <1>5, <1>7 DEF SecretWork
<1>10. Base'
  <2>1. "Erase" # "None" /\ w.step # "Idle" /\ w.path \in Paths
    BY <1>4, PathFacts
  <2> QED BY <1>1, <1>3, <1>4, <1>8, <1>9, <2>1, Begun
<1> QED BY <1>5, <1>7, <1>10, TopicsKept

(* Saving the history begins, unless the document could not hold the rows. *)
LEMMA MergeAndSaveKeeps ==
  ASSUME Base, Topics, MergeAndSave
  PROVE  Base' /\ Topics'
<1>0. PICK updates \in Updates :
        LET merged == MergeRecords(mem.rows, updates)
            doc == Document("history", EncodeHistory(merged))
        IN  /\ ValidRecords(updates, MaxRecords) /\ ValidRecords(merged, Capacity)
            /\ Begin("History", <<WriteAtomic("history", doc)>>, doc, merged)
            /\ tried' = [tried EXCEPT !.rows = @ \cup {merged}]
  BY DEF MergeAndSave
<1> DEFINE merged == MergeRecords(mem.rows, updates)
           doc == HistoryOf(merged)
           w == WriteAtomic("history", doc)
           todo == <<w>>
<1>1. /\ Begin("History", todo, doc, merged) /\ tried' = [tried EXCEPT !.rows = @ \cup {merged}]
      /\ ValidRecords(merged, Capacity)
  BY <1>0 DEF HistoryOf
<1>2. merged \in Saved
  <2>1. updates \in Seq(Rows(Names)) /\ mem.rows \in Seq(Rows(Names)) /\ Capacity \in Nat
    BY StorageConstants, DocumentConstants DEF StorageConstants, DocumentConstants, Base, MemInv
  <2>2. merged \in Seq(Rows(Names))
    BY <2>1, MergeKeepsRows
  <2> QED BY <1>1, <2>2 DEF Saved
<1> HIDE DEF merged
<1>3. doc \in Documents("history")
  BY <1>2, DocumentFacts
<1>4. Head(todo) = w /\ Tail(todo) = <<>>
  BY SeqFacts
<1>5. /\ CallShape(w) /\ w.step = "Create" /\ w.path = "history" /\ w.doc = doc
      /\ \A f : StepInv(f, w)
  BY <1>3, FreshCalls, PathFacts
<1> HIDE DEF todo, w
<1>6. /\ task'.op = "History" /\ task'.doc = doc /\ task'.rows = merged /\ task'.todo = <<>> /\ call' = w
      /\ UNCHANGED <<files, up, mem, secrets, damaged>>
  BY <1>1, <1>4 DEF Begin
<1>7. /\ tried'.settings = tried.settings /\ tried'.secrets = tried.secrets
      /\ tried'.rows = tried.rows \cup {merged}
      /\ tried' = [settings |-> tried.settings, rows |-> tried'.rows, secrets |-> tried.secrets]
  BY <1>1, TriedTypes
<1>8. tried'.rows \subseteq Saved /\ TriesGrow
  BY <1>2, <1>7, TriedTypes DEF TriesGrow
<1>9. MemInv'
  BY <1>6, <1>7, <1>8, TriedTypes DEF Base, MemInv
<1>10. HistoryWork'
  BY <1>5, <1>6, <1>7 DEF HistoryWork
<1>11. Base'
  <2>1. "History" # "None" /\ w.step # "Idle" /\ w.path \in Paths
    BY <1>5, PathFacts
  <2> HIDE DEF doc
  <2> QED BY <1>1, <1>4, <1>5, <1>9, <1>10, <2>1, Begun
<1> QED BY <1>6, <1>8, <1>11, TopicsKept

------------------------------------------------------------------------------
(* Operations that end. *)

(* An add-on without an operation under way is sound. *)
LEMMA IdleTask ==
  ASSUME FilesInv', MemInv', call' = IdleCall, task' = NoTask,
         ~up' => \A p \in Paths : files'[p].old.main = files'[p].main
  PROVE  Base'
<1>1. task' = [op |-> task'.op, todo |-> task'.todo, doc |-> task'.doc, rows |-> task'.rows]
  BY DEF NoTask
<1>2. TaskInv'
  BY <1>1, FreshCalls DEF TaskInv
<1> QED BY <1>2 DEF Base

(* The three outcomes of Finish: the backup is written and the primary comes  *)
(* next, the operation is done, or it failed.                                 *)
FinishFirst ==
  /\ call.step = "Done" /\ task.todo # <<>>
  /\ call' = Head(task.todo) /\ task' = [task EXCEPT !.todo = Tail(@)]
  /\ damaged' = damaged \ {call.path}
  /\ UNCHANGED <<files, up, mem, secrets, tried, spent>>
FinishLast ==
  /\ call.step = "Done" /\ task.todo = <<>>
  /\ mem' = CASE task.op = "Settings" -> [mem EXCEPT !.settings = task.doc.value[1],
                                                    !.source = "Primary"]
              [] task.op = "History" -> [mem EXCEPT !.rows = task.rows, !.recovery = "None"]
              [] OTHER -> mem
  /\ secrets' = IF task.op \in {"Secret", "Erase"} THEN [secrets EXCEPT ![call.path] = task.doc]
                ELSE secrets
  /\ tried' = CASE task.op = "Settings" -> [tried EXCEPT !.settings = {}]
                [] task.op = "History" -> [tried EXCEPT !.rows = {}]
                [] task.op = "Secret" -> [tried EXCEPT !.secrets[call.path] = {}]
                [] task.op = "Erase" -> [tried EXCEPT !.secrets[call.path] = @ \cup {secrets[call.path]}]
  /\ damaged' = IF task.op = "Erase" THEN damaged ELSE damaged \ {call.path}
  /\ call' = IdleCall /\ task' = NoTask
  /\ UNCHANGED <<files, up, spent>>
FinishFailed ==
  /\ call.step = "Failed"
  /\ mem' = AfterFailure(mem)
  /\ call' = IdleCall /\ task' = NoTask
  /\ UNCHANGED <<files, up, secrets, tried, damaged, spent>>

(* Finish has no other outcome. *)
LEMMA FinishSplit == Finish => FinishFirst \/ FinishLast \/ FinishFailed
BY DEF Finish, FinishFirst, FinishLast, FinishFailed

(* What a call that is done left: the document where it belongs and, for a    *)
(* write, durably; a removal is not durable.                                  *)
LEMMA DoneFacts ==
  ASSUME Base, call.step = "Done"
  PROVE  /\ task # NoTask /\ call.path \in Paths
         /\ files[call.path].main = call.doc /\ files[call.path].temp = Nothing
         /\ call.doc # Nothing => Mains(call.path) = {call.doc}
<1>1. task # NoTask
  BY FreshCalls DEF Base, TaskInv
<1>2. /\ call.path \in Paths /\ File.main = call.doc /\ File.temp = Nothing
      /\ call.doc # Nothing => File.old = [main |-> File.main, temp |-> File.temp]
  BY <1>1, WorkFacts DEF StepInv
<1> QED BY <1>1, <1>2 DEF File, Mains

(* After the backup the primary is written; the backup now holds what it      *)
(* held.                                                                      *)
LEMMA FinishFirstKeeps ==
  ASSUME Base, Topics, FinishFirst
  PROVE  Base' /\ Topics'
<1>1. task # NoTask /\ up
  BY DoneFacts, WorkFacts DEF FinishFirst
<1>2. /\ SettingsWork /\ task.todo = <<WriteAtomic("settings", task.doc)>>
      /\ call.path = "settings.bak" /\ call.doc = files["settings"].main
  BY <1>1, WorkFacts DEF FinishFirst, SettingsWork, SecretWork, HistoryWork
<1>3. PICK s \in tried.settings : task.doc = SettingsDocument(s)
  BY <1>2 DEF SettingsWork
<1> DEFINE w == WriteAtomic("settings", task.doc)
<1>4. task.doc \in SettingsDocuments
  BY <1>3, TriedTypes DEF SettingsDocuments
<1>5. /\ CallShape(w) /\ w.step = "Create" /\ w.path = "settings" /\ w.doc = task.doc
      /\ \A f : StepInv(f, w)
  BY <1>4, FreshCalls, PathFacts, DocumentFacts
<1> HIDE DEF w
<1>6. Head(task.todo) = w /\ Tail(task.todo) = <<>>
  BY <1>2, SeqFacts DEF w
<1>7. /\ UNCHANGED <<files, up, mem, secrets, tried>> /\ call' = w
      /\ damaged' = damaged \ {"settings.bak"}
  BY <1>2, <1>6 DEF FinishFirst
<1>8. task' = [op |-> "Settings", todo |-> <<>>, doc |-> task.doc, rows |-> task.rows]
  <2>1. task = [op |-> task.op, todo |-> task.todo, doc |-> task.doc, rows |-> task.rows]
    BY DEF Base, TaskInv
  <2>2. task' = [task EXCEPT !.todo = <<>>] /\ task.op = "Settings"
    BY <1>2, <1>6 DEF FinishFirst, SettingsWork
  <2> QED BY <2>1, <2>2
<1>9. /\ task'.op = "Settings" /\ task'.todo = <<>> /\ task'.doc = task.doc /\ task' # NoTask
      /\ task' = [op |-> task'.op, todo |-> task'.todo, doc |-> task'.doc, rows |-> task'.rows]
  BY <1>8 DEF NoTask
<1>10. SettingsWork'
  BY <1>3, <1>5, <1>7, <1>9 DEF SettingsWork
<1>11. Base'
  <2>1. FilesInv' /\ MemInv'
    BY <1>7 DEF Base, FilesInv, MemInv
  <2>2. TaskInv'
    BY <1>1, <1>5, <1>7, <1>9, <1>10 DEF TaskInv
  <2> QED BY <2>1, <2>2 DEF Base
<1>12. \A p : Mains(p)' = Mains(p)
  BY <1>7 DEF Mains
<1>13. Mains("settings.bak") = {files["settings"].main} /\ files["settings"].main # Torn
  <2>1. call.doc \in SettingsDocuments
    BY <1>1, <1>2, WorkWrites
  <2> QED BY <2>1, <1>2, DoneFacts, Kinds, DocumentFacts DEF FinishFirst
<1>14. WholeInv' /\ SavedInv'
  BY <1>7, <1>12, <1>13 DEF Topics, WholeInv, SavedInv
<1>15. CurrentInv'
  <2>1. files["settings"].main \in Mains("settings")
    BY DEF Mains
  <2>2. Wanted' = Wanted
    BY <1>7 DEF Wanted
  <2>3. "settings" \notin damaged =>
           \A c \in Mains("settings") : c \in SettingsDocuments => c.value[1] \in Wanted
    BY <1>1 DEF Topics, CurrentInv
  <2>4. Nothing \in Mains("settings") /\ Nothing \in Mains("settings.bak") => Defaults \in Wanted
    BY <1>1 DEF Topics, CurrentInv
  <2>5. "settings" \notin damaged =>
           \A c \in Mains("settings.bak") : c \in SettingsDocuments => c.value[1] \in Wanted
    BY <1>13, <2>1, <2>3
  <2>6. damaged' \cap {"settings", "settings.bak"} = {} => "settings" \notin damaged
    BY <1>7
  <2>7. "settings" \notin damaged' => "settings" \notin damaged
    BY <1>7
  <2> QED BY <1>12, <2>2, <2>3, <2>4, <2>5, <2>6, <2>7 DEF CurrentInv
<1>16. SecretsInv'
  <2>1. \A id \in SecretIds : Expected(id)' = Expected(id)
    BY <1>7, PathFacts DEF Expected
  <2> QED BY <1>12, <2>1 DEF Topics, SecretsInv
<1>18. HistoryInv'
  <2>1. "history" \in damaged' <=> "history" \in damaged
    BY <1>7
  <2> QED BY <1>7, <1>12, <2>1 DEF Topics, HistoryInv, ReadableRows
<1> QED BY <1>11, <1>14, <1>15, <1>16, <1>18 DEF Topics

(* An operation that fails changes nothing that is promised. *)
LEMMA FinishFailedKeeps ==
  ASSUME Base, Topics, FinishFailed
  PROVE  Base' /\ Topics'
<1>1. UNCHANGED <<files, up, mem, secrets, tried, damaged>> /\ call' = IdleCall /\ task' = NoTask
  BY DEF FinishFailed, AfterFailure
<1>2. FilesInv' /\ MemInv' /\ (~up' => \A p \in Paths : files'[p].old.main = files'[p].main)
  BY <1>1 DEF Base, FilesInv, MemInv, TaskInv
<1>3. TriesGrow
  BY <1>1 DEF TriesGrow
<1> QED BY <1>1, <1>2, <1>3, IdleTask, TopicsKept

(* Settings that are saved become the ones in use. *)
LEMMA FinishSettings ==
  ASSUME Base, Topics, FinishLast, SettingsWork
  PROVE  Base' /\ Topics'
<1>1. /\ call.step = "Done" /\ task.todo = <<>> /\ task.op = "Settings"
      /\ UNCHANGED <<files, up>> /\ call' = IdleCall /\ task' = NoTask
  BY DEF FinishLast, SettingsWork
<1>2. task # NoTask /\ up
  BY <1>1, DoneFacts, WorkFacts
<1>3. call.path = "settings" /\ call.doc = task.doc
  BY <1>1, SeqFacts DEF SettingsWork
<1>4. PICK s \in tried.settings : task.doc = SettingsDocument(s)
  BY DEF SettingsWork
<1>5. s \in Settings /\ task.doc.value[1] = s /\ task.doc \in SettingsDocuments
  BY <1>4, TriedTypes, DocumentFacts DEF SettingsDocuments
<1>6. task.doc # Nothing /\ task.doc # Torn
  BY <1>5, Kinds, DocumentFacts
<1>7. Mains("settings") = {task.doc}
  BY <1>1, <1>3, <1>6, DoneFacts
<1>8. mem' = [mem EXCEPT !.settings = task.doc.value[1], !.source = "Primary"]
  <2>1. task.op = "Settings" /\ task.op # "History"
    BY <1>1
  <2> QED BY <2>1, Zenon DEF FinishLast
<1>9. tried' = [tried EXCEPT !.settings = {}]
  <2>1. task.op = "Settings" /\ task.op # "History" /\ task.op \notin {"Secret", "Erase"}
    BY <1>1
  <2> QED BY <2>1, Zenon DEF FinishLast
<1>10. secrets' = secrets /\ damaged' = damaged \ {"settings"}
  BY <1>1, <1>3, <1>7 DEF FinishLast
<1>11. /\ tried'.settings = {} /\ tried'.rows = tried.rows /\ tried'.secrets = tried.secrets
       /\ tried' = [settings |-> {}, rows |-> tried.rows, secrets |-> tried.secrets]
  BY <1>9, TriedTypes
<1>12. /\ mem'.settings = s /\ mem'.source = "Primary" /\ mem'.rows = mem.rows
       /\ mem'.recovery = mem.recovery
       /\ mem' \in [settings : Settings \cup {Defaults}, source : {"Primary", "Backup", "Defaults"},
                    rows : Seq(Rows(Names)), recovery : {"None", "InvalidDocument", "File"}]
  BY <1>5, <1>8 DEF Base, MemInv
<1>13. Base'
  <2>1. FilesInv' /\ (~up' => \A p \in Paths : files'[p].old.main = files'[p].main)
    BY <1>1 DEF Base, FilesInv, TaskInv
  <2>2. MemInv'
    BY <1>10, <1>11, <1>12, TriedTypes DEF Base, MemInv
  <2> QED BY <1>1, <2>1, <2>2, IdleTask
<1>14. \A p : Mains(p)' = Mains(p)
  BY <1>1 DEF Mains
<1>15. WholeInv'
  BY <1>6, <1>7, <1>10, <1>14 DEF Topics, WholeInv
<1>16. SavedInv'
  BY <1>6, <1>7, <1>14 DEF SavedInv
<1>17. CurrentInv'
  BY <1>5, <1>6, <1>7, <1>12, <1>14 DEF CurrentInv, Wanted
<1>18. SecretsInv'
  <2>1. \A id \in SecretIds : Expected(id)' = Expected(id)
    BY <1>10, <1>11, PathFacts DEF Expected
  <2> QED BY <1>14, <2>1 DEF Topics, SecretsInv
<1>20. HistoryInv'
  <2>1. ReadableRows' = ReadableRows /\ ("history" \in damaged' <=> "history" \in damaged)
    BY <1>10, <1>11, <1>12 DEF ReadableRows
  <2> QED BY <1>1, <1>12, <1>14, <2>1 DEF Topics, HistoryInv
<1> QED BY <1>13, <1>15, <1>16, <1>17, <1>18, <1>20 DEF Topics

(* A secret is what was stored, or erased for good if the removal is durable. *)
LEMMA FinishSecret ==
  ASSUME Base, Topics, FinishLast, SecretWork
  PROVE  Base' /\ Topics'
<1>0. PICK id \in SecretIds : call.path = id
  BY DEF SecretWork
<1>1. /\ call.step = "Done" /\ task.op \in {"Secret", "Erase"}
      /\ UNCHANGED <<files, up>> /\ call' = IdleCall /\ task' = NoTask
      /\ call.doc = task.doc /\ task.doc \in {Nothing} \cup Records(id) /\ task.doc \in tried.secrets[id]
  BY <1>0 DEF FinishLast, SecretWork
<1>2. mem' = mem
  <2>1. task.op # "Settings" /\ task.op # "History"
    BY <1>1
  <2> QED BY <2>1, Zenon DEF FinishLast
<1>3. secrets' = [secrets EXCEPT ![id] = task.doc]
  BY <1>0, <1>1 DEF FinishLast
<1>4. \/ task.doc # Nothing /\ tried' = [tried EXCEPT !.secrets[id] = {}] /\ damaged' = damaged \ {id}
      \/ task.doc = Nothing /\ tried' = [tried EXCEPT !.secrets[id] = @ \cup {secrets[id]}] /\ damaged' = damaged
  <2>1. task.op # "Settings" /\ task.op # "History"
    BY <1>1
  <2>2. task.op = "Secret" => tried' = [tried EXCEPT !.secrets[id] = {}]
    BY <1>0, <2>1, Zenon DEF FinishLast
  <2>3. task.op = "Erase" => tried' = [tried EXCEPT !.secrets[id] = @ \cup {secrets[id]}]
    BY <1>0, <2>1, Zenon DEF FinishLast
  <2>4. damaged' = IF task.op = "Erase" THEN damaged ELSE damaged \ {id}
    BY <1>0 DEF FinishLast
  <2>5. task.op = "Erase" <=> task.doc = Nothing
    BY DEF SecretWork
  <2> QED BY <1>1, <2>2, <2>3, <2>4, <2>5
<1>5. /\ files[id].main = task.doc /\ files[id].temp = Nothing
      /\ task.doc # Nothing => Mains(id) = {task.doc}
  BY <1>0, <1>1, DoneFacts
<1>6. /\ tried'.settings = tried.settings /\ tried'.rows = tried.rows
      /\ tried' = [settings |-> tried.settings, rows |-> tried.rows, secrets |-> tried'.secrets]
      /\ \/ task.doc # Nothing /\ tried'.secrets = [tried.secrets EXCEPT ![id] = {}] /\ damaged' = damaged \ {id}
         \/ task.doc = Nothing /\ tried'.secrets = [tried.secrets EXCEPT ![id] = @ \cup {secrets[id]}] /\ damaged' = damaged
  BY <1>4, TriedTypes
<1>7. secrets \in [SecretIds -> {Nothing} \cup SecretRecords] /\ task.doc \in {Nothing} \cup SecretRecords
  BY <1>1, DocumentFacts DEF Base, MemInv
<1>8. /\ tried'.secrets \in [SecretIds -> SUBSET ({Nothing} \cup SecretRecords)]
      /\ secrets' \in [SecretIds -> {Nothing} \cup SecretRecords]
  BY <1>3, <1>6, <1>7, TriedTypes
<1>9. Base'
  <2>1. FilesInv' /\ (~up' => \A p \in Paths : files'[p].old.main = files'[p].main)
    BY <1>1 DEF Base, FilesInv, TaskInv
  <2>2. MemInv'
    BY <1>2, <1>6, <1>8, TriedTypes DEF Base, MemInv
  <2> QED BY <1>1, <2>1, <2>2, IdleTask
<1>10. \A p : Mains(p)' = Mains(p)
  BY <1>1 DEF Mains
<1>11. "settings" # id /\ "settings.bak" # id /\ "history" # id
  BY PathFacts
<1>12. \A p : p # id => (p \in damaged' <=> p \in damaged)
  BY <1>6
<1>13. WholeInv'
  <2>1. id \in damaged /\ id \notin damaged' => Torn \notin Mains(id)
    <3>1. task.doc # Torn
      BY <1>7, Kinds, DocumentFacts, <1>1
    <3> QED BY <3>1, <1>5, <1>6
  <2> QED BY <1>10, <1>12, <2>1 DEF Topics, WholeInv
<1>14. SavedInv'
  BY <1>2, <1>10 DEF Topics, SavedInv
<1>15. CurrentInv'
  <2>1. Wanted' = Wanted
    BY <1>2, <1>6 DEF Wanted
  <2>2. /\ "settings" \in damaged' <=> "settings" \in damaged
        /\ "settings.bak" \in damaged' <=> "settings.bak" \in damaged
    BY <1>11, <1>12
  <2> QED BY <1>1, <1>10, <2>1, <2>2 DEF Topics, CurrentInv
<1>16. SecretsInv'
  <2>1. ASSUME NEW i \in SecretIds, NEW c \in Mains(i), i # id
        PROVE  LoadSecret(i, c) \in Expected(i)'
    <3>1. Expected(i)' = Expected(i)
      BY <1>3, <1>6, <1>7, TriedTypes, <2>1 DEF Expected
    <3> QED BY <3>1 DEF Topics, SecretsInv
  <2>2. ASSUME NEW c \in Mains(id)
        PROVE  LoadSecret(id, c) \in Expected(id)'
    <3>1. secrets'[id] = task.doc
      BY <1>3, <1>7, <1>11
    <3>2. CASE task.doc # Nothing
      <4>1. c = task.doc /\ LoadSecret(id, task.doc) = task.doc
        BY <1>1, <1>5, <3>2, <2>2, SecretRead
      <4> QED BY <4>1, <3>1 DEF Expected
    <3>3. CASE task.doc = Nothing
      <4>1. tried'.secrets[id] = tried.secrets[id] \cup {secrets[id]} /\ damaged' = damaged
        BY <1>6, <1>11, <3>3, TriedTypes
      <4>2. LoadSecret(id, c) \in Expected(id)
        BY <1>11 DEF Topics, SecretsInv
      <4>3. Expected(id) \subseteq Expected(id)'
        BY <4>1 DEF Expected
      <4> QED BY <4>2, <4>3
    <3> QED BY <3>2, <3>3
  <2> QED BY <1>10, <2>1, <2>2 DEF SecretsInv
<1>18. HistoryInv'
  <2>1. ReadableRows' = ReadableRows /\ ("history" \in damaged' <=> "history" \in damaged)
    BY <1>2, <1>6, <1>11, <1>12 DEF ReadableRows
  <2> QED BY <1>1, <1>2, <1>10, <2>1 DEF Topics, HistoryInv
<1> QED BY <1>9, <1>13, <1>14, <1>15, <1>16, <1>18 DEF Topics

(* The rows that were saved become the ones in memory. *)
LEMMA FinishHistory ==
  ASSUME Base, Topics, FinishLast, HistoryWork
  PROVE  Base' /\ Topics'
<1>1. /\ call.step = "Done" /\ task.op = "History" /\ call.path = "history"
      /\ UNCHANGED <<files, up>> /\ call' = IdleCall /\ task' = NoTask
      /\ call.doc = task.doc /\ task.doc = HistoryOf(task.rows) /\ task.rows \in tried.rows
  BY DEF FinishLast, HistoryWork
<1>2. task.rows \in Saved /\ task.doc \in Documents("history")
  BY <1>1, TriedTypes, DocumentFacts
<1>3. task.doc # Nothing /\ task.doc # Torn
  BY <1>2, Kinds
<1>4. Mains("history") = {task.doc}
  BY <1>1, <1>3, DoneFacts
<1>5. mem' = [mem EXCEPT !.rows = task.rows, !.recovery = "None"]
  <2>1. task.op # "Settings" /\ task.op = "History"
    BY <1>1
  <2> QED BY <2>1, Zenon DEF FinishLast
<1>6. tried' = [tried EXCEPT !.rows = {}]
  <2>1. task.op # "Settings" /\ task.op = "History" /\ task.op \notin {"Secret", "Erase"}
    BY <1>1
  <2> QED BY <2>1, Zenon DEF FinishLast
<1>7. secrets' = secrets /\ damaged' = damaged \ {"history"}
  BY <1>1, <1>4 DEF FinishLast
<1>8. /\ tried'.settings = tried.settings /\ tried'.rows = {} /\ tried'.secrets = tried.secrets
      /\ tried' = [settings |-> tried.settings, rows |-> {}, secrets |-> tried.secrets]
  BY <1>6, TriedTypes
<1>9. task.rows \in Seq(Rows(Names)) /\ Len(task.rows) <= Capacity
  BY <1>2 DEF Saved, ValidRecords
<1>10. /\ mem'.settings = mem.settings /\ mem'.source = mem.source /\ mem'.rows = task.rows
       /\ mem'.recovery = "None"
       /\ mem' \in [settings : Settings \cup {Defaults}, source : {"Primary", "Backup", "Defaults"},
                    rows : Seq(Rows(Names)), recovery : {"None", "InvalidDocument", "File"}]
  BY <1>5, <1>9 DEF Base, MemInv
<1>11. Base'
  <2>1. FilesInv' /\ (~up' => \A p \in Paths : files'[p].old.main = files'[p].main)
    BY <1>1 DEF Base, FilesInv, TaskInv
  <2>2. MemInv'
    BY <1>7, <1>8, <1>9, <1>10, TriedTypes DEF Base, MemInv
  <2> QED BY <1>1, <2>1, <2>2, IdleTask
<1>12. \A p : Mains(p)' = Mains(p)
  BY <1>1 DEF Mains
<1>13. WholeInv'
  BY <1>3, <1>4, <1>7, <1>12 DEF Topics, WholeInv
<1>14. SavedInv'
  BY <1>10, <1>12 DEF Topics, SavedInv
<1>15. CurrentInv'
  <2>1. Wanted' = Wanted
    BY <1>8, <1>10 DEF Wanted
  <2>2. /\ "settings" \in damaged' <=> "settings" \in damaged
        /\ "settings.bak" \in damaged' <=> "settings.bak" \in damaged
    BY <1>7
  <2> QED BY <1>1, <1>12, <2>1, <2>2 DEF Topics, CurrentInv
<1>16. SecretsInv'
  <2>1. \A id \in SecretIds : Expected(id)' = Expected(id)
    BY <1>7, <1>8, PathFacts DEF Expected
  <2> QED BY <1>12, <2>1 DEF Topics, SecretsInv
<1>18. HistoryInv'
  <2>1. LoadHistory(task.doc).rows = ReloadedRows(task.rows)
    BY <1>1, <1>2, HistoryRead
  <2>2. ReloadedRows(task.rows) \in ReadableRows'
    BY <1>10 DEF ReadableRows
  <2> QED BY <1>4, <1>12, <2>1, <2>2 DEF HistoryInv
<1> QED BY <1>11, <1>13, <1>14, <1>15, <1>16, <1>18 DEF Topics

(* An operation that ends keeps every promise. *)
LEMMA FinishKeeps ==
  ASSUME Base, Topics, Finish
  PROVE  Base' /\ Topics'
<1>1. CASE FinishFirst
  BY <1>1, FinishFirstKeeps
<1>2. CASE FinishFailed
  BY <1>2, FinishFailedKeeps
<1>3. CASE FinishLast
  <2>1. SettingsWork \/ SecretWork \/ HistoryWork
    BY <1>3, DoneFacts, WorkFacts DEF FinishLast
  <2> QED BY <2>1, <1>3, FinishSettings, FinishSecret, FinishHistory
<1> QED BY <1>1, <1>2, <1>3, FinishSplit

------------------------------------------------------------------------------
(* Starting, losing power, and damage from outside. *)

(* What the files hold. *)
LEMMA FileContents ==
  ASSUME Base
  PROVE  /\ files["settings"].main \in {Nothing, Torn} \cup SettingsDocuments
         /\ files["settings.bak"].main \in {Nothing, Torn} \cup SettingsDocuments
         /\ files["history"].main \in {Nothing, Torn} \cup {HistoryOf(rs) : rs \in Saved}
         /\ \A id \in SecretIds : files[id].main \in {Nothing, Torn} \cup SecretRecords
BY PathFacts, DocumentFacts, FileFields DEF Base, FilesInv, FileInv, Contents

(* Rows that may be saved are rows after a restart, the same after a second   *)
(* one.                                                                       *)
LEMMA SavedRows ==
  ASSUME NEW rs \in Saved
  PROVE  /\ ReloadedRows(rs) \in Seq(Rows(Names)) /\ Len(ReloadedRows(rs)) <= Capacity
         /\ ReloadedRows(ReloadedRows(rs)) = ReloadedRows(rs)
BY HistoryReads, DocumentConstants DEF Saved

(* What loading the add-on reads, and what it keeps when the history cannot   *)
(* be read.                                                                   *)
LEMMA StartReads ==
  ASSUME Base, Start
  PROVE  /\ ~up /\ up' = TRUE /\ UNCHANGED <<files, call, task, secrets, tried, damaged>>
         /\ LET l == LoadSettings(files["settings"].main, files["settings.bak"].main)
            IN  l.source # "Error" /\ mem'.settings = l.settings /\ mem'.source = l.source
         /\ mem' = [settings |-> mem'.settings, source |-> mem'.source, rows |-> mem'.rows,
                    recovery |-> mem'.recovery]
         /\ \/ mem'.rows = LoadHistory(files["history"].main).rows
               /\ mem'.recovery = LoadHistory(files["history"].main).recovery
            \/ mem'.rows = <<>> /\ mem'.recovery = "File"
<1> DEFINE l == LoadSettings(files["settings"].main, files["settings.bak"].main)
           h == LoadHistory(files["history"].main)
<1>1. PICK read \in BOOLEAN :
         /\ Usable(l)
         /\ mem' = [settings |-> l.settings, source |-> l.source,
                    rows |-> (IF read THEN h ELSE [rows |-> <<>>, recovery |-> "File"]).rows,
                    recovery |-> (IF read THEN h ELSE [rows |-> <<>>, recovery |-> "File"]).recovery]
  BY DEF Start
<1>2. ~up /\ up' = TRUE /\ UNCHANGED <<files, call, task, secrets, tried, damaged>>
  BY DEF Start, storeVars
<1> HIDE DEF l, h
<1>3. CASE read
  <2>1. mem' = [settings |-> l.settings, source |-> l.source, rows |-> h.rows, recovery |-> h.recovery]
    BY <1>1, <1>3
  <2> QED BY <1>1, <1>2, <2>1 DEF Usable, l, h
<1>4. CASE ~read
  <2>1. mem' = [settings |-> l.settings, source |-> l.source, rows |-> <<>>, recovery |-> "File"]
    BY <1>1, <1>4
  <2> QED BY <1>1, <1>2, <2>1 DEF Usable, l, h
<1> QED BY <1>3, <1>4

(* Loading the add-on takes what the files hold for the settings and rows in  *)
(* use.                                                                       *)
LEMMA StartKeeps ==
  ASSUME Base, Topics, Start
  PROVE  Base' /\ Topics'
<1> DEFINE a == files["settings"].main
           b == files["settings.bak"].main
           c == files["history"].main
           l == LoadSettings(a, b)
<1>1. /\ ~up /\ up' = TRUE /\ UNCHANGED <<files, call, task, secrets, tried, damaged>>
      /\ l.source # "Error" /\ mem'.settings = l.settings /\ mem'.source = l.source
      /\ mem' = [settings |-> mem'.settings, source |-> mem'.source, rows |-> mem'.rows,
                 recovery |-> mem'.recovery]
      /\ \/ mem'.rows = LoadHistory(c).rows /\ mem'.recovery = LoadHistory(c).recovery
         \/ mem'.rows = <<>> /\ mem'.recovery = "File"
  BY StartReads
<1>2. /\ a \in {Nothing, Torn} \cup SettingsDocuments /\ b \in {Nothing, Torn} \cup SettingsDocuments
      /\ c \in {Nothing, Torn} \cup {HistoryOf(rs) : rs \in Saved}
  BY FileContents
<1>3. \/ a \in SettingsDocuments /\ l.source = "Primary" /\ l.settings = a.value[1]
      \/ a \notin SettingsDocuments /\ b \in SettingsDocuments /\ l.source = "Backup" /\ l.settings = b.value[1]
      \/ a = Nothing /\ b = Nothing /\ l.source = "Defaults" /\ l.settings = Defaults
  <2>1. a \in Contents("settings") /\ b \in Contents("settings.bak")
    BY <1>2, DocumentFacts DEF Contents
  <2> HIDE DEF a, b
  <2> QED BY <1>1, <2>1, SettingsRead
<1>4. \A d \in SettingsDocuments : d.value[1] \in Settings
  BY DocumentFacts DEF SettingsDocuments
<1>5. \A p \in Paths : Mains(p) = {files[p].main} /\ Mains(p)' = Mains(p)
  BY <1>1 DEF Base, TaskInv, Mains
<1>6. /\ mem'.rows \in Seq(Rows(Names)) /\ Len(mem'.rows) <= Capacity
      /\ mem'.recovery \in {"None", "InvalidDocument", "File"}
      /\ mem'.recovery = "None" => LoadHistory(c).rows = ReloadedRows(mem'.rows)
  <2>1. /\ <<>> \in Seq(Rows(Names)) /\ Len(<<>>) <= Capacity
        /\ ReloadedRows(<<>>) = <<>>
    <3>1. Len(<<>>) = 0 /\ Capacity \in Nat /\ <<>> \in Seq(Rows(Names))
      BY DocumentConstants DEF DocumentConstants
    <3>2. ReloadedRows(<<>>) = <<>>
      BY DEF ReloadedRows
    <3> QED BY <3>1, <3>2
  <2>2. CASE c = Nothing
    <3>1. LoadHistory(c).rows = <<>> /\ LoadHistory(c).recovery = "None"
      BY <2>2, HistoryRead
    <3> HIDE DEF c
    <3> QED BY <1>1, <2>1, <3>1
  <2>3. CASE c = Torn
    <3>1. LoadHistory(c).rows = <<>> /\ LoadHistory(c).recovery = "InvalidDocument"
      BY <2>3, HistoryRead
    <3> HIDE DEF c
    <3> QED BY <1>1, <2>1, <3>1
  <2>4. CASE c \in {HistoryOf(rs) : rs \in Saved}
    <3>1. PICK rs \in Saved : c = HistoryOf(rs)
      BY <2>4
    <3>2. LoadHistory(c).rows = ReloadedRows(rs) /\ LoadHistory(c).recovery = "None"
      BY <3>1, HistoryRead
    <3> HIDE DEF c
    <3> QED BY <1>1, <2>1, <3>2, SavedRows
  <2> QED BY <1>2, <2>2, <2>3, <2>4
<1>7. Base'
  <2>1. mem' \in [settings : Settings \cup {Defaults}, source : {"Primary", "Backup", "Defaults"},
                  rows : Seq(Rows(Names)), recovery : {"None", "InvalidDocument", "File"}]
    <3>1. mem'.settings \in Settings \cup {Defaults} /\ mem'.source \in {"Primary", "Backup", "Defaults"}
      BY <1>1, <1>3, <1>4
    <3> QED BY <1>1, <1>6, <3>1
  <2>2. MemInv'
    BY <1>1, <1>6, <2>1 DEF Base, MemInv
  <2>3. FilesInv'
    BY <1>1 DEF Base, FilesInv
  <2>4. task = NoTask
    BY <1>1 DEF Base, TaskInv
  <2>5. call' = IdleCall /\ task' = NoTask
    BY <1>1, <2>4 DEF Base, TaskInv
  <2> QED BY <1>1, <2>2, <2>3, <2>5, IdleTask
<1>8. WholeInv'
  BY <1>1, <1>5 DEF Topics, WholeInv
<1>9. SavedInv'
  BY <1>1, <1>3, <1>5, PathFacts, Kinds, DocumentFacts DEF SavedInv
<1>10. CurrentInv'
  <2>1. Nothing \notin SettingsDocuments
    BY Kinds, DocumentFacts
  <2>2. mem'.settings \in Wanted'
    BY DEF Wanted
  <2>3. Mains("settings")' = {a} /\ Mains("settings.bak")' = {b}
    BY <1>5, PathFacts
  <2> HIDE DEF a, b
  <2> QED BY <1>1, <1>3, <2>1, <2>2, <2>3 DEF CurrentInv
<1>11. SecretsInv'
  <2>1. \A id \in SecretIds : Expected(id)' = Expected(id)
    BY <1>1 DEF Expected
  <2> QED BY <1>5, <2>1, PathFacts DEF Topics, SecretsInv
<1>13. HistoryInv'
  <2>1. Mains("history")' = {c} /\ ReloadedRows(mem'.rows) \in ReadableRows'
    BY <1>5, PathFacts DEF ReadableRows
  <2> HIDE DEF c
  <2> QED BY <1>6, <2>1 DEF HistoryInv
<1> QED BY <1>7, <1>8, <1>9, <1>10, <1>11, <1>13 DEF Topics

(* A power failure at any point of any operation leaves only what was         *)
(* promised.                                                                  *)
LEMMA PowerFailureKeeps ==
  ASSUME Base, Topics, PowerFailure
  PROVE  Base' /\ Topics'
<1>1. PICK kept \in [Paths -> BOOLEAN], torn \in BOOLEAN :
         files' = [p \in Paths |-> Left(files[p], kept[p], torn)]
  BY DEF PowerFailure, PowerFails
<1>2. call' = IdleCall /\ task' = NoTask /\ up' = FALSE /\ UNCHANGED <<mem, secrets, tried, damaged>>
  BY DEF PowerFailure, PowerFails
<1>3. ASSUME NEW p \in Paths
      PROVE  LET l == files'[p]
             IN  /\ FileInv(l, p)
                 /\ l.main \in Mains(p) /\ l.old.main = l.main /\ l.old.temp = l.temp
                 /\ files[p].temp = Nothing /\ files[p].old.temp = Nothing => l.temp = Nothing
  <2>1. FileInv(files[p], p) /\ kept[p] \in BOOLEAN /\ files'[p] = Left(files[p], kept[p], torn)
    BY <1>1 DEF Base, FilesInv
  <2> QED BY <2>1, LeftBehind DEF Mains
<1>4. FilesInv'
  BY <1>1, <1>3 DEF FilesInv
<1>5. \A p \in Paths : Mains(p)' \subseteq Mains(p)
  BY <1>3 DEF Mains
<1>6. Base'
  <2>1. MemInv'
    BY <1>2 DEF Base, MemInv
  <2> QED BY <1>2, <1>3, <1>4, <2>1, IdleTask
<1>7. WholeInv' /\ SavedInv'
  BY <1>2, <1>5, PathFacts DEF Topics, WholeInv, SavedInv
<1>8. CurrentInv' /\ HistoryInv'
  BY <1>2 DEF CurrentInv, HistoryInv
<1>9. SecretsInv'
  <2>1. \A id \in SecretIds : Expected(id)' = Expected(id)
    BY <1>2 DEF Expected
  <2> QED BY <1>5, <2>1, PathFacts DEF Topics, SecretsInv
<1> QED BY <1>6, <1>7, <1>8, <1>9 DEF Topics

(* A file damaged from outside is outside the promises, another one is not. *)
LEMMA DamageKeeps ==
  ASSUME Base, Topics, Damage
  PROVE  Base' /\ Topics'
<1>1. PICK p \in Paths, content \in {Torn} \cup {files[q].main : q \in SecretIds} :
        /\ content # Torn => p \in SecretIds
        /\ files' = [files EXCEPT ![p].main = content, ![p].old.main = content]
        /\ damaged' = damaged \cup {p}
  BY DEF Damage
<1>2. ~up /\ UNCHANGED <<call, up, task, mem, secrets, tried>>
  BY DEF Damage
<1> DEFINE f == files[p]
           g == files'[p]
           C == Contents(p)
<1>3. content \in C
  <2>1. content = Torn \/ (p \in SecretIds /\ content \in {Nothing, Torn} \cup SecretRecords)
    BY <1>1, FileContents
  <2> QED BY <2>1, DocumentFacts DEF Contents
<1>4. f \in FileOf(C) /\ (f.flushed \/ f.temp # Nothing) /\ files = [q \in Paths |-> files[q]]
  BY DEF Base, FilesInv, FileInv
<1>5. /\ g = [[f EXCEPT !.main = content] EXCEPT !.old.main = content]
      /\ \A q \in Paths \ {p} : files'[q] = files[q]
      /\ files' = [q \in Paths |-> files'[q]]
  BY <1>1, <1>4
<1> HIDE DEF g, f
<1>6. /\ g \in FileOf(C) /\ g.main = content /\ g.temp = f.temp /\ g.flushed = f.flushed
      /\ g.old.main = content
  <2>1. /\ f.old \in Places(C)
        /\ f = [main |-> f.main, temp |-> f.temp, flushed |-> f.flushed, old |-> f.old]
        /\ f.main \in C /\ f.temp \in C /\ f.flushed \in BOOLEAN
    BY <1>4, FileFields
  <2> DEFINE h == [f EXCEPT !.main = content]
             o == [f.old EXCEPT !.main = content]
  <2>2. h \in FileOf(C) /\ h.main = content /\ h.temp = f.temp /\ h.flushed = f.flushed /\ h.old = f.old
    BY <1>3, <1>4 DEF FileOf
  <2>3. o \in Places(C) /\ o.main = content
    BY <1>3, <2>1 DEF Places
  <2>4. g = [h EXCEPT !.old.main = content]
    BY <1>5
  <2> HIDE DEF h
  <2>5. [h EXCEPT !.old.main = content] = [h EXCEPT !.old = o]
    BY <2>2
  <2> HIDE DEF o
  <2>6. [h EXCEPT !.old = o] \in FileOf(C)
    BY <2>2, <2>3 DEF FileOf
  <2>7. /\ [h EXCEPT !.old = o].main = h.main /\ [h EXCEPT !.old = o].temp = h.temp
        /\ [h EXCEPT !.old = o].flushed = h.flushed /\ [h EXCEPT !.old = o].old = o
    BY <2>2 DEF FileOf
  <2> QED BY <2>2, <2>3, <2>4, <2>5, <2>6, <2>7
<1>7. FilesInv'
  <2>1. FileInv(g, p)
    BY <1>4, <1>6 DEF FileInv
  <2> QED BY <2>1, <1>5 DEF Base, FilesInv, g
<1>8. Mains(p)' = {content} /\ \A q \in Paths \ {p} : Mains(q)' = Mains(q)
  BY <1>5, <1>6 DEF Mains, g
<1>9. Base'
  <2>1. MemInv' /\ call' = IdleCall /\ task' = NoTask
    BY <1>2 DEF Base, MemInv, TaskInv
  <2>2. \A q \in Paths : files'[q].old.main = files'[q].main
    BY <1>2, <1>5, <1>6 DEF Base, TaskInv, g
  <2> QED BY <1>7, <2>1, <2>2, IdleTask
<1>10. WholeInv'
  BY <1>1, <1>8 DEF Topics, WholeInv
<1>11. SavedInv'
  <2>1. p \in {"settings", "settings.bak"} => content # Nothing
    BY <1>1, PathFacts, Kinds
  <2> QED BY <1>2, <1>8, <2>1, PathFacts DEF Topics, SavedInv
<1>12. CurrentInv' /\ HistoryInv'
  BY <1>2 DEF CurrentInv, HistoryInv
<1>13. SecretsInv'
  <2>1. ASSUME NEW id \in SecretIds, id # p, NEW d \in Mains(id)'
        PROVE  LoadSecret(id, d) \in Expected(id)'
    <3>1. Expected(id)' = Expected(id) /\ d \in Mains(id)
      BY <1>1, <1>2, <1>8, <2>1, PathFacts DEF Expected
    <3> QED BY <3>1 DEF Topics, SecretsInv
  <2>2. ASSUME NEW id \in SecretIds, id = p, NEW d \in Mains(id)'
        PROVE  LoadSecret(id, d) \in Expected(id)'
    <3>1. d \in {Nothing, Torn} \cup SecretRecords
      BY <1>3, <1>8, <2>2, DocumentFacts DEF Contents
    <3>2. LoadSecret(id, d) \in {Nothing, Torn} \cup Records(id)
      BY <3>1, SecretRead
    <3>3. id \in damaged'
      BY <1>1, <2>2
    <3> QED BY <3>2, <3>3 DEF Expected
  <2> QED BY <2>1, <2>2 DEF SecretsInv
<1> QED BY <1>9, <1>10, <1>11, <1>12, <1>13 DEF Topics

------------------------------------------------------------------------------
(* The theorems. *)

(* Nothing changes where nothing happens. *)
LEMMA UnchangedKeeps ==
  ASSUME Base, Topics, UNCHANGED vars
  PROVE  Base' /\ Topics'
<1>1. UNCHANGED <<files, call, up, task, mem, secrets, tried, damaged>>
  BY DEF vars, storeVars
<1>2. Base'
  <2>1. FilesInv' /\ MemInv'
    BY <1>1 DEF Base, FilesInv, MemInv
  <2>2. TaskInv'
    BY <1>1 DEF Base, TaskInv, SettingsWork, SecretWork, HistoryWork
  <2> QED BY <2>1, <2>2 DEF Base
<1>3. Topics'
  BY <1>1, TopicsKept DEF TriesGrow
<1> QED BY <1>2, <1>3

(* The invariant of the add-on's files: whatever fails and whenever the power *)
(* does, the files are sound and each path reads as the stores promise.       *)
THEOREM StorageInvariance == Spec => [](Base /\ Topics)
<1>1. Init => Base /\ Topics
  BY InitBase DEF Topics
<1>2. Base /\ Topics /\ [Next]_vars => Base' /\ Topics'
  <2> SUFFICES ASSUME Base, Topics, [Next]_vars
               PROVE  Base' /\ Topics'
    OBVIOUS
  <2>1. CASE Start
    BY <2>1, StartKeeps
  <2>2. CASE SaveSettings
    BY <2>2, SaveSettingsKeeps
  <2>3. CASE StoreSecret
    BY <2>3, StoreSecretKeeps
  <2>4. CASE EraseSecret
    BY <2>4, EraseSecretKeeps
  <2>5. CASE MergeAndSave
    BY <2>5, MergeAndSaveKeeps
  <2>6. CASE DiskCall
    BY <2>6, DiskCallBase, DiskCallTopics
  <2>7. CASE Finish
    BY <2>7, FinishKeeps
  <2>8. CASE PowerFailure
    BY <2>8, PowerFailureKeeps
  <2>9. CASE Damage
    BY <2>9, DamageKeeps
  <2>10. CASE UNCHANGED vars
    BY <2>10, UnchangedKeeps
  <2> QED BY <2>1, <2>2, <2>3, <2>4, <2>5, <2>6, <2>7, <2>8, <2>9, <2>10 DEF Next
<1> QED BY <1>1, <1>2, PTL DEF Spec

(* What a power failure at this moment would leave of a file. *)
LEMMA LeftAfterFailure ==
  ASSUME Base, NEW p \in Paths, NEW f \in AfterPowerFailure(files[p])
  PROVE  /\ f.main \in Mains(p) /\ f.main \in Contents(p)
         /\ files[p].temp = Nothing /\ files[p].old.temp = Nothing => f.temp = Nothing
<1>1. PICK kept \in BOOLEAN, torn \in BOOLEAN : f = Left(files[p], kept, torn)
  BY DEF AfterPowerFailure
<1>2. FileInv(files[p], p)
  BY DEF Base, FilesInv
<1>3. /\ FileInv(f, p) /\ f.main \in {files[p].main, files[p].old.main}
      /\ files[p].temp = Nothing /\ files[p].old.temp = Nothing => f.temp = Nothing
  BY <1>1, <1>2, LeftBehind
<1>4. f.main \in Contents(p)
  BY <1>3, FileFields DEF FileInv
<1> QED BY <1>3, <1>4 DEF Mains

(* What a path would read as after a power failure at this moment. *)
LEMMA ReadAfterFailure ==
  ASSUME Base, NEW p \in Paths
  PROVE  AfterFailureAt(p) \subseteq Mains(p) /\ AfterFailureAt(p) \subseteq Contents(p)
BY LeftAfterFailure DEF AfterFailureAt

(* The state has its shape. *)
LEMMA StorageTyped ==
  ASSUME Base
  PROVE  StorageTypeOK
<1>1. ASSUME NEW p \in Paths
      PROVE  {files[p].main.kind, files[p].temp.kind} \subseteq {"Absent", "Torn", "Document"}
  <2>1. files[p].main \in Contents(p) /\ files[p].temp \in Contents(p)
    BY FileFields DEF Base, FilesInv, FileInv
  <2>2. \A c \in Contents(p) : c.kind \in {"Absent", "Torn", "Document"}
    BY Kinds DEF Contents
  <2> QED BY <2>1, <2>2
<1>2. task = NoTask <=> call.step = "Idle"
  BY FreshCalls DEF Base, TaskInv
<1>3. /\ mem.settings \in Settings \cup {Defaults} /\ Len(mem.rows) <= Capacity
      /\ mem.recovery \in {"None", "InvalidDocument", "File"}
      /\ mem.source \in {"Primary", "Backup", "Defaults"}
  BY DEF Base, MemInv
<1> QED BY <1>1, <1>2, <1>3 DEF StorageTypeOK

(* No failing call and no power failure leaves a torn file where the add-on   *)
(* looks for one: write_atomic flushes the temporary before it becomes the    *)
(* destination.                                                               *)
LEMMA ReadsWhole ==
  ASSUME Base, WholeInv
  PROVE  DestinationsAreWhole
BY ReadAfterFailure DEF WholeInv, DestinationsAreWhole

(* One of two files that were saved is there, so the defaults are not loaded; *)
(* both can only fail to read where they were damaged.                        *)
LEMMA NeverReset ==
  ASSUME Base, WholeInv, SavedInv
  PROVE  SettingsNeverReset
<1> SUFFICES ASSUME mem.source # "Defaults",
                    NEW a \in AfterFailureAt("settings"), NEW b \in AfterFailureAt("settings.bak")
             PROVE  LET source == LoadSettings(a, b).source
                    IN  /\ source # "Defaults"
                        /\ source = "Error" =>
                             \/ "settings" \in damaged /\ (b = Nothing \/ "settings.bak" \in damaged)
                             \/ a = Nothing /\ "settings.bak" \in damaged
  BY DEF SettingsNeverReset
<1>1. /\ a \in Mains("settings") /\ a \in Contents("settings")
      /\ b \in Mains("settings.bak") /\ b \in Contents("settings.bak")
  BY ReadAfterFailure, PathFacts
<1>2. a # Nothing \/ b # Nothing
  BY <1>1 DEF SavedInv
<1>3. (a = Torn => "settings" \in damaged) /\ (b = Torn => "settings.bak" \in damaged)
  BY <1>1, PathFacts DEF WholeInv
<1>4. a \in {Nothing, Torn} \cup SettingsDocuments /\ b \in {Nothing, Torn} \cup SettingsDocuments
  BY <1>1, DocumentFacts DEF Contents
<1>5. LET source == LoadSettings(a, b).source
      IN  \/ source = "Primary" /\ a \in SettingsDocuments
          \/ source = "Backup"
          \/ source = "Error" /\ a \notin SettingsDocuments /\ b \notin SettingsDocuments
  BY <1>1, <1>2, SettingsRead
<1> QED BY <1>2, <1>3, <1>4, <1>5

(* The reader finds what is in use, or what an operation that did not succeed *)
(* wrote.                                                                     *)
LEMMA ReadsCurrent ==
  ASSUME Base, WholeInv, CurrentInv
  PROVE  SettingsCurrent
<1> SUFFICES ASSUME up, damaged \cap {"settings", "settings.bak"} = {},
                    NEW a \in AfterFailureAt("settings"), NEW b \in AfterFailureAt("settings.bak")
             PROVE  LoadSettings(a, b).settings \in Wanted
  BY DEF SettingsCurrent, Wanted
<1>1. /\ a \in Mains("settings") /\ a \in Contents("settings")
      /\ b \in Mains("settings.bak") /\ b \in Contents("settings.bak")
  BY ReadAfterFailure, PathFacts
<1>2. a \in {Nothing} \cup SettingsDocuments /\ b \in {Nothing} \cup SettingsDocuments
  BY <1>1, DocumentFacts, PathFacts DEF Contents, WholeInv
<1>3. CASE a \in SettingsDocuments
  BY <1>1, <1>3, SettingsRead DEF CurrentInv
<1>4. CASE a \notin SettingsDocuments /\ b \in SettingsDocuments
  BY <1>1, <1>2, <1>4, SettingsRead DEF CurrentInv
<1>5. CASE a \notin SettingsDocuments /\ b \notin SettingsDocuments
  BY <1>1, <1>2, <1>5, SettingsRead DEF CurrentInv
<1> QED BY <1>3, <1>4, <1>5

(* Settings that were saved survive every failing call and every power        *)
(* failure, at every step of settings_store.rs: the add-on reads the ones in  *)
(* use or those of a save that did not succeed, and never falls back to the   *)
(* defaults.                                                                  *)
THEOREM SettingsAlwaysSurvive == Spec => []SettingsSurvive
<1>1. Base /\ Topics => SettingsSurvive
  BY StorageTyped, ReadsWhole, NeverReset, ReadsCurrent DEF Topics, SettingsSurvive
<1> QED BY <1>1, StorageInvariance, PTL

(* A secret is read as it was stored last, as an operation that failed was      *)
(* storing it or as an erase since removed it, never as another one or as one  *)
(* replaced by a store; an erase that succeeds leaves no copy in the directory. *)
THEOREM SecretsAlwaysExact == Spec => []SecretsAreExact
<1>1. Base /\ Topics => SecretsExact
  BY ReadAfterFailure, PathFacts DEF Topics, SecretsInv, SecretsExact, Expected
<1>2. ASSUME Base PROVE EraseLeavesNothing
  <2> SUFFICES ASSUME task.op = "Erase", call.step = "Done"
               PROVE  files[call.path].main = Nothing /\ files[call.path].temp = Nothing
    BY DEF EraseLeavesNothing
  <2>1. SecretWork
    BY <1>2, DoneFacts, WorkFacts DEF SettingsWork, HistoryWork
  <2>2. call.doc = Nothing
    BY <2>1 DEF SecretWork
  <2> QED BY <1>2, <2>2, DoneFacts
<1>3. Base /\ Topics => SecretsAreExact
  BY <1>1, <1>2 DEF SecretsAreExact
<1> QED BY <1>3, StorageInvariance, PTL

(* Unless a recovery is shown, the history on disk reads back as the rows in  *)
(* memory, or those of a save that did not succeed, as a restart leaves them. *)
THEOREM HistoryAlwaysReadsBack == Spec => []HistoryReadsBack
<1>1. Base /\ Topics => HistoryReadsBack
  BY ReadAfterFailure, PathFacts DEF Topics, HistoryInv, HistoryReadsBack, ReadableRows, ReloadedRows
<1> QED BY <1>1, StorageInvariance, PTL
==============================================================================
