---------------------------- MODULE LogWatchProofs -----------------------------
(* Machine-checked proofs about LogWatch: what is submitted and what stays    *)
(* under observation, for any paths and versions, any limits and thresholds,  *)
(* any requests, and any number of changes and faults.                        *)
EXTENDS LogWatch, WellFoundedInduction, SequenceTheorems, FiniteSetTheorems, TLAPS

------------------------------------------------------------------------------
(* The inductive invariant. *)

(* The versions there have been so far. *)
Written == 1 .. changes + 1

(* A file is watched when its version has been written, is in the selected    *)
(* window and lies in a directory the settings include.                       *)
Watched(file) ==
  /\ file \in Paths \X Written
  /\ InWindow(file[2]) /\ (options.recursive \/ file[1] \notin Nested)

(* What the directory, a batch and the selection may be. *)
Tree == [Paths -> FileVersions \cup {Gone}]
Batch == [available : BOOLEAN, complete : BOOLEAN, seen : SUBSET Identity, removed : SUBSET Paths]
Choice == [mode : {"New", "Last24Hours"}, recursive : BOOLEAN, limit : 1 .. PendingLimit]

(* The list of accepted identities is within its limit and names none twice;  *)
(* the set beside it says the same.                                           *)
ListInv ==
  /\ accepted \in Seq(Identity) /\ Len(accepted) <= HistoryLimit
  /\ \A i, j \in 1 .. Len(accepted) : accepted[i] = accepted[j] => i = j
  /\ known = {accepted[i] : i \in 1 .. Len(accepted)}

(* A path under observation has been seen less often than is required. *)
CountInv ==
  /\ required \in Stability
  /\ pending \in [Paths -> [version : Nat, count : Nat]]
  /\ \A p \in Paths : pending[p] = NotPending \/ pending[p].count \in 1 .. required - 1

(* The types of the source, with the snapshot within the candidate limit. *)
SourceInv ==
  /\ directory \in Tree /\ root \in {"present", "missing", "unusable"}
  /\ changes \in 0 .. MaxChanges /\ faults \in 0 .. MaxFaults
  /\ handle \in {"none", "armed", "dead"}
  /\ pollingOnly \in BOOLEAN /\ signal \in BOOLEAN /\ enabled \in BOOLEAN
  /\ failures \in 0 .. MonitorLimit /\ (enabled => failures < MonitorLimit)
  /\ options \in Choice
  /\ retained \subseteq Paths /\ unread \subseteq Paths /\ Cardinality(retained) <= options.limit
  /\ batch \in Batch
  /\ cache = NoCache \/ cache = <<cache[1]>>

(* The types of the owner and of the observers. *)
OwnerInv ==
  /\ phase \in {"wait", "apply", "poll", "scan", "observe"}
  /\ requested \in Requests
  /\ untilPoll \in 0 .. PollInterval /\ sinceRefresh \in 0 .. RefreshInterval
  /\ submitted \subseteq Identity /\ forgotten \subseteq Identity /\ polled \in Tree

(* Whatever is in the batch, in the cache or under observation is watched;    *)
(* the cache and the observations are in the snapshot, whose removals will be *)
(* reported.                                                                  *)
SeenInv ==
  /\ \A p \in Paths : directory[p] \in Written \cup {Gone}
  /\ \A file \in batch.seen : Watched(file)
  /\ cache # NoCache => \A file \in cache[1] : Watched(file) /\ file[1] \in retained
  /\ \A p \in PendingPaths : Watched(<<p, pending[p].version>>) /\ p \in retained

(* What there is in each phase: no batch between polls, no cache during a     *)
(* scan, nothing seen before the root was opened, a delivered batch within    *)
(* the snapshot.                                                              *)
PhaseInv ==
  /\ phase \notin {"scan", "observe"} => batch = NoBatch
  /\ phase = "scan" => cache = NoCache
  /\ phase = "scan" /\ ~batch.available => batch.seen = {}
  /\ phase = "observe" => SeenPaths \subseteq retained

(* As long as the armed handle is silent, what the cache holds and what the   *)
(* scan has read is still there.                                              *)
SilentInv ==
  handle = "armed" /\ ~signal =>
    /\ cache # NoCache => \A file \in cache[1] : directory[file[1]] = file[2]
    /\ phase = "scan" => \A file \in batch.seen : directory[file[1]] = file[2]

(* A version observed before is either in the directory since the poll began  *)
(* or never again: versions do not come back. So an observation that matches  *)
(* an earlier one was true when the poll began.                               *)
PollInv ==
  /\ phase = "scan" =>
       \A p \in PendingPaths : directory[p] = pending[p].version => polled[p] = directory[p]
  /\ phase \in {"scan", "observe"} =>
       \A file \in batch.seen :
         file[1] \in PendingPaths /\ pending[file[1]].version = file[2] => polled[file[1]] = file[2]

(* A scan that has failed at nothing has seen every file under observation    *)
(* that it has passed and that was there all the time.                        *)
ReadInv ==
  phase = "scan" /\ batch.complete =>
    \A p \in PendingPaths \ unread :
      directory[p] = pending[p].version /\ polled[p] = directory[p] => p \in SeenPaths

(* Whatever was submitted is remembered, or was forgotten for lack of room. *)
SubmittedInv == submitted \subseteq known \cup forgotten

(* The inductive invariant. *)
WatchInv ==
  /\ ListInv /\ CountInv /\ SourceInv /\ OwnerInv
  /\ SeenInv /\ PhaseInv /\ SilentInv /\ PollInv /\ ReadInv /\ SubmittedInv

------------------------------------------------------------------------------
(* The next file, and the list that release leaves. *)

(* A set of natural numbers that has a member has a least one. *)
LEMMA LeastNatural ==
  ASSUME NEW T, T \subseteq Nat, T # {}
  PROVE  \E x \in T : \A y \in T : x <= y
<1> DEFINE R == {ss \in Nat \X Nat : ss[1] < ss[2]}
<1>1. IsWellFoundedOn(R, Nat)
  BY NatLessThanWellFounded, Zenon DEF OpToRel
<1>3. \A x, y \in Nat : <<y, x>> \in R <=> y < x
  BY SMT
<1> HIDE DEF R
<1>2. PICK x \in T : \A y \in T : ~ (<<y, x>> \in R)
  BY <1>1, WFMin, Zenon
<1>4. \A y \in T : ~ (y < x) /\ x \in Nat /\ y \in Nat
  BY <1>2, <1>3, Zenon
<1>5. \A y \in T : x <= y
  BY <1>4, SMT
<1> QED BY <1>5

(* Paths are ordered, so there is a file that comes next. *)
LEMMA NextFileIsSeen ==
  ASSUME SourceInv, batch.seen # {}
  PROVE  NextFile \in batch.seen
<1> DEFINE T == {file[1] : file \in batch.seen}
<1>1. batch.seen \subseteq Identity
  BY DEF SourceInv, Batch
<1>2. T \subseteq Nat /\ T # {}
  BY <1>1, DiscoveryAssumption DEF DiscoveryAssumption, Identity
<1>3. PICK x \in T : \A y \in T : x <= y
  <2> HIDE DEF T
  <2> QED BY <1>2, LeastNatural
<1>4. \E file \in batch.seen : \A other \in batch.seen : file[1] <= other[1]
  BY <1>3
<1> QED BY <1>4, Zenon DEF NextFile

(* m[i] is what retain leaves of the first i entries. *)
Retaining(list, file, m) ==
  m = [i \in 0 .. Len(list) |->
         IF i = 0 THEN <<>> ELSE IF list[i] = file THEN m[i - 1] ELSE Append(m[i - 1], list[i])]

(* Without is the last value of such a function. *)
LEMMA WithoutUnfolded ==
  ASSUME NEW list, NEW file
  PROVE  Without(list, file) = (CHOOSE m : Retaining(list, file, m))[Len(list)]
BY DEF Without, Retaining

(* Retaining in a list that ends in its only occurrence of a file leaves what *)
(* came before: the function is built from the beginnings of the list, and is *)
(* unique by least counterexample.                                            *)
LEMMA RetainingLast ==
  ASSUME NEW S, NEW s \in Seq(S), NEW file \in S, \A i \in 1 .. Len(s) : s[i] # file
  PROVE  /\ \E m : Retaining(Append(s, file), file, m)
         /\ \A m : Retaining(Append(s, file), file, m) => m[Len(s) + 1] = s
<1> DEFINE n == Len(s)
           L == Append(s, file)
           w == [i \in 0 .. n + 1 |-> IF i = n + 1 THEN s ELSE SubSeq(s, 1, i)]
           r == [i \in 0 .. Len(L) |->
                   IF i = 0 THEN <<>> ELSE IF L[i] = file THEN w[i - 1] ELSE Append(w[i - 1], L[i])]
<1>1. n \in Nat /\ Len(L) = n + 1 /\ L[n + 1] = file /\ \A i \in 1 .. n : L[i] = s[i] /\ L[i] # file
  OBVIOUS
<1>2. /\ SubSeq(s, 1, 0) = <<>> /\ SubSeq(s, 1, n) = s
      /\ \A i \in 1 .. n : SubSeq(s, 1, i) = Append(SubSeq(s, 1, i - 1), s[i])
  <2>1. SubSeq(s, 1, 0) = <<>> /\ SubSeq(s, 1, n) = s
    OBVIOUS
  <2>2. ASSUME NEW i \in 1 .. n
        PROVE  SubSeq(s, 1, i) = Append(SubSeq(s, 1, i - 1), s[i])
    <3> DEFINE a == SubSeq(s, 1, i)
               c == SubSeq(s, 1, i - 1)
               b == Append(c, s[i])
    <3>1. a \in Seq(S) /\ c \in Seq(S) /\ s[i] \in S
      OBVIOUS
    <3>2. Len(a) = i /\ Len(c) = i - 1
      BY <3>1
    <3>3. \A j \in 1 .. i : a[j] = s[j]
      BY <3>1
    <3>4. \A j \in 1 .. i - 1 : c[j] = s[j]
      BY <3>1
    <3> HIDE DEF a, c
    <3>5. b \in Seq(S) /\ Len(b) = i /\ \A j \in 1 .. i : b[j] = s[j]
      BY <3>1, <3>2, <3>4
    <3> HIDE DEF b
    <3>6. a = b
      BY <3>1, <3>2, <3>3, <3>5, SeqEqual
    <3> QED BY <3>6 DEF a, b, c
  <2> QED BY <2>1, <2>2
<1> HIDE DEF n, L
<1>3. \E m : Retaining(L, file, m)
  <2>1. ASSUME NEW i \in 0 .. n + 1
        PROVE  w[i] = r[i]
    <3>1. CASE i = 0
      BY <3>1, <1>1, <1>2
    <3>2. CASE i \in 1 .. n
      <4>1. w[i] = SubSeq(s, 1, i) /\ w[i - 1] = SubSeq(s, 1, i - 1)
        BY <3>2, <1>1
      <4>2. r[i] = Append(w[i - 1], L[i])
        BY <3>2, <1>1
      <4>3. L[i] = s[i] /\ SubSeq(s, 1, i) = Append(SubSeq(s, 1, i - 1), s[i])
        BY <3>2, <1>1, <1>2
      <4> HIDE DEF w, r
      <4> QED BY <4>1, <4>2, <4>3
    <3>3. CASE i = n + 1
      <4>1. w[i] = s /\ w[i - 1] = SubSeq(s, 1, n)
        BY <3>3, <1>1
      <4>2. r[i] = w[i - 1]
        BY <3>3, <1>1
      <4> HIDE DEF w, r
      <4> QED BY <4>1, <4>2, <1>2
    <3> QED BY <3>1, <3>2, <3>3, <1>1
  <2>2. w = r
    BY <2>1, <1>1
  <2>3. Retaining(L, file, w)
    BY <2>2 DEF Retaining
  <2> HIDE DEF w
  <2> QED BY <2>3
<1>4. ASSUME NEW m, Retaining(L, file, m)
      PROVE  m[n + 1] = s
  <2> DEFINE Bad == {i \in 0 .. n : m[i] # SubSeq(s, 1, i)}
  <2>1. /\ m[0] = <<>> /\ m[n + 1] = m[n]
        /\ \A i \in 1 .. n : m[i] = Append(m[i - 1], s[i])
    <3>1. \A i \in 0 .. n + 1 :
            m[i] = IF i = 0 THEN <<>> ELSE IF L[i] = file THEN m[i - 1] ELSE Append(m[i - 1], L[i])
      BY <1>1, <1>4 DEF Retaining
    <3>2. m[0] = <<>>
      BY <3>1, <1>1
    <3>3. m[n + 1] = m[n]
      <4>1. n + 1 \in 0 .. n + 1 /\ n + 1 # 0 /\ (n + 1) - 1 = n
        BY <1>1
      <4> QED BY <3>1, <4>1, <1>1
    <3>4. ASSUME NEW i \in 1 .. n
          PROVE  m[i] = Append(m[i - 1], s[i])
      <4>1. i \in 0 .. n + 1 /\ i # 0 /\ L[i] = s[i] /\ L[i] # file
        BY <1>1
      <4> QED BY <3>1, <4>1
    <3> QED BY <3>2, <3>3, <3>4
  <2>2. Bad = {}
    <3> SUFFICES ASSUME Bad # {} PROVE FALSE
      OBVIOUS
    <3>1. PICK x \in Bad : \A y \in Bad : x <= y
      <4>1. Bad \subseteq Nat
        BY <1>1
      <4> HIDE DEF Bad
      <4> QED BY <4>1, LeastNatural
    <3>2. x \in 0 .. n /\ m[x] # SubSeq(s, 1, x)
      OBVIOUS
    <3>3. x # 0
      BY <3>2, <2>1, <1>2
    <3>4. x - 1 \in 0 .. n /\ x \in 1 .. n /\ ~ (x <= x - 1)
      BY <3>2, <3>3, <1>1
    <3>5. m[x - 1] = SubSeq(s, 1, x - 1)
      BY <3>4, <3>1
    <3> QED BY <3>5, <3>4, <3>2, <2>1, <1>2
  <2>3. m[n] = SubSeq(s, 1, n)
    BY <2>2, <1>1
  <2> QED BY <2>1, <2>3, <1>2
<1> QED BY <1>3, <1>4 DEF n, L

(* release undoes the append of the identity it takes back. *)
LEMMA WithoutLast ==
  ASSUME NEW S, NEW s \in Seq(S), NEW file \in S, \A i \in 1 .. Len(s) : s[i] # file
  PROVE  Without(Append(s, file), file) = s
<1> DEFINE m == CHOOSE f : Retaining(Append(s, file), file, f)
<1>1. Retaining(Append(s, file), file, m)
  BY RetainingLast, Zenon
<1>2. Without(Append(s, file), file) = m[Len(Append(s, file))]
  BY WithoutUnfolded
<1>3. Len(Append(s, file)) = Len(s) + 1
  OBVIOUS
<1> HIDE DEF m
<1> QED BY <1>1, <1>2, <1>3, RetainingLast

(* The list with room for one more. *)
Room == IF Oldest = {} THEN accepted ELSE Tail(accepted)

(* Making room keeps the list without repetitions and drops only the oldest. *)
LEMMA RoomFacts ==
  ASSUME ListInv
  PROVE  /\ Room \in Seq(Identity) /\ Len(Room) < HistoryLimit
         /\ \A i, j \in 1 .. Len(Room) : Room[i] = Room[j] => i = j
         /\ {Room[i] : i \in 1 .. Len(Room)} = known \ Oldest
<1>1. HistoryLimit \in Nat \ {0} /\ Len(accepted) \in Nat /\ Len(accepted) <= HistoryLimit
  BY DiscoveryAssumption DEF ListInv, DiscoveryAssumption
<1>2. accepted \in Seq(Identity) /\ known = {accepted[i] : i \in 1 .. Len(accepted)}
  BY DEF ListInv
<1>3. \A i, j \in 1 .. Len(accepted) : accepted[i] = accepted[j] => i = j
  BY DEF ListInv
<1>4. CASE Len(accepted) = HistoryLimit
  <2>1. Oldest = {accepted[1]} /\ Room = Tail(accepted)
    BY <1>1, <1>2, <1>4 DEF Oldest, Room
  <2>2. /\ Room \in Seq(Identity) /\ Len(Room) = Len(accepted) - 1
        /\ \A i \in 1 .. Len(Room) : Room[i] = accepted[i + 1] /\ i + 1 \in 1 .. Len(accepted)
    BY <1>1, <1>2, <1>4, <2>1
  <2>3. \A i, j \in 1 .. Len(Room) : Room[i] = Room[j] => i = j
    BY <1>3, <2>2
  <2>4. \A i \in 1 .. Len(Room) : Room[i] \in known /\ Room[i] # accepted[1]
    BY <1>1, <1>2, <1>3, <2>2
  <2>5. ASSUME NEW f \in known, f # accepted[1]
        PROVE  f \in {Room[i] : i \in 1 .. Len(Room)}
    <3>1. PICK j \in 1 .. Len(accepted) : f = accepted[j]
      BY <1>2
    <3>2. j # 1 /\ j - 1 \in 1 .. Len(Room) /\ (j - 1) + 1 = j
      BY <1>1, <2>2, <2>5, <3>1
    <3> QED BY <2>2, <3>1, <3>2
  <2>6. {Room[i] : i \in 1 .. Len(Room)} = known \ Oldest
    BY <2>1, <2>4, <2>5
  <2> QED BY <1>1, <1>4, <2>2, <2>3, <2>6
<1>5. CASE Len(accepted) # HistoryLimit
  <2>1. Oldest = {} /\ Room = accepted
    BY <1>5 DEF Oldest, Room
  <2> QED BY <1>1, <1>2, <1>3, <1>5, <2>1
<1> QED BY <1>4, <1>5

(* Accepting an identity that is not known keeps the list as it should be. *)
LEMMA RememberKeeps ==
  ASSUME ListInv, NEW file \in Identity, file \notin known, Remember(file)
  PROVE  ListInv' /\ known' = (known \ Oldest) \cup {file}
<1>1. accepted' = Append(Room, file) /\ known' = (known \ Oldest) \cup {file}
  BY DEF Remember, Room
<1>2. /\ Room \in Seq(Identity) /\ Len(Room) < HistoryLimit /\ Len(Room) \in Nat
      /\ \A i, j \in 1 .. Len(Room) : Room[i] = Room[j] => i = j
      /\ {Room[i] : i \in 1 .. Len(Room)} = known \ Oldest
  BY RoomFacts
<1> DEFINE n == Len(Room)
           L == Append(Room, file)
<1>3. L \in Seq(Identity) /\ Len(L) = n + 1 /\ L[n + 1] = file /\ \A i \in 1 .. n : L[i] = Room[i]
  BY <1>2
<1>4. \A i \in 1 .. n : Room[i] # file
  BY <1>2
<1> HIDE DEF n, L
<1>5. n \in Nat /\ n < HistoryLimit /\ HistoryLimit \in Nat
  BY <1>2, DiscoveryAssumption DEF DiscoveryAssumption, n
<1>6. \A i \in 1 .. n + 1 : i \in 1 .. n \/ i = n + 1
  BY <1>5
<1>7. \A i, j \in 1 .. n + 1 : L[i] = L[j] => i = j
  <2>1. \A i, j \in 1 .. n : Room[i] = Room[j] => i = j
    BY <1>2 DEF n
  <2> QED BY <1>3, <1>4, <1>6, <2>1
<1>8. {L[i] : i \in 1 .. n + 1} = (known \ Oldest) \cup {file}
  <2>1. {Room[i] : i \in 1 .. n} = known \ Oldest
    BY <1>2 DEF n
  <2>2. n + 1 \in 1 .. n + 1 /\ \A i \in 1 .. n : i \in 1 .. n + 1
    BY <1>5
  <2> QED BY <1>3, <1>6, <2>1, <2>2
<1>9. accepted' = L
  BY <1>1 DEF L
<1>10. accepted' \in Seq(Identity) /\ Len(accepted') = n + 1 /\ Len(accepted') <= HistoryLimit
  BY <1>3, <1>5, <1>9
<1>11. \A i, j \in 1 .. Len(accepted') : accepted'[i] = accepted'[j] => i = j
  BY <1>7, <1>9, <1>10
<1>12. known' = {accepted'[i] : i \in 1 .. Len(accepted')}
  BY <1>1, <1>8, <1>9, <1>10
<1> QED BY <1>1, <1>10, <1>11, <1>12 DEF ListInv

(* Taking an identity back leaves the list with room made, and nothing else. *)
LEMMA ReleaseKeeps ==
  ASSUME ListInv, NEW file \in Identity, file \notin known,
         accepted' = Without(Append(Room, file), file), known' = (known \ Oldest) \ {file}
  PROVE  ListInv' /\ known' = known \ Oldest
<1>1. /\ Room \in Seq(Identity) /\ Len(Room) < HistoryLimit
      /\ \A i, j \in 1 .. Len(Room) : Room[i] = Room[j] => i = j
      /\ {Room[i] : i \in 1 .. Len(Room)} = known \ Oldest
  BY RoomFacts
<1>2. \A i \in 1 .. Len(Room) : Room[i] # file
  BY <1>1
<1>3. accepted' = Room
  BY <1>1, <1>2, WithoutLast
<1>4. known' = known \ Oldest
  OBVIOUS
<1>5. Len(accepted') <= HistoryLimit
  BY <1>1, <1>3, DiscoveryAssumption DEF DiscoveryAssumption
<1>6. known' = {accepted'[i] : i \in 1 .. Len(accepted')}
  BY <1>1, <1>3, <1>4
<1> QED BY <1>1, <1>3, <1>4, <1>5, <1>6 DEF ListInv

(* The invariant implies the types, and that what is under observation is     *)
(* tracked.                                                                   *)
LEMMA WatchTyped ==
  ASSUME WatchInv
  PROVE  WatchIsTracked
<1>1. DiscoveryTypeOK
  <2>1. known = ToSet(accepted) /\ accepted \in Seq(Identity) /\ Len(accepted) <= HistoryLimit
    <3>1. DOMAIN accepted = 1 .. Len(accepted)
      BY DEF WatchInv, ListInv
    <3> QED BY <3>1 DEF WatchInv, ListInv, ToSet
  <2>2. ASSUME NEW p \in Paths
        PROVE  \/ pending[p] = NotPending
               \/ pending[p].version \in Versions /\ pending[p].count \in 1 .. (required - 1)
    <3>1. pending[p] = NotPending \/ pending[p].count \in 1 .. required - 1
      BY DEF WatchInv, CountInv
    <3>2. CASE pending[p].count \in 1 .. required - 1
      <4>1. p \in PendingPaths
        BY <3>2 DEF PendingPaths
      <4>2. pending[p].version \in Written
        BY <4>1 DEF WatchInv, SeenInv, Watched
      <4>3. Written \subseteq FileVersions
        BY SourceAssumption DEF WatchInv, SourceInv, Written, FileVersions, SourceAssumption
      <4> QED BY <3>2, <4>2, <4>3, WatchAssumption DEF WatchAssumption
    <3> QED BY <3>1, <3>2
  <2> QED BY <2>1, <2>2 DEF WatchInv, CountInv, DiscoveryTypeOK
<1>2. SourceTypeOK
  <2>1. batch.seen \subseteq Identity
    BY DEF WatchInv, SourceInv, Batch
  <2>2. cache # NoCache => cache[1] \subseteq Identity
    <3>1. Written \subseteq Versions
      BY WatchAssumption, SourceAssumption
         DEF WatchInv, SourceInv, Written, FileVersions, SourceAssumption, WatchAssumption
    <3> QED BY <3>1 DEF WatchInv, SeenInv, Watched, Identity
  <2> QED BY <2>1, <2>2 DEF WatchInv, SourceInv, SourceTypeOK, Tree
<1>3. WatchTypeOK
  BY <1>1, <1>2 DEF WatchInv, OwnerInv, WatchTypeOK
<1>4. PendingIsTracked
  <2>1. PendingPaths \subseteq retained
    BY DEF WatchInv, SeenInv, PendingPaths
  <2>2. IsFiniteSet(retained) /\ Cardinality(retained) \in Nat
    BY DiscoveryAssumption, FS_Subset, FS_CardinalityType DEF WatchInv, SourceInv, DiscoveryAssumption
  <2>3. Cardinality(PendingPaths) <= Cardinality(retained) /\ Cardinality(PendingPaths) \in Nat
    BY <2>1, <2>2, FS_Subset, FS_CardinalityType
  <2>4. options.limit \in Nat /\ Cardinality(retained) <= options.limit
    BY DiscoveryAssumption DEF WatchInv, SourceInv, Choice, DiscoveryAssumption
  <2> QED BY <2>1, <2>2, <2>3, <2>4 DEF PendingIsTracked
<1> QED BY <1>3, <1>4 DEF WatchIsTracked

------------------------------------------------------------------------------
(* The start, the user and the directory. *)

(* The invariant holds when the session starts. *)
LEMMA WatchInitInv ==
  ASSUME WatchInit
  PROVE  WatchInv
<1>1. /\ requested \in Requests /\ required = requested.stability
      /\ pending = [p \in Paths |-> NotPending] /\ accepted = <<>> /\ known = {}
      /\ directory = [p \in Paths |-> IF p \in Existing THEN Before ELSE Gone]
      /\ root = "present" /\ changes = 0 /\ faults = 0 /\ pollingOnly \in BOOLEAN
      /\ handle = "none" /\ signal = FALSE /\ enabled = TRUE /\ failures = 0 /\ cache = NoCache
      /\ options = Desired /\ retained = {} /\ unread = {} /\ batch = NoBatch
      /\ phase = "poll" /\ untilPoll = 0 /\ sinceRefresh = 0
      /\ submitted = {} /\ forgotten = {} /\ polled = Unpolled
  BY DEF WatchInit, DiscoveryInit, SourceInit
<1>2. requested \in Request
  BY <1>1, WatchAssumption DEF WatchAssumption
<1>3. ListInv
  <2>1. Len(accepted) = 0 /\ accepted \in Seq(Identity)
    BY <1>1
  <2> QED BY <1>1, <2>1, DiscoveryAssumption DEF ListInv, DiscoveryAssumption
<1>4. CountInv /\ PendingPaths = {}
  BY <1>1, <1>2 DEF CountInv, Request, NotPending, PendingPaths
<1>5. SourceInv
  <2>1. options \in Choice
    BY <1>1, <1>2 DEF Desired, Choice, Request
  <2>2. batch \in Batch
    BY <1>1 DEF NoBatch, Batch
  <2>3. directory \in Tree
    BY <1>1, SourceAssumption DEF Tree, FileVersions, Before, SourceAssumption
  <2>4. Cardinality(retained) <= options.limit
    BY <1>1, <2>1, FS_EmptySet DEF Choice
  <2>5. MaxChanges \in Nat /\ MaxFaults \in Nat /\ MonitorLimit \in Nat /\ MonitorLimit # 0
    BY SourceAssumption DEF SourceAssumption
  <2>6. /\ changes \in 0 .. MaxChanges /\ faults \in 0 .. MaxFaults
        /\ failures \in 0 .. MonitorLimit /\ failures < MonitorLimit
    BY <1>1, <2>5
  <2>7. signal \in BOOLEAN /\ enabled \in BOOLEAN
    BY <1>1
  <2> QED BY <1>1, <2>1, <2>2, <2>3, <2>4, <2>6, <2>7 DEF SourceInv
<1>6. OwnerInv
  <2>1. polled \in Tree
    BY <1>1 DEF Unpolled, Tree
  <2> QED BY <1>1, <2>1, WatchAssumption DEF OwnerInv, WatchAssumption
<1>7. batch.seen = {}
  BY <1>1 DEF NoBatch
<1>8. SeenInv
  BY <1>1, <1>4, <1>7 DEF SeenInv, Written, Before
<1>9. PhaseInv /\ SilentInv /\ PollInv /\ ReadInv /\ SubmittedInv
  BY <1>1, <1>7 DEF PhaseInv, SilentInv, PollInv, ReadInv, SubmittedInv
<1> QED BY <1>3, <1>4, <1>5, <1>6, <1>8, <1>9 DEF WatchInv

(* A change of the directory makes no watched file unwatched. *)
LEMMA WatchedGrows ==
  ASSUME WatchInv, options' = options, changes' = changes \/ changes' = changes + 1, NEW file, Watched(file)
  PROVE  Watched(file)'
BY DEF WatchInv, SourceInv, Watched, Written, InWindow

(* While neither the selection nor the directory changes, the same files are  *)
(* watched.                                                                   *)
LEMMA WatchedSame ==
  ASSUME UNCHANGED <<options, changes>>, NEW file
  PROVE  Watched(file)' = Watched(file)
BY DEF Watched, Written, InWindow

(* What the user, the game or the root may do between two steps of the owner. *)
Moves ==
  /\ changes < MaxChanges /\ changes' = changes + 1
  /\ directory' \in Tree
  /\ \A p \in Paths : directory'[p] \in {directory[p], Gone, changes + 2}
  /\ root' \in {"present", "missing", "unusable"} /\ handle' \in {"none", "armed", "dead"}
  /\ signal' \in BOOLEAN /\ requested' \in Requests
  /\ UNCHANGED <<handle, signal, directory>> \/ (handle' = "armed" => signal')
  /\ UNCHANGED <<discovery, faults, pollingOnly, notifying, options, retained, unread, batch,
                 phase, untilPoll, sinceRefresh, watchObservers>>

(* Every write, removal, change of the root and request is such a move. *)
LEMMA WorldMoves ==
  ASSUME WatchInv, WorldStep \/ Ask
  PROVE  Moves
<1>1. /\ directory \in Tree /\ changes \in 0 .. MaxChanges /\ MaxChanges \in Nat
      /\ root \in {"present", "missing", "unusable"} /\ handle \in {"none", "armed", "dead"}
      /\ signal \in BOOLEAN /\ requested \in Requests
  BY SourceAssumption DEF WatchInv, SourceInv, OwnerInv, SourceAssumption
<1>2. changes < MaxChanges => changes + 2 \in FileVersions
  BY <1>1 DEF FileVersions
<1>3. CASE WorldStep
  <2>1. UNCHANGED <<discovery, owner, watchObservers>>
    BY <1>3 DEF WorldStep
  <2>2. ASSUME NEW p \in Paths, Write(p)
        PROVE  Moves
    <3>1. /\ changes < MaxChanges /\ changes' = changes + 1
          /\ directory' = [directory EXCEPT ![p] = changes + 2]
          /\ signal' = (signal \/ handle # "none")
          /\ UNCHANGED <<root, faults, pollingOnly, handle, notifying, options, retained, unread, batch>>
      BY <2>2 DEF Write, Signalled
    <3>2. directory' \in Tree /\ \A q \in Paths : directory'[q] \in {directory[q], changes + 2}
      BY <1>1, <1>2, <3>1 DEF Tree
    <3>3. signal' \in BOOLEAN /\ (handle' = "armed" => signal')
      BY <1>1, <3>1
    <3> QED BY <1>1, <2>1, <3>1, <3>2, <3>3 DEF Moves, owner
  <2>3. ASSUME NEW p \in Paths, Delete(p)
        PROVE  Moves
    <3>1. /\ changes < MaxChanges /\ changes' = changes + 1
          /\ directory' = [directory EXCEPT ![p] = Gone]
          /\ signal' = (signal \/ handle # "none")
          /\ UNCHANGED <<root, faults, pollingOnly, handle, notifying, options, retained, unread, batch>>
      BY <2>3 DEF Delete, Signalled
    <3>2. directory' \in Tree /\ \A q \in Paths : directory'[q] \in {directory[q], Gone}
      BY <1>1, <3>1 DEF Tree
    <3>3. signal' \in BOOLEAN /\ (handle' = "armed" => signal')
      BY <1>1, <3>1
    <3> QED BY <1>1, <2>1, <3>1, <3>2, <3>3 DEF Moves, owner
  <2>4. ASSUME RootChanges
        PROVE  Moves
    <3>1. /\ changes < MaxChanges /\ changes' = changes + 1
          /\ root' \in {"present", "missing", "unusable"}
          /\ directory' \in {directory, [p \in Paths |-> Gone]}
          /\ handle' = IF handle = "armed" THEN "dead" ELSE handle
          /\ signal' = (signal \/ handle # "none")
          /\ UNCHANGED <<faults, pollingOnly, notifying, options, retained, unread, batch>>
      BY <2>4 DEF RootChanges, Signalled
    <3>2. directory' \in Tree /\ \A q \in Paths : directory'[q] \in {directory[q], Gone}
      BY <1>1, <3>1 DEF Tree
    <3>3. signal' \in BOOLEAN /\ handle' \in {"none", "dead"}
      BY <1>1, <3>1
    <3> QED BY <1>1, <2>1, <3>1, <3>2, <3>3 DEF Moves, owner
  <2> QED BY <1>3, <2>2, <2>3, <2>4 DEF WorldStep
<1>4. CASE Ask
  BY <1>1, <1>4 DEF Ask, Moves, monitor
<1> QED BY <1>3, <1>4

(* Moves keep the invariant: a new version has never been seen, and the       *)
(* handle that was silent is signalled.                                       *)
LEMMA MovesKeep ==
  ASSUME WatchInv, Moves
  PROVE  WatchInv'
<1>1. /\ changes \in Nat /\ changes' = changes + 1 /\ MaxChanges \in Nat /\ changes < MaxChanges
      /\ \A p \in Paths : directory[p] \in Written \cup {Gone}
  BY SourceAssumption DEF WatchInv, SourceInv, SeenInv, Moves, SourceAssumption
<1>2. UNCHANGED <<required, pending, accepted, known, faults, pollingOnly, enabled, failures, cache,
                  options, retained, unread, batch, phase, untilPoll, sinceRefresh, submitted,
                  forgotten, polled>>
  BY DEF Moves, discovery, notifying, watchObservers
<1>3. ListInv' /\ CountInv' /\ SubmittedInv'
  BY <1>2 DEF WatchInv, ListInv, CountInv, SubmittedInv
<1>4. SourceInv' /\ OwnerInv'
  BY <1>1, <1>2 DEF WatchInv, SourceInv, OwnerInv, Moves
<1>5. PendingPaths' = PendingPaths /\ SeenPaths' = SeenPaths
  BY <1>2 DEF PendingPaths, SeenPaths
<1>6. \A file : Watched(file) => Watched(file)'
  BY <1>1, <1>2, WatchedGrows
<1>7. SeenInv'
  <2>1. \A p \in Paths : directory'[p] \in Written' \cup {Gone}
    BY <1>1 DEF Moves, Written
  <2> QED BY <1>2, <1>5, <1>6, <2>1 DEF WatchInv, SeenInv
<1>8. PhaseInv'
  BY <1>2, <1>5 DEF WatchInv, PhaseInv
<1>9. SilentInv'
  BY <1>2 DEF WatchInv, SilentInv, Moves
<1>10. \A p \in PendingPaths : directory'[p] = pending[p].version => directory'[p] = directory[p]
  <2> SUFFICES ASSUME NEW p \in PendingPaths, directory'[p] = pending[p].version
               PROVE  directory'[p] = directory[p]
    OBVIOUS
  <2>1. p \in Paths /\ pending[p].version \in 1 .. changes + 1
    BY DEF WatchInv, SeenInv, Watched, Written, PendingPaths
  <2> QED BY <1>1, <2>1 DEF Moves, Gone
<1>11. PollInv' /\ ReadInv'
  BY <1>2, <1>5, <1>10 DEF WatchInv, PollInv, ReadInv
<1> QED BY <1>3, <1>4, <1>7, <1>8, <1>9, <1>11 DEF WatchInv

------------------------------------------------------------------------------
(* The owner between polls. *)

(* The bounds are natural numbers. *)
LEMMA Bounds ==
  /\ PollInterval \in Nat \ {0} /\ RefreshInterval \in Nat \ {0}
  /\ MaxChanges \in Nat /\ MaxFaults \in Nat /\ MonitorLimit \in Nat \ {0}
  /\ PendingLimit \in Nat \ {0} /\ HistoryLimit \in Nat \ {0}
BY WatchAssumption, SourceAssumption, DiscoveryAssumption
   DEF WatchAssumption, SourceAssumption, DiscoveryAssumption

(* A fault stays within the bound on faults. *)
LEMMA FaultKeeps ==
  ASSUME SourceInv, Fault
  PROVE  faults' \in 0 .. MaxFaults
BY Bounds DEF SourceInv, Fault

(* Waiting keeps the invariant. *)
LEMMA TimePassesKeeps ==
  ASSUME WatchInv, TimePasses
  PROVE  WatchInv'
<1>1. /\ phase = "wait" /\ phase' = "apply"
      /\ untilPoll' = IF untilPoll = 0 THEN 0 ELSE untilPoll - 1
      /\ sinceRefresh' = Minimum({sinceRefresh + 1, RefreshInterval})
      /\ UNCHANGED <<required, pending, accepted, known, directory, root, changes, faults, pollingOnly,
                     handle, signal, enabled, failures, cache, options, retained, unread, batch,
                     requested, submitted, forgotten, polled>>
  BY DEF TimePasses, discovery, source, world, monitor, notifying, watchObservers
<1>2. untilPoll \in 0 .. PollInterval /\ sinceRefresh \in 0 .. RefreshInterval
  BY DEF WatchInv, OwnerInv
<1>3. untilPoll' \in 0 .. PollInterval
  BY <1>1, <1>2, Bounds
<1>4. sinceRefresh' \in 0 .. RefreshInterval
  <2> DEFINE a == sinceRefresh + 1
             b == RefreshInterval
  <2>1. a \in Nat /\ b \in Nat
    BY <1>2, Bounds
  <2> HIDE DEF a, b
  <2>2. \E x \in {a, b} : \A y \in {a, b} : x <= y
    BY <2>1
  <2>3. Minimum({a, b}) \in {a, b} /\ \A y \in {a, b} : Minimum({a, b}) <= y
    BY <2>2, Zenon DEF Minimum
  <2>4. Minimum({a, b}) \in 0 .. b
    BY <2>1, <2>3
  <2> QED BY <1>1, <2>4 DEF a, b
<1>5. ListInv' /\ CountInv' /\ SourceInv' /\ SubmittedInv'
  BY <1>1 DEF WatchInv, ListInv, CountInv, SourceInv, SubmittedInv
<1>6. OwnerInv'
  BY <1>1, <1>3, <1>4 DEF WatchInv, OwnerInv
<1>7. SeenInv'
  <2>1. \A file : Watched(file)' = Watched(file)
    BY <1>1, WatchedSame
  <2>2. PendingPaths' = PendingPaths /\ Written' = Written
    BY <1>1 DEF PendingPaths, Written
  <2> QED BY <1>1, <2>1, <2>2 DEF WatchInv, SeenInv
<1>8. PhaseInv' /\ SilentInv' /\ PollInv' /\ ReadInv'
  BY <1>1 DEF WatchInv, PhaseInv, SilentInv, PollInv, ReadInv
<1> QED BY <1>5, <1>6, <1>7, <1>8 DEF WatchInv

(* Applying a selection or a threshold keeps it: a new source forgets the     *)
(* snapshot, the cache and the observations together.                         *)
LEMMA ApplyKeeps ==
  ASSUME WatchInv, ApplyConfiguration
  PROVE  WatchInv'
<1>1. /\ phase = "apply" /\ sinceRefresh' \in {0, sinceRefresh} /\ required' = requested.stability
      /\ pending' = (IF SourceChanges \/ StabilityChanges THEN Cleared ELSE pending)
      /\ untilPoll' \in {0, untilPoll} /\ phase' \in {"poll", "wait"}
      /\ UNCHANGED <<requested, accepted, known, submitted, forgotten, polled>>
  BY DEF ApplyConfiguration, watchObservers
<1>2. /\ UNCHANGED <<directory, root, changes, pollingOnly, signal, unread, batch>>
      /\ SourceChanges => /\ options' = Desired /\ retained' = {} /\ cache' = NoCache /\ failures' = 0
                          /\ \/ enabled' = TRUE /\ handle' = "none" /\ UNCHANGED faults
                             \/ Fault /\ enabled' = FALSE /\ UNCHANGED handle
      /\ ~SourceChanges => UNCHANGED <<faults, handle, enabled, failures, cache, options, retained>>
  BY DEF ApplyConfiguration, Reconfigure, source, world, monitor, notifying
<1>3. requested \in Request
  BY WatchAssumption DEF WatchInv, OwnerInv, WatchAssumption
<1>4. batch = NoBatch /\ batch.seen = {}
  BY <1>1 DEF WatchInv, PhaseInv, NoBatch
<1>5. /\ \A p \in Paths : Cleared[p] = NotPending /\ Cleared[p].count = 0
      /\ Cleared \in [Paths -> [version : Nat, count : Nat]]
  BY DEF Cleared, NotPending
<1>6. ListInv' /\ SubmittedInv'
  BY <1>1 DEF WatchInv, ListInv, SubmittedInv
<1>7. CountInv'
  <2>1. CASE SourceChanges \/ StabilityChanges
    <3>1. required' \in Stability
      BY <1>1, <1>3 DEF Request
    <3>2. pending' = Cleared
      BY <1>1, <2>1
    <3> QED BY <3>1, <3>2, <1>5 DEF CountInv
  <2>2. CASE ~(SourceChanges \/ StabilityChanges)
    <3>1. required' = required /\ pending' = pending
      BY <1>1, <2>2 DEF StabilityChanges
    <3> QED BY <3>1 DEF WatchInv, CountInv
  <2> QED BY <2>1, <2>2
<1>8. SourceInv'
  <2>1. CASE SourceChanges
    <3>1. options' \in Choice /\ options'.limit \in Nat
      BY <1>2, <1>3, <2>1, Bounds DEF Desired, Choice, Request
    <3>2. Cardinality(retained') <= options'.limit
      BY <1>2, <2>1, <3>1, FS_EmptySet
    <3>3. faults' \in 0 .. MaxFaults
      BY <1>2, <2>1, FaultKeeps DEF WatchInv, SourceInv
    <3>4. failures' \in 0 .. MonitorLimit /\ failures' < MonitorLimit
      BY <1>2, <2>1, Bounds
    <3>5. enabled' \in BOOLEAN /\ handle' \in {"none", "armed", "dead"}
      BY <1>2, <2>1 DEF WatchInv, SourceInv
    <3> QED BY <1>2, <2>1, <3>1, <3>2, <3>3, <3>4, <3>5 DEF WatchInv, SourceInv
  <2>2. CASE ~SourceChanges
    BY <1>2, <2>2 DEF WatchInv, SourceInv
  <2> QED BY <2>1, <2>2
<1>9. OwnerInv'
  BY <1>1, Bounds DEF WatchInv, OwnerInv
<1>10. SeenInv'
  <2>1. Written' = Written
    BY <1>2 DEF Written
  <2>2. CASE SourceChanges
    <3>1. PendingPaths' = {}
      BY <1>1, <1>5, <2>2 DEF PendingPaths
    <3> QED BY <1>2, <1>4, <2>1, <2>2, <3>1 DEF WatchInv, SeenInv
  <2>3. CASE ~SourceChanges
    <3>1. \A file : Watched(file)' = Watched(file)
      BY <1>2, <2>3, WatchedSame
    <3>2. PendingPaths' \subseteq PendingPaths /\ \A p \in PendingPaths' : pending'[p] = pending[p]
      BY <1>1, <1>5 DEF PendingPaths
    <3> QED BY <1>2, <1>4, <2>1, <2>3, <3>1, <3>2 DEF WatchInv, SeenInv
  <2> QED BY <2>2, <2>3
<1>11. PhaseInv' /\ PollInv' /\ ReadInv'
  BY <1>1, <1>2, <1>4 DEF PhaseInv, PollInv, ReadInv
<1>12. SilentInv'
  BY <1>1, <1>2 DEF WatchInv, SilentInv
<1> QED BY <1>6, <1>7, <1>8, <1>9, <1>10, <1>11, <1>12 DEF WatchInv

(* Nothing that is seen or under observation changes, and the owner comes to  *)
(* rest.                                                                      *)
Rests ==
  /\ phase' = "wait" /\ batch' = NoBatch /\ faults' \in 0 .. MaxFaults
  /\ untilPoll' = untilPoll /\ sinceRefresh' = sinceRefresh /\ requested' = requested
  /\ unread' \subseteq Paths /\ polled' \in Tree
  /\ UNCHANGED <<required, pending, accepted, known, directory, root, changes, pollingOnly, handle,
                 signal, enabled, failures, cache, options, retained, submitted, forgotten>>

(* Coming to rest keeps the invariant. *)
LEMMA RestsKeeps ==
  ASSUME WatchInv, Rests
  PROVE  WatchInv'
<1>1. NoBatch \in Batch /\ NoBatch.seen = {}
  BY DEF NoBatch, Batch
<1>2. ListInv' /\ CountInv' /\ SourceInv' /\ OwnerInv' /\ SubmittedInv'
  BY <1>1 DEF WatchInv, ListInv, CountInv, SourceInv, OwnerInv, SubmittedInv, Rests
<1>3. SeenInv'
  <2>1. \A file : Watched(file)' = Watched(file)
    BY WatchedSame DEF Rests
  <2>2. PendingPaths' = PendingPaths /\ Written' = Written
    BY DEF PendingPaths, Written, Rests
  <2> QED BY <1>1, <2>1, <2>2 DEF WatchInv, SeenInv, Rests
<1>4. PhaseInv' /\ SilentInv' /\ PollInv' /\ ReadInv'
  BY <1>1 DEF WatchInv, PhaseInv, SilentInv, PollInv, ReadInv, Rests
<1> QED BY <1>2, <1>3, <1>4 DEF WatchInv

(* A selection that cannot be applied keeps it. *)
LEMMA ApplyFailsKeeps ==
  ASSUME WatchInv, ApplyFails
  PROVE  WatchInv'
<1>1. batch = NoBatch
  BY DEF WatchInv, PhaseInv, ApplyFails
<1>2. Rests
  BY <1>1, FaultKeeps
     DEF WatchInv, SourceInv, OwnerInv, ApplyFails, Rests, discovery, world, monitor, notifying, watchObservers
<1> QED BY <1>2, RestsKeeps

(* A scan that ends in an error keeps it. *)
LEMMA ScanErrorKeeps ==
  ASSUME WatchInv, ScanEndsInError
  PROVE  WatchInv'
<1>1. Unpolled \in Tree
  BY DEF Unpolled, Tree
<1>2. Rests
  BY <1>1, FaultKeeps
     DEF WatchInv, SourceInv, ScanEndsInError, ScanFails, EndPoll, Rests, discovery, world, monitor, notifying
<1> QED BY <1>2, RestsKeeps

(* The end of a batch, or a parser without room, keeps it. *)
LEMMA EndTickKeeps ==
  ASSUME WatchInv, EndTick
  PROVE  WatchInv'
<1>1. Unpolled \in Tree
  BY DEF Unpolled, Tree
<1>2. Rests
  BY <1>1, FaultKeeps
     DEF WatchInv, SourceInv, EndTick, EndPoll, Rests, discovery, world, monitor, notifying
<1> QED BY <1>2, RestsKeeps

------------------------------------------------------------------------------
(* Polling and scanning. *)

(* Polling keeps it: the cache is repeated only while the handle is silent,   *)
(* so that it shows the directory as it is when the poll begins.              *)
LEMMA PollKeeps ==
  ASSUME WatchInv, Poll
  PROVE  WatchInv'
<1>1. /\ phase = "poll" /\ untilPoll' = PollInterval /\ polled' = directory
      /\ UNCHANGED <<required, pending, accepted, known, requested, sinceRefresh, submitted, forgotten>>
  BY DEF Poll, discovery
<1>2. ListInv' /\ CountInv' /\ SubmittedInv'
  BY <1>1 DEF WatchInv, ListInv, CountInv, SubmittedInv
<1>3. PendingPaths' = PendingPaths
  BY <1>1 DEF PendingPaths
<1>4. polled' \in Tree /\ untilPoll' \in 0 .. PollInterval
  BY <1>1, Bounds DEF WatchInv, SourceInv
<1>5. CASE PollUnchanged /\ phase' = "observe"
  <2>1. /\ handle = "armed" /\ ~signal /\ enabled /\ cache # NoCache /\ failures' = 0
        /\ batch' = [available |-> TRUE, complete |-> TRUE, seen |-> cache[1], removed |-> {}]
        /\ UNCHANGED <<directory, root, changes, faults, pollingOnly, handle, signal, enabled, cache,
                       options, retained, unread>>
    BY <1>5 DEF PollUnchanged, MonitorUnchanged, RepeatCache, world
  <2>2. batch'.seen = cache[1] /\ batch'.available = TRUE
    BY <2>1
  <2>3. \A file \in cache[1] : Watched(file) /\ file[1] \in retained /\ directory[file[1]] = file[2]
    BY <2>1 DEF WatchInv, SeenInv, SilentInv
  <2>4. SourceInv'
    <3>1. Written \subseteq Versions
      BY WatchAssumption, Bounds DEF WatchInv, SourceInv, Written, FileVersions, WatchAssumption
    <3>2. batch' \in Batch
      BY <2>1, <2>3, <3>1 DEF Batch, Watched, Identity
    <3> QED BY <2>1, <3>2, Bounds DEF WatchInv, SourceInv
  <2>5. OwnerInv'
    BY <1>1, <1>4, <1>5 DEF WatchInv, OwnerInv
  <2>6. SeenInv'
    <3>1. \A file : Watched(file)' = Watched(file)
      BY <2>1, WatchedSame
    <3>2. Written' = Written
      BY <2>1 DEF Written
    <3> QED BY <1>1, <1>3, <2>1, <2>2, <2>3, <3>1, <3>2 DEF WatchInv, SeenInv
  <2>7. PhaseInv' /\ SilentInv' /\ PollInv' /\ ReadInv'
    <3>1. SeenPaths' \subseteq retained'
      BY <2>1, <2>2, <2>3 DEF SeenPaths
    <3> QED BY <1>1, <1>5, <2>1, <2>2, <2>3, <3>1 DEF PhaseInv, SilentInv, PollInv, ReadInv
  <2> QED BY <1>2, <2>4, <2>5, <2>6, <2>7 DEF WatchInv
<1>6. CASE PollAndScan /\ phase' = "scan"
  <2>1. /\ cache' = NoCache /\ unread' = Paths /\ batch' = [NoBatch EXCEPT !.complete = TRUE]
        /\ UNCHANGED <<directory, root, changes, pollingOnly, options, retained>>
    BY <1>6 DEF PollAndScan, BeginScan, world
  <2>2. /\ batch' \in Batch /\ batch'.seen = {} /\ batch'.complete = TRUE
    BY <2>1 DEF NoBatch, Batch
  <2>3. /\ handle' \in {"none", "armed", "dead"} /\ signal' \in BOOLEAN /\ faults' \in 0 .. MaxFaults
    <3>1. UNCHANGED <<handle, signal, faults>> \/ MonitorChanged \/ MonitorUnusable \/ MonitorUnchanged
      BY <1>6 DEF PollAndScan
    <3>2. ASSUME MonitorChanged
          PROVE  handle' \in {"none", "armed", "dead"} /\ signal' \in BOOLEAN /\ faults' \in 0 .. MaxFaults
      BY <3>2 DEF MonitorChanged, WatchInv, SourceInv
    <3>3. ASSUME MonitorUnusable
          PROVE  handle' \in {"none", "armed", "dead"} /\ signal' \in BOOLEAN /\ faults' \in 0 .. MaxFaults
      BY <3>3, FaultKeeps DEF MonitorUnusable, WatchInv, SourceInv
    <3>4. ASSUME UNCHANGED <<handle, signal, faults>> \/ MonitorUnchanged
          PROVE  handle' \in {"none", "armed", "dead"} /\ signal' \in BOOLEAN /\ faults' \in 0 .. MaxFaults
      BY <3>4 DEF MonitorUnchanged, WatchInv, SourceInv
    <3> QED BY <3>1, <3>2, <3>3, <3>4
  <2>4. enabled' \in BOOLEAN /\ failures' \in 0 .. MonitorLimit /\ (enabled' => failures' < MonitorLimit)
    <3>1. \/ UNCHANGED <<enabled, failures>>
          \/ failures' = 0 /\ UNCHANGED enabled
          \/ enabled /\ failures' = failures + 1 /\ enabled' = (failures' < MonitorLimit)
      BY <1>6 DEF PollAndScan
    <3>2. /\ enabled \in BOOLEAN /\ failures \in 0 .. MonitorLimit /\ (enabled => failures < MonitorLimit)
          /\ MonitorLimit \in Nat \ {0}
      BY Bounds DEF WatchInv, SourceInv
    <3>3. CASE UNCHANGED <<enabled, failures>>
      BY <3>2, <3>3
    <3>4. CASE failures' = 0 /\ UNCHANGED enabled
      BY <3>2, <3>4
    <3>5. CASE enabled /\ failures' = failures + 1 /\ enabled' = (failures' < MonitorLimit)
      <4>1. failures' \in 0 .. MonitorLimit
        BY <3>2, <3>5
      <4>2. enabled' \in BOOLEAN /\ (enabled' => failures' < MonitorLimit)
        <5>1. CASE failures' < MonitorLimit
          <6>1. enabled' = TRUE
            BY <3>5, <5>1, Zenon
          <6> QED BY <5>1, <6>1
        <5>2. CASE ~(failures' < MonitorLimit)
          <6>1. (failures' < MonitorLimit) \in BOOLEAN
            BY SMT
          <6>2. enabled' = FALSE
            BY <3>5, <5>2, <6>1, Zenon
          <6> QED BY <6>2
        <5> QED BY <5>1, <5>2
      <4> QED BY <4>1, <4>2
    <3> QED BY <3>1, <3>3, <3>4, <3>5
  <2>5. SourceInv'
    BY <2>1, <2>2, <2>3, <2>4 DEF WatchInv, SourceInv
  <2>6. OwnerInv'
    BY <1>1, <1>4, <1>6 DEF WatchInv, OwnerInv
  <2>7. SeenInv'
    <3>1. \A file : Watched(file)' = Watched(file)
      BY <2>1, WatchedSame
    <3>2. Written' = Written
      BY <2>1 DEF Written
    <3> QED BY <1>1, <1>3, <2>1, <2>2, <3>1, <3>2 DEF WatchInv, SeenInv
  <2>8. PhaseInv' /\ SilentInv'
    BY <1>6, <2>1, <2>2 DEF PhaseInv, SilentInv
  <2>9. PollInv' /\ ReadInv'
    <3>1. \A p \in PendingPaths : p \in unread'
      BY <2>1 DEF PendingPaths
    <3> QED BY <1>1, <1>3, <1>6, <2>1, <2>2, <3>1 DEF PollInv, ReadInv
  <2> QED BY <1>2, <2>5, <2>6, <2>7, <2>8, <2>9 DEF WatchInv
<1> QED BY <1>5, <1>6 DEF Poll

(* A scan goes on: nothing but the batch and the entries to read changes. *)
Reads ==
  /\ phase = "scan" /\ faults' \in 0 .. MaxFaults
  /\ UNCHANGED <<required, pending, accepted, known, directory, root, changes, pollingOnly, handle,
                 signal, enabled, failures, cache, options, retained, phase, requested, untilPoll,
                 sinceRefresh, submitted, forgotten, polled>>

(* Reading an entry, or failing to, keeps the invariant; a scan that has      *)
(* failed is not complete any more.                                           *)
LEMMA ReadsKeeps ==
  ASSUME WatchInv, Reads, unread' \subseteq Paths, batch' \in Batch,
         NEW p \in Paths, batch'.seen \in {batch.seen, batch.seen \cup {<<p, directory[p]>>}},
         batch'.seen # batch.seen => Eligible(p) /\ batch'.available = TRUE,
         batch.available => batch'.available,
         batch'.complete => /\ batch.complete /\ unread \subseteq unread' \cup {p}
                            /\ p \notin unread' /\ p \in unread /\ Eligible(p) =>
                                 <<p, directory[p]>> \in batch'.seen
  PROVE  WatchInv'
<1>1. ListInv' /\ CountInv' /\ SubmittedInv' /\ OwnerInv' /\ SourceInv'
  BY DEF WatchInv, ListInv, CountInv, SubmittedInv, OwnerInv, SourceInv, Reads
<1>2. PendingPaths' = PendingPaths /\ Written' = Written /\ \A file : Watched(file)' = Watched(file)
  BY WatchedSame DEF PendingPaths, Written, Reads
<1> DEFINE f == <<p, directory[p]>>
<1>3. f[1] = p /\ f[2] = directory[p]
  OBVIOUS
<1>4. Eligible(p) => Watched(f)
  BY DEF WatchInv, SeenInv, Watched, Eligible
<1> HIDE DEF f
<1>5. batch'.seen \in {batch.seen, batch.seen \cup {f}} /\ (batch'.seen # batch.seen => Eligible(p))
  BY DEF f
<1>6. SeenInv'
  BY <1>2, <1>4, <1>5 DEF WatchInv, SeenInv, Reads
<1>7. PhaseInv'
  BY DEF WatchInv, PhaseInv, Reads
<1>8. SilentInv'
  BY <1>3, <1>5 DEF WatchInv, SilentInv, Reads
<1>9. PollInv'
  BY <1>2, <1>3, <1>5 DEF WatchInv, PollInv, Reads
<1>10. ReadInv'
  <2> SUFFICES ASSUME batch'.complete, NEW q \in PendingPaths \ unread',
                      directory[q] = pending[q].version, polled[q] = directory[q]
               PROVE  \E file \in batch'.seen : file[1] = q
    BY <1>2 DEF ReadInv, Reads, SeenPaths
  <2>1. batch.complete /\ phase = "scan" /\ batch.seen \subseteq batch'.seen
    BY <1>5 DEF Reads
  <2>2. CASE q \notin unread
    BY <2>1, <2>2 DEF WatchInv, ReadInv, SeenPaths
  <2>3. CASE q \in unread
    <3>1. q = p
      BY <2>3
    <3>2. Watched(<<q, pending[q].version>>)
      BY DEF WatchInv, SeenInv
    <3>3. Eligible(p)
      BY <3>1, <3>2 DEF Watched, Written, Eligible, Gone
    <3>4. f \in batch'.seen
      BY <2>3, <3>1, <3>3 DEF f
    <3> QED BY <3>1, <3>4, <1>3
  <2> QED BY <2>2, <2>3
<1> QED BY <1>1, <1>6, <1>7, <1>8, <1>9, <1>10 DEF WatchInv

(* Every step of a scan is one of these, or opens the root. *)
LEMMA ScanKeeps ==
  ASSUME WatchInv, Scan
  PROVE  WatchInv'
<1>1. /\ batch \in Batch /\ unread \subseteq Paths /\ faults \in 0 .. MaxFaults
      /\ batch.available \in BOOLEAN /\ batch.complete \in BOOLEAN
  BY DEF WatchInv, SourceInv, Batch
<1>2. CASE OpenRoot
  <2>1. /\ batch' = [batch EXCEPT !.available = TRUE] /\ unread' = unread /\ unread = Paths
    BY <1>2 DEF OpenRoot
  <2>2. /\ batch' \in Batch /\ batch'.seen = batch.seen /\ batch'.available = TRUE
        /\ batch'.complete = batch.complete
    BY <1>1, <2>1 DEF Batch
  <2>3. Reads
    BY <1>1, <1>2 DEF Scan, OpenRoot, Reads, discovery, world, monitor, notifying, owner, watchObservers
  <2>4. ListInv' /\ CountInv' /\ SubmittedInv' /\ OwnerInv' /\ SourceInv'
    BY <1>1, <2>1, <2>2, <2>3
       DEF WatchInv, ListInv, CountInv, SubmittedInv, OwnerInv, SourceInv, Reads
  <2>5. PendingPaths' = PendingPaths /\ Written' = Written /\ \A file : Watched(file)' = Watched(file)
    BY <2>3, WatchedSame DEF PendingPaths, Written, Reads
  <2>6. SeenInv' /\ PhaseInv' /\ SilentInv' /\ PollInv' /\ ReadInv'
    BY <2>1, <2>2, <2>3, <2>5
       DEF WatchInv, SeenInv, PhaseInv, SilentInv, PollInv, ReadInv, Reads, SeenPaths
  <2> QED BY <2>4, <2>6 DEF WatchInv
<1>3. ASSUME NEW p \in Paths, ReadEntry(p)
      PROVE  WatchInv'
  <2>1. /\ batch.available /\ p \in unread /\ unread' = unread \ {p}
        /\ batch' = [batch EXCEPT !.seen = IF Eligible(p) THEN @ \cup {<<p, directory[p]>>} ELSE @]
    BY <1>3 DEF ReadEntry
  <2>2. Reads
    BY <1>1, <1>3 DEF Scan, ReadEntry, Reads, discovery, world, monitor, notifying, owner, watchObservers
  <2>3. Eligible(p) => <<p, directory[p]>> \in Identity
    BY WatchAssumption, Bounds
       DEF WatchInv, SourceInv, Tree, Eligible, Gone, Identity, WatchAssumption
  <2>4. PICK seen : /\ seen = IF Eligible(p) THEN batch.seen \cup {<<p, directory[p]>>} ELSE batch.seen
                    /\ batch' = [batch EXCEPT !.seen = seen]
    <3>1. CASE Eligible(p)
      BY <2>1, <3>1
    <3>2. CASE ~Eligible(p)
      BY <2>1, <3>2
    <3> QED BY <3>1, <3>2
  <2>5. seen \in SUBSET Identity
    BY <1>1, <2>3, <2>4 DEF Batch
  <2>6. /\ batch' \in Batch /\ batch'.available = TRUE /\ batch'.complete = batch.complete
        /\ batch'.seen = seen
    BY <1>1, <2>1, <2>4, <2>5 DEF Batch
  <2>7. /\ batch'.seen \in {batch.seen, batch.seen \cup {<<p, directory[p]>>}}
        /\ batch'.seen # batch.seen => Eligible(p)
        /\ Eligible(p) => <<p, directory[p]>> \in batch'.seen
    BY <2>4, <2>6
  <2> QED BY <1>1, <2>1, <2>2, <2>6, <2>7, ReadsKeeps
<1>4. ASSUME NEW p \in Paths, EntryFails(p)
      PROVE  WatchInv'
  <2>1. unread' = unread \ {p} /\ batch' = [batch EXCEPT !.complete = FALSE]
    BY <1>4 DEF EntryFails
  <2>2. Reads
    BY <1>1, <1>4, FaultKeeps
       DEF WatchInv, Scan, EntryFails, Reads, discovery, world, monitor, notifying, owner, watchObservers
  <2>3. /\ batch' \in Batch /\ batch'.available = batch.available /\ batch'.complete = FALSE
        /\ batch'.seen = batch.seen
    BY <1>1, <2>1 DEF Batch
  <2> QED BY <1>1, <2>1, <2>2, <2>3, ReadsKeeps
<1> QED BY <1>2, <1>3, <1>4 DEF Scan

------------------------------------------------------------------------------
(* Delivery and observation. *)

(* No more paths are seen than files. *)
LEMMA SeenPathsBounded ==
  ASSUME WatchInv
  PROVE  /\ IsFiniteSet(batch.seen) /\ IsFiniteSet(SeenPaths)
         /\ Cardinality(SeenPaths) <= Cardinality(batch.seen)
         /\ Cardinality(SeenPaths) \in Nat /\ Cardinality(batch.seen) \in Nat
<1>1. changes \in Nat /\ \A file \in batch.seen : file \in Paths \X Written
  BY DEF WatchInv, SourceInv, SeenInv, Watched
<1>2. IsFiniteSet(Paths \X Written)
  <2>1. IsFiniteSet(Written)
    BY <1>1, FS_Interval DEF Written
  <2> QED BY <2>1, FS_Product, DiscoveryAssumption DEF DiscoveryAssumption
<1>3. IsFiniteSet(batch.seen)
  BY <1>1, <1>2, FS_Subset
<1> DEFINE path == [file \in batch.seen |-> file[1]]
<1>4. path \in Surjection(batch.seen, SeenPaths)
  BY DEF Surjection, SeenPaths
<1> HIDE DEF path
<1>5. IsFiniteSet(SeenPaths) /\ Cardinality(SeenPaths) <= Cardinality(batch.seen)
  BY <1>3, <1>4, FS_Surjection
<1> QED BY <1>3, <1>5, FS_CardinalityType

(* Delivering a scan keeps it: what leaves the snapshot is forgotten at once, *)
(* and the snapshot stays within the limit.                                   *)
LEMMA DeliverKeeps ==
  ASSUME WatchInv, Deliver
  PROVE  WatchInv'
<1>1. /\ phase = "scan" /\ phase' = "observe" /\ unread' = {}
      /\ ~batch.available \/ (batch.available /\ unread = {} /\ ~OverLimit)
      /\ retained' = Retained(batch) /\ batch' = Reconciled(batch)
      /\ cache' = IF batch.available /\ batch.complete THEN <<batch.seen>> ELSE cache
      /\ pending' = [p \in Paths |-> IF p \in batch'.removed THEN NotPending ELSE pending[p]]
      /\ UNCHANGED <<required, accepted, known, directory, root, changes, faults, pollingOnly, handle,
                     signal, enabled, failures, options, requested, untilPoll, sinceRefresh, submitted,
                     forgotten, polled>>
  BY DEF Deliver, FinishScan, ForgetPending, world, monitor, watchObservers
<1>2. batch \in Batch /\ retained \subseteq Paths /\ cache = NoCache /\ (~batch.available => batch.seen = {})
  BY <1>1 DEF WatchInv, SourceInv, PhaseInv
<1>3. SeenPaths \subseteq Paths
  BY <1>2 DEF Batch, SeenPaths, Identity
<1>4. retained' = SeenPaths \cup (IF ~batch.available \/ batch.complete THEN {} ELSE retained)
  BY <1>1 DEF Retained, SeenPaths
<1>5. PICK gone : /\ gone = IF ~batch.available \/ batch.complete THEN retained \ SeenPaths ELSE {}
                  /\ batch' = [batch EXCEPT !.removed = gone]
  BY <1>1 DEF Reconciled, SeenPaths
<1>6. gone \in SUBSET Paths
  BY <1>2, <1>5
<1>7. /\ batch' \in Batch /\ batch'.seen = batch.seen /\ batch'.available = batch.available
      /\ batch'.removed = gone
  BY <1>2, <1>5, <1>6 DEF Batch
<1>8. \A p \in Paths : pending'[p] = IF p \in gone THEN NotPending ELSE pending[p]
  BY <1>1, <1>7
<1>9. PendingPaths' = PendingPaths \ gone /\ \A p \in PendingPaths' : pending'[p] = pending[p]
  BY <1>8 DEF PendingPaths, NotPending
<1>10. PendingPaths' \subseteq retained' /\ SeenPaths' \subseteq retained'
  <2>1. PendingPaths \subseteq retained
    BY DEF WatchInv, SeenInv
  <2>2. SeenPaths' = SeenPaths
    BY <1>7 DEF SeenPaths
  <2> QED BY <2>1, <2>2, <1>4, <1>5, <1>9
<1>11. Cardinality(retained') <= options.limit
  <2>1. options.limit \in Nat
    BY Bounds DEF WatchInv, SourceInv, Choice
  <2>2. /\ Cardinality(SeenPaths) <= Cardinality(batch.seen)
        /\ Cardinality(SeenPaths) \in Nat /\ Cardinality(batch.seen) \in Nat /\ IsFiniteSet(SeenPaths)
    BY SeenPathsBounded
  <2>3. CASE ~batch.available
    <3>1. retained' = {}
      BY <1>2, <1>4, <2>3 DEF SeenPaths
    <3> QED BY <2>1, <3>1, FS_EmptySet
  <2>4. CASE batch.available /\ batch.complete
    <3>1. Cardinality(batch.seen) <= options.limit
      BY <1>1, <2>1, <2>2, <2>4 DEF OverLimit
    <3>2. retained' = SeenPaths
      BY <1>4, <2>4
    <3> QED BY <2>1, <2>2, <3>1, <3>2
  <2>5. CASE batch.available /\ ~batch.complete
    <3>1. retained' = retained \cup SeenPaths
      BY <1>4, <2>5
    <3>2. IsFiniteSet(retained \cup SeenPaths)
      BY <1>2, <1>3, FS_Subset, DiscoveryAssumption DEF DiscoveryAssumption
    <3>3. Cardinality(retained \cup SeenPaths) \in Nat
      BY <3>2, FS_CardinalityType
    <3>4. ~ (Cardinality(retained \cup SeenPaths) > options.limit)
      BY <1>1, <2>5 DEF OverLimit
    <3> QED BY <2>1, <3>1, <3>3, <3>4
  <2> QED BY <2>3, <2>4, <2>5
<1>12. ListInv' /\ SubmittedInv' /\ OwnerInv'
  BY <1>1 DEF WatchInv, ListInv, SubmittedInv, OwnerInv
<1>13. CountInv'
  <2>1. NotPending \in [version : Nat, count : Nat]
    BY DEF NotPending
  <2>2. pending' \in [Paths -> [version : Nat, count : Nat]]
    BY <1>1, <2>1 DEF WatchInv, CountInv
  <2> QED BY <1>1, <1>8, <2>2 DEF WatchInv, CountInv
<1>14. SourceInv'
  <2>1. retained' \subseteq Paths
    BY <1>2, <1>3, <1>4
  <2>2. cache' = NoCache \/ cache' = <<cache'[1]>>
    BY <1>1, <1>2
  <2> QED BY <1>1, <1>7, <1>11, <2>1, <2>2 DEF WatchInv, SourceInv
<1>15. SeenInv'
  <2>1. \A file : Watched(file)' = Watched(file)
    BY <1>1, WatchedSame
  <2>2. Written' = Written
    BY <1>1 DEF Written
  <2>3. cache' # NoCache => cache'[1] = batch.seen
    BY <1>1, <1>2
  <2>4. \A file \in batch.seen : Watched(file) /\ file[1] \in retained'
    BY <1>4 DEF WatchInv, SeenInv, SeenPaths
  <2> QED BY <1>1, <1>7, <1>9, <1>10, <2>1, <2>2, <2>3, <2>4 DEF WatchInv, SeenInv
<1>16. PhaseInv' /\ ReadInv'
  BY <1>1, <1>10 DEF PhaseInv, ReadInv
<1>17. SilentInv'
  <2>1. cache' # NoCache => cache'[1] = batch.seen
    BY <1>1, <1>2
  <2> QED BY <1>1, <2>1 DEF WatchInv, SilentInv
<1>18. PollInv'
  BY <1>1, <1>7, <1>9 DEF WatchInv, PollInv
<1> QED BY <1>12, <1>13, <1>14, <1>15, <1>16, <1>17, <1>18 DEF WatchInv

(* One observation is taken from the batch, or ends the tick. *)
Observes(file, seen) ==
  /\ phase = "observe"
  /\ pending' = [pending EXCEPT ![file[1]] = seen]
  /\ \/ /\ phase' = "observe" /\ polled' = polled /\ faults' = faults
        /\ batch' = [batch EXCEPT !.seen = batch.seen \ {file}]
     \/ /\ phase' = "wait" /\ polled' = Unpolled /\ faults' \in 0 .. MaxFaults
        /\ batch' = NoBatch
  /\ UNCHANGED <<required, directory, root, changes, pollingOnly, handle, signal, enabled, failures,
                 cache, options, retained, unread, requested, untilPoll, sinceRefresh>>

(* Taking an observation keeps the invariant, provided the accepted list and  *)
(* the observers stay as they should be: the rest of the batch is about other *)
(* paths.                                                                     *)
LEMMA ObservesKeeps ==
  ASSUME WatchInv, NEW file \in batch.seen, NEW seen \in [version : Nat, count : Nat],
         seen = NotPending \/ (seen.version = file[2] /\ seen.count \in 1 .. required - 1),
         Observes(file, seen), ListInv', SubmittedInv',
         submitted' \subseteq Identity, forgotten' \subseteq Identity
  PROVE  WatchInv'
<1>1. /\ phase = "observe"
      /\ UNCHANGED <<required, directory, root, changes, pollingOnly, handle, signal, enabled, failures,
                     cache, options, retained, unread, requested, untilPoll, sinceRefresh>>
  BY DEF Observes
<1>2. batch \in Batch /\ faults \in 0 .. MaxFaults /\ polled \in Tree
  BY DEF WatchInv, SourceInv, OwnerInv
<1>3. /\ file = <<file[1], file[2]>> /\ file[1] \in Paths /\ Watched(file) /\ file[1] \in retained
      /\ \A other \in batch.seen : other = <<other[1], other[2]>>
  BY <1>1 DEF WatchInv, SeenInv, PhaseInv, Watched, SeenPaths
<1>4. /\ batch' \in Batch /\ batch'.seen \subseteq batch.seen \ {file}
      /\ phase' \in {"observe", "wait"} /\ (phase' = "wait" => batch' = NoBatch)
      /\ faults' \in 0 .. MaxFaults /\ polled' \in Tree
      /\ batch'.seen # {} => polled' = polled
  <2>1. CASE phase' = "observe" /\ polled' = polled /\ faults' = faults
             /\ batch' = [batch EXCEPT !.seen = batch.seen \ {file}]
    <3>1. batch.seen \ {file} \in SUBSET Identity
      BY <1>2 DEF Batch
    <3>2. batch' \in Batch /\ batch'.seen = batch.seen \ {file}
      BY <1>2, <2>1, <3>1 DEF Batch
    <3> QED BY <1>2, <2>1, <3>2
  <2>2. CASE phase' = "wait" /\ polled' = Unpolled /\ faults' \in 0 .. MaxFaults /\ batch' = NoBatch
    <3>1. NoBatch \in Batch /\ NoBatch.seen = {}
      BY DEF NoBatch, Batch
    <3>2. Unpolled \in Tree
      BY DEF Unpolled, Tree
    <3> QED BY <2>2, <3>1, <3>2
  <2> QED BY <2>1, <2>2 DEF Observes
<1>5. /\ pending \in [Paths -> [version : Nat, count : Nat]]
      /\ pending' = [pending EXCEPT ![file[1]] = seen]
  BY DEF WatchInv, CountInv, Observes
<1>6. /\ pending' \in [Paths -> [version : Nat, count : Nat]]
      /\ \A p \in Paths : pending'[p] = IF p = file[1] THEN seen ELSE pending[p]
  BY <1>3, <1>5
<1>7. CountInv'
  BY <1>1, <1>6 DEF WatchInv, CountInv
<1>8. SourceInv' /\ OwnerInv'
  BY <1>1, <1>4 DEF WatchInv, SourceInv, OwnerInv
<1>9. \A p \in PendingPaths' :
        \/ p = file[1] /\ pending'[p].version = file[2]
        \/ p # file[1] /\ p \in PendingPaths /\ pending'[p] = pending[p]
  BY <1>6 DEF PendingPaths, NotPending
<1>10. \A f : Watched(f)' = Watched(f)
  BY <1>1, WatchedSame
<1>11. SeenInv'
  <2>1. Written' = Written
    BY <1>1 DEF Written
  <2>2. ASSUME NEW p \in PendingPaths'
        PROVE  Watched(<<p, pending'[p].version>>) /\ p \in retained
    BY <1>3, <1>9 DEF WatchInv, SeenInv
  <2> QED BY <1>1, <1>4, <1>10, <2>1, <2>2 DEF WatchInv, SeenInv
<1>12. PhaseInv' /\ ReadInv'
  BY <1>1, <1>4 DEF WatchInv, PhaseInv, ReadInv, SeenPaths
<1>13. SilentInv'
  BY <1>1, <1>4 DEF WatchInv, SilentInv
<1>14. PollInv'
  <2> SUFFICES ASSUME NEW other \in batch'.seen, other[1] \in PendingPaths',
                      pending'[other[1]].version = other[2]
               PROVE  polled'[other[1]] = other[2]
    BY <1>4 DEF PollInv
  <2>1. other \in batch.seen /\ other # file /\ polled' = polled /\ other = <<other[1], other[2]>>
    BY <1>3, <1>4
  <2>2. other[1] # file[1]
    BY <1>3, <1>9, <2>1
  <2>3. other[1] \in PendingPaths /\ pending[other[1]].version = other[2]
    BY <1>9, <2>2
  <2> QED BY <1>1, <2>1, <2>3 DEF WatchInv, PollInv
<1> QED BY <1>7, <1>8, <1>11, <1>12, <1>13, <1>14 DEF WatchInv

(* An observation that counts more than once matches the version under        *)
(* observation.                                                               *)
LEMMA SeenIsKnownToMatch ==
  ASSUME WatchInv, phase = "observe", NEW file \in batch.seen
  PROVE  /\ file \in Identity /\ file = <<file[1], file[2]>> /\ file[1] \in Paths /\ file[2] \in Nat
         /\ Matches(file) \in Nat \ {0}
         /\ required \in Nat \ {0, 1}
         /\ Matches(file) # 1 => file[1] \in PendingPaths /\ pending[file[1]].version = file[2]
<1>1. batch.seen \subseteq Identity
  BY DEF WatchInv, SourceInv, Batch
<1>2. file \in Identity /\ file = <<file[1], file[2]>> /\ file[1] \in Paths
  BY <1>1 DEF Identity
<1>3. file[2] \in Nat
  BY DEF WatchInv, SourceInv, SeenInv, Watched, Written
<1>4. pending[file[1]].count \in Nat /\ required \in Nat \ {0, 1}
  BY <1>2, DiscoveryAssumption DEF WatchInv, CountInv, DiscoveryAssumption
<1> QED BY <1>2, <1>3, <1>4 DEF Matches, PendingPaths

(* The four outcomes of observe, and the refusal by the ingestion, keep the   *)
(* invariant.                                                                 *)
LEMMA ObserveKeeps ==
  ASSUME WatchInv, Observe
  PROVE  WatchInv'
<1> DEFINE file == NextFile
<1>1. /\ phase = "observe" /\ batch.seen # {}
      /\ UNCHANGED <<directory, root, changes, pollingOnly, handle, signal, enabled, failures, cache,
                     options, retained, unread, requested, untilPoll, sinceRefresh>>
  BY DEF Observe, world, monitor, notifying
<1>2. file \in batch.seen
  BY <1>1, NextFileIsSeen DEF WatchInv
<1>3. \/ /\ ObserveKnown(file) \/ ObserveUnstable(file)
         /\ batch' = [batch EXCEPT !.seen = batch.seen \ {file}]
         /\ UNCHANGED <<faults, phase, submitted, forgotten, polled>>
      \/ /\ ObserveStable(file)
         /\ batch' = [batch EXCEPT !.seen = batch.seen \ {file}]
         /\ submitted' = submitted \cup {file}
         /\ forgotten' = IF Len(accepted) = HistoryLimit
                         THEN (forgotten \cup {Head(accepted)}) \ {file} ELSE forgotten \ {file}
         /\ UNCHANGED <<faults, phase, polled>>
      \/ /\ IF Admissible(file) THEN ObserveAndRelease(file) /\ Fault
            ELSE ObserveRefused(file) /\ UNCHANGED faults
         /\ batch' = NoBatch /\ phase' = "wait" /\ polled' = Unpolled
         /\ forgotten' = forgotten \cup (known \ known')
         /\ UNCHANGED submitted
  BY Zenon DEF Observe, EndPoll
<1> HIDE DEF file
<1>4. /\ file \in Identity /\ file[1] \in Paths /\ file[2] \in Nat
      /\ Matches(file) \in Nat \ {0} /\ required \in Nat \ {0, 1}
  BY <1>1, <1>2, SeenIsKnownToMatch
<1>5. /\ submitted \subseteq Identity /\ forgotten \subseteq Identity /\ known \subseteq Identity
      /\ submitted \subseteq known \cup forgotten
  BY DEF WatchInv, OwnerInv, ListInv, SubmittedInv
<1>6. NotPending \in [version : Nat, count : Nat]
  BY DEF NotPending
<1>7. CASE ObserveKnown(file) /\ batch' = [batch EXCEPT !.seen = batch.seen \ {file}]
           /\ UNCHANGED <<faults, phase, submitted, forgotten, polled>>
  <2>1. UNCHANGED <<required, accepted, known>> /\ pending' = [pending EXCEPT ![file[1]] = NotPending]
    BY <1>7 DEF ObserveKnown
  <2>2. ListInv' /\ SubmittedInv'
    BY <1>7, <2>1 DEF WatchInv, ListInv, SubmittedInv
  <2>3. Observes(file, NotPending)
    BY <1>1, <1>7, <2>1 DEF Observes
  <2> QED BY <1>2, <1>5, <1>6, <1>7, <2>2, <2>3, ObservesKeeps
<1>8. CASE ObserveUnstable(file) /\ batch' = [batch EXCEPT !.seen = batch.seen \ {file}]
           /\ UNCHANGED <<faults, phase, submitted, forgotten, polled>>
  <2> DEFINE seen == [version |-> file[2], count |-> Matches(file)]
  <2>1. /\ UNCHANGED <<required, accepted, known>> /\ pending' = [pending EXCEPT ![file[1]] = seen]
        /\ Matches(file) < required
    BY <1>8 DEF ObserveUnstable
  <2>2. ListInv' /\ SubmittedInv'
    BY <1>8, <2>1 DEF WatchInv, ListInv, SubmittedInv
  <2>3. /\ seen \in [version : Nat, count : Nat] /\ seen.version = file[2]
        /\ seen.count \in 1 .. required - 1
    BY <1>4, <2>1
  <2> HIDE DEF seen
  <2>4. Observes(file, seen)
    BY <1>1, <1>8, <2>1 DEF Observes
  <2> QED BY <1>2, <1>5, <1>8, <2>2, <2>3, <2>4, ObservesKeeps
<1>9. CASE /\ ObserveStable(file)
           /\ batch' = [batch EXCEPT !.seen = batch.seen \ {file}]
           /\ submitted' = submitted \cup {file}
           /\ forgotten' = IF Len(accepted) = HistoryLimit
                           THEN (forgotten \cup {Head(accepted)}) \ {file} ELSE forgotten \ {file}
           /\ UNCHANGED <<faults, phase, polled>>
  <2>1. /\ file \notin known /\ Remember(file) /\ required' = required
        /\ pending' = [pending EXCEPT ![file[1]] = NotPending]
    BY <1>9 DEF ObserveStable, Admissible
  <2>2. ListInv' /\ known' = (known \ Oldest) \cup {file}
    BY <1>4, <2>1, RememberKeeps DEF WatchInv
  <2>3. Oldest \subseteq Identity
    BY Bounds DEF WatchInv, ListInv, Oldest
  <2>4. forgotten' = (forgotten \cup Oldest) \ {file}
    BY <1>9 DEF Oldest
  <2>5. SubmittedInv' /\ submitted' \subseteq Identity /\ forgotten' \subseteq Identity
    BY <1>4, <1>5, <1>9, <2>2, <2>3, <2>4 DEF SubmittedInv
  <2>6. Observes(file, NotPending)
    BY <1>1, <1>9, <2>1 DEF Observes
  <2> QED BY <1>2, <1>6, <2>2, <2>5, <2>6, ObservesKeeps
<1>10. CASE /\ Admissible(file) /\ ObserveAndRelease(file) /\ Fault
            /\ batch' = NoBatch /\ phase' = "wait" /\ polled' = Unpolled
            /\ forgotten' = forgotten \cup (known \ known')
            /\ UNCHANGED submitted
  <2>1. /\ file \notin known /\ required' = required
        /\ pending' = [pending EXCEPT ![file[1]] = NotPending]
        /\ accepted' = Without(Append(Room, file), file) /\ known' = (known \ Oldest) \ {file}
    BY <1>10 DEF ObserveAndRelease, Admissible, Room
  <2>2. ListInv'
    BY <1>4, <2>1, ReleaseKeeps DEF WatchInv
  <2>3. SubmittedInv' /\ submitted' \subseteq Identity /\ forgotten' \subseteq Identity
    BY <1>5, <1>10 DEF SubmittedInv
  <2>4. Observes(file, NotPending)
    BY <1>1, <1>10, <2>1, FaultKeeps DEF Observes, WatchInv
  <2> QED BY <1>2, <1>6, <2>2, <2>3, <2>4, ObservesKeeps
<1>11. CASE /\ ObserveRefused(file) /\ UNCHANGED faults
            /\ batch' = NoBatch /\ phase' = "wait" /\ polled' = Unpolled
            /\ forgotten' = forgotten \cup (known \ known')
            /\ UNCHANGED submitted
  <2>1. UNCHANGED <<required, pending, accepted, known, forgotten>>
    BY <1>11 DEF ObserveRefused, discovery
  <2>2. Unpolled \in Tree
    BY DEF Unpolled, Tree
  <2>3. Rests
    BY <1>1, <1>11, <2>1, <2>2 DEF Rests, WatchInv, SourceInv
  <2> QED BY <2>3, RestsKeeps
<1> QED BY <1>3, <1>7, <1>8, <1>9, <1>10, <1>11

(* So does a step that changes nothing. *)
LEMMA WatchUnchanged ==
  ASSUME WatchInv, UNCHANGED watchVars
  PROVE  WatchInv'
<1>1. UNCHANGED <<required, pending, accepted, known, directory, root, changes, faults, pollingOnly,
                  handle, signal, enabled, failures, cache, options, retained, unread, batch, phase,
                  requested, untilPoll, sinceRefresh, submitted, forgotten, polled>>
  BY DEF watchVars, discovery, source, world, monitor, notifying, owner, watchObservers
<1>2. ListInv' /\ CountInv' /\ SourceInv' /\ OwnerInv' /\ SubmittedInv'
  BY <1>1 DEF WatchInv, ListInv, CountInv, SourceInv, OwnerInv, SubmittedInv
<1>3. \A file : Watched(file)' = Watched(file)
  BY <1>1, WatchedSame
<1>4. PendingPaths' = PendingPaths /\ Written' = Written /\ SeenPaths' = SeenPaths
  BY <1>1 DEF PendingPaths, Written, SeenPaths
<1>5. SeenInv'
  BY <1>1, <1>3, <1>4 DEF WatchInv, SeenInv
<1>6. PhaseInv' /\ SilentInv' /\ PollInv' /\ ReadInv'
  BY <1>1, <1>4 DEF WatchInv, PhaseInv, SilentInv, PollInv, ReadInv
<1> QED BY <1>2, <1>5, <1>6 DEF WatchInv

(* Every step keeps the invariant. *)
LEMMA WatchStepKeeps ==
  ASSUME WatchInv, [WatchNext]_watchVars
  PROVE  WatchInv'
<1>1. CASE WorldStep \/ Ask
  BY <1>1, WorldMoves, MovesKeep
<1>2. CASE TimePasses
  BY <1>2, TimePassesKeeps
<1>3. CASE ApplyConfiguration
  BY <1>3, ApplyKeeps
<1>4. CASE ApplyFails
  BY <1>4, ApplyFailsKeeps
<1>5. CASE Poll
  BY <1>5, PollKeeps
<1>6. CASE Scan
  BY <1>6, ScanKeeps
<1>7. CASE ScanEndsInError
  BY <1>7, ScanErrorKeeps
<1>8. CASE Deliver
  BY <1>8, DeliverKeeps
<1>9. CASE Observe
  BY <1>9, ObserveKeeps
<1>10. CASE EndTick
  BY <1>10, EndTickKeeps
<1>11. CASE UNCHANGED watchVars
  BY <1>11, WatchUnchanged
<1> QED
  BY <1>1, <1>2, <1>3, <1>4, <1>5, <1>6, <1>7, <1>8, <1>9, <1>10, <1>11 DEF WatchNext, OwnerStep

------------------------------------------------------------------------------
(* The theorems. *)

(* The watch keeps its invariant. *)
THEOREM WatchInvariance == WatchSpec => []WatchInv
<1>1. WatchInit => WatchInv
  BY WatchInitInv
<1>2. WatchInv /\ [WatchNext]_watchVars => WatchInv'
  BY WatchStepKeeps
<1> QED BY <1>1, <1>2, PTL DEF WatchSpec

(* Every part keeps its type, and every path under observation is in the      *)
(* snapshot of the source, within the candidate limit: LogDiscovery::observe, *)
(* SnapshotTracker::reconcile.                                                *)
THEOREM WatchAlwaysTracked == WatchSpec => []WatchIsTracked
<1>1. WatchInv => WatchIsTracked
  BY WatchTyped
<1> QED BY <1>1, WatchInvariance, PTL

(* An identity is accepted by observing it often enough, one at a time. *)
LEMMA OnlyObserveAccepts ==
  ASSUME WatchInv, WatchNext, Accepted # {}
  PROVE  /\ phase = "observe"
         /\ \E file \in batch.seen : file \notin known /\ Accepted = {file} /\ Matches(file) >= required
         /\ UNCHANGED options
<1>1. UNCHANGED known \/ Observe
  BY DEF WatchNext, WorldStep, Ask, OwnerStep, TimePasses, ApplyConfiguration, ApplyFails, Poll, Scan,
         ScanEndsInError, Deliver, ForgetPending, EndTick, discovery
<1>2. Observe
  BY <1>1 DEF Accepted
<1> DEFINE file == NextFile
<1>3. /\ phase = "observe" /\ file \in batch.seen /\ UNCHANGED options
      /\ \/ ObserveKnown(file) \/ ObserveUnstable(file) \/ ObserveStable(file)
         \/ ObserveAndRelease(file) \/ ObserveRefused(file)
  <2>1. phase = "observe" /\ batch.seen # {} /\ UNCHANGED options
    BY <1>2 DEF Observe
  <2>2. file \in batch.seen
    BY <2>1, NextFileIsSeen DEF WatchInv
  <2>3. \/ ObserveKnown(file) \/ ObserveUnstable(file) \/ ObserveStable(file)
        \/ ObserveAndRelease(file) \/ ObserveRefused(file)
    BY <1>2, Zenon DEF Observe
  <2> QED BY <2>1, <2>2, <2>3
<1> HIDE DEF file
<1>4. ~ (ObserveKnown(file) \/ ObserveUnstable(file) \/ ObserveAndRelease(file) \/ ObserveRefused(file))
  BY DEF Accepted, ObserveKnown, ObserveUnstable, ObserveAndRelease, ObserveRefused, discovery
<1>5. ObserveStable(file)
  BY <1>3, <1>4
<1>6. /\ file \notin known /\ Matches(file) >= required
      /\ known' = (known \ Oldest) \cup {file}
  BY <1>5 DEF ObserveStable, Admissible, Remember
<1>7. Accepted = {file}
  BY <1>6 DEF Accepted
<1> QED BY <1>3, <1>6, <1>7

(* A file is submitted only as it was when the poll began, only from the      *)
(* selected window and directories, and twice only if it had been forgotten:  *)
(* ApplicationPump::tick.                                                     *)
THEOREM SubmissionsAlwaysSound == WatchSpec => SubmissionsAreSound
<1> DEFINE Sound == \A file \in Accepted :
                      /\ polled[file[1]] = file[2]
                      /\ InWindow(file[2]) /\ (options.recursive \/ file[1] \notin Nested)
                      /\ file \in submitted => file \in forgotten
<1>1. ASSUME WatchInv, [WatchNext]_watchVars
      PROVE  Sound
  <2>1. CASE UNCHANGED watchVars
    BY <2>1 DEF watchVars, discovery, Accepted
  <2>2. CASE WatchNext
    <3> SUFFICES ASSUME NEW file \in Accepted
                 PROVE  /\ polled[file[1]] = file[2]
                        /\ InWindow(file[2]) /\ (options.recursive \/ file[1] \notin Nested)
                        /\ file \in submitted => file \in forgotten
      OBVIOUS
    <3>1. phase = "observe" /\ file \in batch.seen /\ file \notin known /\ Matches(file) >= required
      BY <1>1, <2>2, OnlyObserveAccepts
    <3>2. file[1] \in PendingPaths /\ pending[file[1]].version = file[2]
      BY <1>1, <3>1, SeenIsKnownToMatch
    <3>3. polled[file[1]] = file[2]
      BY <1>1, <3>1, <3>2 DEF WatchInv, PollInv
    <3>4. InWindow(file[2]) /\ (options.recursive \/ file[1] \notin Nested)
      BY <1>1, <3>1 DEF WatchInv, SeenInv, Watched
    <3>5. file \in submitted => file \in forgotten
      BY <1>1, <3>1 DEF WatchInv, SubmittedInv
    <3> QED BY <3>3, <3>4, <3>5
  <2> QED BY <1>1, <2>1, <2>2
<1> QED BY <1>1, WatchInvariance, PTL DEF WatchSpec, SubmissionsAreSound

(* A scan does not restart the observations of a file that is as it was,      *)
(* complete or not: SnapshotTracker::reconcile.                               *)
THEOREM ScansAlwaysKeepStability == WatchSpec => ScansKeepStability
<1> DEFINE Kept == phase = "scan" =>
                     \A p \in PendingPaths :
                       root = "present" /\ directory[p] = pending[p].version /\ polled[p] = pending[p].version
                         => pending'[p] = pending[p]
<1>1. ASSUME WatchInv, [WatchNext]_watchVars
      PROVE  Kept
  <2> SUFFICES ASSUME phase = "scan", NEW p \in PendingPaths, root = "present",
                      directory[p] = pending[p].version, polled[p] = pending[p].version
               PROVE  pending'[p] = pending[p]
    OBVIOUS
  <2>1. UNCHANGED pending \/ Deliver
    BY <1>1 DEF WatchNext, WorldStep, Ask, OwnerStep, TimePasses, ApplyConfiguration, ApplyFails, Poll,
                Scan, ScanEndsInError, Observe, EndTick, discovery, watchVars
  <2>2. CASE Deliver
    <3>1. /\ batch.available /\ unread = {} /\ batch' = Reconciled(batch)
          /\ pending' = [q \in Paths |-> IF q \in batch'.removed THEN NotPending ELSE pending[q]]
      BY <2>2 DEF Deliver, FinishScan, ForgetPending
    <3>2. batch'.removed = IF batch.complete THEN retained \ SeenPaths ELSE {}
      BY <1>1, <3>1 DEF Reconciled, SeenPaths, WatchInv, SourceInv, Batch
    <3>3. p \in Paths
      BY DEF PendingPaths
    <3>4. batch.complete => p \in SeenPaths
      BY <1>1, <3>1 DEF WatchInv, ReadInv
    <3> QED BY <3>1, <3>2, <3>3, <3>4
  <2> QED BY <2>1, <2>2
<1> QED BY <1>1, WatchInvariance, PTL DEF WatchSpec, ScansKeepStability

(* Discovery has room for every file of a batch it does not know. *)
NothingRefused == phase = "observe" => \A file \in batch.seen : file \in known \/ Admissible(file)

(* DiscoveryError::PendingLimit is never the answer to the pump: the          *)
(* candidate limit of the source keeps the table of observations small        *)
(* enough.                                                                    *)
THEOREM NothingEverRefused == WatchSpec => []NothingRefused
<1>1. ASSUME WatchInv
      PROVE  NothingRefused
  <2> SUFFICES ASSUME phase = "observe", NEW file \in batch.seen, file[1] \notin PendingPaths
               PROVE  Cardinality(PendingPaths) < PendingLimit
    BY DEF NothingRefused, Admissible
  <2>1. file[1] \in retained /\ PendingPaths \subseteq retained
    BY <1>1 DEF WatchInv, PhaseInv, SeenInv, SeenPaths
  <2>2. IsFiniteSet(retained) /\ Cardinality(retained) \in Nat
    BY <1>1, DiscoveryAssumption, FS_Subset, FS_CardinalityType DEF WatchInv, SourceInv, DiscoveryAssumption
  <2>3. PendingPaths # retained /\ PendingPaths \in SUBSET retained
    BY <2>1
  <2>4. /\ Cardinality(PendingPaths) <= Cardinality(retained) /\ Cardinality(PendingPaths) \in Nat
        /\ Cardinality(retained) # Cardinality(PendingPaths)
    BY <2>2, <2>3, FS_Subset, FS_CardinalityType
  <2>5. Cardinality(retained) <= PendingLimit /\ PendingLimit \in Nat
    BY <1>1, <2>2, Bounds DEF WatchInv, SourceInv, Choice
  <2> QED BY <2>2, <2>4, <2>5
<1> QED BY <1>1, WatchInvariance, PTL
==============================================================================
