---------------------------- MODULE EpochProofs ----------------------------
(***************************************************************************)
(* Epoch-based reclamation for any number of threads, records, objects and *)
(* sections.  Observations of the global epoch are compared by their age,  *)
(* the number of ticks since; no age reaches Mod.                          *)
(***************************************************************************)
EXTENDS Epoch, FiniteSetTheorems, TLAPS

Counter == 0 .. Mod - 1
Age(v) == Sub(epoch, v)
Then(v) == Sub(epoch', v)
Lead == Mod - 1 - Span

Scanning == {"s_state", "s_active", "s_epoch", "s_blocked", "s_done"}
Searching == {"f_state", "f_swap"}
Beginning == {"b_load", "b_store", "b_ref"}
Labels == Scanning \cup Searching \cup Beginning \cup
  {"idle", "e_ref", "o_store", "c_unlink", "c_push", "d_slot", "p_slot", "u_inc", "f_dec"}

TypeGlobal ==
  /\ may \in [Threads -> SUBSET Ops] /\ sectioned \in BOOLEAN /\ shared \in BOOLEAN
  /\ epoch \in Counter /\ n_free \in Counter /\ ticks \in Nat
  /\ records \in Seq(Records)
TypeRecords ==
  /\ state \in [Records -> {"used", "free"}]
  /\ active \in [Records -> Nat] /\ repoch \in [Records -> Counter]
  /\ bucket \in [Records -> [0 .. 1 -> [epoch : Counter, count : Nat]]]
  /\ pending \in [Records -> [0 .. 3 -> SUBSET Objects]]
TypeClient ==
  /\ rec \in [Threads -> Records \cup {NULL}]
  /\ sec \in [Threads -> [Handles -> {0, 1, NULL}]]
  /\ held \in [Threads -> [Handles -> SUBSET Objects]]
  /\ status \in [Objects -> {"linked", "deferred", "freed"} \cup Threads]
TypeThreads ==
  /\ pc \in [Threads -> Labels]
  /\ op \in [Threads -> {"none", "sync", "barrier", "poll"}]
  /\ snap \in [Threads -> Counter] /\ first \in [Threads -> Counter]
  /\ iter \in [Threads -> 0 .. 3]
  /\ cursor \in [Threads -> Records \cup {NULL}]
  /\ af \in [Threads -> BOOLEAN]
  /\ arg \in [Threads -> Handles \cup (Records \X Objects) \cup {NULL}]
TypeOK == TypeGlobal /\ TypeRecords /\ TypeClient /\ TypeThreads

\* The records that are listed, and those from one of them on.
Listed == {records[i] : i \in DOMAIN records}
FromIn(s, r) == {x \in Records : \E i, j \in DOMAIN s : i <= j /\ s[i] = r /\ s[j] = x}
From(r) == FromIn(records, r)

\* Who has which record.
Directory ==
  /\ \A i, j \in DOMAIN records : records[i] = records[j] => i = j
  /\ \A t \in Threads : rec[t] # NULL => rec[t] \in Listed /\ state[rec[t]] = "used"
  /\ \A t, u \in Threads : rec[t] = rec[u] /\ rec[t] # NULL => t = u
  /\ \A r \in Records : state[r] = "free" => r \in Listed
  /\ \A r \in Records : (\A t \in Threads : rec[t] # r) =>
       active[r] = 0 /\ \A b \in 0 .. 1 : bucket[r][b].count = 0

\* What a thread has at hand where it is.
Place(t) ==
  /\ pc[t] \in Searching \cup {"u_inc"} => rec[t] = NULL
  /\ pc[t] \notin Searching \cup {"u_inc", "idle"} => rec[t] # NULL
  /\ pc[t] = "u_inc" => Listed # {}
  /\ pc[t] \in Searching \cup (Scanning \ {"s_done"}) => cursor[t] \in Listed
  /\ pc[t] \in {"s_done", "p_slot"} => cursor[t] = NULL
  /\ pc[t] \in Scanning \cup {"d_slot", "p_slot"} <=> op[t] # "none"
  /\ pc[t] = "p_slot" => op[t] = "poll"
  /\ pc[t] = "d_slot" => op[t] # "sync"
  /\ pc[t] \in {"c_unlink", "c_push"} => arg[t] \in Listed \X Objects

Users == Directory /\ \A t \in Threads : Place(t)

\* The number of free records, but for calls that have yet to count.
Free == {r \in Records : state[r] = "free"}
Offered == {t \in Threads : pc[t] = "u_inc"}
Taken == {t \in Threads : pc[t] = "f_dec"}
Wrapped(n) == IF n < 0 THEN n + Mod ELSE n
FreeCount == n_free = Wrapped(Cardinality(Free) + Cardinality(Taken) - Cardinality(Offered))

\* The ticks there have been and those that may still come are within Span.
MayTick == {t \in Threads : pc[t] \in Scanning}
MayTickTwice == {t \in MayTick : op[t] # "poll" /\ iter[t] = 0}
Round(t) == iter[t] # 0 => pc[t] = "d_slot" \/ (pc[t] \in Scanning /\ op[t] # "poll" /\ iter[t] = 1)
TickBound ==
  /\ Span \in Nat /\ Span < Mod
  /\ ticks + Cardinality(MayTick) + Cardinality(MayTickTwice) <= Span
  /\ \A t \in Threads : Round(t)

\* Observations are no older than the behaviour, and what a record advertises
\* is not so old that the epoch could come round to it.
Observing == {"b_store", "o_store", "c_unlink", "c_push", "p_slot"} \cup Scanning
Recent(t) ==
  /\ pc[t] \in Observing => Age(snap[t]) <= ticks
  /\ pc[t] \in Scanning /\ op[t] # "poll" =>
       /\ Age(snap[t]) <= Age(first[t]) /\ Age(first[t]) <= ticks
       /\ iter[t] = 1 => Age(snap[t]) < Age(first[t])
  /\ pc[t] = "d_slot" /\ op[t] = "poll" => Age(snap[t]) <= ticks
  /\ may[t] \cap {"register", "unregister"} # {} => epoch <= ticks + Lead
Horizon ==
  /\ \A t \in Threads : Recent(t)
  /\ \A r \in Records : Age(repoch[r]) <= ticks + Lead

\* What a thread knows of its own record.
Own(t) ==
  rec[t] # NULL =>
    /\ active[rec[t]] > 0 /\ pc[t] \notin {"b_load", "b_store"} => Age(repoch[rec[t]]) <= 1
    /\ pc[t] = "b_store" => Age(snap[t]) <= 1
    /\ pc[t] \in {"b_store", "o_store", "c_unlink"} => Age(snap[t]) <= Age(repoch[rec[t]])
    /\ pc[t] \in Beginning \cup {"o_store", "c_unlink"} => active[rec[t]] > 0
    /\ pc[t] \in {"b_load", "b_store"} => active[rec[t]] = 1
    /\ pc[t] \in {"u_inc", "f_dec"} => active[rec[t]] = 0

\* A scan that met no active record so far did not meet one of its own.
Quiet(t) ==
  /\ pc[t] \in {"s_epoch", "s_blocked"} => af[t]
  /\ pc[t] \in Scanning /\ ~af[t] /\ rec[t] \notin From(cursor[t]) => active[rec[t]] = 0

\* The epoch that protects a section: on its way to the record, or there.
Effective(t) == IF pc[t] = "b_store" THEN snap[t] ELSE repoch[rec[t]]

\* A scan has seen every record that it passed at its epoch or newer, or
\* inactive: then a later section has observed a newer epoch.
Passed(u) ==
  pc[u] \in Scanning \cup {"p_slot"} =>
    \A t \in Threads :
      rec[t] # NULL /\ active[rec[t]] > 0 /\ pc[t] # "b_load" /\ rec[t] \notin From(cursor[u])
        => Age(Effective(t)) <= Age(snap[u])

\* The buckets count the open sections of the record's user ...
Open(t, b) == {h \in Handles : sec[t][h] = b}
Counts(t) ==
  /\ rec[t] = NULL => sec[t] = NoSection
  /\ rec[t] # NULL =>
       /\ \A b \in 0 .. 1 : bucket[rec[t]][b].count = Cardinality(Open(t, b))
       /\ sectioned =>
            bucket[rec[t]][0].count + bucket[rec[t]][1].count + (IF pc[t] \in Beginning THEN 1 ELSE 0)
              = active[rec[t]] + (IF pc[t] = "e_ref" THEN 1 ELSE 0)
\* ... and their epochs are not older than the record's.
BucketAges(t) ==
  rec[t] # NULL => \A b \in 0 .. 1 :
    bucket[rec[t]][b].count > 0 => Age(bucket[rec[t]][b].epoch) <= Age(repoch[rec[t]])
SectionPlace(t) ==
  /\ ~sectioned => sec[t] = NoSection /\ pc[t] \notin {"b_ref", "e_ref"}
  /\ sectioned => pc[t] # "o_store"
  /\ sectioned /\ pc[t] \in Beginning => arg[t] \in Handles /\ sec[t][arg[t]] = NULL
  /\ pc[t] = "e_ref" => arg[t] \in Handles /\ sec[t][arg[t]] # NULL
Buckets(t) == Counts(t) /\ BucketAges(t) /\ SectionPlace(t)

LagInv ==
  /\ TypeOK /\ Users /\ FreeCount /\ TickBound /\ Horizon
  /\ \A t \in Threads : Own(t) /\ Quiet(t) /\ Passed(t) /\ Buckets(t)

-----------------------------------------------------------------------------
(* Counters and ages. *)

\* The epochs are a multiple of the four slots of a record.
LEMMA Width == Mod \in Nat /\ Mod >= 4 /\ Mod % 4 = 0
  <1>1. Mod \in Nat \ {0} /\ Mod % 4 = 0
    BY EpochAssumption
  <1> QED
    BY <1>1

\* A remainder within one turn of the circle, without the division.
LEMMA ModIs ==
  ASSUME NEW a \in Int, 0 - Mod <= a, a < 2 * Mod
  PROVE  a % Mod = IF a < 0 THEN a + Mod ELSE IF a < Mod THEN a ELSE a - Mod
  <1>1. Mod \in Nat \ {0}
    BY Width
  <1>2. a \div Mod \in Int /\ a % Mod \in 0 .. Mod - 1 /\ a = Mod * (a \div Mod) + (a % Mod)
    BY <1>1
  <1> DEFINE q == a \div Mod
  <1>3. CASE q >= 2
    <2>1. Mod * q >= Mod * 2
      BY <1>1, <1>2, <1>3
    <2> QED
      BY <1>1, <1>2, <2>1
  <1>4. CASE q <= 0 - 2
    <2>1. Mod * q <= Mod * (0 - 2)
      BY <1>1, <1>2, <1>4
    <2> QED
      BY <1>1, <1>2, <2>1
  <1>5. CASE q = 0 - 1
    BY <1>1, <1>2, <1>5
  <1>6. CASE q = 0
    BY <1>1, <1>2, <1>6
  <1>7. CASE q = 1
    BY <1>1, <1>2, <1>7
  <1> QED
    BY <1>2, <1>3, <1>4, <1>5, <1>6, <1>7

\* Subtraction on the circle ...
LEMMA SubIs ==
  ASSUME NEW a \in Counter, NEW b \in Counter
  PROVE  Sub(a, b) = (IF a >= b THEN a - b ELSE a - b + Mod) /\ Sub(a, b) \in Counter
  <1>1. a - b \in Int /\ 0 - Mod <= a - b /\ a - b < Mod /\ a - b < 2 * Mod
    BY Width DEF Counter
  <1>2. (a - b) % Mod = IF a - b < 0 THEN a - b + Mod ELSE IF a - b < Mod THEN a - b ELSE a - b - Mod
    BY <1>1, ModIs
  <1> QED
    BY <1>1, <1>2, Width DEF Counter, Sub

\* ... a tick of the epoch ...
LEMMA AddOne ==
  ASSUME NEW a \in Counter
  PROVE  /\ Add(a, 1) = (IF a + 1 = Mod THEN 0 ELSE a + 1) /\ Add(a, 1) \in Counter
  <1>1. a + 1 \in Int /\ 0 - Mod <= a + 1 /\ a + 1 <= Mod /\ a + 1 < 2 * Mod
    BY Width DEF Counter
  <1> DEFINE b == a + 1
  <1>2. b \in Int /\ 0 - Mod <= b /\ b < 2 * Mod /\ 0 <= b /\ b <= Mod
    BY <1>1, Width DEF Counter
  <1> HIDE DEF b
  <1>3. b % Mod = IF b < 0 THEN b + Mod ELSE IF b < Mod THEN b ELSE b - Mod
    BY <1>2, ModIs
  <1>4. b % Mod = IF b = Mod THEN 0 ELSE b
    BY <1>2, <1>3, Width
  <1>5. Add(a, 1) = IF a + 1 = Mod THEN 0 ELSE a + 1
    BY <1>4 DEF b, Add
  <1> QED
    BY <1>1, <1>5, Width DEF Counter

\* ... and the epoch before it, as comparisons.
LEMMA SubOne ==
  ASSUME NEW a \in Counter
  PROVE  /\ Sub(a, 1) = (IF a = 0 THEN Mod - 1 ELSE a - 1) /\ Sub(a, 1) \in Counter
  <1>1. 1 \in Counter
    BY Width DEF Counter
  <1>2. Sub(a, 1) = (IF a >= 1 THEN a - 1 ELSE a - 1 + Mod) /\ Sub(a, 1) \in Counter
    BY <1>1, SubIs
  <1> QED
    BY <1>2, Width DEF Counter

\* A tick makes every observation older by one.
LEMMA AgeTick ==
  ASSUME epoch \in Counter, NEW v \in Counter, epoch' = Add(epoch, 1), Age(v) + 1 < Mod
  PROVE  Then(v) = Age(v) + 1
  <1>1. Age(v) = (IF epoch >= v THEN epoch - v ELSE epoch - v + Mod)
    BY SubIs DEF Age
  <1>2. epoch' = (IF epoch + 1 = Mod THEN 0 ELSE epoch + 1) /\ epoch' \in Counter
    BY AddOne
  <1>3. Then(v) = (IF epoch' >= v THEN epoch' - v ELSE epoch' - v + Mod)
    BY <1>2, SubIs DEF Then
  <1> QED
    BY <1>1, <1>2, <1>3, Width DEF Counter

\* How many ticks ago v was the epoch, as a comparison.
LEMMA AgeIs ==
  ASSUME epoch \in Counter, NEW v \in Counter
  PROVE  Age(v) = (IF epoch >= v THEN epoch - v ELSE epoch - v + Mod) /\ Age(v) \in Counter
  BY SubIs DEF Age

\* An age is less than the circle, and only the epoch itself has age 0.
LEMMA AgeType ==
  ASSUME epoch \in Counter, NEW v \in Counter
  PROVE  Age(v) \in Nat /\ Age(v) < Mod /\ (Age(v) = 0 <=> v = epoch)
  BY AgeIs, Width DEF Counter

\* Two epochs of the same age are the same epoch.
LEMMA AgeInjective ==
  ASSUME epoch \in Counter, NEW v \in Counter, NEW w \in Counter, Age(v) = Age(w)
  PROVE  v = w
  <1>1. Age(v) = (IF epoch >= v THEN epoch - v ELSE epoch - v + Mod)
    BY AgeIs
  <1>2. Age(w) = (IF epoch >= w THEN epoch - w ELSE epoch - w + Mod)
    BY AgeIs
  <1>3. epoch \in Int /\ v \in 0 .. Mod - 1 /\ w \in 0 .. Mod - 1 /\ Mod \in Int
    BY Width DEF Counter
  <1>4. (IF epoch >= v THEN epoch - v ELSE epoch - v + Mod) = (IF epoch >= w THEN epoch - w ELSE epoch - w + Mod)
    BY <1>1, <1>2
  <1> QED
    BY <1>3, <1>4

-----------------------------------------------------------------------------
(* The list of records. *)

\* The record after r in the list leads to all that r leads to, but r.
LEMMA AfterFacts ==
  ASSUME records \in Seq(Records), \A i, j \in DOMAIN records : records[i] = records[j] => i = j,
         NEW r \in Listed
  PROVE  /\ After(r) \in Listed \cup {NULL} /\ r \in From(r) /\ r \in Records
         /\ From(After(r)) = From(r) \ {r}
  <1> DEFINE i == CHOOSE k \in DOMAIN records : records[k] = r
  <1>1. i \in DOMAIN records /\ records[i] = r /\ \A k \in DOMAIN records : records[k] = r => k = i
    BY DEF Listed
  <1>2. After(r) = IF i = Len(records) THEN NULL ELSE records[i + 1]
    BY DEF After
  <1> HIDE DEF i
  <1>3. DOMAIN records = 1 .. Len(records) /\ Len(records) \in Nat /\ r \in Records
        /\ \A k \in DOMAIN records : records[k] \in Records
    BY <1>1
  <1>4. \A x \in Records : x \in From(r) <=> \E j \in DOMAIN records : i <= j /\ records[j] = x
    BY <1>1 DEF From, FromIn
  <1>5. r \in From(r)
    BY <1>1, <1>3, <1>4
  <1>6. CASE i = Len(records)
    <2>1. After(r) = NULL
      BY <1>2, <1>6
    <2>2. From(NULL) = {}
      BY <1>3, EpochAssumption DEF From, FromIn
    <2>3. From(r) = {r}
      BY <1>1, <1>3, <1>4, <1>5, <1>6 DEF From, FromIn
    <2> QED
      BY <1>3, <1>5, <2>1, <2>2, <2>3
  <1>7. CASE i # Len(records)
    <2>1. After(r) = records[i + 1] /\ i + 1 \in DOMAIN records
      BY <1>1, <1>2, <1>3, <1>7
    <2>2. \A x \in Records : x \in From(After(r)) <=> \E j \in DOMAIN records : i + 1 <= j /\ records[j] = x
      BY <2>1 DEF From, FromIn
    <2>3. ASSUME NEW x \in From(After(r))
          PROVE  x \in From(r) /\ x # r
      <3>1. x \in Records
        BY DEF From, FromIn
      <3>2. PICK j \in DOMAIN records : i + 1 <= j /\ records[j] = x
        BY <2>2, <3>1
      <3>3. i <= j /\ j # i
        BY <1>1, <1>3, <3>2
      <3> QED
        BY <1>1, <1>4, <3>1, <3>2, <3>3
    <2>4. ASSUME NEW x \in From(r), x # r
          PROVE  x \in From(After(r))
      <3>1. x \in Records
        BY DEF From, FromIn
      <3>2. PICK j \in DOMAIN records : i <= j /\ records[j] = x
        BY <1>4, <3>1
      <3>3. i + 1 <= j
        BY <1>1, <1>3, <2>4, <3>2
      <3> QED
        BY <2>2, <3>1, <3>2, <3>3
    <2>5. From(After(r)) = From(r) \ {r}
      BY <2>3, <2>4
    <2> QED
      BY <1>3, <1>5, <2>1, <2>5 DEF Listed
  <1> QED
    BY <1>6, <1>7

\* Every listed record is reached from the newest one.
LEMMA NewestFacts ==
  ASSUME records \in Seq(Records), Listed # {}
  PROVE  Newest \in Listed /\ Newest \in Records /\ From(Newest) = Listed
  <1>1. DOMAIN records = 1 .. Len(records) /\ Len(records) \in Nat /\ 1 \in DOMAIN records
        /\ \A k \in DOMAIN records : records[k] \in Records
    BY DEF Listed
  <1>2. Newest = records[1]
    BY <1>1 DEF Newest
  <1>3. Newest \in Listed /\ Newest \in Records
    BY <1>1, <1>2 DEF Listed
  <1>4. From(Newest) \subseteq Listed
    BY DEF From, FromIn, Listed
  <1>5. ASSUME NEW k \in DOMAIN records PROVE records[k] \in From(Newest)
    BY <1>1, <1>2 DEF From, FromIn
  <1> QED
    BY <1>3, <1>4, <1>5 DEF Listed

\* Nothing is reached from the end of the list.
LEMMA FromNull == From(NULL) = {} \/ ~(records \in Seq(Records))
  BY EpochAssumption DEF From, FromIn

\* Registration puts a record in front of all others.
LEMMA PushFacts ==
  ASSUME records \in Seq(Records), NEW r \in Records, records' = <<r>> \o records
  PROVE  /\ records' \in Seq(Records) /\ Listed' = Listed \cup {r}
         /\ \A x \in Listed \cup {NULL} : r \notin Listed => FromIn(records', x) = From(x)
         /\ (\A i, j \in DOMAIN records : records[i] = records[j] => i = j) /\ r \notin Listed
              => \A i, j \in DOMAIN records' : records'[i] = records'[j] => i = j
  <1>1. /\ DOMAIN records = 1 .. Len(records) /\ Len(records) \in Nat
        /\ records' \in Seq(Records) /\ Len(records') = Len(records) + 1
        /\ DOMAIN records' = 1 .. Len(records) + 1
        /\ records'[1] = r
        /\ \A i \in 2 .. Len(records) + 1 : i - 1 \in 1 .. Len(records) /\ records'[i] = records[i - 1]
    OBVIOUS
  <1>2. \A i \in 1 .. Len(records) : i + 1 \in 1 .. Len(records) + 1 /\ records'[i + 1] = records[i]
    OBVIOUS
  <1>3. Listed' = Listed \cup {r}
    <2>1. Listed' \subseteq Listed \cup {r}
      BY <1>1 DEF Listed
    <2>2. r \in Listed'
      BY <1>1 DEF Listed
    <2>3. ASSUME NEW i \in DOMAIN records PROVE records[i] \in Listed'
      <3>1. i + 1 \in DOMAIN records' /\ records'[i + 1] = records[i]
        BY <1>1, <1>2
      <3> QED
        BY <3>1 DEF Listed
    <2>4. Listed \subseteq Listed'
      BY <2>3 DEF Listed
    <2> QED
      BY <2>1, <2>2, <2>4
  <1>4. ASSUME NEW x \in Listed \cup {NULL}, r \notin Listed PROVE FromIn(records', x) = From(x)
    <2>0. r # x
      BY <1>4, EpochAssumption
    <2>1. ASSUME NEW y \in From(x) PROVE y \in FromIn(records', x)
      <3>1. PICK i \in DOMAIN records, j \in DOMAIN records : i <= j /\ records[i] = x /\ records[j] = y
        BY DEF From, FromIn
      <3>2. i + 1 \in DOMAIN records' /\ j + 1 \in DOMAIN records' /\ i + 1 <= j + 1
            /\ records'[i + 1] = x /\ records'[j + 1] = y
        BY <1>1, <1>2, <3>1
      <3> QED
        BY <3>2 DEF From, FromIn
    <2>2. ASSUME NEW y \in FromIn(records', x) PROVE y \in From(x)
      <3>1. PICK i \in DOMAIN records', j \in DOMAIN records' : i <= j /\ records'[i] = x /\ records'[j] = y
        BY DEF From, FromIn
      <3>2. i # 1
        BY <1>1, <2>0, <3>1
      <3>3. i \in 2 .. Len(records) + 1 /\ j \in 2 .. Len(records) + 1
        BY <1>1, <3>1, <3>2
      <3>4. i - 1 \in DOMAIN records /\ j - 1 \in DOMAIN records /\ i - 1 <= j - 1
            /\ records[i - 1] = x /\ records[j - 1] = y
        BY <1>1, <3>1, <3>3
      <3> QED
        BY <3>4 DEF From, FromIn
    <2> QED
      BY <2>1, <2>2
  <1>5. ASSUME \A i, j \in DOMAIN records : records[i] = records[j] => i = j, r \notin Listed,
               NEW i \in DOMAIN records', NEW j \in DOMAIN records', records'[i] = records'[j]
        PROVE  i = j
    <2>1. \A k \in 2 .. Len(records) + 1 : records'[k] # r
      <3> SUFFICES ASSUME NEW k \in 2 .. Len(records) + 1 PROVE records'[k] # r
        OBVIOUS
      <3>1. k - 1 \in DOMAIN records /\ records'[k] = records[k - 1]
        BY <1>1
      <3> QED
        BY <1>5, <3>1 DEF Listed
    <2>2. CASE i = 1 \/ j = 1
      BY <1>1, <1>5, <2>1, <2>2
    <2>3. CASE i # 1 /\ j # 1
      <3>1. i \in 2 .. Len(records) + 1 /\ j \in 2 .. Len(records) + 1
        BY <1>1, <2>3
      <3>2. i - 1 \in DOMAIN records /\ j - 1 \in DOMAIN records /\ records[i - 1] = records[j - 1]
        BY <1>1, <1>5, <3>1
      <3>3. i - 1 = j - 1
        BY <1>5, <3>2
      <3> QED
        BY <3>1, <3>3
    <2> QED
      BY <2>2, <2>3
  <1> QED
    BY <1>1, <1>3, <1>4, <1>5

-----------------------------------------------------------------------------
(* What a step leaves alone. *)

Step(t) == Choose(t) \/ Continue(t)

\* Another thread than the one that moves.
Same(u) ==
  /\ pc'[u] = pc[u] /\ snap'[u] = snap[u] /\ arg'[u] = arg[u] /\ op'[u] = op[u] /\ first'[u] = first[u]
  /\ iter'[u] = iter[u] /\ cursor'[u] = cursor[u] /\ af'[u] = af[u]
  /\ rec'[u] = rec[u] /\ sec'[u] = sec[u] /\ held'[u] = held[u]

\* The epoch advances at the end of a scan.
Tick(t) ==
  /\ epoch' = Add(epoch, 1) /\ ticks' = ticks + 1
  /\ pc[t] = "s_done" /\ snap[t] = epoch
  /\ UNCHANGED <<rec, sec, fields, records, pending, held>>

Effect(t) ==
  /\ UNCHANGED rigid
  /\ \A u \in Threads \ {t} : Same(u)
  /\ \A r \in Records \ {rec[t], rec'[t]} :
       state'[r] = state[r] /\ active'[r] = active[r] /\ repoch'[r] = repoch[r] /\ bucket'[r] = bucket[r]
  /\ UNCHANGED <<epoch, ticks>> \/ Tick(t)

USE DEF rigid, global, fields, client, scanning, At, Goto, Idle, Registered, Return, ReturnScan,
   StartScan, Advance, Leave, Dispatch, RecycleNext, Syncing

\* What a step of t may change: its own record and its own locals, and of the
\* rest only the epoch, the free records and the list, in the ways Effect names.
LEMMA StepEffect ==
  ASSUME TypeOK, NEW t \in Threads, Step(t)
  PROVE  Effect(t)

  <1>1. ASSUME NEW h \in Handles, Begin(t, h) PROVE Effect(t)
    BY <1>1 DEF Begin, TypeOK, TypeGlobal, TypeRecords, TypeClient, TypeThreads, Effect, Same, Tick
  <1>2. ASSUME NEW h \in Handles, End(t, h) PROVE Effect(t)
    BY <1>2 DEF End, TypeOK, TypeGlobal, TypeRecords, TypeClient, TypeThreads, Effect, Same, Tick
  <1>3. ASSUME NEW h \in Handles, NEW o \in Objects, Dereference(t, h, o) PROVE Effect(t)
    BY <1>3 DEF Dereference, TypeOK, TypeGlobal, TypeRecords, TypeClient, TypeThreads, Effect, Same,
       Tick
  <1>4. ASSUME Observe(t) PROVE Effect(t)
    BY <1>4 DEF Observe, TypeOK, TypeGlobal, TypeRecords, TypeClient, TypeThreads, Effect, Same,
       Tick
  <1>5. ASSUME Synchronize(t) PROVE Effect(t)
    BY <1>5 DEF Synchronize, TypeOK, TypeGlobal, TypeRecords, TypeClient, TypeThreads, Effect, Same,
       Tick
  <1>6. ASSUME Poll(t) PROVE Effect(t)
    BY <1>6 DEF Poll, TypeOK, TypeGlobal, TypeRecords, TypeClient, TypeThreads, Effect, Same, Tick
  <1>7. ASSUME Register(t) PROVE Effect(t)
    BY <1>7 DEF Register, TypeOK, TypeGlobal, TypeRecords, TypeClient, TypeThreads, Effect, Same,
       Tick
  <1>8. ASSUME Unregister(t) PROVE Effect(t)
    BY <1>8 DEF Unregister, TypeOK, TypeGlobal, TypeRecords, TypeClient, TypeThreads, Effect, Same,
       Tick
  <1>9. ASSUME Recycle(t) PROVE Effect(t)
    BY <1>9 DEF Recycle, TypeOK, TypeGlobal, TypeRecords, TypeClient, TypeThreads, Effect, Same,
       Tick
  <1>10. ASSUME NEW o \in Objects, Unlink(t, o) PROVE Effect(t)
    BY <1>10 DEF Unlink, TypeOK, TypeGlobal, TypeRecords, TypeClient, TypeThreads, Effect, Same,
       Tick
  <1>11. ASSUME NEW o \in Objects, CallEarly(t, o) PROVE Effect(t)
    BY <1>11 DEF CallEarly, TypeOK, TypeGlobal, TypeRecords, TypeClient, TypeThreads, Effect, Same,
       Tick
  <1>12. ASSUME NEW r \in Records, NEW o \in Objects, Call(t, r, o) PROVE Effect(t)
    BY <1>12 DEF Call, TypeOK, TypeGlobal, TypeRecords, TypeClient, TypeThreads, Effect, Same, Tick
  <1>13. ASSUME BeginLoad(t) PROVE Effect(t)
    BY <1>13 DEF BeginLoad, TypeOK, TypeGlobal, TypeRecords, TypeClient, TypeThreads, Effect, Same,
       Tick
  <1>14. ASSUME BeginStore(t) PROVE Effect(t)
    BY <1>14 DEF BeginStore, TypeOK, TypeGlobal, TypeRecords, TypeClient, TypeThreads, Effect, Same,
       Tick
  <1>15. ASSUME Addref(t) PROVE Effect(t)
    BY <1>15 DEF Addref, TypeOK, TypeGlobal, TypeRecords, TypeClient, TypeThreads, Effect, Same,
       Tick
  <1>16. ASSUME Delref(t) PROVE Effect(t)
    BY <1>16 DEF Delref, TypeOK, TypeGlobal, TypeRecords, TypeClient, TypeThreads, Effect, Same,
       Tick
  <1>17. ASSUME ObserveStore(t) PROVE Effect(t)
    BY <1>17 DEF ObserveStore, TypeOK, TypeGlobal, TypeRecords, TypeClient, TypeThreads, Effect,
       Same, Tick
  <1>18. ASSUME CallUnlink(t) PROVE Effect(t)
    BY <1>18 DEF CallUnlink, TypeOK, TypeGlobal, TypeRecords, TypeClient, TypeThreads, Effect, Same,
       Tick
  <1>19. ASSUME CallPush(t) PROVE Effect(t)
    BY <1>19 DEF CallPush, TypeOK, TypeGlobal, TypeRecords, TypeClient, TypeThreads, Effect, Same,
       Tick
  <1>20. ASSUME ScanState(t) PROVE Effect(t)
    BY <1>20 DEF ScanState, TypeOK, TypeGlobal, TypeRecords, TypeClient, TypeThreads, Effect, Same,
       Tick
  <1>21. ASSUME ScanActive(t) PROVE Effect(t)
    BY <1>21 DEF ScanActive, TypeOK, TypeGlobal, TypeRecords, TypeClient, TypeThreads, Effect, Same,
       Tick
  <1>22. ASSUME ScanEpoch(t) PROVE Effect(t)
    BY <1>22 DEF ScanEpoch, TypeOK, TypeGlobal, TypeRecords, TypeClient, TypeThreads, Effect, Same,
       Tick
  <1>23. ASSUME SyncBlocked(t) PROVE Effect(t)
    BY <1>23
       DEF SyncBlocked, TypeOK, TypeGlobal, TypeRecords, TypeClient, TypeThreads, Effect, Same,
       Tick
  <1>24. ASSUME SyncDone(t) PROVE Effect(t)
    BY <1>24 DEF SyncDone, TypeOK, TypeGlobal, TypeRecords, TypeClient, TypeThreads, Effect, Same,
       Tick
  <1>25. ASSUME ReclaimSlot(t) PROVE Effect(t)
    BY <1>25
       DEF ReclaimSlot, TypeOK, TypeGlobal, TypeRecords, TypeClient, TypeThreads, Effect, Same,
       Tick
  <1>26. ASSUME PollBlocked(t) PROVE Effect(t)
    BY <1>26
       DEF PollBlocked, TypeOK, TypeGlobal, TypeRecords, TypeClient, TypeThreads, Effect, Same,
       Tick
  <1>27. ASSUME PollDone(t) PROVE Effect(t)
    BY <1>27 DEF PollDone, TypeOK, TypeGlobal, TypeRecords, TypeClient, TypeThreads, Effect, Same,
       Tick
  <1>28. ASSUME PollSlot(t) PROVE Effect(t)
    BY <1>28 DEF PollSlot, TypeOK, TypeGlobal, TypeRecords, TypeClient, TypeThreads, Effect, Same,
       Tick
  <1>29. ASSUME UnregisterCount(t) PROVE Effect(t)
    BY <1>29 DEF UnregisterCount, TypeOK, TypeGlobal, TypeRecords, TypeClient, TypeThreads, Effect,
       Same, Tick
  <1>30. ASSUME RecycleState(t) PROVE Effect(t)
    BY <1>30 DEF RecycleState, TypeOK, TypeGlobal, TypeRecords, TypeClient, TypeThreads, Effect,
       Same, Tick
  <1>31. ASSUME RecycleSwap(t) PROVE Effect(t)
    BY <1>31
       DEF RecycleSwap, TypeOK, TypeGlobal, TypeRecords, TypeClient, TypeThreads, Effect, Same,
       Tick
  <1>32. ASSUME RecycleCount(t) PROVE Effect(t)
    BY <1>32 DEF RecycleCount, TypeOK, TypeGlobal, TypeRecords, TypeClient, TypeThreads, Effect,
       Same, Tick
  <1> QED
    BY <1>1, <1>2, <1>3, <1>4, <1>5, <1>6, <1>7, <1>8, <1>9, <1>10, <1>11, <1>12, <1>13, <1>14,
       <1>15, <1>16, <1>17, <1>18, <1>19, <1>20, <1>21, <1>22, <1>23, <1>24, <1>25, <1>26, <1>27,
       <1>28, <1>29, <1>30, <1>31, <1>32 DEF Step, Choose, Continue

-----------------------------------------------------------------------------
\* A bucket and a slot are chosen by the epoch modulo 2 and modulo 4.
LEMMA Parity == ASSUME NEW n \in Nat PROVE n % 2 \in 0 .. 1 /\ n % 4 \in 0 .. 3
  OBVIOUS

\* Counters are natural numbers, 0 among them.
LEMMA Zero == 0 \in Counter /\ Counter \subseteq Nat
  BY Width DEF Counter

\* The state of a record that ck_epoch_register has just initialised.
LEMMA Blank ==
  /\ EmptyBuckets \in [0 .. 1 -> [epoch : Counter, count : Nat]]
  /\ EmptyPending \in [0 .. 3 -> SUBSET Objects]
  /\ NoSection \in [Handles -> {0, 1, NULL}]
  /\ NoRefs \in [Handles -> SUBSET Objects]
  BY Zero DEF EmptyBuckets, EmptyPending, NoSection, NoRefs

\* The list links records.
LEMMA ListType ==
  ASSUME TypeOK, Users
  PROVE  /\ Newest \in Records \cup {NULL}
         /\ \A r \in Listed : r \in Records /\ After(r) \in Records \cup {NULL}
  <1>1. records \in Seq(Records) /\ \A i, j \in DOMAIN records : records[i] = records[j] => i = j
    BY DEF TypeOK, TypeGlobal, Users, Directory
  <1>2. Listed \subseteq Records
    BY <1>1 DEF Listed
  <1>3. \A r \in Listed : After(r) \in Listed \cup {NULL}
    BY <1>1, AfterFacts
  <1>4. Newest \in Records \cup {NULL}
    BY <1>1 DEF Newest
  <1> QED
    BY <1>2, <1>3, <1>4

\* Every step keeps the types of the shared words ...
LEMMA TypeGlobalStep ==
  ASSUME TypeOK, NEW t \in Threads, Step(t)
  PROVE  TypeGlobal'

  <1>1. ASSUME NEW h \in Handles, Begin(t, h) PROVE TypeGlobal'
    BY <1>1 DEF Begin, TypeOK, TypeGlobal
  <1>2. ASSUME NEW h \in Handles, End(t, h) PROVE TypeGlobal'
    BY <1>2 DEF End, TypeOK, TypeGlobal
  <1>3. ASSUME NEW h \in Handles, NEW o \in Objects, Dereference(t, h, o) PROVE TypeGlobal'
    BY <1>3 DEF Dereference, TypeOK, TypeGlobal
  <1>4. ASSUME Observe(t) PROVE TypeGlobal'
    BY <1>4 DEF Observe, TypeOK, TypeGlobal
  <1>5. ASSUME Synchronize(t) PROVE TypeGlobal'
    BY <1>5 DEF Synchronize, TypeOK, TypeGlobal
  <1>6. ASSUME Poll(t) PROVE TypeGlobal'
    BY <1>6 DEF Poll, TypeOK, TypeGlobal
  <1>7. ASSUME Register(t) PROVE TypeGlobal'
    BY <1>7, PushFacts DEF Register, TypeOK, TypeGlobal
  <1>8. ASSUME Unregister(t) PROVE TypeGlobal'
    BY <1>8 DEF Unregister, TypeOK, TypeGlobal
  <1>9. ASSUME Recycle(t) PROVE TypeGlobal'
    BY <1>9 DEF Recycle, TypeOK, TypeGlobal
  <1>10. ASSUME NEW o \in Objects, Unlink(t, o) PROVE TypeGlobal'
    BY <1>10 DEF Unlink, TypeOK, TypeGlobal
  <1>11. ASSUME NEW o \in Objects, CallEarly(t, o) PROVE TypeGlobal'
    BY <1>11 DEF CallEarly, TypeOK, TypeGlobal
  <1>12. ASSUME NEW r \in Records, NEW o \in Objects, Call(t, r, o) PROVE TypeGlobal'
    BY <1>12 DEF Call, TypeOK, TypeGlobal
  <1>13. ASSUME BeginLoad(t) PROVE TypeGlobal'
    BY <1>13 DEF BeginLoad, TypeOK, TypeGlobal
  <1>14. ASSUME BeginStore(t) PROVE TypeGlobal'
    BY <1>14 DEF BeginStore, TypeOK, TypeGlobal
  <1>15. ASSUME Addref(t) PROVE TypeGlobal'
    BY <1>15 DEF Addref, TypeOK, TypeGlobal
  <1>16. ASSUME Delref(t) PROVE TypeGlobal'
    BY <1>16 DEF Delref, TypeOK, TypeGlobal
  <1>17. ASSUME ObserveStore(t) PROVE TypeGlobal'
    BY <1>17 DEF ObserveStore, TypeOK, TypeGlobal
  <1>18. ASSUME CallUnlink(t) PROVE TypeGlobal'
    BY <1>18 DEF CallUnlink, TypeOK, TypeGlobal
  <1>19. ASSUME CallPush(t) PROVE TypeGlobal'
    BY <1>19 DEF CallPush, TypeOK, TypeGlobal
  <1>20. ASSUME ScanState(t) PROVE TypeGlobal'
    BY <1>20 DEF ScanState, TypeOK, TypeGlobal
  <1>21. ASSUME ScanActive(t) PROVE TypeGlobal'
    BY <1>21 DEF ScanActive, TypeOK, TypeGlobal
  <1>22. ASSUME ScanEpoch(t) PROVE TypeGlobal'
    BY <1>22 DEF ScanEpoch, TypeOK, TypeGlobal
  <1>23. ASSUME SyncBlocked(t) PROVE TypeGlobal'
    BY <1>23 DEF SyncBlocked, TypeOK, TypeGlobal
  <1>24. ASSUME SyncDone(t) PROVE TypeGlobal'
    BY <1>24, AddOne DEF SyncDone, TypeOK, TypeGlobal
  <1>25. ASSUME ReclaimSlot(t) PROVE TypeGlobal'
    BY <1>25 DEF ReclaimSlot, TypeOK, TypeGlobal
  <1>26. ASSUME PollBlocked(t) PROVE TypeGlobal'
    BY <1>26 DEF PollBlocked, TypeOK, TypeGlobal
  <1>27. ASSUME PollDone(t) PROVE TypeGlobal'
    BY <1>27, AddOne DEF PollDone, TypeOK, TypeGlobal
  <1>28. ASSUME PollSlot(t) PROVE TypeGlobal'
    BY <1>28 DEF PollSlot, TypeOK, TypeGlobal
  <1>29. ASSUME UnregisterCount(t) PROVE TypeGlobal'
    BY <1>29, AddOne DEF UnregisterCount, TypeOK, TypeGlobal
  <1>30. ASSUME RecycleState(t) PROVE TypeGlobal'
    BY <1>30 DEF RecycleState, TypeOK, TypeGlobal
  <1>31. ASSUME RecycleSwap(t) PROVE TypeGlobal'
    BY <1>31 DEF RecycleSwap, TypeOK, TypeGlobal
  <1>32. ASSUME RecycleCount(t) PROVE TypeGlobal'
    BY <1>32, SubOne DEF RecycleCount, TypeOK, TypeGlobal
  <1> QED
    BY <1>1, <1>2, <1>3, <1>4, <1>5, <1>6, <1>7, <1>8, <1>9, <1>10, <1>11, <1>12, <1>13, <1>14,
       <1>15, <1>16, <1>17, <1>18, <1>19, <1>20, <1>21, <1>22, <1>23, <1>24, <1>25, <1>26, <1>27,
       <1>28, <1>29, <1>30, <1>31, <1>32 DEF Step, Choose, Continue

\* ... of the records, ...
LEMMA TypeRecordsStep ==
  ASSUME TypeOK, Users, NEW t \in Threads, Own(t), Buckets(t), Step(t)
  PROVE  TypeRecords'

  <1>1. ASSUME NEW h \in Handles, Begin(t, h) PROVE TypeRecords'
    BY <1>1 DEF Begin, TypeOK, TypeRecords, TypeClient
  <1>2. ASSUME NEW h \in Handles, End(t, h) PROVE TypeRecords'
    BY <1>2 DEF End, TypeOK, TypeRecords, TypeClient
  <1>3. ASSUME NEW h \in Handles, NEW o \in Objects, Dereference(t, h, o) PROVE TypeRecords'
    BY <1>3 DEF Dereference, TypeOK, TypeRecords, TypeClient
  <1>4. ASSUME Observe(t) PROVE TypeRecords'
    BY <1>4 DEF Observe, TypeOK, TypeRecords, TypeClient
  <1>5. ASSUME Synchronize(t) PROVE TypeRecords'
    BY <1>5 DEF Synchronize, TypeOK, TypeRecords, TypeClient
  <1>6. ASSUME Poll(t) PROVE TypeRecords'
    BY <1>6 DEF Poll, TypeOK, TypeRecords, TypeClient
  <1>7. ASSUME Register(t) PROVE TypeRecords'
    BY <1>7, Zero, Blank DEF Register, TypeOK, TypeRecords, TypeClient
  <1>8. ASSUME Unregister(t) PROVE TypeRecords'
    BY <1>8, Zero, Blank DEF Unregister, TypeOK, TypeRecords, TypeClient
  <1>9. ASSUME Recycle(t) PROVE TypeRecords'
    BY <1>9 DEF Recycle, TypeOK, TypeRecords, TypeClient
  <1>10. ASSUME NEW o \in Objects, Unlink(t, o) PROVE TypeRecords'
    BY <1>10 DEF Unlink, TypeOK, TypeRecords, TypeClient
  <1>11. ASSUME NEW o \in Objects, CallEarly(t, o) PROVE TypeRecords'
    BY <1>11 DEF CallEarly, TypeOK, TypeRecords, TypeClient
  <1>12. ASSUME NEW r \in Records, NEW o \in Objects, Call(t, r, o) PROVE TypeRecords'
    BY <1>12 DEF Call, TypeOK, TypeRecords, TypeClient
  <1>13. ASSUME BeginLoad(t) PROVE TypeRecords'
    BY <1>13 DEF BeginLoad, TypeOK, TypeRecords, TypeClient
  <1>14. ASSUME BeginStore(t) PROVE TypeRecords'
    BY <1>14 DEF BeginStore, TypeOK, TypeRecords, TypeThreads
  <1>15. ASSUME Addref(t) PROVE TypeRecords'
    <2>1. epoch \in Nat /\ epoch % 2 \in 0 .. 1
      BY Zero, Parity DEF TypeOK, TypeGlobal
    <2>2. bucket \in [Records -> [0 .. 1 -> [epoch : Counter, count : Nat]]] /\ epoch \in Counter
      BY DEF TypeOK, TypeGlobal, TypeRecords
    <2> DEFINE b == epoch % 2
               old == bucket[rec[t]][b]
               new == [epoch |-> IF old.count = 0 THEN epoch ELSE old.epoch, count |-> old.count + 1]
    <2>3. bucket' = [bucket EXCEPT ![rec[t]][b] = new]
      BY <1>15 DEF Addref
    <2>4. rec[t] \in Records
      BY <1>15, TypeOK, Users DEF Addref, Users, Place, TypeOK, TypeClient, Searching
    <2>5. new \in [epoch : Counter, count : Nat]
      BY <2>1, <2>2, <2>4
    <2> HIDE DEF b, new
    <2>6. bucket' \in [Records -> [0 .. 1 -> [epoch : Counter, count : Nat]]]
      BY <2>2, <2>3, <2>5
    <2> QED
      BY <1>15, <2>6 DEF Addref, TypeOK, TypeRecords
  <1>16. ASSUME Delref(t) PROVE TypeRecords'
    <2>1. rec[t] \in Records /\ sec[t][arg[t]] \in 0 .. 1 /\ arg[t] \in Handles
      <3>1. pc[t] = "e_ref"
        BY <1>16 DEF Delref
      <3>2. arg[t] \in Handles /\ sec[t][arg[t]] # NULL
        BY <3>1 DEF Buckets, SectionPlace
      <3>3. rec[t] # NULL
        BY <3>1 DEF Users, Place, Searching
      <3> QED
        BY <3>2, <3>3 DEF TypeOK, TypeClient
    <2> DEFINE b == sec[t][arg[t]]
               new == [bucket[rec[t]][b] EXCEPT !.count = @ - 1]
    <2>2. bucket' = [bucket EXCEPT ![rec[t]][b] = new]
      BY <1>16 DEF Delref
    <2>3. bucket \in [Records -> [0 .. 1 -> [epoch : Counter, count : Nat]]] /\ repoch \in [Records -> Counter]
      BY DEF TypeOK, TypeRecords
    <2>4. bucket[rec[t]][b].count > 0
      <3>1. arg[t] \in {h \in Handles : sec[t][h] = b}
        BY <2>1
      <3>2. bucket[rec[t]][b].count = Cardinality({h \in Handles : sec[t][h] = b})
        BY <2>1, EpochAssumption DEF Buckets, Counts, Open
      <3>3. IsFiniteSet({h \in Handles : sec[t][h] = b})
        BY FS_Subset, EpochAssumption
      <3> HIDE DEF b
      <3> QED
        BY <3>1, <3>2, <3>3, FS_EmptySet, FS_CardinalityType
    <2>5. new \in [epoch : Counter, count : Nat]
      <3>1. bucket[rec[t]][b] \in [epoch : Counter, count : Nat]
        BY <2>1, <2>3
      <3>2. bucket[rec[t]][b].count - 1 \in Nat
        BY <2>4, <3>1
      <3> QED
        BY <3>1, <3>2
    <2>6. bucket[rec[t]][1 - b].epoch \in Counter
      BY <2>1, <2>3
    <2> HIDE DEF new
    <2>7. bucket' \in [Records -> [0 .. 1 -> [epoch : Counter, count : Nat]]]
      BY <2>1, <2>2, <2>3, <2>5
    <2>8. repoch' \in [Records -> Counter]
      BY <1>16, <2>3, <2>6 DEF Delref
    <2> QED
      BY <1>16, <2>7, <2>8 DEF Delref, TypeOK, TypeRecords
  <1>17. ASSUME ObserveStore(t) PROVE TypeRecords'
    BY <1>17 DEF ObserveStore, TypeOK, TypeRecords, TypeThreads
  <1>18. ASSUME CallUnlink(t) PROVE TypeRecords'
    BY <1>18 DEF CallUnlink, TypeOK, TypeRecords, TypeClient
  <1>19. ASSUME CallPush(t) PROVE TypeRecords'
    <2>1. snap[t] % 4 \in 0 .. 3
      BY Zero, Parity DEF TypeOK, TypeThreads
    <2>2. arg[t][1] \in Records /\ arg[t][2] \in Objects
      BY <1>19, ListType DEF CallPush, Users, Place
    <2> QED
      BY <1>19, <2>1, <2>2 DEF CallPush, TypeOK, TypeRecords
  <1>20. ASSUME ScanState(t) PROVE TypeRecords'
    BY <1>20 DEF ScanState, TypeOK, TypeRecords, TypeClient
  <1>21. ASSUME ScanActive(t) PROVE TypeRecords'
    BY <1>21 DEF ScanActive, TypeOK, TypeRecords, TypeClient
  <1>22. ASSUME ScanEpoch(t) PROVE TypeRecords'
    BY <1>22 DEF ScanEpoch, TypeOK, TypeRecords, TypeClient
  <1>23. ASSUME SyncBlocked(t) PROVE TypeRecords'
    BY <1>23 DEF SyncBlocked, TypeOK, TypeRecords, TypeClient
  <1>24. ASSUME SyncDone(t) PROVE TypeRecords'
    BY <1>24 DEF SyncDone, TypeOK, TypeRecords, TypeClient
  <1>25. ASSUME ReclaimSlot(t) PROVE TypeRecords'
    BY <1>25 DEF ReclaimSlot, TypeOK, TypeRecords, TypeThreads
  <1>26. ASSUME PollBlocked(t) PROVE TypeRecords'
    BY <1>26 DEF PollBlocked, TypeOK, TypeRecords, TypeClient
  <1>27. ASSUME PollDone(t) PROVE TypeRecords'
    BY <1>27 DEF PollDone, TypeOK, TypeRecords, TypeThreads
  <1>28. ASSUME PollSlot(t) PROVE TypeRecords'
    BY <1>28 DEF PollSlot, TypeOK, TypeRecords, TypeClient
  <1>29. ASSUME UnregisterCount(t) PROVE TypeRecords'
    BY <1>29 DEF UnregisterCount, TypeOK, TypeRecords, TypeClient
  <1>30. ASSUME RecycleState(t) PROVE TypeRecords'
    BY <1>30 DEF RecycleState, TypeOK, TypeRecords, TypeClient
  <1>31. ASSUME RecycleSwap(t) PROVE TypeRecords'
    BY <1>31 DEF RecycleSwap, TypeOK, TypeRecords, TypeClient
  <1>32. ASSUME RecycleCount(t) PROVE TypeRecords'
    BY <1>32 DEF RecycleCount, TypeOK, TypeRecords, TypeClient
  <1> QED
    BY <1>1, <1>2, <1>3, <1>4, <1>5, <1>6, <1>7, <1>8, <1>9, <1>10, <1>11, <1>12, <1>13, <1>14,
       <1>15, <1>16, <1>17, <1>18, <1>19, <1>20, <1>21, <1>22, <1>23, <1>24, <1>25, <1>26, <1>27,
       <1>28, <1>29, <1>30, <1>31, <1>32 DEF Step, Choose, Continue

\* ... of the client ...
LEMMA TypeClientStep ==
  ASSUME TypeOK, Users, NEW t \in Threads, Step(t)
  PROVE  TypeClient'

  <1>1. ASSUME NEW h \in Handles, Begin(t, h) PROVE TypeClient'
    BY <1>1 DEF Begin, TypeOK, TypeClient
  <1>2. ASSUME NEW h \in Handles, End(t, h) PROVE TypeClient'
    BY <1>2 DEF End, TypeOK, TypeClient
  <1>3. ASSUME NEW h \in Handles, NEW o \in Objects, Dereference(t, h, o) PROVE TypeClient'
    BY <1>3 DEF Dereference, TypeOK, TypeClient
  <1>4. ASSUME Observe(t) PROVE TypeClient'
    BY <1>4, Blank DEF Observe, TypeOK, TypeClient
  <1>5. ASSUME Synchronize(t) PROVE TypeClient'
    BY <1>5 DEF Synchronize, TypeOK, TypeClient
  <1>6. ASSUME Poll(t) PROVE TypeClient'
    BY <1>6 DEF Poll, TypeOK, TypeClient
  <1>7. ASSUME Register(t) PROVE TypeClient'
    BY <1>7 DEF Register, TypeOK, TypeClient
  <1>8. ASSUME Unregister(t) PROVE TypeClient'
    BY <1>8 DEF Unregister, TypeOK, TypeClient
  <1>9. ASSUME Recycle(t) PROVE TypeClient'
    BY <1>9 DEF Recycle, TypeOK, TypeClient
  <1>10. ASSUME NEW o \in Objects, Unlink(t, o) PROVE TypeClient'
    BY <1>10 DEF Unlink, TypeOK, TypeClient
  <1>11. ASSUME NEW o \in Objects, CallEarly(t, o) PROVE TypeClient'
    BY <1>11 DEF CallEarly, TypeOK, TypeClient
  <1>12. ASSUME NEW r \in Records, NEW o \in Objects, Call(t, r, o) PROVE TypeClient'
    BY <1>12 DEF Call, TypeOK, TypeClient
  <1>13. ASSUME BeginLoad(t) PROVE TypeClient'
    BY <1>13 DEF BeginLoad, TypeOK, TypeClient
  <1>14. ASSUME BeginStore(t) PROVE TypeClient'
    BY <1>14 DEF BeginStore, TypeOK, TypeClient
  <1>15. ASSUME Addref(t) PROVE TypeClient'
    <2> DEFINE b == epoch % 2
    <2>1. b \in {0, 1, NULL}
      BY Zero, Parity DEF TypeOK, TypeGlobal
    <2>2. sec' = [sec EXCEPT ![t][arg[t]] = b]
      BY <1>15 DEF Addref
    <2> HIDE DEF b
    <2>3. sec' \in [Threads -> [Handles -> {0, 1, NULL}]]
      BY <2>1, <2>2 DEF TypeOK, TypeClient
    <2> QED
      BY <1>15, <2>3 DEF Addref, TypeOK, TypeClient
  <1>16. ASSUME Delref(t) PROVE TypeClient'
    BY <1>16 DEF Delref, TypeOK, TypeClient
  <1>17. ASSUME ObserveStore(t) PROVE TypeClient'
    BY <1>17 DEF ObserveStore, TypeOK, TypeClient
  <1>18. ASSUME CallUnlink(t) PROVE TypeClient'
    BY <1>18 DEF CallUnlink, TypeOK, TypeClient
  <1>19. ASSUME CallPush(t) PROVE TypeClient'
    BY <1>19 DEF CallPush, TypeOK, TypeClient
  <1>20. ASSUME ScanState(t) PROVE TypeClient'
    BY <1>20 DEF ScanState, TypeOK, TypeClient
  <1>21. ASSUME ScanActive(t) PROVE TypeClient'
    BY <1>21 DEF ScanActive, TypeOK, TypeClient
  <1>22. ASSUME ScanEpoch(t) PROVE TypeClient'
    BY <1>22 DEF ScanEpoch, TypeOK, TypeClient
  <1>23. ASSUME SyncBlocked(t) PROVE TypeClient'
    BY <1>23 DEF SyncBlocked, TypeOK, TypeClient
  <1>24. ASSUME SyncDone(t) PROVE TypeClient'
    BY <1>24 DEF SyncDone, TypeOK, TypeClient
  <1>25. ASSUME ReclaimSlot(t) PROVE TypeClient'
    BY <1>25 DEF ReclaimSlot, TypeOK, TypeClient
  <1>26. ASSUME PollBlocked(t) PROVE TypeClient'
    BY <1>26 DEF PollBlocked, TypeOK, TypeClient
  <1>27. ASSUME PollDone(t) PROVE TypeClient'
    BY <1>27 DEF PollDone, TypeOK, TypeClient
  <1>28. ASSUME PollSlot(t) PROVE TypeClient'
    BY <1>28 DEF PollSlot, TypeOK, TypeClient
  <1>29. ASSUME UnregisterCount(t) PROVE TypeClient'
    BY <1>29 DEF UnregisterCount, TypeOK, TypeClient
  <1>30. ASSUME RecycleState(t) PROVE TypeClient'
    BY <1>30 DEF RecycleState, TypeOK, TypeClient
  <1>31. ASSUME RecycleSwap(t) PROVE TypeClient'
    BY <1>31, ListType DEF RecycleSwap, TypeOK, TypeClient, Users, Place, Searching
  <1>32. ASSUME RecycleCount(t) PROVE TypeClient'
    BY <1>32 DEF RecycleCount, TypeOK, TypeClient
  <1> QED
    BY <1>1, <1>2, <1>3, <1>4, <1>5, <1>6, <1>7, <1>8, <1>9, <1>10, <1>11, <1>12, <1>13, <1>14,
       <1>15, <1>16, <1>17, <1>18, <1>19, <1>20, <1>21, <1>22, <1>23, <1>24, <1>25, <1>26, <1>27,
       <1>28, <1>29, <1>30, <1>31, <1>32 DEF Step, Choose, Continue

\* ... and of the threads' locals.
LEMMA TypeThreadsStep ==
  ASSUME TypeOK, Users, NEW t \in Threads, Step(t)
  PROVE  TypeThreads'
  <1>a. TypeThreads /\ 0 \in Counter /\ epoch \in Counter /\ rec \in [Threads -> Records \cup {NULL}]
    BY Zero DEF TypeOK, TypeGlobal, TypeClient
  <1>b. Newest \in Records \cup {NULL}
    BY ListType
  <1>c. pc[t] \in {"s_state", "s_active", "s_epoch", "f_state", "f_swap"} => After(cursor[t]) \in Records \cup {NULL}
    BY ListType DEF Users, Place, Scanning, Searching
  <1>d. ReturnScan(t) => TypeThreads'
    BY <1>a DEF TypeThreads, Labels
  <1>e. Leave(t) => TypeThreads'
    <2>1. CASE op[t] = "barrier"
      BY <1>a, <2>1 DEF TypeThreads, Labels
    <2>2. CASE op[t] # "barrier"
      BY <1>d, <2>2
    <2> QED
      BY <2>1, <2>2

  <1>1. ASSUME NEW h \in Handles, Begin(t, h) PROVE TypeThreads'
    BY <1>1, <1>a DEF Begin, TypeThreads, Labels, Scanning, Searching, Beginning
  <1>2. ASSUME NEW h \in Handles, End(t, h) PROVE TypeThreads'
    BY <1>2, <1>a DEF End, TypeThreads, Labels, Scanning, Searching, Beginning
  <1>3. ASSUME NEW h \in Handles, NEW o \in Objects, Dereference(t, h, o) PROVE TypeThreads'
    BY <1>3, <1>a DEF Dereference, TypeThreads, Labels, Scanning, Searching, Beginning
  <1>4. ASSUME Observe(t) PROVE TypeThreads'
    BY <1>4, <1>a DEF Observe, TypeThreads, Labels, Scanning, Searching, Beginning
  <1>5. ASSUME Synchronize(t) PROVE TypeThreads'
    BY <1>5, <1>a, <1>b DEF Synchronize, TypeThreads, Labels, Scanning, Searching, Beginning
  <1>6. ASSUME Poll(t) PROVE TypeThreads'
    BY <1>6, <1>a, <1>b DEF Poll, TypeThreads, Labels, Scanning, Searching, Beginning
  <1>7. ASSUME Register(t) PROVE TypeThreads'
    BY <1>7, <1>a DEF Register, TypeThreads, Labels, Scanning, Searching, Beginning
  <1>8. ASSUME Unregister(t) PROVE TypeThreads'
    BY <1>8, <1>a DEF Unregister, TypeThreads, Labels, Scanning, Searching, Beginning
  <1>9. ASSUME Recycle(t) PROVE TypeThreads'
    BY <1>9, <1>a, <1>b DEF Recycle, TypeThreads, Labels, Scanning, Searching, Beginning
  <1>10. ASSUME NEW o \in Objects, Unlink(t, o) PROVE TypeThreads'
    BY <1>10, <1>a DEF Unlink, TypeThreads, Labels, Scanning, Searching, Beginning
  <1>11. ASSUME NEW o \in Objects, CallEarly(t, o) PROVE TypeThreads'
    BY <1>11, <1>a DEF CallEarly, TypeThreads, Labels, Scanning, Searching, Beginning
  <1>12. ASSUME NEW r \in Records, NEW o \in Objects, Call(t, r, o) PROVE TypeThreads'
    BY <1>12, <1>a DEF Call, TypeThreads, Labels, Scanning, Searching, Beginning
  <1>13. ASSUME BeginLoad(t) PROVE TypeThreads'
    BY <1>13, <1>a DEF BeginLoad, TypeThreads, Labels, Scanning, Searching, Beginning
  <1>14. ASSUME BeginStore(t) PROVE TypeThreads'
    BY <1>14, <1>a DEF BeginStore, TypeThreads, Labels, Scanning, Searching, Beginning
  <1>15. ASSUME Addref(t) PROVE TypeThreads'
    BY <1>15, <1>a DEF Addref, TypeThreads, Labels, Scanning, Searching, Beginning
  <1>16. ASSUME Delref(t) PROVE TypeThreads'
    BY <1>16, <1>a DEF Delref, TypeThreads, Labels, Scanning, Searching, Beginning
  <1>17. ASSUME ObserveStore(t) PROVE TypeThreads'
    BY <1>17, <1>a DEF ObserveStore, TypeThreads, Labels, Scanning, Searching, Beginning
  <1>18. ASSUME CallUnlink(t) PROVE TypeThreads'
    BY <1>18, <1>a DEF CallUnlink, TypeThreads, Labels, Scanning, Searching, Beginning
  <1>19. ASSUME CallPush(t) PROVE TypeThreads'
    BY <1>19, <1>a DEF CallPush, TypeThreads, Labels, Scanning, Searching, Beginning
  <1>20. ASSUME ScanState(t) PROVE TypeThreads'
    BY <1>20, <1>a, <1>c DEF ScanState, TypeThreads, Labels, Scanning, Searching, Beginning
  <1>21. ASSUME ScanActive(t) PROVE TypeThreads'
    BY <1>21, <1>a, <1>c DEF ScanActive, TypeThreads, Labels, Scanning, Searching, Beginning
  <1>22. ASSUME ScanEpoch(t) PROVE TypeThreads'
    BY <1>22, <1>a, <1>c DEF ScanEpoch, TypeThreads, Labels, Scanning, Searching, Beginning
  <1>23. ASSUME SyncBlocked(t) PROVE TypeThreads'
    <2>1. CASE Leave(t)
      BY <1>e, <2>1
    <2>2. CASE pc' = [pc EXCEPT ![t] = "s_state"] /\ af' = [af EXCEPT ![t] = TRUE]
               /\ UNCHANGED <<snap, arg, op, first, iter, cursor>>
      BY <1>a, <2>2 DEF TypeThreads, Labels, Scanning
    <2>3. CASE snap' = [snap EXCEPT ![t] = epoch] /\ StartScan(t) /\ UNCHANGED <<arg, op, first, iter>>
      BY <1>a, <1>b, <2>3 DEF TypeThreads, Labels, Scanning
    <2> QED
      BY <1>23, <2>1, <2>2, <2>3 DEF SyncBlocked
  <1>24. ASSUME SyncDone(t) PROVE TypeThreads'
    <2>1. CASE Leave(t)
      BY <1>e, <2>1
    <2>2. CASE ~Leave(t)
      <3>1. epoch' \in Counter
        BY TypeGlobalStep DEF TypeGlobal
      <3>2. /\ iter' = [iter EXCEPT ![t] = 1] /\ snap' = [snap EXCEPT ![t] = epoch'] /\ StartScan(t)
            /\ UNCHANGED <<arg, op, first>>
        BY <1>24, <2>2 DEF SyncDone
      <3> QED
        BY <1>a, <1>b, <3>1, <3>2 DEF TypeThreads, Labels, Scanning
    <2> QED
      BY <2>1, <2>2
  <1>25. ASSUME ReclaimSlot(t) PROVE TypeThreads'
    <2>1. CASE iter[t] = 3
      BY <1>25, <1>d, <2>1 DEF ReclaimSlot
    <2>2. CASE iter[t] # 3
      <3>1. iter' = [iter EXCEPT ![t] = @ + 1] /\ UNCHANGED <<pc, snap, arg, op, first, cursor, af>>
        BY <1>25, <2>2 DEF ReclaimSlot
      <3>2. iter[t] + 1 \in 0 .. 3
        BY <1>a, <2>2 DEF TypeThreads
      <3> QED
        BY <1>a, <3>1, <3>2 DEF TypeThreads
    <2> QED
      BY <2>1, <2>2
  <1>26. ASSUME PollBlocked(t) PROVE TypeThreads'
    BY <1>26, <1>a, <1>d DEF PollBlocked, TypeThreads, Labels, Scanning, Searching, Beginning
  <1>27. ASSUME PollDone(t) PROVE TypeThreads'
    BY <1>27, <1>a DEF PollDone, TypeThreads, Labels, Scanning, Searching, Beginning
  <1>28. ASSUME PollSlot(t) PROVE TypeThreads'
    BY <1>28, <1>a, <1>d DEF PollSlot, TypeThreads, Labels, Scanning, Searching, Beginning
  <1>29. ASSUME UnregisterCount(t) PROVE TypeThreads'
    BY <1>29, <1>a DEF UnregisterCount, TypeThreads, Labels, Scanning, Searching, Beginning
  <1>30. ASSUME RecycleState(t) PROVE TypeThreads'
    BY <1>30, <1>a, <1>c DEF RecycleState, TypeThreads, Labels, Scanning, Searching, Beginning
  <1>31. ASSUME RecycleSwap(t) PROVE TypeThreads'
    BY <1>31, <1>a, <1>c DEF RecycleSwap, TypeThreads, Labels, Scanning, Searching, Beginning
  <1>32. ASSUME RecycleCount(t) PROVE TypeThreads'
    BY <1>32, <1>a DEF RecycleCount, TypeThreads, Labels, Scanning, Searching, Beginning
  <1> QED
    BY <1>1, <1>2, <1>3, <1>4, <1>5, <1>6, <1>7, <1>8, <1>9, <1>10, <1>11, <1>12, <1>13, <1>14,
       <1>15, <1>16, <1>17, <1>18, <1>19, <1>20, <1>21, <1>22, <1>23, <1>24, <1>25, <1>26, <1>27,
       <1>28, <1>29, <1>30, <1>31, <1>32 DEF Step, Choose, Continue

-----------------------------------------------------------------------------
(* Records and their users. *)

\* Records change hands in three operations only.
LEMMA Hands ==
  ASSUME TypeOK, NEW t \in Threads, Step(t)
  PROVE  \/ UNCHANGED <<records, rec, state>>
         \/ Register(t) \/ Unregister(t) \/ (RecycleSwap(t) /\ state[cursor[t]] = "free")

  <1>1. CASE (\E h \in Handles : Begin(t, h)) \/ (\E h \in Handles : End(t, h))
             \/ (\E h \in Handles, o \in Objects : Dereference(t, h, o)) \/ Observe(t)
             \/ Synchronize(t) \/ Poll(t) \/ Recycle(t)
    BY <1>1 DEF Begin, End, Dereference, Observe, Synchronize, Poll, Recycle
  <1>2. CASE (\E o \in Objects : Unlink(t, o)) \/ (\E o \in Objects : CallEarly(t, o))
             \/ (\E r \in Records, o \in Objects : Call(t, r, o)) \/ BeginLoad(t) \/ BeginStore(t)
             \/ Addref(t) \/ Delref(t)
    BY <1>2 DEF Unlink, CallEarly, Call, BeginLoad, BeginStore, Addref, Delref
  <1>3. CASE ObserveStore(t) \/ CallUnlink(t) \/ CallPush(t) \/ ScanState(t) \/ ScanActive(t)
             \/ ScanEpoch(t) \/ SyncBlocked(t)
    BY <1>3 DEF ObserveStore, CallUnlink, CallPush, ScanState, ScanActive, ScanEpoch, SyncBlocked
  <1>4. CASE SyncDone(t) \/ ReclaimSlot(t) \/ PollBlocked(t) \/ PollDone(t) \/ PollSlot(t)
             \/ UnregisterCount(t) \/ RecycleState(t)
    BY <1>4 DEF SyncDone, ReclaimSlot, PollBlocked, PollDone, PollSlot, UnregisterCount,
       RecycleState
  <1>5. CASE RecycleCount(t)
    BY <1>5 DEF RecycleCount
  <1>6. CASE Register(t)
    BY <1>6
  <1>7. CASE Unregister(t)
    BY <1>7
  <1>8. CASE RecycleSwap(t)
    BY <1>8 DEF RecycleSwap
  <1> QED
    BY <1>1, <1>2, <1>3, <1>4, <1>5, <1>6, <1>7, <1>8 DEF Step, Choose, Continue

\* Records enter the list once, and never leave it.
LEMMA DirectoryStep ==
  ASSUME TypeOK, TypeOK', Users, NEW t \in Threads, Step(t)
  PROVE  Directory' /\ Listed \subseteq Listed'
  <1>0. Effect(t)
    BY StepEffect
  <1>a. records \in Seq(Records) /\ Listed \subseteq Records
    BY ListType DEF TypeOK, TypeGlobal, Listed
  <1>b. state \in [Records -> {"used", "free"}] /\ active \in [Records -> Nat]
        /\ rec \in [Threads -> Records \cup {NULL}] /\ NULL \notin Records
    BY EpochAssumption DEF TypeOK, TypeRecords, TypeClient
  <1>1. CASE UNCHANGED <<records, rec, state>>
    <2>1. Listed' = Listed
      BY <1>1 DEF Listed
    <2>2. ASSUME NEW r \in Records, \A u \in Threads : rec[u] # r
          PROVE  active'[r] = active[r] /\ bucket'[r] = bucket[r]
      BY <1>0, <1>1, <2>2 DEF Effect
    <2> QED
      BY <1>1, <2>1, <2>2 DEF Users, Directory
  <1>2. ASSUME NEW r \in Records, r \notin Listed, rec' = [rec EXCEPT ![t] = r], rec[t] = NULL,
               state' = [state EXCEPT ![r] = "used"], active' = [active EXCEPT ![r] = 0],
               records' = <<r>> \o records, bucket' = [bucket EXCEPT ![r] = EmptyBuckets]
        PROVE  Directory' /\ Listed \subseteq Listed'
    <2>1. /\ Listed' = Listed \cup {r}
          /\ \A i, j \in DOMAIN records' : records'[i] = records'[j] => i = j
      BY <1>a, <1>2, PushFacts DEF Users, Directory
    <2>2. \A u \in Threads : rec[u] # r
      BY <1>2, <1>b DEF Users, Directory
    <2>3. \A u \in Threads : rec'[u] # NULL => rec'[u] \in Listed' /\ state'[rec'[u]] = "used"
      BY <1>2, <1>b, <2>1 DEF Users, Directory
    <2>4. \A u, v \in Threads : rec'[u] = rec'[v] /\ rec'[u] # NULL => u = v
      BY <1>2, <1>b, <2>2 DEF Users, Directory
    <2>5. \A x \in Records : state'[x] = "free" => x \in Listed'
      BY <1>2, <1>b, <2>1 DEF Users, Directory
    <2>6. ASSUME NEW x \in Records, \A u \in Threads : rec'[u] # x
          PROVE  active'[x] = 0 /\ \A b \in 0 .. 1 : bucket'[x][b].count = 0
      <3>1. x # r /\ \A u \in Threads : rec[u] # x
        BY <1>2, <1>b, <2>6
      <3>2. active'[x] = active[x] /\ bucket'[x] = bucket[x]
        BY <1>2, <1>b, <3>1 DEF TypeOK, TypeRecords
      <3> QED
        BY <3>1, <3>2 DEF Users, Directory
    <2> QED
      BY <2>1, <2>3, <2>4, <2>5, <2>6 DEF Directory
  <1>3. CASE Register(t)
    <2>1. PICK r \in Records :
            /\ \A i \in DOMAIN records : records[i] # r
            /\ rec' = [rec EXCEPT ![t] = r] /\ rec[t] = NULL
            /\ state' = [state EXCEPT ![r] = "used"] /\ active' = [active EXCEPT ![r] = 0]
            /\ records' = <<r>> \o records /\ bucket' = [bucket EXCEPT ![r] = EmptyBuckets]
      BY <1>3 DEF Register
    <2>2. r \notin Listed
      BY <2>1 DEF Listed
    <2> QED
      BY <1>2, <2>1, <2>2
  <1>4. CASE Unregister(t)
    <2> DEFINE r == rec[t]
    <2>1. /\ r \in Records /\ rec' = [rec EXCEPT ![t] = NULL] /\ state' = [state EXCEPT ![r] = "free"]
          /\ active[r] = 0 /\ active' = active /\ records' = records
          /\ bucket' = [bucket EXCEPT ![r] = EmptyBuckets]
      BY <1>4, <1>b DEF Unregister
    <2>2. Listed' = Listed /\ r \in Listed
      BY <2>1, <1>b DEF Listed, Users, Directory
    <2>3. \A u \in Threads : u # t => rec'[u] = rec[u] /\ rec[u] # r
      BY <1>b, <2>1 DEF Users, Directory
    <2>4. \A u \in Threads : rec'[u] # NULL => rec'[u] \in Listed' /\ state'[rec'[u]] = "used"
      BY <1>b, <2>1, <2>2, <2>3 DEF Users, Directory
    <2>5. \A u, v \in Threads : rec'[u] = rec'[v] /\ rec'[u] # NULL => u = v
      BY <1>b, <2>1, <2>3 DEF Users, Directory
    <2>6. \A x \in Records : state'[x] = "free" => x \in Listed'
      BY <1>b, <2>1, <2>2 DEF Users, Directory
    <2>7. ASSUME NEW x \in Records, \A u \in Threads : rec'[u] # x
          PROVE  active'[x] = 0 /\ \A b \in 0 .. 1 : bucket'[x][b].count = 0
      <3>1. CASE x = r
        BY <2>1, <3>1 DEF TypeOK, TypeRecords, EmptyBuckets
      <3>2. CASE x # r
        <4>1. \A u \in Threads : rec[u] # x
          BY <1>b, <2>1, <2>7, <3>2
        <4>2. bucket'[x] = bucket[x]
          BY <2>1, <3>2 DEF TypeOK, TypeRecords
        <4> QED
          BY <2>1, <4>1, <4>2 DEF Users, Directory
      <3> QED
        BY <3>1, <3>2
    <2> QED
      BY <2>1, <2>2, <2>4, <2>5, <2>6, <2>7 DEF Users, Directory
  <1>5. CASE RecycleSwap(t) /\ state[cursor[t]] = "free"
    <2> DEFINE r == cursor[t]
    <2>1. /\ r \in Listed /\ rec[t] = NULL
      BY <1>5 DEF RecycleSwap, Users, Place, Searching
    <2>2. /\ r \in Records /\ rec' = [rec EXCEPT ![t] = r] /\ state' = [state EXCEPT ![r] = "used"]
          /\ active' = active /\ records' = records /\ bucket' = bucket /\ state[r] = "free"
      BY <1>5, <1>a, <2>1 DEF RecycleSwap
    <2> HIDE DEF r
    <2>3. Listed' = Listed
      BY <2>2 DEF Listed
    <2>4. \A u \in Threads : rec[u] # r
      BY <1>b, <2>2 DEF Users, Directory
    <2>5. \A u \in Threads : rec'[u] # NULL => rec'[u] \in Listed' /\ state'[rec'[u]] = "used"
      BY <1>b, <2>1, <2>2, <2>3, <2>4 DEF Users, Directory
    <2>6. \A u, v \in Threads : rec'[u] = rec'[v] /\ rec'[u] # NULL => u = v
      BY <1>b, <2>2, <2>4 DEF Users, Directory
    <2>7. \A x \in Records : state'[x] = "free" => x \in Listed'
      BY <1>b, <2>2, <2>3 DEF Users, Directory
    <2>8. ASSUME NEW x \in Records, \A u \in Threads : rec'[u] # x
          PROVE  active'[x] = 0 /\ \A b \in 0 .. 1 : bucket'[x][b].count = 0
      <3>1. \A u \in Threads : rec[u] # x
        BY <1>b, <2>1, <2>2, <2>8
      <3> QED
        BY <2>2, <3>1 DEF Users, Directory
    <2> QED
      BY <2>2, <2>3, <2>5, <2>6, <2>7, <2>8 DEF Users, Directory
  <1> QED
    BY <1>1, <1>3, <1>4, <1>5, Hands

-----------------------------------------------------------------------------
(* The number of free records. *)

\* Any set of threads is finite.
LEMMA FewThreads ==
  ASSUME NEW S \in SUBSET Threads
  PROVE  /\ IsFiniteSet(S) /\ Cardinality(S) \in Nat /\ Cardinality(Threads) \in Nat
         /\ Cardinality(S) <= Cardinality(Threads)
  BY EpochAssumption, FS_Subset, FS_CardinalityType

\* Any set of records is finite.
LEMMA FewRecords ==
  ASSUME NEW S \in SUBSET Records
  PROVE  /\ IsFiniteSet(S) /\ Cardinality(S) \in Nat /\ Cardinality(Records) \in Nat
         /\ Cardinality(S) <= Cardinality(Records)
  BY EpochAssumption, FS_Subset, FS_CardinalityType

\* Threads and records together are fewer than the epochs on the circle.
LEMMA Fits ==
  /\ Cardinality(Threads) \in Nat /\ Cardinality(Records) \in Nat
  /\ Cardinality(Threads) + Cardinality(Records) < Mod
  BY EpochAssumption, FS_CardinalityType

\* A set with one more member ...
LEMMA AddMember ==
  ASSUME NEW S, IsFiniteSet(S), NEW x, x \notin S
  PROVE  Cardinality(S \cup {x}) = Cardinality(S) + 1
  BY FS_AddElement

\* ... and with one less.
LEMMA RemoveMember ==
  ASSUME NEW S, IsFiniteSet(S), NEW x \in S
  PROVE  Cardinality(S \ {x}) = Cardinality(S) - 1
  BY FS_RemoveElement

\* Where the count is not zero there are records.
LEMMA CountedListed ==
  ASSUME TypeOK, Users, FreeCount, n_free # 0
  PROVE  Listed # {}
  <1>1. ASSUME Free = {}, Taken = {}, Offered = {} PROVE FALSE
    BY <1>1, FS_EmptySet DEF FreeCount, Wrapped
  <1>2. CASE Free # {}
    BY <1>2 DEF Free, Users, Directory
  <1>3. CASE Taken # {}
    <2>1. PICK u \in Threads : pc[u] = "f_dec"
      BY <1>3 DEF Taken
    <2>2. rec[u] # NULL
      BY <2>1 DEF Users, Place, Searching
    <2> QED
      BY <2>2 DEF Users, Directory
  <1>4. CASE Offered # {}
    BY <1>4 DEF Offered, Users, Place
  <1> QED
    BY <1>1, <1>2, <1>3, <1>4

\* What the count depends on changes in four operations.
Uncounted(t) ==
  n_free' = n_free /\ state' = state /\ pc[t] \notin {"u_inc", "f_dec"} /\ pc'[t] \notin {"u_inc", "f_dec"}

\* Only registration, unregistration and recycling touch the count of free records.
LEMMA Counting ==
  ASSUME TypeOK, NEW t \in Threads, Step(t)
  PROVE  \/ Uncounted(t) \/ Register(t) \/ Unregister(t) \/ UnregisterCount(t)
         \/ (RecycleSwap(t) /\ state[cursor[t]] = "free") \/ RecycleCount(t)

  <1>1. CASE (\E h \in Handles : Begin(t, h)) \/ (\E h \in Handles : End(t, h))
             \/ (\E h \in Handles, o \in Objects : Dereference(t, h, o)) \/ Observe(t)
             \/ Synchronize(t)
    BY <1>1 DEF Begin, End, Dereference, Observe, Synchronize, Uncounted, TypeOK, TypeThreads
  <1>2. CASE Poll(t) \/ Recycle(t) \/ (\E o \in Objects : Unlink(t, o))
             \/ (\E o \in Objects : CallEarly(t, o))
             \/ (\E r \in Records, o \in Objects : Call(t, r, o))
    BY <1>2 DEF Poll, Recycle, Unlink, CallEarly, Call, Uncounted, TypeOK, TypeThreads
  <1>3. CASE BeginLoad(t) \/ BeginStore(t) \/ Addref(t) \/ Delref(t) \/ ObserveStore(t)
    BY <1>3 DEF BeginLoad, BeginStore, Addref, Delref, ObserveStore, Uncounted, TypeOK, TypeThreads
  <1>4. CASE CallUnlink(t) \/ CallPush(t) \/ ScanState(t) \/ ScanActive(t) \/ ScanEpoch(t)
    BY <1>4 DEF CallUnlink, CallPush, ScanState, ScanActive, ScanEpoch, Uncounted, TypeOK,
       TypeThreads
  <1>5. CASE SyncBlocked(t) \/ SyncDone(t) \/ ReclaimSlot(t) \/ PollBlocked(t) \/ PollDone(t)
    BY <1>5 DEF SyncBlocked, SyncDone, ReclaimSlot, PollBlocked, PollDone, Uncounted, TypeOK,
       TypeThreads
  <1>6. CASE PollSlot(t) \/ RecycleState(t)
    BY <1>6 DEF PollSlot, RecycleState, Uncounted, TypeOK, TypeThreads
  <1>7. CASE Register(t)
    BY <1>7
  <1>8. CASE Unregister(t)
    BY <1>8
  <1>9. CASE UnregisterCount(t)
    BY <1>9
  <1>10. CASE RecycleCount(t)
    BY <1>10
  <1>11. CASE RecycleSwap(t)
    BY <1>11 DEF RecycleSwap, Uncounted, TypeOK, TypeThreads
  <1> QED
    BY <1>1, <1>2, <1>3, <1>4, <1>5, <1>6, <1>7, <1>8, <1>9, <1>10, <1>11 DEF Step, Choose, Continue

\* n_free counts the free records, but for the calls that have yet to count.
LEMMA FreeCountStep ==
  ASSUME TypeOK, TypeOK', Users, FreeCount, NEW t \in Threads, Step(t)
  PROVE  FreeCount'
  <1> DEFINE R == Cardinality(Free)
             F == Cardinality(Taken)
             U == Cardinality(Offered)
  <1>a. /\ IsFiniteSet(Free) /\ IsFiniteSet(Taken) /\ IsFiniteSet(Offered)
        /\ R \in Nat /\ F \in Nat /\ U \in Nat /\ R + F < Mod /\ U < Mod
    <2>1. Free \in SUBSET Records /\ Taken \in SUBSET Threads /\ Offered \in SUBSET Threads
      BY DEF Free, Taken, Offered
    <2>2. IsFiniteSet(Free) /\ R \in Nat /\ R <= Cardinality(Records)
      BY <2>1, FewRecords
    <2>3. IsFiniteSet(Taken) /\ F \in Nat /\ F <= Cardinality(Threads)
      BY <2>1, FewThreads
    <2>4. IsFiniteSet(Offered) /\ U \in Nat /\ U <= Cardinality(Threads)
      BY <2>1, FewThreads
    <2> HIDE DEF R, F, U
    <2> QED
      BY <2>2, <2>3, <2>4, Fits, Width
  <1>b. R' \in Nat /\ F' \in Nat /\ U' \in Nat /\ R' + F' < Mod /\ U' < Mod
    <2>1. Free' \in SUBSET Records /\ Taken' \in SUBSET Threads /\ Offered' \in SUBSET Threads
      BY DEF Free, Taken, Offered
    <2>2. R' \in Nat /\ R' <= Cardinality(Records)
      BY <2>1, FewRecords
    <2>3. F' \in Nat /\ F' <= Cardinality(Threads)
      BY <2>1, FewThreads
    <2>4. U' \in Nat /\ U' <= Cardinality(Threads)
      BY <2>1, FewThreads
    <2>5. \A a, b, c, d, e \in Nat : a <= e /\ b <= d /\ c <= d /\ d + e < Mod => a + b < Mod /\ c < Mod
      BY Width
    <2> QED
      BY <2>2, <2>3, <2>4, <2>5, Fits
  <1>c. n_free = (IF R + F - U < 0 THEN R + F - U + Mod ELSE R + F - U) /\ n_free \in Counter
    BY DEF FreeCount, Wrapped, TypeOK, TypeGlobal
  <1>d. \A u \in Threads \ {t} : pc'[u] = pc[u]
    BY StepEffect DEF Effect, Same
  <1>e. SUFFICES n_free' = IF R' + F' - U' < 0 THEN R' + F' - U' + Mod ELSE R' + F' - U'
    BY DEF FreeCount, Wrapped
  <1>1. CASE Uncounted(t)
    <2>1. Free' = Free /\ Taken' = Taken /\ Offered' = Offered
      BY <1>1, <1>d DEF Uncounted, Free, Taken, Offered
    <2> QED
      BY <1>1, <1>c, <2>1 DEF Uncounted
  <1>2. CASE Register(t)
    <2>1. n_free' = n_free /\ pc' = pc
      BY <1>2 DEF Register
    <2>2. Taken' = Taken /\ Offered' = Offered
      BY <2>1 DEF Taken, Offered
    <2>3. PICK r \in Records : (\A i \in DOMAIN records : records[i] # r) /\ state' = [state EXCEPT ![r] = "used"]
      BY <1>2 DEF Register
    <2>4. Free' = Free
      BY <2>3 DEF Free, Listed, Users, Directory, TypeOK, TypeRecords
    <2> QED
      BY <1>c, <2>1, <2>2, <2>4
  <1>3. CASE Unregister(t)
    <2>1. rec[t] \in Records /\ state[rec[t]] = "used" /\ state' = [state EXCEPT ![rec[t]] = "free"]
          /\ n_free' = n_free /\ pc[t] = "idle" /\ pc'[t] = "u_inc"
      BY <1>3 DEF Unregister, Users, Directory, TypeOK, TypeClient, TypeThreads
    <2>2. Free' = Free \cup {rec[t]} /\ rec[t] \notin Free
      BY <2>1 DEF Free, TypeOK, TypeRecords
    <2>3. Offered' = Offered \cup {t} /\ t \notin Offered /\ Taken' = Taken
      BY <1>d, <2>1 DEF Offered, Taken
    <2>4. R' = R + 1 /\ U' = U + 1 /\ F' = F
      BY <1>a, <2>2, <2>3, AddMember
    <2> HIDE DEF R, F, U
    <2> QED
      BY <1>a, <1>b, <1>c, <2>1, <2>4
  <1>4. CASE UnregisterCount(t)
    <2>1. n_free' = Add(n_free, 1) /\ state' = state /\ pc[t] = "u_inc" /\ pc'[t] = "idle"
      BY <1>4 DEF UnregisterCount, TypeOK, TypeThreads
    <2>2. Offered' = Offered \ {t} /\ t \in Offered /\ Taken' = Taken /\ Free' = Free
      BY <1>d, <2>1 DEF Offered, Taken, Free
    <2>3. U' = U - 1 /\ F' = F /\ R' = R
      BY <1>a, <2>2, RemoveMember
    <2>4. n_free' = IF n_free + 1 = Mod THEN 0 ELSE n_free + 1
      BY <1>c, <2>1, AddOne
    <2> HIDE DEF R, F, U
    <2> QED
      BY <1>a, <1>b, <1>c, <2>3, <2>4, Width DEF Counter
  <1>5. CASE RecycleSwap(t) /\ state[cursor[t]] = "free"
    <2>1. cursor[t] \in Records /\ state[cursor[t]] = "free" /\ state' = [state EXCEPT ![cursor[t]] = "used"]
          /\ n_free' = n_free /\ pc[t] = "f_swap" /\ pc'[t] = "f_dec"
      BY <1>5, ListType DEF RecycleSwap, Users, Place, Searching, TypeOK, TypeThreads
    <2>2. Free' = Free \ {cursor[t]} /\ cursor[t] \in Free
      BY <2>1 DEF Free, TypeOK, TypeRecords
    <2>3. Taken' = Taken \cup {t} /\ t \notin Taken /\ Offered' = Offered
      BY <1>d, <2>1 DEF Offered, Taken
    <2>4. R' = R - 1 /\ F' = F + 1 /\ U' = U
      BY <1>a, <2>2, <2>3, AddMember, RemoveMember
    <2> HIDE DEF R, F, U
    <2> QED
      BY <1>a, <1>b, <1>c, <2>1, <2>4
  <1>6. CASE RecycleCount(t)
    <2>1. n_free' = Sub(n_free, 1) /\ state' = state /\ pc[t] = "f_dec" /\ pc'[t] = "idle"
      BY <1>6 DEF RecycleCount, TypeOK, TypeThreads
    <2>2. Taken' = Taken \ {t} /\ t \in Taken /\ Offered' = Offered /\ Free' = Free
      BY <1>d, <2>1 DEF Offered, Taken, Free
    <2>3. F' = F - 1 /\ U' = U /\ R' = R
      BY <1>a, <2>2, RemoveMember
    <2>4. n_free' = IF n_free = 0 THEN Mod - 1 ELSE n_free - 1
      BY <1>c, <2>1, SubOne
    <2> HIDE DEF R, F, U
    <2> QED
      BY <1>a, <1>b, <1>c, <2>3, <2>4, Width DEF Counter
  <1> QED
    BY <1>1, <1>2, <1>3, <1>4, <1>5, <1>6, Counting


\* Where a thread may be in its call with respect to its record.
LEMMA PlaceStep ==
  ASSUME TypeOK, TypeOK', Users, FreeCount, NEW t \in Threads, Step(t)
  PROVE  Place(t)'
  <1>a. TypeOK /\ Place(t) /\ Listed \subseteq Listed' /\ (rec[t] # NULL => rec[t] \in Listed)
    BY DirectoryStep DEF Users, Directory
  <1>b. rec[t] # NULL => Newest \in Listed
    BY <1>a, NewestFacts DEF TypeOK, TypeGlobal
  <1>c. cursor[t] \in Listed => After(cursor[t]) \in Listed \cup {NULL}
    BY AfterFacts DEF Users, Directory, TypeOK, TypeGlobal
  <1>d. NULL \notin Records
    BY EpochAssumption
  <1>e. n_free # 0 => Listed # {}
    BY CountedListed

  <1>1. ASSUME NEW h \in Handles, Begin(t, h) PROVE Place(t)'
    BY <1>1, <1>a DEF Begin, Place, TypeOK, TypeClient, TypeThreads, Scanning, Searching
  <1>2. ASSUME NEW h \in Handles, End(t, h) PROVE Place(t)'
    BY <1>2, <1>a DEF End, Place, TypeOK, TypeClient, TypeThreads, Scanning, Searching
  <1>3. ASSUME NEW h \in Handles, NEW o \in Objects, Dereference(t, h, o) PROVE Place(t)'
    BY <1>3, <1>a DEF Dereference, Place, TypeOK, TypeClient, TypeThreads, Scanning, Searching
  <1>4. ASSUME Observe(t) PROVE Place(t)'
    BY <1>4, <1>a DEF Observe, Place, TypeOK, TypeClient, TypeThreads, Scanning, Searching
  <1>5. ASSUME Synchronize(t) PROVE Place(t)'
    BY <1>5, <1>a, <1>b DEF Synchronize, Place, TypeOK, TypeClient, TypeThreads, Scanning, Searching
  <1>6. ASSUME Poll(t) PROVE Place(t)'
    BY <1>6, <1>a, <1>b DEF Poll, Place, TypeOK, TypeClient, TypeThreads, Scanning, Searching
  <1>7. ASSUME Register(t) PROVE Place(t)'
    BY <1>7, <1>a DEF Register, Place, TypeOK, TypeClient, TypeThreads, Scanning, Searching
  <1>8. ASSUME Unregister(t) PROVE Place(t)'
    BY <1>8, <1>a DEF Unregister, Place, TypeOK, TypeClient, TypeThreads, Scanning, Searching
  <1>9. ASSUME Recycle(t) PROVE Place(t)'
    <2>1. Listed # {}
      BY <1>9, <1>e DEF Recycle
    <2>2. Newest \in Listed
      BY <2>1, NewestFacts DEF TypeOK, TypeGlobal
    <2> QED
      BY <1>9, <1>a, <2>2 DEF Recycle, Place, TypeOK, TypeClient, TypeThreads, Scanning, Searching
  <1>10. ASSUME NEW o \in Objects, Unlink(t, o) PROVE Place(t)'
    BY <1>10, <1>a DEF Unlink, Place, TypeOK, TypeClient, TypeThreads, Scanning, Searching
  <1>11. ASSUME NEW o \in Objects, CallEarly(t, o) PROVE Place(t)'
    BY <1>11, <1>a DEF CallEarly, Place, TypeOK, TypeClient, TypeThreads, Scanning, Searching
  <1>12. ASSUME NEW r \in Records, NEW o \in Objects, Call(t, r, o) PROVE Place(t)'
    <2>1. r \in Listed
      BY <1>12, <1>d DEF Call, Users, Directory
    <2> QED
      BY <1>12, <1>a, <2>1 DEF Call, Place, TypeOK, TypeClient, TypeThreads, Scanning, Searching
  <1>13. ASSUME BeginLoad(t) PROVE Place(t)'
    BY <1>13, <1>a DEF BeginLoad, Place, TypeOK, TypeClient, TypeThreads, Scanning, Searching
  <1>14. ASSUME BeginStore(t) PROVE Place(t)'
    BY <1>14, <1>a DEF BeginStore, Place, TypeOK, TypeClient, TypeThreads, Scanning, Searching
  <1>15. ASSUME Addref(t) PROVE Place(t)'
    BY <1>15, <1>a DEF Addref, Place, TypeOK, TypeClient, TypeThreads, Scanning, Searching
  <1>16. ASSUME Delref(t) PROVE Place(t)'
    BY <1>16, <1>a DEF Delref, Place, TypeOK, TypeClient, TypeThreads, Scanning, Searching
  <1>17. ASSUME ObserveStore(t) PROVE Place(t)'
    BY <1>17, <1>a DEF ObserveStore, Place, TypeOK, TypeClient, TypeThreads, Scanning, Searching
  <1>18. ASSUME CallUnlink(t) PROVE Place(t)'
    BY <1>18, <1>a DEF CallUnlink, Place, TypeOK, TypeClient, TypeThreads, Scanning, Searching
  <1>19. ASSUME CallPush(t) PROVE Place(t)'
    BY <1>19, <1>a DEF CallPush, Place, TypeOK, TypeClient, TypeThreads, Scanning, Searching
  <1>20. ASSUME ScanState(t) PROVE Place(t)'
    BY <1>20, <1>a, <1>c DEF ScanState, Place, TypeOK, TypeClient, TypeThreads, Scanning, Searching
  <1>21. ASSUME ScanActive(t) PROVE Place(t)'
    BY <1>21, <1>a, <1>c DEF ScanActive, Place, TypeOK, TypeClient, TypeThreads, Scanning, Searching
  <1>22. ASSUME ScanEpoch(t) PROVE Place(t)'
    BY <1>22, <1>a, <1>c DEF ScanEpoch, Place, TypeOK, TypeClient, TypeThreads, Scanning, Searching
  <1>23. ASSUME SyncBlocked(t) PROVE Place(t)'
    BY <1>23, <1>a, <1>b DEF SyncBlocked, Place, TypeOK, TypeClient, TypeThreads, Scanning,
       Searching
  <1>24. ASSUME SyncDone(t) PROVE Place(t)'
    BY <1>24, <1>a, <1>b DEF SyncDone, Place, TypeOK, TypeClient, TypeThreads, Scanning, Searching
  <1>25. ASSUME ReclaimSlot(t) PROVE Place(t)'
    BY <1>25, <1>a DEF ReclaimSlot, Place, TypeOK, TypeClient, TypeThreads, Scanning, Searching
  <1>26. ASSUME PollBlocked(t) PROVE Place(t)'
    BY <1>26, <1>a DEF PollBlocked, Place, TypeOK, TypeClient, TypeThreads, Scanning, Searching
  <1>27. ASSUME PollDone(t) PROVE Place(t)'
    BY <1>27, <1>a DEF PollDone, Place, TypeOK, TypeClient, TypeThreads, Scanning, Searching
  <1>28. ASSUME PollSlot(t) PROVE Place(t)'
    BY <1>28, <1>a DEF PollSlot, Place, TypeOK, TypeClient, TypeThreads, Scanning, Searching
  <1>29. ASSUME UnregisterCount(t) PROVE Place(t)'
    BY <1>29, <1>a DEF UnregisterCount, Place, TypeOK, TypeClient, TypeThreads, Scanning, Searching
  <1>30. ASSUME RecycleState(t) PROVE Place(t)'
    BY <1>30, <1>a, <1>c DEF RecycleState, Place, TypeOK, TypeClient, TypeThreads, Scanning,
       Searching
  <1>31. ASSUME RecycleSwap(t) PROVE Place(t)'
    <2>1. cursor[t] \in Listed /\ cursor[t] # NULL /\ rec[t] = NULL
      BY <1>31, <1>d, ListType DEF RecycleSwap, Users, Place, Searching
    <2>2. CASE state[cursor[t]] = "free"
      BY <1>31, <1>a, <2>1, <2>2 DEF RecycleSwap, Place, TypeOK, TypeClient, TypeThreads, Scanning,
         Searching
    <2>3. CASE state[cursor[t]] # "free"
      BY <1>31, <1>a, <1>c, <2>1, <2>3 DEF RecycleSwap, Place, TypeOK, TypeClient, TypeThreads,
         Scanning, Searching
    <2> QED
      BY <2>2, <2>3
  <1>32. ASSUME RecycleCount(t) PROVE Place(t)'
    BY <1>32, <1>a DEF RecycleCount, Place, TypeOK, TypeClient, TypeThreads, Scanning, Searching
  <1> QED
    BY <1>1, <1>2, <1>3, <1>4, <1>5, <1>6, <1>7, <1>8, <1>9, <1>10, <1>11, <1>12, <1>13, <1>14,
       <1>15, <1>16, <1>17, <1>18, <1>19, <1>20, <1>21, <1>22, <1>23, <1>24, <1>25, <1>26, <1>27,
       <1>28, <1>29, <1>30, <1>31, <1>32 DEF Step, Choose, Continue

-----------------------------------------------------------------------------
(* Ticks. *)

Starting(t) == ticks' = ticks /\ ticks < MaxTicks
Silent(t) ==
  /\ ticks' = ticks
  /\ pc'[t] \in Scanning => pc[t] \in Scanning /\ op'[t] = op[t] /\ (iter'[t] = 0 => iter[t] = 0)
Ticking(t) ==
  /\ ticks' = ticks + 1 /\ pc[t] \in Scanning
  /\ \/ pc'[t] \notin Scanning
     \/ op[t] # "poll" /\ iter[t] = 0 /\ iter'[t] = 1 /\ op'[t] = op[t]

\* A thread starts a grace period, goes on with it, or ticks the epoch.
LEMMA Rounds ==
  ASSUME TypeOK, Users, NEW t \in Threads, Round(t), Step(t)
  PROVE  Round(t)' /\ (Starting(t) \/ Silent(t) \/ Ticking(t))
  <1>a. Place(t)
    BY DEF Users

  <1>1. ASSUME NEW h \in Handles, Begin(t, h)
        PROVE Round(t)' /\ (Starting(t) \/ Silent(t) \/ Ticking(t))
    BY <1>1, <1>a DEF Begin, Round, Starting, Silent, Ticking, Scanning, Place, Searching, TypeOK,
       TypeThreads
  <1>2. ASSUME NEW h \in Handles, End(t, h)
        PROVE Round(t)' /\ (Starting(t) \/ Silent(t) \/ Ticking(t))
    BY <1>2, <1>a DEF End, Round, Starting, Silent, Ticking, Scanning, Place, Searching, TypeOK,
       TypeThreads
  <1>3. ASSUME NEW h \in Handles, NEW o \in Objects, Dereference(t, h, o)
        PROVE Round(t)' /\ (Starting(t) \/ Silent(t) \/ Ticking(t))
    BY <1>3, <1>a DEF Dereference, Round, Starting, Silent, Ticking, Scanning, Place, Searching,
       TypeOK, TypeThreads
  <1>4. ASSUME Observe(t) PROVE Round(t)' /\ (Starting(t) \/ Silent(t) \/ Ticking(t))
    BY <1>4, <1>a DEF Observe, Round, Starting, Silent, Ticking, Scanning, Place, Searching, TypeOK,
       TypeThreads
  <1>5. ASSUME Synchronize(t) PROVE Round(t)' /\ (Starting(t) \/ Silent(t) \/ Ticking(t))
    BY <1>5, <1>a DEF Synchronize, Round, Starting, Silent, Ticking, Scanning, Place, Searching,
       TypeOK, TypeThreads
  <1>6. ASSUME Poll(t) PROVE Round(t)' /\ (Starting(t) \/ Silent(t) \/ Ticking(t))
    BY <1>6, <1>a DEF Poll, Round, Starting, Silent, Ticking, Scanning, Place, Searching, TypeOK,
       TypeThreads
  <1>7. ASSUME Register(t) PROVE Round(t)' /\ (Starting(t) \/ Silent(t) \/ Ticking(t))
    BY <1>7, <1>a
       DEF Register, Round, Starting, Silent, Ticking, Scanning, Place, Searching, TypeOK,
       TypeThreads
  <1>8. ASSUME Unregister(t) PROVE Round(t)' /\ (Starting(t) \/ Silent(t) \/ Ticking(t))
    BY <1>8, <1>a DEF Unregister, Round, Starting, Silent, Ticking, Scanning, Place, Searching,
       TypeOK, TypeThreads
  <1>9. ASSUME Recycle(t) PROVE Round(t)' /\ (Starting(t) \/ Silent(t) \/ Ticking(t))
    BY <1>9, <1>a DEF Recycle, Round, Starting, Silent, Ticking, Scanning, Place, Searching, TypeOK,
       TypeThreads
  <1>10. ASSUME NEW o \in Objects, Unlink(t, o)
         PROVE Round(t)' /\ (Starting(t) \/ Silent(t) \/ Ticking(t))
    BY <1>10, <1>a DEF Unlink, Round, Starting, Silent, Ticking, Scanning, Place, Searching, TypeOK,
       TypeThreads
  <1>11. ASSUME NEW o \in Objects, CallEarly(t, o)
         PROVE Round(t)' /\ (Starting(t) \/ Silent(t) \/ Ticking(t))
    BY <1>11, <1>a DEF CallEarly, Round, Starting, Silent, Ticking, Scanning, Place, Searching,
       TypeOK, TypeThreads
  <1>12. ASSUME NEW r \in Records, NEW o \in Objects, Call(t, r, o)
         PROVE Round(t)' /\ (Starting(t) \/ Silent(t) \/ Ticking(t))
    BY <1>12, <1>a DEF Call, Round, Starting, Silent, Ticking, Scanning, Place, Searching, TypeOK,
       TypeThreads
  <1>13. ASSUME BeginLoad(t) PROVE Round(t)' /\ (Starting(t) \/ Silent(t) \/ Ticking(t))
    BY <1>13, <1>a DEF BeginLoad, Round, Starting, Silent, Ticking, Scanning, Place, Searching,
       TypeOK, TypeThreads
  <1>14. ASSUME BeginStore(t) PROVE Round(t)' /\ (Starting(t) \/ Silent(t) \/ Ticking(t))
    BY <1>14, <1>a DEF BeginStore, Round, Starting, Silent, Ticking, Scanning, Place, Searching,
       TypeOK, TypeThreads
  <1>15. ASSUME Addref(t) PROVE Round(t)' /\ (Starting(t) \/ Silent(t) \/ Ticking(t))
    BY <1>15, <1>a DEF Addref, Round, Starting, Silent, Ticking, Scanning, Place, Searching, TypeOK,
       TypeThreads
  <1>16. ASSUME Delref(t) PROVE Round(t)' /\ (Starting(t) \/ Silent(t) \/ Ticking(t))
    BY <1>16, <1>a DEF Delref, Round, Starting, Silent, Ticking, Scanning, Place, Searching, TypeOK,
       TypeThreads
  <1>17. ASSUME ObserveStore(t) PROVE Round(t)' /\ (Starting(t) \/ Silent(t) \/ Ticking(t))
    BY <1>17, <1>a DEF ObserveStore, Round, Starting, Silent, Ticking, Scanning, Place, Searching,
       TypeOK, TypeThreads
  <1>18. ASSUME CallUnlink(t) PROVE Round(t)' /\ (Starting(t) \/ Silent(t) \/ Ticking(t))
    BY <1>18, <1>a DEF CallUnlink, Round, Starting, Silent, Ticking, Scanning, Place, Searching,
       TypeOK, TypeThreads
  <1>19. ASSUME CallPush(t) PROVE Round(t)' /\ (Starting(t) \/ Silent(t) \/ Ticking(t))
    BY <1>19, <1>a DEF CallPush, Round, Starting, Silent, Ticking, Scanning, Place, Searching,
       TypeOK, TypeThreads
  <1>20. ASSUME ScanState(t) PROVE Round(t)' /\ (Starting(t) \/ Silent(t) \/ Ticking(t))
    BY <1>20, <1>a DEF ScanState, Round, Starting, Silent, Ticking, Scanning, Place, Searching,
       TypeOK, TypeThreads
  <1>21. ASSUME ScanActive(t) PROVE Round(t)' /\ (Starting(t) \/ Silent(t) \/ Ticking(t))
    BY <1>21, <1>a DEF ScanActive, Round, Starting, Silent, Ticking, Scanning, Place, Searching,
       TypeOK, TypeThreads
  <1>22. ASSUME ScanEpoch(t) PROVE Round(t)' /\ (Starting(t) \/ Silent(t) \/ Ticking(t))
    BY <1>22, <1>a DEF ScanEpoch, Round, Starting, Silent, Ticking, Scanning, Place, Searching,
       TypeOK, TypeThreads
  <1>23. ASSUME SyncBlocked(t) PROVE Round(t)' /\ (Starting(t) \/ Silent(t) \/ Ticking(t))
    BY <1>23, <1>a DEF SyncBlocked, Round, Starting, Silent, Ticking, Scanning, Place, Searching,
       TypeOK, TypeThreads
  <1>24. ASSUME SyncDone(t) PROVE Round(t)' /\ (Starting(t) \/ Silent(t) \/ Ticking(t))
    BY <1>24, <1>a DEF SyncDone, Round, Starting, Silent, Ticking, Scanning, Place, Searching,
       TypeOK, TypeThreads
  <1>25. ASSUME ReclaimSlot(t) PROVE Round(t)' /\ (Starting(t) \/ Silent(t) \/ Ticking(t))
    BY <1>25, <1>a DEF ReclaimSlot, Round, Starting, Silent, Ticking, Scanning, Place, Searching,
       TypeOK, TypeThreads
  <1>26. ASSUME PollBlocked(t) PROVE Round(t)' /\ (Starting(t) \/ Silent(t) \/ Ticking(t))
    BY <1>26, <1>a DEF PollBlocked, Round, Starting, Silent, Ticking, Scanning, Place, Searching,
       TypeOK, TypeThreads
  <1>27. ASSUME PollDone(t) PROVE Round(t)' /\ (Starting(t) \/ Silent(t) \/ Ticking(t))
    BY <1>27, <1>a DEF PollDone, Round, Starting, Silent, Ticking, Scanning, Place, Searching,
       TypeOK, TypeThreads
  <1>28. ASSUME PollSlot(t) PROVE Round(t)' /\ (Starting(t) \/ Silent(t) \/ Ticking(t))
    BY <1>28, <1>a DEF PollSlot, Round, Starting, Silent, Ticking, Scanning, Place, Searching,
       TypeOK, TypeThreads
  <1>29. ASSUME UnregisterCount(t) PROVE Round(t)' /\ (Starting(t) \/ Silent(t) \/ Ticking(t))
    BY <1>29, <1>a
       DEF UnregisterCount, Round, Starting, Silent, Ticking, Scanning, Place, Searching,
       TypeOK, TypeThreads
  <1>30. ASSUME RecycleState(t) PROVE Round(t)' /\ (Starting(t) \/ Silent(t) \/ Ticking(t))
    BY <1>30, <1>a DEF RecycleState, Round, Starting, Silent, Ticking, Scanning, Place, Searching,
       TypeOK, TypeThreads
  <1>31. ASSUME RecycleSwap(t) PROVE Round(t)' /\ (Starting(t) \/ Silent(t) \/ Ticking(t))
    BY <1>31, <1>a DEF RecycleSwap, Round, Starting, Silent, Ticking, Scanning, Place, Searching,
       TypeOK, TypeThreads
  <1>32. ASSUME RecycleCount(t) PROVE Round(t)' /\ (Starting(t) \/ Silent(t) \/ Ticking(t))
    BY <1>32, <1>a DEF RecycleCount, Round, Starting, Silent, Ticking, Scanning, Place, Searching,
       TypeOK, TypeThreads
  <1> QED
    BY <1>1, <1>2, <1>3, <1>4, <1>5, <1>6, <1>7, <1>8, <1>9, <1>10, <1>11, <1>12, <1>13, <1>14,
       <1>15, <1>16, <1>17, <1>18, <1>19, <1>20, <1>21, <1>22, <1>23, <1>24, <1>25, <1>26, <1>27,
       <1>28, <1>29, <1>30, <1>31, <1>32 DEF Step, Choose, Continue

\* The ticks there have been and those that may still come stay within Span.
LEMMA TickBoundStep ==
  ASSUME TypeOK, TypeOK', Users, TickBound, NEW t \in Threads, Step(t)
  PROVE  TickBound'
  <1>a. \A u \in Threads \ {t} : pc'[u] = pc[u] /\ op'[u] = op[u] /\ iter'[u] = iter[u]
    BY StepEffect DEF Effect, Same
  <1>b. \A u \in Threads : Round(u)'
    <2>1. Round(t)'
      BY Rounds DEF TickBound
    <2>2. \A u \in Threads \ {t} : Round(u)'
      BY <1>a DEF Round, TickBound
    <2> QED
      BY <2>1, <2>2
  <1> DEFINE m == Cardinality(MayTick)
             n == Cardinality(MayTickTwice)
             mm == Cardinality(MayTick')
             nn == Cardinality(MayTickTwice')
             N == Cardinality(Threads)
  <1>c. /\ IsFiniteSet(MayTick) /\ IsFiniteSet(MayTickTwice) /\ m \in Nat /\ n \in Nat
        /\ MayTick' \in SUBSET Threads /\ MayTickTwice' \in SUBSET Threads
    <2>1. MayTick \in SUBSET Threads /\ MayTickTwice \in SUBSET Threads
          /\ MayTick' \in SUBSET Threads /\ MayTickTwice' \in SUBSET Threads
      BY DEF MayTick, MayTickTwice
    <2> QED
      BY <2>1, FewThreads
  <1>d. IsFiniteSet(MayTick') /\ IsFiniteSet(MayTickTwice')
        /\ mm \in Nat /\ nn \in Nat /\ mm <= N /\ nn <= N /\ N \in Nat
    BY <1>c, FewThreads
  <1>e. ticks \in Nat /\ ticks + m + n <= Span /\ Span \in Nat /\ Span < Mod
        /\ Span = MaxTicks - 1 + 2 * N /\ MaxTicks \in Nat
    BY EpochAssumption DEF TickBound, Span, TypeOK, TypeGlobal
  <1>f. SUFFICES ticks' + mm + nn <= Span
    BY <1>b, <1>e DEF TickBound
  <1>1. CASE Starting(t)
    <2> HIDE DEF m, n, mm, nn, N
    <2> QED
      BY <1>1, <1>d, <1>e DEF Starting
  <1>2. CASE Silent(t)
    <2>1. MayTick' \subseteq MayTick
      BY <1>a, <1>2 DEF Silent, MayTick
    <2>2. MayTickTwice' \subseteq MayTickTwice
      BY <1>a, <1>2 DEF Silent, MayTick, MayTickTwice
    <2>3. mm <= m /\ nn <= n
      BY <1>c, <2>1, <2>2, FS_Subset
    <2> HIDE DEF m, n, mm, nn, N
    <2> QED
      BY <1>2, <1>c, <1>d, <1>e, <2>3 DEF Silent
  <1>3. CASE Ticking(t) /\ pc'[t] \notin Scanning
    <2>1. MayTick' = MayTick \ {t} /\ t \in MayTick
      BY <1>a, <1>3 DEF Ticking, MayTick
    <2>2. MayTickTwice' \subseteq MayTickTwice
      BY <1>a, <1>3 DEF Ticking, MayTick, MayTickTwice
    <2>3. mm = m - 1 /\ nn <= n
      BY <1>c, <2>1, <2>2, FS_Subset, RemoveMember
    <2> HIDE DEF m, n, mm, nn, N
    <2> QED
      BY <1>3, <1>c, <1>d, <1>e, <2>3 DEF Ticking
  <1>4. CASE Ticking(t) /\ pc'[t] \in Scanning
    <2>1. MayTick' = MayTick
      BY <1>a, <1>4 DEF Ticking, MayTick
    <2>2. MayTickTwice' = MayTickTwice \ {t} /\ t \in MayTickTwice
      BY <1>a, <1>4 DEF Ticking, MayTick, MayTickTwice
    <2>3. mm = m /\ nn = n - 1
      BY <1>c, <2>1, <2>2, RemoveMember
    <2> HIDE DEF m, n, mm, nn, N
    <2> QED
      BY <1>4, <1>c, <1>d, <1>e, <2>3 DEF Ticking
  <1> QED
    BY <1>1, <1>2, <1>3, <1>4, Rounds DEF TickBound

\* While a thread scans, there is room for another tick.
LEMMA RoomToTick ==
  ASSUME TypeOK, TickBound, NEW t \in Threads, pc[t] \in Scanning
  PROVE  ticks + 1 <= Span
  <1>1. MayTick \in SUBSET Threads /\ MayTickTwice \in SUBSET Threads /\ t \in MayTick
    BY DEF MayTick, MayTickTwice
  <1>2. IsFiniteSet(MayTick) /\ Cardinality(MayTick) \in Nat /\ Cardinality(MayTickTwice) \in Nat
    BY <1>1, FewThreads
  <1>3. Cardinality(MayTick) # 0
    BY <1>1, <1>2, FS_EmptySet
  <1> QED
    BY <1>2, <1>3 DEF TickBound, TypeOK, TypeGlobal


-----------------------------------------------------------------------------
(* Ages. *)

\* How old an observation may be when a behaviour starts.
LEMMA LeadType == ASSUME TickBound PROVE Lead \in Nat /\ Lead = Mod - 1 - Span /\ Span \in Nat
  BY Width DEF Lead, TickBound

\* Observations age with the ticks; they never seem to be renewed.
LEMMA AgeStep ==
  ASSUME TypeOK, TickBound, NEW t \in Threads, Effect(t), NEW v \in Counter, Age(v) <= ticks + Lead
  PROVE  /\ Age(v) \in Nat /\ Then(v) \in Nat
         /\ ticks \in Nat /\ ticks' \in Nat /\ (ticks' = ticks \/ ticks' = ticks + 1)
         /\ Then(v) = Age(v) + (ticks' - ticks) /\ Then(v) <= ticks' + Lead
  <1>1. epoch \in Counter /\ ticks \in Nat /\ Age(v) \in Nat /\ Lead \in Nat
    BY AgeType, LeadType DEF TypeOK, TypeGlobal
  <1>2. CASE UNCHANGED <<epoch, ticks>>
    <2>1. Then(v) = Age(v)
      BY <1>2 DEF Then, Age
    <2> QED
      BY <1>1, <1>2, <2>1
  <1>3. CASE Tick(t)
    <2>1. epoch' = Add(epoch, 1) /\ ticks' = ticks + 1 /\ pc[t] \in Scanning
      BY <1>3 DEF Tick, Scanning
    <2>2. ticks + 1 <= Span
      BY <2>1, RoomToTick
    <2>3. Age(v) + 1 < Mod
      BY <1>1, <2>2, LeadType, Width
    <2>4. Then(v) = Age(v) + 1
      BY <1>1, <2>1, <2>3, AgeTick
    <2> QED
      BY <1>1, <2>1, <2>4
  <1> QED
    BY <1>2, <1>3 DEF Effect

\* The records of other threads are left alone.
LEMMA OthersRecord ==
  ASSUME TypeOK, Users, Directory', NEW t \in Threads, Effect(t),
         NEW u \in Threads, u # t
  PROVE  /\ Same(u)
         /\ rec[u] # NULL =>
              /\ rec[u] \in Records
              /\ state'[rec[u]] = state[rec[u]] /\ active'[rec[u]] = active[rec[u]]
              /\ repoch'[rec[u]] = repoch[rec[u]] /\ bucket'[rec[u]] = bucket[rec[u]]
  <1>1. Same(u)
    BY DEF Effect
  <1>2. ASSUME rec[u] # NULL PROVE rec[u] \in Records \ {rec[t], rec'[t]}
    <2>1. rec[u] \in Records /\ rec'[u] = rec[u]
      BY <1>1, <1>2 DEF TypeOK, TypeClient, Same
    <2>2. rec[u] # rec[t]
      BY <1>2 DEF Users, Directory
    <2>3. rec'[u] # rec'[t]
      BY <1>2, <2>1 DEF Directory
    <2> QED
      BY <2>1, <2>2, <2>3
  <1> QED
    BY <1>1, <1>2 DEF Effect

\* The epoch has age 0.
LEMMA NowIsNew ==
  ASSUME TypeOK
  PROVE  Age(epoch) = 0 /\ epoch \in Counter
  BY AgeType DEF TypeOK, TypeGlobal

\* Where records are registered, the epoch does not wrap around.
LEMMA NoWrap ==
  ASSUME TypeOK, TickBound, Horizon, NEW t \in Threads, Effect(t), NEW u \in Threads
  PROVE  may'[u] \cap {"register", "unregister"} # {} => epoch' <= ticks' + Lead
  <1>1. may' = may /\ Recent(u) /\ Lead \in Nat /\ ticks \in Nat /\ epoch \in Counter
    BY LeadType DEF Effect, Horizon, TypeOK, TypeGlobal
  <1>2. CASE UNCHANGED <<epoch, ticks>>
    BY <1>1, <1>2 DEF Recent
  <1>3. CASE Tick(t)
    <2>1. epoch' = (IF epoch + 1 = Mod THEN 0 ELSE epoch + 1) /\ ticks' = ticks + 1
      BY <1>1, <1>3, AddOne DEF Tick
    <2> QED
      BY <1>1, <2>1, Width DEF Recent, Counter
  <1> QED
    BY <1>2, <1>3 DEF Effect

\* What the other threads remember of the epoch ages by at most this tick.
LEMMA RecentOthers ==
  ASSUME TypeOK, TickBound, Horizon, NEW t \in Threads, Effect(t), NEW u \in Threads, u # t
  PROVE  Recent(u)'
  <1>1. Same(u) /\ may' = may /\ snap[u] \in Counter /\ first[u] \in Counter
    BY DEF Effect, TypeOK, TypeThreads
  <1>2. Recent(u) /\ Lead \in Nat /\ ticks \in Nat /\ epoch \in Counter
    BY LeadType DEF Horizon, TypeOK, TypeGlobal
  <1>3. ASSUME NEW v \in Counter
        PROVE  Age(v) \in Nat /\ (Age(v) <= ticks => Then(v) \in Nat /\ Then(v) = Age(v) + (ticks' - ticks))
    <2>1. Age(v) \in Nat
      BY <1>2, AgeType
    <2>2. Age(v) <= ticks => Age(v) <= ticks + Lead
      BY <1>2, <2>1
    <2> QED
      BY <2>1, <2>2, AgeStep
  <1>4. Age(epoch) = 0 /\ Age(epoch) <= ticks + Lead
    BY NowIsNew, <1>2
  <1>5. ticks' \in Nat /\ (ticks' = ticks \/ ticks' = ticks + 1)
    BY <1>2, <1>4, AgeStep
  <1>6. pc'[u] \in Observing => Then(snap'[u]) <= ticks'
    BY <1>1, <1>2, <1>3, <1>5 DEF Recent, Same
  <1>7. ASSUME pc'[u] \in Scanning, op'[u] # "poll"
        PROVE  /\ Then(snap'[u]) <= Then(first'[u]) /\ Then(first'[u]) <= ticks'
               /\ iter'[u] = 1 => Then(snap'[u]) < Then(first'[u])
    <2>1. Age(snap[u]) <= Age(first[u]) /\ Age(first[u]) <= ticks /\ Age(snap[u]) <= ticks
          /\ (iter[u] = 1 => Age(snap[u]) < Age(first[u]))
      BY <1>1, <1>2, <1>7 DEF Recent, Same, Observing
    <2>2. /\ Then(snap[u]) = Age(snap[u]) + (ticks' - ticks)
          /\ Then(first[u]) = Age(first[u]) + (ticks' - ticks)
          /\ Age(snap[u]) \in Nat /\ Age(first[u]) \in Nat
      BY <1>1, <1>3, <2>1
    <2> QED
      BY <1>1, <1>2, <1>5, <2>1, <2>2 DEF Same
  <1>8. pc'[u] = "d_slot" /\ op'[u] = "poll" => Then(snap'[u]) <= ticks'
    BY <1>1, <1>2, <1>3, <1>5 DEF Recent, Same
  <1>9. may'[u] \cap {"register", "unregister"} # {} => epoch' <= ticks' + Lead
    BY NoWrap
  <1> QED
    BY <1>6, <1>7, <1>8, <1>9 DEF Recent, Age, Then, Lead, Span


\* What the stepping thread remembers of the epoch is recent.
LEMMA RecentSelf ==
  ASSUME TypeOK, TypeOK', Users, TickBound, Horizon, NEW t \in Threads, Step(t)
  PROVE  Recent(t)'
  <1>a. Recent(t) /\ Place(t) /\ Round(t) /\ TypeThreads /\ ticks \in Nat
    BY DEF Users, TickBound, Horizon, TypeOK, TypeGlobal
  <1>b. Effect(t)
    BY StepEffect
  <1>c. may'[t] \cap {"register", "unregister"} # {} => epoch' <= ticks' + Lead
    BY <1>b, NoWrap
  <1>d. Age(epoch) = 0 /\ Age(snap[t]) \in Nat /\ Age(first[t]) \in Nat /\ (Age(snap[t]) = 0 => snap[t] = epoch)
    BY AgeType, NowIsNew DEF TypeOK, TypeThreads
  <1>e. Then(epoch') = 0
    BY SubIs DEF Then, TypeOK, TypeGlobal, Counter
  <1>f. SUFFICES
          /\ pc'[t] \in Observing => Then(snap'[t]) <= ticks'
          /\ pc'[t] \in Scanning /\ op'[t] # "poll" =>
               /\ Then(snap'[t]) <= Then(first'[t]) /\ Then(first'[t]) <= ticks'
               /\ iter'[t] = 1 => Then(snap'[t]) < Then(first'[t])
          /\ pc'[t] = "d_slot" /\ op'[t] = "poll" => Then(snap'[t]) <= ticks'
    BY <1>c DEF Recent, Age, Then, Lead, Span
  <1>g. epoch' = epoch /\ ticks' = ticks => \A v : Then(v) = Age(v)
    BY DEF Then, Age
  <1> DEFINE Goal ==
          /\ pc'[t] \in Observing => Then(snap'[t]) <= ticks'
          /\ pc'[t] \in Scanning /\ op'[t] # "poll" =>
               /\ Then(snap'[t]) <= Then(first'[t]) /\ Then(first'[t]) <= ticks'
               /\ iter'[t] = 1 => Then(snap'[t]) < Then(first'[t])
          /\ pc'[t] = "d_slot" /\ op'[t] = "poll" => Then(snap'[t]) <= ticks'

  <1>1. ASSUME NEW h \in Handles, Begin(t, h) PROVE Goal
    BY <1>1, <1>a, <1>d, <1>g DEF Begin, Recent, Place, Round, TypeThreads, Observing, Scanning
  <1>2. ASSUME NEW h \in Handles, End(t, h) PROVE Goal
    BY <1>2, <1>a, <1>d, <1>g DEF End, Recent, Place, Round, TypeThreads, Observing, Scanning
  <1>3. ASSUME NEW h \in Handles, NEW o \in Objects, Dereference(t, h, o) PROVE Goal
    BY <1>3, <1>a, <1>d, <1>g DEF Dereference, Recent, Place, Round, TypeThreads, Observing,
       Scanning
  <1>4. ASSUME Observe(t) PROVE Goal
    BY <1>4, <1>a, <1>d, <1>g DEF Observe, Recent, Place, Round, TypeThreads, Observing, Scanning
  <1>5. ASSUME Synchronize(t) PROVE Goal
    BY <1>5, <1>a, <1>d, <1>g DEF Synchronize, Recent, Place, Round, TypeThreads, Observing,
       Scanning
  <1>6. ASSUME Poll(t) PROVE Goal
    BY <1>6, <1>a, <1>d, <1>g DEF Poll, Recent, Place, Round, TypeThreads, Observing, Scanning
  <1>7. ASSUME Register(t) PROVE Goal
    BY <1>7, <1>a, <1>d, <1>g DEF Register, Recent, Place, Round, TypeThreads, Observing, Scanning
  <1>8. ASSUME Unregister(t) PROVE Goal
    BY <1>8, <1>a, <1>d, <1>g DEF Unregister, Recent, Place, Round, TypeThreads, Observing, Scanning
  <1>9. ASSUME Recycle(t) PROVE Goal
    BY <1>9, <1>a, <1>d, <1>g DEF Recycle, Recent, Place, Round, TypeThreads, Observing, Scanning
  <1>10. ASSUME NEW o \in Objects, Unlink(t, o) PROVE Goal
    BY <1>10, <1>a, <1>d, <1>g DEF Unlink, Recent, Place, Round, TypeThreads, Observing, Scanning
  <1>11. ASSUME NEW o \in Objects, CallEarly(t, o) PROVE Goal
    BY <1>11, <1>a, <1>d, <1>g DEF CallEarly, Recent, Place, Round, TypeThreads, Observing, Scanning
  <1>12. ASSUME NEW r \in Records, NEW o \in Objects, Call(t, r, o) PROVE Goal
    BY <1>12, <1>a, <1>d, <1>g DEF Call, Recent, Place, Round, TypeThreads, Observing, Scanning
  <1>13. ASSUME BeginLoad(t) PROVE Goal
    BY <1>13, <1>a, <1>d, <1>g DEF BeginLoad, Recent, Place, Round, TypeThreads, Observing, Scanning
  <1>14. ASSUME BeginStore(t) PROVE Goal
    BY <1>14, <1>a, <1>d, <1>g DEF BeginStore, Recent, Place, Round, TypeThreads, Observing,
       Scanning
  <1>15. ASSUME Addref(t) PROVE Goal
    BY <1>15, <1>a, <1>d, <1>g DEF Addref, Recent, Place, Round, TypeThreads, Observing, Scanning
  <1>16. ASSUME Delref(t) PROVE Goal
    BY <1>16, <1>a, <1>d, <1>g DEF Delref, Recent, Place, Round, TypeThreads, Observing, Scanning
  <1>17. ASSUME ObserveStore(t) PROVE Goal
    BY <1>17, <1>a, <1>d, <1>g DEF ObserveStore, Recent, Place, Round, TypeThreads, Observing,
       Scanning
  <1>18. ASSUME CallUnlink(t) PROVE Goal
    BY <1>18, <1>a, <1>d, <1>g DEF CallUnlink, Recent, Place, Round, TypeThreads, Observing,
       Scanning
  <1>19. ASSUME CallPush(t) PROVE Goal
    BY <1>19, <1>a, <1>d, <1>g DEF CallPush, Recent, Place, Round, TypeThreads, Observing, Scanning
  <1>20. ASSUME ScanState(t) PROVE Goal
    BY <1>20, <1>a, <1>d, <1>g DEF ScanState, Recent, Place, Round, TypeThreads, Observing, Scanning
  <1>21. ASSUME ScanActive(t) PROVE Goal
    BY <1>21, <1>a, <1>d, <1>g DEF ScanActive, Recent, Place, Round, TypeThreads, Observing,
       Scanning
  <1>22. ASSUME ScanEpoch(t) PROVE Goal
    BY <1>22, <1>a, <1>d, <1>g DEF ScanEpoch, Recent, Place, Round, TypeThreads, Observing, Scanning
  <1>23. ASSUME SyncBlocked(t) PROVE Goal
    BY <1>23, <1>a, <1>d, <1>g DEF SyncBlocked, Recent, Place, Round, TypeThreads, Observing,
       Scanning
  <1>24. ASSUME SyncDone(t) PROVE Goal
    <2>1. pc[t] = "s_done" /\ op[t] # "poll" /\ ~(op[t] = "none")
      BY <1>24, <1>a DEF SyncDone, Place, Scanning
    <2>2. CASE pc'[t] \in {"d_slot", "idle"} /\ op'[t] # "poll"
      BY <2>2 DEF Observing, Scanning
    <2>3. CASE /\ pc'[t] = "s_state" /\ op'[t] = op[t] /\ snap'[t] = epoch' /\ first'[t] = first[t]
               /\ epoch = snap[t] => Tick(t)
               /\ epoch # snap[t] => UNCHANGED <<epoch, ticks>>
      <3>1. Then(snap'[t]) = 0 /\ first[t] \in Counter /\ ticks' \in Nat
        BY <1>a, <1>e, <2>3 DEF TypeThreads, TypeOK, TypeGlobal
      <3>2. Age(snap[t]) <= Age(first[t]) /\ Age(first[t]) <= ticks
        BY <1>a, <2>1 DEF Recent, Scanning
      <3>3. Age(first[t]) <= ticks + Lead
        BY <1>a, <1>d, <3>2, LeadType
      <3>4. Then(first[t]) = Age(first[t]) + (ticks' - ticks) /\ Then(first[t]) \in Nat
        BY <1>b, <3>1, <3>3, AgeStep
      <3>5. Then(first[t]) > 0
        <4>1. CASE epoch = snap[t]
          BY <1>a, <1>d, <2>3, <3>4, <4>1 DEF Tick
        <4>2. CASE epoch # snap[t]
          BY <1>a, <1>d, <2>3, <3>2, <3>4, <4>2
        <4> QED
          BY <4>1, <4>2
      <3>6. Then(first[t]) <= ticks'
        BY <1>a, <1>d, <3>1, <3>2, <3>4
      <3> QED
        BY <2>3, <3>1, <3>4, <3>5, <3>6
    <2> QED
      BY <1>24, <2>1, <2>2, <2>3, <1>a DEF SyncDone, TypeThreads, Tick
  <1>25. ASSUME ReclaimSlot(t) PROVE Goal
    BY <1>25, <1>a, <1>d, <1>g DEF ReclaimSlot, Recent, Place, Round, TypeThreads, Observing,
       Scanning
  <1>26. ASSUME PollBlocked(t) PROVE Goal
    BY <1>26, <1>a, <1>d, <1>g DEF PollBlocked, Recent, Place, Round, TypeThreads, Observing,
       Scanning
  <1>27. ASSUME PollDone(t) PROVE Goal
    <2>1. /\ pc[t] = "s_done" /\ op'[t] = "poll" /\ snap'[t] = snap[t] /\ snap[t] \in Counter
          /\ pc'[t] \in {"p_slot", "d_slot"}
      BY <1>27, <1>a DEF PollDone, TypeThreads
    <2>2. Age(snap[t]) <= ticks
      BY <1>a, <2>1 DEF Recent, Observing, Scanning
    <2>3. Age(snap[t]) <= ticks + Lead
      BY <1>a, <1>d, <2>2, LeadType
    <2>4. Then(snap[t]) = Age(snap[t]) + (ticks' - ticks) /\ ticks' \in Nat
      BY <1>b, <2>1, <2>3, AgeStep
    <2> QED
      BY <1>a, <1>d, <2>1, <2>2, <2>4 DEF Scanning
  <1>28. ASSUME PollSlot(t) PROVE Goal
    BY <1>28, <1>a, <1>d, <1>g DEF PollSlot, Recent, Place, Round, TypeThreads, Observing, Scanning
  <1>29. ASSUME UnregisterCount(t) PROVE Goal
    BY <1>29, <1>a, <1>d, <1>g DEF UnregisterCount, Recent, Place, Round, TypeThreads, Observing,
       Scanning
  <1>30. ASSUME RecycleState(t) PROVE Goal
    BY <1>30, <1>a, <1>d, <1>g DEF RecycleState, Recent, Place, Round, TypeThreads, Observing,
       Scanning
  <1>31. ASSUME RecycleSwap(t) PROVE Goal
    BY <1>31, <1>a, <1>d, <1>g DEF RecycleSwap, Recent, Place, Round, TypeThreads, Observing,
       Scanning
  <1>32. ASSUME RecycleCount(t) PROVE Goal
    BY <1>32, <1>a, <1>d, <1>g DEF RecycleCount, Recent, Place, Round, TypeThreads, Observing,
       Scanning
  <1> QED
    BY <1>1, <1>2, <1>3, <1>4, <1>5, <1>6, <1>7, <1>8, <1>9, <1>10, <1>11, <1>12, <1>13, <1>14,
       <1>15, <1>16, <1>17, <1>18, <1>19, <1>20, <1>21, <1>22, <1>23, <1>24, <1>25, <1>26, <1>27,
       <1>28, <1>29, <1>30, <1>31, <1>32 DEF Step, Choose, Continue

\* A record advertises another epoch in these operations only.
LEMMA Advertising ==
  ASSUME NEW t \in Threads, Step(t)
  PROVE  \/ repoch' = repoch \/ BeginStore(t) \/ ObserveStore(t) \/ Delref(t) \/ PollDone(t)
         \/ Register(t) \/ Unregister(t)

  <1>1. CASE (\E h \in Handles : Begin(t, h)) \/ (\E h \in Handles : End(t, h))
             \/ (\E h \in Handles, o \in Objects : Dereference(t, h, o)) \/ Observe(t)
             \/ Synchronize(t) \/ Poll(t) \/ Recycle(t) \/ (\E o \in Objects : Unlink(t, o))
             \/ (\E o \in Objects : CallEarly(t, o))
    BY <1>1 DEF Begin, End, Dereference, Observe, Synchronize, Poll, Recycle, Unlink, CallEarly
  <1>2. CASE (\E r \in Records, o \in Objects : Call(t, r, o)) \/ BeginLoad(t) \/ Addref(t)
             \/ CallUnlink(t) \/ CallPush(t) \/ ScanState(t) \/ ScanActive(t) \/ ScanEpoch(t)
             \/ SyncBlocked(t)
    BY <1>2 DEF Call, BeginLoad, Addref, CallUnlink, CallPush, ScanState, ScanActive, ScanEpoch,
       SyncBlocked
  <1>3. CASE SyncDone(t) \/ ReclaimSlot(t) \/ PollBlocked(t) \/ PollSlot(t) \/ UnregisterCount(t)
             \/ RecycleState(t) \/ RecycleSwap(t) \/ RecycleCount(t)
    BY <1>3 DEF SyncDone, ReclaimSlot, PollBlocked, PollSlot, UnregisterCount, RecycleState,
       RecycleSwap,
        RecycleCount
  <1>4. CASE BeginStore(t)
    BY <1>4
  <1>5. CASE ObserveStore(t)
    BY <1>5
  <1>6. CASE Delref(t)
    BY <1>6
  <1>7. CASE PollDone(t)
    BY <1>7
  <1>8. CASE Register(t)
    BY <1>8
  <1>9. CASE Unregister(t)
    BY <1>9
  <1> QED
    BY <1>1, <1>2, <1>3, <1>4, <1>5, <1>6, <1>7, <1>8, <1>9 DEF Step, Choose, Continue

\* The end of a section never takes its record back to an older epoch.
LEMMA MovesOn ==
  ASSUME TypeOK, Users, NEW t \in Threads, Buckets(t), Delref(t)
  PROVE  /\ rec[t] \in Records /\ Age(repoch'[rec[t]]) \in Nat
         /\ Age(repoch'[rec[t]]) <= Age(repoch[rec[t]])
         /\ \A r \in Records : r # rec[t] => repoch'[r] = repoch[r]
  <1> DEFINE other == bucket[rec[t]][1 - sec[t][arg[t]]]
  <1>1. arg[t] \in Handles /\ sec[t][arg[t]] # NULL /\ rec[t] \in Records /\ rec[t] # NULL
    BY DEF Delref, Buckets, SectionPlace, Users, Place, Searching, TypeOK, TypeClient
  <1>2. 1 - sec[t][arg[t]] \in 0 .. 1
    <2>1. sec[t][arg[t]] = 0 \/ sec[t][arg[t]] = 1
      BY <1>1 DEF TypeOK, TypeClient
    <2> QED
      BY <2>1
  <1>3. repoch' = repoch \/ (other.count > 0 /\ repoch' = [repoch EXCEPT ![rec[t]] = other.epoch])
    BY DEF Delref
  <1>4. other.count > 0 => Age(other.epoch) <= Age(repoch[rec[t]])
    BY <1>1, <1>2 DEF Buckets, BucketAges
  <1>5. other.epoch \in Counter /\ repoch \in [Records -> Counter]
    BY <1>1, <1>2 DEF TypeOK, TypeRecords
  <1>6. Age(other.epoch) \in Nat /\ Age(repoch[rec[t]]) \in Nat
    BY <1>1, <1>5, AgeType DEF TypeOK, TypeGlobal
  <1> HIDE DEF other
  <1> QED
    BY <1>1, <1>3, <1>4, <1>5, <1>6

\* Every epoch that a thread or a record remembers stays within the horizon.
LEMMA HorizonStep ==
  ASSUME TypeOK, TypeOK', Users, TickBound, Horizon, NEW t \in Threads, Buckets(t), Step(t)
  PROVE  Horizon'
  <1>0. Effect(t)
    BY StepEffect
  <1>1. \A u \in Threads : Recent(u)'
    BY <1>0, RecentSelf, RecentOthers
  <1>2. ASSUME NEW r \in Records PROVE Age(repoch'[r]) <= ticks + Lead
    <2>1. Recent(t) /\ Place(t) /\ Age(repoch[r]) <= ticks + Lead /\ Lead \in Nat /\ ticks \in Nat
          /\ (rec[t] # NULL => rec[t] \in Records)
      BY LeadType DEF Horizon, Users, TypeOK, TypeGlobal, TypeClient
    <2>2. snap[t] \in Counter /\ Age(snap[t]) \in Nat /\ Age(repoch[r]) \in Nat
      BY AgeType DEF TypeOK, TypeGlobal, TypeThreads, TypeRecords
    <2>3. CASE repoch' = repoch
      BY <2>1, <2>3
    <2>4. CASE BeginStore(t) \/ ObserveStore(t) \/ PollDone(t)
      <3>1. Age(snap[t]) <= ticks /\ (repoch'[r] = snap[t] \/ repoch'[r] = repoch[r])
        BY <2>1, <2>4 DEF BeginStore, ObserveStore, PollDone, Recent, Observing, Scanning, TypeOK,
           TypeRecords
      <3>2. Age(snap[t]) <= ticks + Lead
        BY <2>1, <2>2, <3>1
      <3> QED
        BY <2>1, <3>1, <3>2
    <2>5. CASE Register(t) \/ Unregister(t)
      <3>1. may[t] \cap {"register", "unregister"} # {}
        BY <2>5 DEF Register, Unregister
      <3>2. repoch'[r] = 0 \/ repoch'[r] = repoch[r]
        BY <2>5 DEF Register, Unregister, TypeOK, TypeRecords
      <3>3. Age(0) = epoch
        BY Zero, AgeIs DEF TypeOK, TypeGlobal, Counter
      <3> QED
        BY <2>1, <3>1, <3>2, <3>3 DEF Recent
    <2>6. CASE Delref(t)
      BY <2>1, <2>2, <2>6, MovesOn
    <2> QED
      BY <2>3, <2>4, <2>5, <2>6, Advertising
  <1>3. ASSUME NEW r \in Records PROVE Then(repoch'[r]) <= ticks' + Lead
    <2>1. repoch'[r] \in Counter
      BY DEF TypeOK, TypeRecords
    <2> QED
      BY <1>0, <1>2, <2>1, AgeStep
  <1> QED
    BY <1>1, <1>3 DEF Horizon, Age, Then, Lead, Span

-----------------------------------------------------------------------------
(* Sections. *)

\* How old the epochs are that matter for a section, and how they age.
LEMMA OwnAges ==
  ASSUME TypeOK, TickBound, Horizon, NEW t \in Threads, Effect(t), NEW u \in Threads
  PROVE  /\ ticks \in Nat /\ ticks' \in Nat /\ (ticks' = ticks \/ ticks' = ticks + 1)
         /\ \A r \in Records : /\ Age(repoch[r]) \in Nat /\ Age(repoch[r]) <= ticks + Lead
                               /\ Then(repoch[r]) = Age(repoch[r]) + (ticks' - ticks)
         /\ Age(snap[u]) \in Nat
         /\ pc[u] \in Observing => Then(snap[u]) = Age(snap[u]) + (ticks' - ticks)
  <1>1. epoch \in Counter /\ ticks \in Nat /\ Lead \in Nat /\ snap[u] \in Counter
        /\ \A r \in Records : repoch[r] \in Counter
    BY LeadType DEF TypeOK, TypeGlobal, TypeThreads, TypeRecords
  <1>2. Age(snap[u]) \in Nat /\ \A r \in Records : Age(repoch[r]) \in Nat
    BY <1>1, AgeType
  <1>3. \A r \in Records : Age(repoch[r]) <= ticks + Lead /\ Then(repoch[r]) = Age(repoch[r]) + (ticks' - ticks)
    BY <1>1, AgeStep DEF Horizon
  <1>4. ASSUME pc[u] \in Observing PROVE Then(snap[u]) = Age(snap[u]) + (ticks' - ticks)
    <2>1. Age(snap[u]) <= ticks
      BY <1>4 DEF Horizon, Recent
    <2>2. Age(snap[u]) <= ticks + Lead
      BY <1>1, <1>2, <2>1
    <2> QED
      BY <1>1, <2>2, AgeStep
  <1>5. ticks' \in Nat /\ (ticks' = ticks \/ ticks' = ticks + 1)
    <2>1. Age(epoch) <= ticks + Lead
      BY <1>1, NowIsNew
    <2> QED
      BY <1>1, <2>1, AgeStep
  <1> QED
    BY <1>1, <1>2, <1>3, <1>4, <1>5

\* When the epoch ticks, sections are up to date.
LEMMA TickSeesAll ==
  ASSUME TypeOK, Users, NEW t \in Threads, Passed(t), Tick(t), NEW u \in Threads,
         rec[u] # NULL, active[rec[u]] > 0, pc[u] # "b_load"
  PROVE  Age(Effective(u)) = 0
  <1>1. pc[t] = "s_done" /\ snap[t] = epoch /\ cursor[t] = NULL
    BY DEF Tick, Users, Place
  <1>2. From(cursor[t]) = {}
    BY <1>1, FromNull DEF TypeOK, TypeGlobal
  <1>3. Age(Effective(u)) <= Age(epoch)
    BY <1>1, <1>2 DEF Passed, Scanning
  <1>4. Effective(u) \in Counter
    BY DEF Effective, TypeOK, TypeThreads, TypeRecords, TypeClient
  <1>5. Age(Effective(u)) \in Nat /\ Age(epoch) = 0
    BY <1>4, AgeType, NowIsNew DEF TypeOK, TypeGlobal
  <1> QED
    BY <1>3, <1>5

\* An active record lags by one epoch at most: a tick by another thread has
\* passed the record, which then advertises the current epoch ...
LEMMA OwnOthers ==
  ASSUME TypeOK, Users, Directory', TickBound, Horizon, NEW t \in Threads, Passed(t), Effect(t),
         NEW u \in Threads, u # t, Own(u)
  PROVE  Own(u)'
  <1> SUFFICES ASSUME rec'[u] # NULL PROVE Own(u)'
    BY DEF Own
  <1> DEFINE r == rec[u]
  <1>1. /\ Same(u) /\ rec'[u] = r /\ r # NULL /\ r \in Records
        /\ active'[r] = active[r] /\ repoch'[r] = repoch[r] /\ active[r] \in Nat
    BY OthersRecord DEF Same, TypeOK, TypeRecords
  <1>2. /\ ticks \in Nat /\ ticks' \in Nat /\ (ticks' = ticks \/ ticks' = ticks + 1) /\ Age(repoch[r]) \in Nat /\ Age(snap[u]) \in Nat
        /\ Then(repoch[r]) = Age(repoch[r]) + (ticks' - ticks)
        /\ pc[u] \in Observing => Then(snap[u]) = Age(snap[u]) + (ticks' - ticks)
    BY <1>1, OwnAges
  <1>3. ASSUME ticks' # ticks, active[r] > 0, pc[u] # "b_load"
        PROVE  (pc[u] = "b_store" => Age(snap[u]) = 0) /\ (pc[u] # "b_store" => Age(repoch[r]) = 0)
    <2>1. Tick(t)
      BY <1>3 DEF Effect
    <2>2. Age(Effective(u)) = 0
      BY <1>1, <1>3, <2>1, TickSeesAll
    <2> QED
      BY <2>2 DEF Effective
  <1> HIDE DEF r
  <1>4. ASSUME active'[r] > 0, pc'[u] \notin {"b_load", "b_store"} PROVE Then(repoch'[r]) <= 1
    <2>1. active[r] > 0 /\ pc[u] \notin {"b_load", "b_store"} /\ Age(repoch[r]) <= 1
      BY <1>1, <1>4 DEF r, Own, Same
    <2>2. ticks' # ticks => Age(repoch[r]) = 0
      BY <1>3, <2>1
    <2> QED
      BY <1>1, <1>2, <2>1, <2>2
  <1>5. ASSUME pc'[u] = "b_store" PROVE Then(snap'[u]) <= 1
    <2>1. pc[u] = "b_store" /\ snap'[u] = snap[u] /\ active[r] > 0 /\ Age(snap[u]) <= 1
      BY <1>1, <1>5 DEF r, Own, Same, Beginning
    <2>2. ticks' # ticks => Age(snap[u]) = 0
      BY <1>3, <2>1
    <2>3. Then(snap[u]) = Age(snap[u]) + (ticks' - ticks)
      BY <1>2, <2>1 DEF Observing
    <2>4. ticks \in Nat /\ ticks' \in Nat /\ (ticks' = ticks \/ ticks' = ticks + 1) /\ Age(snap[u]) \in Nat
      BY <1>2
    <2>5. Then(snap[u]) <= 1
      <3>1. CASE ticks' = ticks
        BY <2>1, <2>3, <2>4, <3>1
      <3>2. CASE ticks' # ticks
        <4>1. Age(snap[u]) = 0
          BY <2>2, <3>2
        <4> QED
          BY <2>3, <2>4, <3>2, <4>1
      <3> QED
        BY <3>1, <3>2
    <2> QED
      BY <2>1, <2>5
  <1>6. pc'[u] \in {"b_store", "o_store", "c_unlink"} => Then(snap'[u]) <= Then(repoch'[r])
    BY <1>1, <1>2 DEF r, Own, Same, Observing
  <1> QED
    BY <1>1, <1>4, <1>5, <1>6 DEF r, Own, Age, Then, Same


\* ... and so for the thread that steps, in ck_epoch_begin as well, which stores
\* the epoch some steps after it read it.
LEMMA OwnSelf ==
  ASSUME TypeOK, TypeOK', Users, TickBound, Horizon,
         NEW t \in Threads, Own(t), Quiet(t), Passed(t), Buckets(t), Step(t)
  PROVE  Own(t)'
  <1>a. /\ Own(t) /\ Place(t) /\ rec[t] \in Records \cup {NULL} /\ NULL \notin Records
        /\ \A r \in Records : active[r] \in Nat
        /\ \A r \in Records : (\A u \in Threads : rec[u] # r) => active[r] = 0
    BY EpochAssumption DEF Users, Directory, TypeOK, TypeRecords, TypeClient
  <1>b. /\ Age(epoch) = 0 /\ Age(snap[t]) \in Nat /\ \A r \in Records : Age(repoch[r]) \in Nat
    BY AgeType, NowIsNew DEF TypeOK, TypeGlobal, TypeRecords, TypeThreads
  <1>c. epoch' = epoch => \A v : Then(v) = Age(v)
    BY DEF Then, Age
  <1> DEFINE Goal ==
          rec'[t] # NULL =>
            /\ active'[rec'[t]] > 0 /\ pc'[t] \notin {"b_load", "b_store"} => Then(repoch'[rec'[t]]) <= 1
            /\ pc'[t] = "b_store" => Then(snap'[t]) <= 1
            /\ pc'[t] \in {"b_store", "o_store", "c_unlink"} => Then(snap'[t]) <= Then(repoch'[rec'[t]])
            /\ pc'[t] \in Beginning \cup {"o_store", "c_unlink"} => active'[rec'[t]] > 0
            /\ pc'[t] \in {"b_load", "b_store"} => active'[rec'[t]] = 1
            /\ pc'[t] \in {"u_inc", "f_dec"} => active'[rec'[t]] = 0
  <1>d. SUFFICES Goal
    BY DEF Own, Age, Then
  <1>e. Tick(t) /\ rec[t] # NULL /\ active[rec[t]] > 0 => Then(repoch[rec[t]]) <= 1
    <2> SUFFICES ASSUME Tick(t), rec[t] # NULL, active[rec[t]] > 0 PROVE Then(repoch[rec[t]]) <= 1
      OBVIOUS
    <2>1. pc[t] = "s_done" /\ ticks' = ticks + 1
      BY DEF Tick
    <2>2. Age(Effective(t)) = 0
      BY <2>1, TickSeesAll
    <2>3. Age(repoch[rec[t]]) = 0
      BY <2>1, <2>2 DEF Effective
    <2>4. Then(repoch[rec[t]]) = Age(repoch[rec[t]]) + (ticks' - ticks) /\ ticks \in Nat
      BY <1>a, StepEffect, OwnAges
    <2> QED
      BY <2>1, <2>3, <2>4
  <1>f. \/ UNCHANGED <<epoch, ticks>> \/ Tick(t)
    BY StepEffect DEF Effect

  <1>1. ASSUME NEW h \in Handles, Begin(t, h) PROVE Goal
    BY <1>1, <1>a, <1>b, <1>c DEF Begin, Own, Place, Beginning, Searching, TypeOK, TypeThreads,
       TypeRecords, TypeClient
  <1>2. ASSUME NEW h \in Handles, End(t, h) PROVE Goal
    BY <1>2, <1>a, <1>b, <1>c DEF End, Own, Place, Beginning, Searching, TypeOK, TypeThreads,
       TypeRecords, TypeClient
  <1>3. ASSUME NEW h \in Handles, NEW o \in Objects, Dereference(t, h, o) PROVE Goal
    BY <1>3, <1>a, <1>b, <1>c
       DEF Dereference, Own, Place, Beginning, Searching, TypeOK, TypeThreads,
       TypeRecords, TypeClient
  <1>4. ASSUME Observe(t) PROVE Goal
    BY <1>4, <1>a, <1>b, <1>c DEF Observe, Own, Place, Beginning, Searching, TypeOK, TypeThreads,
       TypeRecords, TypeClient
  <1>5. ASSUME Synchronize(t) PROVE Goal
    BY <1>5, <1>a, <1>b, <1>c
       DEF Synchronize, Own, Place, Beginning, Searching, TypeOK, TypeThreads,
       TypeRecords, TypeClient
  <1>6. ASSUME Poll(t) PROVE Goal
    BY <1>6, <1>a, <1>b, <1>c DEF Poll, Own, Place, Beginning, Searching, TypeOK, TypeThreads,
       TypeRecords, TypeClient
  <1>7. ASSUME Register(t) PROVE Goal
    BY <1>7, <1>a, <1>b, <1>c DEF Register, Own, Place, Beginning, Searching, TypeOK, TypeThreads,
       TypeRecords, TypeClient
  <1>8. ASSUME Unregister(t) PROVE Goal
    BY <1>8, <1>a, <1>b, <1>c DEF Unregister, Own, Place, Beginning, Searching, TypeOK, TypeThreads,
       TypeRecords, TypeClient
  <1>9. ASSUME Recycle(t) PROVE Goal
    BY <1>9, <1>a, <1>b, <1>c DEF Recycle, Own, Place, Beginning, Searching, TypeOK, TypeThreads,
       TypeRecords, TypeClient
  <1>10. ASSUME NEW o \in Objects, Unlink(t, o) PROVE Goal
    BY <1>10, <1>a, <1>b, <1>c DEF Unlink, Own, Place, Beginning, Searching, TypeOK, TypeThreads,
       TypeRecords, TypeClient
  <1>11. ASSUME NEW o \in Objects, CallEarly(t, o) PROVE Goal
    BY <1>11, <1>a, <1>b, <1>c DEF CallEarly, Own, Place, Beginning, Searching, TypeOK, TypeThreads,
       TypeRecords, TypeClient
  <1>12. ASSUME NEW r \in Records, NEW o \in Objects, Call(t, r, o) PROVE Goal
    BY <1>12, <1>a, <1>b, <1>c DEF Call, Own, Place, Beginning, Searching, TypeOK, TypeThreads,
       TypeRecords, TypeClient
  <1>13. ASSUME BeginLoad(t) PROVE Goal
    BY <1>13, <1>a, <1>b, <1>c DEF BeginLoad, Own, Place, Beginning, Searching, TypeOK, TypeThreads,
       TypeRecords, TypeClient
  <1>14. ASSUME BeginStore(t) PROVE Goal
    BY <1>14, <1>a, <1>b, <1>c
       DEF BeginStore, Own, Place, Beginning, Searching, TypeOK, TypeThreads,
       TypeRecords, TypeClient
  <1>15. ASSUME Addref(t) PROVE Goal
    BY <1>15, <1>a, <1>b, <1>c DEF Addref, Own, Place, Beginning, Searching, TypeOK, TypeThreads,
       TypeRecords, TypeClient
  <1>16. ASSUME Delref(t) PROVE Goal
    <2>1. /\ rec[t] \in Records /\ Age(repoch'[rec[t]]) \in Nat
          /\ Age(repoch'[rec[t]]) <= Age(repoch[rec[t]])
      BY <1>16, MovesOn
    <2>2. pc[t] = "e_ref" /\ pc'[t] = "idle" /\ rec' = rec /\ active' = active /\ epoch' = epoch
      BY <1>16 DEF Delref, TypeOK, TypeThreads
    <2>3. active[rec[t]] > 0 => Age(repoch[rec[t]]) <= 1
      BY <1>a, <2>1, <2>2 DEF Own
    <2> QED
      BY <1>a, <1>b, <1>c, <2>1, <2>2, <2>3 DEF Beginning
  <1>17. ASSUME ObserveStore(t) PROVE Goal
    BY <1>17, <1>a, <1>b, <1>c DEF ObserveStore, Own, Place, Beginning, Searching, TypeOK,
       TypeThreads, TypeRecords, TypeClient
  <1>18. ASSUME CallUnlink(t) PROVE Goal
    BY <1>18, <1>a, <1>b, <1>c
       DEF CallUnlink, Own, Place, Beginning, Searching, TypeOK, TypeThreads,
       TypeRecords, TypeClient
  <1>19. ASSUME CallPush(t) PROVE Goal
    BY <1>19, <1>a, <1>b, <1>c DEF CallPush, Own, Place, Beginning, Searching, TypeOK, TypeThreads,
       TypeRecords, TypeClient
  <1>20. ASSUME ScanState(t) PROVE Goal
    BY <1>20, <1>a, <1>b, <1>c DEF ScanState, Own, Place, Beginning, Searching, TypeOK, TypeThreads,
       TypeRecords, TypeClient
  <1>21. ASSUME ScanActive(t) PROVE Goal
    BY <1>21, <1>a, <1>b, <1>c
       DEF ScanActive, Own, Place, Beginning, Searching, TypeOK, TypeThreads,
       TypeRecords, TypeClient
  <1>22. ASSUME ScanEpoch(t) PROVE Goal
    BY <1>22, <1>a, <1>b, <1>c DEF ScanEpoch, Own, Place, Beginning, Searching, TypeOK, TypeThreads,
       TypeRecords, TypeClient
  <1>23. ASSUME SyncBlocked(t) PROVE Goal
    BY <1>23, <1>a, <1>b, <1>c DEF SyncBlocked, Own, Place, Beginning, Searching, TypeOK,
       TypeThreads, TypeRecords, TypeClient
  <1>24. ASSUME SyncDone(t) PROVE Goal
    <2>1. pc[t] = "s_done" /\ pc'[t] \in {"idle", "d_slot", "s_state"}
          /\ rec' = rec /\ active' = active /\ repoch' = repoch
      BY <1>24 DEF SyncDone, TypeOK, TypeThreads
    <2>2. rec[t] # NULL /\ active[rec[t]] > 0 => Age(repoch[rec[t]]) <= 1
      BY <1>a, <2>1 DEF Own
    <2> QED
      BY <1>a, <1>c, <1>e, <1>f, <2>1, <2>2 DEF Beginning
  <1>25. ASSUME ReclaimSlot(t) PROVE Goal
    BY <1>25, <1>a, <1>b, <1>c DEF ReclaimSlot, Own, Place, Beginning, Searching, TypeOK,
       TypeThreads, TypeRecords, TypeClient
  <1>26. ASSUME PollBlocked(t) PROVE Goal
    BY <1>26, <1>a, <1>b, <1>c DEF PollBlocked, Own, Place, Beginning, Searching, TypeOK,
       TypeThreads, TypeRecords, TypeClient
  <1>27. ASSUME PollDone(t) PROVE Goal
    <2>1. pc[t] = "s_done" /\ pc'[t] \in {"p_slot", "d_slot"} /\ rec' = rec /\ active' = active
      BY <1>27 DEF PollDone, TypeOK, TypeThreads
    <2>2. CASE af[t]
      <3>1. repoch' = repoch
        BY <1>27, <2>2 DEF PollDone
      <3>2. rec[t] # NULL /\ active[rec[t]] > 0 => Age(repoch[rec[t]]) <= 1
        BY <1>a, <2>1 DEF Own
      <3> QED
        BY <1>a, <1>c, <1>e, <1>f, <2>1, <3>1, <3>2 DEF Beginning
    <2>3. CASE ~af[t]
      <3>1. cursor[t] = NULL
        BY <1>a, <2>1 DEF Place
      <3>2. active[rec[t]] = 0
        BY <2>1, <2>3, <3>1, FromNull DEF Quiet, Scanning, TypeOK, TypeGlobal
      <3> QED
        BY <2>1, <3>2 DEF Beginning
    <2> QED
      BY <2>2, <2>3
  <1>28. ASSUME PollSlot(t) PROVE Goal
    BY <1>28, <1>a, <1>b, <1>c DEF PollSlot, Own, Place, Beginning, Searching, TypeOK, TypeThreads,
       TypeRecords, TypeClient
  <1>29. ASSUME UnregisterCount(t) PROVE Goal
    BY <1>29, <1>a, <1>b, <1>c DEF UnregisterCount, Own, Place, Beginning, Searching, TypeOK,
       TypeThreads, TypeRecords, TypeClient
  <1>30. ASSUME RecycleState(t) PROVE Goal
    BY <1>30, <1>a, <1>b, <1>c DEF RecycleState, Own, Place, Beginning, Searching, TypeOK,
       TypeThreads, TypeRecords, TypeClient
  <1>31. ASSUME RecycleSwap(t) PROVE Goal
    <2>1. cursor[t] \in Records /\ rec[t] = NULL
      BY <1>31, ListType DEF RecycleSwap, Users, Place, Searching
    <2>2. CASE state[cursor[t]] = "free"
      <3>1. \A u \in Threads : rec[u] # cursor[t]
        BY <1>a, <2>1, <2>2 DEF Users, Directory
      <3>2. rec'[t] = cursor[t] /\ active'[cursor[t]] = 0 /\ pc'[t] = "f_dec"
        BY <1>31, <1>a, <2>1, <2>2, <3>1 DEF RecycleSwap, TypeOK, TypeClient, TypeThreads
      <3> QED
        BY <3>2 DEF Beginning
    <2>3. CASE state[cursor[t]] # "free"
      BY <1>31, <2>1, <2>3 DEF RecycleSwap
    <2> QED
      BY <2>2, <2>3
  <1>32. ASSUME RecycleCount(t) PROVE Goal
    BY <1>32, <1>a, <1>b, <1>c DEF RecycleCount, Own, Place, Beginning, Searching, TypeOK,
       TypeThreads, TypeRecords, TypeClient
  <1> QED
    BY <1>1, <1>2, <1>3, <1>4, <1>5, <1>6, <1>7, <1>8, <1>9, <1>10, <1>11, <1>12, <1>13, <1>14,
       <1>15, <1>16, <1>17, <1>18, <1>19, <1>20, <1>21, <1>22, <1>23, <1>24, <1>25, <1>26, <1>27,
       <1>28, <1>29, <1>30, <1>31, <1>32 DEF Step, Choose, Continue

-----------------------------------------------------------------------------
(* Scans. *)

\* What is left to scan does not change when a record is added in front.
LEMMA FromSame ==
  ASSUME TypeOK, Users, NEW t \in Threads, Step(t), NEW x \in Listed \cup {NULL}
  PROVE  FromIn(records', x) = From(x)
  <1>1. CASE records' = records
    BY <1>1 DEF From
  <1>2. CASE Register(t)
    <2>1. PICK r \in Records : (\A i \in DOMAIN records : records[i] # r) /\ records' = <<r>> \o records
      BY <1>2 DEF Register
    <2>2. r \notin Listed
      BY <2>1 DEF Listed
    <2> QED
      BY <2>1, <2>2, PushFacts DEF TypeOK, TypeGlobal
  <1>3. CASE Unregister(t) \/ RecycleSwap(t)
    BY <1>1, <1>3 DEF Unregister, RecycleSwap
  <1> QED
    BY <1>1, <1>2, <1>3, Hands

\* A scan that met no active record did not meet its own: the steps of others ...
LEMMA QuietOthers ==
  ASSUME TypeOK, Users, Directory', NEW t \in Threads, Step(t), NEW u \in Threads, u # t, Quiet(u)
  PROVE  Quiet(u)'
  <1>1. Same(u) /\ Place(u) /\ (rec[u] # NULL => active'[rec[u]] = active[rec[u]])
    BY StepEffect, OthersRecord DEF Users
  <1>2. ASSUME pc[u] \in Scanning
        PROVE  rec[u] # NULL /\ FromIn(records', cursor[u]) = From(cursor[u])
    <2>1. rec[u] # NULL /\ cursor[u] \in Listed \cup {NULL}
      BY <1>1, <1>2 DEF Place, Scanning, Searching
    <2> QED
      BY <2>1, FromSame
  <1> QED
    BY <1>1, <1>2 DEF Quiet, From, Same

\* ... and of the scanning thread, which has no section to begin meanwhile.
LEMMA QuietSelf ==
  ASSUME TypeOK, TypeOK', Users, NEW t \in Threads, Quiet(t), Step(t)
  PROVE  Quiet(t)'
  <1>a. Quiet(t) /\ Place(t) /\ TypeThreads
    BY DEF Users, TypeOK
  <1>b. rec[t] # NULL => rec[t] \in From(Newest) /\ state[rec[t]] # "free"
    BY NewestFacts DEF Users, Directory, TypeOK, TypeGlobal
  <1>c. cursor[t] \in Listed => FromIn(records, After(cursor[t])) = From(cursor[t]) \ {cursor[t]}
    BY AfterFacts DEF From, Users, Directory, TypeOK, TypeGlobal
  <1> DEFINE Goal ==
    /\ pc'[t] \in {"s_epoch", "s_blocked"} => af'[t]
    /\ pc'[t] \in Scanning /\ ~af'[t] /\ rec'[t] \notin FromIn(records', cursor'[t]) => active'[rec'[t]] = 0
  <1>d. SUFFICES Goal
    BY DEF Quiet, From

  <1>1. ASSUME NEW h \in Handles, Begin(t, h) PROVE Goal
    BY <1>1, <1>a DEF Begin, Quiet, Place, TypeThreads, Scanning, Searching, From
  <1>2. ASSUME NEW h \in Handles, End(t, h) PROVE Goal
    BY <1>2, <1>a DEF End, Quiet, Place, TypeThreads, Scanning, Searching, From
  <1>3. ASSUME NEW h \in Handles, NEW o \in Objects, Dereference(t, h, o) PROVE Goal
    BY <1>3, <1>a DEF Dereference, Quiet, Place, TypeThreads, Scanning, Searching, From
  <1>4. ASSUME Observe(t) PROVE Goal
    BY <1>4, <1>a DEF Observe, Quiet, Place, TypeThreads, Scanning, Searching, From
  <1>5. ASSUME Synchronize(t) PROVE Goal
    BY <1>5, <1>a, <1>b DEF Synchronize, Quiet, Place, TypeThreads, Scanning, Searching, From
  <1>6. ASSUME Poll(t) PROVE Goal
    BY <1>6, <1>a, <1>b DEF Poll, Quiet, Place, TypeThreads, Scanning, Searching, From
  <1>7. ASSUME Register(t) PROVE Goal
    BY <1>7, <1>a DEF Register, Quiet, Place, TypeThreads, Scanning, Searching, From
  <1>8. ASSUME Unregister(t) PROVE Goal
    BY <1>8, <1>a DEF Unregister, Quiet, Place, TypeThreads, Scanning, Searching, From
  <1>9. ASSUME Recycle(t) PROVE Goal
    BY <1>9, <1>a DEF Recycle, Quiet, Place, TypeThreads, Scanning, Searching, From
  <1>10. ASSUME NEW o \in Objects, Unlink(t, o) PROVE Goal
    BY <1>10, <1>a DEF Unlink, Quiet, Place, TypeThreads, Scanning, Searching, From
  <1>11. ASSUME NEW o \in Objects, CallEarly(t, o) PROVE Goal
    BY <1>11, <1>a DEF CallEarly, Quiet, Place, TypeThreads, Scanning, Searching, From
  <1>12. ASSUME NEW r \in Records, NEW o \in Objects, Call(t, r, o) PROVE Goal
    BY <1>12, <1>a DEF Call, Quiet, Place, TypeThreads, Scanning, Searching, From
  <1>13. ASSUME BeginLoad(t) PROVE Goal
    BY <1>13, <1>a DEF BeginLoad, Quiet, Place, TypeThreads, Scanning, Searching, From
  <1>14. ASSUME BeginStore(t) PROVE Goal
    BY <1>14, <1>a DEF BeginStore, Quiet, Place, TypeThreads, Scanning, Searching, From
  <1>15. ASSUME Addref(t) PROVE Goal
    BY <1>15, <1>a DEF Addref, Quiet, Place, TypeThreads, Scanning, Searching, From
  <1>16. ASSUME Delref(t) PROVE Goal
    BY <1>16, <1>a DEF Delref, Quiet, Place, TypeThreads, Scanning, Searching, From
  <1>17. ASSUME ObserveStore(t) PROVE Goal
    BY <1>17, <1>a DEF ObserveStore, Quiet, Place, TypeThreads, Scanning, Searching, From
  <1>18. ASSUME CallUnlink(t) PROVE Goal
    BY <1>18, <1>a DEF CallUnlink, Quiet, Place, TypeThreads, Scanning, Searching, From
  <1>19. ASSUME CallPush(t) PROVE Goal
    BY <1>19, <1>a DEF CallPush, Quiet, Place, TypeThreads, Scanning, Searching, From
  <1>20. ASSUME ScanState(t) PROVE Goal
    BY <1>20, <1>a, <1>b, <1>c DEF ScanState, Quiet, Place, TypeThreads, Scanning, Searching, From
  <1>21. ASSUME ScanActive(t) PROVE Goal
    BY <1>21, <1>a, <1>c DEF ScanActive, Quiet, Place, TypeThreads, Scanning, Searching, From
  <1>22. ASSUME ScanEpoch(t) PROVE Goal
    BY <1>22, <1>a, <1>c DEF ScanEpoch, Quiet, Place, TypeThreads, Scanning, Searching, From
  <1>23. ASSUME SyncBlocked(t) PROVE Goal
    BY <1>23, <1>a, <1>b DEF SyncBlocked, Quiet, Place, TypeThreads, Scanning, Searching, From
  <1>24. ASSUME SyncDone(t) PROVE Goal
    BY <1>24, <1>a, <1>b DEF SyncDone, Quiet, Place, TypeThreads, Scanning, Searching, From
  <1>25. ASSUME ReclaimSlot(t) PROVE Goal
    BY <1>25, <1>a DEF ReclaimSlot, Quiet, Place, TypeThreads, Scanning, Searching, From
  <1>26. ASSUME PollBlocked(t) PROVE Goal
    BY <1>26, <1>a DEF PollBlocked, Quiet, Place, TypeThreads, Scanning, Searching, From
  <1>27. ASSUME PollDone(t) PROVE Goal
    BY <1>27, <1>a DEF PollDone, Quiet, Place, TypeThreads, Scanning, Searching, From
  <1>28. ASSUME PollSlot(t) PROVE Goal
    BY <1>28, <1>a DEF PollSlot, Quiet, Place, TypeThreads, Scanning, Searching, From
  <1>29. ASSUME UnregisterCount(t) PROVE Goal
    BY <1>29, <1>a DEF UnregisterCount, Quiet, Place, TypeThreads, Scanning, Searching, From
  <1>30. ASSUME RecycleState(t) PROVE Goal
    BY <1>30, <1>a DEF RecycleState, Quiet, Place, TypeThreads, Scanning, Searching, From
  <1>31. ASSUME RecycleSwap(t) PROVE Goal
    BY <1>31, <1>a DEF RecycleSwap, Quiet, Place, TypeThreads, Scanning, Searching, From
  <1>32. ASSUME RecycleCount(t) PROVE Goal
    BY <1>32, <1>a DEF RecycleCount, Quiet, Place, TypeThreads, Scanning, Searching, From
  <1> QED
    BY <1>1, <1>2, <1>3, <1>4, <1>5, <1>6, <1>7, <1>8, <1>9, <1>10, <1>11, <1>12, <1>13, <1>14,
       <1>15, <1>16, <1>17, <1>18, <1>19, <1>20, <1>21, <1>22, <1>23, <1>24, <1>25, <1>26, <1>27,
       <1>28, <1>29, <1>30, <1>31, <1>32 DEF Step, Choose, Continue

\* A section is protected by an epoch at least as new as before.
LEMMA Renews ==
  ASSUME TypeOK, TypeOK', Users, NEW t \in Threads, Own(t), Quiet(t), Buckets(t), Step(t),
         rec'[t] # NULL, active'[rec'[t]] > 0, pc'[t] # "b_load"
  PROVE  \/ Effective(t)' = epoch
         \/ /\ rec'[t] = rec[t] /\ active[rec[t]] > 0 /\ pc[t] # "b_load"
            /\ Age(Effective(t)') <= Age(Effective(t))
  <1>a. Own(t) /\ Place(t) /\ TypeThreads /\ rec[t] \in Records \cup {NULL} /\ NULL \notin Records
        /\ \A r \in Records : active[r] \in Nat
    BY EpochAssumption DEF Users, TypeOK, TypeRecords, TypeClient
  <1>b. Age(snap[t]) \in Nat /\ \A r \in Records : Age(repoch[r]) \in Nat
    BY AgeType DEF TypeOK, TypeGlobal, TypeRecords, TypeThreads
  <1> DEFINE after == IF pc'[t] = "b_store" THEN snap'[t] ELSE repoch'[rec'[t]]
             before == IF pc[t] = "b_store" THEN snap[t] ELSE repoch[rec[t]]
             Goal == after = epoch \/ (rec'[t] = rec[t] /\ active[rec[t]] > 0 /\ pc[t] # "b_load" /\ Age(after) <= Age(before))
  <1>c. SUFFICES Goal
    BY DEF Effective

  <1>1. ASSUME NEW h \in Handles, Begin(t, h) PROVE Goal
    BY <1>1, <1>a, <1>b DEF Begin, Own, Place, Beginning, Scanning, Searching, TypeThreads, TypeOK,
       TypeRecords, TypeClient
  <1>2. ASSUME NEW h \in Handles, End(t, h) PROVE Goal
    BY <1>2, <1>a, <1>b DEF End, Own, Place, Beginning, Scanning, Searching, TypeThreads, TypeOK,
       TypeRecords, TypeClient
  <1>3. ASSUME NEW h \in Handles, NEW o \in Objects, Dereference(t, h, o) PROVE Goal
    BY <1>3, <1>a, <1>b DEF Dereference, Own, Place, Beginning, Scanning, Searching, TypeThreads,
       TypeOK, TypeRecords, TypeClient
  <1>4. ASSUME Observe(t) PROVE Goal
    BY <1>4, <1>a, <1>b
       DEF Observe, Own, Place, Beginning, Scanning, Searching, TypeThreads, TypeOK,
       TypeRecords, TypeClient
  <1>5. ASSUME Synchronize(t) PROVE Goal
    BY <1>5, <1>a, <1>b DEF Synchronize, Own, Place, Beginning, Scanning, Searching, TypeThreads,
       TypeOK, TypeRecords, TypeClient
  <1>6. ASSUME Poll(t) PROVE Goal
    BY <1>6, <1>a, <1>b DEF Poll, Own, Place, Beginning, Scanning, Searching, TypeThreads, TypeOK,
       TypeRecords, TypeClient
  <1>7. ASSUME Register(t) PROVE Goal
    BY <1>7, <1>a, <1>b DEF Register, Own, Place, Beginning, Scanning, Searching, TypeThreads,
       TypeOK, TypeRecords, TypeClient
  <1>8. ASSUME Unregister(t) PROVE Goal
    BY <1>8, <1>a, <1>b DEF Unregister, Own, Place, Beginning, Scanning, Searching, TypeThreads,
       TypeOK, TypeRecords, TypeClient
  <1>9. ASSUME Recycle(t) PROVE Goal
    BY <1>9, <1>a, <1>b
       DEF Recycle, Own, Place, Beginning, Scanning, Searching, TypeThreads, TypeOK,
       TypeRecords, TypeClient
  <1>10. ASSUME NEW o \in Objects, Unlink(t, o) PROVE Goal
    BY <1>10, <1>a, <1>b
       DEF Unlink, Own, Place, Beginning, Scanning, Searching, TypeThreads, TypeOK,
       TypeRecords, TypeClient
  <1>11. ASSUME NEW o \in Objects, CallEarly(t, o) PROVE Goal
    BY <1>11, <1>a, <1>b DEF CallEarly, Own, Place, Beginning, Scanning, Searching, TypeThreads,
       TypeOK, TypeRecords, TypeClient
  <1>12. ASSUME NEW r \in Records, NEW o \in Objects, Call(t, r, o) PROVE Goal
    BY <1>12, <1>a, <1>b DEF Call, Own, Place, Beginning, Scanning, Searching, TypeThreads, TypeOK,
       TypeRecords, TypeClient
  <1>13. ASSUME BeginLoad(t) PROVE Goal
    BY <1>13, <1>a, <1>b DEF BeginLoad, Own, Place, Beginning, Scanning, Searching, TypeThreads,
       TypeOK, TypeRecords, TypeClient
  <1>14. ASSUME BeginStore(t) PROVE Goal
    BY <1>14, <1>a, <1>b DEF BeginStore, Own, Place, Beginning, Scanning, Searching, TypeThreads,
       TypeOK, TypeRecords, TypeClient
  <1>15. ASSUME Addref(t) PROVE Goal
    BY <1>15, <1>a, <1>b
       DEF Addref, Own, Place, Beginning, Scanning, Searching, TypeThreads, TypeOK,
       TypeRecords, TypeClient
  <1>16. ASSUME Delref(t) PROVE Goal
    <2>1. Age(repoch'[rec[t]]) <= Age(repoch[rec[t]])
      BY <1>16, MovesOn
    <2>2. pc[t] = "e_ref" /\ pc'[t] = "idle" /\ rec' = rec /\ active' = active
      BY <1>16, <1>a DEF Delref, TypeThreads
    <2> QED
      BY <2>1, <2>2
  <1>17. ASSUME ObserveStore(t) PROVE Goal
    BY <1>17, <1>a, <1>b DEF ObserveStore, Own, Place, Beginning, Scanning, Searching, TypeThreads,
       TypeOK, TypeRecords, TypeClient
  <1>18. ASSUME CallUnlink(t) PROVE Goal
    BY <1>18, <1>a, <1>b DEF CallUnlink, Own, Place, Beginning, Scanning, Searching, TypeThreads,
       TypeOK, TypeRecords, TypeClient
  <1>19. ASSUME CallPush(t) PROVE Goal
    BY <1>19, <1>a, <1>b DEF CallPush, Own, Place, Beginning, Scanning, Searching, TypeThreads,
       TypeOK, TypeRecords, TypeClient
  <1>20. ASSUME ScanState(t) PROVE Goal
    BY <1>20, <1>a, <1>b DEF ScanState, Own, Place, Beginning, Scanning, Searching, TypeThreads,
       TypeOK, TypeRecords, TypeClient
  <1>21. ASSUME ScanActive(t) PROVE Goal
    BY <1>21, <1>a, <1>b DEF ScanActive, Own, Place, Beginning, Scanning, Searching, TypeThreads,
       TypeOK, TypeRecords, TypeClient
  <1>22. ASSUME ScanEpoch(t) PROVE Goal
    BY <1>22, <1>a, <1>b DEF ScanEpoch, Own, Place, Beginning, Scanning, Searching, TypeThreads,
       TypeOK, TypeRecords, TypeClient
  <1>23. ASSUME SyncBlocked(t) PROVE Goal
    BY <1>23, <1>a, <1>b DEF SyncBlocked, Own, Place, Beginning, Scanning, Searching, TypeThreads,
       TypeOK, TypeRecords, TypeClient
  <1>24. ASSUME SyncDone(t) PROVE Goal
    BY <1>24, <1>a, <1>b DEF SyncDone, Own, Place, Beginning, Scanning, Searching, TypeThreads,
       TypeOK, TypeRecords, TypeClient
  <1>25. ASSUME ReclaimSlot(t) PROVE Goal
    BY <1>25, <1>a, <1>b DEF ReclaimSlot, Own, Place, Beginning, Scanning, Searching, TypeThreads,
       TypeOK, TypeRecords, TypeClient
  <1>26. ASSUME PollBlocked(t) PROVE Goal
    BY <1>26, <1>a, <1>b DEF PollBlocked, Own, Place, Beginning, Scanning, Searching, TypeThreads,
       TypeOK, TypeRecords, TypeClient
  <1>27. ASSUME PollDone(t) PROVE Goal
    <2>1. pc[t] = "s_done" /\ pc'[t] \in {"p_slot", "d_slot"} /\ rec' = rec /\ active' = active
      BY <1>27, <1>a DEF PollDone, TypeThreads
    <2>2. CASE af[t]
      BY <1>27, <1>a, <1>b, <2>1, <2>2 DEF PollDone
    <2>3. CASE ~af[t]
      <3>1. cursor[t] = NULL
        BY <1>a, <2>1 DEF Place
      <3>2. active[rec[t]] = 0
        BY <2>1, <2>3, <3>1, FromNull DEF Quiet, Scanning, TypeOK, TypeGlobal
      <3> QED
        BY <2>1, <3>2
    <2> QED
      BY <2>2, <2>3
  <1>28. ASSUME PollSlot(t) PROVE Goal
    BY <1>28, <1>a, <1>b DEF PollSlot, Own, Place, Beginning, Scanning, Searching, TypeThreads,
       TypeOK, TypeRecords, TypeClient
  <1>29. ASSUME UnregisterCount(t) PROVE Goal
    BY <1>29, <1>a, <1>b DEF UnregisterCount, Own, Place, Beginning, Scanning, Searching,
       TypeThreads, TypeOK, TypeRecords, TypeClient
  <1>30. ASSUME RecycleState(t) PROVE Goal
    BY <1>30, <1>a, <1>b DEF RecycleState, Own, Place, Beginning, Scanning, Searching, TypeThreads,
       TypeOK, TypeRecords, TypeClient
  <1>31. ASSUME RecycleSwap(t) PROVE Goal
    <2>1. cursor[t] \in Records /\ rec[t] = NULL
      BY <1>31, ListType DEF RecycleSwap, Users, Place, Searching
    <2>2. state[cursor[t]] = "free" /\ rec'[t] = cursor[t] /\ active' = active
      BY <1>31, <2>1 DEF RecycleSwap, TypeOK, TypeClient
    <2>3. \A u \in Threads : rec[u] # cursor[t]
      BY <1>a, <2>1, <2>2 DEF Users, Directory
    <2>4. active[cursor[t]] = 0
      BY <2>1, <2>3 DEF Users, Directory
    <2> QED
      BY <2>2, <2>4
  <1>32. ASSUME RecycleCount(t) PROVE Goal
    BY <1>32, <1>a, <1>b DEF RecycleCount, Own, Place, Beginning, Scanning, Searching, TypeThreads,
       TypeOK, TypeRecords, TypeClient
  <1> QED
    BY <1>1, <1>2, <1>3, <1>4, <1>5, <1>6, <1>7, <1>8, <1>9, <1>10, <1>11, <1>12, <1>13, <1>14,
       <1>15, <1>16, <1>17, <1>18, <1>19, <1>20, <1>21, <1>22, <1>23, <1>24, <1>25, <1>26, <1>27,
       <1>28, <1>29, <1>30, <1>31, <1>32 DEF Step, Choose, Continue

\* A scanner starts over, stays at its record, or passes it for a reason.
Restarts(t) == cursor'[t] = Newest
Stays(t) == pc[t] \in Scanning /\ snap'[t] = snap[t] /\ cursor'[t] = cursor[t]
Passes(t) ==
  /\ pc[t] \in Scanning /\ snap'[t] = snap[t] /\ cursor[t] \in Listed /\ cursor'[t] = After(cursor[t])
  /\ state[cursor[t]] = "free" \/ active[cursor[t]] = 0 \/ repoch[cursor[t]] = snap[t]

\* A step of ck_epoch_scan starts again, stays at its record or passes it.
LEMMA ScanMoves ==
  ASSUME TypeOK, Users, NEW t \in Threads, Step(t), pc'[t] \in Scanning \cup {"p_slot"}
  PROVE  /\ UNCHANGED <<records, rec, active, repoch>> /\ pc[t] # "b_store"
         /\ Restarts(t) \/ Stays(t) \/ Passes(t)
  <1>a. Place(t) /\ TypeThreads
    BY DEF Users, TypeOK
  <1> DEFINE Goal ==
         /\ UNCHANGED <<records, rec, active, repoch>> /\ pc[t] # "b_store"
         /\ Restarts(t) \/ Stays(t) \/ Passes(t)

  <1>1. ASSUME NEW h \in Handles, Begin(t, h) PROVE Goal
    BY <1>1, <1>a DEF Begin, Restarts, Stays, Passes, Place, Scanning, Searching, TypeThreads
  <1>2. ASSUME NEW h \in Handles, End(t, h) PROVE Goal
    BY <1>2, <1>a DEF End, Restarts, Stays, Passes, Place, Scanning, Searching, TypeThreads
  <1>3. ASSUME NEW h \in Handles, NEW o \in Objects, Dereference(t, h, o) PROVE Goal
    BY <1>3, <1>a DEF Dereference, Restarts, Stays, Passes, Place, Scanning, Searching, TypeThreads
  <1>4. ASSUME Observe(t) PROVE Goal
    BY <1>4, <1>a DEF Observe, Restarts, Stays, Passes, Place, Scanning, Searching, TypeThreads
  <1>5. ASSUME Synchronize(t) PROVE Goal
    BY <1>5, <1>a DEF Synchronize, Restarts, Stays, Passes, Place, Scanning, Searching, TypeThreads
  <1>6. ASSUME Poll(t) PROVE Goal
    BY <1>6, <1>a DEF Poll, Restarts, Stays, Passes, Place, Scanning, Searching, TypeThreads
  <1>7. ASSUME Register(t) PROVE Goal
    BY <1>7, <1>a DEF Register, Restarts, Stays, Passes, Place, Scanning, Searching, TypeThreads
  <1>8. ASSUME Unregister(t) PROVE Goal
    BY <1>8, <1>a DEF Unregister, Restarts, Stays, Passes, Place, Scanning, Searching, TypeThreads
  <1>9. ASSUME Recycle(t) PROVE Goal
    BY <1>9, <1>a DEF Recycle, Restarts, Stays, Passes, Place, Scanning, Searching, TypeThreads
  <1>10. ASSUME NEW o \in Objects, Unlink(t, o) PROVE Goal
    BY <1>10, <1>a DEF Unlink, Restarts, Stays, Passes, Place, Scanning, Searching, TypeThreads
  <1>11. ASSUME NEW o \in Objects, CallEarly(t, o) PROVE Goal
    BY <1>11, <1>a DEF CallEarly, Restarts, Stays, Passes, Place, Scanning, Searching, TypeThreads
  <1>12. ASSUME NEW r \in Records, NEW o \in Objects, Call(t, r, o) PROVE Goal
    BY <1>12, <1>a DEF Call, Restarts, Stays, Passes, Place, Scanning, Searching, TypeThreads
  <1>13. ASSUME BeginLoad(t) PROVE Goal
    BY <1>13, <1>a DEF BeginLoad, Restarts, Stays, Passes, Place, Scanning, Searching, TypeThreads
  <1>14. ASSUME BeginStore(t) PROVE Goal
    BY <1>14, <1>a DEF BeginStore, Restarts, Stays, Passes, Place, Scanning, Searching, TypeThreads
  <1>15. ASSUME Addref(t) PROVE Goal
    BY <1>15, <1>a DEF Addref, Restarts, Stays, Passes, Place, Scanning, Searching, TypeThreads
  <1>16. ASSUME Delref(t) PROVE Goal
    BY <1>16, <1>a DEF Delref, Restarts, Stays, Passes, Place, Scanning, Searching, TypeThreads
  <1>17. ASSUME ObserveStore(t) PROVE Goal
    BY <1>17, <1>a DEF ObserveStore, Restarts, Stays, Passes, Place, Scanning, Searching,
       TypeThreads
  <1>18. ASSUME CallUnlink(t) PROVE Goal
    BY <1>18, <1>a DEF CallUnlink, Restarts, Stays, Passes, Place, Scanning, Searching, TypeThreads
  <1>19. ASSUME CallPush(t) PROVE Goal
    BY <1>19, <1>a DEF CallPush, Restarts, Stays, Passes, Place, Scanning, Searching, TypeThreads
  <1>20. ASSUME ScanState(t) PROVE Goal
    BY <1>20, <1>a DEF ScanState, Restarts, Stays, Passes, Place, Scanning, Searching, TypeThreads
  <1>21. ASSUME ScanActive(t) PROVE Goal
    BY <1>21, <1>a DEF ScanActive, Restarts, Stays, Passes, Place, Scanning, Searching, TypeThreads
  <1>22. ASSUME ScanEpoch(t) PROVE Goal
    BY <1>22, <1>a DEF ScanEpoch, Restarts, Stays, Passes, Place, Scanning, Searching, TypeThreads
  <1>23. ASSUME SyncBlocked(t) PROVE Goal
    BY <1>23, <1>a DEF SyncBlocked, Restarts, Stays, Passes, Place, Scanning, Searching, TypeThreads
  <1>24. ASSUME SyncDone(t) PROVE Goal
    BY <1>24, <1>a DEF SyncDone, Restarts, Stays, Passes, Place, Scanning, Searching, TypeThreads
  <1>25. ASSUME ReclaimSlot(t) PROVE Goal
    BY <1>25, <1>a DEF ReclaimSlot, Restarts, Stays, Passes, Place, Scanning, Searching, TypeThreads
  <1>26. ASSUME PollBlocked(t) PROVE Goal
    BY <1>26, <1>a DEF PollBlocked, Restarts, Stays, Passes, Place, Scanning, Searching, TypeThreads
  <1>27. ASSUME PollDone(t) PROVE Goal
    BY <1>27, <1>a DEF PollDone, Restarts, Stays, Passes, Place, Scanning, Searching, TypeThreads
  <1>28. ASSUME PollSlot(t) PROVE Goal
    BY <1>28, <1>a DEF PollSlot, Restarts, Stays, Passes, Place, Scanning, Searching, TypeThreads
  <1>29. ASSUME UnregisterCount(t) PROVE Goal
    BY <1>29, <1>a DEF UnregisterCount, Restarts, Stays, Passes, Place, Scanning, Searching,
       TypeThreads
  <1>30. ASSUME RecycleState(t) PROVE Goal
    BY <1>30, <1>a DEF RecycleState, Restarts, Stays, Passes, Place, Scanning, Searching,
       TypeThreads
  <1>31. ASSUME RecycleSwap(t) PROVE Goal
    BY <1>31, <1>a DEF RecycleSwap, Restarts, Stays, Passes, Place, Scanning, Searching, TypeThreads
  <1>32. ASSUME RecycleCount(t) PROVE Goal
    BY <1>32, <1>a DEF RecycleCount, Restarts, Stays, Passes, Place, Scanning, Searching,
       TypeThreads
  <1> QED
    BY <1>1, <1>2, <1>3, <1>4, <1>5, <1>6, <1>7, <1>8, <1>9, <1>10, <1>11, <1>12, <1>13, <1>14,
       <1>15, <1>16, <1>17, <1>18, <1>19, <1>20, <1>21, <1>22, <1>23, <1>24, <1>25, <1>26, <1>27,
       <1>28, <1>29, <1>30, <1>31, <1>32 DEF Step, Choose, Continue

\* A record that a scan has passed advertises the epoch of the scan or a newer
\* one whenever it is active.
LEMMA PassedStep ==
  ASSUME TypeOK, TypeOK', Users, Directory', TickBound, Horizon,
         \A v \in Threads : Own(v) /\ Quiet(v) /\ Passed(v) /\ Buckets(v),
         NEW t \in Threads, Step(t), NEW u \in Threads
  PROVE  Passed(u)'
  <1> SUFFICES ASSUME pc'[u] \in Scanning \cup {"p_slot"}, NEW v \in Threads,
                      rec'[v] # NULL, active'[rec'[v]] > 0, pc'[v] # "b_load",
                      rec'[v] \notin FromIn(records', cursor'[u])
               PROVE  Then(Effective(v)') <= Then(snap'[u])
    BY DEF Passed, From, Age, Then
  <1>1. Effect(t)
    BY StepEffect
  <1>2. \A w \in Threads \ {t} : Same(w)
    BY <1>1 DEF Effect
  <1>3. \/ Effective(v)' = epoch
        \/ /\ rec'[v] = rec[v] /\ active[rec[v]] > 0 /\ pc[v] # "b_load"
           /\ Age(Effective(v)') <= Age(Effective(v))
    <2>1. CASE v = t
      BY <2>1, Renews
    <2>2. CASE v # t
      <3>1. /\ Same(v) /\ rec[v] \in Records /\ active'[rec[v]] = active[rec[v]]
            /\ repoch'[rec[v]] = repoch[rec[v]]
        BY <1>1, <1>2, <2>2, OthersRecord DEF Same
      <3>2. Effective(v)' = Effective(v) /\ Effective(v) \in Counter
        BY <3>1 DEF Same, Effective, TypeOK, TypeThreads, TypeRecords
      <3>3. Age(Effective(v)) \in Nat
        BY <3>2, AgeType DEF TypeOK, TypeGlobal
      <3> QED
        BY <3>1, <3>2, <3>3 DEF Same
    <2> QED
      BY <2>1, <2>2
  <1>4. Effective(v)' \in Counter /\ Age(Effective(v)') \in Nat /\ Age(epoch) = 0
    <2>1. Effective(v)' \in Counter
      BY DEF Effective, TypeOK, TypeThreads, TypeRecords, TypeClient
    <2> QED
      BY <2>1, AgeType, NowIsNew DEF TypeOK, TypeGlobal
  <1>5. ASSUME pc[u] \in Scanning \cup {"p_slot"}, snap'[u] = snap[u], Age(Effective(v)') <= Age(snap[u])
        PROVE  Then(Effective(v)') <= Then(snap'[u])
    <2>1. /\ ticks \in Nat /\ ticks' \in Nat /\ Age(snap[u]) \in Nat
          /\ Then(snap[u]) = Age(snap[u]) + (ticks' - ticks)
      BY <1>1, <1>5, OwnAges DEF Observing
    <2>2. Age(snap[u]) <= ticks /\ Lead \in Nat
      BY <1>5, LeadType DEF Horizon, Recent, Observing
    <2>3. Age(Effective(v)') <= ticks + Lead
      BY <1>4, <1>5, <2>1, <2>2
    <2>4. Then(Effective(v)') = Age(Effective(v)') + (ticks' - ticks)
      BY <1>1, <1>4, <2>3, AgeStep
    <2> QED
      BY <1>4, <1>5, <2>1, <2>4
  <1>6. CASE u # t
    <2>1. Same(u) /\ pc[u] \in Scanning \cup {"p_slot"}
      BY <1>2, <1>6 DEF Same
    <2>2. cursor[u] \in Listed \cup {NULL} /\ cursor'[u] = cursor[u] /\ snap'[u] = snap[u]
      BY <2>1 DEF Same, Users, Place, Scanning
    <2>3. FromIn(records', cursor'[u]) = From(cursor[u])
      BY <2>2, FromSame
    <2>4. Age(snap[u]) \in Nat
      BY AgeType DEF TypeOK, TypeGlobal, TypeThreads
    <2>5. Age(Effective(v)') <= Age(snap[u])
      <3>1. CASE Effective(v)' = epoch
        BY <1>4, <2>4, <3>1
      <3>2. CASE Effective(v)' # epoch
        <4>1. Age(Effective(v)) <= Age(snap[u])
          BY <1>3, <2>1, <2>3, <3>2 DEF Passed
        <4>2. Effective(v) \in Counter
          BY <1>3, <3>2 DEF Effective, TypeOK, TypeThreads, TypeRecords, TypeClient
        <4>3. Age(Effective(v)) \in Nat
          BY <4>2, AgeType DEF TypeOK, TypeGlobal
        <4> QED
          BY <1>3, <1>4, <2>4, <3>2, <4>1, <4>3
      <3> QED
        BY <3>1, <3>2
    <2> QED
      BY <1>5, <2>1, <2>2, <2>5
  <1>7. CASE u = t
    <2>1. /\ UNCHANGED <<records, rec, active, repoch>> /\ pc[t] # "b_store"
          /\ Restarts(t) \/ Stays(t) \/ Passes(t)
      BY <1>7, ScanMoves
    <2>2. rec[v] \in Listed /\ rec[v] \in Records /\ state[rec[v]] = "used"
      BY <2>1 DEF Users, Directory, TypeOK, TypeClient
    <2>3. Effective(v)' = Effective(v)
      <3>1. pc'[v] = "b_store" <=> pc[v] = "b_store"
        BY <1>2, <1>7, <2>1 DEF Same, Scanning
      <3>2. pc[v] = "b_store" => snap'[v] = snap[v]
        BY <1>2, <2>1 DEF Same
      <3> QED
        BY <2>1, <3>1, <3>2 DEF Effective
    <2>4. CASE Restarts(t)
      <3>1. From(Newest) = Listed
        BY <2>2, NewestFacts DEF TypeOK, TypeGlobal
      <3> QED
        BY <1>7, <2>1, <2>2, <2>4, <3>1 DEF Restarts, From
    <2>5. active[rec[v]] > 0 /\ rec[v] # NULL /\ (pc[v] # "b_load" \/ v = t)
      BY <1>2, <2>1 DEF Same
    <2>7. CASE Stays(t)
      <3>1. rec[v] \notin From(cursor[t]) /\ pc[v] # "b_load"
        BY <1>7, <2>1, <2>5, <2>7 DEF Stays, From, Scanning
      <3>2. Age(Effective(v)) <= Age(snap[t])
        BY <2>5, <2>7, <3>1 DEF Passed, Stays
      <3> QED
        BY <1>5, <1>7, <2>3, <2>7, <3>2 DEF Stays
    <2>8. CASE Passes(t)
      <3>1. rec[v] \notin From(cursor[t]) \ {cursor[t]} /\ pc[v] # "b_load"
        <4>1. From(After(cursor[t])) = From(cursor[t]) \ {cursor[t]}
          BY <2>8, AfterFacts DEF Passes, Users, Directory, TypeOK, TypeGlobal
        <4> QED
          BY <1>7, <2>1, <2>5, <2>8, <4>1 DEF Passes, From, Scanning
      <3>2. CASE rec[v] # cursor[t]
        <4>1. Age(Effective(v)) <= Age(snap[t])
          BY <2>5, <2>8, <3>1, <3>2 DEF Passed, Passes
        <4> QED
          BY <1>5, <1>7, <2>3, <2>8, <4>1 DEF Passes
      <3>3. CASE rec[v] = cursor[t]
        <4>1. repoch[rec[v]] = snap[t]
          BY <2>2, <2>5, <2>8, <3>3 DEF Passes, TypeOK, TypeRecords
        <4>2. pc[v] = "b_store" => Age(snap[v]) <= Age(repoch[rec[v]])
          BY <2>5 DEF Own
        <4>3. Age(snap[t]) \in Nat
          BY AgeType DEF TypeOK, TypeGlobal, TypeThreads
        <4>4. Age(Effective(v)) <= Age(snap[t])
          BY <4>1, <4>2, <4>3 DEF Effective
        <4> QED
          BY <1>5, <1>7, <2>3, <2>8, <4>4 DEF Passes
      <3> QED
        BY <3>2, <3>3
    <2> QED
      BY <2>1, <2>4, <2>7, <2>8
  <1> QED
    BY <1>6, <1>7


-----------------------------------------------------------------------------
(* Section objects. *)

\* The open sections of a thread in one bucket are finite in number.
LEMMA OpenFacts ==
  ASSUME TypeOK, NEW t \in Threads, NEW b \in 0 .. 1
  PROVE  /\ IsFiniteSet(Open(t, b)) /\ Cardinality(Open(t, b)) \in Nat
         /\ Cardinality(Open(t, b)) = 0 <=> Open(t, b) = {}
         /\ sec[t] = NoSection => Open(t, b) = {}
  <1>1. IsFiniteSet(Open(t, b))
    BY FS_Subset, EpochAssumption DEF Open
  <1>2. Cardinality(Open(t, b)) \in Nat /\ (Cardinality(Open(t, b)) = 0 <=> Open(t, b) = {})
    BY <1>1, FS_CardinalityType, FS_EmptySet
  <1>3. b # NULL
    BY EpochAssumption
  <1>4. sec[t] = NoSection => Open(t, b) = {}
    BY <1>3 DEF Open, NoSection
  <1> QED
    BY <1>1, <1>2, <1>4

\* A record without sections has none in its buckets.
LEMMA NoSections ==
  ASSUME TypeOK, NEW t \in Threads, Counts(t), SectionPlace(t), rec[t] # NULL,
         ~sectioned \/ active[rec[t]] + (IF pc[t] = "e_ref" THEN 1 ELSE 0) = (IF pc[t] \in Beginning THEN 1 ELSE 0)
  PROVE  sec[t] = NoSection /\ \A b \in 0 .. 1 : bucket[rec[t]][b].count = 0
  <1>1. \A b \in 0 .. 1 : bucket[rec[t]][b].count = Cardinality(Open(t, b)) /\ bucket[rec[t]][b].count \in Nat
    BY OpenFacts DEF Counts
  <1>2. \A b \in 0 .. 1 : bucket[rec[t]][b].count = 0
    <2>1. CASE ~sectioned
      BY <1>1, <2>1, OpenFacts DEF SectionPlace
    <2>2. CASE sectioned
      <3>1. bucket[rec[t]][0].count + bucket[rec[t]][1].count = 0
            /\ bucket[rec[t]][0].count \in Nat /\ bucket[rec[t]][1].count \in Nat
        BY <1>1, <2>2 DEF Counts, Beginning
      <3> QED
        BY <3>1
    <2> QED
      BY <2>1, <2>2
  <1>3. Open(t, 0) = {} /\ Open(t, 1) = {}
    BY <1>1, <1>2, OpenFacts
  <1>4. \A h \in Handles : sec[t][h] = NULL
    BY <1>3 DEF Open, TypeOK, TypeClient
  <1>5. sec[t] = NoSection
    BY <1>4 DEF NoSection, TypeOK, TypeClient
  <1> QED
    BY <1>2, <1>5

\* A thread is inside ck_epoch_begin or ck_epoch_end for a section it has or gets.
LEMMA SectionPlaceSelf ==
  ASSUME TypeOK, NEW t \in Threads, SectionPlace(t), Step(t)
  PROVE  SectionPlace(t)'

  <1>1. ASSUME NEW h \in Handles, Begin(t, h) PROVE SectionPlace(t)'
    BY <1>1 DEF Begin, SectionPlace, Beginning, TypeOK, TypeClient, TypeThreads
  <1>2. ASSUME NEW h \in Handles, End(t, h) PROVE SectionPlace(t)'
    BY <1>2 DEF End, SectionPlace, Beginning, TypeOK, TypeClient, TypeThreads
  <1>3. ASSUME NEW h \in Handles, NEW o \in Objects, Dereference(t, h, o) PROVE SectionPlace(t)'
    BY <1>3 DEF Dereference, SectionPlace, Beginning, TypeOK, TypeClient, TypeThreads
  <1>4. ASSUME Observe(t) PROVE SectionPlace(t)'
    BY <1>4 DEF Observe, SectionPlace, Beginning, TypeOK, TypeClient, TypeThreads
  <1>5. ASSUME Synchronize(t) PROVE SectionPlace(t)'
    BY <1>5 DEF Synchronize, SectionPlace, Beginning, TypeOK, TypeClient, TypeThreads
  <1>6. ASSUME Poll(t) PROVE SectionPlace(t)'
    BY <1>6 DEF Poll, SectionPlace, Beginning, TypeOK, TypeClient, TypeThreads
  <1>7. ASSUME Register(t) PROVE SectionPlace(t)'
    BY <1>7 DEF Register, SectionPlace, Beginning, TypeOK, TypeClient, TypeThreads
  <1>8. ASSUME Unregister(t) PROVE SectionPlace(t)'
    BY <1>8 DEF Unregister, SectionPlace, Beginning, TypeOK, TypeClient, TypeThreads
  <1>9. ASSUME Recycle(t) PROVE SectionPlace(t)'
    BY <1>9 DEF Recycle, SectionPlace, Beginning, TypeOK, TypeClient, TypeThreads
  <1>10. ASSUME NEW o \in Objects, Unlink(t, o) PROVE SectionPlace(t)'
    BY <1>10 DEF Unlink, SectionPlace, Beginning, TypeOK, TypeClient, TypeThreads
  <1>11. ASSUME NEW o \in Objects, CallEarly(t, o) PROVE SectionPlace(t)'
    BY <1>11 DEF CallEarly, SectionPlace, Beginning, TypeOK, TypeClient, TypeThreads
  <1>12. ASSUME NEW r \in Records, NEW o \in Objects, Call(t, r, o) PROVE SectionPlace(t)'
    BY <1>12 DEF Call, SectionPlace, Beginning, TypeOK, TypeClient, TypeThreads
  <1>13. ASSUME BeginLoad(t) PROVE SectionPlace(t)'
    BY <1>13 DEF BeginLoad, SectionPlace, Beginning, TypeOK, TypeClient, TypeThreads
  <1>14. ASSUME BeginStore(t) PROVE SectionPlace(t)'
    BY <1>14 DEF BeginStore, SectionPlace, Beginning, TypeOK, TypeClient, TypeThreads
  <1>15. ASSUME Addref(t) PROVE SectionPlace(t)'
    BY <1>15 DEF Addref, SectionPlace, Beginning, TypeOK, TypeClient, TypeThreads
  <1>16. ASSUME Delref(t) PROVE SectionPlace(t)'
    BY <1>16 DEF Delref, SectionPlace, Beginning, TypeOK, TypeClient, TypeThreads
  <1>17. ASSUME ObserveStore(t) PROVE SectionPlace(t)'
    BY <1>17 DEF ObserveStore, SectionPlace, Beginning, TypeOK, TypeClient, TypeThreads
  <1>18. ASSUME CallUnlink(t) PROVE SectionPlace(t)'
    BY <1>18 DEF CallUnlink, SectionPlace, Beginning, TypeOK, TypeClient, TypeThreads
  <1>19. ASSUME CallPush(t) PROVE SectionPlace(t)'
    BY <1>19 DEF CallPush, SectionPlace, Beginning, TypeOK, TypeClient, TypeThreads
  <1>20. ASSUME ScanState(t) PROVE SectionPlace(t)'
    BY <1>20 DEF ScanState, SectionPlace, Beginning, TypeOK, TypeClient, TypeThreads
  <1>21. ASSUME ScanActive(t) PROVE SectionPlace(t)'
    BY <1>21 DEF ScanActive, SectionPlace, Beginning, TypeOK, TypeClient, TypeThreads
  <1>22. ASSUME ScanEpoch(t) PROVE SectionPlace(t)'
    BY <1>22 DEF ScanEpoch, SectionPlace, Beginning, TypeOK, TypeClient, TypeThreads
  <1>23. ASSUME SyncBlocked(t) PROVE SectionPlace(t)'
    BY <1>23 DEF SyncBlocked, SectionPlace, Beginning, TypeOK, TypeClient, TypeThreads
  <1>24. ASSUME SyncDone(t) PROVE SectionPlace(t)'
    BY <1>24 DEF SyncDone, SectionPlace, Beginning, TypeOK, TypeClient, TypeThreads
  <1>25. ASSUME ReclaimSlot(t) PROVE SectionPlace(t)'
    BY <1>25 DEF ReclaimSlot, SectionPlace, Beginning, TypeOK, TypeClient, TypeThreads
  <1>26. ASSUME PollBlocked(t) PROVE SectionPlace(t)'
    BY <1>26 DEF PollBlocked, SectionPlace, Beginning, TypeOK, TypeClient, TypeThreads
  <1>27. ASSUME PollDone(t) PROVE SectionPlace(t)'
    BY <1>27 DEF PollDone, SectionPlace, Beginning, TypeOK, TypeClient, TypeThreads
  <1>28. ASSUME PollSlot(t) PROVE SectionPlace(t)'
    BY <1>28 DEF PollSlot, SectionPlace, Beginning, TypeOK, TypeClient, TypeThreads
  <1>29. ASSUME UnregisterCount(t) PROVE SectionPlace(t)'
    BY <1>29 DEF UnregisterCount, SectionPlace, Beginning, TypeOK, TypeClient, TypeThreads
  <1>30. ASSUME RecycleState(t) PROVE SectionPlace(t)'
    BY <1>30 DEF RecycleState, SectionPlace, Beginning, TypeOK, TypeClient, TypeThreads
  <1>31. ASSUME RecycleSwap(t) PROVE SectionPlace(t)'
    BY <1>31 DEF RecycleSwap, SectionPlace, Beginning, TypeOK, TypeClient, TypeThreads
  <1>32. ASSUME RecycleCount(t) PROVE SectionPlace(t)'
    BY <1>32 DEF RecycleCount, SectionPlace, Beginning, TypeOK, TypeClient, TypeThreads
  <1> QED
    BY <1>1, <1>2, <1>3, <1>4, <1>5, <1>6, <1>7, <1>8, <1>9, <1>10, <1>11, <1>12, <1>13, <1>14,
       <1>15, <1>16, <1>17, <1>18, <1>19, <1>20, <1>21, <1>22, <1>23, <1>24, <1>25, <1>26, <1>27,
       <1>28, <1>29, <1>30, <1>31, <1>32 DEF Step, Choose, Continue

\* Only its owner changes the buckets of a record.
LEMMA BucketsOthers ==
  ASSUME TypeOK, Users, Directory', TickBound, Horizon, NEW t \in Threads, Effect(t),
         NEW u \in Threads, u # t, Buckets(u)
  PROVE  Buckets(u)'
  <1>1. /\ Same(u) /\ sectioned' = sectioned
        /\ rec[u] # NULL => /\ rec[u] \in Records /\ active'[rec[u]] = active[rec[u]]
                            /\ repoch'[rec[u]] = repoch[rec[u]] /\ bucket'[rec[u]] = bucket[rec[u]]
    BY OthersRecord DEF Effect
  <1>2. \A b \in 0 .. 1 : Open(u, b)' = Open(u, b)
    BY <1>1 DEF Same, Open
  <1>3. Counts(u)'
    BY <1>1, <1>2 DEF Buckets, Counts, Same
  <1>4. SectionPlace(u)'
    BY <1>1 DEF Buckets, SectionPlace, Same
  <1>5. ASSUME rec[u] # NULL, NEW b \in 0 .. 1, bucket[rec[u]][b].count > 0
        PROVE  Then(bucket[rec[u]][b].epoch) <= Then(repoch[rec[u]])
    <2> DEFINE v == bucket[rec[u]][b].epoch
               w == repoch[rec[u]]
    <2>1. v \in Counter /\ Age(v) <= Age(w)
      BY <1>1, <1>5 DEF Buckets, BucketAges, TypeOK, TypeRecords
    <2>2. Age(w) \in Nat /\ Age(w) <= ticks + Lead /\ Then(w) = Age(w) + (ticks' - ticks)
          /\ ticks \in Nat /\ ticks' \in Nat
      BY <1>1, <1>5, OwnAges
    <2> HIDE DEF v, w
    <2>3. Age(v) \in Nat /\ Lead \in Nat
      BY <2>1, AgeType, LeadType DEF TypeOK, TypeGlobal
    <2>4. Age(v) <= ticks + Lead
      BY <2>1, <2>2, <2>3
    <2>5. Then(v) = Age(v) + (ticks' - ticks)
      BY <2>1, <2>4, AgeStep
    <2>6. Then(v) <= Then(w)
      BY <2>1, <2>2, <2>3, <2>5
    <2> QED
      BY <2>6 DEF v, w
  <1>6. BucketAges(u)'
    BY <1>1, <1>5 DEF BucketAges, Same, Age, Then
  <1> QED
    BY <1>3, <1>4, <1>6 DEF Buckets


\* Steps that leave the sections of the thread's record as they are.
Unsectioned(t) ==
  /\ UNCHANGED <<rec, sec, bucket, active>>
  /\ sectioned => (pc'[t] \in Beginning <=> pc[t] \in Beginning)
  /\ pc[t] # "e_ref" /\ pc'[t] # "e_ref"

\* Only these steps change the sections of a record.
LEMMA SectionMoves ==
  ASSUME TypeOK, NEW t \in Threads, Step(t)
  PROVE  \/ Unsectioned(t)
         \/ (\E h \in Handles : Begin(t, h)) \/ (\E h \in Handles : End(t, h)) \/ Addref(t) \/ Delref(t)
         \/ Register(t) \/ Unregister(t) \/ (RecycleSwap(t) /\ state[cursor[t]] = "free")
  <1> DEFINE Goal ==
         \/ Unsectioned(t)
         \/ (\E h \in Handles : Begin(t, h)) \/ (\E h \in Handles : End(t, h)) \/ Addref(t) \/ Delref(t)
         \/ Register(t) \/ Unregister(t) \/ (RecycleSwap(t) /\ state[cursor[t]] = "free")

  <1>1. CASE (\E h \in Handles, o \in Objects : Dereference(t, h, o)) \/ Observe(t) \/ Synchronize(t)
             \/ Poll(t) \/ Recycle(t)
    BY <1>1 DEF Dereference, Observe, Synchronize, Poll, Recycle, Unsectioned, Beginning, TypeOK,
       TypeThreads
  <1>2. CASE (\E o \in Objects : Unlink(t, o)) \/ (\E o \in Objects : CallEarly(t, o))
             \/ (\E r \in Records, o \in Objects : Call(t, r, o)) \/ BeginLoad(t) \/ BeginStore(t)
    BY <1>2 DEF Unlink, CallEarly, Call, BeginLoad, BeginStore, Unsectioned, Beginning, TypeOK,
       TypeThreads
  <1>3. CASE ObserveStore(t) \/ CallUnlink(t) \/ CallPush(t) \/ ScanState(t) \/ ScanActive(t)
    BY <1>3 DEF ObserveStore, CallUnlink, CallPush, ScanState, ScanActive,
        Unsectioned, Beginning, TypeOK, TypeThreads
  <1>4. CASE ScanEpoch(t) \/ SyncBlocked(t) \/ SyncDone(t) \/ ReclaimSlot(t) \/ PollBlocked(t)
    BY <1>4 DEF ScanEpoch, SyncBlocked, SyncDone, ReclaimSlot, PollBlocked,
        Unsectioned, Beginning, TypeOK, TypeThreads
  <1>5. CASE PollDone(t) \/ PollSlot(t) \/ UnregisterCount(t) \/ RecycleState(t) \/ RecycleCount(t)
    BY <1>5 DEF PollDone, PollSlot, UnregisterCount, RecycleState, RecycleCount,
        Unsectioned, Beginning, TypeOK, TypeThreads
  <1>6. ASSUME NEW h \in Handles, Begin(t, h) PROVE Goal
    BY <1>6
  <1>7. ASSUME NEW h \in Handles, End(t, h) PROVE Goal
    BY <1>7
  <1>8. CASE Addref(t)
    BY <1>8
  <1>9. CASE Delref(t)
    BY <1>9
  <1>10. CASE Register(t)
    BY <1>10
  <1>11. CASE Unregister(t)
    BY <1>11
  <1>12. CASE RecycleSwap(t)
    BY <1>12 DEF RecycleSwap, Unsectioned, Beginning, TypeOK, TypeThreads
  <1> QED
    BY <1>1, <1>2, <1>3, <1>4, <1>5, <1>6, <1>7, <1>8, <1>9, <1>10, <1>11, <1>12 DEF Step, Choose,
       Continue

\* A bucket counts the sections that hold it.
LEMMA CountsSelf ==
  ASSUME TypeOK, TypeOK', Users, NEW t \in Threads, Own(t), Counts(t), SectionPlace(t), Step(t)
  PROVE  Counts(t)'
  <1>a. /\ sectioned' = sectioned /\ Place(t) /\ NULL \notin Records
        /\ rec \in [Threads -> Records \cup {NULL}] /\ sec \in [Threads -> [Handles -> {0, 1, NULL}]]
        /\ active \in [Records -> Nat] /\ pc \in [Threads -> Labels]
        /\ bucket \in [Records -> [0 .. 1 -> [epoch : Counter, count : Nat]]]
    BY EpochAssumption, StepEffect DEF Effect, Users, TypeOK, TypeRecords, TypeClient, TypeThreads
  <1>b. ASSUME sec' = sec, NEW b \in 0 .. 1 PROVE Open(t, b)' = Open(t, b)
    BY <1>b DEF Open
  <1>1. CASE Unsectioned(t)
    BY <1>1, <1>a, <1>b DEF Unsectioned, Counts
  <1>2. ASSUME NEW h \in Handles, Begin(t, h) PROVE Counts(t)'
    <2>1. /\ rec' = rec /\ sec' = sec /\ bucket' = bucket /\ rec[t] \in Records
          /\ active'[rec[t]] = active[rec[t]] + 1 /\ pc[t] = "idle"
          /\ sectioned => pc'[t] \in {"b_load", "b_ref"}
      BY <1>2, <1>a DEF Begin
    <2> QED
      BY <1>a, <1>b, <2>1 DEF Counts, Beginning
  <1>3. ASSUME NEW h \in Handles, End(t, h) PROVE Counts(t)'
    <2>1. /\ rec' = rec /\ sec' = sec /\ bucket' = bucket /\ rec[t] \in Records
          /\ active'[rec[t]] = active[rec[t]] - 1 /\ pc[t] = "idle"
          /\ sectioned => pc'[t] = "e_ref"
      BY <1>3, <1>a DEF End
    <2> QED
      BY <1>a, <1>b, <2>1 DEF Counts, Beginning
  <1>4. CASE Addref(t)
    <2> DEFINE r == rec[t]
    <2>1. /\ pc[t] = "b_ref" /\ pc'[t] = "idle" /\ r \in Records /\ sectioned
          /\ arg[t] \in Handles /\ sec[t][arg[t]] = NULL
      BY <1>4, <1>a DEF Addref, SectionPlace, Place, Searching, Beginning
    <2>a. PICK a \in Handles, b \in 0 .. 1 : a = arg[t] /\ b = epoch % 2
      <3>1. epoch % 2 \in 0 .. 1
        BY Zero, Parity DEF TypeOK, TypeGlobal
      <3> QED
        BY <2>1, <3>1
    <2>2. b \in 0 .. 1 /\ 1 - b \in 0 .. 1 /\ b # 1 - b /\ sec[t][a] = NULL
      BY <2>1, <2>a
    <2>3. /\ rec' = rec /\ active' = active /\ sec'[t] = [sec[t] EXCEPT ![a] = b]
          /\ bucket'[r][b].count = bucket[r][b].count + 1
          /\ bucket'[r][1 - b].count = bucket[r][1 - b].count
      <3>1. bucket' = [bucket EXCEPT ![r][b] =
               [epoch |-> IF @.count = 0 THEN epoch ELSE @.epoch, count |-> @.count + 1]]
        BY <1>4, <2>a DEF Addref
      <3>2. rec' = rec /\ active' = active /\ sec'[t] = [sec[t] EXCEPT ![a] = b]
        BY <1>4, <1>a, <2>a DEF Addref
      <3> QED
        BY <1>a, <2>1, <2>2, <3>1, <3>2
    <2>4. Open(t, b)' = Open(t, b) \cup {a} /\ a \notin Open(t, b)
      BY <1>a, <2>1, <2>2, <2>3, EpochAssumption DEF Open
    <2>5. Open(t, 1 - b)' = Open(t, 1 - b)
      <3>1. 1 - b # b /\ 1 - b # NULL
        BY <2>2, EpochAssumption
      <3> QED
        BY <1>a, <2>1, <2>2, <2>3, <3>1 DEF Open
    <2>6. /\ Cardinality(Open(t, b)') = Cardinality(Open(t, b)) + 1
          /\ Cardinality(Open(t, 1 - b)') = Cardinality(Open(t, 1 - b))
      BY <2>2, <2>4, <2>5, AddMember, OpenFacts
    <2>7. \A x \in 0 .. 1 : bucket'[r][x].count = Cardinality(Open(t, x)')
      <3>1. bucket'[r][b].count = Cardinality(Open(t, b)')
        BY <2>1, <2>2, <2>3, <2>6, <1>a DEF Counts
      <3>2. bucket'[r][1 - b].count = Cardinality(Open(t, 1 - b)')
        BY <2>1, <2>2, <2>3, <2>6, <1>a DEF Counts
      <3>3. \A x \in 0 .. 1 : x = b \/ x = 1 - b
        BY <2>2
      <3> QED
        BY <3>1, <3>2, <3>3
    <2>8. bucket'[r][0].count + bucket'[r][1].count = active[r]
      <3>1. bucket[r][0].count + bucket[r][1].count + 1 = active[r]
        BY <1>a, <2>1 DEF Counts, Beginning
      <3>2. bucket[r][0].count \in Nat /\ bucket[r][1].count \in Nat /\ active[r] \in Nat
        BY <1>a, <2>1
      <3>3. CASE b = 0
        BY <2>3, <3>1, <3>2, <3>3
      <3>4. CASE b = 1
        BY <2>3, <3>1, <3>2, <3>4
      <3> QED
        BY <2>2, <3>3, <3>4
    <2> QED
      BY <1>a, <2>1, <2>3, <2>7, <2>8 DEF Counts, Beginning
  <1>5. CASE Delref(t)
    <2> DEFINE r == rec[t]
    <2>1. /\ pc[t] = "e_ref" /\ pc'[t] = "idle" /\ r \in Records /\ sectioned
          /\ arg[t] \in Handles /\ sec[t][arg[t]] # NULL
      BY <1>5, <1>a DEF Delref, SectionPlace, Place, Searching
    <2>a. PICK a \in Handles, b \in 0 .. 1 : a = arg[t] /\ b = sec[t][a]
      <3>1. sec[t][arg[t]] = 0 \/ sec[t][arg[t]] = 1
        BY <1>a, <2>1
      <3> QED
        BY <2>1, <3>1
    <2>2. b \in 0 .. 1 /\ 1 - b \in 0 .. 1 /\ b # 1 - b
      OBVIOUS
    <2>3. /\ rec' = rec /\ active' = active /\ sec'[t] = [sec[t] EXCEPT ![a] = NULL]
          /\ bucket'[r][b].count = bucket[r][b].count - 1
          /\ bucket'[r][1 - b].count = bucket[r][1 - b].count
      <3>1. bucket' = [bucket EXCEPT ![r][b].count = @ - 1]
        BY <1>5, <2>a DEF Delref
      <3>2. rec' = rec /\ active' = active /\ sec'[t] = [sec[t] EXCEPT ![a] = NULL]
        BY <1>5, <1>a, <2>a DEF Delref
      <3> QED
        BY <1>a, <2>1, <2>2, <3>1, <3>2
    <2>4. Open(t, b)' = Open(t, b) \ {a} /\ a \in Open(t, b)
      BY <1>a, <2>a, <2>1, <2>2, <2>3 DEF Open
    <2>5. Open(t, 1 - b)' = Open(t, 1 - b)
      <3>1. 1 - b # b /\ 1 - b # NULL
        BY <2>2, EpochAssumption
      <3> QED
        BY <1>a, <2>a, <2>1, <2>3, <3>1 DEF Open
    <2>6. /\ Cardinality(Open(t, b)') = Cardinality(Open(t, b)) - 1
          /\ Cardinality(Open(t, 1 - b)') = Cardinality(Open(t, 1 - b))
      BY <2>2, <2>4, <2>5, RemoveMember, OpenFacts
    <2>7. \A x \in 0 .. 1 : bucket'[r][x].count = Cardinality(Open(t, x)')
      <3>1. bucket'[r][b].count = Cardinality(Open(t, b)')
        BY <2>1, <2>2, <2>3, <2>6, <1>a DEF Counts
      <3>2. bucket'[r][1 - b].count = Cardinality(Open(t, 1 - b)')
        BY <2>1, <2>2, <2>3, <2>6, <1>a DEF Counts
      <3>3. \A x \in 0 .. 1 : x = b \/ x = 1 - b
        BY <2>2
      <3> QED
        BY <3>1, <3>2, <3>3
    <2>8. bucket'[r][0].count + bucket'[r][1].count = active[r]
      <3>1. bucket[r][0].count + bucket[r][1].count = active[r] + 1
        BY <1>a, <2>1 DEF Counts, Beginning
      <3>2. bucket[r][0].count \in Nat /\ bucket[r][1].count \in Nat /\ active[r] \in Nat
        BY <1>a, <2>1
      <3>3. CASE b = 0
        BY <2>3, <3>1, <3>2, <3>3
      <3>4. CASE b = 1
        BY <2>3, <3>1, <3>2, <3>4
      <3> QED
        BY <2>2, <3>3, <3>4
    <2> QED
      BY <1>a, <2>1, <2>3, <2>7, <2>8 DEF Counts, Beginning
  <1>c. ASSUME NEW r \in Records, rec[t] = NULL, rec'[t] = r, sec' = sec,
               pc'[t] \notin Beginning \cup {"e_ref"},
               active'[r] = 0, \A b \in 0 .. 1 : bucket'[r][b].count = 0
        PROVE  Counts(t)'
    <2>1. \A b \in 0 .. 1 : Cardinality(Open(t, b)') = 0
      <3>1. \A b \in 0 .. 1 : Open(t, b)' = {}
        BY <1>b, <1>c, OpenFacts DEF Counts
      <3> QED
        BY <3>1, FS_EmptySet
    <2> QED
      BY <1>a, <1>c, <2>1 DEF Counts
  <1>6. CASE Register(t)
    <2>1. PICK r \in Records :
            /\ rec[t] = NULL /\ rec' = [rec EXCEPT ![t] = r] /\ active' = [active EXCEPT ![r] = 0]
            /\ bucket' = [bucket EXCEPT ![r] = EmptyBuckets] /\ sec' = sec /\ pc'[t] = "idle"
      BY <1>6 DEF Register
    <2>2. rec'[t] = r /\ active'[r] = 0 /\ \A b \in 0 .. 1 : bucket'[r][b].count = 0
      BY <1>a, <2>1 DEF EmptyBuckets
    <2> QED
      BY <1>c, <2>1, <2>2 DEF Beginning
  <1>7. CASE Unregister(t)
    <2>1. rec[t] # NULL /\ active[rec[t]] = 0 /\ pc[t] = "idle" /\ rec'[t] = NULL /\ sec' = sec
      BY <1>7, <1>a DEF Unregister
    <2>2. sec[t] = NoSection
      BY <2>1, NoSections DEF Beginning
    <2> QED
      BY <2>1, <2>2 DEF Counts, NoSection
  <1>8. CASE RecycleSwap(t) /\ state[cursor[t]] = "free"
    <2>1. /\ cursor[t] \in Records /\ rec[t] = NULL /\ rec'[t] = cursor[t] /\ sec' = sec
          /\ pc'[t] = "f_dec" /\ active' = active /\ bucket' = bucket
      BY <1>8, <1>a, ListType DEF RecycleSwap, Place, Searching
    <2>2. \A u \in Threads : rec[u] # cursor[t]
      BY <1>8, <1>a, <2>1 DEF Users, Directory
    <2>3. active[cursor[t]] = 0 /\ \A b \in 0 .. 1 : bucket[cursor[t]][b].count = 0
      BY <2>1, <2>2 DEF Users, Directory
    <2> QED
      BY <1>c, <2>1, <2>3 DEF Beginning
  <1> QED
    BY <1>1, <1>2, <1>3, <1>4, <1>5, <1>6, <1>7, <1>8, SectionMoves


\* The epoch of a bucket in use is not older than the one its record advertises.
LEMMA BucketAgesSelf ==
  ASSUME TypeOK, TypeOK', Users, TickBound, Horizon,
         NEW t \in Threads, Own(t), Quiet(t), Buckets(t), Step(t)
  PROVE  BucketAges(t)'
  <1>a. /\ Effect(t) /\ Place(t) /\ NULL \notin Records
        /\ rec \in [Threads -> Records \cup {NULL}] /\ repoch \in [Records -> Counter]
        /\ bucket \in [Records -> [0 .. 1 -> [epoch : Counter, count : Nat]]]
    BY EpochAssumption, StepEffect DEF Users, TypeOK, TypeRecords, TypeClient
  <1>b. SUFFICES ASSUME rec'[t] # NULL, NEW b \in 0 .. 1, bucket'[rec'[t]][b].count > 0
                 PROVE  Then(bucket'[rec'[t]][b].epoch) <= Then(repoch'[rec'[t]])
    BY DEF BucketAges, Age, Then
  <1>c. ASSUME rec'[t] = rec[t], repoch'[rec[t]] = repoch[rec[t]],
               \/ bucket'[rec[t]][b].epoch = epoch
               \/ bucket[rec[t]][b].count > 0 /\ bucket'[rec[t]][b].epoch = bucket[rec[t]][b].epoch
        PROVE  Then(bucket'[rec'[t]][b].epoch) <= Then(repoch'[rec'[t]])
    <2> DEFINE v == bucket'[rec[t]][b].epoch
               w == repoch[rec[t]]
    <2>1. rec[t] \in Records
      BY <1>a, <1>b, <1>c
    <2>2. v \in Counter
      BY <2>1 DEF TypeOK, TypeRecords
    <2>3. Age(w) \in Nat /\ Age(w) <= ticks + Lead /\ Then(w) = Age(w) + (ticks' - ticks)
          /\ ticks \in Nat /\ ticks' \in Nat
      BY <1>a, <2>1, OwnAges
    <2>4. Age(epoch) = 0
      BY NowIsNew
    <2>5. Age(v) <= Age(w)
      BY <1>b, <1>c, <2>1, <2>3, <2>4 DEF Buckets, BucketAges
    <2> HIDE DEF v, w
    <2>6. Age(v) \in Nat /\ Lead \in Nat
      BY <2>2, AgeType, LeadType DEF TypeOK, TypeGlobal
    <2>7. Age(v) <= ticks + Lead
      BY <2>3, <2>5, <2>6
    <2>8. Then(v) = Age(v) + (ticks' - ticks)
      BY <1>a, <2>2, <2>7, AgeStep
    <2>9. Then(v) <= Then(w)
      BY <2>3, <2>5, <2>6, <2>8
    <2> QED
      BY <1>c, <2>9 DEF v, w
  <1>1. CASE Unsectioned(t)
    <2>1. rec' = rec /\ bucket' = bucket /\ rec[t] \in Records /\ pc[t] # "e_ref"
      BY <1>1, <1>a, <1>b DEF Unsectioned
    <2>2. CASE repoch' = repoch
      BY <1>b, <1>c, <2>1, <2>2
    <2>3. ASSUME ~sectioned \/ active[rec[t]] + (IF pc[t] = "e_ref" THEN 1 ELSE 0) = (IF pc[t] \in Beginning THEN 1 ELSE 0)
          PROVE  FALSE
      <3>1. bucket[rec[t]][b].count = 0
        BY <1>a, <2>1, <2>3, NoSections DEF Buckets
      <3> QED
        BY <1>b, <2>1, <3>1
    <2>4. CASE BeginStore(t)
      <3>1. pc[t] = "b_store" /\ active[rec[t]] = 1
        BY <2>4, <2>1, <1>a DEF BeginStore, Own
      <3> QED
        BY <2>3, <3>1 DEF Beginning
    <2>5. CASE ObserveStore(t)
      BY <2>3, <2>5 DEF ObserveStore, Buckets, SectionPlace
    <2>6. CASE PollDone(t)
      <3>1. CASE af[t]
        BY <2>2, <2>6, <3>1 DEF PollDone
      <3>2. CASE ~af[t]
        <4>1. pc[t] = "s_done" /\ cursor[t] = NULL
          BY <1>a, <2>6 DEF PollDone, Place
        <4>2. active[rec[t]] = 0
          BY <3>2, <4>1, FromNull DEF Quiet, Scanning, TypeOK, TypeGlobal
        <4> QED
          BY <2>3, <4>1, <4>2 DEF Beginning
      <3> QED
        BY <3>1, <3>2
    <2>7. CASE Delref(t)
      BY <2>1, <2>7 DEF Delref
    <2>8. CASE Register(t)
      BY <1>a, <2>1, <2>8 DEF Register
    <2>9. CASE Unregister(t)
      BY <1>a, <1>b, <2>9 DEF Unregister
    <2> QED
      BY <2>2, <2>4, <2>5, <2>6, <2>7, <2>8, <2>9, Advertising
  <1>2. ASSUME NEW h \in Handles, Begin(t, h) \/ End(t, h)
        PROVE  Then(bucket'[rec'[t]][b].epoch) <= Then(repoch'[rec'[t]])
    BY <1>2, <1>b, <1>c DEF Begin, End
  <1>3. CASE Addref(t)
    <2>1. rec' = rec /\ repoch' = repoch /\ rec[t] \in Records
      BY <1>3, <1>a, <1>b DEF Addref
    <2>2. bucket' = [bucket EXCEPT ![rec[t]][epoch % 2] =
            [epoch |-> IF @.count = 0 THEN epoch ELSE @.epoch, count |-> @.count + 1]]
      BY <1>3 DEF Addref
    <2>3. CASE b = epoch % 2
      <3>1. bucket'[rec[t]][b].epoch = IF bucket[rec[t]][b].count = 0 THEN epoch ELSE bucket[rec[t]][b].epoch
        BY <1>a, <2>1, <2>2, <2>3
      <3>2. bucket[rec[t]][b].count \in Nat
        BY <1>a, <2>1
      <3> QED
        BY <1>c, <2>1, <3>1, <3>2
    <2>4. CASE b # epoch % 2
      <3>1. bucket'[rec[t]][b] = bucket[rec[t]][b]
        BY <1>a, <2>1, <2>2, <2>4
      <3> QED
        BY <1>b, <1>c, <2>1, <3>1
    <2> QED
      BY <2>3, <2>4
  <1>4. CASE Delref(t)
    <2>a. rec' = rec /\ rec[t] \in Records /\ arg[t] \in Handles /\ epoch' = epoch
      BY <1>4, <1>a, <1>b DEF Delref, Buckets, SectionPlace
    <2>b. sec[t][arg[t]] = 0 \/ sec[t][arg[t]] = 1
      BY <1>4, <2>a DEF Delref, Buckets, SectionPlace, TypeOK, TypeClient
    <2>2. PICK c \in 0 .. 1 : c = sec[t][arg[t]]
      BY <2>b
    <2>1. /\ rec' = rec /\ rec[t] \in Records /\ epoch' = epoch
          /\ bucket' = [bucket EXCEPT ![rec[t]][c].count = @ - 1]
      BY <1>4, <2>a, <2>2 DEF Delref
    <2>3. \/ repoch' = repoch
          \/ /\ bucket[rec[t]][c].count = 1
             /\ repoch' = [repoch EXCEPT ![rec[t]] = bucket[rec[t]][1 - c].epoch]
      BY <1>4, <2>2 DEF Delref
    <2>4. /\ bucket'[rec[t]][b].epoch = bucket[rec[t]][b].epoch
          /\ bucket'[rec[t]][b].count = IF b = c THEN bucket[rec[t]][b].count - 1 ELSE bucket[rec[t]][b].count
          /\ bucket[rec[t]][b].count \in Nat
      <3>1. bucket'[rec[t]] = [bucket[rec[t]] EXCEPT ![c].count = @ - 1]
        BY <1>a, <2>1
      <3>2. bucket[rec[t]] \in [0 .. 1 -> [epoch : Counter, count : Nat]]
        BY <1>a, <2>1
      <3>3. CASE b = c
        <4>1. bucket'[rec[t]][b] = [bucket[rec[t]][b] EXCEPT !.count = @ - 1]
          BY <3>1, <3>2, <3>3
        <4>2. bucket[rec[t]][b] \in [epoch : Counter, count : Nat]
          BY <3>2
        <4> QED
          BY <3>3, <4>1, <4>2
      <3>4. CASE b # c
        <4>1. bucket'[rec[t]][b] = bucket[rec[t]][b]
          BY <3>1, <3>2, <3>4
        <4> QED
          BY <3>2, <3>4, <4>1
      <3> QED
        BY <3>3, <3>4
    <2>5. bucket[rec[t]][b].count > 0
      <3>1. bucket'[rec[t]][b].count > 0
        BY <1>b, <2>1
      <3> QED
        BY <2>4, <3>1
    <2>6. CASE repoch' = repoch
      BY <1>c, <2>1, <2>4, <2>5, <2>6
    <2>7. CASE /\ bucket[rec[t]][c].count = 1
               /\ repoch' = [repoch EXCEPT ![rec[t]] = bucket[rec[t]][1 - c].epoch]
      <3>1. b # c
        BY <1>b, <2>1, <2>4, <2>7
      <3>2. b = 1 - c
        BY <2>2, <3>1
      <3>3. repoch'[rec[t]] = bucket'[rec[t]][b].epoch
        BY <1>a, <2>1, <2>4, <2>7, <3>2
      <3>4. Age(bucket'[rec[t]][b].epoch) \in Nat
        <4>1. bucket \in [Records -> [0 .. 1 -> [epoch : Counter, count : Nat]]]
          BY DEF TypeOK, TypeRecords
        <4>2. bucket' \in [Records -> [0 .. 1 -> [epoch : Counter, count : Nat]]]
          BY DEF TypeOK, TypeRecords
        <4> QED
          BY <2>1, <4>1, <4>2, AgeType DEF TypeOK, TypeGlobal
      <3> QED
        BY <2>1, <3>3, <3>4 DEF Age, Then
    <2> QED
      BY <2>3, <2>6, <2>7
  <1>5. CASE Register(t)
    <2>1. PICK r \in Records : rec' = [rec EXCEPT ![t] = r] /\ bucket' = [bucket EXCEPT ![r] = EmptyBuckets]
      BY <1>5 DEF Register
    <2>2. bucket'[rec'[t]][b].count = 0
      BY <1>a, <2>1 DEF EmptyBuckets
    <2> QED
      BY <1>b, <2>2
  <1>6. CASE Unregister(t)
    BY <1>6, <1>a, <1>b DEF Unregister
  <1>7. CASE RecycleSwap(t) /\ state[cursor[t]] = "free"
    <2>1. cursor[t] \in Records /\ rec'[t] = cursor[t] /\ bucket' = bucket
      BY <1>7, <1>a, ListType DEF RecycleSwap, Place, Searching
    <2>2. \A u \in Threads : rec[u] # cursor[t]
      BY <1>7, <1>a, <2>1 DEF Users, Directory
    <2>3. bucket[cursor[t]][b].count = 0
      BY <2>1, <2>2 DEF Users, Directory
    <2> QED
      BY <1>b, <2>1, <2>3
  <1> QED
    BY <1>1, <1>2, <1>3, <1>4, <1>5, <1>6, <1>7, SectionMoves

-----------------------------------------------------------------------------
(* The first invariant. *)

\* Every step preserves the invariant.
LEMMA LagStep ==
  ASSUME LagInv, NEW t \in Threads, Step(t)
  PROVE  LagInv'
  <1>a. /\ TypeOK /\ Users /\ FreeCount /\ TickBound /\ Horizon
        /\ \A u \in Threads : Own(u) /\ Quiet(u) /\ Passed(u) /\ Buckets(u)
    BY DEF LagInv
  <1>b. Effect(t)
    BY <1>a, StepEffect
  <1>1. TypeOK'
    BY <1>a, TypeGlobalStep, TypeRecordsStep, TypeClientStep, TypeThreadsStep DEF TypeOK
  <1>2. Directory' /\ Listed \subseteq Listed'
    BY <1>a, <1>1, DirectoryStep
  <1>3. \A u \in Threads : Place(u)'
    <2>1. Place(t)'
      BY <1>a, <1>1, PlaceStep
    <2>2. ASSUME NEW u \in Threads, u # t PROVE Place(u)'
      <3>1. Same(u) /\ Place(u)
        BY <1>a, <1>b, <2>2 DEF Effect, Users
      <3> QED
        BY <1>2, <3>1 DEF Place, Same
    <2> QED
      BY <2>1, <2>2
  <1>4. FreeCount' /\ TickBound' /\ Horizon'
    BY <1>a, <1>1, FreeCountStep, TickBoundStep, HorizonStep
  <1>5. ASSUME NEW u \in Threads PROVE Own(u)' /\ Quiet(u)' /\ Passed(u)' /\ Buckets(u)'
    <2>1. Passed(u)'
      BY <1>a, <1>1, <1>2, PassedStep
    <2>2. CASE u # t
      BY <1>a, <1>b, <1>1, <1>2, <2>1, <2>2, OwnOthers, QuietOthers, BucketsOthers
    <2>3. CASE u = t
      <3>1. Own(t)' /\ Quiet(t)'
        BY <1>a, <1>1, OwnSelf, QuietSelf
      <3>2. Counts(t)' /\ SectionPlace(t)'
        BY <1>a, <1>1, CountsSelf, SectionPlaceSelf DEF Buckets
      <3>3. BucketAges(t)'
        BY <1>a, <1>1, BucketAgesSelf
      <3> QED
        BY <2>1, <2>3, <3>1, <3>2, <3>3 DEF Buckets
    <2> QED
      BY <2>2, <2>3
  <1> QED
    BY <1>1, <1>2, <1>3, <1>4, <1>5 DEF LagInv, Users


\* The initial epoch satisfies the invariant.
LEMMA LagInit == Init => LagInv
  <1> SUFFICES ASSUME Init PROVE LagInv
    OBVIOUS
  <1>a. PICK s \in Starts :
          /\ may = s.may /\ sectioned = s.sectioned /\ shared = s.shared /\ epoch = s.epoch
          /\ repoch = [r \in Records |-> s.seen] /\ rec = s.rec /\ records = s.records
    BY DEF Init
  <1>b. /\ s.may \in [Threads -> SUBSET Ops] /\ s.rec \in [Threads -> Records \cup {NULL}]
        /\ s.records \in Seq(Records) /\ s.sectioned \in BOOLEAN /\ s.shared \in BOOLEAN
        /\ s.epoch \in 0 .. Mod - 1 /\ s.seen \in 0 .. Mod - 1
    BY EpochAssumption
  <1>c. /\ \A t, u \in Threads : s.rec[t] = s.rec[u] /\ s.rec[t] # NULL => t = u
        /\ \A i, j \in DOMAIN s.records : s.records[i] = s.records[j] => i = j
        /\ {s.records[i] : i \in DOMAIN s.records} = {s.rec[t] : t \in Threads} \ {NULL}
        /\ Sub(s.epoch, s.seen) + Span < Mod
        /\ (\E t \in Threads : s.may[t] \cap {"register", "unregister"} # {}) => s.epoch + Span < Mod
    BY StartAssumption
  <1>d. Mod \in Nat /\ Mod >= 4 /\ Span \in Nat
    <2>1. Cardinality(Threads) \in Nat
      BY EpochAssumption, FS_CardinalityType
    <2>2. MaxTicks \in Nat /\ MaxTicks > 0
      BY EpochAssumption
    <2> QED
      BY <2>1, <2>2, Width DEF Span
  <1>e. \A t \in Threads : pc[t] = "idle" /\ op[t] = "none" /\ iter[t] = 0 /\ sec[t] = NoSection
    BY DEF Init
  <1>f. \A r \in Records : active[r] = 0 /\ state[r] = "used" /\ \A b \in 0 .. 1 : bucket[r][b].count = 0
    BY DEF Init, EmptyBuckets
  <1>g. Sub(s.epoch, s.seen) \in Nat
    <2>1. s.epoch \in Counter /\ s.seen \in Counter
      BY <1>b DEF Counter
    <2>2. Sub(s.epoch, s.seen) \in Counter
      BY <2>1, SubIs
    <2> QED
      BY <2>2, <1>d DEF Counter
  <1>1. TypeOK
    <2>1. TypeGlobal
      BY <1>a, <1>b, <1>d DEF Init, TypeGlobal, Counter
    <2>2. TypeRecords
      BY <1>a, <1>b, <1>d DEF Init, TypeRecords, Counter, EmptyBuckets, EmptyPending
    <2>3. TypeClient
      BY <1>a, <1>b DEF Init, TypeClient, NoSection, NoRefs
    <2>4. TypeThreads
      BY <1>d DEF Init, TypeThreads, Counter, Labels
    <2> QED
      BY <2>1, <2>2, <2>3, <2>4 DEF TypeOK
  <1>2. Users
    <2>1. Listed = {rec[t] : t \in Threads} \ {NULL}
      <3>1. ASSUME NEW x PROVE x \in Listed <=> x \in {s.rec[t] : t \in Threads} \ {NULL}
        <4>1. x \in Listed <=> x \in {s.records[i] : i \in DOMAIN s.records}
          BY <1>a DEF Listed
        <4> QED
          BY <1>c, <4>1
      <3>2. Listed = {s.rec[t] : t \in Threads} \ {NULL}
        BY <3>1
      <3>3. {s.rec[t] : t \in Threads} = {rec[t] : t \in Threads}
        BY <1>a
      <3> QED
        BY <3>2, <3>3
    <2>2. Directory
      <3>1. \A i, j \in DOMAIN records : records[i] = records[j] => i = j
        BY <1>a, <1>c
      <3>2. \A t \in Threads : rec[t] # NULL => rec[t] \in Listed /\ state[rec[t]] = "used"
        BY <1>1, <1>f, <2>1 DEF TypeOK, TypeClient
      <3>3. \A t, u \in Threads : rec[t] = rec[u] /\ rec[t] # NULL => t = u
        BY <1>a, <1>c
      <3> QED
        BY <1>f, <3>1, <3>2, <3>3 DEF Directory
    <2>3. \A t \in Threads : Place(t)
      BY <1>e DEF Place, Searching, Scanning
    <2> QED
      BY <2>2, <2>3 DEF Users
  <1>3. FreeCount
    <2>1. Free = {} /\ Offered = {} /\ Taken = {}
      BY <1>e, <1>f DEF Free, Offered, Taken
    <2>2. Cardinality({}) = 0
      BY FS_EmptySet
    <2>3. n_free = 0
      BY DEF Init
    <2> QED
      BY <2>1, <2>2, <2>3 DEF FreeCount, Wrapped
  <1>4. TickBound
    <2>1. MayTick = {} /\ MayTickTwice = {}
      BY <1>e DEF MayTick, MayTickTwice, Scanning
    <2>2. Cardinality({}) = 0 /\ ticks = 0
      BY FS_EmptySet DEF Init
    <2>3. Span < Mod
      <3>1. Sub(s.epoch, s.seen) \in Nat
        BY <1>g
      <3> QED
        BY <1>c, <1>d, <3>1
    <2>4. \A t \in Threads : Round(t)
      BY <1>e DEF Round
    <2> QED
      BY <1>d, <2>1, <2>2, <2>3, <2>4 DEF TickBound
  <1>5. Horizon
    <2>1. ticks = 0
      BY DEF Init
    <2>2. \A r \in Records : Age(repoch[r]) <= Lead
      <3>1. Sub(s.epoch, s.seen) \in Nat
        BY <1>g
      <3>2. Sub(s.epoch, s.seen) <= Mod - 1 - Span
        BY <1>c, <1>d, <3>1
      <3> QED
        BY <1>a, <3>2 DEF Age, Lead
    <2>3. \A t \in Threads : may[t] \cap {"register", "unregister"} # {} => epoch <= Lead
      <3> SUFFICES ASSUME NEW t \in Threads, may[t] \cap {"register", "unregister"} # {} PROVE epoch <= Lead
        OBVIOUS
      <3>1. s.epoch + Span < Mod
        BY <1>a, <1>c
      <3> QED
        BY <1>a, <1>b, <1>d, <3>1 DEF Lead
    <2>4. Lead \in Int /\ ticks + Lead = Lead
      BY <1>d, <2>1 DEF Lead
    <2>5. \A t \in Threads : Recent(t)
      BY <1>e, <2>3, <2>4 DEF Recent, Observing, Scanning
    <2> QED
      BY <2>2, <2>4, <2>5 DEF Horizon
  <1>6. ASSUME NEW t \in Threads PROVE Own(t) /\ Quiet(t) /\ Passed(t) /\ Buckets(t)
    <2>1. rec[t] # NULL => rec[t] \in Records
      BY <1>1 DEF TypeOK, TypeClient
    <2>2. Own(t)
      BY <1>e, <1>f, <2>1 DEF Own, Beginning
    <2>3. Quiet(t) /\ Passed(t)
      BY <1>e DEF Quiet, Passed, Scanning
    <2>4. Counts(t)
      <3>1. \A b \in 0 .. 1 : Cardinality(Open(t, b)) = 0
        BY <1>1, <1>e, OpenFacts
      <3> QED
        BY <1>e, <1>f, <2>1, <3>1 DEF Counts, Beginning
    <2>5. BucketAges(t) /\ SectionPlace(t)
      BY <1>e, <1>f, <2>1 DEF BucketAges, SectionPlace, Beginning
    <2> QED
      BY <2>2, <2>3, <2>4, <2>5 DEF Buckets
  <1> QED
    BY <1>1, <1>2, <1>3, <1>4, <1>5, <1>6 DEF LagInv

\* Nothing changes.
LEMMA LagStutter == LagInv /\ UNCHANGED vars => LagInv'
  <1> SUFFICES ASSUME LagInv, UNCHANGED vars PROVE LagInv'
    OBVIOUS
  <1>1. /\ UNCHANGED <<may, sectioned, shared, epoch, n_free, records, ticks>>
        /\ UNCHANGED <<state, active, repoch, bucket, pending, rec, sec, held, status>>
        /\ UNCHANGED <<pc, snap, arg, op, first, iter, cursor, af>>
    BY DEF vars, rigid, global, fields, client, scanning
  <1>2. TypeOK'
    BY <1>1 DEF LagInv, TypeOK, TypeGlobal, TypeRecords, TypeClient, TypeThreads
  <1>3. \A r : From(r)' = From(r)
    BY <1>1 DEF From
  <1>4. Users'
    BY <1>1 DEF LagInv, Users, Directory, Place, Listed
  <1>5. FreeCount' /\ TickBound'
    BY <1>1 DEF LagInv, FreeCount, Free, Offered, Taken, TickBound, MayTick, MayTickTwice, Round
  <1>6. Horizon'
    BY <1>1 DEF LagInv, Horizon, Recent, Age
  <1>7. ASSUME NEW t \in Threads PROVE Own(t)' /\ Quiet(t)' /\ Passed(t)' /\ Buckets(t)'
    <2>1. Own(t)' /\ Quiet(t)'
      BY <1>1, <1>3 DEF LagInv, Own, Quiet, Age
    <2>2. Passed(t)'
      BY <1>1, <1>3 DEF LagInv, Passed, Effective, Age
    <2>3. Buckets(t)'
      BY <1>1 DEF LagInv, Buckets, Counts, BucketAges, SectionPlace, Open, Age
    <2> QED
      BY <2>1, <2>2, <2>3
  <1> QED
    BY <1>2, <1>4, <1>5, <1>6, <1>7 DEF LagInv

\* The invariant holds in every state of the specification.
THEOREM LagInvariance == Spec => []LagInv
  <1>1. LagInv /\ [Next]_vars => LagInv'
    <2> SUFFICES ASSUME LagInv, [Next]_vars PROVE LagInv'
      OBVIOUS
    <2>1. CASE UNCHANGED vars
      BY <2>1, LagStutter
    <2>2. CASE Next
      <3>1. PICK t \in Threads : Step(t)
        BY <2>2 DEF Next, Step
      <3> QED
        BY <3>1, LagStep
    <2> QED
      BY <2>1, <2>2
  <1> QED
    BY <1>1, LagInit, PTL DEF Spec

\* A record has one user, however ck_epoch_register, ck_epoch_unregister and
\* ck_epoch_recycle race, and n_free counts the free records but for the calls
\* that have yet to count: for any number of threads and records.
THEOREM EpochRecordsExclusive == Spec => []RecordsExclusive
  <1>1. LagInv => RecordsExclusive
    <2> SUFFICES ASSUME LagInv PROVE RecordsExclusive
      OBVIOUS
    <2>1. \A t, u \in Threads : rec[t] = rec[u] /\ rec[t] # NULL => t = u
      BY DEF LagInv, Users, Directory
    <2>2. PICK f \in Nat, g \in Nat, k \in Nat :
             /\ f = Cardinality(Free) /\ g = Cardinality(Taken) /\ k = Cardinality(Offered)
             /\ f <= Cardinality(Records) /\ g <= Cardinality(Threads) /\ k <= Cardinality(Threads)
      <3>1. IsFiniteSet(Records) /\ IsFiniteSet(Threads)
        BY EpochAssumption
      <3>2. Free \subseteq Records /\ Taken \subseteq Threads /\ Offered \subseteq Threads
        BY DEF Free, Taken, Offered
      <3> QED
        BY <3>1, <3>2, FS_Subset, FS_CardinalityType
    <2>3. n_free = Wrapped(f + g - k) /\ n_free \in Counter
      BY <2>2 DEF LagInv, FreeCount, TypeOK, TypeGlobal
    <2>4. f + Cardinality(Threads) < Mod /\ Cardinality(Threads) \in Nat /\ Mod \in Nat
      <3>1. Cardinality(Threads) \in Nat /\ Cardinality(Records) \in Nat
        BY EpochAssumption, FS_CardinalityType
      <3>2. Cardinality(Threads) + Cardinality(Records) < Mod
        BY EpochAssumption
      <3> QED
        BY <2>2, <3>1, <3>2, Width
    <2>5. ((n_free + k) - g) % Mod = f
      <3>a. n_free \in Int
        BY <2>3, <2>4 DEF Counter
      <3>b. PICK a \in Int : a = (n_free + k) - g
        BY <2>2, <3>a
      <3>1. a \in Int /\ (a = f \/ a = f + Mod) /\ f < Mod
        BY <2>2, <2>3, <2>4, <3>b DEF Wrapped, Counter
      <3>2. 0 - Mod <= a /\ a < 2 * Mod
        BY <2>4, <3>1
      <3>3. a % Mod = IF a < 0 THEN a + Mod ELSE IF a < Mod THEN a ELSE a - Mod
        BY <3>1, <3>2, ModIs
      <3>4. a % Mod = f
        BY <2>4, <3>1, <3>3
      <3> QED
        BY <3>4, <3>b
    <2> QED
      BY <2>1, <2>2, <2>5 DEF RecordsExclusive, Sub, Free, Taken, Offered
  <1> QED
    BY <1>1, LagInvariance, PTL

\* The epoch that a thread's record advertises while the thread is in a
\* section is at most one behind the global one, through every race of
\* ck_epoch_begin, ck_epoch_poll and ck_epoch_synchronize and where the
\* epoch wraps around: what ck_epoch_poll and ck_epoch_synchronize rely on.
THEOREM EpochLagBounded == Spec => []EpochLag
  <1>1. LagInv => EpochLag
    BY DEF LagInv, Own, EpochLag, Age
  <1> QED
    BY <1>1, LagInvariance, PTL

-----------------------------------------------------------------------------
(* Safe memory reclamation, from that bound: deferral onto another thread's  *)
(* record only while the record is not being reclaimed (~shared).            *)

\* References are held in open sections only.
Holders ==
  \A t \in Threads, h \in Handles : held[t][h] # {} =>
    /\ rec[t] # NULL /\ active[rec[t]] > 0
    /\ pc[t] \notin {"b_load", "b_store", "o_store"}
    /\ sectioned => sec[t][h] # NULL /\ (pc[t] \in Beginning \cup {"e_ref"} => arg[t] # h)
    /\ ~sectioned => h = aHandle

\* Objects on their way to destruction cannot be found any more.
Gone ==
  /\ \A r \in Records, s \in 0 .. 3 : \A o \in pending[r][s] : status[o] # "linked"
  /\ \A t \in Threads :
       /\ pc[t] = "c_unlink" => arg[t][1] = rec[t]
       /\ pc[t] = "c_push" => status[arg[t][2]] # "linked"

\* The epoch in which a section of t began, or later.
Since(t, h) == IF sectioned THEN bucket[rec[t]][sec[t][h]].epoch ELSE repoch[rec[t]]

Flying(t, r, o) == pc[t] = "c_push" /\ arg[t] = <<r, o>>
\* The objects that the call of u in progress is to destroy.
Covered(u, o) ==
  \/ op[u] = "sync" /\ status[o] = u
  \/ /\ op[u] \in {"barrier", "poll"}
     /\ \/ \E s \in 0 .. 3 : o \in pending[rec[u]][s]
        \/ \E t \in Threads : Flying(t, rec[u], o)

\* A section that refers to one of them began before the call, which has yet
\* to come to its record if it met no active one so far.
Grace ==
  \A u, t \in Threads, h \in Handles : \A o \in held[t][h] :
    Covered(u, o) =>
      /\ pc[u] # "d_slot"
      /\ pc[u] \in Scanning =>
           /\ op[u] # "poll" => Age(first[u]) <= Age(Since(t, h))
           /\ ~af[u] => rec[t] \in From(cursor[u])

\* An epoch of deferral onto r that is not too late for a section of t nor too
\* early for a poll of the record.
Fit(e, r, t, h) ==
  /\ Age(e) <= Age(Since(t, h)) + 1
  /\ \A u \in Threads : rec[u] = r /\ op[u] = "poll" => Age(snap[u]) <= Age(e)

\* Objects that are referred to were deferred, or are about to be, in one.
Deferred ==
  /\ \A r \in Records, s \in 0 .. 3 : \A o \in pending[r][s] :
       \A t \in Threads, h \in Handles : o \in held[t][h] =>
         \E e \in Counter : e % 4 = s /\ Fit(e, r, t, h)
  /\ \A v \in Threads : pc[v] = "c_push" =>
       \A t \in Threads, h \in Handles : arg[v][2] \in held[t][h] => Fit(snap[v], arg[v][1], t, h)

Inv == LagInv /\ ~shared /\ Holders /\ Gone /\ Grace /\ Deferred /\ NoUseAfterFree

USE DEF rigid, global, fields, client, scanning, At, Goto, Idle, Registered, Return, ReturnScan,
   StartScan, Advance, Leave, Dispatch, RecycleNext, Syncing

-----------------------------------------------------------------------------
(* What steps do to the clients' objects. *)

\* Only these steps change what a thread refers to.
LEMMA HeldStep ==
  ASSUME NEW t \in Threads, Step(t)
  PROVE  \/ held' = held
         \/ (\E h \in Handles : End(t, h)) \/ Observe(t)
         \/ (\E h \in Handles, o \in Objects : Dereference(t, h, o))

  <1>1. CASE (\E h \in Handles : Begin(t, h)) \/ Synchronize(t) \/ Poll(t) \/ Register(t)
             \/ Unregister(t) \/ Recycle(t) \/ (\E o \in Objects : Unlink(t, o))
             \/ (\E o \in Objects : CallEarly(t, o))
    BY <1>1 DEF Begin, Synchronize, Poll, Register, Unregister, Recycle, Unlink, CallEarly
  <1>2. CASE (\E r \in Records, o \in Objects : Call(t, r, o)) \/ BeginLoad(t) \/ BeginStore(t)
             \/ Addref(t) \/ Delref(t) \/ ObserveStore(t) \/ CallUnlink(t) \/ CallPush(t)
    BY <1>2 DEF Call, BeginLoad, BeginStore, Addref, Delref, ObserveStore, CallUnlink, CallPush
  <1>3. CASE ScanState(t) \/ ScanActive(t) \/ ScanEpoch(t) \/ SyncBlocked(t) \/ SyncDone(t)
             \/ ReclaimSlot(t) \/ PollBlocked(t) \/ PollDone(t)
    BY <1>3 DEF ScanState, ScanActive, ScanEpoch, SyncBlocked, SyncDone, ReclaimSlot, PollBlocked,
       PollDone
  <1>4. CASE PollSlot(t) \/ UnregisterCount(t) \/ RecycleState(t) \/ RecycleSwap(t) \/ RecycleCount(t)
    BY <1>4 DEF PollSlot, UnregisterCount, RecycleState, RecycleSwap, RecycleCount
  <1> QED
    BY <1>1, <1>2, <1>3, <1>4 DEF Step, Choose, Continue

\* References are acquired to linked objects only.
LEMMA Acquired ==
  ASSUME TypeOK, NEW t \in Threads, Step(t), NEW u \in Threads, NEW h \in Handles, NEW o \in held'[u][h]
  PROVE  \/ o \in held[u][h]
         \/ (status[o] = "linked" /\ status' = status /\ UNCHANGED <<pc, arg, pending>>)
  <1>a. held \in [Threads -> [Handles -> SUBSET Objects]]
    BY DEF TypeOK, TypeClient
  <1>1. CASE held' = held
    BY <1>1
  <1>2. ASSUME NEW g \in Handles, End(t, g)
        PROVE  o \in held[u][h]
    BY <1>2, <1>a DEF End
  <1>3. CASE Observe(t)
    BY <1>3, <1>a DEF Observe, NoRefs
  <1>4. ASSUME NEW g \in Handles, NEW p \in Objects, Dereference(t, g, p)
        PROVE  o \in held[u][h] \/ (status[o] = "linked" /\ status' = status /\ UNCHANGED <<pc, arg, pending>>)
    <2>1. held' = [held EXCEPT ![t][g] = @ \cup {p}] /\ status[p] = "linked"
          /\ status' = status /\ UNCHANGED <<pc, arg, pending>>
      BY <1>4 DEF Dereference
    <2>2. CASE u = t /\ h = g
      <3>1. held'[u][h] = held[u][h] \cup {p}
        BY <1>a, <2>1, <2>2
      <3> QED
        BY <2>1, <3>1
    <2>3. CASE ~(u = t /\ h = g)
      BY <1>a, <2>1, <2>3
    <2> QED
      BY <2>2, <2>3
  <1> QED
    BY <1>1, <1>2, <1>3, <1>4, HeldStep

\* Only these steps change what is deferred on a record.
LEMMA PendingMoves ==
  ASSUME NEW t \in Threads, Step(t)
  PROVE  pending' = pending \/ Register(t) \/ CallPush(t) \/ ReclaimSlot(t) \/ PollSlot(t)

  <1>1. CASE (\E h \in Handles : Begin(t, h)) \/ (\E h \in Handles : End(t, h))
             \/ (\E h \in Handles, o \in Objects : Dereference(t, h, o)) \/ Observe(t)
             \/ Synchronize(t) \/ Poll(t) \/ Unregister(t) \/ Recycle(t)
    BY <1>1 DEF Begin, End, Dereference, Observe, Synchronize, Poll, Unregister, Recycle
  <1>2. CASE (\E o \in Objects : Unlink(t, o)) \/ (\E o \in Objects : CallEarly(t, o))
             \/ (\E r \in Records, o \in Objects : Call(t, r, o)) \/ BeginLoad(t) \/ BeginStore(t)
             \/ Addref(t) \/ Delref(t) \/ ObserveStore(t)
    BY <1>2 DEF Unlink, CallEarly, Call, BeginLoad, BeginStore, Addref, Delref, ObserveStore
  <1>3. CASE CallUnlink(t) \/ ScanState(t) \/ ScanActive(t) \/ ScanEpoch(t) \/ SyncBlocked(t)
             \/ SyncDone(t) \/ PollBlocked(t) \/ PollDone(t)
    BY <1>3 DEF CallUnlink, ScanState, ScanActive, ScanEpoch, SyncBlocked, SyncDone, PollBlocked,
       PollDone
  <1>4. CASE UnregisterCount(t) \/ RecycleState(t) \/ RecycleSwap(t) \/ RecycleCount(t)
    BY <1>4 DEF UnregisterCount, RecycleState, RecycleSwap, RecycleCount
  <1> QED
    BY <1>1, <1>2, <1>3, <1>4 DEF Step, Choose, Continue

\* What has been deferred.
LEMMA PendingStep ==
  ASSUME TypeOK, Users, NEW t \in Threads, Step(t), NEW r \in Records, NEW s \in 0 .. 3, NEW o \in pending'[r][s]
  PROVE  \/ o \in pending[r][s]
         \/ (CallPush(t) /\ arg[t] = <<r, o>> /\ s = snap[t] % 4)
  <1>a. pending \in [Records -> [0 .. 3 -> SUBSET Objects]]
    BY DEF TypeOK, TypeRecords
  <1>1. CASE pending' = pending
    BY <1>1
  <1>2. CASE Register(t)
    BY <1>2, <1>a DEF Register, EmptyPending
  <1>3. CASE CallPush(t)
    <2>1. arg[t] \in Listed \X Objects /\ Listed \subseteq Records
      BY <1>3, ListType DEF CallPush, Users, Place
    <2>2. PICK q \in Records, p \in Objects : arg[t] = <<q, p>>
      BY <2>1
    <2>3. snap[t] % 4 \in 0 .. 3
      BY Zero, Parity DEF TypeOK, TypeThreads
    <2>4. pending' = [pending EXCEPT ![q][snap[t] % 4] = @ \cup {p}]
      BY <1>3, <2>2 DEF CallPush
    <2>5. CASE r = q /\ s = snap[t] % 4
      <3>1. pending'[r][s] = pending[r][s] \cup {p}
        BY <1>a, <2>3, <2>4, <2>5
      <3> QED
        BY <1>3, <2>2, <2>5, <3>1
    <2>6. CASE ~(r = q /\ s = snap[t] % 4)
      BY <1>a, <2>3, <2>4, <2>6
    <2> QED
      BY <2>5, <2>6
  <1>4. CASE ReclaimSlot(t)
    BY <1>4, <1>a DEF ReclaimSlot
  <1>5. CASE PollSlot(t)
    BY <1>5, <1>a DEF PollSlot
  <1> QED
    BY <1>1, <1>2, <1>3, <1>4, <1>5, PendingMoves

\* Objects are destroyed by a caller of ck_epoch_synchronize, which had
\* unlinked them, or dispatched.
Frees(t, o) ==
  \/ status[o] = t /\ op[t] = "sync" /\ op'[t] = "none" /\ (SyncBlocked(t) \/ SyncDone(t))
  \/ ReclaimSlot(t) /\ \E s \in 0 .. 3 : o \in pending[rec[t]][s]
  \/ PollSlot(t) /\ o \in pending[rec[t]][Sub(snap[t], 2) % 4]
\* Only these steps change the life of an object.
LEMMA StatusMoves ==
  ASSUME NEW t \in Threads, Step(t)
  PROVE  \/ status' = status \/ (\E o \in Objects : Unlink(t, o)) \/ CallUnlink(t) \/ CallPush(t)
         \/ SyncBlocked(t) \/ SyncDone(t) \/ ReclaimSlot(t) \/ PollSlot(t)

  <1>1. CASE (\E h \in Handles : Begin(t, h)) \/ (\E h \in Handles : End(t, h))
             \/ (\E h \in Handles, o \in Objects : Dereference(t, h, o)) \/ Observe(t)
             \/ Synchronize(t) \/ Poll(t) \/ Register(t) \/ Unregister(t)
    BY <1>1 DEF Begin, End, Dereference, Observe, Synchronize, Poll, Register, Unregister
  <1>2. CASE Recycle(t) \/ (\E o \in Objects : CallEarly(t, o))
             \/ (\E r \in Records, o \in Objects : Call(t, r, o)) \/ BeginLoad(t) \/ BeginStore(t)
             \/ Addref(t) \/ Delref(t) \/ ObserveStore(t)
    BY <1>2 DEF Recycle, CallEarly, Call, BeginLoad, BeginStore, Addref, Delref, ObserveStore
  <1>3. CASE ScanState(t) \/ ScanActive(t) \/ ScanEpoch(t) \/ PollBlocked(t) \/ PollDone(t)
             \/ UnregisterCount(t) \/ RecycleState(t) \/ RecycleSwap(t)
    BY <1>3 DEF ScanState, ScanActive, ScanEpoch, PollBlocked, PollDone, UnregisterCount,
       RecycleState, RecycleSwap
  <1>4. CASE RecycleCount(t)
    BY <1>4 DEF RecycleCount
  <1> QED
    BY <1>1, <1>2, <1>3, <1>4 DEF Step, Choose, Continue

\* An object is unlinked once, and freed only by a callback or after a wait.
LEMMA StatusStep ==
  ASSUME TypeOK, Users, NEW t \in Threads, Step(t), NEW o \in Objects
  PROVE  /\ status'[o] = "linked" => status[o] = "linked"
         /\ \A u \in Threads : status'[o] = u /\ status[o] # u => u = t /\ op[t] = "none" /\ op'[t] = "none"
         /\ status'[o] = "freed" /\ status[o] # "freed" => Frees(t, o)
  <1>a. /\ status \in [Objects -> {"linked", "deferred", "freed"} \cup Threads]
        /\ op \in [Threads -> {"none", "sync", "barrier", "poll"}] /\ iter \in [Threads -> 0 .. 3]
        /\ Place(t) /\ Threads \cap {"linked", "deferred", "freed"} = {}
    BY EpochAssumption DEF TypeOK, TypeClient, TypeThreads, Users
  <1> DEFINE Goal ==
         /\ status'[o] = "linked" => status[o] = "linked"
         /\ \A u \in Threads : status'[o] = u /\ status[o] # u => u = t /\ op[t] = "none" /\ op'[t] = "none"
         /\ status'[o] = "freed" /\ status[o] # "freed" => Frees(t, o)
  <1>1. CASE status' = status
    BY <1>1
  <1>2. ASSUME NEW p \in Objects, Unlink(t, p) PROVE Goal
    <2>1. op[t] = "none" /\ op' = op
      BY <1>2, <1>a DEF Unlink, Place, Scanning
    <2>2. status' = [status EXCEPT ![p] = t]
      BY <1>2 DEF Unlink
    <2> QED
      BY <1>a, <2>1, <2>2
  <1>3. CASE CallUnlink(t)
    <2>1. op[t] = "none" /\ op' = op
      BY <1>3, <1>a DEF CallUnlink, Place, Scanning
    <2>2. status' = [status EXCEPT ![arg[t][2]] = t]
      BY <1>3 DEF CallUnlink
    <2> QED
      BY <1>a, <2>1, <2>2
  <1>4. CASE CallPush(t)
    <2>1. status' = [status EXCEPT ![arg[t][2]] = "deferred"]
      BY <1>4 DEF CallPush
    <2> QED
      BY <1>a, <2>1
  <1>b. ASSUME SyncBlocked(t) \/ SyncDone(t), op[t] = "sync" /\ op'[t] = "none",
               status' = [x \in Objects |-> IF status[x] = t THEN "freed" ELSE status[x]]
        PROVE  Goal
    BY <1>a, <1>b DEF Frees
  <1>5. CASE SyncBlocked(t)
    <2>1. \/ status' = status
          \/ op[t] = "sync" /\ op'[t] = "none"
               /\ status' = [x \in Objects |-> IF status[x] = t THEN "freed" ELSE status[x]]
      BY <1>5, <1>a DEF SyncBlocked
    <2> QED
      BY <1>1, <1>5, <1>b, <2>1
  <1>6. CASE SyncDone(t)
    <2>1. \/ status' = status
          \/ op[t] = "sync" /\ op'[t] = "none"
               /\ status' = [x \in Objects |-> IF status[x] = t THEN "freed" ELSE status[x]]
      BY <1>6, <1>a DEF SyncDone
    <2> QED
      BY <1>1, <1>6, <1>b, <2>1
  <1>7. CASE ReclaimSlot(t)
    <2>1. status' = [x \in Objects |-> IF x \in pending[rec[t]][iter[t]] THEN "freed" ELSE status[x]]
      BY <1>7 DEF ReclaimSlot
    <2> QED
      BY <1>7, <1>a, <2>1 DEF Frees
  <1>8. CASE PollSlot(t)
    <2>1. status' = [x \in Objects |-> IF x \in pending[rec[t]][Sub(snap[t], 2) % 4] THEN "freed" ELSE status[x]]
      BY <1>8 DEF PollSlot
    <2> QED
      BY <1>8, <1>a, <2>1 DEF Frees
  <1> QED
    BY <1>1, <1>2, <1>3, <1>4, <1>5, <1>6, <1>7, <1>8, StatusMoves


-----------------------------------------------------------------------------
(* The sections in which references are held. *)

\* They are protected by an epoch that is one old at most.
LEMMA Young ==
  ASSUME LagInv, Holders, NEW t \in Threads, NEW h \in Handles, held[t][h] # {}
  PROVE  /\ rec[t] # NULL /\ rec[t] \in Records /\ active[rec[t]] > 0 /\ pc[t] # "b_load"
         /\ Effective(t) = repoch[rec[t]]
         /\ Since(t, h) \in Counter /\ Age(Since(t, h)) \in Nat /\ Age(repoch[rec[t]]) \in Nat
         /\ Age(Since(t, h)) <= Age(repoch[rec[t]]) /\ Age(repoch[rec[t]]) <= 1
  <1>a. TypeOK /\ Own(t) /\ Buckets(t)
    BY DEF LagInv
  <1>1. /\ rec[t] # NULL /\ rec[t] \in Records /\ active[rec[t]] > 0
        /\ pc[t] \notin {"b_load", "b_store", "o_store"}
    BY <1>a DEF Holders, TypeOK, TypeClient
  <1>2. Age(repoch[rec[t]]) <= 1
    BY <1>a, <1>1 DEF Own
  <1>3. repoch[rec[t]] \in Counter /\ epoch \in Counter
    BY <1>a, <1>1 DEF TypeOK, TypeRecords, TypeGlobal
  <1>4. Age(repoch[rec[t]]) \in Nat
    BY <1>3, AgeType
  <1>5. Since(t, h) \in Counter /\ Age(Since(t, h)) <= Age(repoch[rec[t]])
    <2>1. CASE ~sectioned
      BY <1>3, <1>4, <2>1 DEF Since
    <2>2. CASE sectioned
      <3>1. sec[t][h] = 0 \/ sec[t][h] = 1
        BY <1>a, <2>2 DEF Holders, TypeOK, TypeClient
      <3>2. PICK b \in 0 .. 1 : sec[t][h] = b
        BY <3>1
      <3>3. h \in Open(t, b)
        BY <3>2 DEF Open
      <3>4. bucket[rec[t]][b].count > 0
        <4>1. Cardinality(Open(t, b)) \in Nat /\ Cardinality(Open(t, b)) # 0
          BY <1>a, <3>3, OpenFacts
        <4> QED
          BY <1>a, <1>1, <4>1 DEF Buckets, Counts
      <3>5. Age(bucket[rec[t]][b].epoch) <= Age(repoch[rec[t]])
        BY <1>a, <1>1, <3>4 DEF Buckets, BucketAges
      <3>6. bucket[rec[t]][b].epoch \in Counter
        BY <1>a, <1>1 DEF TypeOK, TypeRecords
      <3> QED
        BY <2>2, <3>2, <3>5, <3>6 DEF Since
    <2> QED
      BY <2>1, <2>2
  <1>6. Age(Since(t, h)) \in Nat
    BY <1>3, <1>5, AgeType
  <1> QED
    BY <1>1, <1>2, <1>3, <1>4, <1>5, <1>6 DEF Effective

\* They keep it.
LEMMA Kept ==
  ASSUME LagInv, LagInv', Holders, NEW t \in Threads, Step(t),
         NEW u \in Threads, NEW h \in Handles, held[u][h] # {}, held'[u][h] # {}
  PROVE  rec'[u] = rec[u] /\ Since(u, h)' = Since(u, h)
  <1>a. /\ TypeOK /\ Users /\ Directory' /\ TickBound /\ Horizon /\ Effect(t)
        /\ Own(u) /\ Quiet(u) /\ Buckets(u) /\ Place(u) /\ Place(t)
    BY StepEffect DEF LagInv, Users
  <1>b. /\ rec[u] # NULL /\ rec[u] \in Records /\ active[rec[u]] > 0
        /\ pc[u] \notin {"b_load", "b_store", "o_store"}
        /\ sectioned => sec[u][h] # NULL /\ (pc[u] \in Beginning \cup {"e_ref"} => arg[u] # h)
    BY Young DEF Holders
  <1>c. sectioned' = sectioned
    BY <1>a DEF Effect
  <1>d. NULL \notin Records
    BY EpochAssumption
  <1>1. CASE u # t
    <2>1. Same(u) /\ repoch'[rec[u]] = repoch[rec[u]] /\ bucket'[rec[u]] = bucket[rec[u]]
      BY <1>1, <1>a, <1>b, OthersRecord
    <2> QED
      BY <1>c, <2>1 DEF Same, Since
  <1>2. CASE u = t
    <2>1. rec'[t] = rec[t]
      <3>1. CASE UNCHANGED <<records, rec, state>>
        BY <3>1
      <3>2. CASE Register(t)
        BY <3>2, <1>2, <1>b DEF Register
      <3>3. CASE Unregister(t)
        BY <3>3, <1>2, <1>b DEF Unregister
      <3>4. CASE RecycleSwap(t) /\ state[cursor[t]] = "free"
        BY <3>4, <1>2, <1>a, <1>b DEF RecycleSwap, Place, Searching
      <3> QED
        BY <1>a, <3>1, <3>2, <3>3, <3>4, Hands
    <2>2. CASE ~sectioned
      <3>1. repoch'[rec[t]] = repoch[rec[t]]
        <4>1. CASE repoch' = repoch
          BY <4>1
        <4>2. CASE BeginStore(t)
          BY <4>2, <1>2, <1>b DEF BeginStore
        <4>3. CASE ObserveStore(t)
          BY <4>3, <1>2, <1>b DEF ObserveStore
        <4>4. CASE Delref(t)
          BY <4>4, <1>2, <1>a, <2>2 DEF Delref, Buckets, SectionPlace
        <4>5. CASE PollDone(t)
          <5>1. CASE af[t]
            BY <4>5, <5>1 DEF PollDone
          <5>2. CASE ~af[t]
            <6>1. pc[t] = "s_done" /\ cursor[t] = NULL
              BY <1>a, <4>5 DEF PollDone, Place
            <6>2. rec[t] \notin From(NULL)
              BY <1>a, FromNull DEF TypeOK, TypeGlobal
            <6>3. active[rec[t]] = 0
              BY <1>2, <1>a, <5>2, <6>1, <6>2 DEF Quiet, Scanning
            <6> QED
              BY <1>2, <1>b, <6>3
          <5> QED
            BY <5>1, <5>2
        <4>6. CASE Register(t)
          BY <4>6, <1>2, <1>b DEF Register
        <4>7. CASE Unregister(t)
          BY <4>7, <1>2, <1>b DEF Unregister
        <4> QED
          BY <4>1, <4>2, <4>3, <4>4, <4>5, <4>6, <4>7, Advertising
      <3> QED
        BY <1>2, <1>c, <2>1, <2>2, <3>1 DEF Since
    <2>3. CASE sectioned
      <3>a. PICK b \in 0 .. 1 : b = sec[t][h]
        <4>1. sec[t][h] = 0 \/ sec[t][h] = 1
          BY <1>2, <1>a, <1>b, <2>3 DEF TypeOK, TypeClient
        <4> QED
          BY <4>1
      <3>b. bucket \in [Records -> [0 .. 1 -> [epoch : Counter, count : Nat]]]
            /\ sec \in [Threads -> [Handles -> {0, 1, NULL}]]
        BY <1>a DEF TypeOK, TypeRecords, TypeClient
      <3>c. SUFFICES sec'[t][h] = sec[t][h] /\ bucket'[rec[t]][b].epoch = bucket[rec[t]][b].epoch
        BY <1>2, <1>c, <2>1, <2>3, <3>a DEF Since
      <3>1. CASE Unsectioned(t)
        BY <3>1 DEF Unsectioned
      <3>2. ASSUME NEW g \in Handles, Begin(t, g) \/ End(t, g)
            PROVE  UNCHANGED <<sec, bucket>>
        BY <3>2 DEF Begin, End
      <3>3. CASE Addref(t)
        <4>1. PICK g \in Handles : g = arg[t] /\ g # h
          BY <3>3, <1>2, <1>a, <1>b, <2>3 DEF Addref, Buckets, SectionPlace, Beginning
        <4>2. PICK c \in 0 .. 1 : c = epoch % 2
          BY <1>a, Zero, Parity DEF TypeOK, TypeGlobal
        <4>3. /\ sec' = [sec EXCEPT ![t][g] = c]
              /\ bucket' = [bucket EXCEPT ![rec[t]][c] =
                   [epoch |-> IF @.count = 0 THEN epoch ELSE @.epoch, count |-> @.count + 1]]
          BY <3>3, <4>1, <4>2 DEF Addref
        <4>4. sec'[t][h] = sec[t][h]
          BY <3>b, <4>1, <4>3
        <4>5. CASE b # c
          BY <1>2, <1>b, <3>b, <4>3, <4>4, <4>5
        <4>6. CASE b = c
          <5>1. Cardinality(Open(t, b)) # 0
            BY <1>a, <3>a, OpenFacts DEF Open
          <5>2. bucket[rec[t]][b].count # 0
            BY <1>2, <1>a, <1>b, <5>1 DEF Buckets, Counts
          <5> QED
            BY <1>2, <1>b, <3>b, <4>3, <4>4, <4>6, <5>2
        <4> QED
          BY <4>5, <4>6
      <3>4. CASE Delref(t)
        <4>1. PICK g \in Handles : g = arg[t] /\ g # h
          BY <3>4, <1>2, <1>a, <1>b, <2>3 DEF Delref, Buckets, SectionPlace
        <4>2. PICK c \in 0 .. 1 : c = sec[t][g]
          <5>1. sec[t][g] = 0 \/ sec[t][g] = 1
            BY <3>4, <3>b, <1>2, <1>a, <4>1 DEF Delref, Buckets, SectionPlace
          <5> QED
            BY <5>1
        <4>3. /\ sec' = [sec EXCEPT ![t][g] = NULL]
              /\ bucket' = [bucket EXCEPT ![rec[t]][c].count = @ - 1]
          BY <3>4, <4>1, <4>2 DEF Delref
        <4>4. sec'[t][h] = sec[t][h]
          BY <3>b, <4>1, <4>3
        <4>5. bucket'[rec[t]] = [bucket[rec[t]] EXCEPT ![c].count = @ - 1]
          BY <1>2, <1>b, <3>b, <4>3
        <4>6. bucket[rec[t]] \in [0 .. 1 -> [epoch : Counter, count : Nat]]
          BY <1>2, <1>b, <3>b
        <4>7. CASE b # c
          BY <4>4, <4>5, <4>6, <4>7
        <4>8. CASE b = c
          <5>1. bucket'[rec[t]][b] = [bucket[rec[t]][b] EXCEPT !.count = @ - 1]
            BY <4>5, <4>6, <4>8
          <5>2. bucket[rec[t]][b] \in [epoch : Counter, count : Nat]
            BY <4>6
          <5> QED
            BY <4>4, <5>1, <5>2
        <4> QED
          BY <4>7, <4>8
      <3>5. CASE Register(t)
        BY <3>5, <1>2, <1>b DEF Register
      <3>6. CASE Unregister(t)
        BY <3>6, <1>2, <1>b DEF Unregister
      <3>7. CASE RecycleSwap(t) /\ state[cursor[t]] = "free"
        BY <3>7, <1>2, <1>a, <1>b DEF RecycleSwap, Place, Searching
      <3> QED
        BY <1>a, <3>1, <3>2, <3>3, <3>4, <3>5, <3>6, <3>7, SectionMoves
    <2> QED
      BY <2>2, <2>3
  <1> QED
    BY <1>1, <1>2

\* Two open sections are counted twice.
LEMMA TwoOpen ==
  ASSUME LagInv, NEW t \in Threads, rec[t] # NULL, NEW g \in Handles, NEW h \in Handles, g # h,
         sec[t][g] # NULL, sec[t][h] # NULL
  PROVE  /\ bucket[rec[t]][0].count \in Nat /\ bucket[rec[t]][1].count \in Nat
         /\ bucket[rec[t]][0].count + bucket[rec[t]][1].count >= 2
  <1>a. TypeOK /\ Counts(t)
    BY DEF LagInv, Buckets
  <1>1. \A b \in 0 .. 1 : bucket[rec[t]][b].count = Cardinality(Open(t, b))
    BY <1>a DEF Counts
  <1>2. \A b \in 0 .. 1 : IsFiniteSet(Open(t, b)) /\ Cardinality(Open(t, b)) \in Nat
                          /\ (Cardinality(Open(t, b)) = 0 <=> Open(t, b) = {})
    BY <1>a, OpenFacts
  <1>3. ASSUME NEW b \in 0 .. 1, sec[t][g] = b, sec[t][h] = b
        PROVE  Cardinality(Open(t, b)) >= 2
    <2>1. g \in Open(t, b) /\ h \in Open(t, b) \ {g}
      BY <1>3 DEF Open
    <2>2. IsFiniteSet(Open(t, b) \ {g}) /\ Cardinality(Open(t, b) \ {g}) = Cardinality(Open(t, b)) - 1
      BY <1>2, <2>1, FS_RemoveElement
    <2>3. Cardinality(Open(t, b) \ {g}) \in Nat /\ Cardinality(Open(t, b) \ {g}) # 0
      BY <2>1, <2>2, FS_CardinalityType, FS_EmptySet
    <2> QED
      BY <1>2, <2>2, <2>3
  <1>4. ASSUME NEW b \in 0 .. 1, NEW x \in Handles, sec[t][x] = b
        PROVE  Cardinality(Open(t, b)) >= 1
    <2>1. Open(t, b) # {}
      BY <1>4 DEF Open
    <2> QED
      BY <1>2, <2>1
  <1>5. (sec[t][g] = 0 \/ sec[t][g] = 1) /\ (sec[t][h] = 0 \/ sec[t][h] = 1)
    BY <1>a DEF TypeOK, TypeClient
  <1>6. PICK m \in Nat, n \in Nat : m = Cardinality(Open(t, 0)) /\ n = Cardinality(Open(t, 1))
    BY <1>2
  <1>7. m + n >= 2
    BY <1>3, <1>4, <1>5, <1>6
  <1> QED
    BY <1>1, <1>6, <1>7


-----------------------------------------------------------------------------
(* References are held in open sections only. *)

Holder(t, h) ==
  /\ rec[t] # NULL /\ active[rec[t]] > 0
  /\ pc[t] \notin {"b_load", "b_store", "o_store"}
  /\ sectioned => sec[t][h] # NULL /\ (pc[t] \in Beginning \cup {"e_ref"} => arg[t] # h)
  /\ ~sectioned => h = aHandle

\* A thread that keeps a reference is inside the section it got it in.
LEMMA HolderSelf ==
  ASSUME LagInv, LagInv', NEW t \in Threads, Step(t), NEW h \in Handles,
         held[t][h] # {} => Holder(t, h), held'[t][h] # {}
  PROVE  Holder(t, h)'
  <1>a. /\ TypeOK /\ Place(t) /\ Own(t) /\ Buckets(t) /\ SectionPlace(t) /\ NULL \notin Records
        /\ held \in [Threads -> [Handles -> SUBSET Objects]] /\ rec \in [Threads -> Records \cup {NULL}]
        /\ active \in [Records -> Nat] /\ pc \in [Threads -> Labels] /\ TypeThreads
        /\ sec \in [Threads -> [Handles -> {0, 1, NULL}]] /\ sectioned' = sectioned
    BY EpochAssumption, StepEffect DEF LagInv, Users, TypeOK, TypeClient, TypeRecords, TypeThreads,
       Buckets, Effect

  <1>1. ASSUME NEW g \in Handles, Begin(t, g) PROVE Holder(t, h)'
    <2>1. held' = held /\ rec' = rec /\ sec' = sec /\ Holder(t, h) /\ rec[t] \in Records /\ active[rec[t]] \in Nat
      BY <1>1, <1>a DEF Begin, Holder
    <2>2. active'[rec[t]] = active[rec[t]] + 1 /\ active[rec[t]] > 0
      BY <1>1, <1>a, <2>1 DEF Begin, Holder
    <2>3. pc'[t] \in {"b_ref", "idle"} /\ (pc'[t] = "b_ref" => sectioned /\ arg'[t] = g /\ sec[t][g] = NULL)
      BY <1>1, <1>a, <2>2 DEF Begin, TypeThreads
    <2> QED
      BY <1>a, <2>1, <2>2, <2>3 DEF Holder, Beginning
  <1>2. ASSUME NEW g \in Handles, End(t, g) PROVE Holder(t, h)'
    <2>1. /\ rec' = rec /\ sec' = sec /\ rec[t] \in Records /\ active[rec[t]] \in Nat /\ pc[t] = "idle"
          /\ held' = [held EXCEPT ![t][g] = IF sectioned \/ active[rec[t]] = 1 THEN {} ELSE @]
          /\ active'[rec[t]] = active[rec[t]] - 1
      BY <1>2, <1>a DEF End
    <2>2. held'[t][h] # {} => held[t][h] # {} /\ (h = g => ~sectioned /\ active[rec[t]] # 1)
      BY <1>a, <2>1
    <2>3. Holder(t, h)
      BY <2>2
    <2>4. CASE ~sectioned
      <3>1. h = g /\ UNCHANGED <<pc, arg>>
        BY <1>2, <2>3, <2>4 DEF End, Holder
      <3> QED
        BY <1>a, <2>1, <2>2, <2>3, <2>4, <3>1 DEF Holder
    <2>5. CASE sectioned
      <3>1. h # g /\ sec[t][g] # NULL /\ pc'[t] = "e_ref" /\ arg'[t] = g
        BY <1>2, <1>a, <2>2, <2>5 DEF End, TypeThreads
      <3>2. sec[t][h] # NULL
        BY <2>3, <2>5 DEF Holder
      <3>3. bucket[rec[t]][0].count + bucket[rec[t]][1].count >= 2
            /\ bucket[rec[t]][0].count \in Nat /\ bucket[rec[t]][1].count \in Nat
        BY <1>a, <2>1, <3>1, <3>2, TwoOpen
      <3>4. active[rec[t]] >= 2
        BY <1>a, <2>1, <2>5, <3>3 DEF Buckets, Counts, Beginning
      <3> QED
        BY <1>a, <2>1, <2>5, <3>1, <3>2, <3>4 DEF Holder
    <2> QED
      BY <2>4, <2>5
  <1>3. ASSUME NEW g \in Handles, NEW o \in Objects, Dereference(t, g, o) PROVE Holder(t, h)'
    <2>1. UNCHANGED <<rec, active, pc, arg, sec>> /\ pc[t] = "idle" /\ rec[t] # NULL /\ active[rec[t]] > 0
          /\ (IF sectioned THEN sec[t][g] # NULL ELSE g = aHandle)
          /\ held' = [held EXCEPT ![t][g] = @ \cup {o}]
      BY <1>3 DEF Dereference
    <2>2. CASE h = g
      BY <1>a, <2>1, <2>2 DEF Holder, Beginning
    <2>3. CASE h # g
      <3>1. held'[t][h] = held[t][h]
        BY <1>a, <2>1, <2>3
      <3> QED
        BY <1>a, <2>1, <3>1 DEF Holder, Beginning
    <2> QED
      BY <2>2, <2>3
  <1>4. ASSUME Observe(t) PROVE Holder(t, h)'
    <2>1. held'[t][h] = {}
      BY <1>4, <1>a DEF Observe, NoRefs
    <2> QED
      BY <2>1
  <1>5. ASSUME Synchronize(t) PROVE Holder(t, h)'
    BY <1>5, <1>a DEF Synchronize, Holder, Beginning, TypeThreads, Labels
  <1>6. ASSUME Poll(t) PROVE Holder(t, h)'
    BY <1>6, <1>a DEF Poll, Holder, Beginning, TypeThreads, Labels
  <1>7. ASSUME Register(t) PROVE Holder(t, h)'
    <2>1. held' = held /\ Holder(t, h)
      BY <1>7 DEF Register
    <2> QED
      BY <1>7, <1>a, <2>1 DEF Register, Holder
  <1>8. ASSUME Unregister(t) PROVE Holder(t, h)'
    <2>1. held' = held /\ Holder(t, h)
      BY <1>8 DEF Unregister
    <2> QED
      BY <1>8, <1>a, <2>1 DEF Unregister, Holder
  <1>9. ASSUME Recycle(t) PROVE Holder(t, h)'
    BY <1>9, <1>a DEF Recycle, Holder, Beginning, TypeThreads, Labels
  <1>10. ASSUME NEW o \in Objects, Unlink(t, o) PROVE Holder(t, h)'
    BY <1>10, <1>a DEF Unlink, Holder, Beginning, TypeThreads, Labels
  <1>11. ASSUME NEW o \in Objects, CallEarly(t, o) PROVE Holder(t, h)'
    BY <1>11, <1>a DEF CallEarly, Holder, Beginning, TypeThreads, Labels
  <1>12. ASSUME NEW r \in Records, NEW o \in Objects, Call(t, r, o) PROVE Holder(t, h)'
    BY <1>12, <1>a DEF Call, Holder, Beginning, TypeThreads, Labels
  <1>13. ASSUME BeginLoad(t) PROVE Holder(t, h)'
    <2>1. held' = held /\ Holder(t, h)
      BY <1>13 DEF BeginLoad
    <2> QED
      BY <1>13, <1>a, <2>1 DEF BeginLoad, Holder
  <1>14. ASSUME BeginStore(t) PROVE Holder(t, h)'
    <2>1. held' = held /\ Holder(t, h)
      BY <1>14 DEF BeginStore
    <2> QED
      BY <1>14, <1>a, <2>1 DEF BeginStore, Holder
  <1>15. ASSUME Addref(t) PROVE Holder(t, h)'
    <2>1. held' = held /\ Holder(t, h) /\ UNCHANGED <<rec, active>> /\ pc[t] = "b_ref" /\ pc'[t] = "idle"
      BY <1>15, <1>a DEF Addref, TypeThreads
    <2>2. sectioned /\ arg[t] \in Handles
      BY <1>a, <2>1 DEF SectionPlace, Beginning
    <2>3. h # arg[t]
      BY <2>1, <2>2 DEF Holder, Beginning
    <2>4. sec'[t][h] = sec[t][h]
      BY <1>15, <1>a, <2>2, <2>3 DEF Addref
    <2> QED
      BY <1>a, <2>1, <2>2, <2>4 DEF Holder, Beginning
  <1>16. ASSUME Delref(t) PROVE Holder(t, h)'
    <2>1. held' = held /\ Holder(t, h) /\ UNCHANGED <<rec, active>> /\ pc[t] = "e_ref" /\ pc'[t] = "idle"
      BY <1>16, <1>a DEF Delref, TypeThreads
    <2>2. sectioned /\ arg[t] \in Handles
      BY <1>a, <2>1 DEF SectionPlace, Beginning
    <2>3. h # arg[t]
      BY <2>1, <2>2 DEF Holder, Beginning
    <2>4. sec'[t][h] = sec[t][h]
      BY <1>16, <1>a, <2>2, <2>3 DEF Delref
    <2> QED
      BY <1>a, <2>1, <2>2, <2>4 DEF Holder, Beginning
  <1>17. ASSUME ObserveStore(t) PROVE Holder(t, h)'
    <2>1. held' = held /\ Holder(t, h)
      BY <1>17 DEF ObserveStore
    <2> QED
      BY <1>17, <1>a, <2>1 DEF ObserveStore, Holder
  <1>18. ASSUME CallUnlink(t) PROVE Holder(t, h)'
    BY <1>18, <1>a DEF CallUnlink, Holder, Beginning, TypeThreads, Labels
  <1>19. ASSUME CallPush(t) PROVE Holder(t, h)'
    BY <1>19, <1>a DEF CallPush, Holder, Beginning, TypeThreads, Labels
  <1>20. ASSUME ScanState(t) PROVE Holder(t, h)'
    BY <1>20, <1>a DEF ScanState, Holder, Beginning, TypeThreads, Labels
  <1>21. ASSUME ScanActive(t) PROVE Holder(t, h)'
    BY <1>21, <1>a DEF ScanActive, Holder, Beginning, TypeThreads, Labels
  <1>22. ASSUME ScanEpoch(t) PROVE Holder(t, h)'
    BY <1>22, <1>a DEF ScanEpoch, Holder, Beginning, TypeThreads, Labels
  <1>23. ASSUME SyncBlocked(t) PROVE Holder(t, h)'
    BY <1>23, <1>a DEF SyncBlocked, Holder, Beginning, TypeThreads, Labels
  <1>24. ASSUME SyncDone(t) PROVE Holder(t, h)'
    BY <1>24, <1>a DEF SyncDone, Holder, Beginning, TypeThreads, Labels
  <1>25. ASSUME ReclaimSlot(t) PROVE Holder(t, h)'
    BY <1>25, <1>a DEF ReclaimSlot, Holder, Beginning, TypeThreads, Labels
  <1>26. ASSUME PollBlocked(t) PROVE Holder(t, h)'
    BY <1>26, <1>a DEF PollBlocked, Holder, Beginning, TypeThreads, Labels
  <1>27. ASSUME PollDone(t) PROVE Holder(t, h)'
    BY <1>27, <1>a DEF PollDone, Holder, Beginning, TypeThreads, Labels
  <1>28. ASSUME PollSlot(t) PROVE Holder(t, h)'
    BY <1>28, <1>a DEF PollSlot, Holder, Beginning, TypeThreads, Labels
  <1>29. ASSUME UnregisterCount(t) PROVE Holder(t, h)'
    <2>1. held' = held /\ Holder(t, h)
      BY <1>29 DEF UnregisterCount
    <2> QED
      BY <1>29, <1>a, <2>1 DEF UnregisterCount, Holder, Place, Searching
  <1>30. ASSUME RecycleState(t) PROVE Holder(t, h)'
    <2>1. held' = held /\ Holder(t, h)
      BY <1>30 DEF RecycleState
    <2> QED
      BY <1>30, <1>a, <2>1 DEF RecycleState, Holder, Place, Searching
  <1>31. ASSUME RecycleSwap(t) PROVE Holder(t, h)'
    <2>1. held' = held /\ Holder(t, h)
      BY <1>31 DEF RecycleSwap
    <2> QED
      BY <1>31, <1>a, <2>1 DEF RecycleSwap, Holder, Place, Searching
  <1>32. ASSUME RecycleCount(t) PROVE Holder(t, h)'
    <2>1. held' = held /\ Holder(t, h)
      BY <1>32 DEF RecycleCount
    <2> QED
      BY <1>32, <1>a, <2>1 DEF RecycleCount, Holder, TypeThreads, Beginning
  <1> QED
    BY <1>1, <1>2, <1>3, <1>4, <1>5, <1>6, <1>7, <1>8, <1>9, <1>10, <1>11, <1>12, <1>13, <1>14,
       <1>15, <1>16, <1>17, <1>18, <1>19, <1>20, <1>21, <1>22, <1>23, <1>24, <1>25, <1>26, <1>27,
       <1>28, <1>29, <1>30, <1>31, <1>32 DEF Step, Choose, Continue

\* Every reference is held inside a section.
LEMMA HoldersStep ==
  ASSUME LagInv, LagInv', Holders, NEW t \in Threads, Step(t)
  PROVE  Holders'
  <1>a. TypeOK /\ Users /\ Directory' /\ Effect(t)
    BY StepEffect DEF LagInv, Users
  <1>1. ASSUME NEW u \in Threads, NEW h \in Handles, held'[u][h] # {} PROVE Holder(u, h)'
    <2>1. CASE u = t
      BY <1>1, <2>1, HolderSelf DEF Holders, Holder
    <2>2. CASE u # t
      <3>1. Same(u)
        BY <1>a, <2>2 DEF Effect
      <3>2. Holder(u, h)
        BY <1>1, <3>1 DEF Same, Holders, Holder
      <3>3. active'[rec[u]] = active[rec[u]]
        BY <1>a, <2>2, <3>2, OthersRecord DEF Holder
      <3> QED
        BY <1>a, <3>1, <3>2, <3>3 DEF Same, Holder, Effect
    <2> QED
      BY <2>1, <2>2
  <1> QED
    BY <1>1 DEF Holders, Holder

-----------------------------------------------------------------------------
(* Objects that are unlinked or deferred. *)

\* How a thread comes to a step of ck_epoch_call or ck_epoch_call_strict.
LEMMA Calls ==
  ASSUME LagInv, NEW t \in Threads, Step(t)
  PROVE  /\ pc'[t] = "c_unlink" =>
              rec' = rec /\ status' = status /\ arg'[t][1] = rec[t]
         /\ pc'[t] = "c_push" =>
              /\ rec' = rec /\ op' = op /\ op[t] = "none" /\ arg'[t] \in Records \X Objects
              /\ \/ CallUnlink(t) /\ arg'[t] = arg[t]
                 \/ \E r \in Records, o \in Objects : Call(t, r, o) /\ arg'[t] = <<r, o>>
  <1>a. Place(t) /\ TypeThreads /\ TypeOK /\ Users
    BY DEF LagInv, Users, TypeOK
  <1> DEFINE Goal ==
         /\ pc'[t] = "c_unlink" =>
              rec' = rec /\ status' = status /\ arg'[t][1] = rec[t]
         /\ pc'[t] = "c_push" =>
              /\ rec' = rec /\ op' = op /\ op[t] = "none" /\ arg'[t] \in Records \X Objects
              /\ \/ CallUnlink(t) /\ arg'[t] = arg[t]
                 \/ \E r \in Records, o \in Objects : Call(t, r, o) /\ arg'[t] = <<r, o>>

  <1>1. ASSUME NEW h \in Handles, Begin(t, h) PROVE Goal
    BY <1>1, <1>a DEF Begin, Scanning, TypeThreads, Labels
  <1>2. ASSUME NEW h \in Handles, End(t, h) PROVE Goal
    BY <1>2, <1>a DEF End, Scanning, TypeThreads, Labels
  <1>3. ASSUME NEW h \in Handles, NEW o \in Objects, Dereference(t, h, o) PROVE Goal
    BY <1>3, <1>a DEF Dereference, Scanning, TypeThreads, Labels
  <1>4. ASSUME Observe(t) PROVE Goal
    BY <1>4, <1>a DEF Observe, Scanning, TypeThreads, Labels
  <1>5. ASSUME Synchronize(t) PROVE Goal
    BY <1>5, <1>a DEF Synchronize, Scanning, TypeThreads, Labels
  <1>6. ASSUME Poll(t) PROVE Goal
    BY <1>6, <1>a DEF Poll, Scanning, TypeThreads, Labels
  <1>7. ASSUME Register(t) PROVE Goal
    BY <1>7, <1>a DEF Register, Scanning, TypeThreads, Labels
  <1>8. ASSUME Unregister(t) PROVE Goal
    BY <1>8, <1>a DEF Unregister, Scanning, TypeThreads, Labels
  <1>9. ASSUME Recycle(t) PROVE Goal
    BY <1>9, <1>a DEF Recycle, Scanning, TypeThreads, Labels
  <1>10. ASSUME NEW o \in Objects, Unlink(t, o) PROVE Goal
    BY <1>10, <1>a DEF Unlink, Scanning, TypeThreads, Labels
  <1>11. ASSUME NEW o \in Objects, CallEarly(t, o) PROVE Goal
    <2>1. pc'[t] = "c_unlink" /\ rec' = rec /\ status' = status /\ arg'[t] = <<rec[t], o>>
      BY <1>11, <1>a DEF CallEarly, TypeThreads
    <2> QED
      BY <2>1
  <1>12. ASSUME NEW r \in Records, NEW o \in Objects, Call(t, r, o) PROVE Goal
    <2>1. pc'[t] = "c_push" /\ rec' = rec /\ op' = op /\ arg'[t] = <<r, o>> /\ op[t] = "none"
      BY <1>12, <1>a DEF Call, Place, Scanning, TypeThreads
    <2> QED
      BY <1>12, <2>1
  <1>13. ASSUME BeginLoad(t) PROVE Goal
    BY <1>13, <1>a DEF BeginLoad, Scanning, TypeThreads, Labels
  <1>14. ASSUME BeginStore(t) PROVE Goal
    BY <1>14, <1>a DEF BeginStore, Scanning, TypeThreads, Labels
  <1>15. ASSUME Addref(t) PROVE Goal
    BY <1>15, <1>a DEF Addref, Scanning, TypeThreads, Labels
  <1>16. ASSUME Delref(t) PROVE Goal
    BY <1>16, <1>a DEF Delref, Scanning, TypeThreads, Labels
  <1>17. ASSUME ObserveStore(t) PROVE Goal
    BY <1>17, <1>a DEF ObserveStore, Scanning, TypeThreads, Labels
  <1>18. ASSUME CallUnlink(t) PROVE Goal
    <2>1. arg[t] \in Listed \X Objects /\ Listed \subseteq Records
      BY <1>18, <1>a, ListType DEF CallUnlink, Place
    <2>2. arg[t] \in Records \X Objects
      BY <2>1
    <2> QED
      BY <1>18, <1>a, <2>2 DEF CallUnlink, Place, Scanning, TypeThreads
  <1>19. ASSUME CallPush(t) PROVE Goal
    BY <1>19, <1>a DEF CallPush, Scanning, TypeThreads, Labels
  <1>20. ASSUME ScanState(t) PROVE Goal
    BY <1>20, <1>a DEF ScanState, Scanning, TypeThreads, Labels
  <1>21. ASSUME ScanActive(t) PROVE Goal
    BY <1>21, <1>a DEF ScanActive, Scanning, TypeThreads, Labels
  <1>22. ASSUME ScanEpoch(t) PROVE Goal
    BY <1>22, <1>a DEF ScanEpoch, Scanning, TypeThreads, Labels
  <1>23. ASSUME SyncBlocked(t) PROVE Goal
    BY <1>23, <1>a DEF SyncBlocked, Scanning, TypeThreads, Labels
  <1>24. ASSUME SyncDone(t) PROVE Goal
    BY <1>24, <1>a DEF SyncDone, Scanning, TypeThreads, Labels
  <1>25. ASSUME ReclaimSlot(t) PROVE Goal
    BY <1>25, <1>a DEF ReclaimSlot, Scanning, TypeThreads, Labels
  <1>26. ASSUME PollBlocked(t) PROVE Goal
    BY <1>26, <1>a DEF PollBlocked, Scanning, TypeThreads, Labels
  <1>27. ASSUME PollDone(t) PROVE Goal
    BY <1>27, <1>a DEF PollDone, Scanning, TypeThreads, Labels
  <1>28. ASSUME PollSlot(t) PROVE Goal
    BY <1>28, <1>a DEF PollSlot, Scanning, TypeThreads, Labels
  <1>29. ASSUME UnregisterCount(t) PROVE Goal
    BY <1>29, <1>a DEF UnregisterCount, Scanning, TypeThreads, Labels
  <1>30. ASSUME RecycleState(t) PROVE Goal
    BY <1>30, <1>a DEF RecycleState, Scanning, TypeThreads, Labels
  <1>31. ASSUME RecycleSwap(t) PROVE Goal
    BY <1>31, <1>a DEF RecycleSwap, Scanning, TypeThreads, Labels
  <1>32. ASSUME RecycleCount(t) PROVE Goal
    BY <1>32, <1>a DEF RecycleCount, Scanning, TypeThreads, Labels
  <1> QED
    BY <1>1, <1>2, <1>3, <1>4, <1>5, <1>6, <1>7, <1>8, <1>9, <1>10, <1>11, <1>12, <1>13, <1>14,
       <1>15, <1>16, <1>17, <1>18, <1>19, <1>20, <1>21, <1>22, <1>23, <1>24, <1>25, <1>26, <1>27,
       <1>28, <1>29, <1>30, <1>31, <1>32 DEF Step, Choose, Continue

\* Objects on their way to destruction cannot be found any more.
LEMMA GoneStep ==
  ASSUME LagInv, LagInv', Gone, NEW t \in Threads, Step(t)
  PROVE  Gone'
  <1>a. TypeOK /\ TypeOK' /\ Users /\ Effect(t)
    BY StepEffect DEF LagInv
  <1>b. \A o \in Objects : status'[o] = "linked" => status[o] = "linked"
    BY <1>a, StatusStep
  <1>1. ASSUME NEW r \in Records, NEW s \in 0 .. 3, NEW o \in pending'[r][s]
        PROVE  status'[o] # "linked"
    <2>1. o \in Objects
      BY <1>a DEF TypeOK, TypeRecords
    <2>2. CASE o \in pending[r][s]
      BY <1>b, <2>1, <2>2 DEF Gone
    <2>3. CASE CallPush(t) /\ arg[t] = <<r, o>>
      BY <1>b, <2>1, <2>3 DEF Gone, CallPush
    <2> QED
      BY <1>a, <2>2, <2>3, PendingStep
  <1>2. ASSUME NEW u \in Threads
        PROVE  /\ pc'[u] = "c_unlink" => arg'[u][1] = rec'[u]
               /\ pc'[u] = "c_push" => status'[arg'[u][2]] # "linked"
    <2>1. CASE u # t
      <3>1. Same(u) /\ Place(u)
        BY <1>a, <2>1 DEF Effect, Users
      <3>2. pc[u] = "c_push" => arg[u][2] \in Objects
        BY <3>1 DEF Place
      <3> QED
        BY <1>b, <3>1, <3>2 DEF Same, Gone
    <2>2. CASE u = t
      <3>1. pc'[t] = "c_unlink" => arg'[t][1] = rec'[t]
        BY Calls
      <3>2. ASSUME pc'[t] = "c_push" PROVE status'[arg'[t][2]] # "linked"
        <4>1. CASE CallUnlink(t) /\ arg'[t] = arg[t]
          <5>1. arg[t][2] \in Objects /\ t # "linked"
            BY <3>2, <4>1, Calls, EpochAssumption
          <5> QED
            BY <1>a, <4>1, <5>1 DEF CallUnlink, TypeOK, TypeClient
        <4>2. ASSUME NEW r \in Records, NEW o \in Objects, Call(t, r, o), arg'[t] = <<r, o>>
              PROVE  status'[arg'[t][2]] # "linked"
          <5>1. status' = status /\ status[o] = t /\ t # "linked"
            BY <4>2, EpochAssumption DEF Call
          <5> QED
            BY <4>2, <5>1
        <4> QED
          BY <3>2, <4>1, <4>2, Calls
      <3> QED
        BY <2>2, <3>1, <3>2
    <2> QED
      BY <2>1, <2>2
  <1> QED
    BY <1>1, <1>2 DEF Gone


-----------------------------------------------------------------------------
(* What a call in progress is to destroy. *)

\* A call that waits or polls has just begun, or goes on with the same record.
LEMMA OpStep ==
  ASSUME LagInv, NEW t \in Threads, Step(t), op'[t] # "none"
  PROVE  \/ Synchronize(t) \/ Poll(t)
         \/ (op[t] # "none" /\ op'[t] = op[t] /\ rec' = rec)
  <1>a. Place(t) /\ TypeThreads
    BY DEF LagInv, Users, TypeOK
  <1> DEFINE Goal ==
         \/ Synchronize(t) \/ Poll(t)
         \/ (op[t] # "none" /\ op'[t] = op[t] /\ rec' = rec)

  <1>1. ASSUME NEW h \in Handles, Begin(t, h) PROVE Goal
    BY <1>1, <1>a DEF Begin, Place, Scanning, Searching, TypeThreads
  <1>2. ASSUME NEW h \in Handles, End(t, h) PROVE Goal
    BY <1>2, <1>a DEF End, Place, Scanning, Searching, TypeThreads
  <1>3. ASSUME NEW h \in Handles, NEW o \in Objects, Dereference(t, h, o) PROVE Goal
    BY <1>3, <1>a DEF Dereference, Place, Scanning, Searching, TypeThreads
  <1>4. ASSUME Observe(t) PROVE Goal
    BY <1>4, <1>a DEF Observe, Place, Scanning, Searching, TypeThreads
  <1>5. ASSUME Synchronize(t) PROVE Goal
    BY <1>5
  <1>6. ASSUME Poll(t) PROVE Goal
    BY <1>6
  <1>7. ASSUME Register(t) PROVE Goal
    BY <1>7, <1>a DEF Register, Place, Scanning, Searching, TypeThreads
  <1>8. ASSUME Unregister(t) PROVE Goal
    BY <1>8, <1>a DEF Unregister, Place, Scanning, Searching, TypeThreads
  <1>9. ASSUME Recycle(t) PROVE Goal
    BY <1>9, <1>a DEF Recycle, Place, Scanning, Searching, TypeThreads
  <1>10. ASSUME NEW o \in Objects, Unlink(t, o) PROVE Goal
    BY <1>10, <1>a DEF Unlink, Place, Scanning, Searching, TypeThreads
  <1>11. ASSUME NEW o \in Objects, CallEarly(t, o) PROVE Goal
    BY <1>11, <1>a DEF CallEarly, Place, Scanning, Searching, TypeThreads
  <1>12. ASSUME NEW r \in Records, NEW o \in Objects, Call(t, r, o) PROVE Goal
    BY <1>12, <1>a DEF Call, Place, Scanning, Searching, TypeThreads
  <1>13. ASSUME BeginLoad(t) PROVE Goal
    BY <1>13, <1>a DEF BeginLoad, Place, Scanning, Searching, TypeThreads
  <1>14. ASSUME BeginStore(t) PROVE Goal
    BY <1>14, <1>a DEF BeginStore, Place, Scanning, Searching, TypeThreads
  <1>15. ASSUME Addref(t) PROVE Goal
    BY <1>15, <1>a DEF Addref, Place, Scanning, Searching, TypeThreads
  <1>16. ASSUME Delref(t) PROVE Goal
    BY <1>16, <1>a DEF Delref, Place, Scanning, Searching, TypeThreads
  <1>17. ASSUME ObserveStore(t) PROVE Goal
    BY <1>17, <1>a DEF ObserveStore, Place, Scanning, Searching, TypeThreads
  <1>18. ASSUME CallUnlink(t) PROVE Goal
    BY <1>18, <1>a DEF CallUnlink, Place, Scanning, Searching, TypeThreads
  <1>19. ASSUME CallPush(t) PROVE Goal
    BY <1>19, <1>a DEF CallPush, Place, Scanning, Searching, TypeThreads
  <1>20. ASSUME ScanState(t) PROVE Goal
    BY <1>20, <1>a DEF ScanState, Place, Scanning, Searching, TypeThreads
  <1>21. ASSUME ScanActive(t) PROVE Goal
    BY <1>21, <1>a DEF ScanActive, Place, Scanning, Searching, TypeThreads
  <1>22. ASSUME ScanEpoch(t) PROVE Goal
    BY <1>22, <1>a DEF ScanEpoch, Place, Scanning, Searching, TypeThreads
  <1>23. ASSUME SyncBlocked(t) PROVE Goal
    BY <1>23, <1>a DEF SyncBlocked, Place, Scanning, Searching, TypeThreads
  <1>24. ASSUME SyncDone(t) PROVE Goal
    BY <1>24, <1>a DEF SyncDone, Place, Scanning, Searching, TypeThreads
  <1>25. ASSUME ReclaimSlot(t) PROVE Goal
    BY <1>25, <1>a DEF ReclaimSlot, Place, Scanning, Searching, TypeThreads
  <1>26. ASSUME PollBlocked(t) PROVE Goal
    BY <1>26, <1>a DEF PollBlocked, Place, Scanning, Searching, TypeThreads
  <1>27. ASSUME PollDone(t) PROVE Goal
    BY <1>27, <1>a DEF PollDone, Place, Scanning, Searching, TypeThreads
  <1>28. ASSUME PollSlot(t) PROVE Goal
    BY <1>28, <1>a DEF PollSlot, Place, Scanning, Searching, TypeThreads
  <1>29. ASSUME UnregisterCount(t) PROVE Goal
    BY <1>29, <1>a DEF UnregisterCount, Place, Scanning, Searching, TypeThreads
  <1>30. ASSUME RecycleState(t) PROVE Goal
    BY <1>30, <1>a DEF RecycleState, Place, Scanning, Searching, TypeThreads
  <1>31. ASSUME RecycleSwap(t) PROVE Goal
    BY <1>31, <1>a DEF RecycleSwap, Place, Scanning, Searching, TypeThreads
  <1>32. ASSUME RecycleCount(t) PROVE Goal
    BY <1>32, <1>a DEF RecycleCount, Place, Scanning, Searching, TypeThreads
  <1> QED
    BY <1>1, <1>2, <1>3, <1>4, <1>5, <1>6, <1>7, <1>8, <1>9, <1>10, <1>11, <1>12, <1>13, <1>14,
       <1>15, <1>16, <1>17, <1>18, <1>19, <1>20, <1>21, <1>22, <1>23, <1>24, <1>25, <1>26, <1>27,
       <1>28, <1>29, <1>30, <1>31, <1>32 DEF Step, Choose, Continue

\* A call covers what it did when it began: in the meantime nobody else defers
\* onto its record.
LEMMA CoveredStep ==
  ASSUME LagInv, ~shared, Gone, NEW t \in Threads, Step(t),
         NEW u \in Threads, NEW o \in Objects, Covered(u, o)'
  PROVE  Covered(u, o) \/ (u = t /\ (Synchronize(t) \/ Poll(t)))
  <1>a. TypeOK /\ Users /\ Effect(t) /\ Directory
    BY StepEffect DEF LagInv, Users
  <1>b. op'[u] # "none"
    BY DEF Covered
  <1> SUFFICES ASSUME ~(u = t /\ (Synchronize(t) \/ Poll(t))) PROVE Covered(u, o)
    OBVIOUS
  <1>1. op'[u] = op[u] /\ rec'[u] = rec[u] /\ op[u] # "none"
    <2>1. CASE u = t
      BY <1>b, <2>1, OpStep
    <2>2. CASE u # t
      BY <1>a, <1>b, <2>2 DEF Effect, Same
    <2> QED
      BY <2>1, <2>2
  <1>2. CASE op[u] = "sync"
    <2>1. status'[o] = u
      BY <1>1, <1>2 DEF Covered
    <2>2. status[o] = u
      BY <1>a, <1>1, <2>1, StatusStep
    <2> QED
      BY <1>2, <2>2 DEF Covered
  <1>3. CASE op[u] # "sync"
    <2>a. op[u] \in {"barrier", "poll"}
      BY <1>1, <1>3 DEF Covered
    <2>b. rec[u] \in Records
      <3>1. pc[u] \in Scanning \cup {"d_slot", "p_slot"} /\ rec[u] # NULL
        BY <1>a, <1>1 DEF Users, Place, Scanning, Searching
      <3> QED
        BY <1>a, <3>1 DEF TypeOK, TypeClient
    <2>1. ASSUME NEW s \in 0 .. 3, o \in pending'[rec[u]][s] PROVE Covered(u, o)
      <3>1. CASE o \in pending[rec[u]][s]
        BY <2>a, <3>1 DEF Covered
      <3>2. CASE CallPush(t) /\ arg[t] = <<rec[u], o>>
        BY <2>a, <3>2 DEF Covered, Flying, CallPush
      <3> QED
        BY <1>a, <2>1, <2>b, <3>1, <3>2, PendingStep
    <2>2. ASSUME NEW v \in Threads, pc'[v] = "c_push", arg'[v] = <<rec[u], o>> PROVE Covered(u, o)
      <3>1. CASE v # t
        <4>1. pc[v] = "c_push" /\ arg[v] = <<rec[u], o>>
          BY <1>a, <2>2, <3>1 DEF Effect, Same
        <4> QED
          BY <2>a, <4>1 DEF Covered, Flying
      <3>2. CASE v = t
        <4>a. op[t] = "none" /\ u # t
          BY <1>1, <2>2, <3>2, Calls
        <4>b. rec[u] # rec[t]
          BY <1>a, <2>b, <4>a, EpochAssumption DEF Directory
        <4>1. CASE CallUnlink(t) /\ arg'[t] = arg[t]
          <5>1. arg[t][1] = rec[t] /\ arg[t] = <<rec[u], o>>
            BY <2>2, <3>2, <4>1 DEF Gone, CallUnlink
          <5> QED
            BY <4>b, <5>1
        <4>2. ASSUME NEW r \in Records, NEW p \in Objects, Call(t, r, p), arg'[t] = <<r, p>>
              PROVE  FALSE
          <5>1. r = rec[u]
            BY <2>2, <3>2, <4>2
          <5>2. ~Reclaiming(r)
            BY <4>2, <4>b, <5>1 DEF Call
          <5> QED
            BY <1>1, <5>1, <5>2 DEF Reclaiming
        <4> QED
          BY <2>2, <3>2, <4>1, <4>2, Calls
      <3> QED
        BY <3>1, <3>2
    <2> QED
      BY <1>1, <1>3, <2>1, <2>2 DEF Covered, Flying
  <1> QED
    BY <1>2, <1>3

\* Observations that are not too old keep their order.
LEMMA Shift ==
  ASSUME LagInv, NEW t \in Threads, Step(t), NEW v \in Counter, Age(v) <= ticks + Lead \/ Age(v) <= 2
  PROVE  /\ Age(v) \in Nat /\ ticks \in Nat /\ ticks' \in Nat /\ (ticks' = ticks \/ ticks' = ticks + 1)
         /\ Then(v) = Age(v) + (ticks' - ticks)
  <1>a. TypeOK /\ TickBound /\ Horizon /\ Effect(t) /\ epoch \in Counter
    BY StepEffect DEF LagInv, TypeOK, TypeGlobal
  <1>b. Age(v) \in Nat
    BY <1>a, AgeType
  <1>c. ticks \in Nat /\ ticks' \in Nat /\ (ticks' = ticks \/ ticks' = ticks + 1)
    BY <1>a, OwnAges
  <1>1. CASE Age(v) <= ticks + Lead
    BY <1>1, <1>a, AgeStep
  <1>2. CASE Age(v) <= 2
    <2>1. Age(v) + 1 < Mod
      BY <1>2, <1>b, Width
    <2>2. CASE epoch' = epoch /\ ticks' = ticks
      BY <1>b, <1>c, <2>2 DEF Age, Then
    <2>3. CASE epoch' = Add(epoch, 1) /\ ticks' = ticks + 1
      <3>1. Then(v) = Age(v) + 1
        BY <1>a, <2>1, <2>3, AgeTick
      <3> QED
        BY <1>b, <1>c, <2>3, <3>1
    <2> QED
      BY <1>a, <2>2, <2>3 DEF Effect, Tick
  <1> QED
    BY <1>1, <1>2, <1>b, <1>c

\* A scan that comes to its end with references to the objects it is for still
\* about met an active record, and is not in its second round.
LEMMA NotYet ==
  ASSUME LagInv, Holders, Grace, NEW u \in Threads, pc[u] = "s_done",
         NEW t \in Threads, NEW h \in Handles, NEW o \in held[t][h], Covered(u, o)
  PROVE  af[u] /\ (op[u] # "poll" => iter[u] # 1)
  <1>a. TypeOK /\ Users /\ Horizon /\ Passed(u) /\ epoch \in Counter
    BY DEF LagInv, TypeOK, TypeGlobal
  <1>b. cursor[u] = NULL /\ From(NULL) = {}
    BY <1>a, FromNull DEF Users, Place, TypeOK, TypeGlobal
  <1>1. af[u]
    BY <1>b DEF Grace, Scanning
  <1>2. ASSUME op[u] # "poll", iter[u] = 1 PROVE FALSE
    <2>1. Age(first[u]) <= Age(Since(t, h))
      BY <1>2 DEF Grace, Scanning
    <2>2. Age(snap[u]) < Age(first[u])
      BY <1>a, <1>2 DEF Horizon, Recent, Scanning
    <2>3. /\ rec[t] # NULL /\ active[rec[t]] > 0 /\ pc[t] # "b_load" /\ Effective(t) = repoch[rec[t]]
          /\ Age(Since(t, h)) \in Nat /\ Age(repoch[rec[t]]) \in Nat
          /\ Age(Since(t, h)) <= Age(repoch[rec[t]])
      BY Young
    <2>4. Age(repoch[rec[t]]) <= Age(snap[u])
      BY <1>a, <1>b, <2>3 DEF Passed, Scanning
    <2>5. Age(snap[u]) \in Nat /\ Age(first[u]) \in Nat
      BY <1>a, AgeType DEF TypeOK, TypeThreads
    <2> QED
      BY <2>1, <2>2, <2>3, <2>4, <2>5
  <1> QED
    BY <1>1, <1>2

\* The short cut of ck_epoch_synchronize is not taken then.
LEMMA NotThere ==
  ASSUME LagInv, Holders, Grace, NEW u \in Threads, pc[u] = "s_blocked", op[u] # "poll",
         NEW t \in Threads, NEW h \in Handles, NEW o \in held[t][h], Covered(u, o)
  PROVE  ~(Add(first[u], 3) > first[u] /\ epoch >= Add(first[u], 3))
  <1>a. epoch \in Counter /\ first[u] \in Counter
    BY DEF LagInv, TypeOK, TypeGlobal, TypeThreads
  <1>1. Age(first[u]) <= Age(Since(t, h))
    BY DEF Grace, Scanning
  <1>2. Age(Since(t, h)) \in Nat /\ Age(Since(t, h)) <= 1
    BY Young
  <1>3. Age(first[u]) \in Nat /\ Age(first[u]) <= 1
    BY <1>a, <1>1, <1>2, AgeType
  <1>4. Age(first[u]) = IF epoch >= first[u] THEN epoch - first[u] ELSE epoch - first[u] + Mod
    BY <1>a, AgeIs
  <1>5. Add(first[u], 3) = IF first[u] + 3 < Mod THEN first[u] + 3 ELSE first[u] + 3 - Mod
    <2>a. first[u] \in Int /\ Mod \in Int
      BY <1>a, Width DEF Counter
    <2>1. PICK f \in Int : f = first[u] + 3
      BY <2>a
    <2>2. 0 <= f /\ f < 2 * Mod /\ 0 - Mod <= f
      BY <1>a, <2>1, Width DEF Counter
    <2>3. f % Mod = IF f < 0 THEN f + Mod ELSE IF f < Mod THEN f ELSE f - Mod
      BY <2>2, ModIs
    <2>4. Add(first[u], 3) = f % Mod
      BY <2>1 DEF Add
    <2>5. Add(first[u], 3) = IF f < Mod THEN f ELSE f - Mod
      BY <2>a, <2>2, <2>3, <2>4
    <2> QED
      BY <2>a, <2>1, <2>5
  <1> QED
    BY <1>a, <1>3, <1>4, <1>5, Width DEF Counter


-----------------------------------------------------------------------------
(* The grace period. *)

\* What a call that waits or polls may do next.
LEMMA ScanTurn ==
  ASSUME LagInv, NEW t \in Threads, Step(t), op[t] # "none"
  PROVE  \/ ScanState(t) \/ ScanActive(t) \/ ScanEpoch(t) \/ SyncBlocked(t) \/ SyncDone(t)
         \/ ReclaimSlot(t) \/ PollBlocked(t) \/ PollDone(t) \/ PollSlot(t)
  <1>a. pc[t] \in Scanning \cup {"d_slot", "p_slot"}
    BY DEF LagInv, Users, Place

  <1>1. CASE (\E h \in Handles : Begin(t, h)) \/ (\E h \in Handles : End(t, h))
             \/ (\E h \in Handles, o \in Objects : Dereference(t, h, o)) \/ Observe(t)
             \/ Synchronize(t) \/ Poll(t) \/ Register(t) \/ Unregister(t)
    BY <1>1, <1>a DEF Begin, End, Dereference, Observe, Synchronize, Poll, Register, Unregister,
       Scanning
  <1>2. CASE Recycle(t) \/ (\E o \in Objects : Unlink(t, o)) \/ (\E o \in Objects : CallEarly(t, o))
             \/ (\E r \in Records, o \in Objects : Call(t, r, o)) \/ BeginLoad(t) \/ BeginStore(t)
             \/ Addref(t) \/ Delref(t)
    BY <1>2, <1>a DEF Recycle, Unlink, CallEarly, Call, BeginLoad, BeginStore, Addref, Delref,
       Scanning
  <1>3. CASE ObserveStore(t) \/ CallUnlink(t) \/ CallPush(t) \/ UnregisterCount(t) \/ RecycleState(t)
             \/ RecycleSwap(t) \/ RecycleCount(t)
    BY <1>3, <1>a
       DEF ObserveStore, CallUnlink, CallPush, UnregisterCount, RecycleState, RecycleSwap,
       RecycleCount,
        Scanning
  <1> QED
    BY <1>1, <1>2, <1>3 DEF Step, Choose, Continue

\* What the scan of u is still to do for a section of t that refers to an
\* object it is to destroy.
Waits(u, t, h) ==
  /\ pc[u] # "d_slot"
  /\ pc[u] \in Scanning =>
       /\ op[u] # "poll" => Age(first[u]) <= Age(Since(t, h))
       /\ ~af[u] => rec[t] \in From(cursor[u])

\* Steps of the call itself.
LEMMA WaitsSelf ==
  ASSUME LagInv, LagInv', Holders, Grace, NEW u \in Threads, Step(u),
         NEW t \in Threads, NEW h \in Handles, NEW o \in held[t][h], Covered(u, o), op'[u] # "none"
  PROVE  /\ pc'[u] # "d_slot"
         /\ pc'[u] \in Scanning =>
              /\ first'[u] = first[u] /\ op'[u] = op[u] /\ pc[u] \in Scanning
              /\ ~af'[u] => rec[t] \in FromIn(records', cursor'[u])
  <1>a. /\ TypeOK /\ Users /\ Place(u) /\ Quiet(u) /\ TypeThreads /\ Directory /\ records \in Seq(Records)
    BY DEF LagInv, Users, TypeOK, TypeGlobal
  <1>b. /\ pc[u] # "d_slot" /\ op[u] # "none"
        /\ pc[u] \in Scanning /\ ~af[u] => rec[t] \in From(cursor[u])
    BY DEF Grace, Covered
  <1>c. rec[t] # NULL /\ rec[t] \in Listed /\ state[rec[t]] = "used" /\ active[rec[t]] > 0
    BY <1>a, Young DEF Directory
  <1>d. Listed # {} /\ Newest \in Listed /\ From(Newest) = Listed
    BY <1>a, <1>c, NewestFacts
  <1> DEFINE Goal ==
         /\ pc'[u] # "d_slot"
         /\ pc'[u] \in Scanning =>
              /\ first'[u] = first[u] /\ op'[u] = op[u] /\ pc[u] \in Scanning
              /\ ~af'[u] => rec[t] \in FromIn(records', cursor'[u])
  <1>e. ASSUME cursor[u] \in Listed, rec[t] \in From(cursor[u]), rec[t] # cursor[u]
        PROVE  rec[t] \in From(After(cursor[u]))
    <2>1. From(After(cursor[u])) = From(cursor[u]) \ {cursor[u]}
      BY <1>a, <1>e, AfterFacts DEF Directory
    <2> QED
      BY <1>e, <2>1
  <1>1. CASE ScanState(u)
    <2>1. /\ UNCHANGED <<op, first, af, records>> /\ pc[u] = "s_state" /\ cursor[u] \in Listed
          /\ pc'[u] \in {"s_active", "s_state", "s_done"}
          /\ \/ cursor' = cursor
             \/ cursor'[u] = After(cursor[u]) /\ state[cursor[u]] = "free"
      BY <1>1, <1>a DEF ScanState, Place, Scanning, TypeThreads
    <2>2. ~af[u] => rec[t] \in From(cursor'[u])
      BY <1>b, <1>c, <1>e, <2>1 DEF Scanning
    <2> QED
      BY <2>1, <2>2 DEF Scanning, From
  <1>2. CASE ScanActive(u)
    <2>1. /\ UNCHANGED <<op, first, records>> /\ pc[u] = "s_active" /\ cursor[u] \in Listed
          /\ pc'[u] \in {"s_epoch", "s_state", "s_done"}
          /\ \/ af'[u]
             \/ cursor'[u] = After(cursor[u]) /\ active[cursor[u]] = 0 /\ af' = af
      BY <1>2, <1>a DEF ScanActive, Place, Scanning, TypeThreads
    <2>2. ~af'[u] => rec[t] \in From(cursor'[u])
      BY <1>b, <1>c, <1>e, <2>1 DEF Scanning
    <2> QED
      BY <2>1, <2>2 DEF Scanning, From
  <1>3. CASE ScanEpoch(u)
    <2>1. UNCHANGED <<op, first, af, records>> /\ pc[u] = "s_epoch" /\ pc'[u] \in {"s_blocked", "s_state", "s_done"}
      BY <1>3, <1>a DEF ScanEpoch, TypeThreads
    <2>2. af[u]
      BY <1>a, <2>1 DEF Quiet
    <2> QED
      BY <2>1, <2>2 DEF Scanning
  <1>4. CASE SyncBlocked(u)
    <2>1. pc[u] = "s_blocked" /\ op[u] # "poll" /\ records' = records
      BY <1>4 DEF SyncBlocked
    <2>2. ~(Add(first[u], 3) > first[u] /\ epoch >= Add(first[u], 3))
      BY <2>1, NotThere
    <2>3. UNCHANGED <<op, first>> /\ pc'[u] = "s_state" /\ (af'[u] \/ cursor'[u] = Newest)
      BY <1>4, <1>a, <2>2 DEF SyncBlocked, TypeThreads
    <2> QED
      BY <1>c, <1>d, <2>1, <2>3 DEF Scanning, From
  <1>5. CASE SyncDone(u)
    <2>1. pc[u] = "s_done" /\ op[u] # "poll" /\ records' = records
      BY <1>5 DEF SyncDone
    <2>2. af[u] /\ iter[u] # 1
      BY <2>1, NotYet
    <2>3. UNCHANGED <<op, first>> /\ pc'[u] = "s_state" /\ cursor'[u] = Newest
      BY <1>5, <1>a, <2>2 DEF SyncDone, TypeThreads
    <2> QED
      BY <1>c, <1>d, <2>1, <2>3 DEF Scanning, From
  <1>6. CASE ReclaimSlot(u)
    BY <1>6, <1>b DEF ReclaimSlot
  <1>7. CASE PollBlocked(u)
    BY <1>7, <1>a DEF PollBlocked, TypeThreads
  <1>8. CASE PollDone(u)
    <2>1. pc[u] = "s_done"
      BY <1>8 DEF PollDone
    <2>2. af[u]
      BY <2>1, NotYet
    <2>3. pc'[u] = "p_slot"
      BY <1>8, <1>a, <2>2 DEF PollDone, TypeThreads
    <2> QED
      BY <2>3 DEF Scanning
  <1>9. CASE PollSlot(u)
    BY <1>9, <1>a DEF PollSlot, TypeThreads
  <1> QED
    BY <1>b, <1>1, <1>2, <1>3, <1>4, <1>5, <1>6, <1>7, <1>8, <1>9, ScanTurn

\* A section that refers to an object a call waits to destroy began before the
\* call, and the call has yet to come to its record or has met an active one.
LEMMA GraceStep ==
  ASSUME LagInv, LagInv', ~shared, Holders, Gone, Grace, NEW t \in Threads, Step(t)
  PROVE  Grace'
  <1>a. /\ TypeOK /\ TypeOK' /\ Users /\ Effect(t) /\ Horizon /\ TickBound
        /\ epoch \in Counter /\ epoch' \in Counter /\ ticks \in Nat /\ Lead \in Nat
    BY StepEffect, LeadType DEF LagInv, TypeOK, TypeGlobal
  <1> SUFFICES ASSUME NEW u \in Threads, NEW v \in Threads, NEW h \in Handles, NEW o \in held'[v][h],
                      Covered(u, o)'
               PROVE  Waits(u, v, h)'
    BY DEF Grace, Waits
  <1>b. o \in Objects
    BY <1>a DEF TypeOK, TypeClient
  <1>1. o \in held[v][h]
    <2> SUFFICES ASSUME o \notin held[v][h] PROVE FALSE
      OBVIOUS
    <2>1. status[o] = "linked" /\ status' = status /\ UNCHANGED <<pc, arg, pending>>
      BY <1>a, Acquired
    <2>2. u # "linked"
      BY EpochAssumption
    <2>3. \A r \in Records, s \in 0 .. 3 : o \notin pending'[r][s]
      BY <2>1 DEF Gone
    <2>4. \A w \in Threads : ~(pc'[w] = "c_push" /\ arg'[w][2] = o)
      BY <2>1 DEF Gone
    <2>5. op'[u] \in {"barrier", "poll"}
      BY <2>1, <2>2 DEF Covered
    <2>6. rec'[u] \in Records
      <3>1. pc'[u] \in Scanning \cup {"d_slot", "p_slot"} /\ rec'[u] # NULL
        BY <2>5 DEF LagInv, Users, Place, Scanning, Searching
      <3> QED
        BY <1>a, <3>1 DEF TypeOK, TypeClient
    <2> QED
      BY <2>3, <2>4, <2>5, <2>6 DEF Covered, Flying
  <1>2. /\ rec'[v] = rec[v] /\ Since(v, h)' = Since(v, h)
        /\ rec[v] # NULL /\ rec[v] \in Records /\ Since(v, h) \in Counter /\ Age(Since(v, h)) \in Nat
        /\ Age(Since(v, h)) <= 1
    BY <1>1, Kept, Young
  <1>3. CASE Covered(u, o)
    <2>a. Waits(u, v, h)
      BY <1>1, <1>3 DEF Grace, Waits
    <2>b. ASSUME pc[u] \in Scanning, op[u] # "poll"
          PROVE  Then(first[u]) <= Then(Since(v, h))
      <3>1. Age(first[u]) <= Age(Since(v, h)) /\ Age(first[u]) <= ticks
        BY <1>a, <2>a, <2>b DEF Waits, Horizon, Recent
      <3>2. first[u] \in Counter
        BY <1>a DEF TypeOK, TypeThreads
      <3>3. Age(first[u]) \in Nat
        BY <1>a, <3>2, AgeType
      <3>4. Age(first[u]) <= ticks + Lead /\ Age(Since(v, h)) <= 2
        BY <1>a, <1>2, <3>1, <3>3
      <3>5. /\ Then(first[u]) = Age(first[u]) + (ticks' - ticks) /\ ticks' \in Nat
            /\ Then(Since(v, h)) = Age(Since(v, h)) + (ticks' - ticks)
        BY <1>2, <3>2, <3>4, Shift
      <3> QED
        BY <1>2, <1>a, <3>1, <3>3, <3>5
    <2>1. CASE u = t
      <3>1. op'[t] # "none"
        BY <2>1 DEF Covered
      <3>2. /\ pc'[u] # "d_slot"
            /\ pc'[u] \in Scanning =>
                 /\ first'[u] = first[u] /\ op'[u] = op[u] /\ pc[u] \in Scanning
                 /\ ~af'[u] => rec[v] \in FromIn(records', cursor'[u])
        BY <1>1, <1>3, <2>1, <3>1, WaitsSelf
      <3> QED
        BY <1>2, <2>b, <3>2 DEF Waits, Age, Then, From
    <2>2. CASE u # t
      <3>1. Same(u) /\ Place(u)
        BY <1>a, <2>2 DEF Effect, Users
      <3>2. pc[u] \in Scanning => cursor[u] \in Listed \cup {NULL}
        BY <3>1 DEF Place, Scanning
      <3>3. pc[u] \in Scanning => FromIn(records', cursor[u]) = From(cursor[u])
        BY <1>a, <3>2, FromSame
      <3> QED
        BY <1>2, <2>a, <2>b, <3>1, <3>3 DEF Waits, Same, Age, Then, From
    <2> QED
      BY <2>1, <2>2
  <1>4. CASE u = t /\ (Synchronize(t) \/ Poll(t))
    <2>1. /\ pc'[t] = "s_state" /\ cursor'[t] = Newest /\ records' = records /\ epoch' = epoch
          /\ op'[t] # "poll" => first'[t] = epoch
      BY <1>4, <1>a DEF Synchronize, Poll, TypeOK, TypeThreads
    <2>2. rec[v] \in Listed
      BY <1>a, <1>2 DEF Users, Directory
    <2>3. From(Newest) = Listed
      BY <1>a, <2>2, NewestFacts DEF TypeOK, TypeGlobal
    <2>4. rec'[v] \in From(cursor[u])'
      BY <1>2, <1>4, <2>1, <2>2, <2>3 DEF From
    <2>5. Age(epoch) = 0
      BY <1>a, NowIsNew
    <2>6. op'[u] # "poll" => Age(first[u])' <= Age(Since(v, h))'
      BY <1>2, <1>4, <2>1, <2>5 DEF Age
    <2> QED
      BY <1>4, <2>1, <2>4, <2>6 DEF Waits
  <1> QED
    BY <1>b, <1>3, <1>4, CoveredStep


-----------------------------------------------------------------------------
(* The slots of ck_epoch_poll. *)

\* The slot of two epochs before is neither the one of the epoch nor that of
\* the epoch before, also where the epoch wraps around.
LEMMA SlotApart ==
  ASSUME epoch \in Counter, NEW v \in Counter, NEW e \in Counter, Age(v) <= Age(e), Age(e) <= Age(v) + 1
  PROVE  e % 4 # Sub(v, 2) % 4
  <1>a. Mod \in Nat /\ Mod >= 4 /\ v \in Int /\ e \in Int /\ epoch \in Int
        /\ 0 <= v /\ v < Mod /\ 0 <= e /\ e < Mod /\ 0 <= epoch /\ epoch < Mod
    BY Width DEF Counter
  <1>b. PICK k \in Int : Mod = 4 * k
    <2>1. Mod % 4 = 0
      BY Width
    <2> QED
      BY <1>a, <2>1
  <1>1. /\ Age(v) = IF epoch >= v THEN epoch - v ELSE epoch - v + Mod
        /\ Age(e) = IF epoch >= e THEN epoch - e ELSE epoch - e + Mod
    BY AgeIs
  <1>2. e = v \/ e = v - 1 \/ e = v - 1 + Mod
    BY <1>a, <1>1
  <1>3. Sub(v, 2) = v - 2 \/ Sub(v, 2) = v - 2 + Mod
    <2>1. 2 \in Counter
      BY Width DEF Counter
    <2> QED
      BY <2>1, SubIs
  <1>4. PICK q \in Int : q = Sub(v, 2)
    BY <1>a, <1>3
  <1>5. q = v - 2 \/ q = v - 2 + 4 * k
    BY <1>3, <1>4, <1>b
  <1>6. e = v \/ e = v - 1 \/ e = v - 1 + 4 * k
    BY <1>2, <1>b
  <1>7. e % 4 # q % 4
    BY <1>a, <1>5, <1>6
  <1> QED
    BY <1>4, <1>7

\* A poll that passed all records is younger than the sections that are open.
LEMMA PollPassed ==
  ASSUME LagInv, Holders, NEW u \in Threads, pc[u] = "p_slot",
         NEW t \in Threads, NEW h \in Handles, held[t][h] # {}
  PROVE  Age(Since(t, h)) <= Age(snap[u])
  <1>a. TypeOK /\ Users /\ Passed(u) /\ epoch \in Counter
    BY DEF LagInv, TypeOK, TypeGlobal
  <1>b. cursor[u] = NULL /\ From(NULL) = {}
    BY <1>a, FromNull DEF Users, Place, TypeOK, TypeGlobal
  <1>1. /\ rec[t] # NULL /\ active[rec[t]] > 0 /\ pc[t] # "b_load" /\ Effective(t) = repoch[rec[t]]
        /\ Age(Since(t, h)) \in Nat /\ Age(repoch[rec[t]]) \in Nat
        /\ Age(Since(t, h)) <= Age(repoch[rec[t]])
    BY Young
  <1>2. Age(repoch[rec[t]]) <= Age(snap[u])
    BY <1>a, <1>b, <1>1 DEF Passed
  <1>3. Age(snap[u]) \in Nat
    BY <1>a, AgeType DEF TypeOK, TypeThreads
  <1> QED
    BY <1>1, <1>2, <1>3

\* An epoch of deferral that fits a section remains one.
LEMMA FitStep ==
  ASSUME LagInv, LagInv', Holders, NEW t \in Threads, Step(t), NEW e \in Counter, NEW r \in Records,
         NEW v \in Threads, NEW h \in Handles, held[v][h] # {}, held'[v][h] # {}, Fit(e, r, v, h)
  PROVE  Fit(e, r, v, h)'
  <1>a. /\ TypeOK /\ TypeOK' /\ Users /\ Effect(t) /\ Horizon
        /\ epoch \in Counter /\ epoch' \in Counter /\ ticks \in Nat /\ Lead \in Nat
    BY StepEffect, LeadType DEF LagInv, TypeOK, TypeGlobal
  <1>b. /\ rec'[v] = rec[v] /\ Since(v, h)' = Since(v, h)
        /\ Since(v, h) \in Counter /\ Age(Since(v, h)) \in Nat /\ Age(Since(v, h)) <= 1
    BY Kept, Young
  <1>c. Age(e) \in Nat /\ Age(e) <= 2
    BY <1>a, <1>b, AgeType DEF Fit
  <1>d. /\ Then(e) = Age(e) + (ticks' - ticks) /\ ticks' \in Nat /\ (ticks' = ticks \/ ticks' = ticks + 1)
        /\ Then(Since(v, h)) = Age(Since(v, h)) + (ticks' - ticks)
    <2>1. Age(Since(v, h)) <= 2
      BY <1>b
    <2> QED
      BY <1>b, <1>c, <2>1, Shift
  <1>1. Then(e) <= Then(Since(v, h)) + 1
    BY <1>a, <1>b, <1>c, <1>d DEF Fit
  <1>2. ASSUME NEW u \in Threads, rec'[u] = r, op'[u] = "poll"
        PROVE  Then(snap'[u]) <= Then(e)
    <2>1. CASE u = t /\ Poll(t)
      <3>1. snap'[u] = epoch /\ epoch' = epoch
        BY <1>a, <2>1 DEF Poll, TypeOK, TypeThreads
      <3>2. Age(epoch) = 0
        BY <1>a, NowIsNew
      <3>3. Then(snap'[u]) = 0
        BY <3>1, <3>2 DEF Then, Age
      <3> QED
        BY <1>a, <1>c, <1>d, <3>3
    <2>2. CASE ~(u = t /\ Poll(t))
      <3>1. op[u] = "poll" /\ rec[u] = r /\ snap'[u] = snap[u]
        <4>1. CASE u # t
          BY <1>2, <1>a, <4>1 DEF Effect, Same
        <4>2. CASE u = t
          <5>1. ~Synchronize(t)
            BY <1>2, <1>a, <4>2 DEF Synchronize, TypeOK, TypeThreads
          <5>2. op[t] = "poll" /\ rec' = rec
            BY <1>2, <2>2, <4>2, <5>1, OpStep
          <5>3. snap'[t] = snap[t]
            <6>1. CASE ScanState(t) \/ ScanActive(t) \/ ScanEpoch(t)
              BY <6>1 DEF ScanState, ScanActive, ScanEpoch
            <6>2. CASE SyncBlocked(t) \/ SyncDone(t)
              BY <5>2, <6>2 DEF SyncBlocked, SyncDone
            <6>3. CASE ReclaimSlot(t)
              BY <1>2, <1>a, <4>2, <6>3 DEF ReclaimSlot, TypeOK, TypeThreads
            <6>4. CASE PollBlocked(t) \/ PollSlot(t)
              BY <1>2, <1>a, <4>2, <6>4 DEF PollBlocked, PollSlot, TypeOK, TypeThreads
            <6>5. CASE PollDone(t)
              BY <6>5 DEF PollDone
            <6> QED
              BY <5>2, <6>1, <6>2, <6>3, <6>4, <6>5, ScanTurn
          <5> QED
            BY <1>2, <4>2, <5>2, <5>3
        <4> QED
          BY <4>1, <4>2
      <3>2. Age(snap[u]) <= Age(e)
        BY <3>1 DEF Fit
      <3>3. snap[u] \in Counter
        BY <1>a DEF TypeOK, TypeThreads
      <3>4. Age(snap[u]) \in Nat
        BY <1>a, <3>3, AgeType
      <3>5. Age(snap[u]) <= 2
        BY <1>c, <3>2, <3>4
      <3>6. Then(snap[u]) = Age(snap[u]) + (ticks' - ticks)
        BY <3>3, <3>5, Shift
      <3> QED
        BY <1>a, <1>c, <1>d, <3>1, <3>2, <3>4, <3>6
    <2> QED
      BY <2>1, <2>2
  <1> QED
    BY <1>b, <1>1, <1>2 DEF Fit, Age, Then


\* A deferred object that a section refers to is in the slot of an epoch that is
\* neither too late for the section nor too early for a poll of the record.
LEMMA DeferredStep ==
  ASSUME LagInv, LagInv', ~shared, Holders, Gone, Deferred, NEW t \in Threads, Step(t)
  PROVE  Deferred'
  <1>a. TypeOK /\ TypeOK' /\ Users /\ Effect(t) /\ Directory /\ epoch \in Counter
    BY StepEffect DEF LagInv, TypeOK, TypeGlobal, Users
  <1>b. \A r \in Threads : snap[r] \in Counter
    BY <1>a DEF TypeOK, TypeThreads
  <1>1. ASSUME NEW r \in Records, NEW s \in 0 .. 3, NEW o \in pending'[r][s],
               NEW v \in Threads, NEW h \in Handles, o \in held'[v][h]
        PROVE  \E e \in Counter : e % 4 = s /\ Fit(e, r, v, h)'
    <2>1. o \in held[v][h]
      <3> SUFFICES ASSUME o \notin held[v][h] PROVE FALSE
        OBVIOUS
      <3>1. status[o] = "linked" /\ UNCHANGED <<pc, arg, pending>>
        BY <1>1, <1>a, Acquired
      <3> QED
        BY <1>1, <3>1 DEF Gone
    <2>2. ASSUME NEW e \in Counter, e % 4 = s, Fit(e, r, v, h)
          PROVE  \E f \in Counter : f % 4 = s /\ Fit(f, r, v, h)'
      <3>1. Fit(e, r, v, h)'
        BY <1>1, <2>1, <2>2, FitStep
      <3> QED
        BY <2>2, <3>1
    <2>3. CASE o \in pending[r][s]
      BY <2>1, <2>2, <2>3 DEF Deferred
    <2>4. CASE CallPush(t) /\ arg[t] = <<r, o>> /\ s = snap[t] % 4
      <3>1. Fit(snap[t], r, v, h)
        BY <2>1, <2>4 DEF Deferred, CallPush
      <3> QED
        BY <1>b, <2>2, <2>4, <3>1
    <2> QED
      BY <1>a, <2>3, <2>4, PendingStep
  <1>2. ASSUME NEW w \in Threads, pc'[w] = "c_push",
               NEW v \in Threads, NEW h \in Handles, arg'[w][2] \in held'[v][h]
        PROVE  Fit(snap[w], arg[w][1], v, h)'
    <2>1. arg'[w][2] \in held[v][h]
      <3> SUFFICES ASSUME arg'[w][2] \notin held[v][h] PROVE FALSE
        OBVIOUS
      <3>1. status[arg'[w][2]] = "linked" /\ UNCHANGED <<pc, arg, pending>>
        BY <1>2, <1>a, Acquired
      <3> QED
        BY <1>2, <3>1 DEF Gone
    <2>2. ASSUME NEW e \in Counter, NEW r \in Records, snap'[w] = e, arg'[w][1] = r, Fit(e, r, v, h)
          PROVE  Fit(snap[w], arg[w][1], v, h)'
      <3>1. Fit(e, r, v, h)'
        BY <1>2, <2>1, <2>2, FitStep
      <3> QED
        BY <2>2, <3>1 DEF Fit
    <2>3. CASE w # t
      <3>1. Same(w) /\ Place(w)
        BY <1>a, <2>3 DEF Effect, Users
      <3>2. arg[w][1] \in Records
        BY <1>2, <1>a, <3>1, ListType DEF Same, Place
      <3>3. Fit(snap[w], arg[w][1], v, h)
        BY <1>2, <2>1, <3>1 DEF Same, Deferred
      <3> QED
        BY <1>b, <2>2, <3>1, <3>2, <3>3 DEF Same
    <2>4. CASE w = t
      <3>a. /\ op[t] = "none" /\ arg'[t] \in Records \X Objects
            /\ \/ CallUnlink(t) /\ arg'[t] = arg[t]
               \/ \E r \in Records, o \in Objects : Call(t, r, o) /\ arg'[t] = <<r, o>>
        BY <1>2, <2>4, Calls
      <3>b. Age(Since(v, h)) \in Nat
        BY <2>1, Young
      <3>1. CASE CallUnlink(t) /\ arg'[t] = arg[t]
        <4>1. pc[t] = "c_unlink" /\ snap' = snap /\ rec[t] # NULL /\ arg[t][1] = rec[t] /\ rec[t] \in Records
          <5>1. pc[t] = "c_unlink" /\ snap' = snap
            BY <3>1 DEF CallUnlink
          <5>2. Place(t)
            BY <1>a DEF Users
          <5>3. rec[t] # NULL
            BY <5>1, <5>2 DEF Place, Searching
          <5>4. arg[t][1] = rec[t] /\ rec[t] \in Records
            BY <1>a, <5>1, <5>3 DEF Gone, TypeOK, TypeClient
          <5> QED
            BY <5>1, <5>3, <5>4
        <4>2. Age(snap[t]) <= Age(repoch[rec[t]]) /\ Age(repoch[rec[t]]) <= 1
          BY <4>1 DEF LagInv, Own
        <4>3. Age(snap[t]) \in Nat /\ Age(repoch[rec[t]]) \in Nat
          BY <1>a, <4>1, AgeType DEF TypeOK, TypeThreads, TypeRecords
        <4>4. \A u \in Threads : rec[u] = rec[t] => u = t
          BY <1>a, <4>1 DEF Directory
        <4>5. Fit(snap[t], rec[t], v, h)
          BY <3>a, <3>b, <4>2, <4>3, <4>4 DEF Fit
        <4> QED
          BY <1>b, <2>2, <2>4, <3>1, <4>1, <4>5
      <3>2. ASSUME NEW r \in Records, NEW o \in Objects, Call(t, r, o), arg'[t] = <<r, o>>
            PROVE  Fit(snap[w], arg[w][1], v, h)'
        <4>1. snap'[t] = epoch
          BY <1>a, <3>2 DEF Call, TypeOK, TypeThreads
        <4>2. \A u \in Threads : rec[u] = r => op[u] # "poll"
          <5>1. CASE r = rec[t]
            <6>1. \A u \in Threads : rec[u] = r => u = t
              BY <1>a, <5>1, EpochAssumption DEF Directory
            <6> QED
              BY <3>a, <6>1
          <5>2. CASE r # rec[t]
            BY <3>2, <5>2 DEF Call, Reclaiming
          <5> QED
            BY <5>1, <5>2
        <4>3. Fit(epoch, r, v, h)
          BY <1>a, <3>b, <4>2, NowIsNew DEF Fit
        <4> QED
          BY <1>a, <2>2, <2>4, <3>2, <4>1, <4>3
      <3> QED
        BY <3>a, <3>1, <3>2
    <2> QED
      BY <2>3, <2>4
  <1>3. \A r \in Records, s \in 0 .. 3 : \A o \in pending'[r][s] :
          \A v \in Threads, h \in Handles : o \in held'[v][h] =>
            \E e \in Counter : e % 4 = s /\ Fit(e, r, v, h)'
    BY <1>1
  <1>4. \A w \in Threads : pc'[w] = "c_push" =>
          \A v \in Threads, h \in Handles : arg'[w][2] \in held'[v][h] => Fit(snap[w], arg[w][1], v, h)'
    BY <1>2
  <1> QED
    BY <1>3, <1>4 DEF Deferred, Fit

-----------------------------------------------------------------------------
(* Nothing is destroyed too early. *)

\* No step destroys an object that a section refers to.
LEMMA SafeStep ==
  ASSUME LagInv, Holders, Grace, Deferred, NoUseAfterFree, NEW t \in Threads, Step(t)
  PROVE  NoUseAfterFree'
  <1>a. TypeOK /\ Users /\ epoch \in Counter /\ Place(t)
    BY DEF LagInv, TypeOK, TypeGlobal, Users
  <1> SUFFICES ASSUME NEW v \in Threads, NEW h \in Handles, NEW o \in held'[v][h], status'[o] = "freed"
               PROVE  FALSE
    BY DEF NoUseAfterFree
  <1>1. o \in held[v][h]
    BY <1>a, Acquired
  <1>2. o \in Objects /\ status[o] # "freed"
    BY <1>a, <1>1 DEF NoUseAfterFree, TypeOK, TypeClient
  <1>3. Frees(t, o)
    BY <1>a, <1>2, StatusStep
  <1>4. ASSUME status[o] = t, op[t] = "sync", op'[t] = "none", SyncBlocked(t) \/ SyncDone(t)
        PROVE  FALSE
    <2>1. Covered(t, o)
      BY <1>4 DEF Covered
    <2>2. CASE SyncBlocked(t)
      <3>1. pc[t] = "s_blocked"
        BY <2>2 DEF SyncBlocked
      <3>2. ~(Add(first[t], 3) > first[t] /\ epoch >= Add(first[t], 3))
        BY <1>1, <1>4, <2>1, <3>1, NotThere
      <3>3. op' = op
        BY <2>2, <3>2 DEF SyncBlocked
      <3> QED
        BY <1>4, <3>3
    <2>3. CASE SyncDone(t)
      <3>1. pc[t] = "s_done"
        BY <2>3 DEF SyncDone
      <3>2. af[t] /\ iter[t] # 1
        BY <1>1, <1>4, <2>1, <3>1, NotYet
      <3>3. op' = op
        BY <2>3, <3>2 DEF SyncDone
      <3> QED
        BY <1>4, <3>3
    <2> QED
      BY <1>4, <2>2, <2>3
  <1>5. ASSUME ReclaimSlot(t), NEW s \in 0 .. 3, o \in pending[rec[t]][s]
        PROVE  FALSE
    <2>1. pc[t] = "d_slot"
      BY <1>5 DEF ReclaimSlot
    <2>2. op[t] \in {"barrier", "poll"}
      BY <1>a, <2>1 DEF Place, TypeOK, TypeThreads
    <2>3. Covered(t, o)
      BY <1>5, <2>2 DEF Covered
    <2> QED
      BY <1>1, <2>1, <2>3 DEF Grace
  <1>6. ASSUME PollSlot(t), o \in pending[rec[t]][Sub(snap[t], 2) % 4]
        PROVE  FALSE
    <2>1. pc[t] = "p_slot" /\ op[t] = "poll" /\ rec[t] \in Records /\ snap[t] \in Counter
      BY <1>6, <1>a DEF PollSlot, Place, Searching, TypeOK, TypeClient, TypeThreads
    <2>2. PICK s \in 0 .. 3 : s = Sub(snap[t], 2) % 4
      <3>1. 2 \in Counter
        BY Width DEF Counter
      <3>2. Sub(snap[t], 2) \in Nat
        BY <2>1, <3>1, SubIs, Zero
      <3> QED
        BY <3>2, Parity
    <2>3. PICK e \in Counter : e % 4 = s /\ Fit(e, rec[t], v, h)
      BY <1>1, <1>6, <2>1, <2>2 DEF Deferred
    <2>4. Age(snap[t]) <= Age(e) /\ Age(e) <= Age(Since(v, h)) + 1
      BY <2>1, <2>3 DEF Fit
    <2>5. Age(Since(v, h)) <= Age(snap[t]) /\ Age(Since(v, h)) \in Nat
      BY <1>1, <2>1, PollPassed, Young
    <2>6. Age(e) \in Nat /\ Age(snap[t]) \in Nat
      BY <1>a, <2>1, AgeType
    <2>7. Age(e) <= Age(snap[t]) + 1
      BY <2>4, <2>5, <2>6
    <2>8. e % 4 # Sub(snap[t], 2) % 4
      BY <1>a, <2>1, <2>4, <2>7, SlotApart
    <2> QED
      BY <2>2, <2>3, <2>8
  <1> QED
    BY <1>3, <1>4, <1>5, <1>6 DEF Frees

\* The initial epoch satisfies the invariant.
LEMMA InvInit == Init /\ ~shared => Inv
  <1> SUFFICES ASSUME Init, ~shared PROVE Inv
    OBVIOUS
  <1>1. LagInv
    BY LagInit
  <1>2. /\ \A t \in Threads, h \in Handles : held[t][h] = {}
        /\ \A r \in Records, s \in 0 .. 3 : pending[r][s] = {}
        /\ \A t \in Threads : pc[t] = "idle"
    BY DEF Init, NoRefs, EmptyPending
  <1>3. Holders /\ Gone /\ Grace /\ NoUseAfterFree
    BY <1>2 DEF Holders, Gone, Grace, NoUseAfterFree
  <1>4. Deferred
    BY <1>2 DEF Deferred
  <1> QED
    BY <1>1, <1>3, <1>4 DEF Inv

\* Nothing changes.
LEMMA InvStutter == Inv /\ UNCHANGED vars => Inv'
  <1> SUFFICES ASSUME Inv, UNCHANGED vars PROVE Inv'
    OBVIOUS
  <1>1. /\ UNCHANGED <<may, sectioned, shared, epoch, n_free, records, ticks>>
        /\ UNCHANGED <<state, active, repoch, bucket, pending, rec, sec, held, status>>
        /\ UNCHANGED <<pc, snap, arg, op, first, iter, cursor, af>>
    BY DEF vars
  <1>2. LagInv'
    BY LagStutter DEF Inv
  <1>3. Holders' /\ Gone' /\ NoUseAfterFree'
    BY <1>1 DEF Inv, Holders, Gone, NoUseAfterFree
  <1>4. \A t \in Threads, h \in Handles : Since(t, h)' = Since(t, h)
    BY <1>1 DEF Since
  <1>5. Grace'
    <2>1. \A r : From(r)' = From(r)
      BY <1>1 DEF From
    <2>2. \A u \in Threads : \A o : Covered(u, o)' <=> Covered(u, o)
      BY <1>1 DEF Covered, Flying
    <2> QED
      BY <1>1, <1>4, <2>1, <2>2 DEF Inv, Grace, Age
  <1>6. Deferred'
    <2>1. \A e, r : \A t \in Threads, h \in Handles : Fit(e, r, t, h)' <=> Fit(e, r, t, h)
      BY <1>1, <1>4 DEF Fit, Age
    <2> QED
      BY <1>1, <2>1 DEF Inv, Deferred
  <1> QED
    BY <1>1, <1>2, <1>3, <1>5, <1>6 DEF Inv

\* Safe memory reclamation: no object is destroyed, by ck_epoch_poll,
\* ck_epoch_barrier or the caller of ck_epoch_synchronize, while a thread is in
\* a section in which it acquired a reference to it.  For any number of threads,
\* records, objects and section objects, unless threads defer onto records that
\* others are reclaiming.
THEOREM EpochSafe == Spec /\ ~shared => []NoUseAfterFree
  <1>1. Inv /\ [Next]_vars => Inv'
    <2> SUFFICES ASSUME Inv, [Next]_vars PROVE Inv'
      OBVIOUS
    <2>1. CASE UNCHANGED vars
      BY <2>1, InvStutter
    <2>2. CASE Next
      <3>1. PICK t \in Threads : Step(t)
        BY <2>2 DEF Next, Step
      <3>2. LagInv /\ ~shared /\ Holders /\ Gone /\ Grace /\ Deferred /\ NoUseAfterFree
        BY DEF Inv
      <3>3. LagInv'
        BY <3>1, <3>2, LagStep
      <3>4. ~shared'
        BY <3>1, <3>2, StepEffect DEF LagInv, Effect
      <3>5. Holders' /\ Gone' /\ Grace' /\ Deferred' /\ NoUseAfterFree'
        BY <3>1, <3>2, <3>3, HoldersStep, GoneStep, GraceStep, DeferredStep, SafeStep
      <3> QED
        BY <3>3, <3>4, <3>5 DEF Inv
    <2> QED
      BY <2>1, <2>2
  <1>2. Inv => NoUseAfterFree
    BY DEF Inv
  <1> QED
    BY <1>1, <1>2, InvInit, PTL DEF Spec
=============================================================================
