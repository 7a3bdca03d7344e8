----------------------------- MODULE SyncProofs -----------------------------
(***************************************************************************)
(* Proofs about MCSync: for any number of threads and any width of the     *)
(* counters, a writer of any of the reader-writer and cohort locks is      *)
(* alone, ck_pflock and the cohorts are as fair as they promise, a reader  *)
(* of ck_sequence keeps consistent words, and exponential_backoff sleeps   *)
(* until a time in the future.                                             *)
(*                                                                         *)
(* Every lock has an inductive invariant that says what its words count    *)
(* and who holds it; Inv is the one of the lock under test.                *)
(***************************************************************************)
EXTENDS MCSync, FiniteSetTheorems, TLAPS

\* The threads that are at one of the labels in S, where p says who is where.
In(p, S) == {t \in Threads : p[t] \in S}

-----------------------------------------------------------------------------
(* ck_rwlock.                                                                *)

RwLabels == {"idle", "w_writer", "w_drain", "w_undo", "wr", "w_down",
             "r_writer", "r_count", "r_check", "r_back", "rd"}
RwCounted == {"r_check", "r_back", "rd", "w_down"}
RwType ==
  /\ m \in [recursive : BOOLEAN, writer : Threads \cup {NULL}, n_readers : Int, wc : Int]
  /\ pc \in [Threads -> RwLabels] /\ r \in [Threads -> [try : BOOLEAN]]
\* n_readers counts those who have added to it and not yet subtracted; writer
\* is the thread that is between its announcement and its release.
RwInv ==
  /\ RwType
  /\ m.n_readers = Cardinality(In(pc, RwCounted))
  /\ \A t \in Threads : pc[t] \in {"w_drain", "w_undo", "wr", "w_down"} <=> m.writer = t
  /\ \A t, u \in Threads : pc[t] \in {"wr", "w_down"} => pc[u] # "rd"

-----------------------------------------------------------------------------
(* ck_swlock.                                                                *)

SwLabels == {"idle", "w_drain", "wr", "w_down", "r_writer", "r_count", "r_back", "rd"}
SwCounted == {"r_back", "rd", "w_down"}
SwWriting == {"w_drain", "wr", "w_down"}
SwType ==
  /\ m \in [w : BOOLEAN, latch : BOOLEAN, n : Int]
  /\ pc \in [Threads -> SwLabels] /\ r \in [Threads -> [try : BOOLEAN, latched : BOOLEAN]]
\* While it is not latched the word counts the readers; once it is, nobody is
\* left who would subtract from it.
SwInv ==
  /\ SwType
  /\ IF m.latch THEN \A t \in Threads : pc[t] \notin SwCounted
     ELSE m.n = Cardinality(In(pc, SwCounted))
  /\ \A t \in Threads : pc[t] \in SwWriting => t = Writer
  /\ m.w <=> \E t \in Threads : pc[t] \in SwWriting
  /\ \A t \in Threads : pc[t] = "wr" => (m.latch <=> r[t].latched)
  /\ m.latch => \E t \in Threads : pc[t] = "wr"
  /\ \A t, u \in Threads : pc[t] \in {"wr", "w_down"} => pc[u] # "rd"

-----------------------------------------------------------------------------
(* Counters that wrap around.                                                *)

\* How far it is from a up to b, for counters modulo n.
Ahead(n, a, b) == IF a <= b THEN b - a ELSE b - a + n

-----------------------------------------------------------------------------
(* ck_tflock.                                                                *)

\* How far it is from a up to b, for counters of ck_tflock: the highest bit
\* does not count.
Low(x) == IF x = Top THEN 0 ELSE x
TfAhead(a, b) == Ahead(Top, Low(a), Low(b))
TfCounters == [rc : 0 .. Top, wc : 0 .. Top]
TfW == {"w_wait", "wr"}
TfR == {"r_wait", "rd"}
TfType ==
  /\ m \in [request : TfCounters, completion : TfCounters]
  /\ pc \in [Threads -> {"idle", "w_wait", "wr", "r_wait", "rd"}]
  /\ r \in [Threads -> [previous : TfCounters]]
\* The writers before t that have not completed, and the readers; the readers
\* that came before the writer t.
WritersBefore(t) == TfAhead(m.completion.wc, r[t].previous.wc)
ReadersBefore(t) == TfAhead(m.completion.rc, r[t].previous.rc)
Earlier(t) == {u \in In(pc, TfR) : WritersBefore(u) <= WritersBefore(t)}
\* The counters say how many are between request and completion, the writers
\* have turns of their own, and a writer waits for the readers before it.
TfInv ==
  /\ TfType
  /\ TfAhead(m.completion.wc, m.request.wc) = Cardinality(In(pc, TfW))
  /\ TfAhead(m.completion.rc, m.request.rc) = Cardinality(In(pc, TfR))
  /\ \A t \in In(pc, TfW) : WritersBefore(t) < Cardinality(In(pc, TfW))
  /\ \A t, u \in In(pc, TfW) : WritersBefore(t) = WritersBefore(u) => t = u
  /\ \A t \in In(pc, TfR) : WritersBefore(t) <= Cardinality(In(pc, TfW))
  /\ \A t \in In(pc, TfW) : ReadersBefore(t) = Cardinality(Earlier(t))
  /\ \A t \in Threads : pc[t] = "rd" => WritersBefore(t) = 0
  /\ \A t \in Threads : pc[t] = "wr" => WritersBefore(t) = 0 /\ ReadersBefore(t) = 0

-----------------------------------------------------------------------------
(* ck_pflock.                                                                *)

PfLabels == {"idle", "w_turn", "w_phase", "w_drain", "wr", "w_next", "r_phase", "rd"}
PfW == {"w_turn", "w_phase", "w_drain", "wr", "w_next"}
PfR == {"r_phase", "rd"}
PfServed == {"w_phase", "w_drain", "wr", "w_next"}
PfTickets == 0 .. Wrap - 1
PfAhead(a, b) == Ahead(Wrap, a, b)
Phase(ticket) == ticket % 2
PfType ==
  /\ m \in [rin : PfTickets, pres : BOOLEAN, phid : {0, 1}, rout : PfTickets, win : PfTickets,
            wout : PfTickets]
  /\ pc \in [Threads -> PfLabels]
  /\ r \in [Threads -> [ticket : PfTickets, phid : {0, 1}, passed : 0 .. 1]]
\* The reader waits for the writer that is present; the readers that no longer
\* wait, or never did.
Blocked(t) == pc[t] = "r_phase" /\ m.pres /\ r[t].phid = m.phid
Free == {t \in Threads : pc[t] \in PfR /\ ~Blocked(t)}
Turn(t) == PfAhead(m.wout, r[t].ticket)
\* The writers have turns of their own.  While one is present the readers that
\* it waits for are those that do not wait for it; when it has left, all the
\* readers that waited are free before the next one comes.
PfInv ==
  /\ PfType
  /\ PfAhead(m.wout, m.win) = Cardinality(In(pc, PfW))
  /\ PfAhead(m.rout, m.rin) = Cardinality(In(pc, PfR))
  /\ \A t, u \in Threads : pc[t] \in PfServed /\ pc[u] \in PfServed => t = u
  /\ \A t \in Threads : pc[t] = "w_turn" => Turn(t) < Cardinality(In(pc, PfW))
  /\ \A t, u \in Threads : pc[t] = "w_turn" /\ pc[u] \in PfServed => Turn(t) # 0
  /\ \A t, u \in Threads : pc[t] = "w_turn" /\ pc[u] = "w_turn" /\ Turn(t) = Turn(u) => t = u
  /\ \A t \in Threads : pc[t] = "w_phase" => r[t].ticket = m.wout
  /\ m.pres <=> \E t \in Threads : pc[t] \in {"w_drain", "wr"}
  /\ m.pres => m.phid = Phase(m.wout)
  /\ \A t \in Threads : pc[t] = "w_drain" => PfAhead(m.rout, r[t].ticket) = Cardinality(Free)
  /\ \A t \in Threads : pc[t] = "wr" => Free = {}
  /\ \A t \in Threads : pc[t] = "r_phase" /\ ~m.pres =>
       (r[t].phid = Phase(m.wout) <=> \E u \in Threads : pc[u] = "w_next")
  /\ \A t \in Threads : Blocked(t) \/ pc[t] \notin PfR => r[t].passed = 0

-----------------------------------------------------------------------------
(* ck_brlock.                                                                *)

BrLabels == {"idle", "w_writer", "w_readers", "wr", "register", "unregister", "w_unlock",
             "r_writer", "r_count", "r_check", "r_back", "rd"}
BrW == {"w_readers", "wr", "register", "unregister", "w_unlock"}
BrR == {"r_writer", "r_count", "r_check", "r_back", "rd"}
BrThen == {"wr", "register", "unregister"}
BrLocals == [try : BOOLEAN, then : BrThen, cursor : Nat \ {0}]
BrType ==
  /\ m \in [readers : Seq(Threads), writer : BOOLEAN, n_readers : [Threads -> Int]]
  /\ pc \in [Threads -> BrLabels]
  /\ r \in [Threads -> BrLocals]
\* A reader that reads is registered and counted, and the writer has gone past
\* no such reader.
BrInv ==
  /\ BrType
  /\ \A t, u \in Threads : pc[t] \in BrW /\ pc[u] \in BrW => t = u
  /\ m.writer <=> \E t \in Threads : pc[t] \in BrW
  /\ \A t \in Threads : pc[t] \in BrR => Br!Registered(t)
  /\ \A t \in Threads : pc[t] \in {"r_check", "rd"} => m.n_readers[t] > 0
  /\ \A t \in Threads : pc[t] = "w_writer" => r[t].cursor = 1
  /\ \A t \in Threads : pc[t] = "w_readers" =>
       \A i \in DOMAIN m.readers : i < r[t].cursor => pc[m.readers[i]] # "rd"
  /\ \A t, u \in Threads : pc[t] = "wr" => pc[u] # "rd"

-----------------------------------------------------------------------------
(* ck_bytelock.                                                              *)

ByLabels == {"idle", "w_owner", "w_slot", "w_slotted", "w_unslotted", "wr", "r_owner", "r_down",
             "r_release", "r_count", "r_check", "r_back", "r_wait", "rd"}
ByW == {"w_slot", "w_slotted", "w_unslotted", "wr", "r_down", "r_release"}
ByR == {"r_check", "r_back", "rd"}
\* The threads that are counted, for p as in In, where those of S have a slot.
Unslotted(p, S) == {t \in Threads : p[t] \in ByR /\ t \notin S}
ByType ==
  /\ m \in [slotted : SlottedSets, use : Uses, owner : Threads \cup {UNSLOTTED, NULL},
            n_readers : Int, readers : [m.slotted -> BOOLEAN], upgrader : m.slotted \cup {NULL}]
  /\ pc \in [Threads -> ByLabels]
  /\ r \in [Threads -> [words : SUBSET m.slotted]]
  /\ \A t \in Threads : pc[t] = "w_slot" => t \in m.slotted
\* The number that owner holds is the writer's.  Where it is UNSLOTTED, nobody
\* who reads the lock passes that number.
ByOwned ==
  /\ \A t \in Threads : pc[t] \in ByW => m.owner = By!Number(t)
  /\ \A t \in Threads : m.owner = t => pc[t] \in ByW \/ (pc[t] = "r_owner" /\ t \in m.slotted)
  /\ \A t \in Threads : pc[t] \in {"r_down", "r_release"} => t \in m.slotted
  /\ \A t, u \in Threads : pc[t] \in ByW /\ pc[u] \in ByW => t = u
  /\ m.use = "own" => m.owner # UNSLOTTED
  /\ m.use = "reads" =>
       m.owner # UNSLOTTED /\ \A t \in Threads \ m.slotted : pc[t] \notin ByW \cup {"w_owner"}
  /\ m.use = "writes" =>
       \A t \in Threads \ m.slotted : pc[t] \notin ByR \cup {"r_owner", "r_count", "r_wait"}
\* A reader that reads has its byte set or is counted, and the writer has gone
\* past no such byte.
ByCounted ==
  /\ m.n_readers = Cardinality(Unslotted(pc, m.slotted))
  /\ \A t \in Threads : pc[t] \in ByR \cup {"r_release"} /\ t \in m.slotted => m.readers[t]
  /\ \A t \in Threads : pc[t] = "w_slot" => r[t].words = m.slotted
  /\ \A t \in Threads : pc[t] = "w_slotted" => \A u \in m.slotted \ r[t].words : pc[u] # "rd"
  /\ \A t \in Threads : pc[t] = "w_unslotted" => \A u \in m.slotted : pc[u] # "rd"
  /\ \A t, u \in Threads : pc[t] = "wr" => pc[u] # "rd"
ByInv == ByType /\ (m.use # "any" => ByOwned /\ ByCounted)

-----------------------------------------------------------------------------
(* ck_cohort and ck_rwcohort.                                                *)

\* Who has taken the lock, before and after it is counted as acquired.
CoAcquiring == {"c_lock", "c_local", "c_got", "c_global", "c_count"}
CoOwning == {"w_drain", "w_readers", "w_lower", "wr", "r_locked", "c_unlock", "c_all"}
CoReleasing == {"c_unlock", "c_all", "c_release"}
CoTrying == {"t_local", "t_failed", "t_got", "t_global", "t_count", "t_undo"}
CoReading == {"r_barrier", "r_count", "r_check", "r_check_local", "r_back", "r_poll",
              "r_poll_local", "r_poll_or_raise", "r_lower", "rd"}
CoLabels ==
  CoAcquiring \cup CoOwning \cup CoReleasing \cup CoTrying \cup CoReading
    \cup {"idle", "w_barrier", "w_poll"}
CoLocal == CoOwning \cup {"c_got", "c_global", "c_count", "c_release",
                          "t_got", "t_global", "t_undo", "t_count"}
CoGlobal == CoOwning \cup {"c_count", "t_count"}
\* Nothing keeps a reader at label from reading any more: it has found the lock
\* free, or it reads the neutral lock, has counted itself and releases the lock.
CoIn(label, then) ==
  \/ label \in {"r_check_local", "r_lower", "rd"}
  \/ label \in CoReleasing /\ then = "r_locked"
CoCounts(label, then) == CoIn(label, then) \/ label \in {"r_check", "r_back"}
CoEntered == {t \in Threads : CoIn(pc[t], r[t].then)}
CoCounted == {t \in Threads : CoCounts(pc[t], r[t].then)}
\* What the count of a cohort's acquisitions is while nobody in it has the lock,
\* and while who has the local lock is at label.
CoRested(release, acquired) ==
  /\ release = "global" => acquired = 0
  /\ release = "local" => acquired < PassLimit
CoHeld(label, release, acquired) ==
  \/ label \in {"c_got", "t_got", "c_release"} /\ CoRested(release, acquired)
  \/ label \in {"c_global", "t_global", "t_undo"} /\ release = "global" /\ acquired = 0
  \/ label \in {"c_count", "t_count"} /\ acquired < PassLimit
  \/ label \in CoOwning /\ acquired <= PassLimit
\* Where a thread goes on after it has acquired, or released, the lock.
CoThen(label, then) ==
  /\ label \in CoAcquiring =>
       \/ m.policy = "cohort" /\ then = "wr"
       \/ m.policy = "rp" /\ then = "w_readers"
       \/ m.policy \in {"wp", "neutral"} /\ then = "w_drain"
       \/ m.policy = "neutral" /\ then = "r_locked"
  /\ label \in CoReleasing =>
       then \in {"idle", "r_locked"} \/ (then = "w_readers" /\ m.policy = "rp")
  /\ label = "w_barrier" => m.policy = "wp" /\ then = "w_drain"
  /\ label \in CoTrying => m.policy = "cohort"
  /\ label \in {"w_readers", "w_poll"} => m.policy = "rp" /\ then = "w_readers"
  /\ label = "r_locked" => m.policy = "neutral" /\ then = "r_locked"
  /\ CoCounts(label, then) \/ label \in CoReading => m.policy # "cohort"
CoType ==
  /\ m \in [policy : {"cohort", "wp", "rp", "neutral"}, global : Cohorts \cup {NULL},
            local : [Cohorts -> Threads \cup {NULL}], release : [Cohorts -> {"local", "global"}],
            waiting : [Cohorts -> Int], acquired : [Cohorts -> Int], readers : Int, barrier : Int]
  /\ pc \in [Threads -> CoLabels]
  /\ r \in [Threads -> [then : {"idle", "wr", "w_readers", "w_drain", "r_locked", "rd"},
                        raised : BOOLEAN]]
CoLocks ==
  /\ \A t \in Threads : pc[t] \in CoLocal <=> m.local[Co!C(t)] = t
  /\ \A c \in Cohorts : m.local[c] # NULL => Co!C(m.local[c]) = c
CoGlobals ==
  /\ \A t \in Threads : pc[t] \in CoGlobal => m.global = Co!C(t)
  /\ \A c \in Cohorts : m.release[c] = "local" => m.global = c
CoAcquired ==
  \A c \in Cohorts :
    \/ m.local[c] = NULL /\ CoRested(m.release[c], m.acquired[c])
    \/ m.local[c] # NULL /\ CoHeld(pc[m.local[c]], m.release[c], m.acquired[c])
CoReaders ==
  /\ m.readers = Cardinality(CoCounted)
  /\ In(pc, {"wr", "w_lower"}) # {} => CoEntered = {}
CoInv ==
  /\ CoType
  /\ \A t \in Threads : CoThen(pc[t], r[t].then)
  /\ CoLocks /\ CoGlobals /\ CoAcquired /\ CoReaders

-----------------------------------------------------------------------------
(* ck_sequence.                                                              *)

SqLabels == {"idle", "w_x", "w_y", "w_end", "r_begin", "r_x", "r_y", "r_retry", "r_done"}
SqCopying == {"r_x", "r_y", "r_retry"}
SqType ==
  /\ m \in [sequence : 0 .. SequenceWrap - 1, mutex : Threads \cup {NULL}, x : Int, y : Int]
  /\ pc \in [Threads -> SqLabels]
  /\ r \in [Threads -> [version : 0 .. SequenceWrap - 1, x : Int, y : Int, lag : 0 .. MaxLag]]
\* What a reader knows: how far the sequence is from its version says how many
\* writes have begun since, and while that is none its copies are current.
SqRead(t) ==
  /\ Ahead(SequenceWrap, r[t].version, m.sequence) =
       IF m.mutex = NULL THEN 2 * r[t].lag ELSE 2 * r[t].lag - 1
  /\ r[t].lag = 0 => /\ m.mutex = NULL
                     /\ pc[t] \in {"r_y", "r_retry"} => r[t].x = m.x
                     /\ pc[t] = "r_retry" => r[t].y = m.y
SqInv ==
  /\ SqType
  /\ \A t \in Threads : pc[t] \in {"w_x", "w_y", "w_end"} <=> m.mutex = t
  /\ m.sequence % 2 = 0 <=> m.mutex = NULL
  /\ (\A t \in Threads : pc[t] # "w_y") => m.x = m.y
  /\ \A t \in Threads : pc[t] = "w_y" => m.x = (m.y + 1) % (SequenceWrap \div 2)
  /\ \A t \in Threads : pc[t] \in SqCopying => SqRead(t)
  /\ \A t \in Threads : pc[t] = "r_done" => r[t].x = r[t].y

-----------------------------------------------------------------------------
(* exponential_backoff.                                                      *)

BoSecond == [sec |-> 1, nsec |-> 0]
BoLocals == [first : BOOLEAN, begin : EcBo!Times, stop : EcBo!Times, wait : Nat,
             partial : EcBo!Times, deadline : EcBo!Times]
BoType ==
  /\ m \in [now : EcBo!Times]
  /\ pc \in [One -> {"idle", "check", "loop", "resting"}]
  /\ r \in [One -> BoLocals]
\* After the first look at the clock, the end of the short sleeps is one second
\* after it.
BoInv ==
  /\ BoType
  /\ \A t \in One : pc[t] \in {"loop", "resting"} => ~r[t].first
  /\ \A t \in One : ~r[t].first => r[t].stop = EcBo!TimespecAdd(r[t].begin, BoSecond)
  /\ EcBo!SleepAhead

-----------------------------------------------------------------------------
(* Barriers and event counts have no label of a reader or a writer.          *)

OtherInv ==
  \A t \in DOMAIN pc : pc[t] \notin {"wr", "w_down", "rd"}

Inv ==
  /\ kind = "rw" => RwInv
  /\ kind = "sw" => SwInv
  /\ kind = "tf" => TfInv
  /\ kind = "pf" => PfInv
  /\ kind = "br" => BrInv
  /\ kind = "byte" => ByInv
  /\ kind = "cohort" => CoInv
  /\ kind = "sequence" => SqInv
  /\ kind = "backoff" => BoInv
  /\ kind \notin {"rw", "sw", "tf", "pf", "br", "byte", "cohort", "sequence", "backoff"} => OtherInv

-----------------------------------------------------------------------------
(* Counting threads, and counters that wrap around.                          *)

\* Only t may go to another label.
Moved(p, q, t) == \A u \in Threads \ {t} : q[u] = p[u]

\* How the number of the threads at labels of S changes when t moves.
LEMMA InCount ==
  ASSUME NEW p, NEW q, NEW S, NEW t \in Threads, Moved(p, q, t)
  PROVE  /\ IsFiniteSet(In(p, S)) /\ Cardinality(In(p, S)) \in Nat
         /\ IsFiniteSet(In(q, S)) /\ Cardinality(In(q, S)) \in Nat
         /\ Cardinality(In(q, S)) = Cardinality(In(p, S))
              + (IF q[t] \in S THEN 1 ELSE 0) - (IF p[t] \in S THEN 1 ELSE 0)
  <1>1. IsFiniteSet(In(p, S)) /\ IsFiniteSet(In(q, S))
    BY SyncAssumption, FS_Subset DEF In
  <1>2. Cardinality(In(p, S)) \in Nat /\ Cardinality(In(q, S)) \in Nat
    BY <1>1, FS_CardinalityType
  <1>3. CASE q[t] \in S <=> p[t] \in S
    <2>1. In(q, S) = In(p, S)
      BY <1>3 DEF In, Moved
    <2> QED BY <1>1, <1>2, <1>3, <2>1
  <1>4. CASE q[t] \in S /\ p[t] \notin S
    <2>1. t \notin In(p, S) /\ In(q, S) = In(p, S) \cup {t}
      BY <1>4 DEF In, Moved
    <2>2. Cardinality(In(q, S)) = Cardinality(In(p, S)) + 1
      BY <1>1, <2>1, FS_AddElement
    <2> QED BY <1>1, <1>2, <1>4, <2>2
  <1>5. CASE q[t] \notin S /\ p[t] \in S
    <2>1. t \in In(p, S) /\ In(q, S) = In(p, S) \ {t}
      BY <1>5 DEF In, Moved
    <2>2. Cardinality(In(q, S)) = Cardinality(In(p, S)) - 1
      BY <1>1, <2>1, FS_RemoveElement
    <2> QED BY <1>1, <1>2, <1>5, <2>2
  <1> QED BY <1>3, <1>4, <1>5

\* Nobody is at a label of S exactly when the number is 0.
LEMMA InNone ==
  ASSUME NEW p, NEW S
  PROVE  Cardinality(In(p, S)) = 0 <=> \A t \in Threads : p[t] \notin S
  <1>1. IsFiniteSet(In(p, S))
    BY SyncAssumption, FS_Subset DEF In
  <1>2. Cardinality(In(p, S)) = 0 <=> In(p, S) = {}
    BY <1>1, FS_EmptySet
  <1> QED BY <1>2 DEF In

\* A counter modulo n goes on by one, or back to 0.
LEMMA Increment ==
  ASSUME NEW n \in Nat \ {0}, NEW x \in 0 .. n - 1
  PROVE  (x + 1) % n = IF x + 1 = n THEN 0 ELSE x + 1
  <1>1. CASE x + 1 = n
    BY <1>1
  <1>2. CASE x + 1 < n
    BY <1>2
  <1> QED BY <1>1, <1>2

\* How the distance changes when one of its ends goes on.
LEMMA AheadIncrement ==
  ASSUME NEW n \in Nat \ {0}, NEW a \in 0 .. n - 1, NEW b \in 0 .. n - 1
  PROVE  /\ Ahead(n, a, b) \in 0 .. n - 1
         /\ Ahead(n, a, b) = 0 <=> a = b
         /\ (b + 1) % n \in 0 .. n - 1
         /\ Ahead(n, a, b) + 1 < n => Ahead(n, a, (b + 1) % n) = Ahead(n, a, b) + 1
         /\ a # b => Ahead(n, (a + 1) % n, b) = Ahead(n, a, b) - 1
  <1>1. (a + 1) % n = IF a + 1 = n THEN 0 ELSE a + 1
    BY Increment
  <1>2. (b + 1) % n = IF b + 1 = n THEN 0 ELSE b + 1
    BY Increment
  <1> HIDE DEF Ahead
  <1> QED BY <1>1, <1>2 DEF Ahead

-----------------------------------------------------------------------------
(* The steps of ck_rwlock.                                                   *)

\* The steps of ck_rwlock preserve the invariant.
LEMMA RwStep ==
  ASSUME RwInv, NEW t \in Threads, Rw!Calls(t) \/ Rw!Steps(t)
  PROVE  RwInv'
  <1>0. NULL \notin Threads
    BY SyncAssumption
  <1>1. RwType' /\ Moved(pc, pc', t)
    <2> USE DEF RwInv, RwType, RwLabels, Rw!At, Rw!Go, Rw!Step, Rw!Put, Rw!With, Rw!Local,
      Rw!GoForget,
                Rw!Goes, Rw!Unless, Moved
    <2>1. CASE Rw!WriteLock(t)
      BY <2>1 DEF Rw!WriteLock, Rw!Call
    <2>2. CASE Rw!ReadLock(t)
      BY <2>2 DEF Rw!ReadLock, Rw!Call
    <2>3. CASE Rw!WriteLockAgain(t)
      BY <2>3 DEF Rw!WriteLockAgain
    <2>4. CASE Rw!Downgrade(t)
      BY <2>4 DEF Rw!Downgrade
    <2>5. CASE Rw!WriteWriter(t)
      BY <2>5 DEF Rw!WriteWriter
    <2>6. CASE Rw!WriteDrain(t)
      BY <2>6 DEF Rw!WriteDrain
    <2>7. CASE Rw!WriteUndo(t)
      BY <2>7 DEF Rw!WriteUndo
    <2>8. CASE Rw!DowngradeUnlock(t)
      BY <2>8 DEF Rw!DowngradeUnlock
    <2>9. CASE Rw!WriteUnlock(t) /\ ~m.recursive
      BY <2>9 DEF Rw!WriteUnlock
    <2>10. CASE Rw!WriteUnlock(t) /\ m.recursive /\ m.wc = 1
      <3>1. m' = [recursive |-> m.recursive, writer |-> NULL, n_readers |-> m.n_readers,
              wc |-> m.wc - 1]
        BY <2>10 DEF Rw!WriteUnlock
      <3>2. m' \in [recursive : BOOLEAN, writer : Threads \cup {NULL}, n_readers : Int, wc : Int]
        BY <3>1
      <3> QED BY <2>10, <3>2 DEF Rw!WriteUnlock
    <2>11. CASE Rw!WriteUnlock(t) /\ m.recursive /\ m.wc # 1
      <3>1. m' = [m EXCEPT !.wc = m.wc - 1]
        BY <2>11 DEF Rw!WriteUnlock
      <3>2. m' \in [recursive : BOOLEAN, writer : Threads \cup {NULL}, n_readers : Int, wc : Int]
        BY <3>1
      <3> QED BY <2>11, <3>2 DEF Rw!WriteUnlock
    <2>12. CASE Rw!ReadWriter(t)
      BY <2>12 DEF Rw!ReadWriter
    <2>13. CASE Rw!ReadCount(t)
      BY <2>13 DEF Rw!ReadCount
    <2>14. CASE Rw!ReadCheck(t)
      BY <2>14 DEF Rw!ReadCheck
    <2>15. CASE Rw!ReadBack(t)
      BY <2>15 DEF Rw!ReadBack
    <2>16. CASE Rw!ReadUnlock(t)
      BY <2>16 DEF Rw!ReadUnlock
    <2> QED BY <2>1, <2>2, <2>3, <2>4, <2>5, <2>6, <2>7, <2>8, <2>9, <2>10, <2>11, <2>12, <2>13,
               <2>14, <2>15, <2>16 DEF Rw!Calls, Rw!Steps
  <1>2. /\ Cardinality(In(pc, RwCounted)) \in Nat
        /\ Cardinality(In(pc', RwCounted)) = Cardinality(In(pc, RwCounted))
              + (IF pc'[t] \in RwCounted THEN 1 ELSE 0) - (IF pc[t] \in RwCounted THEN 1 ELSE 0)
    BY <1>1, InCount
  <1>3. m.n_readers = 0 <=> \A u \in Threads : pc[u] \notin RwCounted
    BY InNone DEF RwInv
  <1> USE <1>0, <1>1, <1>2 DEF RwInv, RwType, RwLabels, RwCounted, Moved, Rw!At, Rw!Go, Rw!Step,
    Rw!Local, Rw!GoForget, Rw!Goes, Rw!Unless
  <1>4. CASE Rw!WriteLock(t) \/ Rw!ReadLock(t)
    BY <1>4 DEF Rw!WriteLock, Rw!ReadLock, Rw!Call
  <1>5. CASE Rw!WriteLockAgain(t) \/ Rw!Downgrade(t)
    BY <1>5 DEF Rw!WriteLockAgain, Rw!Downgrade
  <1>6. CASE Rw!WriteWriter(t) 
    BY <1>6 DEF Rw!WriteWriter
  <1>7. CASE Rw!WriteDrain(t) 
    BY <1>3, <1>7 DEF Rw!WriteDrain
  <1>8. CASE Rw!WriteUndo(t)
    BY <1>8 DEF Rw!WriteUndo
  <1>12. CASE Rw!WriteUnlock(t)
    BY <1>12 DEF Rw!WriteUnlock
  <1>9. CASE Rw!DowngradeUnlock(t)
    BY <1>9 DEF Rw!DowngradeUnlock
  <1>10. CASE Rw!ReadWriter(t) \/ Rw!ReadCount(t)
    BY <1>10 DEF Rw!ReadWriter, Rw!ReadCount
  <1>11. CASE Rw!ReadCheck(t) \/ Rw!ReadBack(t) \/ Rw!ReadUnlock(t)
    BY <1>11 DEF Rw!ReadCheck, Rw!ReadBack, Rw!ReadUnlock
  <1> QED BY <1>4, <1>5, <1>6, <1>7, <1>8, <1>9, <1>10, <1>11, <1>12 DEF Rw!Calls, Rw!Steps

-----------------------------------------------------------------------------
(* The steps of ck_swlock.                                                   *)

\* The steps of ck_swlock preserve the invariant.
LEMMA SwStep ==
  ASSUME SwInv, NEW t \in Threads, Rw!SwCalls(t) \/ Rw!SwSteps(t)
  PROVE  SwInv'
  <1>1. SwType' /\ Moved(pc, pc', t)
    <2> USE DEF SwInv, SwType, SwLabels, Rw!At, Rw!Go, Rw!Step, Rw!Put, Rw!With, Rw!Local,
      Rw!GoForget,
                Rw!SwGoes, Moved
    <2>1. CASE Rw!SwWriteTrylock(t)
      BY <2>1 DEF Rw!SwWriteTrylock
    <2>2. CASE Rw!SwWriteLock(t)
      <3>1. PICK latch \in BOOLEAN : r' = [r EXCEPT ![t] = Rw!With(@, [latched |-> latch])]
        BY <2>2 DEF Rw!SwWriteLock
      <3>2. r' \in [Threads -> [try : BOOLEAN, latched : BOOLEAN]]
        BY <3>1
      <3> QED BY <2>2, <3>2 DEF Rw!SwWriteLock
    <2>3. CASE Rw!SwReadLock(t)
      BY <2>3 DEF Rw!SwReadLock
    <2>4. CASE Rw!SwDowngrade(t)
      BY <2>4 DEF Rw!SwDowngrade
    <2>5. CASE Rw!SwWriteDrain(t)
      BY <2>5 DEF Rw!SwWriteDrain
    <2>6. CASE Rw!SwWriteUnlock(t)
      <3>1. m' = [w |-> FALSE, latch |-> FALSE, n |-> IF r[t].latched THEN 0 ELSE m.n]
        BY <2>6 DEF Rw!SwWriteUnlock
      <3>2. m' \in [w : BOOLEAN, latch : BOOLEAN, n : Int]
        BY <3>1
      <3> QED BY <2>6, <3>2 DEF Rw!SwWriteUnlock
    <2>7. CASE Rw!SwDowngradeUnlock(t)
      <3>1. m' = [w |-> FALSE, latch |-> FALSE, n |-> m.n]
        BY <2>7 DEF Rw!SwDowngradeUnlock
      <3>2. m' \in [w : BOOLEAN, latch : BOOLEAN, n : Int]
        BY <3>1
      <3> QED BY <2>7, <3>2 DEF Rw!SwDowngradeUnlock
    <2>8. CASE Rw!SwReadWriter(t)
      BY <2>8 DEF Rw!SwReadWriter
    <2>9. CASE Rw!SwReadCount(t)
      BY <2>9 DEF Rw!SwReadCount
    <2>10. CASE Rw!SwReadBack(t)
      BY <2>10 DEF Rw!SwReadBack
    <2>11. CASE Rw!SwReadUnlock(t)
      BY <2>11 DEF Rw!SwReadUnlock
    <2> QED BY <2>1, <2>2, <2>3, <2>4, <2>5, <2>6, <2>7, <2>8, <2>9, <2>10, <2>11 DEF Rw!SwCalls,
               Rw!SwSteps
  <1>2. /\ Cardinality(In(pc, SwCounted)) \in Nat
        /\ Cardinality(In(pc', SwCounted)) = Cardinality(In(pc, SwCounted))
              + (IF pc'[t] \in SwCounted THEN 1 ELSE 0) - (IF pc[t] \in SwCounted THEN 1 ELSE 0)
    BY <1>1, InCount
  <1>3. Cardinality(In(pc, SwCounted)) = 0 <=> \A u \in Threads : pc[u] \notin SwCounted
    BY InNone
  <1>4. Cardinality(In(pc', SwCounted)) = 0 <=> \A u \in Threads : pc'[u] \notin SwCounted
    BY InNone
  <1> USE <1>1, <1>2, <1>3, <1>4 DEF SwInv, SwType, SwLabels, SwCounted, SwWriting, Moved,
    Rw!At, Rw!Go, Rw!Step, Rw!Local,
          Rw!GoForget, Rw!SwGoes
  <1>5. CASE Rw!SwWriteTrylock(t)
    BY <1>5 DEF Rw!SwWriteTrylock, Rw!Put, Rw!With
  <1>6. CASE Rw!SwWriteLock(t)
    BY <1>6 DEF Rw!SwWriteLock, Rw!Put, Rw!With
  <1>7. CASE Rw!SwReadLock(t)
    BY <1>7 DEF Rw!SwReadLock, Rw!Put, Rw!With
  <1>8. CASE Rw!SwDowngrade(t)
    BY <1>8 DEF Rw!SwDowngrade, Rw!Put, Rw!With
  <1>9. CASE Rw!SwWriteDrain(t)
    BY <1>9 DEF Rw!SwWriteDrain, Rw!Put, Rw!With
  <1>10. CASE Rw!SwWriteUnlock(t)
    BY <1>10 DEF Rw!SwWriteUnlock, Rw!Put, Rw!With
  <1>11. CASE Rw!SwDowngradeUnlock(t)
    BY <1>11 DEF Rw!SwDowngradeUnlock, Rw!Put, Rw!With
  <1>12. CASE Rw!SwReadWriter(t)
    BY <1>12 DEF Rw!SwReadWriter, Rw!Put, Rw!With
  <1>13. CASE Rw!SwReadCount(t)
    <2>1. CASE m.latch
      BY <1>13, <2>1 DEF Rw!SwReadCount
    <2>2. CASE ~m.latch /\ m.w
      BY <1>13, <2>2 DEF Rw!SwReadCount
    <2>3. CASE ~m.latch /\ ~m.w
      BY <1>13, <2>3 DEF Rw!SwReadCount
    <2> QED BY <2>1, <2>2, <2>3
  <1>14. CASE Rw!SwReadBack(t)
    BY <1>14 DEF Rw!SwReadBack, Rw!Put, Rw!With
  <1>15. CASE Rw!SwReadUnlock(t)
    BY <1>15 DEF Rw!SwReadUnlock, Rw!Put, Rw!With
  <1> QED BY <1>5, <1>6, <1>7, <1>8, <1>9, <1>10, <1>11, <1>12, <1>13, <1>14, <1>15
             DEF Rw!SwCalls, Rw!SwSteps

-----------------------------------------------------------------------------
(* The steps of ck_tflock.                                                   *)

\* The distance between counters of ck_tflock, when one of them goes on.
LEMMA TfFca ==
  ASSUME NEW a \in 0 .. Top, NEW b \in 0 .. Top, Cardinality(Threads) # 0
  PROVE  /\ TfAhead(a, b) \in Nat
         /\ a = b => TfAhead(a, b) = 0
         /\ (a % Top) + 1 \in 0 .. Top
         /\ TfAhead(a, b) + 1 < Top => TfAhead(a, (b % Top) + 1) = TfAhead(a, b) + 1
         /\ TfAhead(a, b) # 0 => TfAhead((a % Top) + 1, b) = TfAhead(a, b) - 1
  <1>1. Top \in Nat \ {0} /\ Top > 1
    <2>1. Cardinality(Threads) \in Nat
      BY SyncAssumption, FS_CardinalityType
    <2> QED BY <2>1, SyncAssumption
  <1>2. ASSUME NEW x \in 0 .. Top
        PROVE  Low(x) \in 0 .. Top - 1 /\ (x % Top) + 1 \in 0 .. Top
               /\ Low((x % Top) + 1) = (Low(x) + 1) % Top
    <2>1. CASE x = Top
      <3>1. x % Top = 0 /\ 1 % Top = 1
        BY <1>1, <2>1
      <3> QED BY <1>1, <2>1, <3>1 DEF Low
    <2>2. CASE x # Top
      <3>1. x % Top = x /\ (x + 1) % Top = IF x + 1 = Top THEN 0 ELSE x + 1
        BY <1>1, <2>2, Increment
      <3> QED BY <1>1, <2>2, <3>1 DEF Low
    <2> QED BY <2>1, <2>2
  <1>3. /\ Low(a) \in 0 .. Top - 1 /\ Low(b) \in 0 .. Top - 1 /\ (a % Top) + 1 \in 0 .. Top
        /\ Low((a % Top) + 1) = (Low(a) + 1) % Top /\ Low((b % Top) + 1) = (Low(b) + 1) % Top
    BY <1>2
  <1>4. Top \in Nat \ {0}
    BY <1>1
  <1>5. /\ Ahead(Top, Low(a), Low(b)) \in 0 .. Top - 1
        /\ Ahead(Top, Low(a), Low(b)) = 0 <=> Low(a) = Low(b)
        /\ Ahead(Top, Low(a), Low(b)) + 1 < Top
             => Ahead(Top, Low(a), (Low(b) + 1) % Top) = Ahead(Top, Low(a), Low(b)) + 1
        /\ Low(a) # Low(b)
             => Ahead(Top, (Low(a) + 1) % Top, Low(b)) = Ahead(Top, Low(a), Low(b)) - 1
    <2>1. ASSUME NEW x \in 0 .. Top - 1, NEW y \in 0 .. Top - 1
          PROVE  /\ Ahead(Top, x, y) \in 0 .. Top - 1
                 /\ Ahead(Top, x, y) = 0 <=> x = y
                 /\ Ahead(Top, x, y) + 1 < Top
                      => Ahead(Top, x, (y + 1) % Top) = Ahead(Top, x, y) + 1
                 /\ x # y => Ahead(Top, (x + 1) % Top, y) = Ahead(Top, x, y) - 1
      BY <1>4, AheadIncrement
    <2>2. Low(a) \in 0 .. Top - 1 /\ Low(b) \in 0 .. Top - 1
      BY <1>3
    <2> QED BY <2>1, <2>2
  <1> QED BY <1>1, <1>3, <1>5 DEF TfAhead

\* The steps of ck_tflock preserve the invariant.
LEMMA TfStep ==
  ASSUME TfInv, NEW t \in Threads, Fl!TfCalls(t) \/ Fl!TfSteps(t)
  PROVE  TfInv'
  <1>0. IsFiniteSet(Threads) /\ Cardinality(Threads) \in Nat \ {0} /\ Top \in Nat
        /\ Cardinality(Threads) < Top
    <2>1. IsFiniteSet(Threads) /\ Cardinality(Threads) \in Nat
      BY SyncAssumption, FS_CardinalityType
    <2>2. Cardinality(Threads) # 0
      BY <2>1, FS_EmptySet
    <2> QED BY <2>1, <2>2, SyncAssumption
  <1>1. /\ m \in [request : TfCounters, completion : TfCounters]
        /\ m.request.wc \in 0 .. Top /\ m.request.rc \in 0 .. Top
        /\ m.completion.wc \in 0 .. Top /\ m.completion.rc \in 0 .. Top
        /\ \A u \in Threads : r[u].previous.wc \in 0 .. Top /\ r[u].previous.rc \in 0 .. Top
    BY DEF TfInv, TfType, TfCounters
  \* The words after an addition.
  <1>2. /\ Fl!TfFca32(m.request, "wc") = [rc |-> m.request.rc, wc |-> (m.request.wc % Top) + 1]
        /\ Fl!TfFca32(m.request, "rc") = [rc |-> (m.request.rc % Top) + 1, wc |-> m.request.wc]
        /\ Fl!TfFca32(m.completion, "wc") =
             [rc |-> m.completion.rc, wc |-> (m.completion.wc % Top) + 1]
        /\ Fl!TfFca32(m.completion, "rc") =
             [rc |-> (m.completion.rc % Top) + 1, wc |-> m.completion.wc]
    BY <1>1 DEF Fl!TfFca32, TfCounters
  <1>3. /\ Fl!TfFca32(m.request, "wc") \in TfCounters /\ Fl!TfFca32(m.request, "rc") \in TfCounters
        /\ Fl!TfFca32(m.completion, "wc") \in TfCounters
        /\ Fl!TfFca32(m.completion, "rc") \in TfCounters
    <2>1. ASSUME NEW x \in 0 .. Top PROVE (x % Top) + 1 \in 0 .. Top
      BY <1>0, TfFca
    <2> QED BY <1>1, <1>2, <2>1 DEF TfCounters
  <1>4. TfType' /\ Moved(pc, pc', t) /\ \A u \in Threads \ {t} : r'[u] = r[u]
    <2>0. [rc |-> 0, wc |-> 0] \in TfCounters
      BY <1>0 DEF TfCounters
    <2> USE <1>1, <1>3, <2>0 DEF TfInv, TfType, Fl!At, Fl!Go, Fl!Step, Fl!Put, Fl!With, Fl!Local,
            Fl!TfClear, Moved
    <2>1. CASE Fl!TfWriteLock(t)
      BY <2>1 DEF Fl!TfWriteLock
    <2>2. CASE Fl!TfWriteWait(t)
      BY <2>2 DEF Fl!TfWriteWait
    <2>3. CASE Fl!TfWriteUnlock(t)
      BY <2>3 DEF Fl!TfWriteUnlock
    <2>4. CASE Fl!TfReadLock(t)
      BY <2>4 DEF Fl!TfReadLock
    <2>5. CASE Fl!TfReadWait(t)
      BY <2>5 DEF Fl!TfReadWait
    <2>6. CASE Fl!TfReadUnlock(t)
      BY <2>6 DEF Fl!TfReadUnlock
    <2> QED BY <2>1, <2>2, <2>3, <2>4, <2>5, <2>6 DEF Fl!TfCalls, Fl!TfSteps
  <1>5. ASSUME NEW S
        PROVE  /\ IsFiniteSet(In(pc, S)) /\ Cardinality(In(pc, S)) \in Nat
               /\ Cardinality(In(pc', S)) = Cardinality(In(pc, S))
                    + (IF pc'[t] \in S THEN 1 ELSE 0) - (IF pc[t] \in S THEN 1 ELSE 0)
               /\ pc[t] \notin S => Cardinality(In(pc, S)) + 1 < Top
    <2>1. /\ IsFiniteSet(In(pc, S)) /\ Cardinality(In(pc, S)) \in Nat
          /\ Cardinality(In(pc', S)) = Cardinality(In(pc, S))
               + (IF pc'[t] \in S THEN 1 ELSE 0) - (IF pc[t] \in S THEN 1 ELSE 0)
      BY <1>4, InCount
    <2>2. ASSUME pc[t] \notin S
          PROVE  Cardinality(In(pc, S)) + 1 < Top
      <3>1. In(pc, S) \cup {t} \subseteq Threads /\ t \notin In(pc, S)
        BY <2>2 DEF In
      <3>2. Cardinality(In(pc, S) \cup {t}) = Cardinality(In(pc, S)) + 1
        BY <2>1, <3>1, FS_AddElement
      <3>3. Cardinality(In(pc, S) \cup {t}) <= Cardinality(Threads)
        BY <1>0, <3>1, FS_Subset
      <3> QED BY <1>0, <2>1, <3>2, <3>3
    <2> QED BY <2>1, <2>2
  <1>6. /\ Cardinality(In(pc, TfW)) \in Nat /\ Cardinality(In(pc, TfR)) \in Nat
        /\ Cardinality(In(pc', TfW)) = Cardinality(In(pc, TfW))
             + (IF pc'[t] \in TfW THEN 1 ELSE 0) - (IF pc[t] \in TfW THEN 1 ELSE 0)
        /\ Cardinality(In(pc', TfR)) = Cardinality(In(pc, TfR))
             + (IF pc'[t] \in TfR THEN 1 ELSE 0) - (IF pc[t] \in TfR THEN 1 ELSE 0)
        /\ pc[t] \notin TfW => Cardinality(In(pc, TfW)) + 1 < Top
        /\ pc[t] \notin TfR => Cardinality(In(pc, TfR)) + 1 < Top
    BY <1>5
  <1>7. ASSUME NEW u \in Threads
        PROVE  /\ WritersBefore(u) \in Nat /\ ReadersBefore(u) \in Nat
               /\ m.completion.wc = r[u].previous.wc => WritersBefore(u) = 0
               /\ m.completion.rc = r[u].previous.rc => ReadersBefore(u) = 0
               /\ WritersBefore(u) # 0
                    => TfAhead((m.completion.wc % Top) + 1, r[u].previous.wc) = WritersBefore(u) - 1
               /\ ReadersBefore(u) # 0
                    => TfAhead((m.completion.rc % Top) + 1, r[u].previous.rc) = ReadersBefore(u) - 1
    BY <1>0, <1>1, TfFca DEF WritersBefore, ReadersBefore
  <1>8. ASSUME NEW u \in Threads
        PROVE  /\ IsFiniteSet(Earlier(u)) /\ Cardinality(Earlier(u)) \in Nat
               /\ Cardinality(Earlier(u)) = 0 <=> Earlier(u) = {}
    <2>1. IsFiniteSet(Earlier(u))
      BY <1>0, FS_Subset DEF Earlier, In
    <2> QED BY <2>1, FS_CardinalityType, FS_EmptySet
  \* A writer has waited for the readers.
  <1>9. ASSUME NEW u \in Threads, NEW v \in Threads, pc[u] = "wr", pc[v] \in TfR
        PROVE  WritersBefore(v) # 0 /\ pc[v] # "rd"
    <2>1. u \in In(pc, TfW) /\ v \in In(pc, TfR)
      BY <1>9 DEF In, TfW
    <2>2. Earlier(u) = {} /\ WritersBefore(u) = 0
      BY <1>8, <1>9, <2>1 DEF TfInv
    <2>3. WritersBefore(v) # 0
      BY <1>7, <2>1, <2>2 DEF Earlier
    <2> QED BY <2>3 DEF TfInv
  <1>10. CASE Fl!TfWriteLock(t)
    <2>1. /\ m'.completion = m.completion /\ m'.request.rc = m.request.rc
          /\ m'.request.wc = (m.request.wc % Top) + 1
          /\ pc[t] = "idle" /\ pc'[t] = "w_wait" /\ r'[t].previous = m.request
      BY <1>1, <1>2, <1>10 DEF Fl!TfWriteLock, Fl!Step, Fl!At, Fl!Go, Fl!Put, Fl!With, TfInv, TfType
    <2>2. \A u \in Threads \ {t} : WritersBefore(u)' = WritersBefore(u)
            /\ ReadersBefore(u)' = ReadersBefore(u)
      BY <1>4, <2>1 DEF WritersBefore, ReadersBefore
    <2>3. /\ WritersBefore(t)' = Cardinality(In(pc, TfW))
               /\ ReadersBefore(t)' = Cardinality(In(pc, TfR))
      BY <2>1 DEF TfInv, WritersBefore, ReadersBefore
    <2>4. /\ In(pc', TfW) = In(pc, TfW) \cup {t} /\ In(pc', TfR) = In(pc, TfR)
               /\ t \notin In(pc, TfW)
          /\ t \notin In(pc, TfR)
      BY <1>4, <2>1 DEF In, TfW, TfR, Moved
    <2>5. /\ Cardinality(In(pc', TfW)) = Cardinality(In(pc, TfW)) + 1
               /\ Cardinality(In(pc, TfW)) + 1 < Top
      BY <1>6, <2>1 DEF TfW
    <2>6. TfAhead(m'.completion.wc, m'.request.wc) = Cardinality(In(pc', TfW))
      BY <1>0, <1>1, <2>1, <2>5, TfFca DEF TfInv
    <2>7. TfAhead(m'.completion.rc, m'.request.rc) = Cardinality(In(pc', TfR))
      BY <2>1, <2>4 DEF TfInv
    <2>8. ASSUME NEW u \in In(pc, TfW) PROVE Earlier(u)' = Earlier(u)
      <3>1. u # t /\ u \in Threads /\ t \notin In(pc, TfR)
        BY <2>4 DEF In
      <3> QED BY <2>2, <2>4, <3>1 DEF Earlier, In
    <2>9. Earlier(t)' = In(pc, TfR)
      <3>1. \A u \in In(pc, TfR) : u \in Threads \ {t}
              /\ WritersBefore(u) <= Cardinality(In(pc, TfW))
        BY <2>4 DEF In, TfInv
      <3> QED BY <2>2, <2>3, <2>4, <3>1 DEF Earlier
    <2>10. \A u \in In(pc, TfW) \cup In(pc, TfR) : u \in Threads \ {t}
      BY <2>4 DEF In
    <2>11. \A u \in Threads : pc'[u] \in {"wr", "rd"} => u # t /\ pc[u] = pc'[u]
      BY <1>4, <2>1 DEF Moved
    <2> QED BY <1>4, <1>6, <1>7, <2>2, <2>3, <2>4, <2>5, <2>6, <2>7, <2>8, <2>9, <2>10, <2>11
               DEF TfInv
  <1>11. CASE Fl!TfWriteWait(t)
    <2>1. /\ m' = m /\ r' = r /\ pc[t] = "w_wait" /\ pc'[t] = "wr"
          /\ WritersBefore(t) = 0 /\ ReadersBefore(t) = 0
      BY <1>1, <1>7, <1>11 DEF Fl!TfWriteWait, Fl!Step, Fl!At, Fl!Go, Fl!Local, TfInv, TfType
    <2>2. \A u \in Threads : WritersBefore(u)' = WritersBefore(u)
            /\ ReadersBefore(u)' = ReadersBefore(u)
      BY <2>1 DEF WritersBefore, ReadersBefore
    <2>3. In(pc', TfW) = In(pc, TfW) /\ In(pc', TfR) = In(pc, TfR)
      BY <1>4, <2>1 DEF In, TfW, TfR, Moved
    <2>4. ASSUME NEW u \in Threads PROVE Earlier(u)' = Earlier(u)
      BY <2>2, <2>3 DEF Earlier, In
    <2>5. \A u \in Threads : pc'[u] \in {"wr", "rd"} => u = t \/ pc[u] = pc'[u]
      BY <1>4, <2>1 DEF Moved
    <2>6. \A u \in In(pc, TfW) \cup In(pc, TfR) : u \in Threads
      BY DEF In
    <2> QED BY <1>4, <2>1, <2>2, <2>3, <2>4, <2>5, <2>6 DEF TfInv
  <1>12. CASE Fl!TfWriteUnlock(t)
    <2>1. /\ m'.completion.rc = m.completion.rc /\ m'.request = m.request
          /\ m'.completion.wc = (m.completion.wc % Top) + 1
          /\ pc[t] = "wr" /\ pc'[t] = "idle"
      BY <1>1, <1>2, <1>12 DEF Fl!TfWriteUnlock, Fl!Step, Fl!At, Fl!Go, TfInv, TfType
    <2>2. \A u \in Threads \ {t} : ReadersBefore(u)' = ReadersBefore(u)
      BY <1>4, <2>1 DEF ReadersBefore
    <2>3. /\ In(pc', TfW) = In(pc, TfW) \ {t} /\ In(pc', TfR) = In(pc, TfR) /\ t \in In(pc, TfW)
          /\ t \notin In(pc, TfR)
      BY <1>4, <2>1 DEF In, TfW, TfR, Moved
    <2>4. WritersBefore(t) = 0
      BY <2>1 DEF TfInv
    <2>5. ASSUME NEW u \in In(pc, TfW) \cup In(pc, TfR), u # t
          PROVE  WritersBefore(u)' = WritersBefore(u) - 1 /\ WritersBefore(u) \in Nat \ {0}
      <3>1. u \in Threads
        BY DEF In
      <3>2. WritersBefore(u) # 0
        <4>1. CASE u \in In(pc, TfW)
          BY <2>3, <2>4, <2>5, <4>1 DEF TfInv
        <4>2. CASE u \in In(pc, TfR)
          BY <1>9, <2>1, <4>2 DEF In
        <4> QED BY <4>1, <4>2
      <3>3. WritersBefore(u)' = TfAhead((m.completion.wc % Top) + 1, r[u].previous.wc)
        BY <1>4, <2>1, <2>5, <3>1 DEF WritersBefore
      <3> QED BY <1>7, <3>1, <3>2, <3>3
    <2>6. /\ Cardinality(In(pc', TfW)) = Cardinality(In(pc, TfW)) - 1
          /\ Cardinality(In(pc, TfW)) # 0
      <3>1. Cardinality(In(pc, TfW)) # 0
        BY <2>3, InNone DEF In
      <3> QED BY <1>6, <2>1, <3>1 DEF TfW
    <2>7. TfAhead(m'.completion.wc, m'.request.wc) = Cardinality(In(pc', TfW))
      BY <1>0, <1>1, <2>1, <2>6, TfFca DEF TfInv
    <2>8. TfAhead(m'.completion.rc, m'.request.rc) = Cardinality(In(pc', TfR))
      BY <2>1, <2>3 DEF TfInv
    <2>9. ASSUME NEW u \in In(pc, TfW), u # t PROVE Earlier(u)' = Earlier(u)
      <3>1. Earlier(u)' = {v \in In(pc, TfR) : WritersBefore(v)' <= WritersBefore(u)'}
        BY <2>3 DEF Earlier
      <3>2. \A v \in In(pc, TfR) : WritersBefore(v)' <= WritersBefore(u)'
                                     <=> WritersBefore(v) <= WritersBefore(u)
        BY <2>3, <2>5, <2>9
      <3> QED BY <3>1, <3>2 DEF Earlier
    <2>10. \A u \in In(pc, TfW) \cup In(pc, TfR) : u \in Threads
      BY DEF In
    <2>11. \A u \in Threads : pc'[u] \in {"wr", "rd"} => u # t /\ pc[u] = pc'[u]
      BY <1>4, <2>1 DEF Moved
    <2>12. \A u \in Threads : pc'[u] \notin {"wr", "rd"}
      <3>1. ASSUME NEW u \in Threads, pc'[u] = "wr" PROVE FALSE
        <4>1. u \in In(pc, TfW) /\ u # t /\ WritersBefore(u) = 0
          BY <2>11, <3>1 DEF In, TfW, TfInv
        <4> QED BY <2>5, <4>1
      <3>2. ASSUME NEW u \in Threads, pc'[u] = "rd" PROVE FALSE
        BY <1>9, <2>1, <2>11, <3>2 DEF TfR
      <3> QED BY <3>1, <3>2
    <2> QED BY <1>4, <1>6, <2>2, <2>3, <2>5, <2>6, <2>7, <2>8, <2>9, <2>10, <2>12 DEF TfInv
  <1>13. CASE Fl!TfReadLock(t)
    <2>1. /\ m'.completion = m.completion /\ m'.request.wc = m.request.wc
          /\ m'.request.rc = (m.request.rc % Top) + 1
          /\ pc[t] = "idle" /\ pc'[t] = "r_wait" /\ r'[t].previous = m.request
      BY <1>1, <1>2, <1>13 DEF Fl!TfReadLock, Fl!Step, Fl!At, Fl!Go, Fl!Put, Fl!With, TfInv, TfType
    <2>2. \A u \in Threads \ {t} : WritersBefore(u)' = WritersBefore(u)
            /\ ReadersBefore(u)' = ReadersBefore(u)
      BY <1>4, <2>1 DEF WritersBefore, ReadersBefore
    <2>3. WritersBefore(t)' = Cardinality(In(pc, TfW))
      BY <2>1 DEF TfInv, WritersBefore
    <2>4. /\ In(pc', TfW) = In(pc, TfW) /\ In(pc', TfR) = In(pc, TfR) \cup {t}
               /\ t \notin In(pc, TfR)
          /\ t \notin In(pc, TfW)
      BY <1>4, <2>1 DEF In, TfW, TfR, Moved
    <2>5. /\ Cardinality(In(pc', TfR)) = Cardinality(In(pc, TfR)) + 1
               /\ Cardinality(In(pc, TfR)) + 1 < Top
      BY <1>6, <2>1 DEF TfR
    <2>6. TfAhead(m'.completion.rc, m'.request.rc) = Cardinality(In(pc', TfR))
      BY <1>0, <1>1, <2>1, <2>5, TfFca DEF TfInv
    <2>7. TfAhead(m'.completion.wc, m'.request.wc) = Cardinality(In(pc', TfW))
      BY <2>1, <2>4 DEF TfInv
    <2>8. ASSUME NEW u \in In(pc, TfW) PROVE Earlier(u)' = Earlier(u)
      <3>1. u # t /\ u \in Threads /\ t \notin In(pc, TfR)
        BY <2>4 DEF In
      <3>2. ~(WritersBefore(t)' <= WritersBefore(u)')
        BY <1>6, <1>7, <2>2, <2>3, <3>1 DEF TfInv
      <3> QED BY <2>2, <2>4, <3>1, <3>2 DEF Earlier, In
    <2>10. \A u \in In(pc, TfW) \cup In(pc, TfR) : u \in Threads \ {t}
      BY <2>4 DEF In
    <2>11. \A u \in Threads : pc'[u] \in {"wr", "rd"} => u # t /\ pc[u] = pc'[u]
      BY <1>4, <2>1 DEF Moved
    <2> QED BY <1>4, <1>6, <1>7, <2>2, <2>3, <2>4, <2>5, <2>6, <2>7, <2>8, <2>10, <2>11 DEF TfInv
  <1>14. CASE Fl!TfReadWait(t)
    <2>1. /\ m' = m /\ r' = r /\ pc[t] = "r_wait" /\ pc'[t] = "rd" /\ WritersBefore(t) = 0
      BY <1>1, <1>7, <1>14 DEF Fl!TfReadWait, Fl!Step, Fl!At, Fl!Go, Fl!Local, TfInv, TfType
    <2>2. \A u \in Threads : WritersBefore(u)' = WritersBefore(u)
            /\ ReadersBefore(u)' = ReadersBefore(u)
      BY <2>1 DEF WritersBefore, ReadersBefore
    <2>3. In(pc', TfW) = In(pc, TfW) /\ In(pc', TfR) = In(pc, TfR)
      BY <1>4, <2>1 DEF In, TfW, TfR, Moved
    <2>4. ASSUME NEW u \in Threads PROVE Earlier(u)' = Earlier(u)
      BY <2>2, <2>3 DEF Earlier, In
    <2>5. \A u \in Threads : pc'[u] \in {"wr", "rd"} => u = t \/ pc[u] = pc'[u]
      BY <1>4, <2>1 DEF Moved
    <2>6. \A u \in In(pc, TfW) \cup In(pc, TfR) : u \in Threads
      BY DEF In
    <2> QED BY <1>4, <2>1, <2>2, <2>3, <2>4, <2>5, <2>6 DEF TfInv
  <1>15. CASE Fl!TfReadUnlock(t)
    <2>1. /\ m'.completion.wc = m.completion.wc /\ m'.request = m.request
          /\ m'.completion.rc = (m.completion.rc % Top) + 1
          /\ pc[t] = "rd" /\ pc'[t] = "idle"
      BY <1>1, <1>2, <1>15 DEF Fl!TfReadUnlock, Fl!Step, Fl!At, Fl!Go, TfInv, TfType
    <2>2. \A u \in Threads \ {t} : WritersBefore(u)' = WritersBefore(u)
      BY <1>4, <2>1 DEF WritersBefore
    <2>3. /\ In(pc', TfR) = In(pc, TfR) \ {t} /\ In(pc', TfW) = In(pc, TfW) /\ t \in In(pc, TfR)
          /\ t \notin In(pc, TfW)
      BY <1>4, <2>1 DEF In, TfW, TfR, Moved
    <2>4. WritersBefore(t) = 0
      BY <2>1 DEF TfInv
    <2>5. ASSUME NEW u \in In(pc, TfW)
          PROVE  /\ ReadersBefore(u)' = ReadersBefore(u) - 1
                 /\ Earlier(u)' = Earlier(u) \ {t} /\ t \in Earlier(u)
                 /\ Cardinality(Earlier(u) \ {t}) = Cardinality(Earlier(u)) - 1
                 /\ Cardinality(Earlier(u)) # 0
      <3>1. u \in Threads /\ u # t
        BY <2>3 DEF In
      <3>2. t \in Earlier(u)
        BY <1>7, <2>3, <2>4, <3>1 DEF Earlier
      <3>3. Earlier(u)' = Earlier(u) \ {t}
        BY <2>2, <2>3, <3>1 DEF Earlier, In
      <3>4. Cardinality(Earlier(u) \ {t}) = Cardinality(Earlier(u)) - 1
              /\ Cardinality(Earlier(u)) # 0
        BY <1>8, <3>1, <3>2, FS_RemoveElement
      <3>5. ReadersBefore(u)' = TfAhead((m.completion.rc % Top) + 1, r[u].previous.rc)
        BY <1>4, <2>1, <3>1 DEF ReadersBefore
      <3>6. ReadersBefore(u) # 0
        BY <3>4 DEF TfInv
      <3> QED BY <1>7, <3>1, <3>2, <3>3, <3>4, <3>5, <3>6
    <2>6. /\ Cardinality(In(pc', TfR)) = Cardinality(In(pc, TfR)) - 1
          /\ Cardinality(In(pc, TfR)) # 0
      <3>1. Cardinality(In(pc, TfR)) # 0
        BY <2>3, InNone DEF In
      <3> QED BY <1>6, <2>1, <3>1 DEF TfR
    <2>7. TfAhead(m'.completion.rc, m'.request.rc) = Cardinality(In(pc', TfR))
      BY <1>0, <1>1, <2>1, <2>6, TfFca DEF TfInv
    <2>8. TfAhead(m'.completion.wc, m'.request.wc) = Cardinality(In(pc', TfW))
      BY <2>1, <2>3 DEF TfInv
    <2>10. \A u \in In(pc, TfW) \cup In(pc, TfR) : u \in Threads
      BY DEF In
    <2>11. \A u \in Threads : pc'[u] \in {"wr", "rd"} => u # t /\ pc[u] = pc'[u]
      BY <1>4, <2>1 DEF Moved
    <2>12. \A u \in Threads : pc'[u] # "wr"
      BY <1>9, <2>1, <2>11 DEF TfR
    <2>13. \A u \in In(pc', TfW) : ReadersBefore(u)' = Cardinality(Earlier(u)')
      <3>1. ASSUME NEW u \in In(pc', TfW)
            PROVE  ReadersBefore(u)' = Cardinality(Earlier(u)')
        <4>1. u \in In(pc, TfW)
          BY <2>3
        <4>2. ReadersBefore(u) = Cardinality(Earlier(u))
          BY <4>1 DEF TfInv
        <4> QED BY <2>5, <4>1, <4>2
      <3> QED BY <3>1
    <2> QED BY <1>4, <1>6, <2>2, <2>3, <2>6, <2>7, <2>8, <2>10, <2>11, <2>12, <2>13 DEF TfInv
  <1> QED BY <1>10, <1>11, <1>12, <1>13, <1>14, <1>15 DEF Fl!TfCalls, Fl!TfSteps

-----------------------------------------------------------------------------
(* The steps of ck_pflock.                                                   *)

\* The distance between counters of ck_pflock when one of them goes on, and
\* the phases of the tickets.
LEMMA PfIncrement ==
  ASSUME NEW a \in PfTickets, NEW b \in PfTickets
  PROVE  /\ Fl!PfInc(a) \in PfTickets
         /\ PfAhead(a, b) \in Nat /\ (PfAhead(a, b) = 0 <=> a = b)
         /\ PfAhead(a, b) + 1 < Wrap => PfAhead(a, Fl!PfInc(b)) = PfAhead(a, b) + 1
         /\ PfAhead(a, b) # 0 => PfAhead(Fl!PfInc(a), b) = PfAhead(a, b) - 1
         /\ Phase(a) \in {0, 1} /\ Phase(Fl!PfInc(a)) # Phase(a)
  <1>0. Cardinality(Threads) \in Nat
    BY SyncAssumption, FS_CardinalityType
  <1>1. Wrap \in Nat \ {0} /\ Wrap % 2 = 0
    BY <1>0, SyncAssumption
  <1>2. a \in 0 .. Wrap - 1 /\ b \in 0 .. Wrap - 1
    BY DEF PfTickets
  <1>3. (a + 1) % Wrap = IF a + 1 = Wrap THEN 0 ELSE a + 1
    BY <1>1, <1>2, Increment
  <1>4. Phase(a) \in {0, 1} /\ Phase(Fl!PfInc(a)) # Phase(a)
    BY <1>1, <1>2, <1>3 DEF Phase, Fl!PfInc
  <1>5. /\ Ahead(Wrap, a, b) \in 0 .. Wrap - 1 /\ (a + 1) % Wrap \in 0 .. Wrap - 1
        /\ Ahead(Wrap, a, b) = 0 <=> a = b
        /\ Ahead(Wrap, a, b) + 1 < Wrap => Ahead(Wrap, a, (b + 1) % Wrap) = Ahead(Wrap, a, b) + 1
        /\ a # b => Ahead(Wrap, (a + 1) % Wrap, b) = Ahead(Wrap, a, b) - 1
    <2>1. Wrap \in Nat \ {0}
      BY <1>1
    <2>2. (a + 1) % Wrap \in 0 .. Wrap - 1
      BY <1>2, <1>3, <2>1
    <2> QED BY <1>2, <2>1, <2>2, AheadIncrement
  <1>6. Ahead(Wrap, a, b) \in Nat
    BY <1>1, <1>5
  <1> QED BY <1>4, <1>5, <1>6 DEF PfAhead, PfTickets, Fl!PfInc

\* The steps of ck_pflock preserve the invariant.
LEMMA PfStep ==
  ASSUME PfInv, NEW t \in Threads, Fl!PfCalls(t) \/ Fl!PfSteps(t)
  PROVE  PfInv'
  <1>0. IsFiniteSet(Threads) /\ Cardinality(Threads) \in Nat \ {0} /\ Wrap \in Nat
        /\ Cardinality(Threads) < Wrap
    <2>1. IsFiniteSet(Threads) /\ Cardinality(Threads) \in Nat
      BY SyncAssumption, FS_CardinalityType
    <2>2. Cardinality(Threads) # 0
      BY <2>1, FS_EmptySet
    <2> QED BY <2>1, <2>2, SyncAssumption
  <1>1. /\ m \in [rin : PfTickets, pres : BOOLEAN, phid : {0, 1}, rout : PfTickets, win : PfTickets,
                  wout : PfTickets]
        /\ m.rin \in PfTickets /\ m.rout \in PfTickets /\ m.win \in PfTickets
             /\ m.wout \in PfTickets
        /\ \A u \in Threads : r[u].ticket \in PfTickets
        /\ Fl!PfInc(m.rin) \in PfTickets /\ Fl!PfInc(m.rout) \in PfTickets
        /\ Fl!PfInc(m.win) \in PfTickets /\ Fl!PfInc(m.wout) \in PfTickets
        /\ 0 \in PfTickets
        /\ \A u \in Threads : r[u].ticket % 2 \in {0, 1} /\ r[u].ticket % 2 = Phase(r[u].ticket)
    <2>1. /\ m \in [rin : PfTickets, pres : BOOLEAN, phid : {0, 1}, rout : PfTickets,
               win : PfTickets,
                    wout : PfTickets]
          /\ m.rin \in PfTickets /\ m.rout \in PfTickets /\ m.win \in PfTickets
               /\ m.wout \in PfTickets
          /\ \A u \in Threads : r[u].ticket \in PfTickets
      BY DEF PfInv, PfType
    <2>2. 0 \in PfTickets
      BY <1>0 DEF PfTickets
    <2>3. \A u \in Threads : r[u].ticket % 2 = Phase(r[u].ticket) /\ Phase(r[u].ticket) \in {0, 1}
      BY <2>1, PfIncrement DEF Phase
    <2> QED BY <2>1, <2>2, <2>3, PfIncrement
  \* A writer that leaves has let in all the readers that were before it.
  <1>2. ASSUME pc[t] = "wr", NEW u \in Threads, pc[u] \in PfR
        PROVE  Blocked(u) /\ r[u].passed = 0
    BY <1>2 DEF PfInv, Free
  <1>3. PfType' /\ Moved(pc, pc', t)
    <2> USE <1>1 DEF PfInv, PfType, PfLabels, Fl!At, Fl!Go, Fl!Step, Fl!Put, Fl!With, Fl!Local,
            Fl!PfClear, Moved
    <2>1. CASE Fl!PfWriteLock(t)
      BY <2>1 DEF Fl!PfWriteLock
    <2>2. CASE Fl!PfWriteTurn(t)
      BY <2>2 DEF Fl!PfWriteTurn
    <2>3. CASE Fl!PfWritePhase(t)
      <3>1. m' = [rin |-> m.rin, pres |-> TRUE, phid |-> r[t].ticket % 2, rout |-> m.rout,
                  win |-> m.win, wout |-> m.wout]
        BY <2>3 DEF Fl!PfWritePhase
      <3>2. m' \in [rin : PfTickets, pres : BOOLEAN, phid : {0, 1}, rout : PfTickets,
              win : PfTickets,
                    wout : PfTickets]
        BY <3>1
      <3> QED BY <2>3, <3>2 DEF Fl!PfWritePhase
    <2>4. CASE Fl!PfWriteDrain(t)
      BY <2>4 DEF Fl!PfWriteDrain
    <2>5. CASE Fl!PfWriteUnlock(t)
      <3>1. m' = [rin |-> m.rin, pres |-> FALSE, phid |-> 0, rout |-> m.rout,
                  win |-> m.win, wout |-> m.wout]
        BY <2>5 DEF Fl!PfWriteUnlock
      <3>2. m' \in [rin : PfTickets, pres : BOOLEAN, phid : {0, 1}, rout : PfTickets,
              win : PfTickets,
                    wout : PfTickets]
        BY <3>1
      <3>3. pc[t] = "wr"
        BY <2>5 DEF Fl!PfWriteUnlock
      <3>4. ASSUME NEW u \in Threads
            PROVE  r'[u] \in [ticket : PfTickets, phid : {0, 1}, passed : 0 .. 1]
        <4>1. CASE pc[u] = "r_phase"
          <5>1. r[u].passed = 0
            BY <1>2, <3>3, <4>1 DEF PfR
          <5>2. r'[u] = [r[u] EXCEPT !.passed = @ + 1]
            BY <2>5, <4>1 DEF Fl!PfWriteUnlock
          <5> QED BY <5>1, <5>2
        <4>2. CASE pc[u] # "r_phase"
          BY <2>5, <4>2 DEF Fl!PfWriteUnlock
        <4> QED BY <4>1, <4>2
      <3>5. r' = [u \in Threads |-> IF pc[u] = "r_phase" THEN [r[u] EXCEPT !.passed
              = @ + 1] ELSE r[u]]
        BY <2>5 DEF Fl!PfWriteUnlock
      <3>6. r' \in [Threads -> [ticket : PfTickets, phid : {0, 1}, passed : 0 .. 1]]
        BY <3>4, <3>5
      <3> QED BY <2>5, <3>2, <3>6 DEF Fl!PfWriteUnlock
    <2>6. CASE Fl!PfWriteNext(t)
      BY <2>6 DEF Fl!PfWriteNext
    <2>7. CASE Fl!PfReadLock(t)
      BY <2>7 DEF Fl!PfReadLock
    <2>8. CASE Fl!PfReadPhase(t)
      BY <2>8 DEF Fl!PfReadPhase
    <2>9. CASE Fl!PfReadUnlock(t)
      BY <2>9 DEF Fl!PfReadUnlock
    <2> QED BY <2>1, <2>2, <2>3, <2>4, <2>5, <2>6, <2>7, <2>8, <2>9 DEF Fl!PfCalls, Fl!PfSteps
  <1>4. ASSUME NEW S
        PROVE  /\ IsFiniteSet(In(pc, S)) /\ Cardinality(In(pc, S)) \in Nat
               /\ Cardinality(In(pc', S)) = Cardinality(In(pc, S))
                    + (IF pc'[t] \in S THEN 1 ELSE 0) - (IF pc[t] \in S THEN 1 ELSE 0)
               /\ pc[t] \notin S => Cardinality(In(pc, S)) + 1 < Wrap
               /\ \A u \in Threads : pc[u] \in S => Cardinality(In(pc, S)) # 0
    <2>1. /\ IsFiniteSet(In(pc, S)) /\ Cardinality(In(pc, S)) \in Nat
          /\ Cardinality(In(pc', S)) = Cardinality(In(pc, S))
               + (IF pc'[t] \in S THEN 1 ELSE 0) - (IF pc[t] \in S THEN 1 ELSE 0)
      BY <1>3, InCount
    <2>2. ASSUME pc[t] \notin S
          PROVE  Cardinality(In(pc, S)) + 1 < Wrap
      <3>1. In(pc, S) \cup {t} \subseteq Threads /\ t \notin In(pc, S)
        BY <2>2 DEF In
      <3>2. Cardinality(In(pc, S) \cup {t}) = Cardinality(In(pc, S)) + 1
        BY <2>1, <3>1, FS_AddElement
      <3>3. Cardinality(In(pc, S) \cup {t}) <= Cardinality(Threads)
        BY <1>0, <3>1, FS_Subset
      <3> QED BY <1>0, <2>1, <3>2, <3>3
    <2> QED BY <2>1, <2>2, InNone
  <1>5. ASSUME NEW u \in Threads
        PROVE  /\ Turn(u) \in Nat /\ (Turn(u) = 0 <=> m.wout = r[u].ticket)
               /\ Turn(u) # 0 => PfAhead(Fl!PfInc(m.wout), r[u].ticket) = Turn(u) - 1
               /\ PfAhead(m.rout, r[u].ticket) \in Nat
               /\ (PfAhead(m.rout, r[u].ticket) = 0 <=> m.rout = r[u].ticket)
               /\ PfAhead(m.rout, r[u].ticket) # 0
                    => PfAhead(Fl!PfInc(m.rout), r[u].ticket) = PfAhead(m.rout, r[u].ticket) - 1
    <2>1. m.wout \in PfTickets /\ m.rout \in PfTickets /\ r[u].ticket \in PfTickets
      BY <1>1
    <2>2. ASSUME NEW a \in PfTickets, NEW b \in PfTickets
          PROVE  /\ PfAhead(a, b) \in Nat /\ (PfAhead(a, b) = 0 <=> a = b)
                 /\ PfAhead(a, b) # 0 => PfAhead(Fl!PfInc(a), b) = PfAhead(a, b) - 1
      BY <2>2, PfIncrement
    <2> HIDE DEF PfAhead, PfTickets, Fl!PfInc
    <2> QED BY <2>1, <2>2 DEF Turn
  <1>6. /\ IsFiniteSet(Free) /\ Cardinality(Free) \in Nat /\ (Cardinality(Free) = 0 <=> Free = {})
    <2>1. IsFiniteSet(Free)
      BY <1>0, FS_Subset DEF Free
    <2> QED BY <2>1, FS_CardinalityType, FS_EmptySet
  <1>7. /\ Cardinality(In(pc, PfW)) \in Nat
        /\ Cardinality(In(pc', PfW)) = Cardinality(In(pc, PfW))
             + (IF pc'[t] \in PfW THEN 1 ELSE 0) - (IF pc[t] \in PfW THEN 1 ELSE 0)
        /\ pc[t] \notin PfW => Cardinality(In(pc, PfW)) + 1 < Wrap
        /\ \A u \in Threads : pc[u] \in PfW => Cardinality(In(pc, PfW)) # 0
    BY <1>4
  <1>8. /\ Cardinality(In(pc, PfR)) \in Nat
        /\ Cardinality(In(pc', PfR)) = Cardinality(In(pc, PfR))
             + (IF pc'[t] \in PfR THEN 1 ELSE 0) - (IF pc[t] \in PfR THEN 1 ELSE 0)
        /\ pc[t] \notin PfR => Cardinality(In(pc, PfR)) + 1 < Wrap
        /\ \A u \in Threads : pc[u] \in PfR => Cardinality(In(pc, PfR)) # 0
    BY <1>4
  <1>10. CASE Fl!PfWriteLock(t)
    <2>1. /\ m'.win = Fl!PfInc(m.win) /\ m'.wout = m.wout /\ m'.rin = m.rin /\ m'.rout = m.rout
          /\ m'.pres = m.pres /\ m'.phid = m.phid
          /\ pc[t] = "idle" /\ pc'[t] = "w_turn" /\ r'[t].ticket = m.win
               /\ r'[t].passed = r[t].passed
          /\ \A u \in Threads \ {t} : r'[u] = r[u] /\ pc'[u] = pc[u]
      BY <1>1, <1>10 DEF Fl!PfWriteLock, Fl!Step, Fl!At, Fl!Go, Fl!Put, Fl!With, PfInv, PfType
    <2>0. m.wout \in PfTickets /\ m.win \in PfTickets /\ m.rin \in PfTickets /\ m.rout \in PfTickets
      BY <1>1
    <2>2. Turn(t)' = Cardinality(In(pc, PfW)) /\ \A u \in Threads \ {t} : Turn(u)' = Turn(u)
      BY <2>1 DEF Turn, PfInv
    <2>3. /\ Cardinality(In(pc', PfW)) = Cardinality(In(pc, PfW)) + 1
          /\ Cardinality(In(pc, PfW)) + 1 < Wrap
               /\ Cardinality(In(pc', PfR)) = Cardinality(In(pc, PfR))
          /\ \A u \in Threads : pc[u] \in PfServed => Cardinality(In(pc, PfW)) # 0
      BY <1>7, <1>8, <2>1 DEF PfW, PfR, PfServed
    <2>4. PfAhead(m'.wout, m'.win) = Cardinality(In(pc', PfW))
      <3>1. PfAhead(m.wout, m.win) = Cardinality(In(pc, PfW))
        BY DEF PfInv
      <3>2. PfAhead(m.wout, m.win) + 1 < Wrap
              => PfAhead(m.wout, Fl!PfInc(m.win)) = PfAhead(m.wout, m.win) + 1
        BY <2>0, PfIncrement
      <3> QED BY <2>1, <2>3, <3>1, <3>2
    <2>5. \A u \in Threads : Blocked(u)' <=> Blocked(u)
      BY <2>1 DEF Blocked
    <2>6. Free' = Free
      BY <2>1, <2>5 DEF Free, PfR
    <2>7. \A u \in Threads : pc'[u] # "w_turn" /\ pc'[u] # "idle" => u # t
      BY <2>1
    <2> QED BY <1>3, <1>5, <1>7, <2>1, <2>2, <2>3, <2>4, <2>5, <2>6, <2>7 DEF PfInv, PfServed, PfR
  <1>11. CASE Fl!PfWriteTurn(t)
    <2>1. /\ m' = m /\ r' = r /\ pc[t] = "w_turn" /\ pc'[t] = "w_phase" /\ m.wout = r[t].ticket
          /\ \A u \in Threads \ {t} : pc'[u] = pc[u]
      BY <1>1, <1>11 DEF Fl!PfWriteTurn, Fl!Step, Fl!At, Fl!Go, Fl!Local, PfInv, PfType
    <2>2. \A u \in Threads : Turn(u)' = Turn(u)
      BY <2>1 DEF Turn
    <2>3. /\ Cardinality(In(pc', PfW)) = Cardinality(In(pc, PfW))
          /\ Cardinality(In(pc', PfR)) = Cardinality(In(pc, PfR))
      BY <1>7, <1>8, <2>1 DEF PfW, PfR
    <2>5. \A u \in Threads : Blocked(u)' <=> Blocked(u)
      BY <2>1 DEF Blocked
    <2>6. Free' = Free
      BY <2>1, <2>5 DEF Free, PfR
    <2>7. Turn(t) = 0 /\ \A u \in Threads : pc[u] \notin PfServed
      BY <1>5, <2>1 DEF PfInv
    <2>8. \A u \in Threads \ {t} : pc[u] = "w_turn" => Turn(u) # 0
      BY <2>1, <2>7 DEF PfInv
    <2>9. \A u \in Threads : pc'[u] \in PfServed => u = t
      BY <2>1, <2>7
    <2> QED BY <1>3, <1>5, <1>7, <2>1, <2>2, <2>3, <2>5, <2>6, <2>7, <2>8, <2>9 DEF PfInv,
               PfServed, PfR
  <1>12. CASE Fl!PfWritePhase(t)
    <2>1. /\ m'.win = m.win /\ m'.wout = m.wout /\ m'.rin = m.rin /\ m'.rout = m.rout
          /\ m'.pres /\ m'.phid = Phase(r[t].ticket)
          /\ pc[t] = "w_phase" /\ pc'[t] = "w_drain" /\ r'[t].ticket = m.rin
               /\ r'[t].passed = r[t].passed
          /\ \A u \in Threads \ {t} : r'[u] = r[u] /\ pc'[u] = pc[u]
      BY <1>1, <1>12 DEF Fl!PfWritePhase, Fl!Step, Fl!At, Fl!Go, Fl!Put, Fl!With, PfInv, PfType
    <2>0. m.wout \in PfTickets /\ m.win \in PfTickets /\ m.rin \in PfTickets /\ m.rout \in PfTickets
      BY <1>1
    <2>2. \A u \in Threads \ {t} : Turn(u)' = Turn(u)
      BY <2>1 DEF Turn
    <2>3. /\ Cardinality(In(pc', PfW)) = Cardinality(In(pc, PfW))
          /\ Cardinality(In(pc', PfR)) = Cardinality(In(pc, PfR))
      BY <1>7, <1>8, <2>1 DEF PfW, PfR
    <2>4. \A u \in Threads \ {t} : pc[u] \notin PfServed /\ pc'[u] \notin PfServed
      BY <2>1 DEF PfInv, PfServed
    <2>5. ~m.pres /\ r[t].ticket = m.wout /\ ~\E u \in Threads : pc[u] = "w_next"
      BY <2>1, <2>4 DEF PfInv, PfServed
    <2>6. \A u \in Threads : ~Blocked(u)' /\ ~Blocked(u)
      BY <2>1, <2>5 DEF PfInv, Blocked
    <2>7. Free' = In(pc', PfR) /\ In(pc', PfR) = In(pc, PfR)
      BY <1>3, <2>1, <2>6 DEF Free, In, PfR, Moved
    <2>8. PfAhead(m'.rout, r'[t].ticket) = Cardinality(Free')
      BY <2>1, <2>3, <2>7 DEF PfInv
    <2> QED BY <1>3, <1>5, <1>7, <2>1, <2>2, <2>3, <2>4, <2>5, <2>6, <2>8 DEF PfInv, PfServed, PfR
  <1>13. CASE Fl!PfWriteDrain(t)
    <2>1. /\ m' = m /\ r' = r /\ pc[t] = "w_drain" /\ pc'[t] = "wr" /\ m.rout = r[t].ticket
          /\ \A u \in Threads \ {t} : pc'[u] = pc[u]
      BY <1>1, <1>13 DEF Fl!PfWriteDrain, Fl!Step, Fl!At, Fl!Go, Fl!Local, PfInv, PfType
    <2>2. \A u \in Threads : Turn(u)' = Turn(u)
      BY <2>1 DEF Turn
    <2>3. /\ Cardinality(In(pc', PfW)) = Cardinality(In(pc, PfW))
          /\ Cardinality(In(pc', PfR)) = Cardinality(In(pc, PfR))
      BY <1>7, <1>8, <2>1 DEF PfW, PfR
    <2>5. \A u \in Threads : Blocked(u)' <=> Blocked(u)
      BY <2>1 DEF Blocked
    <2>6. Free' = Free
      BY <2>1, <2>5 DEF Free, PfR
    <2>7. \A u \in Threads \ {t} : pc[u] \notin PfServed /\ pc'[u] \notin PfServed
      BY <2>1 DEF PfInv, PfServed
    <2>8. Free = {}
      BY <1>5, <1>6, <2>1 DEF PfInv
    <2> QED BY <1>3, <1>5, <1>7, <2>1, <2>2, <2>3, <2>5, <2>6, <2>7, <2>8 DEF PfInv, PfServed, PfR
  <1>14. CASE Fl!PfWriteUnlock(t)
    <2>1. /\ m'.win = m.win /\ m'.wout = m.wout /\ m'.rin = m.rin /\ m'.rout = m.rout
          /\ ~m'.pres
          /\ pc[t] = "wr" /\ pc'[t] = "w_next"
          /\ \A u \in Threads \ {t} : pc'[u] = pc[u]
          /\ \A u \in Threads : r'[u].ticket = r[u].ticket /\ r'[u].phid = r[u].phid
                                /\ (pc[u] # "r_phase" => r'[u] = r[u])
      BY <1>1, <1>14 DEF Fl!PfWriteUnlock, Fl!Step, Fl!At, Fl!Go, PfInv, PfType
    <2>2. \A u \in Threads : Turn(u)' = Turn(u)
      BY <2>1 DEF Turn
    <2>3. /\ Cardinality(In(pc', PfW)) = Cardinality(In(pc, PfW))
          /\ Cardinality(In(pc', PfR)) = Cardinality(In(pc, PfR))
      BY <1>7, <1>8, <2>1 DEF PfW, PfR
    <2>4. \A u \in Threads \ {t} : pc[u] \notin PfServed /\ pc'[u] \notin PfServed
      BY <2>1 DEF PfInv, PfServed
    <2>5. \A u \in Threads : ~Blocked(u)'
      BY <2>1 DEF Blocked
    <2>6. \A u \in Threads : pc'[u] = "r_phase" => r'[u].phid = Phase(m'.wout)
      BY <1>2, <2>1 DEF Blocked, PfInv, PfR
    <2>7. \A u \in Threads : pc'[u] \notin PfR => pc[u] \notin PfR /\ r'[u] = r[u]
      BY <2>1 DEF PfR
    <2> QED BY <1>3, <1>5, <1>7, <2>1, <2>2, <2>3, <2>4, <2>5, <2>6, <2>7 DEF PfInv, PfServed
  <1>15. CASE Fl!PfWriteNext(t)
    <2>1. /\ m'.win = m.win /\ m'.wout = Fl!PfInc(m.wout) /\ m'.rin = m.rin /\ m'.rout = m.rout
          /\ m'.pres = m.pres /\ m'.phid = m.phid
          /\ pc[t] = "w_next" /\ pc'[t] = "idle" /\ r'[t].passed = 0
          /\ \A u \in Threads \ {t} : r'[u] = r[u] /\ pc'[u] = pc[u]
      BY <1>1, <1>15 DEF Fl!PfWriteNext, Fl!Step, Fl!At, Fl!Go, Fl!Put, Fl!With, Fl!PfClear,
         PfInv, PfType
    <2>0. m.wout \in PfTickets /\ m.win \in PfTickets /\ m.rin \in PfTickets /\ m.rout \in PfTickets
      BY <1>1
    <2>2. \A u \in Threads \ {t} : pc[u] \notin PfServed /\ pc'[u] \notin PfServed
      BY <2>1 DEF PfInv, PfServed
    <2>3. /\ Cardinality(In(pc', PfW)) = Cardinality(In(pc, PfW)) - 1
          /\ Cardinality(In(pc, PfW)) # 0 /\ Cardinality(In(pc', PfR)) = Cardinality(In(pc, PfR))
      BY <1>7, <1>8, <2>1 DEF PfW, PfR
    <2>4. PfAhead(m'.wout, m'.win) = Cardinality(In(pc', PfW))
      BY <2>0, <2>1, <2>3, PfIncrement DEF PfInv
    <2>5. ASSUME NEW u \in Threads, pc'[u] = "w_turn"
          PROVE  Turn(u) \in Nat \ {0} /\ Turn(u)' = Turn(u) - 1 /\ u # t /\ pc[u] = "w_turn"
      <3>1. u # t /\ pc[u] = "w_turn"
        BY <2>1, <2>5
      <3>2. Turn(u) # 0
        BY <2>1, <3>1 DEF PfInv, PfServed
      <3>3. Turn(u)' = PfAhead(Fl!PfInc(m.wout), r[u].ticket)
        BY <2>1, <3>1 DEF Turn
      <3> QED BY <1>5, <3>1, <3>2, <3>3
    <2>6. ~m.pres /\ ~m'.pres
      BY <2>1, <2>2 DEF PfInv, PfServed
    <2>7. \A u \in Threads : ~Blocked(u)' /\ ~Blocked(u)
      BY <2>6 DEF Blocked
    <2>8. Phase(m.wout) # Phase(m'.wout)
      BY <2>0, <2>1, PfIncrement
    <2>9. ASSUME NEW u \in Threads, pc'[u] = "r_phase"
          PROVE  r'[u].phid # Phase(m'.wout) /\ ~\E v \in Threads : pc'[v] = "w_next"
      <3>1. r'[u] = r[u] /\ pc[u] = "r_phase"
        BY <2>1, <2>9
      <3>2. r[u].phid = Phase(m.wout)
        BY <2>1, <2>6, <3>1 DEF PfInv
      <3> QED BY <2>1, <2>2, <2>8, <3>1, <3>2 DEF PfServed
    <2>10. \A u \in Threads : pc'[u] \notin PfServed
      BY <2>1, <2>2 DEF PfServed
    <2> QED BY <1>3, <1>7, <2>1, <2>3, <2>4, <2>5, <2>6, <2>7, <2>9, <2>10 DEF PfInv, PfServed, PfR
  <1>16. CASE Fl!PfReadLock(t)
    <2>1. /\ m'.win = m.win /\ m'.wout = m.wout /\ m'.rin = Fl!PfInc(m.rin) /\ m'.rout = m.rout
          /\ m'.pres = m.pres /\ m'.phid = m.phid
          /\ pc[t] = "idle" /\ pc'[t] = (IF m.pres THEN "r_phase" ELSE "rd") /\ r'[t].phid = m.phid
          /\ r'[t].passed = r[t].passed
          /\ \A u \in Threads \ {t} : r'[u] = r[u] /\ pc'[u] = pc[u]
      BY <1>1, <1>16 DEF Fl!PfReadLock, Fl!At, Fl!Go, Fl!Put, Fl!With, PfInv, PfType
    <2>0. m.wout \in PfTickets /\ m.win \in PfTickets /\ m.rin \in PfTickets /\ m.rout \in PfTickets
      BY <1>1
    <2>2. \A u \in Threads \ {t} : Turn(u)' = Turn(u)
      BY <2>1 DEF Turn
    <2>3. /\ Cardinality(In(pc', PfR)) = Cardinality(In(pc, PfR)) + 1
          /\ Cardinality(In(pc, PfR)) + 1 < Wrap
               /\ Cardinality(In(pc', PfW)) = Cardinality(In(pc, PfW))
      BY <1>7, <1>8, <2>1 DEF PfW, PfR
    <2>4. PfAhead(m'.rout, m'.rin) = Cardinality(In(pc', PfR))
      <3>1. PfAhead(m.rout, m.rin) = Cardinality(In(pc, PfR))
        BY DEF PfInv
      <3>2. PfAhead(m.rout, m.rin) + 1 < Wrap
              => PfAhead(m.rout, Fl!PfInc(m.rin)) = PfAhead(m.rout, m.rin) + 1
        BY <2>0, PfIncrement
      <3> QED BY <2>1, <2>3, <3>1, <3>2
    <2>5. \A u \in Threads \ {t} : Blocked(u)' <=> Blocked(u)
      BY <2>1 DEF Blocked
    <2>6. \A u \in Threads : pc'[u] \in PfW => u # t /\ pc'[u] = pc[u]
      BY <2>1 DEF PfW
    <2>7. m.pres => Free' = Free /\ Blocked(t)'
      BY <2>1, <2>5 DEF Free, PfR, Blocked
    <2>8. ~m.pres => \A u \in Threads : pc'[u] \notin {"w_drain", "wr"}
      BY <2>1 DEF PfInv
    <2>9. r'[t].passed = 0
      BY <2>1 DEF PfInv, PfR
    <2> QED BY <1>3, <1>7, <2>1, <2>2, <2>3, <2>4, <2>5, <2>6, <2>7, <2>8, <2>9 DEF PfInv,
               PfServed, PfR, PfW
  <1>17. CASE Fl!PfReadPhase(t)
    <2>1. /\ m' = m /\ r' = r /\ pc[t] = "r_phase" /\ pc'[t] = "rd"
          /\ \A u \in Threads \ {t} : pc'[u] = pc[u]
          /\ ~Blocked(t)
      BY <1>1, <1>17 DEF Fl!PfReadPhase, Fl!Step, Fl!At, Fl!Go, Fl!Local, PfInv, PfType, Blocked
    <2>2. \A u \in Threads : Turn(u)' = Turn(u)
      BY <2>1 DEF Turn
    <2>3. /\ Cardinality(In(pc', PfW)) = Cardinality(In(pc, PfW))
          /\ Cardinality(In(pc', PfR)) = Cardinality(In(pc, PfR))
      BY <1>7, <1>8, <2>1 DEF PfW, PfR
    <2>5. \A u \in Threads : Blocked(u)' <=> Blocked(u)
      BY <2>1 DEF Blocked
    <2>6. Free' = Free
      BY <2>1, <2>5 DEF Free, PfR
    <2>7. \A u \in Threads : pc'[u] \in PfW \cup {"r_phase"} => pc'[u] = pc[u]
      BY <2>1 DEF PfW
    <2>8. \A u \in Threads : pc'[u] \in PfR <=> pc[u] \in PfR
      BY <2>1 DEF PfR
    <2> QED BY <1>3, <1>7, <2>1, <2>2, <2>3, <2>5, <2>6, <2>7, <2>8 DEF PfInv, PfServed, PfW
  <1>18. CASE Fl!PfReadUnlock(t)
    <2>1. /\ m'.win = m.win /\ m'.wout = m.wout /\ m'.rin = m.rin /\ m'.rout = Fl!PfInc(m.rout)
          /\ m'.pres = m.pres /\ m'.phid = m.phid
          /\ pc[t] = "rd" /\ pc'[t] = "idle" /\ r'[t].passed = 0
          /\ \A u \in Threads \ {t} : r'[u] = r[u] /\ pc'[u] = pc[u]
      BY <1>1, <1>18 DEF Fl!PfReadUnlock, Fl!Step, Fl!At, Fl!Go, Fl!Put, Fl!With, Fl!PfClear,
         PfInv, PfType
    <2>0. m.wout \in PfTickets /\ m.win \in PfTickets /\ m.rin \in PfTickets /\ m.rout \in PfTickets
      BY <1>1
    <2>2. \A u \in Threads \ {t} : Turn(u)' = Turn(u)
      BY <2>1 DEF Turn
    <2>3. /\ Cardinality(In(pc', PfR)) = Cardinality(In(pc, PfR)) - 1
          /\ Cardinality(In(pc, PfR)) # 0 /\ Cardinality(In(pc', PfW)) = Cardinality(In(pc, PfW))
      BY <1>7, <1>8, <2>1 DEF PfW, PfR
    <2>4. PfAhead(m'.rout, m'.rin) = Cardinality(In(pc', PfR))
      BY <2>0, <2>1, <2>3, PfIncrement DEF PfInv
    <2>5. \A u \in Threads : Blocked(u)' <=> Blocked(u)
      BY <2>1 DEF Blocked
    <2>6. \A u \in Threads : pc'[u] \in PfW \cup PfR => u # t /\ pc'[u] = pc[u]
      BY <2>1 DEF PfW, PfR
    <2>7. t \in Free /\ Free' = Free \ {t}
      BY <2>1, <2>5 DEF Free, PfR, Blocked
    <2>8. Cardinality(Free') = Cardinality(Free) - 1 /\ Cardinality(Free) # 0
      BY <1>6, <2>7, FS_RemoveElement
    <2>9. ASSUME NEW u \in Threads, pc'[u] = "w_drain"
          PROVE  PfAhead(m'.rout, r'[u].ticket) = Cardinality(Free')
      <3>1. u # t /\ pc[u] = "w_drain"
        BY <2>6, <2>9 DEF PfW
      <3>2. PfAhead(m.rout, r[u].ticket) = Cardinality(Free)
        BY <3>1 DEF PfInv
      <3>3. m'.rout = Fl!PfInc(m.rout) /\ r'[u] = r[u]
        BY <2>1, <3>1
      <3> QED BY <1>5, <2>8, <3>2, <3>3
    <2>10. \A u \in Threads : pc'[u] # "wr"
      BY <2>6, <2>7 DEF PfInv, PfW
    <2> QED BY <1>3, <1>7, <2>1, <2>2, <2>3, <2>4, <2>5, <2>6, <2>9, <2>10 DEF PfInv, PfServed,
               PfR, PfW
  <1> QED BY <1>10, <1>11, <1>12, <1>13, <1>14, <1>15, <1>16, <1>17, <1>18 DEF Fl!PfCalls,
             Fl!PfSteps

-----------------------------------------------------------------------------
(* The steps of ck_brlock.                                                   *)

\* What a step of ck_brlock does: the list, the mark and the counts are l, w
\* and n, and t goes to a label with new local variables.
BrMemory(l, w, n) == [readers |-> l, writer |-> w, n_readers |-> n]
BrTo(t, l, w, n, label, x) ==
  /\ m' = BrMemory(l, w, n) /\ pc' = [pc EXCEPT ![t] = label] /\ r' = [r EXCEPT ![t] = x]
BrArgs(l, w, n, label, x) ==
  /\ l \in Seq(Threads) /\ w \in BOOLEAN /\ n \in [Threads -> Int]
  /\ label \in BrLabels /\ x \in BrLocals
BrDone(t, l, w, n, label, x) ==
  /\ m'.readers = l /\ m'.writer = w /\ m'.n_readers = n /\ pc'[t] = label /\ r'[t] = x
  /\ \A u \in Threads \ {t} : pc'[u] = pc[u] /\ r'[u] = r[u]

\* Such a step keeps the types, and leaves the other threads as they were.
LEMMA BrGoes ==
  ASSUME BrType, NEW t \in Threads, NEW l, NEW w, NEW n, NEW label, NEW x,
         BrArgs(l, w, n, label, x), BrTo(t, l, w, n, label, x)
  PROVE  BrType' /\ BrDone(t, l, w, n, label, x)
  <1>1. m' \in [readers : Seq(Threads), writer : BOOLEAN, n_readers : [Threads -> Int]]
        /\ m'.readers = l /\ m'.writer = w /\ m'.n_readers = n
    BY DEF BrTo, BrMemory, BrArgs
  <1>2. pc' \in [Threads -> BrLabels] /\ r' \in [Threads -> BrLocals]
    BY DEF BrTo, BrType, BrArgs
  <1>3. pc'[t] = label /\ r'[t] = x /\ \A u \in Threads \ {t} : pc'[u] = pc[u] /\ r'[u] = r[u]
    BY DEF BrTo, BrType
  <1> QED BY <1>1, <1>2, <1>3 DEF BrType, BrDone

\* The local variables keep their types.
LEMMA BrWith ==
  ASSUME NEW y \in BrLocals
  PROVE  /\ \A b \in BOOLEAN : Br!With(y, [try |-> b]) \in BrLocals
         /\ \A b \in BOOLEAN, s \in BrThen :
              /\ Br!With(y, [try |-> b, then |-> s, cursor |-> 1]) \in BrLocals
              /\ Br!With(y, [try |-> b, then |-> s, cursor |-> 1]).cursor = 1
         /\ \A c \in Nat \ {0} : Br!With(y, [cursor |-> c]) \in BrLocals
                                 /\ Br!With(y, [cursor |-> c]).cursor = c
         /\ Br!With(y, Br!Nothing) \in BrLocals
         /\ Br!Nothing \in BrLocals
  <1>1. ASSUME NEW b \in BOOLEAN PROVE Br!With(y, [try |-> b]) \in BrLocals
    BY DEF Br!With, BrLocals
  <1>2. ASSUME NEW b \in BOOLEAN, NEW s \in BrThen
        PROVE  /\ Br!With(y, [try |-> b, then |-> s, cursor |-> 1]) \in BrLocals
               /\ Br!With(y, [try |-> b, then |-> s, cursor |-> 1]).cursor = 1
    <2>1. Br!With(y, [try |-> b, then |-> s, cursor |-> 1]) = [try |-> b, then |-> s, cursor |-> 1]
      BY DEF Br!With, BrLocals
    <2> QED BY <2>1 DEF BrLocals
  <1>3. ASSUME NEW c \in Nat \ {0}
        PROVE  Br!With(y, [cursor |-> c]) \in BrLocals /\ Br!With(y, [cursor |-> c]).cursor = c
    BY DEF Br!With, BrLocals
  <1>4. Br!Nothing \in BrLocals
    BY DEF Br!Nothing, BrLocals, BrThen
  <1>5. Br!With(y, Br!Nothing) = Br!Nothing
    BY DEF Br!With, Br!Nothing, BrLocals
  <1> QED BY <1>1, <1>2, <1>3, <1>4, <1>5

\* The steps of ck_brlock preserve the invariant.
LEMMA BrStep ==
  ASSUME BrInv, NEW t \in Threads, Br!Calls(t) \/ Br!Steps(t)
  PROVE  BrInv'
  <1>0. /\ m.readers \in Seq(Threads) /\ m.writer \in BOOLEAN /\ m.n_readers \in [Threads -> Int]
        /\ m = BrMemory(m.readers, m.writer, m.n_readers)
        /\ pc \in [Threads -> BrLabels] /\ r \in [Threads -> BrLocals]
        /\ r[t] \in BrLocals /\ r[t].then \in BrThen /\ r[t].cursor \in Nat \ {0} /\ BrType
    BY DEF BrInv, BrType, BrMemory, BrLocals
  <1>1. /\ pc = [pc EXCEPT ![t] = pc[t]] /\ r = [r EXCEPT ![t] = r[t]] /\ pc[t] \in BrLabels
        /\ r[t] = [r[t] EXCEPT !.try = r[t].try]
    BY <1>0 DEF BrLocals
  \* A step that leaves the list alone.
  <1>2. ASSUME m'.readers = m.readers
        PROVE  \A u \in Threads : Br!Registered(u)' <=> Br!Registered(u)
    BY <1>2 DEF Br!Registered
  <1>3. ASSUME NEW n
        PROVE  /\ [m EXCEPT !.readers = n] = BrMemory(n, m.writer, m.n_readers)
               /\ [m EXCEPT !.n_readers = n] = BrMemory(m.readers, m.writer, n)
    <2>1. m \in [readers : Seq(Threads), writer : BOOLEAN, n_readers : [Threads -> Int]]
      BY <1>0 DEF BrType
    <2> QED BY <2>1 DEF BrMemory
  <1>5. ASSUME NEW w \in BOOLEAN
        PROVE  [m EXCEPT !.writer = w] = BrMemory(m.readers, w, m.n_readers)
    <2>1. m \in [readers : Seq(Threads), writer : BOOLEAN, n_readers : [Threads -> Int]]
      BY <1>0 DEF BrType
    <2> QED BY <2>1 DEF BrMemory
  <1>4. ASSUME NEW c \in Int
        PROVE  [m EXCEPT !.n_readers[t] = c]
                 = BrMemory(m.readers, m.writer, [m.n_readers EXCEPT ![t] = c])
    <2>1. [m EXCEPT !.n_readers[t] = c] = [m EXCEPT !.n_readers = [m.n_readers EXCEPT ![t] = c]]
      BY <1>0 DEF BrInv, BrType
    <2> QED BY <1>3, <2>1
  <1>8. BrType /\ m.readers \in Seq(Threads) /\ m.writer \in BOOLEAN
          /\ m.n_readers \in [Threads -> Int]
    BY <1>0
  <1>9. m.n_readers[t] \in Int
    BY <1>0
  <1>6. \A i \in DOMAIN m.readers : m.readers[i] \in Threads
    BY <1>0
  <1>7. \A c \in Int : /\ [m.n_readers EXCEPT ![t] = c] \in [Threads -> Int]
                       /\ [m.n_readers EXCEPT ![t] = c][t] = c
                       /\ \A u \in Threads \ {t} : [m.n_readers EXCEPT ![t] = c][u] = m.n_readers[u]
    BY <1>0
  <1>10. CASE Br!WriteLock(t)
    <2>1. PICK x \in BrLocals, label \in BrLabels :
             BrTo(t, m.readers, m.writer, m.n_readers, label, x)
             /\ pc[t] = "idle" /\ label = "w_writer" /\ x.cursor = 1
      <3>1. PICK try \in BOOLEAN : Br!Put(t, [try |-> try, then |-> "wr", cursor |-> 1])
        BY <1>10 DEF Br!WriteLock
      <3>2. /\ Br!With(r[t], [try |-> try, then |-> "wr", cursor |-> 1]) \in BrLocals
            /\ Br!With(r[t], [try |-> try, then |-> "wr", cursor |-> 1]).cursor = 1
        BY <1>0, BrWith DEF BrThen
      <3> QED BY <1>0, <1>10, <3>1, <3>2 DEF Br!WriteLock, Br!At, Br!Go, Br!Step, Br!Local,
                 Br!Put, BrTo, BrLabels
    <2>2. BrArgs(m.readers, m.writer, m.n_readers, label, x)
      BY <1>8, <2>1 DEF BrArgs
    <2>3. BrType' /\ BrDone(t, m.readers, m.writer, m.n_readers, label, x)
      BY <1>8, <2>1, <2>2, BrGoes
    <2> QED BY <1>2, <1>6, <2>1, <2>3 DEF BrInv, BrW, BrR, BrDone
  <1>11. CASE Br!Register(t)
    <2> DEFINE n == [m.n_readers EXCEPT ![t] = 0]
    <2>1. n \in [Threads -> Int] /\ n[t] = 0 /\ \A u \in Threads \ {t} : n[u] = m.n_readers[u]
      BY <1>0
    <2>2. m' = BrMemory(m.readers, m.writer, n)
      <3>1. 0 \in Int /\ m' = [m EXCEPT !.n_readers[t] = 0]
        BY <1>0, <1>11 DEF Br!Register
      <3> QED BY <1>4, <3>1
    <2>3. pc[t] = "idle"
      BY <1>11 DEF Br!Register, Br!Step, Br!At
    <2>0. n \in [Threads -> Int]
      BY <2>1
    <2> HIDE DEF n
    <2>4. BrInv'
      <3>1. BrTo(t, m.readers, m.writer, n, "w_writer", Br!With(r[t], [try |-> FALSE,
              then |-> "register", cursor |-> 1]))
        BY <1>1, <1>11, <2>2, <2>3 DEF Br!Register, Br!Step, Br!At, Br!Go, Br!Put, Br!Local, BrTo
      <3>2. BrArgs(m.readers, m.writer, n, "w_writer", Br!With(r[t], [try |-> FALSE,
              then |-> "register", cursor |-> 1]))
        BY <1>0, <2>0, BrWith DEF BrArgs, BrLabels, BrThen
      <3>3. BrType' /\ BrDone(t, m.readers, m.writer, n, "w_writer", Br!With(r[t],
              [try |-> FALSE, then |-> "register", cursor |-> 1]))
        BY <1>8, <3>1, <3>2, BrGoes
      <3>4. Br!With(r[t], [try |-> FALSE, then |-> "register", cursor |-> 1]).cursor = 1
        BY <1>0, BrWith DEF BrThen
      <3> QED BY <3>4, <1>2, <1>6, <2>1, <2>3, <3>3 DEF BrInv, BrW, BrR, BrDone
    <2> QED BY <1>11, <2>4
  <1>12. CASE Br!Unregister(t)
    <2>1. PICK x \in BrLocals, label \in BrLabels :
             BrTo(t, m.readers, m.writer, m.n_readers, label, x)
             /\ pc[t] = "idle" /\ label = "w_writer" /\ x.cursor = 1
      <3>1. /\ Br!With(r[t], [try |-> FALSE, then |-> "unregister", cursor |-> 1]) \in BrLocals
            /\ Br!With(r[t], [try |-> FALSE, then |-> "unregister", cursor |-> 1]).cursor = 1
        BY <1>0, BrWith DEF BrThen
      <3> QED BY <1>0, <1>12, <3>1 DEF Br!Unregister, Br!At, Br!Go, Br!Step, Br!Local, Br!Put,
                 BrTo, BrLabels
    <2>2. BrArgs(m.readers, m.writer, m.n_readers, label, x)
      BY <1>8, <2>1 DEF BrArgs
    <2>3. BrType' /\ BrDone(t, m.readers, m.writer, m.n_readers, label, x)
      BY <1>8, <2>1, <2>2, BrGoes
    <2> QED BY <1>2, <1>6, <2>1, <2>3 DEF BrInv, BrW, BrR, BrDone
  <1>13. CASE Br!ReadLock(t)
    <2>1. PICK x \in BrLocals, label \in BrLabels :
             BrTo(t, m.readers, m.writer, m.n_readers, label, x)
             /\ pc[t] = "idle" /\ label = "r_writer" /\ Br!Registered(t)
      <3>1. PICK try \in BOOLEAN : Br!Put(t, [try |-> try])
        BY <1>13 DEF Br!ReadLock
      <3>2. Br!With(r[t], [try |-> try]) \in BrLocals
        BY <1>0, BrWith
      <3> QED BY <1>0, <1>13, <3>1, <3>2 DEF Br!ReadLock, Br!At, Br!Go, Br!Step, Br!Local,
                 Br!Put, BrTo, BrLabels
    <2>2. BrArgs(m.readers, m.writer, m.n_readers, label, x)
      BY <1>8, <2>1 DEF BrArgs
    <2>3. BrType' /\ BrDone(t, m.readers, m.writer, m.n_readers, label, x)
      BY <1>8, <2>1, <2>2, BrGoes
    <2> QED BY <1>2, <1>6, <2>1, <2>3 DEF BrInv, BrW, BrR, BrDone
  <1>14. CASE Br!ReadLockAgain(t)
    <2> DEFINE n == [m.n_readers EXCEPT ![t] = m.n_readers[t] + 1]
    <2>1. n \in [Threads -> Int] /\ n[t] = m.n_readers[t] + 1
            /\ \A u \in Threads \ {t} : n[u] = m.n_readers[u]
      BY <1>0
    <2>2. m' = BrMemory(m.readers, m.writer, n)
      <3>1. m.n_readers[t] + 1 \in Int /\ m' = [m EXCEPT !.n_readers[t] = m.n_readers[t] + 1]
        BY <1>0, <1>14 DEF Br!ReadLockAgain
      <3> QED BY <1>4, <3>1
    <2>3. pc[t] = "rd"
      BY <1>14 DEF Br!ReadLockAgain, Br!Step, Br!At
    <2>0. n \in [Threads -> Int]
      BY <2>1
    <2> HIDE DEF n
    <2>4. BrInv'
      <3>1. BrTo(t, m.readers, m.writer, n, "rd", r[t])
        BY <1>1, <1>14, <2>2, <2>3 DEF Br!ReadLockAgain, Br!Step, Br!At, Br!Go, Br!Put, Br!Local,
           BrTo
      <3>2. BrArgs(m.readers, m.writer, n, "rd", r[t])
        BY <1>0, <2>0, BrWith DEF BrArgs, BrLabels, BrThen
      <3>3. BrType' /\ BrDone(t, m.readers, m.writer, n, "rd", r[t])
        BY <1>8, <3>1, <3>2, BrGoes
      <3> QED BY <1>2, <1>6, <1>9, <2>1, <2>3, <3>3 DEF BrInv, BrW, BrR, BrDone
    <2> QED BY <1>14, <2>4
  <1>15. CASE Br!WriteWriter(t)
    <2>1. PICK w \in BOOLEAN : w /\ m' = BrMemory(m.readers, w, m.n_readers)
      <3>1. m' = [m EXCEPT !.writer = TRUE]
        BY <1>15 DEF Br!WriteWriter
      <3>2. \A w \in BOOLEAN : [m EXCEPT !.writer = w] = BrMemory(m.readers, w, m.n_readers)
        BY <1>5
      <3> QED BY <3>1, <3>2, Zenon
    <2>2. pc[t] = "w_writer"
      BY <1>15 DEF Br!WriteWriter, Br!Step, Br!At
    <2>3. CASE ~m.writer
      <3>1. BrTo(t, m.readers, w, m.n_readers, "w_readers", r[t])
        BY <1>1, <1>15, <2>1, <2>2, <2>3 DEF Br!WriteWriter, Br!At, Br!Go, BrTo, Br!GoForget,
           Br!Goes, Br!Unless, Br!Local
      <3>2. BrArgs(m.readers, w, m.n_readers, "w_readers", r[t])
        BY <1>0, <2>1, BrWith DEF BrArgs, BrLabels, BrThen
      <3>3. BrType' /\ BrDone(t, m.readers, w, m.n_readers, "w_readers", r[t])
        BY <1>8, <3>1, <3>2, BrGoes
      <3>4. m'.writer /\ r'[t].cursor = 1 /\ \A i \in DOMAIN m.readers : ~(i < 1)
        <4>1. \A i \in DOMAIN m.readers : ~(i < 1)
          BY <1>0
        <4>2. r[t].cursor = 1
          BY <2>2 DEF BrInv
        <4> QED BY <2>1, <3>3, <4>1, <4>2 DEF BrDone
      <3>5. \A u \in Threads : pc[u] \notin BrW
        BY <2>3 DEF BrInv
      <3> QED BY <1>2, <1>6, <2>2, <3>3, <3>4, <3>5 DEF BrInv, BrW, BrR, BrDone
    <2>4. CASE m.writer
      <3>1. BrTo(t, m.readers, w, m.n_readers, "idle", Br!Nothing)
        BY <1>1, <1>15, <2>1, <2>2, <2>4 DEF Br!WriteWriter, Br!At, Br!Go, BrTo, Br!GoForget,
           Br!Goes, Br!Unless, Br!Local
      <3>2. BrArgs(m.readers, w, m.n_readers, "idle", Br!Nothing)
        BY <1>0, <2>1, BrWith DEF BrArgs, BrLabels, BrThen
      <3>3. BrType' /\ BrDone(t, m.readers, w, m.n_readers, "idle", Br!Nothing)
        BY <1>8, <3>1, <3>2, BrGoes
      <3>4. m'.writer
        BY <2>1, <3>3 DEF BrDone
      <3>5. \E u \in Threads \ {t} : pc[u] \in BrW
        BY <2>2, <2>4 DEF BrInv, BrW
      <3> QED BY <1>2, <1>6, <2>2, <3>3, <3>4, <3>5 DEF BrInv, BrW, BrR, BrDone
    <2> QED BY <1>15, <2>3, <2>4
  <1>16. CASE Br!WriteReaders(t)
    <2>0. m' = BrMemory(m.readers, m.writer, m.n_readers) /\ pc[t] = "w_readers"
      BY <1>0, <1>16 DEF Br!WriteReaders, Br!At, Br!Local
    <2>1. CASE r[t].cursor > Len(m.readers) /\ Br!Go(t, r[t].then) /\ Br!Put(t, Br!Nothing)
      <3>1. BrTo(t, m.readers, m.writer, m.n_readers, r[t].then, Br!With(r[t], Br!Nothing))
        BY <2>0, <2>1 DEF BrTo, Br!Go, Br!Put
      <3>2. Br!With(r[t], Br!Nothing) \in BrLocals /\ r[t].then \in BrLabels
        BY <1>0, BrWith DEF BrThen, BrLabels
      <3>3. /\ BrType' /\ m'.readers = m.readers /\ m'.writer = m.writer
                 /\ m'.n_readers = m.n_readers
            /\ pc'[t] = r[t].then
            /\ \A u \in Threads \ {t} : pc'[u] = pc[u] /\ r'[u] = r[u]
        <4>1. BrArgs(m.readers, m.writer, m.n_readers, r[t].then, Br!With(r[t], Br!Nothing))
          BY <1>8, <3>2 DEF BrArgs
        <4>2. BrType' /\ BrDone(t, m.readers, m.writer, m.n_readers, r[t].then, Br!With(r[t],
                Br!Nothing))
          BY <1>8, <3>1, <4>1, BrGoes
        <4> QED BY <4>2 DEF BrDone
      <3>4. ASSUME NEW u \in Threads, pc[u] = "rd" PROVE FALSE
        <4>1. PICK i \in DOMAIN m.readers : m.readers[i] = u
          BY <3>4 DEF BrInv, BrR, Br!Registered
        <4>2. i < r[t].cursor
          BY <1>0, <2>1, <4>1
        <4> QED BY <2>0, <3>4, <4>1, <4>2 DEF BrInv
      <3>5. r[t].then \in {"wr", "register", "unregister"}
        BY <1>0 DEF BrThen
      <3> QED BY <1>2, <2>0, <3>3, <3>4, <3>5 DEF BrInv, BrW, BrR
    <2>2. CASE /\ r[t].cursor <= Len(m.readers) /\ m.n_readers[m.readers[r[t].cursor]] = 0
               /\ UNCHANGED pc /\ Br!Put(t, [cursor |-> r[t].cursor + 1])
      <3>1. BrTo(t, m.readers, m.writer, m.n_readers, "w_readers",
                 Br!With(r[t], [cursor |-> r[t].cursor + 1]))
        BY <1>1, <2>0, <2>2 DEF BrTo, Br!Put
      <3>2. /\ Br!With(r[t], [cursor |-> r[t].cursor + 1]) \in BrLocals
            /\ Br!With(r[t], [cursor |-> r[t].cursor + 1]).cursor = r[t].cursor + 1
        <4>1. r[t].cursor + 1 \in Nat \ {0}
          BY <1>0
        <4> QED BY <1>0, <4>1, BrWith
      <3>3. /\ BrType' /\ m'.readers = m.readers /\ m'.writer = m.writer
                 /\ m'.n_readers = m.n_readers
            /\ pc'[t] = "w_readers" /\ r'[t].cursor = r[t].cursor + 1
            /\ \A u \in Threads \ {t} : pc'[u] = pc[u] /\ r'[u] = r[u]
        <4>1. BrArgs(m.readers, m.writer, m.n_readers, "w_readers",
                     Br!With(r[t], [cursor |-> r[t].cursor + 1]))
          BY <1>8, <3>2 DEF BrArgs, BrLabels
        <4>2. BrType' /\ BrDone(t, m.readers, m.writer, m.n_readers, "w_readers",
                                Br!With(r[t], [cursor |-> r[t].cursor + 1]))
          BY <1>8, <3>1, <4>1, BrGoes
        <4> QED BY <3>2, <4>2 DEF BrDone
      <3>4. pc[m.readers[r[t].cursor]] # "rd"
        <4>1. m.readers[r[t].cursor] \in Threads
          BY <1>0, <2>2
        <4> QED BY <2>2, <4>1 DEF BrInv
      <3>5. \A i \in DOMAIN m.readers : i < r[t].cursor + 1 => i < r[t].cursor \/ i = r[t].cursor
        BY <1>0
      <3>6. \A i \in DOMAIN m.readers : m.readers[i] \in Threads
        BY <1>0
      <3>7. pc' = pc
        BY <2>2
      <3> QED BY <1>2, <2>0, <3>3, <3>4, <3>5, <3>6, <3>7 DEF BrInv, BrW, BrR
    <2>3. CASE Br!Goes(t, "w_unlock")
      <3>1. BrTo(t, m.readers, m.writer, m.n_readers, "w_unlock", Br!Nothing)
        BY <2>0, <2>3 DEF BrTo, Br!Go, Br!Goes, Br!GoForget
      <3>2. /\ BrType' /\ m'.readers = m.readers /\ m'.writer = m.writer
                 /\ m'.n_readers = m.n_readers
            /\ pc'[t] = "w_unlock"
            /\ \A u \in Threads \ {t} : pc'[u] = pc[u] /\ r'[u] = r[u]
        <4>1. BrArgs(m.readers, m.writer, m.n_readers, "w_unlock", Br!Nothing)
          BY <1>0, BrWith DEF BrArgs, BrLabels
        <4>2. BrType' /\ BrDone(t, m.readers, m.writer, m.n_readers, "w_unlock", Br!Nothing)
          BY <1>8, <3>1, <4>1, BrGoes
        <4> QED BY <4>2 DEF BrDone
      <3> QED BY <1>2, <2>0, <3>2 DEF BrInv, BrW, BrR
    <2> QED BY <1>16, <2>1, <2>2, <2>3 DEF Br!WriteReaders
  <1>17. CASE Br!Link(t)
    <2> DEFINE list == <<t>> \o m.readers
    <2>0. list \in Seq(Threads) /\ \A i \in DOMAIN m.readers : i + 1 \in DOMAIN list
            /\ list[i + 1] = m.readers[i]
      BY <1>0
    <2>1. BrTo(t, list, m.writer, m.n_readers, "w_unlock", r[t]) /\ pc[t] = "register"
      BY <1>1, <1>3, <1>17 DEF Br!Link, BrTo, Br!Step, Br!At, Br!Go
    <2> HIDE DEF list
    <2>2. /\ BrType' /\ m'.readers = list /\ m'.writer = m.writer
          /\ m'.n_readers = m.n_readers /\ pc'[t] = "w_unlock"
          /\ \A u \in Threads \ {t} : pc'[u] = pc[u] /\ r'[u] = r[u]
      <3>1. BrArgs(list, m.writer, m.n_readers, "w_unlock", r[t])
        BY <1>0, <2>0 DEF BrArgs, BrLabels
      <3>2. BrType' /\ BrDone(t, list, m.writer, m.n_readers, "w_unlock", r[t])
        BY <1>8, <2>1, <3>1, BrGoes
      <3> QED BY <3>2 DEF BrDone
    <2>3. ASSUME NEW u \in Threads, Br!Registered(u)
          PROVE  Br!Registered(u)'
      <3>1. PICK i \in DOMAIN m.readers : m.readers[i] = u
        BY <2>3 DEF Br!Registered
      <3>2. i + 1 \in DOMAIN m'.readers /\ m'.readers[i + 1] = u
        BY <2>0, <2>2, <3>1
      <3> QED BY <3>2 DEF Br!Registered
    <2> QED BY <2>1, <2>2, <2>3 DEF BrInv, BrW, BrR
  <1>18. CASE Br!Unlink(t)
    <2>0. PICK i \in DOMAIN m.readers :
            m.readers[i] = t /\
            m' = [m EXCEPT !.readers = [j \in 1 .. Len(@) - 1 |-> IF j < i THEN @[j] ELSE @[j + 1]]]
      BY <1>18 DEF Br!Unlink
    <2> DEFINE list == [j \in 1 .. Len(m.readers) - 1 |->
                         IF j < i THEN m.readers[j] ELSE m.readers[j + 1]]
    <2>1. i \in 1 .. Len(m.readers) /\ Len(m.readers) \in Nat
      BY <1>0
    <2>2. list \in Seq(Threads) /\ Len(list) = Len(m.readers) - 1
      <3>1. ASSUME NEW j \in 1 .. Len(m.readers) - 1 PROVE list[j] \in Threads
        BY <1>0, <2>1
      <3>2. Len(m.readers) - 1 \in Nat
        BY <2>1
      <3>3. list \in [1 .. Len(m.readers) - 1 -> Threads]
        BY <3>1
      <3> HIDE DEF list
      <3> QED BY <3>2, <3>3
    <2>3. BrTo(t, list, m.writer, m.n_readers, "w_unlock", r[t]) /\ pc[t] = "unregister"
      BY <1>1, <1>3, <1>18, <2>0 DEF Br!Unlink, BrTo, Br!Step, Br!At, Br!Go
    <2>4. /\ BrType' /\ m'.readers = list /\ m'.writer = m.writer
          /\ m'.n_readers = m.n_readers /\ pc'[t] = "w_unlock"
          /\ \A u \in Threads \ {t} : pc'[u] = pc[u] /\ r'[u] = r[u]
      <3> HIDE DEF list
      <3>1. BrArgs(list, m.writer, m.n_readers, "w_unlock", r[t])
        BY <1>0, <2>2 DEF BrArgs, BrLabels
      <3>2. BrType' /\ BrDone(t, list, m.writer, m.n_readers, "w_unlock", r[t])
        BY <1>8, <2>3, <3>1, BrGoes
      <3> QED BY <3>2 DEF BrDone
    <2>5. ASSUME NEW u \in Threads \ {t}, Br!Registered(u)
          PROVE  Br!Registered(u)'
      <3>1. PICK k \in DOMAIN m.readers : m.readers[k] = u
        BY <2>5 DEF Br!Registered
      <3>2. k \in 1 .. Len(m.readers) /\ k # i
        BY <1>0, <2>0, <3>1
      <3>3. DOMAIN list = 1 .. Len(m.readers) - 1
        OBVIOUS
      <3>5. CASE k < i
        <4>1. k \in DOMAIN list /\ list[k] = u
          BY <2>1, <3>1, <3>2, <3>5
        <4> QED BY <2>4, <4>1 DEF Br!Registered
      <3>6. CASE k > i
        <4>1. k - 1 \in 1 .. Len(m.readers) - 1 /\ ~(k - 1 < i) /\ k - 1 + 1 = k
          BY <2>1, <3>2, <3>6
        <4>2. k - 1 \in DOMAIN list /\ list[k - 1] = u
          BY <3>1, <4>1
        <4> QED BY <2>4, <4>2 DEF Br!Registered
      <3> QED BY <2>1, <3>2, <3>5, <3>6
    <2> HIDE DEF list
    <2> QED BY <2>3, <2>4, <2>5 DEF BrInv, BrW, BrR
  <1>19. CASE Br!WriteUnlock(t)
    <2>1. PICK w \in BOOLEAN : ~w /\ m' = BrMemory(m.readers, w, m.n_readers)
      <3>1. m' = [m EXCEPT !.writer = FALSE]
        BY <1>19 DEF Br!WriteUnlock
      <3>2. \A w \in BOOLEAN : [m EXCEPT !.writer = w] = BrMemory(m.readers, w, m.n_readers)
        BY <1>5
      <3> QED BY <3>1, <3>2, Zenon
    <2>2. pc[t] \in {"wr", "w_unlock"}
      BY <1>19 DEF Br!WriteUnlock, Br!Step, Br!At
    <2>3. BrInv'
      <3>1. BrTo(t, m.readers, w, m.n_readers, "idle", r[t])
        BY <1>1, <1>19, <2>1, <2>2 DEF Br!WriteUnlock, Br!Step, Br!At, Br!Go, Br!Put, Br!Local, BrTo
      <3>2. BrArgs(m.readers, w, m.n_readers, "idle", r[t])
        BY <1>0, <2>1, BrWith DEF BrArgs, BrLabels, BrThen
      <3>3. BrType' /\ BrDone(t, m.readers, w, m.n_readers, "idle", r[t])
        BY <1>8, <3>1, <3>2, BrGoes
      <3> QED BY <1>2, <1>6, <2>1, <2>2, <3>3 DEF BrInv, BrW, BrR, BrDone
    <2> QED BY <1>19, <2>3
  <1>20. CASE Br!ReadWriter(t)
    <2>1. PICK x \in BrLocals, label \in BrLabels :
             BrTo(t, m.readers, m.writer, m.n_readers, label, x)
             /\ pc[t] = "r_writer" /\ label \in {"r_count", "idle"}
      <3>1. CASE Br!Goes(t, "r_count")
        BY <1>0, <1>1, <1>20, <3>1 DEF Br!ReadWriter, Br!At, Br!Go, Br!Step, Br!Local, Br!Put,
           BrTo, BrLabels, Br!GoForget, Br!Goes, Br!Unless
      <3>2. CASE Br!Goes(t, "idle")
        BY <1>0, <1>1, <1>20, <3>2, BrWith DEF Br!ReadWriter, Br!At, Br!Go, Br!Step, Br!Local,
           Br!Put, BrTo, BrLabels, Br!GoForget, Br!Goes, Br!Unless
      <3> QED BY <1>20, <3>1, <3>2 DEF Br!ReadWriter, Br!Unless
    <2>2. BrArgs(m.readers, m.writer, m.n_readers, label, x)
      BY <1>8, <2>1 DEF BrArgs
    <2>3. BrType' /\ BrDone(t, m.readers, m.writer, m.n_readers, label, x)
      BY <1>8, <2>1, <2>2, BrGoes
    <2> QED BY <1>2, <1>6, <2>1, <2>3 DEF BrInv, BrW, BrR, BrDone
  <1>21. CASE Br!ReadCount(t)
    <2> DEFINE n == [m.n_readers EXCEPT ![t] = 1]
    <2>1. n \in [Threads -> Int] /\ n[t] = 1 /\ \A u \in Threads \ {t} : n[u] = m.n_readers[u]
      BY <1>0
    <2>2. m' = BrMemory(m.readers, m.writer, n)
      <3>1. 1 \in Int /\ m' = [m EXCEPT !.n_readers[t] = 1]
        BY <1>0, <1>21 DEF Br!ReadCount
      <3> QED BY <1>4, <3>1
    <2>3. pc[t] = "r_count"
      BY <1>21 DEF Br!ReadCount, Br!Step, Br!At
    <2>0. n \in [Threads -> Int]
      BY <2>1
    <2> HIDE DEF n
    <2>4. BrInv'
      <3>1. BrTo(t, m.readers, m.writer, n, "r_check", r[t])
        BY <1>1, <1>21, <2>2, <2>3 DEF Br!ReadCount, Br!Step, Br!At, Br!Go, Br!Put, Br!Local, BrTo
      <3>2. BrArgs(m.readers, m.writer, n, "r_check", r[t])
        BY <1>0, <2>0, BrWith DEF BrArgs, BrLabels, BrThen
      <3>3. BrType' /\ BrDone(t, m.readers, m.writer, n, "r_check", r[t])
        BY <1>8, <3>1, <3>2, BrGoes
      <3> QED BY <1>2, <1>6, <2>1, <2>3, <3>3 DEF BrInv, BrW, BrR, BrDone
    <2> QED BY <1>21, <2>4
  <1>22. CASE Br!ReadCheck(t)
    <2>1. m' = BrMemory(m.readers, m.writer, m.n_readers)
      BY <1>0, <1>22 DEF Br!ReadCheck, Br!Local
    <2>2. pc[t] = "r_check"
      BY <1>22 DEF Br!ReadCheck, Br!Step, Br!At
    <2>3. CASE m.writer
      <3>1. BrTo(t, m.readers, m.writer, m.n_readers, "r_back", r[t])
        BY <1>1, <1>22, <2>1, <2>2, <2>3 DEF Br!ReadCheck, Br!At, Br!Go, BrTo, Br!GoForget,
           Br!Goes, Br!Unless, Br!Local
      <3>2. BrArgs(m.readers, m.writer, m.n_readers, "r_back", r[t])
        BY <1>0, <2>1, BrWith DEF BrArgs, BrLabels, BrThen
      <3>3. BrType' /\ BrDone(t, m.readers, m.writer, m.n_readers, "r_back", r[t])
        BY <1>8, <3>1, <3>2, BrGoes
      <3>4. \A u \in Threads : pc'[u] = "rd" => pc[u] = "rd"
        BY <2>2, <3>3 DEF BrDone
      <3> QED BY <1>2, <1>6, <2>2, <2>3, <3>3, <3>4 DEF BrInv, BrW, BrR, BrDone
    <2>4. CASE ~m.writer
      <3>1. BrTo(t, m.readers, m.writer, m.n_readers, "rd", Br!Nothing)
        BY <1>1, <1>22, <2>1, <2>2, <2>4 DEF Br!ReadCheck, Br!At, Br!Go, BrTo, Br!GoForget,
           Br!Goes, Br!Unless, Br!Local
      <3>2. BrArgs(m.readers, m.writer, m.n_readers, "rd", Br!Nothing)
        BY <1>0, <2>1, BrWith DEF BrArgs, BrLabels, BrThen
      <3>3. BrType' /\ BrDone(t, m.readers, m.writer, m.n_readers, "rd", Br!Nothing)
        BY <1>8, <3>1, <3>2, BrGoes
      <3> QED BY <1>2, <1>6, <2>1, <2>2, <2>4, <3>3 DEF BrInv, BrW, BrR, BrDone
    <2> QED BY <1>22, <2>3, <2>4
  <1>23. CASE Br!ReadBack(t)
    <2> DEFINE n == [m.n_readers EXCEPT ![t] = 0]
    <2>1. n \in [Threads -> Int] /\ n[t] = 0 /\ \A u \in Threads \ {t} : n[u] = m.n_readers[u]
      BY <1>0
    <2>2. m' = BrMemory(m.readers, m.writer, n)
      <3>1. 0 \in Int /\ m' = [m EXCEPT !.n_readers[t] = 0]
        BY <1>0, <1>23 DEF Br!ReadBack
      <3> QED BY <1>4, <3>1
    <2>3. pc[t] = "r_back"
      BY <1>23 DEF Br!ReadBack, Br!Step, Br!At
    <2>0. n \in [Threads -> Int]
      BY <2>1
    <2> HIDE DEF n
    <2>4. CASE Br!Goes(t, "r_writer")
      <3>1. BrTo(t, m.readers, m.writer, n, "r_writer", r[t])
        BY <1>1, <1>23, <2>2, <2>3, <2>4 DEF Br!ReadBack, Br!At, Br!Go, BrTo, Br!GoForget,
           Br!Goes, Br!Unless, Br!Local
      <3>2. BrArgs(m.readers, m.writer, n, "r_writer", r[t])
        BY <1>0, <2>0, BrWith DEF BrArgs, BrLabels, BrThen
      <3>3. BrType' /\ BrDone(t, m.readers, m.writer, n, "r_writer", r[t])
        BY <1>8, <3>1, <3>2, BrGoes
      <3> QED BY <1>2, <1>6, <2>1, <2>3, <2>4, <3>3 DEF BrInv, BrW, BrR, BrDone
    <2>5. CASE Br!Goes(t, "idle")
      <3>1. BrTo(t, m.readers, m.writer, n, "idle", Br!Nothing)
        BY <1>1, <1>23, <2>2, <2>3, <2>5 DEF Br!ReadBack, Br!At, Br!Go, BrTo, Br!GoForget,
           Br!Goes, Br!Unless, Br!Local
      <3>2. BrArgs(m.readers, m.writer, n, "idle", Br!Nothing)
        BY <1>0, <2>0, BrWith DEF BrArgs, BrLabels, BrThen
      <3>3. BrType' /\ BrDone(t, m.readers, m.writer, n, "idle", Br!Nothing)
        BY <1>8, <3>1, <3>2, BrGoes
      <3> QED BY <1>2, <1>6, <2>1, <2>3, <2>5, <3>3 DEF BrInv, BrW, BrR, BrDone
    <2> QED BY <1>23, <2>4, <2>5 DEF Br!ReadBack
  <1>24. CASE Br!ReadUnlock(t)
    <2> DEFINE n == [m.n_readers EXCEPT ![t] = m.n_readers[t] - 1]
    <2>1. n \in [Threads -> Int] /\ n[t] = m.n_readers[t] - 1
            /\ \A u \in Threads \ {t} : n[u] = m.n_readers[u]
      BY <1>0
    <2>2. m' = BrMemory(m.readers, m.writer, n)
      <3>1. m.n_readers[t] - 1 \in Int /\ m' = [m EXCEPT !.n_readers[t] = m.n_readers[t] - 1]
        BY <1>0, <1>24 DEF Br!ReadUnlock
      <3> QED BY <1>4, <3>1
    <2>3. pc[t] = "rd"
      BY <1>24 DEF Br!ReadUnlock, Br!Step, Br!At
    <2>0. n \in [Threads -> Int]
      BY <2>1
    <2> HIDE DEF n
    <2>4. CASE m.n_readers[t] = 1
      <3>1. BrTo(t, m.readers, m.writer, n, "idle", r[t])
        BY <1>1, <1>24, <2>2, <2>3, <2>4 DEF Br!ReadUnlock, Br!Step, Br!At, Br!Go, Br!Put,
           Br!Local, BrTo
      <3>2. BrArgs(m.readers, m.writer, n, "idle", r[t])
        BY <1>0, <2>0, BrWith DEF BrArgs, BrLabels, BrThen
      <3>3. BrType' /\ BrDone(t, m.readers, m.writer, n, "idle", r[t])
        BY <1>8, <3>1, <3>2, BrGoes
      <3> QED BY <1>2, <1>6, <1>9, <2>1, <2>3, <2>4, <3>3 DEF BrInv, BrW, BrR, BrDone
    <2>5. CASE m.n_readers[t] # 1
      <3>1. BrTo(t, m.readers, m.writer, n, "rd", r[t])
        BY <1>1, <1>24, <2>2, <2>3, <2>5 DEF Br!ReadUnlock, Br!Step, Br!At, Br!Go, Br!Put,
           Br!Local, BrTo
      <3>2. BrArgs(m.readers, m.writer, n, "rd", r[t])
        BY <1>0, <2>0, BrWith DEF BrArgs, BrLabels, BrThen
      <3>3. BrType' /\ BrDone(t, m.readers, m.writer, n, "rd", r[t])
        BY <1>8, <3>1, <3>2, BrGoes
      <3> QED BY <1>2, <1>6, <1>9, <2>1, <2>3, <2>5, <3>3 DEF BrInv, BrW, BrR, BrDone
    <2> QED BY <1>24, <2>4, <2>5
  <1> QED BY <1>10, <1>11, <1>12, <1>13, <1>14, <1>15, <1>16, <1>17, <1>18, <1>19, <1>20, <1>21,
             <1>22, <1>23, <1>24
          DEF Br!Calls, Br!Steps

-----------------------------------------------------------------------------
(* The steps of ck_bytelock.                                                 *)

\* How the number of the threads without a slot changes when t moves.
LEMMA ByCount ==
  ASSUME NEW p, NEW q, NEW S, NEW t \in Threads, Moved(p, q, t)
  PROVE  /\ Cardinality(Unslotted(p, S)) \in Nat
         /\ Cardinality(Unslotted(q, S)) = Cardinality(Unslotted(p, S))
              + (IF q[t] \in ByR /\ t \notin S THEN 1 ELSE 0)
              - (IF p[t] \in ByR /\ t \notin S THEN 1 ELSE 0)
         /\ Cardinality(Unslotted(p, S)) = 0 => \A u \in Threads \ S : p[u] \notin ByR
  <1> DEFINE Mask(f) == [u \in Threads |-> IF u \in S THEN "idle" ELSE f[u]]
  <1>1. In(Mask(p), ByR) = Unslotted(p, S) /\ In(Mask(q), ByR) = Unslotted(q, S)
    BY DEF In, Unslotted, ByR
  <1>2. Moved(Mask(p), Mask(q), t)
    BY DEF Moved
  <1>3. /\ Mask(p)[t] \in ByR <=> p[t] \in ByR /\ t \notin S
        /\ Mask(q)[t] \in ByR <=> q[t] \in ByR /\ t \notin S
        /\ \A u \in Threads \ S : Mask(p)[u] = p[u]
    BY DEF ByR
  <1> HIDE DEF Mask
  <1>4. /\ Cardinality(In(Mask(p), ByR)) \in Nat
        /\ Cardinality(In(Mask(q), ByR)) = Cardinality(In(Mask(p), ByR))
              + (IF Mask(q)[t] \in ByR THEN 1 ELSE 0) - (IF Mask(p)[t] \in ByR THEN 1 ELSE 0)
    BY <1>2, InCount
  <1>5. Cardinality(In(Mask(p), ByR)) = 0 <=> \A u \in Threads : Mask(p)[u] \notin ByR
    BY InNone
  <1> QED BY <1>1, <1>3, <1>4, <1>5

\* What a step of ck_bytelock does: the owner, the count and the bytes are o, n
\* and b, and t goes to a label with new local variables.
ByMemory(o, n, b) ==
  [slotted |-> m.slotted, use |-> m.use, owner |-> o, n_readers |-> n, readers |-> b,
   upgrader |-> m.upgrader]
ByTo(t, o, n, b, label, x) ==
  /\ m' = ByMemory(o, n, b) /\ pc' = [pc EXCEPT ![t] = label]
       /\ r' = [r EXCEPT ![t] = x]
ByArgs(t, o, n, b, label, x) ==
  /\ o \in Threads \cup {UNSLOTTED, NULL} /\ n \in Int /\ b \in [m.slotted -> BOOLEAN]
  /\ label \in ByLabels /\ x \in [words : SUBSET m.slotted] /\ (label = "w_slot" => t \in m.slotted)
ByDone(t, o, n, b, label, x) ==
  /\ m'.slotted = m.slotted /\ m'.use = m.use
  /\ m'.owner = o /\ m'.n_readers = n /\ m'.readers = b /\ pc'[t] = label /\ r'[t] = x
  /\ \A u \in Threads \ {t} : pc'[u] = pc[u] /\ r'[u] = r[u]

\* Such a step keeps the types, and leaves the other threads as they were.
LEMMA ByGoes ==
  ASSUME ByType, NEW t \in Threads, NEW o, NEW n, NEW b, NEW label, NEW x,
         ByArgs(t, o, n, b, label, x), ByTo(t, o, n, b, label, x)
  PROVE  ByType' /\ ByDone(t, o, n, b, label, x) /\ Moved(pc, pc', t)
  <1>1. m' \in [slotted : SlottedSets, use : Uses, owner : Threads \cup {UNSLOTTED, NULL},
                n_readers : Int, readers : [m.slotted -> BOOLEAN],
                upgrader : m.slotted \cup {NULL}]
        /\ m'.slotted = m.slotted /\ m'.use = m.use
        /\ m'.owner = o /\ m'.n_readers = n /\ m'.readers = b
    <2>1. m.upgrader \in m.slotted \cup {NULL} /\ m.slotted \in SlottedSets /\ m.use \in Uses
      BY DEF ByType
    <2> QED BY <2>1 DEF ByTo, ByMemory, ByArgs
  <1>2. pc' \in [Threads -> ByLabels] /\ r' \in [Threads -> [words : SUBSET m.slotted]]
    BY DEF ByTo, ByType, ByArgs
  <1>3. pc'[t] = label /\ r'[t] = x /\ \A u \in Threads \ {t} : pc'[u] = pc[u] /\ r'[u] = r[u]
    BY DEF ByTo, ByType
  <1>4. \A u \in Threads : pc'[u] = "w_slot" => u \in m.slotted
    BY <1>3 DEF ByType, ByArgs
  <1> QED BY <1>1, <1>2, <1>3, <1>4 DEF ByType, ByDone, Moved

\* The steps of ck_bytelock preserve the invariant.
LEMMA ByStep ==
  ASSUME ByInv, NEW t \in Threads, By!Calls(t) \/ By!Steps(t)
  PROVE  ByInv'
  <1>0. /\ m \in [slotted : SlottedSets, use : Uses, owner : Threads \cup {UNSLOTTED, NULL},
                  n_readers : Int, readers : [m.slotted -> BOOLEAN],
                  upgrader : m.slotted \cup {NULL}]
        /\ pc \in [Threads -> ByLabels] /\ r \in [Threads -> [words : SUBSET m.slotted]] /\ ByType
    BY DEF ByInv, ByType
  <1>1. /\ m.owner \in Threads \cup {UNSLOTTED, NULL} /\ m.n_readers \in Int
        /\ m.readers \in [m.slotted -> BOOLEAN] /\ m.upgrader \in m.slotted \cup {NULL}
        /\ r[t] \in [words : SUBSET m.slotted] /\ ByType
        /\ m = ByMemory(m.owner, m.n_readers, m.readers)
    BY <1>0 DEF ByMemory
  <1>2. pc = [pc EXCEPT ![t] = pc[t]] /\ r = [r EXCEPT ![t] = r[t]]
    BY <1>0
  <1>3. /\ NULL \notin Threads /\ m.slotted \subseteq Threads /\ UNSLOTTED \notin Threads \cup {NULL}
        /\ m.use \in {"own", "reads", "writes", "any"} /\ By!Number(t) \in Threads \cup {UNSLOTTED}
    BY <1>0, SyncAssumption DEF By!Number
  <1>4. ASSUME NEW o PROVE [m EXCEPT !.owner = o] = ByMemory(o, m.n_readers, m.readers)
    BY <1>0 DEF ByMemory
  <1>5. ASSUME NEW n PROVE [m EXCEPT !.n_readers = n] = ByMemory(m.owner, n, m.readers)
    BY <1>0 DEF ByMemory
  <1>6. ASSUME t \in m.slotted, NEW c \in BOOLEAN
        PROVE  /\ [m EXCEPT !.readers[t] = c]
                    = ByMemory(m.owner, m.n_readers, [m.readers EXCEPT ![t] = c])
               /\ [m.readers EXCEPT ![t] = c] \in [m.slotted -> BOOLEAN]
               /\ [m.readers EXCEPT ![t] = c][t] = c
               /\ \A u \in m.slotted \ {t} : [m.readers EXCEPT ![t] = c][u] = m.readers[u]
    <2>1. [m EXCEPT !.readers[t] = c] = [m EXCEPT !.readers = [m.readers EXCEPT ![t] = c]]
      BY <1>0
    <2>2. [m EXCEPT !.readers = [m.readers EXCEPT ![t] = c]]
            = ByMemory(m.owner, m.n_readers, [m.readers EXCEPT ![t] = c])
      BY <1>0 DEF ByMemory
    <2>3. m.readers \in [m.slotted -> BOOLEAN]
      BY <1>1
    <2> QED BY <1>6, <2>1, <2>2, <2>3
  <1>7. ASSUME NEW o, NEW n, NEW b, NEW label, NEW x,
               ByArgs(t, o, n, b, label, x), ByTo(t, o, n, b, label, x)
        PROVE  ByType' /\ ByDone(t, o, n, b, label, x)
    BY <1>0, <1>7, ByGoes
  <1>8. ASSUME Moved(pc, pc', t)
        PROVE  /\ Cardinality(Unslotted(pc, m.slotted)) \in Nat
               /\ Cardinality(Unslotted(pc', m.slotted)) = Cardinality(Unslotted(pc, m.slotted))
                    + (IF pc'[t] \in ByR /\ t \notin m.slotted THEN 1 ELSE 0)
                    - (IF pc[t] \in ByR /\ t \notin m.slotted THEN 1 ELSE 0)
               /\ Cardinality(Unslotted(pc, m.slotted)) = 0 => \A u \in Threads \ m.slotted : pc[u] \notin ByR
    BY <1>8, ByCount
  <1>9. ASSUME m.use # "any"
        PROVE  ByOwned /\ ByCounted /\ m.n_readers = Cardinality(Unslotted(pc, m.slotted))
    BY <1>9 DEF ByInv, ByCounted
  <1>10. CASE By!WriteLock(t)
    <2>1. pc[t] = "idle" /\ (t \in m.slotted \/ m.use # "reads")
      BY <1>1, <1>3, <1>10 DEF By!WriteLock, By!Step, By!At
    <2>2. ByTo(t, m.owner, m.n_readers, m.readers, "w_owner", r[t])
      BY <1>1, <1>2, <1>10, <2>1 DEF By!WriteLock, By!Step, By!At, By!Go, By!Put, By!With,
         By!Local, ByTo
    <2>3. ByArgs(t, m.owner, m.n_readers, m.readers, "w_owner", r[t])
      BY <1>1, <1>3 DEF ByArgs, ByLabels
    <2>4. ByType' /\ ByDone(t, m.owner, m.n_readers, m.readers, "w_owner", r[t])
      BY <1>7, <2>2, <2>3
    <2>5. Moved(pc, pc', t)
      BY <2>4 DEF ByDone, Moved
    <2>owned. ASSUME m.use # "any" PROVE ByOwned'
      BY <1>3, <1>8, <1>9, <2>1, <2>4, <2>5, <2>owned DEF ByOwned, ByDone, ByW, ByR, By!Number
    <2>counted. ASSUME m.use # "any" PROVE ByCounted'
      BY <1>3, <1>8, <1>9, <2>1, <2>4, <2>5, <2>counted DEF ByOwned, ByCounted, ByDone, ByW, ByR, By!Number
    <2> QED BY <2>4, <2>owned, <2>counted DEF ByInv, ByDone
  <1>11. CASE By!Upgrade(t)
    <2>1. pc[t] = "rd" /\ t \in m.slotted
      BY <1>1, <1>3, <1>11 DEF By!Upgrade, By!Step, By!At
    <2>2. ByTo(t, m.owner, m.n_readers, m.readers, "w_owner", r[t])
      BY <1>1, <1>2, <1>11, <2>1 DEF By!Upgrade, By!Step, By!At, By!Go, By!Put, By!With,
         By!Local, ByTo
    <2>3. ByArgs(t, m.owner, m.n_readers, m.readers, "w_owner", r[t])
      BY <1>1, <1>3 DEF ByArgs, ByLabels
    <2>4. ByType' /\ ByDone(t, m.owner, m.n_readers, m.readers, "w_owner", r[t])
      BY <1>7, <2>2, <2>3
    <2>5. Moved(pc, pc', t)
      BY <2>4 DEF ByDone, Moved
    <2>owned. ASSUME m.use # "any" PROVE ByOwned'
      BY <1>3, <1>8, <1>9, <2>1, <2>4, <2>5, <2>owned DEF ByOwned, ByDone, ByW, ByR, By!Number
    <2>counted. ASSUME m.use # "any" PROVE ByCounted'
      BY <1>3, <1>8, <1>9, <2>1, <2>4, <2>5, <2>counted DEF ByOwned, ByCounted, ByDone, ByW, ByR, By!Number
    <2> QED BY <2>4, <2>owned, <2>counted DEF ByInv, ByDone
  <1>12. CASE By!ReadLock(t)
    <2>1. pc[t] = "idle" /\ (t \in m.slotted \/ m.use # "writes")
      BY <1>1, <1>3, <1>12 DEF By!ReadLock, By!Step, By!At
    <2>2. ByTo(t, m.owner, m.n_readers, m.readers, "r_owner", r[t])
      BY <1>1, <1>2, <1>12, <2>1 DEF By!ReadLock, By!Step, By!At, By!Go, By!Put, By!With,
         By!Local, ByTo
    <2>3. ByArgs(t, m.owner, m.n_readers, m.readers, "r_owner", r[t])
      BY <1>1, <1>3 DEF ByArgs, ByLabels
    <2>4. ByType' /\ ByDone(t, m.owner, m.n_readers, m.readers, "r_owner", r[t])
      BY <1>7, <2>2, <2>3
    <2>5. Moved(pc, pc', t)
      BY <2>4 DEF ByDone, Moved
    <2>owned. ASSUME m.use # "any" PROVE ByOwned'
      BY <1>3, <1>8, <1>9, <2>1, <2>4, <2>5, <2>owned DEF ByOwned, ByDone, ByW, ByR, By!Number
    <2>counted. ASSUME m.use # "any" PROVE ByCounted'
      BY <1>3, <1>8, <1>9, <2>1, <2>4, <2>5, <2>counted DEF ByOwned, ByCounted, ByDone, ByW, ByR, By!Number
    <2> QED BY <2>4, <2>owned, <2>counted DEF ByInv, ByDone
  <1>13. CASE By!Downgrade(t)
    <2>1. pc[t] = "wr" /\ (t \in m.slotted \/ m.use = "any")
      BY <1>1, <1>3, <1>13 DEF By!Downgrade, By!Step, By!At
    <2>2. ByTo(t, m.owner, m.n_readers, m.readers, "r_owner", r[t])
      BY <1>1, <1>2, <1>13, <2>1 DEF By!Downgrade, By!Step, By!At, By!Go, By!Put, By!With,
         By!Local, ByTo
    <2>3. ByArgs(t, m.owner, m.n_readers, m.readers, "r_owner", r[t])
      BY <1>1, <1>3 DEF ByArgs, ByLabels
    <2>4. ByType' /\ ByDone(t, m.owner, m.n_readers, m.readers, "r_owner", r[t])
      BY <1>7, <2>2, <2>3
    <2>5. Moved(pc, pc', t)
      BY <2>4 DEF ByDone, Moved
    <2>owned. ASSUME m.use # "any" PROVE ByOwned'
      BY <1>3, <1>8, <1>9, <2>1, <2>4, <2>5, <2>owned DEF ByOwned, ByDone, ByW, ByR, By!Number
    <2>counted. ASSUME m.use # "any" PROVE ByCounted'
      BY <1>3, <1>8, <1>9, <2>1, <2>4, <2>5, <2>counted DEF ByOwned, ByCounted, ByDone, ByW, ByR, By!Number
    <2> QED BY <2>4, <2>owned, <2>counted DEF ByInv, ByDone
  <1>14. CASE By!WriteOwner(t)
    <2>1. pc[t] = "w_owner" /\ m.owner = NULL
      BY <1>1, <1>3, <1>14 DEF By!WriteOwner, By!Step, By!At, By!Local
    <2>2. CASE t \in m.slotted
      <3>1. m' = ByMemory(By!Number(t), m.n_readers, m.readers)
            /\ r' = [r EXCEPT ![t] = [words |-> m.slotted]]
        BY <1>0, <1>4, <1>14 DEF By!WriteOwner, By!Put, By!With
      <3>2. ByTo(t, By!Number(t), m.n_readers, m.readers, "w_slot", [words |-> m.slotted])
        BY <1>1, <1>2, <1>14, <2>1, <2>2, <3>1 DEF By!WriteOwner, By!Step, By!At, By!Go, By!Put,
           By!With, By!Local, ByTo
      <3>3. ByArgs(t, By!Number(t), m.n_readers, m.readers, "w_slot", [words |-> m.slotted])
        BY <1>1, <1>3, <2>2 DEF ByArgs, ByLabels
      <3>4. ByType' /\ ByDone(t, By!Number(t), m.n_readers, m.readers, "w_slot", [words |-> m.slotted])
        BY <1>7, <3>2, <3>3
      <3>5. Moved(pc, pc', t)
        BY <3>4 DEF ByDone, Moved
      <3>owned. ASSUME m.use # "any" PROVE ByOwned'
        BY <1>3, <1>8, <1>9, <2>1, <2>2, <3>4, <3>5, <3>owned DEF ByOwned, ByDone, ByW, ByR, By!Number
      <3>counted. ASSUME m.use # "any" PROVE ByCounted'
        BY <1>3, <1>8, <1>9, <2>1, <2>2, <3>4, <3>5, <3>counted DEF ByOwned, ByCounted, ByDone, ByW, ByR, By!Number
      <3> QED BY <3>4, <3>owned, <3>counted DEF ByInv, ByDone
    <2>3. CASE t \notin m.slotted
      <3>1. m' = ByMemory(By!Number(t), m.n_readers, m.readers)
            /\ r' = [r EXCEPT ![t] = [words |-> m.slotted]]
        BY <1>0, <1>4, <1>14 DEF By!WriteOwner, By!Put, By!With
      <3>2. ByTo(t, By!Number(t), m.n_readers, m.readers, "w_slotted", [words |-> m.slotted])
        BY <1>1, <1>2, <1>14, <2>1, <2>3, <3>1 DEF By!WriteOwner, By!Step, By!At, By!Go, By!Put,
           By!With, By!Local, ByTo
      <3>3. ByArgs(t, By!Number(t), m.n_readers, m.readers, "w_slotted", [words |-> m.slotted])
        BY <1>1, <1>3 DEF ByArgs, ByLabels
      <3>4. ByType' /\ ByDone(t, By!Number(t), m.n_readers, m.readers, "w_slotted", [words |-> m.slotted])
        BY <1>7, <3>2, <3>3
      <3>5. Moved(pc, pc', t)
        BY <3>4 DEF ByDone, Moved
      <3>owned. ASSUME m.use # "any" PROVE ByOwned'
        BY <1>3, <1>8, <1>9, <2>1, <2>3, <3>4, <3>5, <3>owned DEF ByOwned, ByDone, ByW, ByR, By!Number
      <3>counted. ASSUME m.use # "any" PROVE ByCounted'
        BY <1>3, <1>8, <1>9, <2>1, <2>3, <3>4, <3>5, <3>counted DEF ByOwned, ByCounted, ByDone, ByW, ByR, By!Number
      <3> QED BY <3>4, <3>owned, <3>counted DEF ByInv, ByDone
    <2> QED BY <1>14, <2>2, <2>3 DEF By!WriteOwner
  <1>15. CASE By!WriteSlot(t)
    <2> DEFINE b == [m.readers EXCEPT ![t] = FALSE]
    <2>1. pc[t] = "w_slot" /\ t \in m.slotted
      <3>1. pc[t] = "w_slot"
        BY <1>15 DEF By!WriteSlot, By!Step, By!At
      <3> QED BY <1>1, <3>1 DEF ByType
    <2>2. b \in [m.slotted -> BOOLEAN] /\ b[t] = FALSE /\ \A u \in m.slotted \ {t} : b[u] = m.readers[u]
      BY <1>1, <2>1
    <2>3. m' = ByMemory(m.owner, m.n_readers, b)
      <3>1. m' = [m EXCEPT !.readers[t] = FALSE]
        BY <1>15, <2>1 DEF By!WriteSlot
      <3> QED BY <1>6, <2>1, <3>1
    <2> HIDE DEF b
    <2>4. ByTo(t, m.owner, m.n_readers, b, "w_slotted", r[t])
      BY <1>2, <1>15, <2>3 DEF By!WriteSlot, By!Step, By!At, By!Go, By!Put, By!With, By!Local, ByTo
    <2>5. ByArgs(t, m.owner, m.n_readers, b, "w_slotted", r[t])
      BY <1>1, <1>3, <2>2 DEF ByArgs, ByLabels
    <2>6. ByType' /\ ByDone(t, m.owner, m.n_readers, b, "w_slotted", r[t])
      BY <1>7, <2>4, <2>5
    <2>7. Moved(pc, pc', t)
      BY <2>6 DEF ByDone, Moved
    <2>owned. ASSUME m.use # "any" PROVE ByOwned'
      BY <1>3, <1>8, <1>9, <2>1, <2>2, <2>6, <2>7, <2>owned DEF ByOwned, ByDone, ByW, ByR, By!Number
    <2>counted. ASSUME m.use # "any" PROVE ByCounted'
      BY <1>3, <1>8, <1>9, <2>1, <2>2, <2>6, <2>7, <2>counted DEF ByOwned, ByCounted, ByDone, ByW, ByR, By!Number
    <2> QED BY <2>6, <2>owned, <2>counted DEF ByInv, ByDone
  <1>16. CASE By!WriteSlotted(t)
    <2>1. pc[t] = "w_slotted" /\ m' = m
      BY <1>1, <1>3, <1>16 DEF By!WriteSlotted, By!Step, By!At, By!Local
    <2>2. CASE r[t].words = {} /\ By!Go(t, "w_unslotted") /\ UNCHANGED r
      <3>2. ByTo(t, m.owner, m.n_readers, m.readers, "w_unslotted", r[t])
        BY <1>1, <1>2, <1>16, <2>1, <2>2 DEF By!WriteSlotted, By!Step, By!At, By!Go, By!Put,
           By!With, By!Local, ByTo
      <3>3. ByArgs(t, m.owner, m.n_readers, m.readers, "w_unslotted", r[t])
        BY <1>1, <1>3 DEF ByArgs, ByLabels
      <3>4. ByType' /\ ByDone(t, m.owner, m.n_readers, m.readers, "w_unslotted", r[t])
        BY <1>7, <3>2, <3>3
      <3>5. Moved(pc, pc', t)
        BY <3>4 DEF ByDone, Moved
      <3>owned. ASSUME m.use # "any" PROVE ByOwned'
        BY <1>3, <1>8, <1>9, <2>1, <2>2, <3>4, <3>5, <3>owned DEF ByOwned, ByDone, ByW, ByR, By!Number
      <3>counted. ASSUME m.use # "any" PROVE ByCounted'
        BY <1>3, <1>8, <1>9, <2>1, <2>2, <3>4, <3>5, <3>counted DEF ByOwned, ByCounted, ByDone, ByW, ByR, By!Number
      <3> QED BY <3>4, <3>owned, <3>counted DEF ByInv, ByDone
    <2>3. CASE \E u \in r[t].words : ~m.readers[u] /\ By!Put(t, [words |-> r[t].words \ {u}])
               /\ UNCHANGED pc
      <3>0. PICK u \in r[t].words : ~m.readers[u] /\ By!Put(t, [words |-> r[t].words \ {u}])
                   /\ UNCHANGED pc
        BY <2>3
      <3>1. r' = [r EXCEPT ![t] = [words |-> r[t].words \ {u}]]
              /\ pc' = [pc EXCEPT ![t] = "w_slotted"] /\ u \in m.slotted
        BY <1>0, <1>2, <2>1, <3>0 DEF By!Put, By!With
      <3>2. ByTo(t, m.owner, m.n_readers, m.readers, "w_slotted", [words |-> r[t].words \ {u}])
        BY <1>1, <1>2, <1>16, <2>1, <2>3, <3>1 DEF By!WriteSlotted, By!Step, By!At, By!Go,
           By!Put, By!With, By!Local, ByTo
      <3>3. ByArgs(t, m.owner, m.n_readers, m.readers, "w_slotted", [words |-> r[t].words \ {u}])
        BY <1>1, <1>3, <3>0, <3>1 DEF ByArgs, ByLabels
      <3>4. ByType' /\ ByDone(t, m.owner, m.n_readers, m.readers, "w_slotted",
              [words |-> r[t].words \ {u}])
        BY <1>7, <3>2, <3>3
      <3>5. Moved(pc, pc', t)
        BY <3>4 DEF ByDone, Moved
      <3>owned. ASSUME m.use # "any" PROVE ByOwned'
        BY <1>3, <1>8, <1>9, <2>1, <2>3, <3>0, <3>1, <3>4, <3>5, <3>owned DEF ByOwned, ByDone, ByW, ByR, By!Number
      <3>counted. ASSUME m.use # "any" PROVE ByCounted'
        BY <1>3, <1>8, <1>9, <2>1, <2>3, <3>0, <3>1, <3>4, <3>5, <3>counted DEF ByOwned, ByCounted, ByDone, ByW, ByR, By!Number
      <3> QED BY <3>4, <3>owned, <3>counted DEF ByInv, ByDone
    <2> QED BY <1>16, <2>2, <2>3 DEF By!WriteSlotted
  <1>17. CASE By!WriteUnslotted(t)
    <2>1. pc[t] = "w_unslotted" /\ m.n_readers = 0
      BY <1>1, <1>3, <1>17 DEF By!WriteUnslotted, By!Step, By!At
    <2>2. ByTo(t, m.owner, m.n_readers, m.readers, "wr", r[t])
      BY <1>1, <1>2, <1>17, <2>1 DEF By!WriteUnslotted, By!Step, By!At, By!Go, By!Put, By!With,
         By!Local, ByTo
    <2>3. ByArgs(t, m.owner, m.n_readers, m.readers, "wr", r[t])
      BY <1>1, <1>3 DEF ByArgs, ByLabels
    <2>4. ByType' /\ ByDone(t, m.owner, m.n_readers, m.readers, "wr", r[t])
      BY <1>7, <2>2, <2>3
    <2>5. Moved(pc, pc', t)
      BY <2>4 DEF ByDone, Moved
    <2>owned. ASSUME m.use # "any" PROVE ByOwned'
      BY <1>3, <1>8, <1>9, <2>1, <2>4, <2>5, <2>owned DEF ByOwned, ByDone, ByW, ByR, By!Number
    <2>counted. ASSUME m.use # "any" PROVE ByCounted'
      BY <1>3, <1>8, <1>9, <2>1, <2>4, <2>5, <2>counted DEF ByOwned, ByCounted, ByDone, ByW, ByR, By!Number
    <2> QED BY <2>4, <2>owned, <2>counted DEF ByInv, ByDone
  <1>18. CASE By!WriteUnlock(t)
    <2>1. pc[t] = "wr"
      BY <1>1, <1>3, <1>18 DEF By!WriteUnlock, By!Step, By!At
    <2>2. ByTo(t, NULL, m.n_readers, m.readers, "idle", r[t])
      BY <1>1, <1>2, <1>18, <2>1, <1>4 DEF By!WriteUnlock, By!Step, By!At, By!Go, By!Put,
         By!With, By!Local, ByTo
    <2>3. ByArgs(t, NULL, m.n_readers, m.readers, "idle", r[t])
      BY <1>1, <1>3 DEF ByArgs, ByLabels
    <2>4. ByType' /\ ByDone(t, NULL, m.n_readers, m.readers, "idle", r[t])
      BY <1>7, <2>2, <2>3
    <2>5. Moved(pc, pc', t)
      BY <2>4 DEF ByDone, Moved
    <2>owned. ASSUME m.use # "any" PROVE ByOwned'
      BY <1>3, <1>8, <1>9, <2>1, <2>4, <2>5, <2>owned DEF ByOwned, ByDone, ByW, ByR, By!Number
    <2>counted. ASSUME m.use # "any" PROVE ByCounted'
      BY <1>3, <1>8, <1>9, <2>1, <2>4, <2>5, <2>counted DEF ByOwned, ByCounted, ByDone, ByW, ByR, By!Number
    <2> QED BY <2>4, <2>owned, <2>counted DEF ByInv, ByDone
  <1>19. CASE By!ReadOwner(t)
    <2>1. pc[t] = "r_owner"
      BY <1>1, <1>3, <1>19 DEF By!ReadOwner, By!Step, By!At, By!Local
    <2>2. CASE m.owner = By!Number(t)
      <3>2. ByTo(t, m.owner, m.n_readers, m.readers, "r_down", r[t])
        BY <1>1, <1>2, <1>19, <2>1, <2>2 DEF By!ReadOwner, By!Step, By!At, By!Go, By!Put,
           By!With, By!Local, ByTo
      <3>3. ByArgs(t, m.owner, m.n_readers, m.readers, "r_down", r[t])
        BY <1>1, <1>3 DEF ByArgs, ByLabels
      <3>4. ByType' /\ ByDone(t, m.owner, m.n_readers, m.readers, "r_down", r[t])
        BY <1>7, <3>2, <3>3
      <3>5. Moved(pc, pc', t)
        BY <3>4 DEF ByDone, Moved
      <3>owned. ASSUME m.use # "any" PROVE ByOwned'
        BY <1>3, <1>8, <1>9, <2>1, <2>2, <3>4, <3>5, <3>owned DEF ByOwned, ByDone, ByW, ByR, By!Number
      <3>counted. ASSUME m.use # "any" PROVE ByCounted'
        BY <1>3, <1>8, <1>9, <2>1, <2>2, <3>4, <3>5, <3>counted DEF ByOwned, ByCounted, ByDone, ByW, ByR, By!Number
      <3> QED BY <3>4, <3>owned, <3>counted DEF ByInv, ByDone
    <2>3. CASE m.owner # By!Number(t)
      <3>2. ByTo(t, m.owner, m.n_readers, m.readers, "r_count", r[t])
        BY <1>1, <1>2, <1>19, <2>1, <2>3 DEF By!ReadOwner, By!Step, By!At, By!Go, By!Put,
           By!With, By!Local, ByTo
      <3>3. ByArgs(t, m.owner, m.n_readers, m.readers, "r_count", r[t])
        BY <1>1, <1>3 DEF ByArgs, ByLabels
      <3>4. ByType' /\ ByDone(t, m.owner, m.n_readers, m.readers, "r_count", r[t])
        BY <1>7, <3>2, <3>3
      <3>5. Moved(pc, pc', t)
        BY <3>4 DEF ByDone, Moved
      <3>owned. ASSUME m.use # "any" PROVE ByOwned'
        BY <1>3, <1>8, <1>9, <2>1, <2>3, <3>4, <3>5, <3>owned DEF ByOwned, ByDone, ByW, ByR, By!Number
      <3>counted. ASSUME m.use # "any" PROVE ByCounted'
        BY <1>3, <1>8, <1>9, <2>1, <2>3, <3>4, <3>5, <3>counted DEF ByOwned, ByCounted, ByDone, ByW, ByR, By!Number
      <3> QED BY <3>4, <3>owned, <3>counted DEF ByInv, ByDone
    <2> QED BY <1>19, <2>2, <2>3 DEF By!ReadOwner
  <1>20. CASE By!ReadDown(t)
    <2>1. pc[t] = "r_down"
      BY <1>20 DEF By!ReadDown, By!Step, By!At
    <2>2. CASE t \in m.slotted
      <3> DEFINE b == [m.readers EXCEPT ![t] = TRUE]
      <3>2. b \in [m.slotted -> BOOLEAN] /\ b[t] = TRUE /\ \A u \in m.slotted \ {t} : b[u] = m.readers[u]
        BY <1>1, <2>1, <2>2
      <3>3. m' = ByMemory(m.owner, m.n_readers, b)
        <4>1. m' = [m EXCEPT !.readers[t] = TRUE]
          BY <1>20, <2>2 DEF By!ReadDown
        <4> QED BY <1>6, <2>1, <2>2, <4>1
      <3> HIDE DEF b
      <3>4. ByTo(t, m.owner, m.n_readers, b, "r_release", r[t])
        BY <1>2, <1>20, <3>3 DEF By!ReadDown, By!Step, By!At, By!Go, By!Put, By!With, By!Local, ByTo
      <3>5. ByArgs(t, m.owner, m.n_readers, b, "r_release", r[t])
        BY <1>1, <1>3, <3>2 DEF ByArgs, ByLabels
      <3>6. ByType' /\ ByDone(t, m.owner, m.n_readers, b, "r_release", r[t])
        BY <1>7, <3>4, <3>5
      <3>7. Moved(pc, pc', t)
        BY <3>6 DEF ByDone, Moved
      <3>owned. ASSUME m.use # "any" PROVE ByOwned'
        BY <1>3, <1>8, <1>9, <2>1, <2>2, <3>2, <3>6, <3>7, <3>owned DEF ByOwned, ByDone, ByW, ByR, By!Number
      <3>counted. ASSUME m.use # "any" PROVE ByCounted'
        BY <1>3, <1>8, <1>9, <2>1, <2>2, <3>2, <3>6, <3>7, <3>counted DEF ByOwned, ByCounted, ByDone, ByW, ByR, By!Number
      <3> QED BY <3>6, <3>owned, <3>counted DEF ByInv, ByDone
    <2>3. CASE t \notin m.slotted
      <3>1. m.use = "any"
        BY <1>9, <2>1, <2>3 DEF ByOwned
      <3>2. ByTo(t, m.owner, m.n_readers, m.readers, "r_release", r[t])
        BY <1>1, <1>2, <1>20, <2>3 DEF By!ReadDown, By!Step, By!Go, ByTo
      <3>3. ByArgs(t, m.owner, m.n_readers, m.readers, "r_release", r[t])
        BY <1>1, <1>3 DEF ByArgs, ByLabels
      <3>4. ByType' /\ ByDone(t, m.owner, m.n_readers, m.readers, "r_release", r[t])
        BY <1>7, <3>2, <3>3
      <3> QED BY <3>1, <3>4 DEF ByInv, ByDone
    <2> QED BY <2>2, <2>3
  <1>21. CASE By!ReadRelease(t)
    <2>1. pc[t] = "r_release"
      BY <1>1, <1>3, <1>21 DEF By!ReadRelease, By!Step, By!At
    <2>2. ByTo(t, NULL, m.n_readers, m.readers, "rd", r[t])
      BY <1>1, <1>2, <1>21, <2>1, <1>4 DEF By!ReadRelease, By!Step, By!At, By!Go, By!Put,
         By!With, By!Local, ByTo
    <2>3. ByArgs(t, NULL, m.n_readers, m.readers, "rd", r[t])
      BY <1>1, <1>3 DEF ByArgs, ByLabels
    <2>4. ByType' /\ ByDone(t, NULL, m.n_readers, m.readers, "rd", r[t])
      BY <1>7, <2>2, <2>3
    <2>5. Moved(pc, pc', t)
      BY <2>4 DEF ByDone, Moved
    <2>owned. ASSUME m.use # "any" PROVE ByOwned'
      BY <1>3, <1>8, <1>9, <2>1, <2>4, <2>5, <2>owned DEF ByOwned, ByDone, ByW, ByR, By!Number
    <2>counted. ASSUME m.use # "any" PROVE ByCounted'
      BY <1>3, <1>8, <1>9, <2>1, <2>4, <2>5, <2>counted DEF ByOwned, ByCounted, ByDone, ByW, ByR, By!Number
    <2> QED BY <2>4, <2>owned, <2>counted DEF ByInv, ByDone
  <1>22. CASE By!ReadCount(t)
    <2>1. pc[t] = "r_count"
      BY <1>22 DEF By!ReadCount, By!Step, By!At
    <2>2. CASE t \in m.slotted
      <3> DEFINE b == [m.readers EXCEPT ![t] = TRUE]
      <3>1. b \in [m.slotted -> BOOLEAN] /\ b[t] = TRUE
              /\ \A u \in m.slotted \ {t} : b[u] = m.readers[u]
        BY <1>1, <2>2
      <3>2. m' = ByMemory(m.owner, m.n_readers, b)
        <4>0. m' = [m EXCEPT !.readers[t] = (1 = 1)] /\ ((1 = 1) <=> TRUE)
          BY <1>22, <2>2 DEF By!ReadCount, By!Counted
        <4>1. m' = [m EXCEPT !.readers[t] = TRUE]
          BY <4>0
        <4> QED BY <1>6, <2>2, <4>1
      <3> HIDE DEF b
      <3>3. ByTo(t, m.owner, m.n_readers, b, "r_check", r[t])
        BY <1>2, <1>22, <3>2 DEF By!ReadCount, By!Step, By!At, By!Go, By!Put, By!With, By!Local,
           ByTo
      <3>4. ByArgs(t, m.owner, m.n_readers, b, "r_check", r[t])
        BY <1>1, <1>3, <3>1 DEF ByArgs, ByLabels
      <3>5. ByType' /\ ByDone(t, m.owner, m.n_readers, b, "r_check", r[t])
        BY <1>7, <3>3, <3>4
      <3>6. Moved(pc, pc', t)
        BY <3>5 DEF ByDone, Moved
      <3>owned. ASSUME m.use # "any" PROVE ByOwned'
        BY <1>3, <1>8, <1>9, <2>1, <2>2, <3>1, <3>5, <3>6, <3>owned DEF ByOwned, ByDone, ByW, ByR, By!Number
      <3>counted. ASSUME m.use # "any" PROVE ByCounted'
        BY <1>3, <1>8, <1>9, <2>1, <2>2, <3>1, <3>5, <3>6, <3>counted DEF ByOwned, ByCounted, ByDone, ByW, ByR, By!Number
      <3> QED BY <3>5, <3>owned, <3>counted DEF ByInv, ByDone
    <2>3. CASE t \notin m.slotted
      <3>1. ByTo(t, m.owner, m.n_readers + 1, m.readers, "r_check", r[t])
        <4>1. m' = [m EXCEPT !.n_readers = m.n_readers + 1]
          BY <1>1, <1>22, <2>3 DEF By!ReadCount, By!Counted
        <4> QED BY <1>2, <1>5, <1>22, <4>1 DEF By!ReadCount, By!Step, By!At, By!Go, By!Put,
                   By!With, By!Local, ByTo
      <3>4. ByArgs(t, m.owner, m.n_readers + 1, m.readers, "r_check", r[t])
        BY <1>1, <1>3 DEF ByArgs, ByLabels
      <3>5. ByType' /\ ByDone(t, m.owner, m.n_readers + 1, m.readers, "r_check", r[t])
        BY <1>7, <3>1, <3>4
      <3>6. Moved(pc, pc', t)
        BY <3>5 DEF ByDone, Moved
      <3>owned. ASSUME m.use # "any" PROVE ByOwned'
        BY <1>3, <1>8, <1>9, <1>1, <2>1, <2>3, <3>5, <3>6, <3>owned DEF ByOwned, ByDone, ByW, ByR, By!Number
      <3>counted. ASSUME m.use # "any" PROVE ByCounted'
        BY <1>3, <1>8, <1>9, <1>1, <2>1, <2>3, <3>5, <3>6, <3>counted DEF ByOwned, ByCounted, ByDone, ByW, ByR, By!Number
      <3> QED BY <3>5, <3>owned, <3>counted DEF ByInv, ByDone
    <2> QED BY <2>2, <2>3
  <1>23. CASE By!ReadCheck(t)
    <2>1. pc[t] = "r_check"
      BY <1>1, <1>3, <1>23 DEF By!ReadCheck, By!Step, By!At, By!Local
    <2>2. CASE m.owner = NULL
      <3>2. ByTo(t, m.owner, m.n_readers, m.readers, "rd", r[t])
        BY <1>1, <1>2, <1>23, <2>1, <2>2 DEF By!ReadCheck, By!Step, By!At, By!Go, By!Put,
           By!With, By!Local, ByTo
      <3>3. ByArgs(t, m.owner, m.n_readers, m.readers, "rd", r[t])
        BY <1>1, <1>3 DEF ByArgs, ByLabels
      <3>4. ByType' /\ ByDone(t, m.owner, m.n_readers, m.readers, "rd", r[t])
        BY <1>7, <3>2, <3>3
      <3>5. Moved(pc, pc', t)
        BY <3>4 DEF ByDone, Moved
      <3>owned. ASSUME m.use # "any" PROVE ByOwned'
        BY <1>3, <1>8, <1>9, <2>1, <2>2, <3>4, <3>5, <3>owned DEF ByOwned, ByDone, ByW, ByR, By!Number
      <3>counted. ASSUME m.use # "any" PROVE ByCounted'
        BY <1>3, <1>8, <1>9, <2>1, <2>2, <3>4, <3>5, <3>counted DEF ByOwned, ByCounted, ByDone, ByW, ByR, By!Number
      <3> QED BY <3>4, <3>owned, <3>counted DEF ByInv, ByDone
    <2>3. CASE m.owner # NULL
      <3>2. ByTo(t, m.owner, m.n_readers, m.readers, "r_back", r[t])
        BY <1>1, <1>2, <1>23, <2>1, <2>3 DEF By!ReadCheck, By!Step, By!At, By!Go, By!Put,
           By!With, By!Local, ByTo
      <3>3. ByArgs(t, m.owner, m.n_readers, m.readers, "r_back", r[t])
        BY <1>1, <1>3 DEF ByArgs, ByLabels
      <3>4. ByType' /\ ByDone(t, m.owner, m.n_readers, m.readers, "r_back", r[t])
        BY <1>7, <3>2, <3>3
      <3>5. Moved(pc, pc', t)
        BY <3>4 DEF ByDone, Moved
      <3>owned. ASSUME m.use # "any" PROVE ByOwned'
        BY <1>3, <1>8, <1>9, <2>1, <2>3, <3>4, <3>5, <3>owned DEF ByOwned, ByDone, ByW, ByR, By!Number
      <3>counted. ASSUME m.use # "any" PROVE ByCounted'
        BY <1>3, <1>8, <1>9, <2>1, <2>3, <3>4, <3>5, <3>counted DEF ByOwned, ByCounted, ByDone, ByW, ByR, By!Number
      <3> QED BY <3>4, <3>owned, <3>counted DEF ByInv, ByDone
    <2> QED BY <1>23, <2>2, <2>3 DEF By!ReadCheck
  <1>24. CASE By!ReadBack(t)
    <2>1. pc[t] = "r_back"
      BY <1>24 DEF By!ReadBack, By!Step, By!At
    <2>2. CASE t \in m.slotted
      <3> DEFINE b == [m.readers EXCEPT ![t] = FALSE]
      <3>1. b \in [m.slotted -> BOOLEAN] /\ b[t] = FALSE
              /\ \A u \in m.slotted \ {t} : b[u] = m.readers[u]
        BY <1>1, <2>2
      <3>2. m' = ByMemory(m.owner, m.n_readers, b)
        <4>0. m' = [m EXCEPT !.readers[t] = (-1 = 1)] /\ ((-1 = 1) <=> FALSE)
          BY <1>24, <2>2 DEF By!ReadBack, By!Counted
        <4>1. m' = [m EXCEPT !.readers[t] = FALSE]
          BY <4>0
        <4> QED BY <1>6, <2>2, <4>1
      <3> HIDE DEF b
      <3>3. ByTo(t, m.owner, m.n_readers, b, "r_wait", r[t])
        BY <1>2, <1>24, <3>2 DEF By!ReadBack, By!Step, By!At, By!Go, By!Put, By!With, By!Local, ByTo
      <3>4. ByArgs(t, m.owner, m.n_readers, b, "r_wait", r[t])
        BY <1>1, <1>3, <3>1 DEF ByArgs, ByLabels
      <3>5. ByType' /\ ByDone(t, m.owner, m.n_readers, b, "r_wait", r[t])
        BY <1>7, <3>3, <3>4
      <3>6. Moved(pc, pc', t)
        BY <3>5 DEF ByDone, Moved
      <3>owned. ASSUME m.use # "any" PROVE ByOwned'
        BY <1>3, <1>8, <1>9, <2>1, <2>2, <3>1, <3>5, <3>6, <3>owned DEF ByOwned, ByDone, ByW, ByR, By!Number
      <3>counted. ASSUME m.use # "any" PROVE ByCounted'
        BY <1>3, <1>8, <1>9, <2>1, <2>2, <3>1, <3>5, <3>6, <3>counted DEF ByOwned, ByCounted, ByDone, ByW, ByR, By!Number
      <3> QED BY <3>5, <3>owned, <3>counted DEF ByInv, ByDone
    <2>3. CASE t \notin m.slotted
      <3>1. ByTo(t, m.owner, m.n_readers - 1, m.readers, "r_wait", r[t])
        <4>1. m' = [m EXCEPT !.n_readers = m.n_readers - 1]
          BY <1>1, <1>24, <2>3 DEF By!ReadBack, By!Counted
        <4> QED BY <1>2, <1>5, <1>24, <4>1 DEF By!ReadBack, By!Step, By!At, By!Go, By!Put,
                   By!With, By!Local, ByTo
      <3>4. ByArgs(t, m.owner, m.n_readers - 1, m.readers, "r_wait", r[t])
        BY <1>1, <1>3 DEF ByArgs, ByLabels
      <3>5. ByType' /\ ByDone(t, m.owner, m.n_readers - 1, m.readers, "r_wait", r[t])
        BY <1>7, <3>1, <3>4
      <3>6. Moved(pc, pc', t)
        BY <3>5 DEF ByDone, Moved
      <3>owned. ASSUME m.use # "any" PROVE ByOwned'
        BY <1>3, <1>8, <1>9, <1>1, <2>1, <2>3, <3>5, <3>6, <3>owned DEF ByOwned, ByDone, ByW, ByR, By!Number
      <3>counted. ASSUME m.use # "any" PROVE ByCounted'
        BY <1>3, <1>8, <1>9, <1>1, <2>1, <2>3, <3>5, <3>6, <3>counted DEF ByOwned, ByCounted, ByDone, ByW, ByR, By!Number
      <3> QED BY <3>5, <3>owned, <3>counted DEF ByInv, ByDone
    <2> QED BY <2>2, <2>3
  <1>25. CASE By!ReadWait(t)
    <2>1. pc[t] = "r_wait"
      BY <1>1, <1>3, <1>25 DEF By!ReadWait, By!Step, By!At
    <2>2. ByTo(t, m.owner, m.n_readers, m.readers, "r_count", r[t])
      BY <1>1, <1>2, <1>25, <2>1 DEF By!ReadWait, By!Step, By!At, By!Go, By!Put, By!With,
         By!Local, ByTo
    <2>3. ByArgs(t, m.owner, m.n_readers, m.readers, "r_count", r[t])
      BY <1>1, <1>3 DEF ByArgs, ByLabels
    <2>4. ByType' /\ ByDone(t, m.owner, m.n_readers, m.readers, "r_count", r[t])
      BY <1>7, <2>2, <2>3
    <2>5. Moved(pc, pc', t)
      BY <2>4 DEF ByDone, Moved
    <2>owned. ASSUME m.use # "any" PROVE ByOwned'
      BY <1>3, <1>8, <1>9, <2>1, <2>4, <2>5, <2>owned DEF ByOwned, ByDone, ByW, ByR, By!Number
    <2>counted. ASSUME m.use # "any" PROVE ByCounted'
      BY <1>3, <1>8, <1>9, <2>1, <2>4, <2>5, <2>counted DEF ByOwned, ByCounted, ByDone, ByW, ByR, By!Number
    <2> QED BY <2>4, <2>owned, <2>counted DEF ByInv, ByDone
  <1>26. CASE By!ReadUnlock(t)
    <2>1. pc[t] = "rd"
      BY <1>26 DEF By!ReadUnlock, By!Step, By!At
    <2>2. CASE t \in m.slotted
      <3> DEFINE b == [m.readers EXCEPT ![t] = FALSE]
      <3>1. b \in [m.slotted -> BOOLEAN] /\ b[t] = FALSE
              /\ \A u \in m.slotted \ {t} : b[u] = m.readers[u]
        BY <1>1, <2>2
      <3>2. m' = ByMemory(m.owner, m.n_readers, b)
        <4>0. m' = [m EXCEPT !.readers[t] = (-1 = 1)] /\ ((-1 = 1) <=> FALSE)
          BY <1>26, <2>2 DEF By!ReadUnlock, By!Counted
        <4>1. m' = [m EXCEPT !.readers[t] = FALSE]
          BY <4>0
        <4> QED BY <1>6, <2>2, <4>1
      <3> HIDE DEF b
      <3>3. ByTo(t, m.owner, m.n_readers, b, "idle", r[t])
        BY <1>2, <1>26, <3>2 DEF By!ReadUnlock, By!Step, By!At, By!Go, By!Put, By!With, By!Local,
           ByTo
      <3>4. ByArgs(t, m.owner, m.n_readers, b, "idle", r[t])
        BY <1>1, <1>3, <3>1 DEF ByArgs, ByLabels
      <3>5. ByType' /\ ByDone(t, m.owner, m.n_readers, b, "idle", r[t])
        BY <1>7, <3>3, <3>4
      <3>6. Moved(pc, pc', t)
        BY <3>5 DEF ByDone, Moved
      <3>owned. ASSUME m.use # "any" PROVE ByOwned'
        BY <1>3, <1>8, <1>9, <2>1, <2>2, <3>1, <3>5, <3>6, <3>owned DEF ByOwned, ByDone, ByW, ByR, By!Number
      <3>counted. ASSUME m.use # "any" PROVE ByCounted'
        BY <1>3, <1>8, <1>9, <2>1, <2>2, <3>1, <3>5, <3>6, <3>counted DEF ByOwned, ByCounted, ByDone, ByW, ByR, By!Number
      <3> QED BY <3>5, <3>owned, <3>counted DEF ByInv, ByDone
    <2>3. CASE t \notin m.slotted
      <3>1. ByTo(t, m.owner, m.n_readers - 1, m.readers, "idle", r[t])
        <4>1. m' = [m EXCEPT !.n_readers = m.n_readers - 1]
          BY <1>1, <1>26, <2>3 DEF By!ReadUnlock, By!Counted
        <4> QED BY <1>2, <1>5, <1>26, <4>1 DEF By!ReadUnlock, By!Step, By!At, By!Go, By!Put,
                   By!With, By!Local, ByTo
      <3>4. ByArgs(t, m.owner, m.n_readers - 1, m.readers, "idle", r[t])
        BY <1>1, <1>3 DEF ByArgs, ByLabels
      <3>5. ByType' /\ ByDone(t, m.owner, m.n_readers - 1, m.readers, "idle", r[t])
        BY <1>7, <3>1, <3>4
      <3>6. Moved(pc, pc', t)
        BY <3>5 DEF ByDone, Moved
      <3>owned. ASSUME m.use # "any" PROVE ByOwned'
        BY <1>3, <1>8, <1>9, <1>1, <2>1, <2>3, <3>5, <3>6, <3>owned DEF ByOwned, ByDone, ByW, ByR, By!Number
      <3>counted. ASSUME m.use # "any" PROVE ByCounted'
        BY <1>3, <1>8, <1>9, <1>1, <2>1, <2>3, <3>5, <3>6, <3>counted DEF ByOwned, ByCounted, ByDone, ByW, ByR, By!Number
      <3> QED BY <3>5, <3>owned, <3>counted DEF ByInv, ByDone
    <2> QED BY <2>2, <2>3
  <1> QED BY <1>10, <1>11, <1>12, <1>13, <1>14, <1>15, <1>16, <1>17, <1>18, <1>19, <1>20, <1>21,
             <1>22, <1>23, <1>24, <1>25, <1>26 DEF By!Calls, By!Steps

-----------------------------------------------------------------------------
(* The steps of ck_cohort and ck_rwcohort.                                   *)

\* Every thread is in a cohort.
LEMMA CoCohort == \A t \in Threads : Co!C(t) \in Cohorts
  <1> DEFINE c == CHOOSE x \in Cohorts : TRUE
             d == CHOOSE x \in Cohorts : x # c
  <1>1. c \in Cohorts
    BY SyncAssumption
  <1>2. \E x \in Cohorts : x # c
    BY SyncAssumption
  <1>3. d \in Cohorts
    BY <1>2
  <1> HIDE DEF c, d
  <1>4. \A t \in Threads : [u \in Threads |-> IF u = Writer THEN c ELSE d][t] \in Cohorts
    BY <1>1, <1>3
  <1> QED BY <1>4 DEF CohortOf, c, d, Co!C

\* How the number of the readers changes when t moves.
LEMMA CoCount ==
  ASSUME NEW t \in Threads, Moved(pc, pc', t), Moved(r, r', t)
  PROVE  /\ Cardinality(CoCounted) \in Nat
         /\ Cardinality(CoCounted') = Cardinality(CoCounted)
              + (IF CoCounts(pc'[t], r'[t].then) THEN 1 ELSE 0)
              - (IF CoCounts(pc[t], r[t].then) THEN 1 ELSE 0)
         /\ Cardinality(CoCounted) = 0 => CoEntered = {}
  <1> DEFINE Mask(p, s) == [u \in Threads |-> IF CoCounts(p[u], s[u].then) THEN 1 ELSE 0]
  <1>1. In(Mask(pc, r), {1}) = CoCounted /\ In(Mask(pc', r'), {1}) = CoCounted'
    BY DEF In, CoCounted
  <1>2. Moved(Mask(pc, r), Mask(pc', r'), t)
    BY DEF Moved
  <1>3. /\ Mask(pc, r)[t] \in {1} <=> CoCounts(pc[t], r[t].then)
        /\ Mask(pc', r')[t] \in {1} <=> CoCounts(pc'[t], r'[t].then)
        /\ \A u \in Threads : Mask(pc, r)[u] \notin {1} => ~CoCounts(pc[u], r[u].then)
    OBVIOUS
  <1> HIDE DEF Mask
  <1>4. ASSUME NEW p, NEW s, Moved(p, s, t)
        PROVE  /\ Cardinality(In(p, {1})) \in Nat
               /\ Cardinality(In(s, {1})) = Cardinality(In(p, {1}))
                    + (IF s[t] \in {1} THEN 1 ELSE 0) - (IF p[t] \in {1} THEN 1 ELSE 0)
    BY <1>4, InCount
  <1>5. Cardinality(In(Mask(pc, r), {1})) = 0 => \A u \in Threads : Mask(pc, r)[u] \notin {1}
    BY InNone
  <1>6. (\A u \in Threads : ~CoCounts(pc[u], r[u].then)) => CoEntered = {}
    BY DEF CoEntered, CoCounts
  <1>7. /\ Cardinality(In(Mask(pc, r), {1})) \in Nat
        /\ Cardinality(In(Mask(pc', r'), {1})) = Cardinality(In(Mask(pc, r), {1}))
             + (IF Mask(pc', r')[t] \in {1} THEN 1 ELSE 0) - (IF Mask(pc,
               r)[t] \in {1} THEN 1 ELSE 0)
    BY <1>2, <1>4
  <1> QED BY <1>1, <1>3, <1>5, <1>6, <1>7

\* What a step of t does: g is who has the lock for all, l, q, w and a what its
\* cohort's parts become, n and b the readers and the barrier, and t goes to a
\* label with new local variables.
CoMemory(t, g, l, q, w, a, n, b) ==
  [policy |-> m.policy, global |-> g, local |-> [m.local EXCEPT ![Co!C(t)] = l],
   release |-> [m.release EXCEPT ![Co!C(t)] = q], waiting |-> [m.waiting EXCEPT ![Co!C(t)] = w],
   acquired |-> [m.acquired EXCEPT ![Co!C(t)] = a], readers |-> n, barrier |-> b]
CoTo(t, g, l, q, w, a, n, b, label, x) ==
  /\ m' = CoMemory(t, g, l, q, w, a, n, b)
  /\ pc' = [pc EXCEPT ![t] = label] /\ r' = [r EXCEPT ![t] = x]
CoArgs(g, l, q, w, a, n, b, label, x) ==
  /\ g \in Cohorts \cup {NULL} /\ l \in Threads \cup {NULL} /\ q \in {"local", "global"}
  /\ w \in Int /\ a \in Int /\ n \in Int /\ b \in Int
  /\ label \in CoLabels
  /\ x \in [then : {"idle", "wr", "w_readers", "w_drain", "r_locked", "rd"}, raised : BOOLEAN]
CoDone(t, g, l, q, a, n, label, then) ==
  /\ m'.policy = m.policy /\ m'.global = g /\ m'.readers = n
  /\ m'.local[Co!C(t)] = l /\ m'.release[Co!C(t)] = q /\ m'.acquired[Co!C(t)] = a
  /\ \A c \in Cohorts \ {Co!C(t)} :
       m'.local[c] = m.local[c] /\ m'.release[c] = m.release[c] /\ m'.acquired[c] = m.acquired[c]
  /\ pc'[t] = label /\ r'[t].then = then
  /\ \A u \in Threads \ {t} : pc'[u] = pc[u] /\ r'[u] = r[u]
\* What is to be seen to of such a step: only of t itself and of its cohort.
CoTakes(t, l, label) ==
  /\ label \in CoLocal <=> l = t
  /\ \/ l = m.local[Co!C(t)]
     \/ m.local[Co!C(t)] = NULL /\ l = t
     \/ m.local[Co!C(t)] = t /\ l = NULL
CoTakesAll(t, g, q, label) ==
  /\ label \in CoGlobal => g = Co!C(t)
  /\ q = "local" => g = Co!C(t)
  /\ g = m.global \/ m.global = NULL \/ pc[t] \in CoGlobal
CoAcquires(t, l, q, a, label) ==
  /\ l = NULL => CoRested(q, a)
  /\ l = t => CoHeld(label, q, a)
  /\ l \notin {t, NULL} => q = m.release[Co!C(t)] /\ a = m.acquired[Co!C(t)]
CoReads(t, n, label, then) ==
  /\ n = m.readers + (IF CoCounts(label, then) THEN 1 ELSE 0)
                   - (IF CoCounts(pc[t], r[t].then) THEN 1 ELSE 0)
  /\ label \in {"wr", "w_lower"} =>
       pc[t] \in {"wr", "w_lower"} \/ m.readers = 0 \/ m.policy = "cohort"
  /\ CoIn(label, then) => CoIn(pc[t], r[t].then) \/ m.global = NULL \/ pc[t] \in CoGlobal

\* The types, and what a step leaves as it was.
LEMMA CoGoes ==
  ASSUME CoType, NEW t \in Threads, NEW g, NEW l, NEW q, NEW w, NEW a, NEW n, NEW b, NEW label,
         NEW x, CoArgs(g, l, q, w, a, n, b, label, x), CoTo(t, g, l, q, w, a, n, b, label, x)
  PROVE  CoType' /\ CoDone(t, g, l, q, a, n, label, x.then)
  <1> DEFINE c == Co!C(t)
  <1>0. c \in Cohorts
    BY CoCohort
  <1>1. /\ m.policy \in {"cohort", "wp", "rp", "neutral"}
        /\ m.local \in [Cohorts -> Threads \cup {NULL}]
        /\ m.release \in [Cohorts -> {"local", "global"}]
        /\ m.waiting \in [Cohorts -> Int] /\ m.acquired \in [Cohorts -> Int]
    BY DEF CoType
  <1>2. m' = CoMemory(t, g, l, q, w, a, n, b) /\ pc' = [pc EXCEPT ![t] = label]
        /\ r' = [r EXCEPT ![t] = x]
    BY DEF CoTo
  <1> DEFINE ll == [m.local EXCEPT ![c] = l]
             qq == [m.release EXCEPT ![c] = q]
             ww == [m.waiting EXCEPT ![c] = w]
             aa == [m.acquired EXCEPT ![c] = a]
  <1>3. /\ ll \in [Cohorts -> Threads \cup {NULL}] /\ qq \in [Cohorts -> {"local", "global"}]
        /\ ww \in [Cohorts -> Int] /\ aa \in [Cohorts -> Int]
        /\ ll[c] = l /\ qq[c] = q /\ aa[c] = a
        /\ \A d \in Cohorts \ {c} :
             ll[d] = m.local[d] /\ qq[d] = m.release[d] /\ aa[d] = m.acquired[d]
    BY <1>0, <1>1 DEF CoArgs
  <1>4. m' = [policy |-> m.policy, global |-> g, local |-> ll, release |-> qq, waiting |-> ww,
              acquired |-> aa, readers |-> n, barrier |-> b]
    BY <1>2 DEF CoMemory
  <1> HIDE DEF c, ll, qq, ww, aa
  <1>5. /\ m'.policy = m.policy /\ m'.global = g /\ m'.readers = n
        /\ m'.local = ll /\ m'.release = qq /\ m'.acquired = aa
    BY <1>4
  <1>6. m' \in [policy : {"cohort", "wp", "rp", "neutral"}, global : Cohorts \cup {NULL},
              local : [Cohorts -> Threads \cup {NULL}], release : [Cohorts -> {"local", "global"}],
              waiting : [Cohorts -> Int], acquired : [Cohorts -> Int], readers : Int, barrier : Int]
    BY <1>1, <1>3, <1>4 DEF CoArgs
  <1>7. /\ pc' \in [Threads -> CoLabels]
        /\ r' \in [Threads -> [then : {"idle", "wr", "w_readers", "w_drain", "r_locked", "rd"},
                               raised : BOOLEAN]]
    BY <1>2 DEF CoType, CoArgs
  <1>8. pc'[t] = label /\ r'[t] = x /\ \A u \in Threads \ {t} : pc'[u] = pc[u] /\ r'[u] = r[u]
    BY <1>2 DEF CoType
  <1>9. CoType'
    BY <1>6, <1>7 DEF CoType
  <1>10. CoDone(t, g, l, q, a, n, label, x.then)
    BY <1>3, <1>5, <1>8 DEF CoDone, c
  <1> QED BY <1>9, <1>10

\* Such a step preserves the invariant.
LEMMA CoPreserves ==
  ASSUME CoInv, CoType', NEW t \in Threads, NEW g, NEW l, NEW q, NEW a, NEW n, NEW label, NEW then,
         CoDone(t, g, l, q, a, n, label, then), CoThen(label, then), CoTakes(t, l, label),
         CoTakesAll(t, g, q, label), CoAcquires(t, l, q, a, label), CoReads(t, n, label, then)
  PROVE  CoInv'
  <1>0. /\ Co!C(t) \in Cohorts /\ NULL \notin Threads /\ NULL \notin Cohorts
        /\ \A u \in Threads : Co!C(u) \in Cohorts
    BY CoCohort, SyncAssumption
  <1>1. \A c \in Cohorts : m.local[c] \in Threads \cup {NULL}
    BY DEF CoInv, CoType
  <1>2. \A c \in Cohorts : m'.local[c] \in Threads \cup {NULL}
    BY DEF CoType
  <1>3. CoLocks /\ CoGlobals /\ CoAcquired /\ CoReaders
          /\ \A u \in Threads : CoThen(pc[u], r[u].then)
    BY DEF CoInv
  <1>c. Co!C(t)' = Co!C(t) /\ \A u \in Threads : Co!C(u)' = Co!C(u)
    BY DEF Co!C, CohortOf
  <1>4. \A u \in Threads : CoThen(pc[u], r[u].then)'
    <2>1. ASSUME NEW u \in Threads \ {t} PROVE CoThen(pc[u], r[u].then)'
      <3>1. CoThen(pc[u], r[u].then) /\ pc'[u] = pc[u] /\ r'[u] = r[u] /\ m'.policy = m.policy
        BY <1>3 DEF CoDone
      <3> QED BY <3>1 DEF CoThen
    <2>2. CoThen(pc[t], r[t].then)'
      <3>1. pc'[t] = label /\ r'[t].then = then /\ m'.policy = m.policy
        BY DEF CoDone
      <3> QED BY <3>1 DEF CoThen
    <2> QED BY <2>1, <2>2
  <1>5. CoLocks'
    <2>1. ASSUME NEW u \in Threads PROVE pc'[u] \in CoLocal <=> m'.local[Co!C(u)] = u
      BY <1>0, <1>1, <1>3 DEF CoLocks, CoDone, CoTakes
    <2>2. ASSUME NEW c \in Cohorts, m'.local[c] # NULL PROVE Co!C(m'.local[c]) = c
      BY <1>0, <1>1, <1>3, <2>2 DEF CoLocks, CoDone, CoTakes
    <2> QED BY <2>1, <2>2, <1>c DEF CoLocks, Co!C, CohortOf
  <1>6. \A u \in Threads : pc[u] \in CoGlobal => m.local[Co!C(u)] = u
    BY <1>3 DEF CoLocks, CoGlobal, CoLocal
  <1>7. ASSUME NEW u \in Threads \ {t}, pc[u] \in CoGlobal PROVE pc[t] \notin CoGlobal
                 /\ m.global # NULL
    BY <1>0, <1>3, <1>6, <1>7 DEF CoGlobals
  <1>8. CoGlobals'
    <2>1. ASSUME NEW u \in Threads, pc'[u] \in CoGlobal PROVE m'.global = Co!C(u)
      <3>1. CASE u = t
        BY <2>1, <3>1 DEF CoDone, CoTakesAll
      <3>2. CASE u # t
        BY <1>3, <1>7, <2>1, <3>2 DEF CoDone, CoTakesAll, CoGlobals
      <3> QED BY <3>1, <3>2
    <2>2. ASSUME NEW c \in Cohorts, m'.release[c] = "local" PROVE m'.global = c
      <3>1. CASE c = Co!C(t)
        BY <2>2, <3>1 DEF CoDone, CoTakesAll
      <3>2. CASE c # Co!C(t)
        BY <1>0, <1>3, <2>2, <3>2 DEF CoDone, CoTakesAll, CoGlobals
      <3> QED BY <3>1, <3>2
    <2> QED BY <2>1, <2>2, <1>c DEF CoGlobals, Co!C, CohortOf
  <1>9. CoAcquired'
    <2> SUFFICES ASSUME NEW c \in Cohorts
                 PROVE  \/ m'.local[c] = NULL /\ CoRested(m'.release[c], m'.acquired[c])
                        \/ m'.local[c] # NULL
                          /\ CoHeld(pc'[m'.local[c]], m'.release[c], m'.acquired[c])
      BY DEF CoAcquired, CoRested, CoHeld
    <2>1. \/ m.local[c] = NULL /\ CoRested(m.release[c], m.acquired[c])
          \/ m.local[c] # NULL /\ CoHeld(pc[m.local[c]], m.release[c], m.acquired[c])
      BY <1>3 DEF CoAcquired
    <2>2. CASE c # Co!C(t)
      <3>1. m.local[c] # NULL => m.local[c] \in Threads \ {t}
        BY <1>1, <1>3, <2>2 DEF CoLocks
      <3> QED BY <2>1, <2>2, <3>1 DEF CoDone
    <2>3. CASE c = Co!C(t)
      <3>1. CASE l \in {t, NULL}
        BY <1>0, <2>3, <3>1 DEF CoDone, CoAcquires
      <3>2. CASE l \notin {t, NULL}
        <4>1. l = m.local[c]
          BY <2>3, <3>2 DEF CoTakes
        <4>2. l \in Threads \ {t}
          BY <1>1, <3>2, <4>1
        <4> QED BY <2>1, <2>3, <3>2, <4>1, <4>2 DEF CoDone, CoAcquires
      <3> QED BY <3>1, <3>2
    <2> QED BY <2>2, <2>3
  <1>10. CoReaders'
    <2>1. Moved(pc, pc', t) /\ Moved(r, r', t)
      BY DEF CoDone, Moved
    <2>2. /\ Cardinality(CoCounted) \in Nat
          /\ Cardinality(CoCounted') = Cardinality(CoCounted)
              + (IF CoCounts(pc'[t], r'[t].then) THEN 1 ELSE 0)
              - (IF CoCounts(pc[t], r[t].then) THEN 1 ELSE 0)
          /\ Cardinality(CoCounted) = 0 => CoEntered = {}
      BY <2>1, CoCount
    <2>3. m.readers = Cardinality(CoCounted)
      BY <1>3 DEF CoReaders
    <2>4. m'.readers = Cardinality(CoCounted')
      BY <2>2, <2>3 DEF CoDone, CoReads
    <2>5. m.policy = "cohort" => CoEntered = {}
      BY <1>3 DEF CoEntered, CoThen, CoCounts
    <2>6. ASSUME NEW u \in Threads, pc'[u] \in {"wr", "w_lower"}, NEW v \in Threads,
                 CoIn(pc'[v], r'[v].then)
          PROVE  FALSE
      <3>1. CASE u = t /\ v = t
        BY <2>6, <3>1 DEF CoIn, CoReleasing
      <3>2. CASE u = t /\ v # t
        <4>1. v \in CoEntered
          BY <2>6, <3>2 DEF CoDone, CoEntered
        <4>2. pc[t] \in {"wr", "w_lower"} => CoEntered = {}
          BY <1>3 DEF CoReaders, In
        <4>3. pc[t] \in {"wr", "w_lower"} \/ m.readers = 0 \/ m.policy = "cohort"
          BY <2>6, <3>2 DEF CoDone, CoReads
        <4> QED BY <2>2, <2>3, <2>5, <4>1, <4>2, <4>3
      <3>3. CASE u # t
        <4>1. pc[u] \in {"wr", "w_lower"} /\ u \in Threads \ {t}
          BY <2>6, <3>3 DEF CoDone
        <4>2. CoEntered = {}
          BY <1>3, <4>1 DEF CoReaders, In
        <4>3. pc[u] \in CoGlobal
          BY <4>1 DEF CoGlobal, CoOwning
        <4>4. pc[t] \notin CoGlobal /\ m.global # NULL
          BY <1>7, <4>1, <4>3
        <4>5. CASE v = t
          <5>1. CoIn(pc[t], r[t].then)
            BY <2>6, <4>4, <4>5 DEF CoDone, CoReads
          <5> QED BY <4>2, <5>1 DEF CoEntered
        <4>6. CASE v # t
          BY <2>6, <4>2, <4>6 DEF CoDone, CoEntered
        <4> QED BY <4>5, <4>6
      <3> QED BY <3>1, <3>2, <3>3
    <2>7. In(pc', {"wr", "w_lower"}) # {} => CoEntered' = {}
      BY <2>6 DEF In, CoEntered, CoIn
    <2> QED BY <2>4, <2>7 DEF CoReaders, In
  <1> QED BY <1>4, <1>5, <1>8, <1>9, <1>10 DEF CoInv

\* The steps of the cohort locks preserve the invariant.
LEMMA CoStep ==
  ASSUME CoInv, NEW t \in Threads, Co!Calls(t) \/ Co!Steps(t)
  PROVE  CoInv'
  <1> DEFINE C == Co!C(t)
             L == m.local[C]
             Q == m.release[C]
             W == m.waiting[C]
             A == m.acquired[C]
             G == m.global
             N == m.readers
             B == m.barrier
             X == r[t].then
             Y == r[t].raised
  <1>0. /\ CoType /\ C \in Cohorts /\ NULL \notin Threads /\ NULL \notin Cohorts
        /\ PassLimit \in Nat \ {0}
    BY CoCohort, SyncAssumption DEF CoInv
  <1>1. /\ m \in [policy : {"cohort", "wp", "rp", "neutral"}, global : Cohorts \cup {NULL},
                  local : [Cohorts -> Threads \cup {NULL}], release : [Cohorts -> {"local",
                    "global"}],
                  waiting : [Cohorts -> Int], acquired : [Cohorts -> Int], readers : Int,
                    barrier : Int]
        /\ pc \in [Threads -> CoLabels]
        /\ r \in [Threads -> [then : {"idle", "wr", "w_readers", "w_drain", "r_locked", "rd"},
                              raised : BOOLEAN]]
    BY <1>0 DEF CoType
  <1>2. /\ G \in Cohorts \cup {NULL} /\ L \in Threads \cup {NULL} /\ Q \in {"local", "global"}
        /\ W \in Int /\ A \in Int /\ N \in Int /\ B \in Int
        /\ X \in {"idle", "wr", "w_readers", "w_drain", "r_locked", "rd"} /\ Y \in BOOLEAN
        /\ m.policy \in {"cohort", "wp", "rp", "neutral"} /\ pc[t] \in CoLabels
    BY <1>0, <1>1
  <1>3. /\ CoThen(pc[t], X) /\ (pc[t] \in CoLocal <=> L = t) /\ (pc[t] \in CoGlobal => G = C)
        /\ (Q = "local" => G = C)
        /\ L = NULL => CoRested(Q, A)
        /\ L = t => CoHeld(pc[t], Q, A)
    BY <1>0 DEF CoInv, CoLocks, CoGlobals, CoAcquired
  <1>4. /\ pc = [pc EXCEPT ![t] = pc[t]]
        /\ r = [r EXCEPT ![t] = [then |-> X, raised |-> Y]]
        /\ \A v : [r EXCEPT ![t] = Co!With(r[t], [then |-> v])] = [r EXCEPT ![t] = [then |-> v,
             raised |-> Y]]
        /\ \A v : [r EXCEPT ![t] = Co!With(r[t], [raised |-> v])] = [r EXCEPT ![t]
             = [then |-> X, raised |-> v]]
    <2>1. pc = [pc EXCEPT ![t] = pc[t]] /\ r = [r EXCEPT ![t] = r[t]]
      BY <1>1
    <2>2. r[t] = [then |-> X, raised |-> Y]
      BY <1>1
    <2>3. \A v : Co!With(r[t], [then |-> v]) = [then |-> v, raised |-> Y]
      BY <2>2 DEF Co!With
    <2>4. \A v : Co!With(r[t], [raised |-> v]) = [then |-> X, raised |-> v]
      BY <2>2 DEF Co!With
    <2> QED BY <2>1, <2>2, <2>3, <2>4
  <1>5. /\ m.local = [m.local EXCEPT ![C] = L] /\ m.release = [m.release EXCEPT ![C] = Q]
        /\ m.waiting = [m.waiting EXCEPT ![C] = W] /\ m.acquired = [m.acquired EXCEPT ![C] = A]
    BY <1>0, <1>1
  <1>6. /\ m = CoMemory(t, G, L, Q, W, A, N, B)
        /\ \A v : [m EXCEPT !.global = v] = CoMemory(t, v, L, Q, W, A, N, B)
        /\ \A v : [m EXCEPT !.readers = v] = CoMemory(t, G, L, Q, W, A, v, B)
        /\ \A v : [m EXCEPT !.barrier = v] = CoMemory(t, G, L, Q, W, A, N, v)
    <2>1. m = CoMemory(t, G, L, Q, W, A, N, B)
      BY <1>1, <1>5 DEF CoMemory
    <2>2. \A v : [m EXCEPT !.global = v] = CoMemory(t, v, L, Q, W, A, N, B)
      BY <1>1, <1>5 DEF CoMemory
    <2>3. \A v : [m EXCEPT !.readers = v] = CoMemory(t, G, L, Q, W, A, v, B)
      BY <1>1, <1>5 DEF CoMemory
    <2>4. \A v : [m EXCEPT !.barrier = v] = CoMemory(t, G, L, Q, W, A, N, v)
      BY <1>1, <1>5 DEF CoMemory
    <2> QED BY <2>1, <2>2, <2>3, <2>4
  <1>7. /\ \A v : [m EXCEPT !.local[C] = v] = CoMemory(t, G, v, Q, W, A, N, B)
        /\ \A v : [m EXCEPT !.release[C] = v] = CoMemory(t, G, L, v, W, A, N, B)
        /\ \A v : [m EXCEPT !.waiting[C] = v] = CoMemory(t, G, L, Q, v, A, N, B)
        /\ \A v : [m EXCEPT !.acquired[C] = v] = CoMemory(t, G, L, Q, W, v, N, B)
    <2>1. ASSUME NEW v
          PROVE  /\ [m EXCEPT !.local[C] = v] = CoMemory(t, G, v, Q, W, A, N, B)
                 /\ [m EXCEPT !.release[C] = v] = CoMemory(t, G, L, v, W, A, N, B)
                 /\ [m EXCEPT !.waiting[C] = v] = CoMemory(t, G, L, Q, v, A, N, B)
                 /\ [m EXCEPT !.acquired[C] = v] = CoMemory(t, G, L, Q, W, v, N, B)
      <3>1. /\ [m EXCEPT !.local[C] = v] = [m EXCEPT !.local = [m.local EXCEPT ![C] = v]]
            /\ [m EXCEPT !.release[C] = v] = [m EXCEPT !.release = [m.release EXCEPT ![C] = v]]
            /\ [m EXCEPT !.waiting[C] = v] = [m EXCEPT !.waiting = [m.waiting EXCEPT ![C] = v]]
            /\ [m EXCEPT !.acquired[C] = v] = [m EXCEPT !.acquired = [m.acquired EXCEPT ![C] = v]]
        BY <1>1
      <3>2. [m EXCEPT !.local = [m.local EXCEPT ![C] = v]] = CoMemory(t, G, v, Q, W, A, N, B)
        BY <1>1, <1>5 DEF CoMemory
      <3>3. [m EXCEPT !.release = [m.release EXCEPT ![C] = v]] = CoMemory(t, G, L, v, W, A, N, B)
        BY <1>1, <1>5 DEF CoMemory
      <3>4. [m EXCEPT !.waiting = [m.waiting EXCEPT ![C] = v]] = CoMemory(t, G, L, Q, v, A, N, B)
        BY <1>1, <1>5 DEF CoMemory
      <3>5. [m EXCEPT !.acquired = [m.acquired EXCEPT ![C] = v]] = CoMemory(t, G, L, Q, W, v, N, B)
        BY <1>1, <1>5 DEF CoMemory
      <3> QED BY <3>1, <3>2, <3>3, <3>4, <3>5
    <2> QED BY <2>1
  <1>8. ASSUME NEW g, NEW l, NEW q, NEW w, NEW a, NEW n, NEW b, NEW label, NEW then, NEW raised,
               CoArgs(g, l, q, w, a, n, b, label, [then |-> then, raised |-> raised]),
               CoTo(t, g, l, q, w, a, n, b, label, [then |-> then, raised |-> raised]),
               CoThen(label, then), CoTakes(t, l, label),
               CoTakesAll(t, g, q, label), CoAcquires(t, l, q, a, label), CoReads(t, n, label, then)
        PROVE  CoInv'
    <2>1. CoType' /\ CoDone(t, g, l, q, a, n, label, [then |-> then, raised |-> raised].then)
      BY <1>0, <1>8, CoGoes
    <2>2. [then |-> then, raised |-> raised].then = then
      OBVIOUS
    <2>3. CoDone(t, g, l, q, a, n, label, then)
      BY <2>1, <2>2
    <2> QED BY <1>8, <2>1, <2>3, CoPreserves
  <1> HIDE DEF L, Q, W, A, G, N, B, X, Y
  <1>9. CASE Co!CohortLock(t)
    <2>1. pc[t] = "c_lock"
      BY <1>9 DEF Co!CohortLock, Co!Step, Co!At, Co!Go, Co!Put, Co!Local, L, Q, W, A, N, B, G, X, Y
    <2>2. CoTo(t, G, L, Q, W + 1, A, N, B, "c_local", [then |-> X, raised |-> Y])
      BY <1>4, <1>6, <1>7, <1>9, <2>1 DEF CoTo, Co!CohortLock, Co!Step, Co!At, Co!Go, Co!Put,
         Co!Local, L, Q, W, A, N, B, G, X, Y
    <2>11. CoArgs(G, L, Q, W + 1, A, N, B, "c_local", [then |-> X, raised |-> Y])
      BY <1>0, <1>2, <2>1 DEF CoArgs, CoLabels, CoAcquiring, CoOwning, CoReleasing, CoTrying,
         CoReading
    <2>12. CoThen("c_local", X) /\ CoTakes(t, L, "c_local") /\ CoTakesAll(t, G, Q, "c_local")
      BY <1>0, <1>2, <1>3, <2>1
      DEF CoThen, CoCounts, CoIn, CoAcquiring, CoReleasing, CoTrying, CoReading, CoTakes,
      CoLocal, CoOwning,
          CoTakesAll, CoGlobal, G, L
    <2>13. CoAcquires(t, L, Q, A, "c_local") /\ CoReads(t, N, "c_local", X)
      BY <1>0, <1>2, <1>3, <2>1
      DEF CoAcquires, CoRested, CoHeld, CoLocal, CoOwning, CoReads, CoThen, CoCounts, CoIn,
      CoReleasing,
          CoAcquiring, CoTrying, CoGlobal, Q, A, N, X, G
    <2> QED BY <1>8, <2>2, <2>11, <2>12, <2>13
  <1>10. CASE Co!CohortLocal(t)
    <2>1. pc[t] = "c_local" /\ L = NULL
      BY <1>10 DEF Co!CohortLocal, Co!Step, Co!At, Co!Go, Co!Put, Co!Local, L, Q, W, A, N, B, G,
         X, Y
    <2>2. CoTo(t, G, t, Q, W, A, N, B, "c_got", [then |-> X, raised |-> Y])
      BY <1>4, <1>6, <1>7, <1>10, <2>1 DEF CoTo, Co!CohortLocal, Co!Step, Co!At, Co!Go, Co!Put,
         Co!Local, L, Q, W, A, N, B, G, X, Y
    <2>11. CoArgs(G, t, Q, W, A, N, B, "c_got", [then |-> X, raised |-> Y])
      BY <1>0, <1>2, <2>1 DEF CoArgs, CoLabels, CoAcquiring, CoOwning, CoReleasing, CoTrying,
         CoReading
    <2>12. CoThen("c_got", X) /\ CoTakes(t, t, "c_got") /\ CoTakesAll(t, G, Q, "c_got")
      BY <1>0, <1>2, <1>3, <2>1
      DEF CoThen, CoCounts, CoIn, CoAcquiring, CoReleasing, CoTrying, CoReading, CoTakes,
      CoLocal, CoOwning,
          CoTakesAll, CoGlobal, G, L
    <2>13. CoAcquires(t, t, Q, A, "c_got") /\ CoReads(t, N, "c_got", X)
      BY <1>0, <1>2, <1>3, <2>1
      DEF CoAcquires, CoRested, CoHeld, CoLocal, CoOwning, CoReads, CoThen, CoCounts, CoIn,
      CoReleasing,
          CoAcquiring, CoTrying, CoGlobal, Q, A, N, X, G
    <2> QED BY <1>8, <2>2, <2>11, <2>12, <2>13
  <1>11. CASE Co!CohortGot(t)
    <2>1. pc[t] = "c_got"
      BY <1>11 DEF Co!CohortGot, Co!Step, Co!At, Co!Go, Co!Put, Co!Local, L, Q, W, A, N, B, G, X, Y
    <2>2. CASE Q = "global"
      <3>2. CoTo(t, G, L, Q, W - 1, A, N, B, "c_global", [then |-> X, raised |-> Y])
        BY <1>4, <1>6, <1>7, <1>11, <2>1, <2>2 DEF CoTo, Co!CohortGot, Co!Step, Co!At, Co!Go,
           Co!Put, Co!Local, L, Q, W, A, N, B, G, X, Y
      <3>11. CoArgs(G, L, Q, W - 1, A, N, B, "c_global", [then |-> X, raised |-> Y])
        BY <1>0, <1>2, <2>1, <2>2 DEF CoArgs, CoLabels, CoAcquiring, CoOwning, CoReleasing,
           CoTrying, CoReading
      <3>12. CoThen("c_global", X) /\ CoTakes(t, L, "c_global") /\ CoTakesAll(t, G, Q, "c_global")
        BY <1>0, <1>2, <1>3, <2>1, <2>2
        DEF CoThen, CoCounts, CoIn, CoAcquiring, CoReleasing, CoTrying, CoReading, CoTakes,
        CoLocal, CoOwning,
            CoTakesAll, CoGlobal, G, L
      <3>13. CoAcquires(t, L, Q, A, "c_global") /\ CoReads(t, N, "c_global", X)
        BY <1>0, <1>2, <1>3, <2>1, <2>2
        DEF CoAcquires, CoRested, CoHeld, CoLocal, CoOwning, CoReads, CoThen, CoCounts, CoIn,
        CoReleasing,
            CoAcquiring, CoTrying, CoGlobal, Q, A, N, X, G
      <3> QED BY <1>8, <3>2, <3>11, <3>12, <3>13
    <2>3. CASE Q # "global"
      <3>2. CoTo(t, G, L, Q, W - 1, A, N, B, "c_count", [then |-> X, raised |-> Y])
        BY <1>4, <1>6, <1>7, <1>11, <2>1, <2>3 DEF CoTo, Co!CohortGot, Co!Step, Co!At, Co!Go,
           Co!Put, Co!Local, L, Q, W, A, N, B, G, X, Y
      <3>11. CoArgs(G, L, Q, W - 1, A, N, B, "c_count", [then |-> X, raised |-> Y])
        BY <1>0, <1>2, <2>1, <2>3 DEF CoArgs, CoLabels, CoAcquiring, CoOwning, CoReleasing,
           CoTrying, CoReading
      <3>12. CoThen("c_count", X) /\ CoTakes(t, L, "c_count") /\ CoTakesAll(t, G, Q, "c_count")
        BY <1>0, <1>2, <1>3, <2>1, <2>3
        DEF CoThen, CoCounts, CoIn, CoAcquiring, CoReleasing, CoTrying, CoReading, CoTakes,
        CoLocal, CoOwning,
            CoTakesAll, CoGlobal, G, L
      <3>13. CoAcquires(t, L, Q, A, "c_count") /\ CoReads(t, N, "c_count", X)
        BY <1>0, <1>2, <1>3, <2>1, <2>3
        DEF CoAcquires, CoRested, CoHeld, CoLocal, CoOwning, CoReads, CoThen, CoCounts, CoIn,
        CoReleasing,
            CoAcquiring, CoTrying, CoGlobal, Q, A, N, X, G
      <3> QED BY <1>8, <3>2, <3>11, <3>12, <3>13
    <2> QED BY <1>2, <2>1, <2>2, <2>3
  <1>12. CASE Co!CohortGlobal(t)
    <2>1. pc[t] = "c_global" /\ G = NULL
      BY <1>12 DEF Co!CohortGlobal, Co!Step, Co!At, Co!Go, Co!Put, Co!Local, L, Q, W, A, N, B, G,
         X, Y
    <2>2. CoTo(t, C, L, Q, W, A, N, B, "c_count", [then |-> X, raised |-> Y])
      BY <1>4, <1>6, <1>7, <1>12, <2>1 DEF CoTo, Co!CohortGlobal, Co!Step, Co!At, Co!Go, Co!Put,
         Co!Local, L, Q, W, A, N, B, G, X, Y
    <2>11. CoArgs(C, L, Q, W, A, N, B, "c_count", [then |-> X, raised |-> Y])
      BY <1>0, <1>2, <2>1 DEF CoArgs, CoLabels, CoAcquiring, CoOwning, CoReleasing, CoTrying,
         CoReading
    <2>12. CoThen("c_count", X) /\ CoTakes(t, L, "c_count") /\ CoTakesAll(t, C, Q, "c_count")
      BY <1>0, <1>2, <1>3, <2>1
      DEF CoThen, CoCounts, CoIn, CoAcquiring, CoReleasing, CoTrying, CoReading, CoTakes,
      CoLocal, CoOwning,
          CoTakesAll, CoGlobal, G, L
    <2>13. CoAcquires(t, L, Q, A, "c_count") /\ CoReads(t, N, "c_count", X)
      BY <1>0, <1>2, <1>3, <2>1
      DEF CoAcquires, CoRested, CoHeld, CoLocal, CoOwning, CoReads, CoThen, CoCounts, CoIn,
      CoReleasing,
          CoAcquiring, CoTrying, CoGlobal, Q, A, N, X, G
    <2> QED BY <1>8, <2>2, <2>11, <2>12, <2>13
  <1>13. CASE Co!CohortCount(t)
    <2>1. pc[t] = "c_count" /\ X \in {"wr", "w_readers", "w_drain", "r_locked"}
      BY <1>3, <1>13 DEF CoThen, CoAcquiring, Co!CohortCount, Co!Step, Co!At, Co!Go, Co!Put,
         Co!Local, L, Q, W, A, N, B, G, X, Y
    <2>2. CASE X = "wr"
      <3>2. CoTo(t, G, L, Q, W, A + 1, N, B, "wr", [then |-> X, raised |-> Y])
        BY <1>4, <1>6, <1>7, <1>13, <2>1, <2>2 DEF CoTo, Co!CohortCount, Co!Step, Co!At, Co!Go,
           Co!Put, Co!Local, L, Q, W, A, N, B, G, X, Y
      <3>11. CoArgs(G, L, Q, W, A + 1, N, B, "wr", [then |-> X, raised |-> Y])
        BY <1>0, <1>2, <2>1, <2>2 DEF CoArgs, CoLabels, CoAcquiring, CoOwning, CoReleasing,
           CoTrying, CoReading
      <3>12. CoThen("wr", X) /\ CoTakes(t, L, "wr") /\ CoTakesAll(t, G, Q, "wr")
        BY <1>0, <1>2, <1>3, <2>1, <2>2
        DEF CoThen, CoCounts, CoIn, CoAcquiring, CoReleasing, CoTrying, CoReading, CoTakes,
        CoLocal, CoOwning,
            CoTakesAll, CoGlobal, G, L
      <3>13. CoAcquires(t, L, Q, A + 1, "wr") /\ CoReads(t, N, "wr", X)
        BY <1>0, <1>2, <1>3, <2>1, <2>2
        DEF CoAcquires, CoRested, CoHeld, CoLocal, CoOwning, CoReads, CoThen, CoCounts, CoIn,
        CoReleasing,
            CoAcquiring, CoTrying, CoGlobal, Q, A, N, X, G
      <3> QED BY <1>8, <3>2, <3>11, <3>12, <3>13
    <2>3. CASE X = "w_readers"
      <3>2. CoTo(t, G, L, Q, W, A + 1, N, B, "w_readers", [then |-> X, raised |-> Y])
        BY <1>4, <1>6, <1>7, <1>13, <2>1, <2>3 DEF CoTo, Co!CohortCount, Co!Step, Co!At, Co!Go,
           Co!Put, Co!Local, L, Q, W, A, N, B, G, X, Y
      <3>11. CoArgs(G, L, Q, W, A + 1, N, B, "w_readers", [then |-> X, raised |-> Y])
        BY <1>0, <1>2, <2>1, <2>3 DEF CoArgs, CoLabels, CoAcquiring, CoOwning, CoReleasing,
           CoTrying, CoReading
      <3>12. CoThen("w_readers", X) /\ CoTakes(t, L, "w_readers")
               /\ CoTakesAll(t, G, Q, "w_readers")
        BY <1>0, <1>2, <1>3, <2>1, <2>3
        DEF CoThen, CoCounts, CoIn, CoAcquiring, CoReleasing, CoTrying, CoReading, CoTakes,
        CoLocal, CoOwning,
            CoTakesAll, CoGlobal, G, L
      <3>13. CoAcquires(t, L, Q, A + 1, "w_readers") /\ CoReads(t, N, "w_readers", X)
        BY <1>0, <1>2, <1>3, <2>1, <2>3
        DEF CoAcquires, CoRested, CoHeld, CoLocal, CoOwning, CoReads, CoThen, CoCounts, CoIn,
        CoReleasing,
            CoAcquiring, CoTrying, CoGlobal, Q, A, N, X, G
      <3> QED BY <1>8, <3>2, <3>11, <3>12, <3>13
    <2>4. CASE X = "w_drain"
      <3>2. CoTo(t, G, L, Q, W, A + 1, N, B, "w_drain", [then |-> X, raised |-> Y])
        BY <1>4, <1>6, <1>7, <1>13, <2>1, <2>4 DEF CoTo, Co!CohortCount, Co!Step, Co!At, Co!Go,
           Co!Put, Co!Local, L, Q, W, A, N, B, G, X, Y
      <3>11. CoArgs(G, L, Q, W, A + 1, N, B, "w_drain", [then |-> X, raised |-> Y])
        BY <1>0, <1>2, <2>1, <2>4 DEF CoArgs, CoLabels, CoAcquiring, CoOwning, CoReleasing,
           CoTrying, CoReading
      <3>12. CoThen("w_drain", X) /\ CoTakes(t, L, "w_drain") /\ CoTakesAll(t, G, Q, "w_drain")
        BY <1>0, <1>2, <1>3, <2>1, <2>4
        DEF CoThen, CoCounts, CoIn, CoAcquiring, CoReleasing, CoTrying, CoReading, CoTakes,
        CoLocal, CoOwning,
            CoTakesAll, CoGlobal, G, L
      <3>13. CoAcquires(t, L, Q, A + 1, "w_drain") /\ CoReads(t, N, "w_drain", X)
        BY <1>0, <1>2, <1>3, <2>1, <2>4
        DEF CoAcquires, CoRested, CoHeld, CoLocal, CoOwning, CoReads, CoThen, CoCounts, CoIn,
        CoReleasing,
            CoAcquiring, CoTrying, CoGlobal, Q, A, N, X, G
      <3> QED BY <1>8, <3>2, <3>11, <3>12, <3>13
    <2>5. CASE X = "r_locked"
      <3>2. CoTo(t, G, L, Q, W, A + 1, N, B, "r_locked", [then |-> X, raised |-> Y])
        BY <1>4, <1>6, <1>7, <1>13, <2>1, <2>5 DEF CoTo, Co!CohortCount, Co!Step, Co!At, Co!Go,
           Co!Put, Co!Local, L, Q, W, A, N, B, G, X, Y
      <3>11. CoArgs(G, L, Q, W, A + 1, N, B, "r_locked", [then |-> X, raised |-> Y])
        BY <1>0, <1>2, <2>1, <2>5 DEF CoArgs, CoLabels, CoAcquiring, CoOwning, CoReleasing,
           CoTrying, CoReading
      <3>12. CoThen("r_locked", X) /\ CoTakes(t, L, "r_locked") /\ CoTakesAll(t, G, Q, "r_locked")
        BY <1>0, <1>2, <1>3, <2>1, <2>5
        DEF CoThen, CoCounts, CoIn, CoAcquiring, CoReleasing, CoTrying, CoReading, CoTakes,
        CoLocal, CoOwning,
            CoTakesAll, CoGlobal, G, L
      <3>13. CoAcquires(t, L, Q, A + 1, "r_locked") /\ CoReads(t, N, "r_locked", X)
        BY <1>0, <1>2, <1>3, <2>1, <2>5
        DEF CoAcquires, CoRested, CoHeld, CoLocal, CoOwning, CoReads, CoThen, CoCounts, CoIn,
        CoReleasing,
            CoAcquiring, CoTrying, CoGlobal, Q, A, N, X, G
      <3> QED BY <1>8, <3>2, <3>11, <3>12, <3>13
    <2> QED BY <1>2, <2>1, <2>2, <2>3, <2>4, <2>5
  <1>14. CASE Co!CohortUnlock(t)
    <2>1. pc[t] = "c_unlock"
      BY <1>14 DEF Co!CohortUnlock, Co!Step, Co!At, Co!Go, Co!Put, Co!Local, L, Q, W, A, N, B, G,
         X, Y
    <2>2. CASE W > 0 /\ A < PassLimit
      <3>2. CoTo(t, G, L, "local", W, A, N, B, "c_release", [then |-> X, raised |-> Y])
        BY <1>4, <1>6, <1>7, <1>14, <2>1, <2>2 DEF CoTo, Co!CohortUnlock, Co!Step, Co!At, Co!Go,
           Co!Put, Co!Local, L, Q, W, A, N, B, G, X, Y
      <3>11. CoArgs(G, L, "local", W, A, N, B, "c_release", [then |-> X, raised |-> Y])
        BY <1>0, <1>2, <2>1, <2>2 DEF CoArgs, CoLabels, CoAcquiring, CoOwning, CoReleasing,
           CoTrying, CoReading
      <3>12. CoThen("c_release", X) /\ CoTakes(t, L, "c_release")
               /\ CoTakesAll(t, G, "local", "c_release")
        BY <1>0, <1>2, <1>3, <2>1, <2>2
        DEF CoThen, CoCounts, CoIn, CoAcquiring, CoReleasing, CoTrying, CoReading, CoTakes,
        CoLocal, CoOwning,
            CoTakesAll, CoGlobal, G, L
      <3>13. CoAcquires(t, L, "local", A, "c_release") /\ CoReads(t, N, "c_release", X)
        BY <1>0, <1>2, <1>3, <2>1, <2>2
        DEF CoAcquires, CoRested, CoHeld, CoLocal, CoOwning, CoReads, CoThen, CoCounts, CoIn,
        CoReleasing,
            CoAcquiring, CoTrying, CoGlobal, Q, A, N, X, G
      <3> QED BY <1>8, <3>2, <3>11, <3>12, <3>13
    <2>3. CASE ~(W > 0 /\ A < PassLimit)
      <3>2. CoTo(t, G, L, Q, W, A, N, B, "c_all", [then |-> X, raised |-> Y])
        BY <1>4, <1>6, <1>7, <1>14, <2>1, <2>3 DEF CoTo, Co!CohortUnlock, Co!Step, Co!At, Co!Go,
           Co!Put, Co!Local, L, Q, W, A, N, B, G, X, Y
      <3>11. CoArgs(G, L, Q, W, A, N, B, "c_all", [then |-> X, raised |-> Y])
        BY <1>0, <1>2, <2>1, <2>3 DEF CoArgs, CoLabels, CoAcquiring, CoOwning, CoReleasing,
           CoTrying, CoReading
      <3>12. CoThen("c_all", X) /\ CoTakes(t, L, "c_all") /\ CoTakesAll(t, G, Q, "c_all")
        BY <1>0, <1>2, <1>3, <2>1, <2>3
        DEF CoThen, CoCounts, CoIn, CoAcquiring, CoReleasing, CoTrying, CoReading, CoTakes,
        CoLocal, CoOwning,
            CoTakesAll, CoGlobal, G, L
      <3>13. CoAcquires(t, L, Q, A, "c_all") /\ CoReads(t, N, "c_all", X)
        BY <1>0, <1>2, <1>3, <2>1, <2>3
        DEF CoAcquires, CoRested, CoHeld, CoLocal, CoOwning, CoReads, CoThen, CoCounts, CoIn,
        CoReleasing,
            CoAcquiring, CoTrying, CoGlobal, Q, A, N, X, G
      <3> QED BY <1>8, <3>2, <3>11, <3>12, <3>13
    <2> QED BY <1>2, <2>1, <2>2, <2>3
  <1>15. CASE Co!CohortUnlockAll(t)
    <2>1. pc[t] = "c_all"
      BY <1>15 DEF Co!CohortUnlockAll, Co!Step, Co!At, Co!Go, Co!Put, Co!Local, L, Q, W, A, N, B,
         G, X, Y
    <2>2. CoTo(t, NULL, L, "global", W, 0, N, B, "c_release", [then |-> X, raised |-> Y])
      <3>1. m' = [m EXCEPT !.global = NULL, !.release[C] = "global", !.acquired[C] = 0]
        BY <1>15 DEF Co!CohortUnlockAll
      <3>2. m' = [m EXCEPT !.global = NULL, !.release = [m.release EXCEPT ![C] = "global"],
                           !.acquired = [m.acquired EXCEPT ![C] = 0]]
        BY <1>1, <3>1
      <3>3. m' = CoMemory(t, NULL, L, "global", W, 0, N, B)
        BY <1>1, <1>5, <3>2 DEF CoMemory, N, B
      <3> QED BY <1>4, <1>15, <3>3 DEF CoTo, Co!CohortUnlockAll, Co!Step, Co!Go, X, Y
    <2>11. CoArgs(NULL, L, "global", W, 0, N, B, "c_release", [then |-> X, raised |-> Y])
      BY <1>0, <1>2, <2>1 DEF CoArgs, CoLabels, CoAcquiring, CoOwning, CoReleasing, CoTrying,
         CoReading
    <2>12. CoThen("c_release", X) /\ CoTakes(t, L, "c_release")
             /\ CoTakesAll(t, NULL, "global", "c_release")
      BY <1>0, <1>2, <1>3, <2>1
      DEF CoThen, CoCounts, CoIn, CoAcquiring, CoReleasing, CoTrying, CoReading, CoTakes,
      CoLocal, CoOwning,
          CoTakesAll, CoGlobal, G, L
    <2>13. CoAcquires(t, L, "global", 0, "c_release") /\ CoReads(t, N, "c_release", X)
      BY <1>0, <1>2, <1>3, <2>1
      DEF CoAcquires, CoRested, CoHeld, CoLocal, CoOwning, CoReads, CoThen, CoCounts, CoIn,
      CoReleasing,
          CoAcquiring, CoTrying, CoGlobal, Q, A, N, X, G
    <2> QED BY <1>8, <2>2, <2>11, <2>12, <2>13
  <1>16. CASE Co!CohortRelease(t)
    <2>1. pc[t] = "c_release"
      BY <1>16 DEF Co!CohortRelease, Co!Step, Co!At, Co!Go, Co!Put, Co!Local, L, Q, W, A, N, B,
         G, X, Y
    <2>2. CASE X = "w_readers"
      <3>2. CoTo(t, G, NULL, Q, W, A, N, B, "w_poll", [then |-> X, raised |-> Y])
        BY <1>4, <1>6, <1>7, <1>16, <2>1, <2>2 DEF CoTo, Co!CohortRelease, Co!Step, Co!At, Co!Go,
           Co!Put, Co!Local, L, Q, W, A, N, B, G, X, Y
      <3>11. CoArgs(G, NULL, Q, W, A, N, B, "w_poll", [then |-> X, raised |-> Y])
        BY <1>0, <1>2, <2>1, <2>2 DEF CoArgs, CoLabels, CoAcquiring, CoOwning, CoReleasing,
           CoTrying, CoReading
      <3>12. CoThen("w_poll", X) /\ CoTakes(t, NULL, "w_poll") /\ CoTakesAll(t, G, Q, "w_poll")
        BY <1>0, <1>2, <1>3, <2>1, <2>2
        DEF CoThen, CoCounts, CoIn, CoAcquiring, CoReleasing, CoTrying, CoReading, CoTakes,
        CoLocal, CoOwning,
            CoTakesAll, CoGlobal, G, L
      <3>13. CoAcquires(t, NULL, Q, A, "w_poll") /\ CoReads(t, N, "w_poll", X)
        BY <1>0, <1>2, <1>3, <2>1, <2>2
        DEF CoAcquires, CoRested, CoHeld, CoLocal, CoOwning, CoReads, CoThen, CoCounts, CoIn,
        CoReleasing,
            CoAcquiring, CoTrying, CoGlobal, Q, A, N, X, G
      <3> QED BY <1>8, <3>2, <3>11, <3>12, <3>13
    <2>3. CASE X = "r_locked"
      <3>2. CoTo(t, G, NULL, Q, W, A, N, B, "rd", [then |-> X, raised |-> Y])
        BY <1>4, <1>6, <1>7, <1>16, <2>1, <2>3 DEF CoTo, Co!CohortRelease, Co!Step, Co!At, Co!Go,
           Co!Put, Co!Local, L, Q, W, A, N, B, G, X, Y
      <3>11. CoArgs(G, NULL, Q, W, A, N, B, "rd", [then |-> X, raised |-> Y])
        BY <1>0, <1>2, <2>1, <2>3 DEF CoArgs, CoLabels, CoAcquiring, CoOwning, CoReleasing,
           CoTrying, CoReading
      <3>12. CoThen("rd", X) /\ CoTakes(t, NULL, "rd") /\ CoTakesAll(t, G, Q, "rd")
        BY <1>0, <1>2, <1>3, <2>1, <2>3
        DEF CoThen, CoCounts, CoIn, CoAcquiring, CoReleasing, CoTrying, CoReading, CoTakes,
        CoLocal, CoOwning,
            CoTakesAll, CoGlobal, G, L
      <3>13. CoAcquires(t, NULL, Q, A, "rd") /\ CoReads(t, N, "rd", X)
        BY <1>0, <1>2, <1>3, <2>1, <2>3
        DEF CoAcquires, CoRested, CoHeld, CoLocal, CoOwning, CoReads, CoThen, CoCounts, CoIn,
        CoReleasing,
            CoAcquiring, CoTrying, CoGlobal, Q, A, N, X, G
      <3> QED BY <1>8, <3>2, <3>11, <3>12, <3>13
    <2>4. CASE X # "w_readers" /\ X # "r_locked"
      <3>2. CoTo(t, G, NULL, Q, W, A, N, B, "idle", [then |-> X, raised |-> Y])
        BY <1>4, <1>6, <1>7, <1>16, <2>1, <2>4 DEF CoTo, Co!CohortRelease, Co!Step, Co!At, Co!Go,
           Co!Put, Co!Local, L, Q, W, A, N, B, G, X, Y
      <3>11. CoArgs(G, NULL, Q, W, A, N, B, "idle", [then |-> X, raised |-> Y])
        BY <1>0, <1>2, <2>1, <2>4 DEF CoArgs, CoLabels, CoAcquiring, CoOwning, CoReleasing,
           CoTrying, CoReading
      <3>12. CoThen("idle", X) /\ CoTakes(t, NULL, "idle") /\ CoTakesAll(t, G, Q, "idle")
        BY <1>0, <1>2, <1>3, <2>1, <2>4
        DEF CoThen, CoCounts, CoIn, CoAcquiring, CoReleasing, CoTrying, CoReading, CoTakes,
        CoLocal, CoOwning,
            CoTakesAll, CoGlobal, G, L
      <3>13. CoAcquires(t, NULL, Q, A, "idle") /\ CoReads(t, N, "idle", X)
        BY <1>0, <1>2, <1>3, <2>1, <2>4
        DEF CoAcquires, CoRested, CoHeld, CoLocal, CoOwning, CoReads, CoThen, CoCounts, CoIn,
        CoReleasing,
            CoAcquiring, CoTrying, CoGlobal, Q, A, N, X, G
      <3> QED BY <1>8, <3>2, <3>11, <3>12, <3>13
    <2> QED BY <1>2, <2>1, <2>2, <2>3, <2>4
  <1>17. CASE Co!Trylock(t)
    <2>1. pc[t] = "idle" /\ m.policy = "cohort"
      BY <1>17 DEF Co!Trylock, Co!Step, Co!At, Co!Go, Co!Put, Co!Local, L, Q, W, A, N, B, G, X, Y
    <2>2. CoTo(t, G, L, Q, W + 1, A, N, B, "t_local", [then |-> "wr", raised |-> Y])
      BY <1>4, <1>6, <1>7, <1>17, <2>1 DEF CoTo, Co!Trylock, Co!Step, Co!At, Co!Go, Co!Put,
         Co!Local, L, Q, W, A, N, B, G, X, Y
    <2>11. CoArgs(G, L, Q, W + 1, A, N, B, "t_local", [then |-> "wr", raised |-> Y])
      BY <1>0, <1>2, <2>1 DEF CoArgs, CoLabels, CoAcquiring, CoOwning, CoReleasing, CoTrying,
         CoReading
    <2>12. CoThen("t_local", "wr") /\ CoTakes(t, L, "t_local") /\ CoTakesAll(t, G, Q, "t_local")
      BY <1>0, <1>2, <1>3, <2>1
      DEF CoThen, CoCounts, CoIn, CoAcquiring, CoReleasing, CoTrying, CoReading, CoTakes,
      CoLocal, CoOwning,
          CoTakesAll, CoGlobal, G, L
    <2>13. CoAcquires(t, L, Q, A, "t_local") /\ CoReads(t, N, "t_local", "wr")
      BY <1>0, <1>2, <1>3, <2>1
      DEF CoAcquires, CoRested, CoHeld, CoLocal, CoOwning, CoReads, CoThen, CoCounts, CoIn,
      CoReleasing,
          CoAcquiring, CoTrying, CoGlobal, Q, A, N, X, G
    <2> QED BY <1>8, <2>2, <2>11, <2>12, <2>13
  <1>18. CASE Co!TryLocal(t)
    <2>1. pc[t] = "t_local"
      BY <1>18 DEF Co!TryLocal, Co!Step, Co!At, Co!Go, Co!Put, Co!Local, L, Q, W, A, N, B, G, X, Y
    <2>2. CASE L = NULL
      <3>2. CoTo(t, G, t, Q, W, A, N, B, "t_got", [then |-> X, raised |-> Y])
        BY <1>4, <1>6, <1>7, <1>18, <2>1, <2>2 DEF CoTo, Co!TryLocal, Co!Step, Co!At, Co!Go,
           Co!Put, Co!Local, L, Q, W, A, N, B, G, X, Y
      <3>11. CoArgs(G, t, Q, W, A, N, B, "t_got", [then |-> X, raised |-> Y])
        BY <1>0, <1>2, <2>1, <2>2 DEF CoArgs, CoLabels, CoAcquiring, CoOwning, CoReleasing,
           CoTrying, CoReading
      <3>12. CoThen("t_got", X) /\ CoTakes(t, t, "t_got") /\ CoTakesAll(t, G, Q, "t_got")
        BY <1>0, <1>2, <1>3, <2>1, <2>2
        DEF CoThen, CoCounts, CoIn, CoAcquiring, CoReleasing, CoTrying, CoReading, CoTakes,
        CoLocal, CoOwning,
            CoTakesAll, CoGlobal, G, L
      <3>13. CoAcquires(t, t, Q, A, "t_got") /\ CoReads(t, N, "t_got", X)
        BY <1>0, <1>2, <1>3, <2>1, <2>2
        DEF CoAcquires, CoRested, CoHeld, CoLocal, CoOwning, CoReads, CoThen, CoCounts, CoIn,
        CoReleasing,
            CoAcquiring, CoTrying, CoGlobal, Q, A, N, X, G
      <3> QED BY <1>8, <3>2, <3>11, <3>12, <3>13
    <2>3. CASE L # NULL
      <3>2. CoTo(t, G, L, Q, W, A, N, B, "t_failed", [then |-> X, raised |-> Y])
        BY <1>4, <1>6, <1>7, <1>18, <2>1, <2>3 DEF CoTo, Co!TryLocal, Co!Step, Co!At, Co!Go,
           Co!Put, Co!Local, L, Q, W, A, N, B, G, X, Y
      <3>11. CoArgs(G, L, Q, W, A, N, B, "t_failed", [then |-> X, raised |-> Y])
        BY <1>0, <1>2, <2>1, <2>3 DEF CoArgs, CoLabels, CoAcquiring, CoOwning, CoReleasing,
           CoTrying, CoReading
      <3>12. CoThen("t_failed", X) /\ CoTakes(t, L, "t_failed") /\ CoTakesAll(t, G, Q, "t_failed")
        BY <1>0, <1>2, <1>3, <2>1, <2>3
        DEF CoThen, CoCounts, CoIn, CoAcquiring, CoReleasing, CoTrying, CoReading, CoTakes,
        CoLocal, CoOwning,
            CoTakesAll, CoGlobal, G, L
      <3>13. CoAcquires(t, L, Q, A, "t_failed") /\ CoReads(t, N, "t_failed", X)
        BY <1>0, <1>2, <1>3, <2>1, <2>3
        DEF CoAcquires, CoRested, CoHeld, CoLocal, CoOwning, CoReads, CoThen, CoCounts, CoIn,
        CoReleasing,
            CoAcquiring, CoTrying, CoGlobal, Q, A, N, X, G
      <3> QED BY <1>8, <3>2, <3>11, <3>12, <3>13
    <2> QED BY <1>2, <2>1, <2>2, <2>3
  <1>19. CASE Co!TryGot(t)
    <2>1. pc[t] \in {"t_got", "t_failed"}
      BY <1>19 DEF Co!TryGot, Co!Step, Co!At, Co!Go, Co!Put, Co!Local, L, Q, W, A, N, B, G, X, Y
    <2>2. CASE pc[t] = "t_failed"
      <3>2. CoTo(t, G, L, Q, W - 1, A, N, B, "idle", [then |-> X, raised |-> Y])
        BY <1>4, <1>6, <1>7, <1>19, <2>1, <2>2 DEF CoTo, Co!TryGot, Co!Step, Co!At, Co!Go,
           Co!Put, Co!Local, L, Q, W, A, N, B, G, X, Y
      <3>11. CoArgs(G, L, Q, W - 1, A, N, B, "idle", [then |-> X, raised |-> Y])
        BY <1>0, <1>2, <2>1, <2>2 DEF CoArgs, CoLabels, CoAcquiring, CoOwning, CoReleasing,
           CoTrying, CoReading
      <3>12. CoThen("idle", X) /\ CoTakes(t, L, "idle") /\ CoTakesAll(t, G, Q, "idle")
        BY <1>0, <1>2, <1>3, <2>1, <2>2
        DEF CoThen, CoCounts, CoIn, CoAcquiring, CoReleasing, CoTrying, CoReading, CoTakes,
        CoLocal, CoOwning,
            CoTakesAll, CoGlobal, G, L
      <3>13. CoAcquires(t, L, Q, A, "idle") /\ CoReads(t, N, "idle", X)
        BY <1>0, <1>2, <1>3, <2>1, <2>2
        DEF CoAcquires, CoRested, CoHeld, CoLocal, CoOwning, CoReads, CoThen, CoCounts, CoIn,
        CoReleasing,
            CoAcquiring, CoTrying, CoGlobal, Q, A, N, X, G
      <3> QED BY <1>8, <3>2, <3>11, <3>12, <3>13
    <2>3. CASE pc[t] = "t_got" /\ Q = "global"
      <3>2. CoTo(t, G, L, Q, W - 1, A, N, B, "t_global", [then |-> X, raised |-> Y])
        BY <1>4, <1>6, <1>7, <1>19, <2>1, <2>3 DEF CoTo, Co!TryGot, Co!Step, Co!At, Co!Go,
           Co!Put, Co!Local, L, Q, W, A, N, B, G, X, Y
      <3>11. CoArgs(G, L, Q, W - 1, A, N, B, "t_global", [then |-> X, raised |-> Y])
        BY <1>0, <1>2, <2>1, <2>3 DEF CoArgs, CoLabels, CoAcquiring, CoOwning, CoReleasing,
           CoTrying, CoReading
      <3>12. CoThen("t_global", X) /\ CoTakes(t, L, "t_global") /\ CoTakesAll(t, G, Q, "t_global")
        BY <1>0, <1>2, <1>3, <2>1, <2>3
        DEF CoThen, CoCounts, CoIn, CoAcquiring, CoReleasing, CoTrying, CoReading, CoTakes,
        CoLocal, CoOwning,
            CoTakesAll, CoGlobal, G, L
      <3>13. CoAcquires(t, L, Q, A, "t_global") /\ CoReads(t, N, "t_global", X)
        BY <1>0, <1>2, <1>3, <2>1, <2>3
        DEF CoAcquires, CoRested, CoHeld, CoLocal, CoOwning, CoReads, CoThen, CoCounts, CoIn,
        CoReleasing,
            CoAcquiring, CoTrying, CoGlobal, Q, A, N, X, G
      <3> QED BY <1>8, <3>2, <3>11, <3>12, <3>13
    <2>4. CASE pc[t] = "t_got" /\ Q # "global"
      <3>2. CoTo(t, G, L, Q, W - 1, A, N, B, "t_count", [then |-> X, raised |-> Y])
        BY <1>4, <1>6, <1>7, <1>19, <2>1, <2>4 DEF CoTo, Co!TryGot, Co!Step, Co!At, Co!Go,
           Co!Put, Co!Local, L, Q, W, A, N, B, G, X, Y
      <3>11. CoArgs(G, L, Q, W - 1, A, N, B, "t_count", [then |-> X, raised |-> Y])
        BY <1>0, <1>2, <2>1, <2>4 DEF CoArgs, CoLabels, CoAcquiring, CoOwning, CoReleasing,
           CoTrying, CoReading
      <3>12. CoThen("t_count", X) /\ CoTakes(t, L, "t_count") /\ CoTakesAll(t, G, Q, "t_count")
        BY <1>0, <1>2, <1>3, <2>1, <2>4
        DEF CoThen, CoCounts, CoIn, CoAcquiring, CoReleasing, CoTrying, CoReading, CoTakes,
        CoLocal, CoOwning,
            CoTakesAll, CoGlobal, G, L
      <3>13. CoAcquires(t, L, Q, A, "t_count") /\ CoReads(t, N, "t_count", X)
        BY <1>0, <1>2, <1>3, <2>1, <2>4
        DEF CoAcquires, CoRested, CoHeld, CoLocal, CoOwning, CoReads, CoThen, CoCounts, CoIn,
        CoReleasing,
            CoAcquiring, CoTrying, CoGlobal, Q, A, N, X, G
      <3> QED BY <1>8, <3>2, <3>11, <3>12, <3>13
    <2> QED BY <1>2, <2>1, <2>2, <2>3, <2>4
  <1>20. CASE Co!TryGlobal(t)
    <2>1. pc[t] = "t_global"
      BY <1>20 DEF Co!TryGlobal, Co!Step, Co!At, Co!Go, Co!Put, Co!Local, L, Q, W, A, N, B, G, X, Y
    <2>2. CASE G = NULL
      <3>2. CoTo(t, C, L, Q, W, A, N, B, "t_count", [then |-> X, raised |-> Y])
        BY <1>4, <1>6, <1>7, <1>20, <2>1, <2>2 DEF CoTo, Co!TryGlobal, Co!Step, Co!At, Co!Go,
           Co!Put, Co!Local, L, Q, W, A, N, B, G, X, Y
      <3>11. CoArgs(C, L, Q, W, A, N, B, "t_count", [then |-> X, raised |-> Y])
        BY <1>0, <1>2, <2>1, <2>2 DEF CoArgs, CoLabels, CoAcquiring, CoOwning, CoReleasing,
           CoTrying, CoReading
      <3>12. CoThen("t_count", X) /\ CoTakes(t, L, "t_count") /\ CoTakesAll(t, C, Q, "t_count")
        BY <1>0, <1>2, <1>3, <2>1, <2>2
        DEF CoThen, CoCounts, CoIn, CoAcquiring, CoReleasing, CoTrying, CoReading, CoTakes,
        CoLocal, CoOwning,
            CoTakesAll, CoGlobal, G, L
      <3>13. CoAcquires(t, L, Q, A, "t_count") /\ CoReads(t, N, "t_count", X)
        BY <1>0, <1>2, <1>3, <2>1, <2>2
        DEF CoAcquires, CoRested, CoHeld, CoLocal, CoOwning, CoReads, CoThen, CoCounts, CoIn,
        CoReleasing,
            CoAcquiring, CoTrying, CoGlobal, Q, A, N, X, G
      <3> QED BY <1>8, <3>2, <3>11, <3>12, <3>13
    <2>3. CASE G # NULL
      <3>2. CoTo(t, G, L, Q, W, A, N, B, "t_undo", [then |-> X, raised |-> Y])
        BY <1>4, <1>6, <1>7, <1>20, <2>1, <2>3 DEF CoTo, Co!TryGlobal, Co!Step, Co!At, Co!Go,
           Co!Put, Co!Local, L, Q, W, A, N, B, G, X, Y
      <3>11. CoArgs(G, L, Q, W, A, N, B, "t_undo", [then |-> X, raised |-> Y])
        BY <1>0, <1>2, <2>1, <2>3 DEF CoArgs, CoLabels, CoAcquiring, CoOwning, CoReleasing,
           CoTrying, CoReading
      <3>12. CoThen("t_undo", X) /\ CoTakes(t, L, "t_undo") /\ CoTakesAll(t, G, Q, "t_undo")
        BY <1>0, <1>2, <1>3, <2>1, <2>3
        DEF CoThen, CoCounts, CoIn, CoAcquiring, CoReleasing, CoTrying, CoReading, CoTakes,
        CoLocal, CoOwning,
            CoTakesAll, CoGlobal, G, L
      <3>13. CoAcquires(t, L, Q, A, "t_undo") /\ CoReads(t, N, "t_undo", X)
        BY <1>0, <1>2, <1>3, <2>1, <2>3
        DEF CoAcquires, CoRested, CoHeld, CoLocal, CoOwning, CoReads, CoThen, CoCounts, CoIn,
        CoReleasing,
            CoAcquiring, CoTrying, CoGlobal, Q, A, N, X, G
      <3> QED BY <1>8, <3>2, <3>11, <3>12, <3>13
    <2> QED BY <1>2, <2>1, <2>2, <2>3
  <1>21. CASE Co!TryUndo(t)
    <2>1. pc[t] = "t_undo"
      BY <1>21 DEF Co!TryUndo, Co!Step, Co!At, Co!Go, Co!Put, Co!Local, L, Q, W, A, N, B, G, X, Y
    <2>2. CoTo(t, G, NULL, Q, W, A, N, B, "idle", [then |-> X, raised |-> Y])
      BY <1>4, <1>6, <1>7, <1>21, <2>1 DEF CoTo, Co!TryUndo, Co!Step, Co!At, Co!Go, Co!Put,
         Co!Local, L, Q, W, A, N, B, G, X, Y
    <2>11. CoArgs(G, NULL, Q, W, A, N, B, "idle", [then |-> X, raised |-> Y])
      BY <1>0, <1>2, <2>1 DEF CoArgs, CoLabels, CoAcquiring, CoOwning, CoReleasing, CoTrying,
         CoReading
    <2>12. CoThen("idle", X) /\ CoTakes(t, NULL, "idle") /\ CoTakesAll(t, G, Q, "idle")
      BY <1>0, <1>2, <1>3, <2>1
      DEF CoThen, CoCounts, CoIn, CoAcquiring, CoReleasing, CoTrying, CoReading, CoTakes,
      CoLocal, CoOwning,
          CoTakesAll, CoGlobal, G, L
    <2>13. CoAcquires(t, NULL, Q, A, "idle") /\ CoReads(t, N, "idle", X)
      BY <1>0, <1>2, <1>3, <2>1
      DEF CoAcquires, CoRested, CoHeld, CoLocal, CoOwning, CoReads, CoThen, CoCounts, CoIn,
      CoReleasing,
          CoAcquiring, CoTrying, CoGlobal, Q, A, N, X, G
    <2> QED BY <1>8, <2>2, <2>11, <2>12, <2>13
  <1>22. CASE Co!TryCount(t)
    <2>1. pc[t] = "t_count"
      BY <1>22 DEF Co!TryCount, Co!Step, Co!At, Co!Go, Co!Put, Co!Local, L, Q, W, A, N, B, G, X, Y
    <2>2. CoTo(t, G, L, Q, W, A + 1, N, B, "wr", [then |-> X, raised |-> Y])
      BY <1>4, <1>6, <1>7, <1>22, <2>1 DEF CoTo, Co!TryCount, Co!Step, Co!At, Co!Go, Co!Put,
         Co!Local, L, Q, W, A, N, B, G, X, Y
    <2>11. CoArgs(G, L, Q, W, A + 1, N, B, "wr", [then |-> X, raised |-> Y])
      BY <1>0, <1>2, <2>1 DEF CoArgs, CoLabels, CoAcquiring, CoOwning, CoReleasing, CoTrying,
         CoReading
    <2>12. CoThen("wr", X) /\ CoTakes(t, L, "wr") /\ CoTakesAll(t, G, Q, "wr")
      BY <1>0, <1>2, <1>3, <2>1
      DEF CoThen, CoCounts, CoIn, CoAcquiring, CoReleasing, CoTrying, CoReading, CoTakes,
      CoLocal, CoOwning,
          CoTakesAll, CoGlobal, G, L
    <2>13. CoAcquires(t, L, Q, A + 1, "wr") /\ CoReads(t, N, "wr", X)
      BY <1>0, <1>2, <1>3, <2>1
      DEF CoAcquires, CoRested, CoHeld, CoLocal, CoOwning, CoReads, CoThen, CoCounts, CoIn,
      CoReleasing,
          CoAcquiring, CoTrying, CoGlobal, Q, A, N, X, G
    <2> QED BY <1>8, <2>2, <2>11, <2>12, <2>13
  <1>23. CASE Co!WriteLock(t)
    <2>1. pc[t] = "idle"
      BY <1>23 DEF Co!WriteLock, Co!Step, Co!At, Co!Go, Co!Put, Co!Local, L, Q, W, A, N, B, G, X, Y
    <2>2. CASE m.policy = "cohort"
      <3>1. r' = [r EXCEPT ![t] = [then |-> "wr", raised |-> FALSE]]
              /\ pc' = [pc EXCEPT ![t] = "c_lock"] /\ m' = m
        <4>1. r' = [r EXCEPT ![t] = Co!With(r[t], [then |-> "wr", raised |-> FALSE])]
          BY <1>23, <2>2 DEF Co!WriteLock, Co!Put
        <4>2. pc' = [pc EXCEPT ![t] = "c_lock"] /\ m' = m
          BY <1>23, <2>2 DEF Co!WriteLock, Co!Go, Co!Local
        <4>3. Co!With(r[t], [then |-> "wr", raised |-> FALSE]) = [then |-> "wr", raised |-> FALSE]
          <5>1. r[t] = [then |-> X, raised |-> Y]
            BY <1>1 DEF X, Y
          <5> QED BY <5>1 DEF Co!With
        <4> QED BY <4>1, <4>2, <4>3
      <3>2. CoTo(t, G, L, Q, W, A, N, B, "c_lock", [then |-> "wr", raised |-> FALSE])
        BY <1>6, <3>1 DEF CoTo
      <3>11. CoArgs(G, L, Q, W, A, N, B, "c_lock", [then |-> "wr", raised |-> FALSE])
        BY <1>0, <1>2, <2>1, <2>2 DEF CoArgs, CoLabels, CoAcquiring, CoOwning, CoReleasing,
           CoTrying, CoReading
      <3>12. CoThen("c_lock", "wr") /\ CoTakes(t, L, "c_lock") /\ CoTakesAll(t, G, Q, "c_lock")
        BY <1>0, <1>2, <1>3, <2>1, <2>2
        DEF CoThen, CoCounts, CoIn, CoAcquiring, CoReleasing, CoTrying, CoReading, CoTakes,
        CoLocal, CoOwning,
            CoTakesAll, CoGlobal, G, L
      <3>13. CoAcquires(t, L, Q, A, "c_lock") /\ CoReads(t, N, "c_lock", "wr")
        BY <1>0, <1>2, <1>3, <2>1, <2>2
        DEF CoAcquires, CoRested, CoHeld, CoLocal, CoOwning, CoReads, CoThen, CoCounts, CoIn,
        CoReleasing,
            CoAcquiring, CoTrying, CoGlobal, Q, A, N, X, G
      <3> QED BY <1>8, <3>2, <3>11, <3>12, <3>13
    <2>3. CASE m.policy = "wp"
      <3>1. r' = [r EXCEPT ![t] = [then |-> "w_drain", raised |-> FALSE]]
              /\ pc' = [pc EXCEPT ![t] = "w_barrier"] /\ m' = m
        <4>1. r' = [r EXCEPT ![t] = Co!With(r[t], [then |-> "w_drain", raised |-> FALSE])]
          BY <1>23, <2>3 DEF Co!WriteLock, Co!Put
        <4>2. pc' = [pc EXCEPT ![t] = "w_barrier"] /\ m' = m
          BY <1>23, <2>3 DEF Co!WriteLock, Co!Go, Co!Local
        <4>3. Co!With(r[t], [then |-> "w_drain", raised |-> FALSE]) = [then |-> "w_drain",
                raised |-> FALSE]
          <5>1. r[t] = [then |-> X, raised |-> Y]
            BY <1>1 DEF X, Y
          <5> QED BY <5>1 DEF Co!With
        <4> QED BY <4>1, <4>2, <4>3
      <3>2. CoTo(t, G, L, Q, W, A, N, B, "w_barrier", [then |-> "w_drain", raised |-> FALSE])
        BY <1>6, <3>1 DEF CoTo
      <3>11. CoArgs(G, L, Q, W, A, N, B, "w_barrier", [then |-> "w_drain", raised |-> FALSE])
        BY <1>0, <1>2, <2>1, <2>3 DEF CoArgs, CoLabels, CoAcquiring, CoOwning, CoReleasing,
           CoTrying, CoReading
      <3>12. CoThen("w_barrier", "w_drain") /\ CoTakes(t, L, "w_barrier")
               /\ CoTakesAll(t, G, Q, "w_barrier")
        BY <1>0, <1>2, <1>3, <2>1, <2>3
        DEF CoThen, CoCounts, CoIn, CoAcquiring, CoReleasing, CoTrying, CoReading, CoTakes,
        CoLocal, CoOwning,
            CoTakesAll, CoGlobal, G, L
      <3>13. CoAcquires(t, L, Q, A, "w_barrier") /\ CoReads(t, N, "w_barrier", "w_drain")
        BY <1>0, <1>2, <1>3, <2>1, <2>3
        DEF CoAcquires, CoRested, CoHeld, CoLocal, CoOwning, CoReads, CoThen, CoCounts, CoIn,
        CoReleasing,
            CoAcquiring, CoTrying, CoGlobal, Q, A, N, X, G
      <3> QED BY <1>8, <3>2, <3>11, <3>12, <3>13
    <2>4. CASE m.policy = "rp"
      <3>1. r' = [r EXCEPT ![t] = [then |-> "w_readers", raised |-> FALSE]]
              /\ pc' = [pc EXCEPT ![t] = "c_lock"] /\ m' = m
        <4>1. r' = [r EXCEPT ![t] = Co!With(r[t], [then |-> "w_readers", raised |-> FALSE])]
          BY <1>23, <2>4 DEF Co!WriteLock, Co!Put
        <4>2. pc' = [pc EXCEPT ![t] = "c_lock"] /\ m' = m
          BY <1>23, <2>4 DEF Co!WriteLock, Co!Go, Co!Local
        <4>3. Co!With(r[t], [then |-> "w_readers", raised |-> FALSE]) = [then |-> "w_readers",
                raised |-> FALSE]
          <5>1. r[t] = [then |-> X, raised |-> Y]
            BY <1>1 DEF X, Y
          <5> QED BY <5>1 DEF Co!With
        <4> QED BY <4>1, <4>2, <4>3
      <3>2. CoTo(t, G, L, Q, W, A, N, B, "c_lock", [then |-> "w_readers", raised |-> FALSE])
        BY <1>6, <3>1 DEF CoTo
      <3>11. CoArgs(G, L, Q, W, A, N, B, "c_lock", [then |-> "w_readers", raised |-> FALSE])
        BY <1>0, <1>2, <2>1, <2>4 DEF CoArgs, CoLabels, CoAcquiring, CoOwning, CoReleasing,
           CoTrying, CoReading
      <3>12. CoThen("c_lock", "w_readers") /\ CoTakes(t, L, "c_lock")
               /\ CoTakesAll(t, G, Q, "c_lock")
        BY <1>0, <1>2, <1>3, <2>1, <2>4
        DEF CoThen, CoCounts, CoIn, CoAcquiring, CoReleasing, CoTrying, CoReading, CoTakes,
        CoLocal, CoOwning,
            CoTakesAll, CoGlobal, G, L
      <3>13. CoAcquires(t, L, Q, A, "c_lock") /\ CoReads(t, N, "c_lock", "w_readers")
        BY <1>0, <1>2, <1>3, <2>1, <2>4
        DEF CoAcquires, CoRested, CoHeld, CoLocal, CoOwning, CoReads, CoThen, CoCounts, CoIn,
        CoReleasing,
            CoAcquiring, CoTrying, CoGlobal, Q, A, N, X, G
      <3> QED BY <1>8, <3>2, <3>11, <3>12, <3>13
    <2>5. CASE m.policy = "neutral"
      <3>1. r' = [r EXCEPT ![t] = [then |-> "w_drain", raised |-> FALSE]]
              /\ pc' = [pc EXCEPT ![t] = "c_lock"] /\ m' = m
        <4>1. r' = [r EXCEPT ![t] = Co!With(r[t], [then |-> "w_drain", raised |-> FALSE])]
          BY <1>23, <2>5 DEF Co!WriteLock, Co!Put
        <4>2. pc' = [pc EXCEPT ![t] = "c_lock"] /\ m' = m
          BY <1>23, <2>5 DEF Co!WriteLock, Co!Go, Co!Local
        <4>3. Co!With(r[t], [then |-> "w_drain", raised |-> FALSE]) = [then |-> "w_drain",
                raised |-> FALSE]
          <5>1. r[t] = [then |-> X, raised |-> Y]
            BY <1>1 DEF X, Y
          <5> QED BY <5>1 DEF Co!With
        <4> QED BY <4>1, <4>2, <4>3
      <3>2. CoTo(t, G, L, Q, W, A, N, B, "c_lock", [then |-> "w_drain", raised |-> FALSE])
        BY <1>6, <3>1 DEF CoTo
      <3>11. CoArgs(G, L, Q, W, A, N, B, "c_lock", [then |-> "w_drain", raised |-> FALSE])
        BY <1>0, <1>2, <2>1, <2>5 DEF CoArgs, CoLabels, CoAcquiring, CoOwning, CoReleasing,
           CoTrying, CoReading
      <3>12. CoThen("c_lock", "w_drain") /\ CoTakes(t, L, "c_lock") /\ CoTakesAll(t, G, Q, "c_lock")
        BY <1>0, <1>2, <1>3, <2>1, <2>5
        DEF CoThen, CoCounts, CoIn, CoAcquiring, CoReleasing, CoTrying, CoReading, CoTakes,
        CoLocal, CoOwning,
            CoTakesAll, CoGlobal, G, L
      <3>13. CoAcquires(t, L, Q, A, "c_lock") /\ CoReads(t, N, "c_lock", "w_drain")
        BY <1>0, <1>2, <1>3, <2>1, <2>5
        DEF CoAcquires, CoRested, CoHeld, CoLocal, CoOwning, CoReads, CoThen, CoCounts, CoIn,
        CoReleasing,
            CoAcquiring, CoTrying, CoGlobal, Q, A, N, X, G
      <3> QED BY <1>8, <3>2, <3>11, <3>12, <3>13
    <2> QED BY <1>2, <2>1, <2>2, <2>3, <2>4, <2>5
  <1>24. CASE Co!WriteBarrier(t)
    <2>1. pc[t] = "w_barrier"
      BY <1>24 DEF Co!WriteBarrier, Co!Step, Co!At, Co!Go, Co!Put, Co!Local, L, Q, W, A, N, B, G,
         X, Y
    <2>2. CoTo(t, G, L, Q, W, A, N, B, "c_lock", [then |-> X, raised |-> Y])
      BY <1>4, <1>6, <1>7, <1>24, <2>1 DEF CoTo, Co!WriteBarrier, Co!Step, Co!At, Co!Go, Co!Put,
         Co!Local, L, Q, W, A, N, B, G, X, Y
    <2>11. CoArgs(G, L, Q, W, A, N, B, "c_lock", [then |-> X, raised |-> Y])
      BY <1>0, <1>2, <2>1 DEF CoArgs, CoLabels, CoAcquiring, CoOwning, CoReleasing, CoTrying,
         CoReading
    <2>12. CoThen("c_lock", X) /\ CoTakes(t, L, "c_lock") /\ CoTakesAll(t, G, Q, "c_lock")
      BY <1>0, <1>2, <1>3, <2>1
      DEF CoThen, CoCounts, CoIn, CoAcquiring, CoReleasing, CoTrying, CoReading, CoTakes,
      CoLocal, CoOwning,
          CoTakesAll, CoGlobal, G, L
    <2>13. CoAcquires(t, L, Q, A, "c_lock") /\ CoReads(t, N, "c_lock", X)
      BY <1>0, <1>2, <1>3, <2>1
      DEF CoAcquires, CoRested, CoHeld, CoLocal, CoOwning, CoReads, CoThen, CoCounts, CoIn,
      CoReleasing,
          CoAcquiring, CoTrying, CoGlobal, Q, A, N, X, G
    <2> QED BY <1>8, <2>2, <2>11, <2>12, <2>13
  <1>25. CASE Co!WriteDrain(t)
    <2>1. pc[t] = "w_drain" /\ N = 0
      BY <1>25 DEF Co!WriteDrain, Co!Step, Co!At, Co!Go, Co!Put, Co!Local, L, Q, W, A, N, B, G, X, Y
    <2>2. CoTo(t, G, L, Q, W, A, N, B, "wr", [then |-> X, raised |-> Y])
      BY <1>4, <1>6, <1>7, <1>25, <2>1 DEF CoTo, Co!WriteDrain, Co!Step, Co!At, Co!Go, Co!Put,
         Co!Local, L, Q, W, A, N, B, G, X, Y
    <2>11. CoArgs(G, L, Q, W, A, N, B, "wr", [then |-> X, raised |-> Y])
      BY <1>0, <1>2, <2>1 DEF CoArgs, CoLabels, CoAcquiring, CoOwning, CoReleasing, CoTrying,
         CoReading
    <2>12. CoThen("wr", X) /\ CoTakes(t, L, "wr") /\ CoTakesAll(t, G, Q, "wr")
      BY <1>0, <1>2, <1>3, <2>1
      DEF CoThen, CoCounts, CoIn, CoAcquiring, CoReleasing, CoTrying, CoReading, CoTakes,
      CoLocal, CoOwning,
          CoTakesAll, CoGlobal, G, L
    <2>13. CoAcquires(t, L, Q, A, "wr") /\ CoReads(t, N, "wr", X)
      BY <1>0, <1>2, <1>3, <2>1
      DEF CoAcquires, CoRested, CoHeld, CoLocal, CoOwning, CoReads, CoThen, CoCounts, CoIn,
      CoReleasing,
          CoAcquiring, CoTrying, CoGlobal, Q, A, N, X, G
    <2> QED BY <1>8, <2>2, <2>11, <2>12, <2>13
  <1>26. CASE Co!WriteReaders(t)
    <2>1. pc[t] = "w_readers"
      BY <1>26 DEF Co!WriteReaders, Co!Step, Co!At, Co!Go, Co!Put, Co!Local, L, Q, W, A, N, B, G,
         X, Y
    <2>2. CASE N # 0
      <3>2. CoTo(t, G, L, Q, W, A, N, B, "c_unlock", [then |-> X, raised |-> Y])
        BY <1>4, <1>6, <1>7, <1>26, <2>1, <2>2 DEF CoTo, Co!WriteReaders, Co!Step, Co!At, Co!Go,
           Co!Put, Co!Local, L, Q, W, A, N, B, G, X, Y
      <3>11. CoArgs(G, L, Q, W, A, N, B, "c_unlock", [then |-> X, raised |-> Y])
        BY <1>0, <1>2, <2>1, <2>2 DEF CoArgs, CoLabels, CoAcquiring, CoOwning, CoReleasing,
           CoTrying, CoReading
      <3>12. CoThen("c_unlock", X) /\ CoTakes(t, L, "c_unlock") /\ CoTakesAll(t, G, Q, "c_unlock")
        BY <1>0, <1>2, <1>3, <2>1, <2>2
        DEF CoThen, CoCounts, CoIn, CoAcquiring, CoReleasing, CoTrying, CoReading, CoTakes,
        CoLocal, CoOwning,
            CoTakesAll, CoGlobal, G, L
      <3>13. CoAcquires(t, L, Q, A, "c_unlock") /\ CoReads(t, N, "c_unlock", X)
        BY <1>0, <1>2, <1>3, <2>1, <2>2
        DEF CoAcquires, CoRested, CoHeld, CoLocal, CoOwning, CoReads, CoThen, CoCounts, CoIn,
        CoReleasing,
            CoAcquiring, CoTrying, CoGlobal, Q, A, N, X, G
      <3> QED BY <1>8, <3>2, <3>11, <3>12, <3>13
    <2>3. CASE N = 0 /\ Y
      <3>2. CoTo(t, G, L, Q, W, A, N, B, "w_lower", [then |-> X, raised |-> Y])
        BY <1>4, <1>6, <1>7, <1>26, <2>1, <2>3 DEF CoTo, Co!WriteReaders, Co!Step, Co!At, Co!Go,
           Co!Put, Co!Local, L, Q, W, A, N, B, G, X, Y
      <3>11. CoArgs(G, L, Q, W, A, N, B, "w_lower", [then |-> X, raised |-> Y])
        BY <1>0, <1>2, <2>1, <2>3 DEF CoArgs, CoLabels, CoAcquiring, CoOwning, CoReleasing,
           CoTrying, CoReading
      <3>12. CoThen("w_lower", X) /\ CoTakes(t, L, "w_lower") /\ CoTakesAll(t, G, Q, "w_lower")
        BY <1>0, <1>2, <1>3, <2>1, <2>3
        DEF CoThen, CoCounts, CoIn, CoAcquiring, CoReleasing, CoTrying, CoReading, CoTakes,
        CoLocal, CoOwning,
            CoTakesAll, CoGlobal, G, L
      <3>13. CoAcquires(t, L, Q, A, "w_lower") /\ CoReads(t, N, "w_lower", X)
        BY <1>0, <1>2, <1>3, <2>1, <2>3
        DEF CoAcquires, CoRested, CoHeld, CoLocal, CoOwning, CoReads, CoThen, CoCounts, CoIn,
        CoReleasing,
            CoAcquiring, CoTrying, CoGlobal, Q, A, N, X, G
      <3> QED BY <1>8, <3>2, <3>11, <3>12, <3>13
    <2>4. CASE N = 0 /\ ~Y
      <3>2. CoTo(t, G, L, Q, W, A, N, B, "wr", [then |-> X, raised |-> Y])
        BY <1>4, <1>6, <1>7, <1>26, <2>1, <2>4 DEF CoTo, Co!WriteReaders, Co!Step, Co!At, Co!Go,
           Co!Put, Co!Local, L, Q, W, A, N, B, G, X, Y
      <3>11. CoArgs(G, L, Q, W, A, N, B, "wr", [then |-> X, raised |-> Y])
        BY <1>0, <1>2, <2>1, <2>4 DEF CoArgs, CoLabels, CoAcquiring, CoOwning, CoReleasing,
           CoTrying, CoReading
      <3>12. CoThen("wr", X) /\ CoTakes(t, L, "wr") /\ CoTakesAll(t, G, Q, "wr")
        BY <1>0, <1>2, <1>3, <2>1, <2>4
        DEF CoThen, CoCounts, CoIn, CoAcquiring, CoReleasing, CoTrying, CoReading, CoTakes,
        CoLocal, CoOwning,
            CoTakesAll, CoGlobal, G, L
      <3>13. CoAcquires(t, L, Q, A, "wr") /\ CoReads(t, N, "wr", X)
        BY <1>0, <1>2, <1>3, <2>1, <2>4
        DEF CoAcquires, CoRested, CoHeld, CoLocal, CoOwning, CoReads, CoThen, CoCounts, CoIn,
        CoReleasing,
            CoAcquiring, CoTrying, CoGlobal, Q, A, N, X, G
      <3> QED BY <1>8, <3>2, <3>11, <3>12, <3>13
    <2> QED BY <1>2, <2>1, <2>2, <2>3, <2>4
  <1>27. CASE Co!WritePoll(t)
    <2>1. pc[t] = "w_poll"
      BY <1>27 DEF Co!WritePoll, Co!Step, Co!At, Co!Go, Co!Put, Co!Local, L, Q, W, A, N, B, G, X, Y
    <2>2. CoTo(t, G, L, Q, W, A, N, B, "c_lock", [then |-> X, raised |-> Y])
      BY <1>4, <1>6, <1>7, <1>27, <2>1 DEF CoTo, Co!WritePoll, Co!Step, Co!At, Co!Go, Co!Put,
         Co!Local, L, Q, W, A, N, B, G, X, Y
    <2>11. CoArgs(G, L, Q, W, A, N, B, "c_lock", [then |-> X, raised |-> Y])
      BY <1>0, <1>2, <2>1 DEF CoArgs, CoLabels, CoAcquiring, CoOwning, CoReleasing, CoTrying,
         CoReading
    <2>12. CoThen("c_lock", X) /\ CoTakes(t, L, "c_lock") /\ CoTakesAll(t, G, Q, "c_lock")
      BY <1>0, <1>2, <1>3, <2>1
      DEF CoThen, CoCounts, CoIn, CoAcquiring, CoReleasing, CoTrying, CoReading, CoTakes,
      CoLocal, CoOwning,
          CoTakesAll, CoGlobal, G, L
    <2>13. CoAcquires(t, L, Q, A, "c_lock") /\ CoReads(t, N, "c_lock", X)
      BY <1>0, <1>2, <1>3, <2>1
      DEF CoAcquires, CoRested, CoHeld, CoLocal, CoOwning, CoReads, CoThen, CoCounts, CoIn,
      CoReleasing,
          CoAcquiring, CoTrying, CoGlobal, Q, A, N, X, G
    <2> QED BY <1>8, <2>2, <2>11, <2>12, <2>13
  <1>28. CASE Co!WriteRaise(t)
    <2>1. pc[t] = "w_poll"
      BY <1>28 DEF Co!WriteRaise, Co!Step, Co!At, Co!Go, Co!Put, Co!Local, L, Q, W, A, N, B, G, X, Y
    <2>2. CoTo(t, G, L, Q, W, A, N, B + 1, "w_poll", [then |-> X, raised |-> TRUE])
      BY <1>4, <1>6, <1>7, <1>28, <2>1 DEF CoTo, Co!WriteRaise, Co!Step, Co!At, Co!Go, Co!Put,
         Co!Local, L, Q, W, A, N, B, G, X, Y
    <2>11. CoArgs(G, L, Q, W, A, N, B + 1, "w_poll", [then |-> X, raised |-> TRUE])
      BY <1>0, <1>2, <2>1 DEF CoArgs, CoLabels, CoAcquiring, CoOwning, CoReleasing, CoTrying,
         CoReading
    <2>12. CoThen("w_poll", X) /\ CoTakes(t, L, "w_poll") /\ CoTakesAll(t, G, Q, "w_poll")
      BY <1>0, <1>2, <1>3, <2>1
      DEF CoThen, CoCounts, CoIn, CoAcquiring, CoReleasing, CoTrying, CoReading, CoTakes,
      CoLocal, CoOwning,
          CoTakesAll, CoGlobal, G, L
    <2>13. CoAcquires(t, L, Q, A, "w_poll") /\ CoReads(t, N, "w_poll", X)
      BY <1>0, <1>2, <1>3, <2>1
      DEF CoAcquires, CoRested, CoHeld, CoLocal, CoOwning, CoReads, CoThen, CoCounts, CoIn,
      CoReleasing,
          CoAcquiring, CoTrying, CoGlobal, Q, A, N, X, G
    <2> QED BY <1>8, <2>2, <2>11, <2>12, <2>13
  <1>29. CASE Co!WriteLower(t)
    <2>1. pc[t] = "w_lower"
      BY <1>29 DEF Co!WriteLower, Co!Step, Co!At, Co!Go, Co!Put, Co!Local, L, Q, W, A, N, B, G, X, Y
    <2>2. CoTo(t, G, L, Q, W, A, N, B - 1, "wr", [then |-> X, raised |-> Y])
      BY <1>4, <1>6, <1>7, <1>29, <2>1 DEF CoTo, Co!WriteLower, Co!Step, Co!At, Co!Go, Co!Put,
         Co!Local, L, Q, W, A, N, B, G, X, Y
    <2>11. CoArgs(G, L, Q, W, A, N, B - 1, "wr", [then |-> X, raised |-> Y])
      BY <1>0, <1>2, <2>1 DEF CoArgs, CoLabels, CoAcquiring, CoOwning, CoReleasing, CoTrying,
         CoReading
    <2>12. CoThen("wr", X) /\ CoTakes(t, L, "wr") /\ CoTakesAll(t, G, Q, "wr")
      BY <1>0, <1>2, <1>3, <2>1
      DEF CoThen, CoCounts, CoIn, CoAcquiring, CoReleasing, CoTrying, CoReading, CoTakes,
      CoLocal, CoOwning,
          CoTakesAll, CoGlobal, G, L
    <2>13. CoAcquires(t, L, Q, A, "wr") /\ CoReads(t, N, "wr", X)
      BY <1>0, <1>2, <1>3, <2>1
      DEF CoAcquires, CoRested, CoHeld, CoLocal, CoOwning, CoReads, CoThen, CoCounts, CoIn,
      CoReleasing,
          CoAcquiring, CoTrying, CoGlobal, Q, A, N, X, G
    <2> QED BY <1>8, <2>2, <2>11, <2>12, <2>13
  <1>30. CASE Co!WriteUnlock(t)
    <2>1. pc[t] = "wr"
      BY <1>30 DEF Co!WriteUnlock, Co!Step, Co!At, Co!Go, Co!Put, Co!Local, L, Q, W, A, N, B, G,
         X, Y
    <2>2. CoTo(t, G, L, Q, W, A, N, B, "c_unlock", [then |-> "idle", raised |-> Y])
      BY <1>4, <1>6, <1>7, <1>30, <2>1 DEF CoTo, Co!WriteUnlock, Co!Step, Co!At, Co!Go, Co!Put,
         Co!Local, L, Q, W, A, N, B, G, X, Y
    <2>11. CoArgs(G, L, Q, W, A, N, B, "c_unlock", [then |-> "idle", raised |-> Y])
      BY <1>0, <1>2, <2>1 DEF CoArgs, CoLabels, CoAcquiring, CoOwning, CoReleasing, CoTrying,
         CoReading
    <2>12. CoThen("c_unlock", "idle") /\ CoTakes(t, L, "c_unlock")
             /\ CoTakesAll(t, G, Q, "c_unlock")
      BY <1>0, <1>2, <1>3, <2>1
      DEF CoThen, CoCounts, CoIn, CoAcquiring, CoReleasing, CoTrying, CoReading, CoTakes,
      CoLocal, CoOwning,
          CoTakesAll, CoGlobal, G, L
    <2>13. CoAcquires(t, L, Q, A, "c_unlock") /\ CoReads(t, N, "c_unlock", "idle")
      BY <1>0, <1>2, <1>3, <2>1
      DEF CoAcquires, CoRested, CoHeld, CoLocal, CoOwning, CoReads, CoThen, CoCounts, CoIn,
      CoReleasing,
          CoAcquiring, CoTrying, CoGlobal, Q, A, N, X, G
    <2> QED BY <1>8, <2>2, <2>11, <2>12, <2>13
  <1>31. CASE Co!ReadLock(t)
    <2>1. pc[t] = "idle" /\ m.policy # "cohort"
      BY <1>31 DEF Co!ReadLock, Co!Step, Co!At, Co!Go, Co!Put, Co!Local, L, Q, W, A, N, B, G, X, Y
    <2>2. CASE m.policy = "wp"
      <3>1. r' = [r EXCEPT ![t] = [then |-> "rd", raised |-> FALSE]]
              /\ pc' = [pc EXCEPT ![t] = "r_count"] /\ m' = m
        <4>1. r' = [r EXCEPT ![t] = Co!With(r[t], [then |-> "rd", raised |-> FALSE])]
          BY <1>31, <2>2 DEF Co!ReadLock, Co!Put
        <4>2. pc' = [pc EXCEPT ![t] = "r_count"] /\ m' = m
          BY <1>31, <2>2 DEF Co!ReadLock, Co!Go, Co!Local
        <4>3. Co!With(r[t], [then |-> "rd", raised |-> FALSE]) = [then |-> "rd", raised |-> FALSE]
          <5>1. r[t] = [then |-> X, raised |-> Y]
            BY <1>1 DEF X, Y
          <5> QED BY <5>1 DEF Co!With
        <4> QED BY <4>1, <4>2, <4>3
      <3>2. CoTo(t, G, L, Q, W, A, N, B, "r_count", [then |-> "rd", raised |-> FALSE])
        BY <1>6, <3>1 DEF CoTo
      <3>11. CoArgs(G, L, Q, W, A, N, B, "r_count", [then |-> "rd", raised |-> FALSE])
        BY <1>0, <1>2, <2>1, <2>2 DEF CoArgs, CoLabels, CoAcquiring, CoOwning, CoReleasing,
           CoTrying, CoReading
      <3>12. CoThen("r_count", "rd") /\ CoTakes(t, L, "r_count") /\ CoTakesAll(t, G, Q, "r_count")
        BY <1>0, <1>2, <1>3, <2>1, <2>2
        DEF CoThen, CoCounts, CoIn, CoAcquiring, CoReleasing, CoTrying, CoReading, CoTakes,
        CoLocal, CoOwning,
            CoTakesAll, CoGlobal, G, L
      <3>13. CoAcquires(t, L, Q, A, "r_count") /\ CoReads(t, N, "r_count", "rd")
        BY <1>0, <1>2, <1>3, <2>1, <2>2
        DEF CoAcquires, CoRested, CoHeld, CoLocal, CoOwning, CoReads, CoThen, CoCounts, CoIn,
        CoReleasing,
            CoAcquiring, CoTrying, CoGlobal, Q, A, N, X, G
      <3> QED BY <1>8, <3>2, <3>11, <3>12, <3>13
    <2>3. CASE m.policy = "rp"
      <3>1. r' = [r EXCEPT ![t] = [then |-> "rd", raised |-> FALSE]]
              /\ pc' = [pc EXCEPT ![t] = "r_barrier"] /\ m' = m
        <4>1. r' = [r EXCEPT ![t] = Co!With(r[t], [then |-> "rd", raised |-> FALSE])]
          BY <1>31, <2>3 DEF Co!ReadLock, Co!Put
        <4>2. pc' = [pc EXCEPT ![t] = "r_barrier"] /\ m' = m
          BY <1>31, <2>3 DEF Co!ReadLock, Co!Go, Co!Local
        <4>3. Co!With(r[t], [then |-> "rd", raised |-> FALSE]) = [then |-> "rd", raised |-> FALSE]
          <5>1. r[t] = [then |-> X, raised |-> Y]
            BY <1>1 DEF X, Y
          <5> QED BY <5>1 DEF Co!With
        <4> QED BY <4>1, <4>2, <4>3
      <3>2. CoTo(t, G, L, Q, W, A, N, B, "r_barrier", [then |-> "rd", raised |-> FALSE])
        BY <1>6, <3>1 DEF CoTo
      <3>11. CoArgs(G, L, Q, W, A, N, B, "r_barrier", [then |-> "rd", raised |-> FALSE])
        BY <1>0, <1>2, <2>1, <2>3 DEF CoArgs, CoLabels, CoAcquiring, CoOwning, CoReleasing,
           CoTrying, CoReading
      <3>12. CoThen("r_barrier", "rd") /\ CoTakes(t, L, "r_barrier")
               /\ CoTakesAll(t, G, Q, "r_barrier")
        BY <1>0, <1>2, <1>3, <2>1, <2>3
        DEF CoThen, CoCounts, CoIn, CoAcquiring, CoReleasing, CoTrying, CoReading, CoTakes,
        CoLocal, CoOwning,
            CoTakesAll, CoGlobal, G, L
      <3>13. CoAcquires(t, L, Q, A, "r_barrier") /\ CoReads(t, N, "r_barrier", "rd")
        BY <1>0, <1>2, <1>3, <2>1, <2>3
        DEF CoAcquires, CoRested, CoHeld, CoLocal, CoOwning, CoReads, CoThen, CoCounts, CoIn,
        CoReleasing,
            CoAcquiring, CoTrying, CoGlobal, Q, A, N, X, G
      <3> QED BY <1>8, <3>2, <3>11, <3>12, <3>13
    <2>4. CASE m.policy = "neutral"
      <3>1. r' = [r EXCEPT ![t] = [then |-> "r_locked", raised |-> FALSE]]
              /\ pc' = [pc EXCEPT ![t] = "c_lock"] /\ m' = m
        <4>1. r' = [r EXCEPT ![t] = Co!With(r[t], [then |-> "r_locked", raised |-> FALSE])]
          BY <1>31, <2>4 DEF Co!ReadLock, Co!Put
        <4>2. pc' = [pc EXCEPT ![t] = "c_lock"] /\ m' = m
          BY <1>31, <2>4 DEF Co!ReadLock, Co!Go, Co!Local
        <4>3. Co!With(r[t], [then |-> "r_locked", raised |-> FALSE]) = [then |-> "r_locked",
                raised |-> FALSE]
          <5>1. r[t] = [then |-> X, raised |-> Y]
            BY <1>1 DEF X, Y
          <5> QED BY <5>1 DEF Co!With
        <4> QED BY <4>1, <4>2, <4>3
      <3>2. CoTo(t, G, L, Q, W, A, N, B, "c_lock", [then |-> "r_locked", raised |-> FALSE])
        BY <1>6, <3>1 DEF CoTo
      <3>11. CoArgs(G, L, Q, W, A, N, B, "c_lock", [then |-> "r_locked", raised |-> FALSE])
        BY <1>0, <1>2, <2>1, <2>4 DEF CoArgs, CoLabels, CoAcquiring, CoOwning, CoReleasing,
           CoTrying, CoReading
      <3>12. CoThen("c_lock", "r_locked") /\ CoTakes(t, L, "c_lock")
               /\ CoTakesAll(t, G, Q, "c_lock")
        BY <1>0, <1>2, <1>3, <2>1, <2>4
        DEF CoThen, CoCounts, CoIn, CoAcquiring, CoReleasing, CoTrying, CoReading, CoTakes,
        CoLocal, CoOwning,
            CoTakesAll, CoGlobal, G, L
      <3>13. CoAcquires(t, L, Q, A, "c_lock") /\ CoReads(t, N, "c_lock", "r_locked")
        BY <1>0, <1>2, <1>3, <2>1, <2>4
        DEF CoAcquires, CoRested, CoHeld, CoLocal, CoOwning, CoReads, CoThen, CoCounts, CoIn,
        CoReleasing,
            CoAcquiring, CoTrying, CoGlobal, Q, A, N, X, G
      <3> QED BY <1>8, <3>2, <3>11, <3>12, <3>13
    <2> QED BY <1>2, <2>1, <2>2, <2>3, <2>4
  <1>32. CASE Co!ReadBarrier(t)
    <2>1. pc[t] = "r_barrier"
      BY <1>32 DEF Co!ReadBarrier, Co!Step, Co!At, Co!Go, Co!Put, Co!Local, L, Q, W, A, N, B, G,
         X, Y
    <2>2. CoTo(t, G, L, Q, W, A, N, B, "r_count", [then |-> X, raised |-> Y])
      BY <1>4, <1>6, <1>7, <1>32, <2>1 DEF CoTo, Co!ReadBarrier, Co!Step, Co!At, Co!Go, Co!Put,
         Co!Local, L, Q, W, A, N, B, G, X, Y
    <2>11. CoArgs(G, L, Q, W, A, N, B, "r_count", [then |-> X, raised |-> Y])
      BY <1>0, <1>2, <2>1 DEF CoArgs, CoLabels, CoAcquiring, CoOwning, CoReleasing, CoTrying,
         CoReading
    <2>12. CoThen("r_count", X) /\ CoTakes(t, L, "r_count") /\ CoTakesAll(t, G, Q, "r_count")
      BY <1>0, <1>2, <1>3, <2>1
      DEF CoThen, CoCounts, CoIn, CoAcquiring, CoReleasing, CoTrying, CoReading, CoTakes,
      CoLocal, CoOwning,
          CoTakesAll, CoGlobal, G, L
    <2>13. CoAcquires(t, L, Q, A, "r_count") /\ CoReads(t, N, "r_count", X)
      BY <1>0, <1>2, <1>3, <2>1
      DEF CoAcquires, CoRested, CoHeld, CoLocal, CoOwning, CoReads, CoThen, CoCounts, CoIn,
      CoReleasing,
          CoAcquiring, CoTrying, CoGlobal, Q, A, N, X, G
    <2> QED BY <1>8, <2>2, <2>11, <2>12, <2>13
  <1>33. CASE Co!ReadCount(t)
    <2>1. pc[t] \in {"r_count", "r_locked"}
      BY <1>33 DEF Co!ReadCount, Co!Step, Co!At, Co!Go, Co!Put, Co!Local, L, Q, W, A, N, B, G, X, Y
    <2>2. CASE pc[t] = "r_count"
      <3>2. CoTo(t, G, L, Q, W, A, N + 1, B, "r_check", [then |-> X, raised |-> Y])
        BY <1>4, <1>6, <1>7, <1>33, <2>1, <2>2 DEF CoTo, Co!ReadCount, Co!Step, Co!At, Co!Go,
           Co!Put, Co!Local, L, Q, W, A, N, B, G, X, Y
      <3>11. CoArgs(G, L, Q, W, A, N + 1, B, "r_check", [then |-> X, raised |-> Y])
        BY <1>0, <1>2, <2>1, <2>2 DEF CoArgs, CoLabels, CoAcquiring, CoOwning, CoReleasing,
           CoTrying, CoReading
      <3>12. CoThen("r_check", X) /\ CoTakes(t, L, "r_check") /\ CoTakesAll(t, G, Q, "r_check")
        BY <1>0, <1>2, <1>3, <2>1, <2>2
        DEF CoThen, CoCounts, CoIn, CoAcquiring, CoReleasing, CoTrying, CoReading, CoTakes,
        CoLocal, CoOwning,
            CoTakesAll, CoGlobal, G, L
      <3>13. CoAcquires(t, L, Q, A, "r_check") /\ CoReads(t, N + 1, "r_check", X)
        BY <1>0, <1>2, <1>3, <2>1, <2>2
        DEF CoAcquires, CoRested, CoHeld, CoLocal, CoOwning, CoReads, CoThen, CoCounts, CoIn,
        CoReleasing,
            CoAcquiring, CoTrying, CoGlobal, Q, A, N, X, G
      <3> QED BY <1>8, <3>2, <3>11, <3>12, <3>13
    <2>3. CASE pc[t] = "r_locked"
      <3>2. CoTo(t, G, L, Q, W, A, N + 1, B, "c_unlock", [then |-> X, raised |-> Y])
        BY <1>4, <1>6, <1>7, <1>33, <2>1, <2>3 DEF CoTo, Co!ReadCount, Co!Step, Co!At, Co!Go,
           Co!Put, Co!Local, L, Q, W, A, N, B, G, X, Y
      <3>11. CoArgs(G, L, Q, W, A, N + 1, B, "c_unlock", [then |-> X, raised |-> Y])
        BY <1>0, <1>2, <2>1, <2>3 DEF CoArgs, CoLabels, CoAcquiring, CoOwning, CoReleasing,
           CoTrying, CoReading
      <3>12. CoThen("c_unlock", X) /\ CoTakes(t, L, "c_unlock") /\ CoTakesAll(t, G, Q, "c_unlock")
        BY <1>0, <1>2, <1>3, <2>1, <2>3
        DEF CoThen, CoCounts, CoIn, CoAcquiring, CoReleasing, CoTrying, CoReading, CoTakes,
        CoLocal, CoOwning,
            CoTakesAll, CoGlobal, G, L
      <3>13. CoAcquires(t, L, Q, A, "c_unlock") /\ CoReads(t, N + 1, "c_unlock", X)
        BY <1>0, <1>2, <1>3, <2>1, <2>3
        DEF CoAcquires, CoRested, CoHeld, CoLocal, CoOwning, CoReads, CoThen, CoCounts, CoIn,
        CoReleasing,
            CoAcquiring, CoTrying, CoGlobal, Q, A, N, X, G
      <3> QED BY <1>8, <3>2, <3>11, <3>12, <3>13
    <2> QED BY <1>2, <2>1, <2>2, <2>3
  <1>34. CASE Co!ReadCheck(t)
    <2>1. pc[t] \in {"r_check", "r_check_local"} /\ r' = r /\ m' = m
      BY <1>34 DEF Co!ReadCheck, Co!Step, Co!At, Co!Go, Co!Put, Co!Local, Co!Looks, Co!Finds, L,
         Q, W, A, N, B, G, X, Y
    <2>2. CASE pc[t] = "r_check" /\ G = NULL /\ pc' = [pc EXCEPT ![t] = "r_check_local"]
      <3>2. CoTo(t, G, L, Q, W, A, N, B, "r_check_local", [then |-> X, raised |-> Y])
        BY <1>4, <1>6, <1>7, <1>34, <2>1, <2>2 DEF CoTo, Co!ReadCheck, Co!Step, Co!At, Co!Go,
           Co!Put, Co!Local, Co!Looks, Co!Finds, L, Q, W, A, N, B, G, X, Y
      <3>11. CoArgs(G, L, Q, W, A, N, B, "r_check_local", [then |-> X, raised |-> Y])
        BY <1>0, <1>2, <2>1, <2>2 DEF CoArgs, CoLabels, CoAcquiring, CoOwning, CoReleasing,
           CoTrying, CoReading
      <3>12. CoThen("r_check_local", X) /\ CoTakes(t, L, "r_check_local")
               /\ CoTakesAll(t, G, Q, "r_check_local")
        BY <1>0, <1>2, <1>3, <2>1, <2>2
        DEF CoThen, CoCounts, CoIn, CoAcquiring, CoReleasing, CoTrying, CoReading, CoTakes,
        CoLocal, CoOwning,
            CoTakesAll, CoGlobal, G, L
      <3>13. CoAcquires(t, L, Q, A, "r_check_local") /\ CoReads(t, N, "r_check_local", X)
        BY <1>0, <1>2, <1>3, <2>1, <2>2
        DEF CoAcquires, CoRested, CoHeld, CoLocal, CoOwning, CoReads, CoThen, CoCounts, CoIn,
        CoReleasing,
            CoAcquiring, CoTrying, CoGlobal, Q, A, N, X, G
      <3> QED BY <1>8, <3>2, <3>11, <3>12, <3>13
    <2>3. CASE pc[t] = "r_check_local" /\ pc' = [pc EXCEPT ![t] = "r_lower"]
      <3>2. CoTo(t, G, L, Q, W, A, N, B, "r_lower", [then |-> X, raised |-> Y])
        BY <1>4, <1>6, <1>7, <1>34, <2>1, <2>3 DEF CoTo, Co!ReadCheck, Co!Step, Co!At, Co!Go,
           Co!Put, Co!Local, Co!Looks, Co!Finds, L, Q, W, A, N, B, G, X, Y
      <3>11. CoArgs(G, L, Q, W, A, N, B, "r_lower", [then |-> X, raised |-> Y])
        BY <1>0, <1>2, <2>1, <2>3 DEF CoArgs, CoLabels, CoAcquiring, CoOwning, CoReleasing,
           CoTrying, CoReading
      <3>12. CoThen("r_lower", X) /\ CoTakes(t, L, "r_lower") /\ CoTakesAll(t, G, Q, "r_lower")
        BY <1>0, <1>2, <1>3, <2>1, <2>3
        DEF CoThen, CoCounts, CoIn, CoAcquiring, CoReleasing, CoTrying, CoReading, CoTakes,
        CoLocal, CoOwning,
            CoTakesAll, CoGlobal, G, L
      <3>13. CoAcquires(t, L, Q, A, "r_lower") /\ CoReads(t, N, "r_lower", X)
        BY <1>0, <1>2, <1>3, <2>1, <2>3
        DEF CoAcquires, CoRested, CoHeld, CoLocal, CoOwning, CoReads, CoThen, CoCounts, CoIn,
        CoReleasing,
            CoAcquiring, CoTrying, CoGlobal, Q, A, N, X, G
      <3> QED BY <1>8, <3>2, <3>11, <3>12, <3>13
    <2>4. CASE pc[t] = "r_check_local" /\ pc' = [pc EXCEPT ![t] = "rd"]
      <3>2. CoTo(t, G, L, Q, W, A, N, B, "rd", [then |-> X, raised |-> Y])
        BY <1>4, <1>6, <1>7, <1>34, <2>1, <2>4 DEF CoTo, Co!ReadCheck, Co!Step, Co!At, Co!Go,
           Co!Put, Co!Local, Co!Looks, Co!Finds, L, Q, W, A, N, B, G, X, Y
      <3>11. CoArgs(G, L, Q, W, A, N, B, "rd", [then |-> X, raised |-> Y])
        BY <1>0, <1>2, <2>1, <2>4 DEF CoArgs, CoLabels, CoAcquiring, CoOwning, CoReleasing,
           CoTrying, CoReading
      <3>12. CoThen("rd", X) /\ CoTakes(t, L, "rd") /\ CoTakesAll(t, G, Q, "rd")
        BY <1>0, <1>2, <1>3, <2>1, <2>4
        DEF CoThen, CoCounts, CoIn, CoAcquiring, CoReleasing, CoTrying, CoReading, CoTakes,
        CoLocal, CoOwning,
            CoTakesAll, CoGlobal, G, L
      <3>13. CoAcquires(t, L, Q, A, "rd") /\ CoReads(t, N, "rd", X)
        BY <1>0, <1>2, <1>3, <2>1, <2>4
        DEF CoAcquires, CoRested, CoHeld, CoLocal, CoOwning, CoReads, CoThen, CoCounts, CoIn,
        CoReleasing,
            CoAcquiring, CoTrying, CoGlobal, Q, A, N, X, G
      <3> QED BY <1>8, <3>2, <3>11, <3>12, <3>13
    <2>5. CASE pc' = [pc EXCEPT ![t] = "r_back"]
      <3>2. CoTo(t, G, L, Q, W, A, N, B, "r_back", [then |-> X, raised |-> Y])
        BY <1>4, <1>6, <1>7, <1>34, <2>1, <2>5 DEF CoTo, Co!ReadCheck, Co!Step, Co!At, Co!Go,
           Co!Put, Co!Local, Co!Looks, Co!Finds, L, Q, W, A, N, B, G, X, Y
      <3>11. CoArgs(G, L, Q, W, A, N, B, "r_back", [then |-> X, raised |-> Y])
        BY <1>0, <1>2, <2>1, <2>5 DEF CoArgs, CoLabels, CoAcquiring, CoOwning, CoReleasing,
           CoTrying, CoReading
      <3>12. CoThen("r_back", X) /\ CoTakes(t, L, "r_back") /\ CoTakesAll(t, G, Q, "r_back")
        BY <1>0, <1>2, <1>3, <2>1, <2>5
        DEF CoThen, CoCounts, CoIn, CoAcquiring, CoReleasing, CoTrying, CoReading, CoTakes,
        CoLocal, CoOwning,
            CoTakesAll, CoGlobal, G, L
      <3>13. CoAcquires(t, L, Q, A, "r_back") /\ CoReads(t, N, "r_back", X)
        BY <1>0, <1>2, <1>3, <2>1, <2>5
        DEF CoAcquires, CoRested, CoHeld, CoLocal, CoOwning, CoReads, CoThen, CoCounts, CoIn,
        CoReleasing,
            CoAcquiring, CoTrying, CoGlobal, Q, A, N, X, G
      <3> QED BY <1>8, <3>2, <3>11, <3>12, <3>13
    <2>6. CASE pc' = [pc EXCEPT ![t] = "r_check"]
      <3>2. CoTo(t, G, L, Q, W, A, N, B, "r_check", [then |-> X, raised |-> Y])
        BY <1>4, <1>6, <1>7, <1>34, <2>1, <2>6 DEF CoTo, Co!ReadCheck, Co!Step, Co!At, Co!Go,
           Co!Put, Co!Local, Co!Looks, Co!Finds, L, Q, W, A, N, B, G, X, Y
      <3>11. CoArgs(G, L, Q, W, A, N, B, "r_check", [then |-> X, raised |-> Y])
        BY <1>0, <1>2, <2>1, <2>6 DEF CoArgs, CoLabels, CoAcquiring, CoOwning, CoReleasing,
           CoTrying, CoReading
      <3>12. CoThen("r_check", X) /\ CoTakes(t, L, "r_check") /\ CoTakesAll(t, G, Q, "r_check")
        BY <1>0, <1>2, <1>3, <2>1, <2>6
        DEF CoThen, CoCounts, CoIn, CoAcquiring, CoReleasing, CoTrying, CoReading, CoTakes,
        CoLocal, CoOwning,
            CoTakesAll, CoGlobal, G, L
      <3>13. CoAcquires(t, L, Q, A, "r_check") /\ CoReads(t, N, "r_check", X)
        BY <1>0, <1>2, <1>3, <2>1, <2>6
        DEF CoAcquires, CoRested, CoHeld, CoLocal, CoOwning, CoReads, CoThen, CoCounts, CoIn,
        CoReleasing,
            CoAcquiring, CoTrying, CoGlobal, Q, A, N, X, G
      <3> QED BY <1>8, <3>2, <3>11, <3>12, <3>13
    <2> QED BY <1>34, <2>1, <2>2, <2>3, <2>4, <2>5, <2>6 DEF Co!ReadCheck, Co!Looks, Co!Finds,
               Co!Step, Co!At, Co!Go, G
  <1>35. CASE Co!ReadBack(t)
    <2>1. pc[t] = "r_back"
      BY <1>35 DEF Co!ReadBack, Co!Step, Co!At, Co!Go, Co!Put, Co!Local, L, Q, W, A, N, B, G, X, Y
    <2>2. CoTo(t, G, L, Q, W, A, N - 1, B, "r_poll", [then |-> X, raised |-> Y])
      BY <1>4, <1>6, <1>7, <1>35, <2>1 DEF CoTo, Co!ReadBack, Co!Step, Co!At, Co!Go, Co!Put,
         Co!Local, L, Q, W, A, N, B, G, X, Y
    <2>11. CoArgs(G, L, Q, W, A, N - 1, B, "r_poll", [then |-> X, raised |-> Y])
      BY <1>0, <1>2, <2>1 DEF CoArgs, CoLabels, CoAcquiring, CoOwning, CoReleasing, CoTrying,
         CoReading
    <2>12. CoThen("r_poll", X) /\ CoTakes(t, L, "r_poll") /\ CoTakesAll(t, G, Q, "r_poll")
      BY <1>0, <1>2, <1>3, <2>1
      DEF CoThen, CoCounts, CoIn, CoAcquiring, CoReleasing, CoTrying, CoReading, CoTakes,
      CoLocal, CoOwning,
          CoTakesAll, CoGlobal, G, L
    <2>13. CoAcquires(t, L, Q, A, "r_poll") /\ CoReads(t, N - 1, "r_poll", X)
      BY <1>0, <1>2, <1>3, <2>1
      DEF CoAcquires, CoRested, CoHeld, CoLocal, CoOwning, CoReads, CoThen, CoCounts, CoIn,
      CoReleasing,
          CoAcquiring, CoTrying, CoGlobal, Q, A, N, X, G
    <2> QED BY <1>8, <2>2, <2>11, <2>12, <2>13
  <1>36. CASE Co!ReadPoll(t)
    <2>1. pc[t] \in {"r_poll", "r_poll_local"} /\ r' = r /\ m' = m
      BY <1>36 DEF Co!ReadPoll, Co!Step, Co!At, Co!Go, Co!Put, Co!Local, Co!Looks, Co!Finds, L,
         Q, W, A, N, B, G, X, Y
    <2>2. CASE pc' = [pc EXCEPT ![t] = "r_poll_local"]
      <3>2. CoTo(t, G, L, Q, W, A, N, B, "r_poll_local", [then |-> X, raised |-> Y])
        BY <1>4, <1>6, <1>7, <1>36, <2>1, <2>2 DEF CoTo, Co!ReadPoll, Co!Step, Co!At, Co!Go,
           Co!Put, Co!Local, Co!Looks, Co!Finds, L, Q, W, A, N, B, G, X, Y
      <3>11. CoArgs(G, L, Q, W, A, N, B, "r_poll_local", [then |-> X, raised |-> Y])
        BY <1>0, <1>2, <2>1, <2>2 DEF CoArgs, CoLabels, CoAcquiring, CoOwning, CoReleasing,
           CoTrying, CoReading
      <3>12. CoThen("r_poll_local", X) /\ CoTakes(t, L, "r_poll_local")
               /\ CoTakesAll(t, G, Q, "r_poll_local")
        BY <1>0, <1>2, <1>3, <2>1, <2>2
        DEF CoThen, CoCounts, CoIn, CoAcquiring, CoReleasing, CoTrying, CoReading, CoTakes,
        CoLocal, CoOwning,
            CoTakesAll, CoGlobal, G, L
      <3>13. CoAcquires(t, L, Q, A, "r_poll_local") /\ CoReads(t, N, "r_poll_local", X)
        BY <1>0, <1>2, <1>3, <2>1, <2>2
        DEF CoAcquires, CoRested, CoHeld, CoLocal, CoOwning, CoReads, CoThen, CoCounts, CoIn,
        CoReleasing,
            CoAcquiring, CoTrying, CoGlobal, Q, A, N, X, G
      <3> QED BY <1>8, <3>2, <3>11, <3>12, <3>13
    <2>3. CASE pc' = [pc EXCEPT ![t] = "r_poll"]
      <3>2. CoTo(t, G, L, Q, W, A, N, B, "r_poll", [then |-> X, raised |-> Y])
        BY <1>4, <1>6, <1>7, <1>36, <2>1, <2>3 DEF CoTo, Co!ReadPoll, Co!Step, Co!At, Co!Go,
           Co!Put, Co!Local, Co!Looks, Co!Finds, L, Q, W, A, N, B, G, X, Y
      <3>11. CoArgs(G, L, Q, W, A, N, B, "r_poll", [then |-> X, raised |-> Y])
        BY <1>0, <1>2, <2>1, <2>3 DEF CoArgs, CoLabels, CoAcquiring, CoOwning, CoReleasing,
           CoTrying, CoReading
      <3>12. CoThen("r_poll", X) /\ CoTakes(t, L, "r_poll") /\ CoTakesAll(t, G, Q, "r_poll")
        BY <1>0, <1>2, <1>3, <2>1, <2>3
        DEF CoThen, CoCounts, CoIn, CoAcquiring, CoReleasing, CoTrying, CoReading, CoTakes,
        CoLocal, CoOwning,
            CoTakesAll, CoGlobal, G, L
      <3>13. CoAcquires(t, L, Q, A, "r_poll") /\ CoReads(t, N, "r_poll", X)
        BY <1>0, <1>2, <1>3, <2>1, <2>3
        DEF CoAcquires, CoRested, CoHeld, CoLocal, CoOwning, CoReads, CoThen, CoCounts, CoIn,
        CoReleasing,
            CoAcquiring, CoTrying, CoGlobal, Q, A, N, X, G
      <3> QED BY <1>8, <3>2, <3>11, <3>12, <3>13
    <2>4. CASE pc' = [pc EXCEPT ![t] = "r_poll_or_raise"]
      <3>2. CoTo(t, G, L, Q, W, A, N, B, "r_poll_or_raise", [then |-> X, raised |-> Y])
        BY <1>4, <1>6, <1>7, <1>36, <2>1, <2>4 DEF CoTo, Co!ReadPoll, Co!Step, Co!At, Co!Go,
           Co!Put, Co!Local, Co!Looks, Co!Finds, L, Q, W, A, N, B, G, X, Y
      <3>11. CoArgs(G, L, Q, W, A, N, B, "r_poll_or_raise", [then |-> X, raised |-> Y])
        BY <1>0, <1>2, <2>1, <2>4 DEF CoArgs, CoLabels, CoAcquiring, CoOwning, CoReleasing,
           CoTrying, CoReading
      <3>12. CoThen("r_poll_or_raise", X) /\ CoTakes(t, L, "r_poll_or_raise")
               /\ CoTakesAll(t, G, Q, "r_poll_or_raise")
        BY <1>0, <1>2, <1>3, <2>1, <2>4
        DEF CoThen, CoCounts, CoIn, CoAcquiring, CoReleasing, CoTrying, CoReading, CoTakes,
        CoLocal, CoOwning,
            CoTakesAll, CoGlobal, G, L
      <3>13. CoAcquires(t, L, Q, A, "r_poll_or_raise") /\ CoReads(t, N, "r_poll_or_raise", X)
        BY <1>0, <1>2, <1>3, <2>1, <2>4
        DEF CoAcquires, CoRested, CoHeld, CoLocal, CoOwning, CoReads, CoThen, CoCounts, CoIn,
        CoReleasing,
            CoAcquiring, CoTrying, CoGlobal, Q, A, N, X, G
      <3> QED BY <1>8, <3>2, <3>11, <3>12, <3>13
    <2>5. CASE pc' = [pc EXCEPT ![t] = "r_count"]
      <3>2. CoTo(t, G, L, Q, W, A, N, B, "r_count", [then |-> X, raised |-> Y])
        BY <1>4, <1>6, <1>7, <1>36, <2>1, <2>5 DEF CoTo, Co!ReadPoll, Co!Step, Co!At, Co!Go,
           Co!Put, Co!Local, Co!Looks, Co!Finds, L, Q, W, A, N, B, G, X, Y
      <3>11. CoArgs(G, L, Q, W, A, N, B, "r_count", [then |-> X, raised |-> Y])
        BY <1>0, <1>2, <2>1, <2>5 DEF CoArgs, CoLabels, CoAcquiring, CoOwning, CoReleasing,
           CoTrying, CoReading
      <3>12. CoThen("r_count", X) /\ CoTakes(t, L, "r_count") /\ CoTakesAll(t, G, Q, "r_count")
        BY <1>0, <1>2, <1>3, <2>1, <2>5
        DEF CoThen, CoCounts, CoIn, CoAcquiring, CoReleasing, CoTrying, CoReading, CoTakes,
        CoLocal, CoOwning,
            CoTakesAll, CoGlobal, G, L
      <3>13. CoAcquires(t, L, Q, A, "r_count") /\ CoReads(t, N, "r_count", X)
        BY <1>0, <1>2, <1>3, <2>1, <2>5
        DEF CoAcquires, CoRested, CoHeld, CoLocal, CoOwning, CoReads, CoThen, CoCounts, CoIn,
        CoReleasing,
            CoAcquiring, CoTrying, CoGlobal, Q, A, N, X, G
      <3> QED BY <1>8, <3>2, <3>11, <3>12, <3>13
    <2> QED BY <1>36, <2>1, <2>2, <2>3, <2>4, <2>5 DEF Co!ReadPoll, Co!Looks, Co!Finds, Co!Step,
               Co!At, Co!Go
  <1>37. CASE Co!ReadRaise(t)
    <2>1. pc[t] = "r_poll_or_raise"
      BY <1>37 DEF Co!ReadRaise, Co!Step, Co!At, Co!Go, Co!Put, Co!Local, L, Q, W, A, N, B, G, X, Y
    <2>2. CASE UNCHANGED <<m, r>>
      <3>2. CoTo(t, G, L, Q, W, A, N, B, "r_poll", [then |-> X, raised |-> Y])
        BY <1>4, <1>6, <1>7, <1>37, <2>1, <2>2 DEF CoTo, Co!ReadRaise, Co!Step, Co!At, Co!Go,
           Co!Put, Co!Local, L, Q, W, A, N, B, G, X, Y
      <3>11. CoArgs(G, L, Q, W, A, N, B, "r_poll", [then |-> X, raised |-> Y])
        BY <1>0, <1>2, <2>1, <2>2 DEF CoArgs, CoLabels, CoAcquiring, CoOwning, CoReleasing,
           CoTrying, CoReading
      <3>12. CoThen("r_poll", X) /\ CoTakes(t, L, "r_poll") /\ CoTakesAll(t, G, Q, "r_poll")
        BY <1>0, <1>2, <1>3, <2>1, <2>2
        DEF CoThen, CoCounts, CoIn, CoAcquiring, CoReleasing, CoTrying, CoReading, CoTakes,
        CoLocal, CoOwning,
            CoTakesAll, CoGlobal, G, L
      <3>13. CoAcquires(t, L, Q, A, "r_poll") /\ CoReads(t, N, "r_poll", X)
        BY <1>0, <1>2, <1>3, <2>1, <2>2
        DEF CoAcquires, CoRested, CoHeld, CoLocal, CoOwning, CoReads, CoThen, CoCounts, CoIn,
        CoReleasing,
            CoAcquiring, CoTrying, CoGlobal, Q, A, N, X, G
      <3> QED BY <1>8, <3>2, <3>11, <3>12, <3>13
    <2>3. CASE m' = [m EXCEPT !.barrier = @ + 1] /\ Co!Put(t, [raised |-> TRUE])
      <3>2. CoTo(t, G, L, Q, W, A, N, B + 1, "r_poll", [then |-> X, raised |-> TRUE])
        BY <1>4, <1>6, <1>7, <1>37, <2>1, <2>3 DEF CoTo, Co!ReadRaise, Co!Step, Co!At, Co!Go,
           Co!Put, Co!Local, L, Q, W, A, N, B, G, X, Y
      <3>11. CoArgs(G, L, Q, W, A, N, B + 1, "r_poll", [then |-> X, raised |-> TRUE])
        BY <1>0, <1>2, <2>1, <2>3 DEF CoArgs, CoLabels, CoAcquiring, CoOwning, CoReleasing,
           CoTrying, CoReading
      <3>12. CoThen("r_poll", X) /\ CoTakes(t, L, "r_poll") /\ CoTakesAll(t, G, Q, "r_poll")
        BY <1>0, <1>2, <1>3, <2>1, <2>3
        DEF CoThen, CoCounts, CoIn, CoAcquiring, CoReleasing, CoTrying, CoReading, CoTakes,
        CoLocal, CoOwning,
            CoTakesAll, CoGlobal, G, L
      <3>13. CoAcquires(t, L, Q, A, "r_poll") /\ CoReads(t, N, "r_poll", X)
        BY <1>0, <1>2, <1>3, <2>1, <2>3
        DEF CoAcquires, CoRested, CoHeld, CoLocal, CoOwning, CoReads, CoThen, CoCounts, CoIn,
        CoReleasing,
            CoAcquiring, CoTrying, CoGlobal, Q, A, N, X, G
      <3> QED BY <1>8, <3>2, <3>11, <3>12, <3>13
    <2> QED BY <1>37, <2>1, <2>2, <2>3 DEF Co!ReadRaise
  <1>38. CASE Co!ReadLower(t)
    <2>1. pc[t] = "r_lower"
      BY <1>38 DEF Co!ReadLower, Co!Step, Co!At, Co!Go, Co!Put, Co!Local, L, Q, W, A, N, B, G, X, Y
    <2>2. CoTo(t, G, L, Q, W, A, N, B - 1, "rd", [then |-> X, raised |-> Y])
      BY <1>4, <1>6, <1>7, <1>38, <2>1 DEF CoTo, Co!ReadLower, Co!Step, Co!At, Co!Go, Co!Put,
         Co!Local, L, Q, W, A, N, B, G, X, Y
    <2>11. CoArgs(G, L, Q, W, A, N, B - 1, "rd", [then |-> X, raised |-> Y])
      BY <1>0, <1>2, <2>1 DEF CoArgs, CoLabels, CoAcquiring, CoOwning, CoReleasing, CoTrying,
         CoReading
    <2>12. CoThen("rd", X) /\ CoTakes(t, L, "rd") /\ CoTakesAll(t, G, Q, "rd")
      BY <1>0, <1>2, <1>3, <2>1
      DEF CoThen, CoCounts, CoIn, CoAcquiring, CoReleasing, CoTrying, CoReading, CoTakes,
      CoLocal, CoOwning,
          CoTakesAll, CoGlobal, G, L
    <2>13. CoAcquires(t, L, Q, A, "rd") /\ CoReads(t, N, "rd", X)
      BY <1>0, <1>2, <1>3, <2>1
      DEF CoAcquires, CoRested, CoHeld, CoLocal, CoOwning, CoReads, CoThen, CoCounts, CoIn,
      CoReleasing,
          CoAcquiring, CoTrying, CoGlobal, Q, A, N, X, G
    <2> QED BY <1>8, <2>2, <2>11, <2>12, <2>13
  <1>39. CASE Co!ReadUnlock(t)
    <2>1. pc[t] = "rd"
      BY <1>39 DEF Co!ReadUnlock, Co!Step, Co!At, Co!Go, Co!Put, Co!Local, L, Q, W, A, N, B, G, X, Y
    <2>2. CoTo(t, G, L, Q, W, A, N - 1, B, "idle", [then |-> X, raised |-> Y])
      BY <1>4, <1>6, <1>7, <1>39, <2>1 DEF CoTo, Co!ReadUnlock, Co!Step, Co!At, Co!Go, Co!Put,
         Co!Local, L, Q, W, A, N, B, G, X, Y
    <2>11. CoArgs(G, L, Q, W, A, N - 1, B, "idle", [then |-> X, raised |-> Y])
      BY <1>0, <1>2, <2>1 DEF CoArgs, CoLabels, CoAcquiring, CoOwning, CoReleasing, CoTrying,
         CoReading
    <2>12. CoThen("idle", X) /\ CoTakes(t, L, "idle") /\ CoTakesAll(t, G, Q, "idle")
      BY <1>0, <1>2, <1>3, <2>1
      DEF CoThen, CoCounts, CoIn, CoAcquiring, CoReleasing, CoTrying, CoReading, CoTakes,
      CoLocal, CoOwning,
          CoTakesAll, CoGlobal, G, L
    <2>13. CoAcquires(t, L, Q, A, "idle") /\ CoReads(t, N - 1, "idle", X)
      BY <1>0, <1>2, <1>3, <2>1
      DEF CoAcquires, CoRested, CoHeld, CoLocal, CoOwning, CoReads, CoThen, CoCounts, CoIn,
      CoReleasing,
          CoAcquiring, CoTrying, CoGlobal, Q, A, N, X, G
    <2> QED BY <1>8, <2>2, <2>11, <2>12, <2>13
  <1> QED BY <1>9, <1>10, <1>11, <1>12, <1>13, <1>14, <1>15, <1>16, <1>17, <1>18, <1>19, <1>20,
             <1>21, <1>22, <1>23, <1>24, <1>25, <1>26, <1>27, <1>28, <1>29, <1>30, <1>31, <1>32,
               <1>33, <1>34, <1>35, <1>36, <1>37, <1>38, <1>39 DEF Co!Calls, Co!Steps

-----------------------------------------------------------------------------
(* The steps of ck_sequence.                                                 *)

\* The sequence number goes on by one, and from even to odd or back.
LEMMA SqIncrement ==
  ASSUME NEW a \in 0 .. SequenceWrap - 1, NEW b \in 0 .. SequenceWrap - 1
  PROVE  /\ (b + 1) % SequenceWrap \in 0 .. SequenceWrap - 1
         /\ ((b + 1) % SequenceWrap) % 2 = 0 <=> b % 2 # 0
         /\ Ahead(SequenceWrap, a, b) = 0 <=> a = b
         /\ Ahead(SequenceWrap, a, b) \in 0 .. SequenceWrap - 1
         /\ Ahead(SequenceWrap, a, b) + 1 < SequenceWrap =>
              Ahead(SequenceWrap, a, (b + 1) % SequenceWrap) = Ahead(SequenceWrap, a, b) + 1
  <1>1. SequenceWrap \in Nat \ {0} /\ SequenceWrap % 2 = 0
    BY SyncAssumption
  <1>2. (b + 1) % SequenceWrap = IF b + 1 = SequenceWrap THEN 0 ELSE b + 1
    BY <1>1, Increment
  <1>3. ((b + 1) % SequenceWrap) % 2 = 0 <=> b % 2 # 0
    BY <1>1, <1>2
  <1>4. /\ (b + 1) % SequenceWrap \in 0 .. SequenceWrap - 1
        /\ Ahead(SequenceWrap, a, b) = 0 <=> a = b
        /\ Ahead(SequenceWrap, a, b) \in 0 .. SequenceWrap - 1
        /\ Ahead(SequenceWrap, a, b) + 1 < SequenceWrap =>
              Ahead(SequenceWrap, a, (b + 1) % SequenceWrap) = Ahead(SequenceWrap, a, b) + 1
    <2>1. SequenceWrap \in Nat \ {0}
      BY <1>1
    <2> QED BY <2>1, AheadIncrement
  <1> QED BY <1>3, <1>4

\* The steps of ck_sequence preserve the invariant.
LEMMA SqStep ==
  ASSUME SqInv, NEW t \in Threads, Sq!Calls(t) \/ Sq!Steps(t)
  PROVE  SqInv'
  <1>0. /\ NULL \notin Threads /\ SequenceWrap \in Nat
        /\ MaxLag \in Nat /\ 2 * MaxLag < SequenceWrap
    BY SyncAssumption
  <1>1. SqType' /\ Moved(pc, pc', t)
    <2>0. (m.sequence + 1) % SequenceWrap \in 0 .. SequenceWrap - 1
      BY SqIncrement DEF SqInv, SqType
    <2>99. \A v \in Int : (v + 1) % (SequenceWrap \div 2) \in Int
      BY SyncAssumption
    <2> USE <1>0, <2>0, <2>99 DEF SqInv, SqType, SqLabels, Sq!At, Sq!Go, Sq!Step, Sq!Put,
      Sq!With, Sq!Local, Sq!Clear, Moved
    <2>1. CASE Sq!WriteBegin(t)
      <3>1. m' = [sequence |-> (m.sequence + 1) % SequenceWrap, mutex |-> t, x |-> m.x, y |-> m.y]
        BY <2>1 DEF Sq!WriteBegin
      <3>2. m' \in [sequence : 0 .. SequenceWrap - 1, mutex : Threads \cup {NULL}, x : Int, y : Int]
        BY <3>1
      <3>3. r' = [u \in Threads |-> IF Sq!Reading(u) THEN [r[u] EXCEPT !.lag = @ + 1] ELSE r[u]]
            /\ \A u \in Threads : Sq!Reading(u) => r[u].lag < MaxLag
        BY <2>1 DEF Sq!WriteBegin
      <3>4. ASSUME NEW u \in Threads
            PROVE  r'[u] \in [version : 0 .. SequenceWrap - 1, x : Int, y : Int, lag : 0 .. MaxLag]
        BY <3>3
      <3>5. r' \in [Threads -> [version : 0 .. SequenceWrap - 1, x : Int, y : Int,
              lag : 0 .. MaxLag]]
        BY <3>3, <3>4
      <3> QED BY <2>1, <3>2, <3>5 DEF Sq!WriteBegin
    <2>2. CASE Sq!WriteX(t)
      BY <2>2 DEF Sq!WriteX, Sq!Reading
    <2>3. CASE Sq!WriteY(t)
      BY <2>3 DEF Sq!WriteY, Sq!Reading
    <2>4. CASE Sq!WriteEnd(t)
      BY <2>4 DEF Sq!WriteEnd, Sq!Reading
    <2>5. CASE Sq!ReadCall(t)
      BY <2>5 DEF Sq!ReadCall, Sq!Reading
    <2>6. CASE Sq!ReadBegin(t)
      BY <2>6 DEF Sq!ReadBegin, Sq!Reading
    <2>7. CASE Sq!ReadX(t)
      BY <2>7 DEF Sq!ReadX, Sq!Reading
    <2>8. CASE Sq!ReadY(t)
      BY <2>8 DEF Sq!ReadY, Sq!Reading
    <2>9. CASE Sq!ReadRetry(t)
      <3>1. CASE m.sequence = r[t].version
        BY <2>9, <3>1 DEF Sq!ReadRetry
      <3>2. CASE m.sequence # r[t].version
        BY <2>9, <3>2 DEF Sq!ReadRetry
      <3> QED BY <3>1, <3>2
    <2>10. CASE Sq!ReadDone(t)
      BY <2>10 DEF Sq!ReadDone, Sq!Reading
    <2> QED BY <2>1, <2>2, <2>3, <2>4, <2>5, <2>6, <2>7, <2>8, <2>9, <2>10 DEF Sq!Calls, Sq!Steps
  <1>2. ASSUME NEW u \in Threads
        PROVE  /\ Ahead(SequenceWrap, r[u].version, m.sequence) = 0 <=> r[u].version = m.sequence
               /\ Ahead(SequenceWrap, r[u].version, m.sequence) \in 0 .. SequenceWrap - 1
               /\ Ahead(SequenceWrap, r[u].version, m.sequence) + 1 < SequenceWrap =>
                    Ahead(SequenceWrap, r[u].version, (m.sequence + 1) % SequenceWrap)
                      = Ahead(SequenceWrap, r[u].version, m.sequence) + 1
    <2>1. r[u].version \in 0 .. SequenceWrap - 1 /\ m.sequence \in 0 .. SequenceWrap - 1
      BY DEF SqInv, SqType
    <2> QED BY <2>1, SqIncrement
  <1>3. Ahead(SequenceWrap, m.sequence, m.sequence) = 0
    <2>1. m.sequence \in 0 .. SequenceWrap - 1
      BY DEF SqInv, SqType
    <2> QED BY <2>1, SqIncrement
  <1>4. /\ (m.sequence + 1) % SequenceWrap \in 0 .. SequenceWrap - 1
        /\ ((m.sequence + 1) % SequenceWrap) % 2 = 0 <=> m.sequence % 2 # 0
    <2>1. m.sequence \in 0 .. SequenceWrap - 1
      BY DEF SqInv, SqType
    <2> QED BY <2>1, SqIncrement
  <1> USE <1>0, <1>1 DEF SqInv, SqType, SqLabels, SqCopying, SqRead, Moved, Sq!At, Sq!Go,
    Sq!Step, Sq!Put, Sq!With, Sq!Local, Sq!Clear
  <1>5. CASE Sq!WriteBegin(t)
    <2>1. m' = [sequence |-> (m.sequence + 1) % SequenceWrap, mutex |-> t, x |-> m.x,
            y |-> m.y] /\ m.mutex = NULL
      BY <1>5 DEF Sq!WriteBegin
    <2>2. /\ \A u \in Threads : pc[u] \in SqCopying => r[u].lag < MaxLag
               /\ r'[u] = [r[u] EXCEPT !.lag = @ + 1]
          /\ \A u \in Threads : pc[u] \notin SqCopying => r'[u] = r[u]
      BY <1>5 DEF Sq!WriteBegin, Sq!Reading
    <2>3. ASSUME NEW u \in Threads, pc'[u] \in SqCopying
          PROVE  SqRead(u)'
      <3>1. u # t /\ pc'[u] = pc[u]
        BY <1>5, <2>3 DEF Sq!WriteBegin
      <3>2. Ahead(SequenceWrap, r[u].version, m.sequence) = 2 * r[u].lag /\ r[u].lag < MaxLag
        BY <2>1, <2>2, <2>3, <3>1
      <3>3. Ahead(SequenceWrap, r[u].version, m'.sequence) = 2 * r[u].lag + 1
        BY <1>2, <2>1, <3>2
      <3>4. r'[u].version = r[u].version /\ r'[u].lag = r[u].lag + 1
        BY <2>2, <2>3, <3>1
      <3>5. Ahead(SequenceWrap, r'[u].version, m'.sequence) = 2 * r'[u].lag - 1 /\ r'[u].lag # 0
        <4>1. r[u].lag \in Nat
          OBVIOUS
        <4> HIDE DEF SqInv, SqRead, SqType
        <4> QED BY <3>2, <3>3, <3>4, <4>1
      <3>6. m'.mutex = t /\ t # NULL
        BY <2>1
      <3> QED BY <3>5, <3>6
    <2> QED BY <1>4, <1>5, <2>1, <2>2, <2>3 DEF Sq!WriteBegin
  <1>6. CASE Sq!WriteX(t)
    BY <1>6 DEF Sq!WriteX
  <1>7. CASE Sq!WriteY(t)
    BY <1>7 DEF Sq!WriteY
  <1>8. CASE Sq!WriteEnd(t)
    <2>1. /\ m' = [sequence |-> (m.sequence + 1) % SequenceWrap, mutex |-> NULL, x |-> m.x,
               y |-> m.y]
          /\ m.mutex = t /\ r' = r
      BY <1>8 DEF Sq!WriteEnd
    <2>3. ASSUME NEW u \in Threads, pc'[u] \in SqCopying
          PROVE  SqRead(u)'
      <3>1. u # t /\ pc'[u] = pc[u]
        BY <1>8, <2>3 DEF Sq!WriteEnd
      <3>2. Ahead(SequenceWrap, r[u].version, m.sequence) = 2 * r[u].lag - 1
              /\ r[u].lag \in 1 .. MaxLag
        BY <2>1, <2>3, <3>1
      <3>3. Ahead(SequenceWrap, r[u].version, m'.sequence) = 2 * r[u].lag
        BY <1>2, <2>1, <3>2
      <3> QED BY <2>1, <3>2, <3>3
    <2> QED BY <1>4, <1>8, <2>1, <2>3 DEF Sq!WriteEnd
  <1>9. CASE Sq!ReadCall(t)
    BY <1>9 DEF Sq!ReadCall
  <1>10. CASE Sq!ReadBegin(t)
    <2>1. m' = m /\ m.mutex = NULL /\ r'[t].version = m.sequence /\ r'[t].lag = 0
          /\ \A u \in Threads \ {t} : r'[u] = r[u]
      BY <1>10 DEF Sq!ReadBegin
    <2> QED BY <1>3, <1>10, <2>1 DEF Sq!ReadBegin
  <1>11. CASE Sq!ReadX(t)
    BY <1>11 DEF Sq!ReadX
  <1>12. CASE Sq!ReadY(t)
    BY <1>12 DEF Sq!ReadY
  <1>13. CASE Sq!ReadRetry(t)
    <2>2. m.sequence = r[t].version => r[t].lag = 0
      BY <1>2, <1>13 DEF Sq!ReadRetry
    <2>3. CASE m.sequence = r[t].version
      BY <1>13, <2>2, <2>3 DEF Sq!ReadRetry
    <2>4. CASE m.sequence # r[t].version
      <3>1. m' = m /\ pc'[t] = "r_begin" /\ \A u \in Threads \ {t} : r'[u] = r[u]
        BY <1>13, <2>4 DEF Sq!ReadRetry
      <3>2. ASSUME NEW u \in Threads, pc'[u] \in SqCopying
            PROVE  SqRead(u)'
        <4>1. u # t /\ pc'[u] = pc[u] /\ r'[u] = r[u]
          BY <3>1, <3>2
        <4> QED BY <3>1, <3>2, <4>1
      <3>3. /\ \A u \in Threads : pc'[u] \in {"w_x", "w_y", "w_end"} <=> m'.mutex = u
            /\ m'.sequence % 2 = 0 <=> m'.mutex = NULL
        BY <1>13, <3>1 DEF Sq!ReadRetry
      <3>4. /\ (\A u \in Threads : pc'[u] # "w_y") => m'.x = m'.y
            /\ \A u \in Threads : pc'[u] = "w_y" => m'.x = (m'.y + 1) % (SequenceWrap \div 2)
            /\ \A u \in Threads : pc'[u] = "r_done" => r'[u].x = r'[u].y
        BY <1>13, <3>1 DEF Sq!ReadRetry
      <3> HIDE DEF SqRead, SqType
      <3> QED BY <3>2, <3>3, <3>4
    <2> QED BY <2>3, <2>4
  <1>14. CASE Sq!ReadDone(t)
    BY <1>14 DEF Sq!ReadDone
  <1> QED BY <1>5, <1>6, <1>7, <1>8, <1>9, <1>10, <1>11, <1>12, <1>13, <1>14 DEF Sq!Calls, Sq!Steps

-----------------------------------------------------------------------------
(* The steps of exponential_backoff.                                         *)

\* Adding to a time gives a time.
LEMMA BoAdd ==
  ASSUME NEW x \in EcBo!Times, NEW y \in EcBo!Timeouts
  PROVE  EcBo!TimespecAdd(x, y) \in EcBo!Times
  <1>0. CASE y.sec < 0 \/ y.nsec < 0 \/ y.nsec > NsecMax
    BY <1>0 DEF EcBo!TimespecAdd
  <1> SUFFICES ASSUME y \in EcBo!Times PROVE EcBo!TimespecAdd(x, y) \in EcBo!Times
    BY <1>0, SyncAssumption DEF EcBo!Times, EcBo!Timeouts
  <1> USE SyncAssumption DEF EcBo!Times, EcBo!TimespecAdd, EcBo!Carry, EcBo!Forever
  <1>1. CASE y.sec > TimeMax - x.sec
    BY <1>1
  <1>2. CASE y.sec <= TimeMax - x.sec /\ x.nsec + y.nsec <= NsecMax
    BY <1>2
  <1>3. CASE y.sec <= TimeMax - x.sec /\ x.nsec + y.nsec > NsecMax /\ x.sec + y.sec >= TimeMax
    BY <1>3
  <1>4. CASE y.sec <= TimeMax - x.sec /\ x.nsec + y.nsec > NsecMax /\ x.sec + y.sec < TimeMax
    BY <1>4
  <1> QED BY <1>1, <1>2, <1>3, <1>4

\* One second later, or the largest time.
LEMMA BoStop ==
  ASSUME NEW x \in EcBo!Times
  PROVE  /\ EcBo!TimespecAdd(x, BoSecond) = IF x.sec = TimeMax THEN EcBo!Forever
                                           ELSE [sec |-> x.sec + 1, nsec |-> x.nsec]
         /\ EcBo!TimespecAdd(x, BoSecond) \in EcBo!Times
  <1> USE SyncAssumption DEF EcBo!Times, EcBo!TimespecAdd, EcBo!Carry, EcBo!Forever, BoSecond
  <1>1. CASE x.sec = TimeMax
    BY <1>1
  <1>2. CASE x.sec < TimeMax
    BY <1>2
  <1> QED BY <1>1, <1>2

\* Adding nanoseconds gives a time that is no more than a second later.
LEMMA BoAddNs ==
  ASSUME NEW x \in EcBo!Times, NEW ns \in Nat
  PROVE  /\ EcBo!TimespecAddNs(x, ns) \in EcBo!Times
         /\ ~EcBo!Before(EcBo!TimespecAdd(x, BoSecond), EcBo!TimespecAddNs(x, ns))
  <1>0. /\ EcBo!TimespecAdd(x, BoSecond) = IF x.sec = TimeMax THEN EcBo!Forever
                                           ELSE [sec |-> x.sec + 1, nsec |-> x.nsec]
    BY BoStop
  <1> USE SyncAssumption, <1>0 DEF EcBo!Times, EcBo!TimespecAddNs, EcBo!Carry, EcBo!Forever,
    EcBo!Before
  <1>1. CASE ns <= NsecMax /\ x.nsec + ns <= NsecMax
    BY <1>1
  <1>2. CASE ns <= NsecMax /\ x.nsec + ns > NsecMax /\ x.sec >= TimeMax
    BY <1>2
  <1>3. CASE ns <= NsecMax /\ x.nsec + ns > NsecMax /\ x.sec < TimeMax
    BY <1>3
  <1>4. CASE ns > NsecMax /\ x.sec >= TimeMax
    BY <1>4
  <1>5. CASE ns > NsecMax /\ x.sec < TimeMax
    BY <1>5
  <1> QED BY <1>1, <1>2, <1>3, <1>4, <1>5

\* The wait stays a number of nanoseconds.
LEMMA BoScale ==
  ASSUME NEW ns \in Nat
  PROVE  EcBo!WaitTimeScale(ns) \in Nat
  <1> DEFINE d == 2 ^ Shift
  <1> DEFINE p == ns * Scale
  <1>1. d \in Nat \ {0} /\ UintMax \in Nat /\ Scale \in Nat
    BY SyncAssumption
  <1>2. p \in Nat
    BY <1>1
  <1>3. EcBo!WaitTimeScale(ns) = IF p >= UintMax * d THEN UintMax ELSE p \div d
    BY DEF EcBo!WaitTimeScale
  <1> HIDE DEF d, p
  <1>4. p \div d \in Nat
    BY <1>1, <1>2
  <1> QED BY <1>1, <1>3, <1>4

\* New values for some of the local variables.
LEMMA BoWithStop ==
  ASSUME NEW y \in BoLocals, NEW b, NEW s
  PROVE  EcBo!With(y, [first |-> FALSE, begin |-> b, stop |-> s]) =
           [first |-> FALSE, begin |-> b, stop |-> s, wait |-> y.wait, partial |-> y.partial,
            deadline |-> y.deadline]
  <1>1. ASSUME NEW f
        PROVE  EcBo!With(y, [first |-> f, begin |-> b, stop |-> s]) =
                 [first |-> f, begin |-> b, stop |-> s, wait |-> y.wait, partial |-> y.partial,
                  deadline |-> y.deadline]
    BY DEF EcBo!With, BoLocals
  <1> QED BY <1>1, Zenon

\* The same, with the end of the sleep.
LEMMA BoWithPartial ==
  ASSUME NEW y \in BoLocals, NEW b, NEW s, NEW q
  PROVE  EcBo!With(y, [first |-> FALSE, begin |-> b, stop |-> s, partial |-> q]) =
           [first |-> FALSE, begin |-> b, stop |-> s, wait |-> y.wait, partial |-> q,
            deadline |-> y.deadline]
  <1>1. ASSUME NEW f
        PROVE  EcBo!With(y, [first |-> f, begin |-> b, stop |-> s, partial |-> q]) =
                 [first |-> f, begin |-> b, stop |-> s, wait |-> y.wait, partial |-> q,
                  deadline |-> y.deadline]
    BY DEF EcBo!With, BoLocals
  <1> QED BY <1>1, Zenon

\* What a step of the one thread has to establish.
BoTo(t, l, x, now) ==
  /\ pc' = [pc EXCEPT ![t] = l] /\ r' = [r EXCEPT ![t] = x] /\ m' = [m EXCEPT !.now = now]
  /\ l \in {"loop", "resting"} => ~x.first
  /\ ~x.first => x.stop = EcBo!TimespecAdd(x.begin, BoSecond)
  /\ l = "resting" => /\ EcBo!Before(now, x.partial)
                      /\ ~EcBo!Before(x.stop, x.partial) \/ x.partial = x.deadline

\* Such a step preserves the invariant.
LEMMA BoThread ==
  ASSUME BoInv, NEW t, One = {t}, NEW l \in {"idle", "check", "loop", "resting"},
         NEW x \in BoLocals, NEW now \in EcBo!Times, BoTo(t, l, x, now)
  PROVE  BoInv'
  <1>1. BoType'
    <2>1. m' \in [now : EcBo!Times]
      BY DEF BoInv, BoType, BoTo
    <2>2. r' \in [One -> BoLocals] /\ pc' \in [One -> {"idle", "check", "loop", "resting"}]
      BY DEF BoInv, BoType, BoTo
    <2> QED BY <2>1, <2>2 DEF BoType
  <1>2. m'.now = now /\ pc'[t] = l /\ r'[t] = x
    BY DEF BoInv, BoType, BoTo
  <1> QED BY <1>1, <1>2 DEF BoInv, BoTo, EcBo!SleepAhead, EcBo!At

\* The steps of exponential_backoff preserve the invariant.
LEMMA BoStep ==
  ASSUME BoInv, NEW t \in One, EcBo!BackoffCalls(t) \/ EcBo!BackoffSteps(t)
  PROVE  BoInv'
  <1>0. One = {t}
    BY SyncAssumption
  <1>1. /\ EcBo!Zero \in EcBo!Times /\ [sec |-> TimeMax, nsec |-> 0] \in EcBo!Times
        /\ BoSecond \in EcBo!Times \/ TimeMax = 0
    BY SyncAssumption DEF EcBo!Zero, EcBo!Times, BoSecond
  <1>2. /\ m \in [now : EcBo!Times] /\ m.now \in EcBo!Times /\ r \in [One -> BoLocals]
        /\ r[t] \in BoLocals /\ r[t].begin \in EcBo!Times /\ r[t].stop \in EcBo!Times
        /\ r[t].wait \in Nat /\ r[t].deadline \in EcBo!Times /\ r[t].first \in BOOLEAN
        /\ r[t].partial \in EcBo!Times
    BY DEF BoInv, BoType, BoLocals
  <1>3. ASSUME NEW d \in EcBo!Times
        PROVE  EcBo!Start(d) \in BoLocals /\ EcBo!Start(d).first
                 /\ EcBo!With(r[t], EcBo!Start(d)) = EcBo!Start(d)
    BY <1>1, <1>2, SyncAssumption DEF EcBo!Start, BoLocals, EcBo!With
  <1>4. m = [m EXCEPT !.now = m.now]
    BY <1>2
  \* A new wait, or the end of one.
  <1>5. ASSUME NEW d \in EcBo!Times, NEW l \in {"idle", "check"}, EcBo!Go(t, l),
               EcBo!Put(t, EcBo!Start(d)), EcBo!Local
        PROVE  BoInv'
    <2>1. BoTo(t, l, EcBo!Start(d), m.now)
      BY <1>3, <1>4, <1>5 DEF BoTo, EcBo!Go, EcBo!Put, EcBo!Local
    <2> QED BY <1>0, <1>2, <1>3, <2>1, BoThread
  <1>6. CASE EcBo!Wait(t)
    <2>1. CASE EcBo!Put(t, EcBo!Start([sec |-> TimeMax, nsec |-> 0]))
      BY <1>1, <1>5, <1>6, <2>1 DEF EcBo!Wait, EcBo!Step
    <2>2. ASSUME NEW timeout \in EcBo!Timeouts, EcBo!Put(t, EcBo!Start(EcBo!TimespecAdd(m.now,
                   timeout)))
          PROVE  BoInv'
      <3>1. EcBo!TimespecAdd(m.now, timeout) \in EcBo!Times
        BY <1>2, BoAdd
      <3> QED BY <1>5, <1>6, <2>2, <3>1 DEF EcBo!Wait, EcBo!Step
    <2> QED BY <1>6, <2>1, <2>2 DEF EcBo!Wait
  <1>7. CASE EcBo!Check(t)
    <2>1. CASE EcBo!Go(t, "idle") /\ EcBo!Put(t, EcBo!Start(EcBo!Zero)) /\ EcBo!Local
      BY <1>1, <1>5, <2>1
    <2> DEFINE begin(now) == IF r[t].first THEN now ELSE r[t].begin
    <2> DEFINE stop(now) == IF r[t].first THEN EcBo!TimespecAdd(now, BoSecond) ELSE r[t].stop
    <2>2. ASSUME NEW now \in EcBo!Times,
                 EcBo!Before(now, r[t].deadline), m' = [m EXCEPT !.now = now],
                 IF EcBo!Before(now, stop(now))
                 THEN EcBo!Go(t, "loop")
                   /\ EcBo!Put(t, [first |-> FALSE, begin |-> begin(now), stop |-> stop(now)])
                 ELSE /\ EcBo!Go(t, "resting")
                      /\ EcBo!Put(t, [first |-> FALSE, begin |-> begin(now), stop |-> stop(now),
                                      partial |-> r[t].deadline])
          PROVE  BoInv'
      <3>1. begin(now) \in EcBo!Times /\ stop(now) \in EcBo!Times
            /\ stop(now) = EcBo!TimespecAdd(begin(now), BoSecond)
        BY <1>2, BoStop DEF BoInv
      <3> HIDE DEF begin, stop
      <3>2. CASE EcBo!Before(now, stop(now))
        <4> DEFINE x == [first |-> FALSE, begin |-> begin(now), stop |-> stop(now),
          wait |-> r[t].wait,
                         partial |-> r[t].partial, deadline |-> r[t].deadline]
        <4>1. x \in BoLocals
          BY <1>2, <3>1 DEF BoLocals
        <4>2. EcBo!With(r[t], [first |-> FALSE, begin |-> begin(now), stop |-> stop(now)]) = x
          BY <1>2, BoWithStop, Zenon
        <4>3. BoTo(t, "loop", x, now)
          BY <2>2, <3>1, <3>2, <4>2 DEF BoTo, EcBo!Go, EcBo!Put
        <4> HIDE DEF x
        <4> QED BY <1>0, <4>1, <4>3, BoThread
      <3>3. CASE ~EcBo!Before(now, stop(now))
        <4> DEFINE x == [first |-> FALSE, begin |-> begin(now), stop |-> stop(now),
          wait |-> r[t].wait,
                         partial |-> r[t].deadline, deadline |-> r[t].deadline]
        <4>1. x \in BoLocals
          BY <1>2, <3>1 DEF BoLocals
        <4>2. EcBo!With(r[t], [first |-> FALSE, begin |-> begin(now), stop |-> stop(now),
                               partial |-> r[t].deadline]) = x
          <5>1. r[t] \in BoLocals
            BY <1>2
          <5>2. ASSUME NEW b, NEW s, NEW q
                PROVE  EcBo!With(r[t], [first |-> FALSE, begin |-> b, stop |-> s, partial |-> q]) =
                         [first |-> FALSE, begin |-> b, stop |-> s, wait |-> r[t].wait,
                          partial |-> q, deadline |-> r[t].deadline]
            BY <5>1, BoWithPartial
          <5> QED BY <5>2, Zenon
        <4>3. BoTo(t, "resting", x, now)
          BY <2>2, <3>1, <3>3, <4>2 DEF BoTo, EcBo!Go, EcBo!Put
        <4> HIDE DEF x
        <4> QED BY <1>0, <4>1, <4>3, BoThread
      <3> QED BY <3>2, <3>3
    <2> QED BY <1>7, <2>1, <2>2 DEF EcBo!Check, BoSecond
  <1>8. CASE EcBo!Loop(t)
    <2> DEFINE partial == EcBo!TimespecAddNs(r[t].begin, r[t].wait)
    <2> DEFINE wait == EcBo!WaitTimeScale(r[t].wait)
    <2> DEFINE x == [first |-> r[t].first, begin |-> r[t].begin, stop |-> r[t].stop, wait |-> wait,
                     partial |-> partial, deadline |-> r[t].deadline]
    <2>1. wait \in Nat /\ partial \in EcBo!Times
      BY <1>2, BoScale, BoAddNs
    <2>2. ~r[t].first /\ r[t].stop = EcBo!TimespecAdd(r[t].begin, BoSecond)
      BY <1>8 DEF BoInv, EcBo!Loop, EcBo!At
    <2>3. ~EcBo!Before(r[t].stop, partial)
      BY <1>2, <2>2, BoAddNs
    <2>4. x \in BoLocals
      BY <1>2, <2>1 DEF BoLocals
    <2>5. EcBo!With(r[t], [partial |-> partial, wait |-> wait]) = x
      BY <1>2 DEF EcBo!With, BoLocals
    <2> DEFINE l == IF EcBo!Before(m.now, partial) THEN "resting" ELSE "loop"
    <2>6. BoTo(t, l, x, m.now)
      BY <1>4, <1>8, <2>2, <2>3, <2>5 DEF BoTo, EcBo!Loop, EcBo!Go, EcBo!Put, EcBo!Local
    <2>7. l \in {"idle", "check", "loop", "resting"}
      OBVIOUS
    <2> HIDE DEF x, l
    <2> QED BY <1>0, <1>2, <2>4, <2>6, <2>7, BoThread
  <1>9. CASE EcBo!Rest(t)
    <2>1. CASE EcBo!Go(t, "idle") /\ EcBo!Put(t, EcBo!Start(EcBo!Zero)) /\ EcBo!Local
      BY <1>1, <1>5, <2>1
    <2>2. CASE EcBo!Go(t, "check") /\ EcBo!Put(t, [partial |-> EcBo!Zero]) /\ EcBo!Local
      <3> DEFINE x == [first |-> r[t].first, begin |-> r[t].begin, stop |-> r[t].stop,
        wait |-> r[t].wait,
                       partial |-> EcBo!Zero, deadline |-> r[t].deadline]
      <3>1. x \in BoLocals
        BY <1>1, <1>2 DEF BoLocals
      <3>2. EcBo!With(r[t], [partial |-> EcBo!Zero]) = x
        BY <1>2 DEF EcBo!With, BoLocals
      <3>3. BoTo(t, "check", x, m.now)
        BY <1>4, <2>2, <3>2 DEF BoTo, BoInv, EcBo!Go, EcBo!Put, EcBo!Local
      <3> HIDE DEF x
      <3> QED BY <1>0, <1>2, <3>1, <3>3, BoThread
    <2> QED BY <1>9, <2>1, <2>2 DEF EcBo!Rest
  <1> QED BY <1>6, <1>7, <1>8, <1>9 DEF EcBo!BackoffCalls, EcBo!BackoffSteps

-----------------------------------------------------------------------------
(* The steps of barriers and event counts.                                   *)

\* Where the threads of barriers and event counts go.
OtherLabels ==
  {"idle", "count", "reset", "release", "spin", "signal", "wait", "play", "crown", "lost", "wakeup",
   "check", "reinitialize", "arrive", "wake0", "wake1", "clear", "wake", "return", "value", "slow",
   "easy", "upgrade", "easy_flagged", "backoff", "sleep", "sleep_forever", "asleep",
   "asleep_forever", "woken", "again"}
OtherGo(t) == pc' = pc \/ \E label \in OtherLabels : pc' = [pc EXCEPT ![t] = label]

\* Threads of the centralized barrier go to these labels only.
LEMMA CeGoes ==
  ASSUME NEW t, BarrierCe!CentralizedCalls(t) \/ BarrierCe!CentralizedSteps(t)
  PROVE  OtherGo(t)
  <1>1. CASE BarrierCe!CentralizedBarrier(t)
    BY <1>1 DEF OtherGo, OtherLabels, BarrierCe!CentralizedBarrier, BarrierCe!Step, BarrierCe!Go
  <1>2. CASE BarrierCe!CentralizedCount(t)
    BY <1>2 DEF OtherGo, OtherLabels, BarrierCe!CentralizedCount, BarrierCe!Step, BarrierCe!Go
  <1>3. CASE BarrierCe!CentralizedLast(t)
    BY <1>3 DEF OtherGo, OtherLabels, BarrierCe!CentralizedLast, BarrierCe!Step, BarrierCe!Go
  <1>4. CASE BarrierCe!CentralizedSpin(t)
    BY <1>4 DEF OtherGo, OtherLabels, BarrierCe!CentralizedSpin, BarrierCe!Step, BarrierCe!Go
  <1> QED BY <1>1, <1>2, <1>3, <1>4 DEF BarrierCe!CentralizedCalls, BarrierCe!CentralizedSteps

\* Threads of the combining barrier go to these labels only.
LEMMA CbGoes ==
  ASSUME NEW t, BarrierCo!CombiningCalls(t) \/ BarrierCo!CombiningSteps(t)
  PROVE  OtherGo(t)
  <1>1. CASE BarrierCo!CombiningGroupInit(t)
    BY <1>1 DEF OtherGo, OtherLabels, BarrierCo!CombiningGroupInit
  <1>2. CASE BarrierCo!CombiningBarrier(t)
    BY <1>2 DEF OtherGo, OtherLabels, BarrierCo!CombiningBarrier, BarrierCo!Step, BarrierCo!Go
  <1>3. CASE BarrierCo!CombiningCount(t)
    BY <1>3 DEF OtherGo, OtherLabels, BarrierCo!CombiningCount, BarrierCo!Step, BarrierCo!Go,
       BarrierCo!CombiningReturn
  <1>4. CASE BarrierCo!CombiningSpin(t)
    BY <1>4 DEF OtherGo, OtherLabels, BarrierCo!CombiningSpin, BarrierCo!Step, BarrierCo!Go,
       BarrierCo!CombiningReturn
  <1>5. CASE BarrierCo!CombiningLast(t)
    BY <1>5 DEF OtherGo, OtherLabels, BarrierCo!CombiningLast, BarrierCo!Step, BarrierCo!Go,
       BarrierCo!CombiningReturn
  <1> QED BY <1>1, <1>2, <1>3, <1>4, <1>5 DEF BarrierCo!CombiningCalls, BarrierCo!CombiningSteps

\* Threads of the dissemination barrier go to these labels only.
LEMMA DiGoes ==
  ASSUME NEW t, BarrierDi!DisseminationCalls(t) \/ BarrierDi!DisseminationSteps(t)
  PROVE  OtherGo(t)
  <1>1. CASE BarrierDi!DisseminationSubscribe(t)
    BY <1>1 DEF OtherGo, OtherLabels, BarrierDi!DisseminationSubscribe, BarrierDi!Step, BarrierDi!Go
  <1>2. CASE BarrierDi!DisseminationBarrier(t)
    BY <1>2 DEF OtherGo, OtherLabels, BarrierDi!DisseminationBarrier, BarrierDi!Step, BarrierDi!Go
  <1>3. CASE BarrierDi!DisseminationSignal(t)
    BY <1>3 DEF OtherGo, OtherLabels, BarrierDi!DisseminationSignal, BarrierDi!Step, BarrierDi!Go
  <1>4. CASE BarrierDi!DisseminationWait(t)
    BY <1>4 DEF OtherGo, OtherLabels, BarrierDi!DisseminationWait, BarrierDi!Step, BarrierDi!Go
  <1> QED BY <1>1, <1>2, <1>3, <1>4 DEF BarrierDi!DisseminationCalls, BarrierDi!DisseminationSteps

\* Threads of the tournament barrier go to these labels only.
LEMMA ToGoes ==
  ASSUME NEW t, BarrierTo!TournamentCalls(t) \/ BarrierTo!TournamentSteps(t)
  PROVE  OtherGo(t)
  <1>1. CASE BarrierTo!TournamentSubscribe(t)
    BY <1>1 DEF OtherGo, OtherLabels, BarrierTo!TournamentSubscribe, BarrierTo!Step, BarrierTo!Go
  <1>2. CASE BarrierTo!TournamentBarrier(t)
    BY <1>2 DEF OtherGo, OtherLabels, BarrierTo!TournamentBarrier, BarrierTo!Step, BarrierTo!Go
  <1>3. CASE BarrierTo!TournamentPlay(t)
    BY <1>3 DEF OtherGo, OtherLabels, BarrierTo!TournamentPlay, BarrierTo!Step, BarrierTo!Go
  <1>4. CASE BarrierTo!TournamentCrown(t)
    BY <1>4 DEF OtherGo, OtherLabels, BarrierTo!TournamentCrown, BarrierTo!Step, BarrierTo!Go
  <1>5. CASE BarrierTo!TournamentLost(t)
    BY <1>5 DEF OtherGo, OtherLabels, BarrierTo!TournamentLost, BarrierTo!Step, BarrierTo!Go
  <1>6. CASE BarrierTo!TournamentWakeup(t)
    BY <1>6 DEF OtherGo, OtherLabels, BarrierTo!TournamentWakeup, BarrierTo!Step, BarrierTo!Go
  <1> QED BY <1>1, <1>2, <1>3, <1>4, <1>5, <1>6 DEF BarrierTo!TournamentCalls,
             BarrierTo!TournamentSteps

\* Threads of the MCS barrier go to these labels only.
LEMMA McGoes ==
  ASSUME NEW t, BarrierMc!McsCalls(t) \/ BarrierMc!McsSteps(t)
  PROVE  OtherGo(t)
  <1>1. CASE BarrierMc!McsSubscribe(t)
    BY <1>1 DEF OtherGo, OtherLabels, BarrierMc!McsSubscribe, BarrierMc!Step, BarrierMc!Go
  <1>2. CASE BarrierMc!McsBarrier(t)
    BY <1>2 DEF OtherGo, OtherLabels, BarrierMc!McsBarrier, BarrierMc!Step, BarrierMc!Go
  <1>3. CASE BarrierMc!McsCheck(t)
    BY <1>3 DEF OtherGo, OtherLabels, BarrierMc!McsCheck, BarrierMc!Step, BarrierMc!Go
  <1>4. CASE BarrierMc!McsReinitialize(t)
    BY <1>4 DEF OtherGo, OtherLabels, BarrierMc!McsReinitialize, BarrierMc!Step, BarrierMc!Go
  <1>5. CASE BarrierMc!McsArrive(t)
    BY <1>5 DEF OtherGo, OtherLabels, BarrierMc!McsArrive, BarrierMc!Step, BarrierMc!Go
  <1>6. CASE BarrierMc!McsWait(t)
    BY <1>6 DEF OtherGo, OtherLabels, BarrierMc!McsWait, BarrierMc!Step, BarrierMc!Go
  <1>7. CASE BarrierMc!McsWake(t)
    BY <1>7 DEF OtherGo, OtherLabels, BarrierMc!McsWake, BarrierMc!Step, BarrierMc!Go
  <1> QED BY <1>1, <1>2, <1>3, <1>4, <1>5, <1>6, <1>7 DEF BarrierMc!McsCalls, BarrierMc!McsSteps

\* Threads of an event count of many producers go to these labels only.
LEMMA MpGoes ==
  ASSUME NEW t, EcMp!Calls(t) \/ EcMp!Steps(t)
  PROVE  OtherGo(t)
  <1>1. CASE EcMp!AddMp(t)
    BY <1>1 DEF OtherGo, OtherLabels, EcMp!AddMp, EcMp!Step, EcMp!Go, EcMp!WakeIf
  <1>2. CASE EcMp!AddSp(t)
    BY <1>2 DEF OtherGo, OtherLabels, EcMp!AddSp, EcMp!Step, EcMp!Go, EcMp!WakeIf
  <1>3. CASE EcMp!Snapshot(t)
    BY <1>3 DEF OtherGo, OtherLabels, EcMp!Snapshot, EcMp!Step, EcMp!Go
  <1>4. CASE EcMp!Spurious(t)
    BY <1>4 DEF OtherGo, OtherLabels, EcMp!Spurious, EcMp!Step, EcMp!Go
  <1>5. CASE EcMp!Store(t)
    BY <1>5 DEF OtherGo, OtherLabels, EcMp!Store
  <1>6. CASE EcMp!ClearFlag(t)
    BY <1>6 DEF OtherGo, OtherLabels, EcMp!ClearFlag, EcMp!Step, EcMp!Go
  <1>7. CASE EcMp!Wake(t)
    BY <1>7 DEF OtherGo, OtherLabels, EcMp!Wake, EcMp!Step, EcMp!Go
  <1>8. CASE EcMp!WaitValue(t)
    BY <1>8 DEF OtherGo, OtherLabels, EcMp!WaitValue, EcMp!Step, EcMp!Go, EcMp!Return
  <1>9. CASE EcMp!WaitSlow(t)
    BY <1>9 DEF OtherGo, OtherLabels, EcMp!WaitSlow, EcMp!Step, EcMp!Go, EcMp!Return
  <1>10. CASE EcMp!WaitEasy(t)
    BY <1>10 DEF OtherGo, OtherLabels, EcMp!WaitEasy, EcMp!Step, EcMp!Go, EcMp!Return
  <1>11. CASE EcMp!Upgrade(t)
    BY <1>11 DEF OtherGo, OtherLabels, EcMp!Upgrade, EcMp!Step, EcMp!Go, EcMp!Return
  <1>12. CASE EcMp!WaitEasyFlagged(t)
    BY <1>12 DEF OtherGo, OtherLabels, EcMp!WaitEasyFlagged, EcMp!Step, EcMp!Go, EcMp!Return
  <1>13. CASE EcMp!Backoff(t)
    BY <1>13 DEF OtherGo, OtherLabels, EcMp!Backoff, EcMp!Step, EcMp!Go, EcMp!Return
  <1>14. CASE EcMp!Sleep(t)
    BY <1>14 DEF OtherGo, OtherLabels, EcMp!Sleep, EcMp!Step, EcMp!Go
  <1>15. CASE EcMp!Woken(t)
    BY <1>15 DEF OtherGo, OtherLabels, EcMp!Woken, EcMp!Step, EcMp!Go
  <1>16. CASE EcMp!Timeout(t)
    BY <1>16 DEF OtherGo, OtherLabels, EcMp!Timeout, EcMp!Step, EcMp!Go
  <1>17. CASE EcMp!AfterSleep(t)
    BY <1>17 DEF OtherGo, OtherLabels, EcMp!AfterSleep, EcMp!Step, EcMp!Go
  <1>18. CASE EcMp!WaitAgain(t)
    BY <1>18 DEF OtherGo, OtherLabels, EcMp!WaitAgain, EcMp!Step, EcMp!Go, EcMp!Return
  <1>19. CASE EcMp!Done(t)
    BY <1>19 DEF OtherGo, OtherLabels, EcMp!Done, EcMp!Step, EcMp!Go
  <1> QED BY <1>1, <1>2, <1>3, <1>4, <1>5, <1>6, <1>7, <1>8, <1>9, <1>10, <1>11, <1>12, <1>13,
             <1>14, <1>15, <1>16, <1>17, <1>18, <1>19 DEF EcMp!Calls, EcMp!Steps

\* Threads of an event count of one producer go to these labels only.
LEMMA SpGoes ==
  ASSUME NEW t, EcSp!Calls(t) \/ EcSp!Steps(t)
  PROVE  OtherGo(t)
  <1>1. CASE EcSp!AddMp(t)
    BY <1>1 DEF OtherGo, OtherLabels, EcSp!AddMp, EcSp!Step, EcSp!Go, EcSp!WakeIf
  <1>2. CASE EcSp!AddSp(t)
    BY <1>2 DEF OtherGo, OtherLabels, EcSp!AddSp, EcSp!Step, EcSp!Go, EcSp!WakeIf
  <1>3. CASE EcSp!Snapshot(t)
    BY <1>3 DEF OtherGo, OtherLabels, EcSp!Snapshot, EcSp!Step, EcSp!Go
  <1>4. CASE EcSp!Spurious(t)
    BY <1>4 DEF OtherGo, OtherLabels, EcSp!Spurious, EcSp!Step, EcSp!Go
  <1>5. CASE EcSp!Store(t)
    BY <1>5 DEF OtherGo, OtherLabels, EcSp!Store
  <1>6. CASE EcSp!ClearFlag(t)
    BY <1>6 DEF OtherGo, OtherLabels, EcSp!ClearFlag, EcSp!Step, EcSp!Go
  <1>7. CASE EcSp!Wake(t)
    BY <1>7 DEF OtherGo, OtherLabels, EcSp!Wake, EcSp!Step, EcSp!Go
  <1>8. CASE EcSp!WaitValue(t)
    BY <1>8 DEF OtherGo, OtherLabels, EcSp!WaitValue, EcSp!Step, EcSp!Go, EcSp!Return
  <1>9. CASE EcSp!WaitSlow(t)
    BY <1>9 DEF OtherGo, OtherLabels, EcSp!WaitSlow, EcSp!Step, EcSp!Go, EcSp!Return
  <1>10. CASE EcSp!WaitEasy(t)
    BY <1>10 DEF OtherGo, OtherLabels, EcSp!WaitEasy, EcSp!Step, EcSp!Go, EcSp!Return
  <1>11. CASE EcSp!Upgrade(t)
    BY <1>11 DEF OtherGo, OtherLabels, EcSp!Upgrade, EcSp!Step, EcSp!Go, EcSp!Return
  <1>12. CASE EcSp!WaitEasyFlagged(t)
    BY <1>12 DEF OtherGo, OtherLabels, EcSp!WaitEasyFlagged, EcSp!Step, EcSp!Go, EcSp!Return
  <1>13. CASE EcSp!Backoff(t)
    BY <1>13 DEF OtherGo, OtherLabels, EcSp!Backoff, EcSp!Step, EcSp!Go, EcSp!Return
  <1>14. CASE EcSp!Sleep(t)
    BY <1>14 DEF OtherGo, OtherLabels, EcSp!Sleep, EcSp!Step, EcSp!Go
  <1>15. CASE EcSp!Woken(t)
    BY <1>15 DEF OtherGo, OtherLabels, EcSp!Woken, EcSp!Step, EcSp!Go
  <1>16. CASE EcSp!Timeout(t)
    BY <1>16 DEF OtherGo, OtherLabels, EcSp!Timeout, EcSp!Step, EcSp!Go
  <1>17. CASE EcSp!AfterSleep(t)
    BY <1>17 DEF OtherGo, OtherLabels, EcSp!AfterSleep, EcSp!Step, EcSp!Go
  <1>18. CASE EcSp!WaitAgain(t)
    BY <1>18 DEF OtherGo, OtherLabels, EcSp!WaitAgain, EcSp!Step, EcSp!Go, EcSp!Return
  <1>19. CASE EcSp!Done(t)
    BY <1>19 DEF OtherGo, OtherLabels, EcSp!Done, EcSp!Step, EcSp!Go
  <1> QED BY <1>1, <1>2, <1>3, <1>4, <1>5, <1>6, <1>7, <1>8, <1>9, <1>10, <1>11, <1>12, <1>13,
             <1>14, <1>15, <1>16, <1>17, <1>18, <1>19 DEF EcSp!Calls, EcSp!Steps

\* No barrier and no event count has readers or writers.
LEMMA OtherStep ==
  ASSUME OtherInv, NEW t, OtherGo(t)
  PROVE  OtherInv'
  <1>1. \A u \in DOMAIN pc' : u \in DOMAIN pc /\ (pc'[u] = pc[u] \/ pc'[u] \in OtherLabels)
    BY DEF OtherGo
  <1> QED BY <1>1 DEF OtherInv, OtherLabels

-----------------------------------------------------------------------------
(* The invariants hold when the locks have been initialized.                 *)

\* No thread is anywhere but outside, and nobody is counted.
LEMMA InIdle ==
  ASSUME NEW p, p = [t \in Threads |-> "idle"], NEW S, "idle" \notin S
  PROVE  In(p, S) = {} /\ Cardinality(In(p, S)) = 0
  <1>1. In(p, S) = {}
    BY DEF In
  <1> QED BY <1>1, FS_EmptySet

\* ck_rwlock.
LEMMA RwFirst == Rw!Init => RwInv
  <1> SUFFICES ASSUME Rw!Init PROVE RwInv
    OBVIOUS
  <1>1. /\ pc = [t \in Threads |-> "idle"] /\ r = [t \in Threads |-> [try |-> FALSE]]
        /\ \A t \in Threads : pc[t] = "idle"
    BY DEF Rw!Init
  <1>2. PICK rec \in BOOLEAN : m = [recursive |-> rec, writer |-> NULL, n_readers |-> 0, wc |-> 0]
    BY DEF Rw!Init
  <1>3. "idle" \notin RwCounted
    BY DEF RwCounted
  <1>4. m.n_readers = Cardinality(In(pc, RwCounted)) /\ m.writer = NULL
    BY <1>1, <1>2, <1>3, InIdle
  <1>5. m \in [recursive : BOOLEAN, writer : Threads \cup {NULL}, n_readers : Int, wc : Int]
    BY <1>2
  <1>6. pc \in [Threads -> RwLabels] /\ r \in [Threads -> [try : BOOLEAN]]
    BY <1>1 DEF RwLabels
  <1> QED BY <1>1, <1>4, <1>5, <1>6, SyncAssumption DEF RwInv, RwType

\* ck_swlock.
LEMMA SwFirst == Rw!SwInit => SwInv
  <1> SUFFICES ASSUME Rw!SwInit PROVE SwInv
    OBVIOUS
  <1>1. /\ pc = [t \in Threads |-> "idle"]
             /\ r = [t \in Threads |-> [try |-> FALSE, latched |-> FALSE]]
        /\ \A t \in Threads : pc[t] = "idle"
    BY DEF Rw!SwInit
  <1>2. m = [w |-> FALSE, latch |-> FALSE, n |-> 0]
    BY DEF Rw!SwInit
  <1>3. "idle" \notin SwCounted /\ "idle" \notin SwWriting /\ "idle" \in SwLabels
    BY DEF SwCounted, SwWriting, SwLabels
  <1>4. 0 = Cardinality(In(pc, SwCounted))
    BY <1>1, <1>3, InIdle
  <1>5. m \in [w : BOOLEAN, latch : BOOLEAN, n : Int] /\ ~m.w /\ ~m.latch /\ m.n = 0
    BY <1>2
  <1>6. pc \in [Threads -> SwLabels] /\ r \in [Threads -> [try : BOOLEAN, latched : BOOLEAN]]
    BY <1>1, <1>3
  <1> QED BY <1>1, <1>3, <1>4, <1>5, <1>6 DEF SwInv, SwType

\* ck_tflock.
LEMMA TfFirst == Fl!TfInit => TfInv
  <1> SUFFICES ASSUME Fl!TfInit PROVE TfInv
    OBVIOUS
  <1>1. /\ pc = [t \in Threads |-> "idle"]
        /\ r = [t \in Threads |-> [previous |-> [rc |-> 0, wc |-> 0]]]
        /\ m = [request |-> [rc |-> 0, wc |-> 0], completion |-> [rc |-> 0, wc |-> 0]]
        /\ \A t \in Threads : pc[t] = "idle"
    BY DEF Fl!TfInit
  <1>2. Top \in Nat /\ Top # 0
    <2>1. Cardinality(Threads) \in Nat
      BY SyncAssumption, FS_CardinalityType
    <2> QED BY <2>1, SyncAssumption
  <1>3. [rc |-> 0, wc |-> 0] \in TfCounters
    BY <1>2 DEF TfCounters
  <1>4. TfType
    BY <1>1, <1>3 DEF TfType
  <1>5. "idle" \notin TfW /\ "idle" \notin TfR
    BY DEF TfW, TfR
  <1>6. /\ In(pc, TfW) = {} /\ Cardinality(In(pc, TfW)) = 0
        /\ In(pc, TfR) = {} /\ Cardinality(In(pc, TfR)) = 0
    BY <1>1, <1>5, InIdle
  <1>7. TfAhead(m.completion.wc, m.request.wc) = 0 /\ TfAhead(m.completion.rc, m.request.rc) = 0
    BY <1>1, <1>2 DEF TfAhead, Ahead, Low
  <1> QED BY <1>1, <1>4, <1>6, <1>7 DEF TfInv

\* ck_pflock.
LEMMA PfFirst == Fl!PfInit => PfInv
  <1> SUFFICES ASSUME Fl!PfInit PROVE PfInv
    OBVIOUS
  <1>1. /\ pc = [t \in Threads |-> "idle"]
        /\ r = [t \in Threads |-> [ticket |-> 0, phid |-> 0, passed |-> 0]]
        /\ m = [rin |-> 0, pres |-> FALSE, phid |-> 0, rout |-> 0, win |-> 0, wout |-> 0]
        /\ \A t \in Threads : pc[t] = "idle" /\ r[t].passed = 0
    BY DEF Fl!PfInit
  <1>2. 0 \in PfTickets
    <2>1. Cardinality(Threads) \in Nat
      BY SyncAssumption, FS_CardinalityType
    <2> QED BY <2>1, SyncAssumption DEF PfTickets
  <1>3. PfType
    <2>1. pc \in [Threads -> PfLabels]
      BY <1>1 DEF PfLabels
    <2>2. r \in [Threads -> [ticket : PfTickets, phid : {0, 1}, passed : 0 .. 1]]
      BY <1>1, <1>2
    <2>3. m \in [rin : PfTickets, pres : BOOLEAN, phid : {0, 1}, rout : PfTickets, win : PfTickets,
                 wout : PfTickets]
      BY <1>1, <1>2
    <2> QED BY <2>1, <2>2, <2>3 DEF PfType
  <1>4. "idle" \notin PfW /\ "idle" \notin PfR /\ "idle" \notin PfServed
    BY DEF PfW, PfR, PfServed
  <1>5. Cardinality(In(pc, PfW)) = 0 /\ Cardinality(In(pc, PfR)) = 0
    BY <1>1, <1>4, InIdle
  <1>6. PfAhead(m.wout, m.win) = 0 /\ PfAhead(m.rout, m.rin) = 0 /\ ~m.pres
    BY <1>1 DEF PfAhead, Ahead
  <1> QED BY <1>1, <1>3, <1>4, <1>5, <1>6 DEF PfInv

\* ck_brlock.
LEMMA BrFirst == Br!Init => BrInv
  <1> SUFFICES ASSUME Br!Init PROVE BrInv
    OBVIOUS
  <1>1. /\ pc = [t \in Threads |-> "idle"] /\ r = [t \in Threads |-> Br!Nothing]
        /\ m = [readers |-> <<>>, writer |-> FALSE, n_readers |-> [t \in Threads |-> 0]]
        /\ \A t \in Threads : pc[t] = "idle"
    BY DEF Br!Init
  <1>2. pc \in [Threads -> BrLabels] /\ r \in [Threads -> BrLocals]
    BY <1>1 DEF BrLabels, BrLocals, BrThen, Br!Nothing
  <1>3. m \in [readers : Seq(Threads), writer : BOOLEAN, n_readers : [Threads -> Int]] /\ ~m.writer
    BY <1>1
  <1>4. "idle" \notin BrW /\ "idle" \notin BrR
    BY DEF BrW, BrR
  <1> QED BY <1>1, <1>2, <1>3, <1>4 DEF BrInv, BrType

\* ck_bytelock.
LEMMA ByFirst == By!Init => ByInv
  <1> SUFFICES ASSUME By!Init PROVE ByInv
    OBVIOUS
  <1>1. /\ pc = [t \in Threads |-> "idle"] /\ r = [t \in Threads |-> [words |-> {}]]
        /\ \A t \in Threads : pc[t] = "idle"
    BY DEF By!Init
  <1>2. PICK slotted \in SlottedSets, use \in Uses : \E u \in slotted \cup {NULL} :
          m = [slotted |-> slotted, use |-> use, owner |-> NULL, n_readers |-> 0,
               readers |-> [t \in slotted |-> FALSE], upgrader |-> u]
    BY DEF By!Init
  <1>3. PICK u \in slotted \cup {NULL} :
          m = [slotted |-> slotted, use |-> use, owner |-> NULL, n_readers |-> 0,
               readers |-> [t \in slotted |-> FALSE], upgrader |-> u]
    BY <1>2
  <1>4. m.owner = NULL /\ m.n_readers = 0
        /\ m \in [slotted : SlottedSets, use : Uses, owner : Threads \cup {UNSLOTTED, NULL},
                  n_readers : Int, readers : [m.slotted -> BOOLEAN],
                  upgrader : m.slotted \cup {NULL}]
    BY <1>3
  <1>5. pc \in [Threads -> ByLabels] /\ r \in [Threads -> [words : SUBSET m.slotted]]
    BY <1>1 DEF ByLabels
  <1>6. Unslotted(pc, m.slotted) = {}
    BY <1>1 DEF Unslotted, ByR
  <1>7. Cardinality(Unslotted(pc, m.slotted)) = 0
    BY <1>6, FS_EmptySet
  <1>8. "idle" \notin ByW /\ "idle" \notin ByR /\ NULL \notin Threads /\ NULL # UNSLOTTED
    BY SyncAssumption DEF ByW, ByR
  <1>9. ByType
    BY <1>1, <1>4, <1>5 DEF ByType
  <1>10. ByOwned
    BY <1>1, <1>4, <1>8 DEF ByOwned
  <1>11. m.slotted \subseteq Threads
    BY <1>4, SyncAssumption
  <1>12. ByCounted
    BY <1>1, <1>4, <1>7, <1>8, <1>11 DEF ByCounted
  <1> QED BY <1>9, <1>10, <1>12 DEF ByInv

\* The cohort locks.
LEMMA CoFirst == Co!Init => CoInv
  <1> SUFFICES ASSUME Co!Init PROVE CoInv
    OBVIOUS
  <1>1. /\ pc = [t \in Threads |-> "idle"]
             /\ r = [t \in Threads |-> [then |-> "wr", raised |-> FALSE]]
        /\ \A t \in Threads : pc[t] = "idle"
    BY DEF Co!Init
  <1>2. PICK policy \in {"cohort", "wp", "rp", "neutral"} :
          m = [policy |-> policy, global |-> NULL, local |-> [c \in Cohorts |-> NULL],
               release |-> [c \in Cohorts |-> "global"], waiting |-> [c \in Cohorts |-> 0],
               acquired |-> [c \in Cohorts |-> 0], readers |-> 0, barrier |-> 0]
    BY DEF Co!Init
  <1>3. m.readers = 0 /\ \A c \in Cohorts :
          m.local[c] = NULL /\ m.release[c] = "global" /\ m.acquired[c] = 0
    BY <1>2
  <1>4. CoType
    <2>1. m \in [policy : {"cohort", "wp", "rp", "neutral"}, global : Cohorts \cup {NULL},
                 local : [Cohorts -> Threads \cup {NULL}], release : [Cohorts -> {"local",
                   "global"}],
                 waiting : [Cohorts -> Int], acquired : [Cohorts -> Int], readers : Int,
                   barrier : Int]
      BY <1>2
    <2>2. "idle" \in CoLabels
      BY DEF CoLabels
    <2> QED BY <1>1, <2>1, <2>2 DEF CoType
  <1>5. "idle" \notin CoLocal /\ "idle" \notin CoGlobal
    BY DEF CoLocal, CoGlobal, CoOwning
  <1>6. CoLocks /\ CoGlobals
    BY <1>1, <1>3, <1>5, CoCohort, SyncAssumption DEF CoLocks, CoGlobals
  <1>7. CoAcquired
    BY <1>3 DEF CoAcquired, CoRested
  <1>8. CoCounted = {} /\ CoEntered = {}
    BY <1>1 DEF CoCounted, CoEntered, CoCounts, CoIn, CoReleasing
  <1>9. CoReaders
    BY <1>3, <1>8, FS_EmptySet DEF CoReaders
  <1>10. \A t \in Threads : CoThen(pc[t], r[t].then)
    BY <1>1 DEF CoThen, CoAcquiring, CoReleasing, CoTrying, CoReading, CoCounts, CoIn
  <1> QED BY <1>4, <1>6, <1>7, <1>9, <1>10 DEF CoInv

\* ck_sequence.
LEMMA SqFirst == Sq!Init => SqInv
  <1> SUFFICES ASSUME Sq!Init PROVE SqInv
    OBVIOUS
  <1>1. /\ pc = [t \in Threads |-> "idle"]
        /\ r = [t \in Threads |-> [version |-> 0, x |-> 0, y |-> 0, lag |-> 0]]
        /\ m = [sequence |-> 0, mutex |-> NULL, x |-> 0, y |-> 0]
        /\ \A t \in Threads : pc[t] = "idle"
    BY DEF Sq!Init
  <1>2. 0 \in 0 .. SequenceWrap - 1 /\ 0 \in 0 .. MaxLag /\ 0 % 2 = 0 /\ NULL \notin Threads
    BY SyncAssumption
  <1>3. SqType
    <2>1. pc \in [Threads -> SqLabels]
      BY <1>1 DEF SqLabels
    <2> QED BY <1>1, <1>2, <2>1 DEF SqType
  <1>4. m.sequence % 2 = 0 /\ m.mutex = NULL /\ m.x = m.y
    BY <1>1, <1>2
  <1>5. "idle" \notin SqCopying
    BY DEF SqCopying
  <1> QED BY <1>1, <1>2, <1>3, <1>4, <1>5 DEF SqInv

\* exponential_backoff.
LEMMA BoFirst == EcBo!BackoffInit => BoInv
  <1> SUFFICES ASSUME EcBo!BackoffInit PROVE BoInv
    OBVIOUS
  <1>1. /\ pc = [t \in One |-> "idle"] /\ r = [t \in One |-> EcBo!Start(EcBo!Zero)]
        /\ \A t \in One : pc[t] = "idle" /\ r[t] = EcBo!Start(EcBo!Zero)
    BY DEF EcBo!BackoffInit
  <1>2. PICK now \in EcBo!Times : m = [now |-> now]
    BY DEF EcBo!BackoffInit
  <1>3. EcBo!Zero \in EcBo!Times
    BY SyncAssumption DEF EcBo!Zero, EcBo!Times
  <1>4. InitialWait \in Nat
    BY SyncAssumption
  <1>5. EcBo!Start(EcBo!Zero) \in BoLocals
    BY <1>3, <1>4 DEF EcBo!Start, BoLocals
  <1>6. BoType
    BY <1>1, <1>2, <1>5 DEF BoType
  <1>7. EcBo!Start(EcBo!Zero).first = TRUE
    BY DEF EcBo!Start
  <1>8. EcBo!SleepAhead
    BY <1>1 DEF EcBo!SleepAhead, EcBo!At
  <1> QED BY <1>1, <1>6, <1>7, <1>8 DEF BoInv

\* Barriers and event counts.
LEMMA OtherFirst ==
  ASSUME \/ BarrierCe!CentralizedInit \/ BarrierCo!CombiningInit \/ BarrierDi!DisseminationInit
         \/ BarrierTo!TournamentInit \/ BarrierMc!McsInit \/ EcMp!Init \/ EcSp!Init
  PROVE  OtherInv
  <1>1. \E S : pc = [t \in S |-> "idle"]
    BY DEF BarrierCe!CentralizedInit, BarrierCo!CombiningInit, BarrierDi!DisseminationInit,
           BarrierTo!TournamentInit, BarrierMc!McsInit, EcMp!Init, EcSp!Init, BarrierCe!Fresh,
           BarrierCo!Fresh, BarrierDi!Fresh, BarrierTo!Fresh, BarrierMc!Fresh
  <1> QED BY <1>1 DEF OtherInv

-----------------------------------------------------------------------------
(* The invariant of the specification.                                       *)

\* A step that changes nothing preserves each of the invariants.
LEMMA Stutters ==
  ASSUME UNCHANGED <<m, pc, r>>
  PROVE  /\ RwInv => RwInv'
         /\ SwInv => SwInv'
         /\ TfInv => TfInv'
         /\ PfInv => PfInv'
         /\ BrInv => BrInv'
         /\ ByInv => ByInv'
         /\ CoInv => CoInv'
         /\ SqInv => SqInv'
         /\ BoInv => BoInv'
         /\ OtherInv => OtherInv'
  <1>1. RwInv => RwInv'
    BY DEF RwInv, RwType, In
  <1>2. SwInv => SwInv'
    BY DEF SwInv, SwType, In
  <1>3. TfInv => TfInv'
    BY DEF TfInv, TfType, In, WritersBefore, ReadersBefore, Earlier
  <1>4. PfInv => PfInv'
    BY DEF PfInv, PfType, In, Blocked, Free, Turn
  <1>5. BrInv => BrInv'
    BY DEF BrInv, BrType, Br!Registered
  <1>6. ByInv => ByInv'
    BY DEF ByInv, ByType, ByOwned, ByCounted, Unslotted, By!Number
  <1>7. CoInv => CoInv'
    BY DEF CoInv, CoType, CoThen, CoLocks, CoGlobals, CoAcquired, CoReaders, CoEntered,
       CoCounted, In
  <1>8. SqInv => SqInv'
    BY DEF SqInv, SqType, SqRead
  <1>9. BoInv => BoInv'
    BY DEF BoInv, BoType, EcBo!SleepAhead, EcBo!At
  <1>10. OtherInv => OtherInv'
    BY DEF OtherInv
  <1> QED BY <1>1, <1>2, <1>3, <1>4, <1>5, <1>6, <1>7, <1>8, <1>9, <1>10

\* Whatever is initialized, its invariant holds.
LEMMA InvFirst == Init => Inv
  <1> SUFFICES ASSUME Init PROVE Inv
    OBVIOUS
  <1>1. CASE kind = "rw" /\ Rw!Init
    BY <1>1, RwFirst DEF Inv
  <1>2. CASE kind = "sw" /\ Rw!SwInit
    BY <1>2, SwFirst DEF Inv
  <1>3. CASE kind = "tf" /\ Fl!TfInit
    BY <1>3, TfFirst DEF Inv
  <1>4. CASE kind = "pf" /\ Fl!PfInit
    BY <1>4, PfFirst DEF Inv
  <1>5. CASE kind = "br" /\ Br!Init
    BY <1>5, BrFirst DEF Inv
  <1>6. CASE kind = "byte" /\ By!Init
    BY <1>6, ByFirst DEF Inv
  <1>7. CASE kind = "cohort" /\ Co!Init
    BY <1>7, CoFirst DEF Inv
  <1>8. CASE kind = "sequence" /\ Sq!Init
    BY <1>8, SqFirst DEF Inv
  <1>9. CASE kind = "backoff" /\ EcBo!BackoffInit
    BY <1>9, BoFirst DEF Inv
  <1>10. CASE kind = "barrier_centralized" /\ BarrierCe!CentralizedInit
    BY <1>10, OtherFirst DEF Inv
  <1>11. CASE kind = "barrier_combining" /\ BarrierCo!CombiningInit
    BY <1>11, OtherFirst DEF Inv
  <1>12. CASE kind = "barrier_dissemination" /\ BarrierDi!DisseminationInit
    BY <1>12, OtherFirst DEF Inv
  <1>13. CASE kind = "barrier_tournament" /\ BarrierTo!TournamentInit
    BY <1>13, OtherFirst DEF Inv
  <1>14. CASE kind = "barrier_mcs" /\ BarrierMc!McsInit
    BY <1>14, OtherFirst DEF Inv
  <1>15. CASE kind = "ec" /\ EcMp!Init
    BY <1>15, OtherFirst DEF Inv
  <1>16. CASE kind = "ec_sp" /\ EcSp!Init
    BY <1>16, OtherFirst DEF Inv
  <1> QED BY <1>1, <1>2, <1>3, <1>4, <1>5, <1>6, <1>7, <1>8, <1>9, <1>10, <1>11, <1>12, <1>13,
             <1>14, <1>15, <1>16 DEF Init

\* Every step preserves the invariant of what it is a step of.
LEMMA InvNext == Inv /\ [Next]_vars => Inv'
  <1>1. ASSUME Inv, UNCHANGED vars PROVE Inv'
    <2>1. kind' = kind /\ UNCHANGED <<m, pc, r>>
      BY <1>1 DEF vars, tvars
    <2> QED BY <1>1, <2>1, Stutters DEF Inv
  <1>2. ASSUME Inv, NEW t \in Six, Calls(t) \/ Steps(t) PROVE Inv'
    <2>0. kind' = kind /\ t \in DOMAIN pc
      BY <1>2 DEF Calls, Steps
    <2>1. CASE kind = "rw" /\ (Rw!Calls(t) \/ Rw!Steps(t))
      <3>1. RwInv
        BY <1>2, <2>1 DEF Inv
      <3>2. t \in Threads
        BY <2>0, <3>1 DEF RwInv, RwType
      <3>3. RwInv'
        BY <2>1, <3>1, <3>2, RwStep
      <3> QED BY <2>0, <2>1, <3>3 DEF Inv
    <2>2. CASE kind = "sw" /\ (Rw!SwCalls(t) \/ Rw!SwSteps(t))
      <3>1. SwInv
        BY <1>2, <2>2 DEF Inv
      <3>2. t \in Threads
        BY <2>0, <3>1 DEF SwInv, SwType
      <3>3. SwInv'
        BY <2>2, <3>1, <3>2, SwStep
      <3> QED BY <2>0, <2>2, <3>3 DEF Inv
    <2>3. CASE kind = "tf" /\ (Fl!TfCalls(t) \/ Fl!TfSteps(t))
      <3>1. TfInv
        BY <1>2, <2>3 DEF Inv
      <3>2. t \in Threads
        BY <2>0, <3>1 DEF TfInv, TfType
      <3>3. TfInv'
        BY <2>3, <3>1, <3>2, TfStep
      <3> QED BY <2>0, <2>3, <3>3 DEF Inv
    <2>4. CASE kind = "pf" /\ (Fl!PfCalls(t) \/ Fl!PfSteps(t))
      <3>1. PfInv
        BY <1>2, <2>4 DEF Inv
      <3>2. t \in Threads
        BY <2>0, <3>1 DEF PfInv, PfType
      <3>3. PfInv'
        BY <2>4, <3>1, <3>2, PfStep
      <3> QED BY <2>0, <2>4, <3>3 DEF Inv
    <2>5. CASE kind = "br" /\ (Br!Calls(t) \/ Br!Steps(t))
      <3>1. BrInv
        BY <1>2, <2>5 DEF Inv
      <3>2. t \in Threads
        BY <2>0, <3>1 DEF BrInv, BrType
      <3>3. BrInv'
        BY <2>5, <3>1, <3>2, BrStep
      <3> QED BY <2>0, <2>5, <3>3 DEF Inv
    <2>6. CASE kind = "byte" /\ (By!Calls(t) \/ By!Steps(t))
      <3>1. ByInv
        BY <1>2, <2>6 DEF Inv
      <3>2. t \in Threads
        BY <2>0, <3>1 DEF ByInv, ByType
      <3>3. ByInv'
        BY <2>6, <3>1, <3>2, ByStep
      <3> QED BY <2>0, <2>6, <3>3 DEF Inv
    <2>7. CASE kind = "cohort" /\ (Co!Calls(t) \/ Co!Steps(t))
      <3>1. CoInv
        BY <1>2, <2>7 DEF Inv
      <3>2. t \in Threads
        BY <2>0, <3>1 DEF CoInv, CoType
      <3>3. CoInv'
        BY <2>7, <3>1, <3>2, CoStep
      <3> QED BY <2>0, <2>7, <3>3 DEF Inv
    <2>8. CASE kind = "sequence" /\ (Sq!Calls(t) \/ Sq!Steps(t))
      <3>1. SqInv
        BY <1>2, <2>8 DEF Inv
      <3>2. t \in Threads
        BY <2>0, <3>1 DEF SqInv, SqType
      <3>3. SqInv'
        BY <2>8, <3>1, <3>2, SqStep
      <3> QED BY <2>0, <2>8, <3>3 DEF Inv
    <2>9. CASE kind = "backoff" /\ (EcBo!BackoffCalls(t) \/ EcBo!BackoffSteps(t))
      <3>1. BoInv
        BY <1>2, <2>9 DEF Inv
      <3>2. t \in One
        BY <2>0, <3>1 DEF BoInv, BoType
      <3>3. BoInv'
        BY <2>9, <3>1, <3>2, BoStep
      <3> QED BY <2>0, <2>9, <3>3 DEF Inv
    <2>10. CASE kind = "barrier_centralized" /\ (BarrierCe!CentralizedCalls(t)
                \/ BarrierCe!CentralizedSteps(t))
      <3>1. OtherInv /\ OtherGo(t)
        BY <1>2, <2>10, CeGoes DEF Inv
      <3>2. OtherInv'
        BY <3>1, OtherStep
      <3> QED BY <2>0, <2>10, <3>2 DEF Inv
    <2>11. CASE kind = "barrier_combining" /\ (BarrierCo!CombiningCalls(t)
                \/ BarrierCo!CombiningSteps(t))
      <3>1. OtherInv /\ OtherGo(t)
        BY <1>2, <2>11, CbGoes DEF Inv
      <3>2. OtherInv'
        BY <3>1, OtherStep
      <3> QED BY <2>0, <2>11, <3>2 DEF Inv
    <2>12. CASE kind = "barrier_dissemination" /\ (BarrierDi!DisseminationCalls(t)
                \/ BarrierDi!DisseminationSteps(t))
      <3>1. OtherInv /\ OtherGo(t)
        BY <1>2, <2>12, DiGoes DEF Inv
      <3>2. OtherInv'
        BY <3>1, OtherStep
      <3> QED BY <2>0, <2>12, <3>2 DEF Inv
    <2>13. CASE kind = "barrier_tournament" /\ (BarrierTo!TournamentCalls(t)
                \/ BarrierTo!TournamentSteps(t))
      <3>1. OtherInv /\ OtherGo(t)
        BY <1>2, <2>13, ToGoes DEF Inv
      <3>2. OtherInv'
        BY <3>1, OtherStep
      <3> QED BY <2>0, <2>13, <3>2 DEF Inv
    <2>14. CASE kind = "barrier_mcs" /\ (BarrierMc!McsCalls(t) \/ BarrierMc!McsSteps(t))
      <3>1. OtherInv /\ OtherGo(t)
        BY <1>2, <2>14, McGoes DEF Inv
      <3>2. OtherInv'
        BY <3>1, OtherStep
      <3> QED BY <2>0, <2>14, <3>2 DEF Inv
    <2>15. CASE kind = "ec" /\ (EcMp!Calls(t) \/ EcMp!Steps(t))
      <3>1. OtherInv /\ OtherGo(t)
        BY <1>2, <2>15, MpGoes DEF Inv
      <3>2. OtherInv'
        BY <3>1, OtherStep
      <3> QED BY <2>0, <2>15, <3>2 DEF Inv
    <2>16. CASE kind = "ec_sp" /\ (EcSp!Calls(t) \/ EcSp!Steps(t))
      <3>1. OtherInv /\ OtherGo(t)
        BY <1>2, <2>16, SpGoes DEF Inv
      <3>2. OtherInv'
        BY <3>1, OtherStep
      <3> QED BY <2>0, <2>16, <3>2 DEF Inv
    <2> QED BY <1>2, <2>1, <2>2, <2>3, <2>4, <2>5, <2>6, <2>7, <2>8, <2>9, <2>10, <2>11, <2>12,
               <2>13, <2>14, <2>15, <2>16 DEF Calls, Steps
  <1> QED BY <1>1, <1>2 DEF Next

\* In every reachable state the invariant of the lock under test holds.
THEOREM InvAlways == Spec => []Inv
  BY InvFirst, InvNext, PTL DEF Spec

-----------------------------------------------------------------------------
(* What the invariants are for.                                              *)

\* From the invariant of each lock: a writer excludes writers and readers.
LEMMA InvExcludes ==
  ASSUME "any" \notin Uses
  PROVE  Inv => Exclusion
  <1> SUFFICES ASSUME Inv, NEW t \in DOMAIN pc, NEW u \in DOMAIN pc, t # u,
                      pc[t] \in {"wr", "w_down"}
               PROVE  pc[u] \notin {"wr", "w_down", "rd"}
    BY DEF Exclusion, Writing, Reading
  <1>1. CASE kind = "rw"
    <2>1. RwInv
      BY <1>1 DEF Inv
    <2>2. t \in Threads /\ u \in Threads
      BY <2>1 DEF RwInv, RwType
    <2> QED BY <2>1, <2>2 DEF RwInv
  <1>2. CASE kind = "sw"
    <2>1. SwInv
      BY <1>2 DEF Inv
    <2>2. t \in Threads /\ u \in Threads
      BY <2>1 DEF SwInv, SwType
    <2> QED BY <2>1, <2>2 DEF SwInv, SwWriting
  <1>3. CASE kind = "tf"
    <2>1. TfInv
      BY <1>3 DEF Inv
    <2>2. t \in Threads /\ u \in Threads /\ pc[t] = "wr" /\ pc[u] # "w_down"
      BY <2>1 DEF TfInv, TfType
    <2>3. pc[u] # "wr"
      BY <2>1, <2>2 DEF TfInv, In, TfW
    <2>4. pc[u] # "rd"
      <3>1. Cardinality(Earlier(t)) = 0 /\ WritersBefore(t) = 0
        BY <2>1, <2>2 DEF TfInv, In, TfW
      <3>2. IsFiniteSet(Earlier(t))
        BY SyncAssumption, FS_Subset DEF Earlier, In
      <3>3. Earlier(t) = {}
        BY <3>1, <3>2, FS_EmptySet
      <3>4. pc[u] = "rd" => WritersBefore(u) = 0
        BY <2>1, <2>2 DEF TfInv
      <3>5. pc[u] = "rd" => u \in Earlier(t)
        BY <2>2, <3>1, <3>4 DEF Earlier, In, TfR
      <3> QED BY <3>3, <3>5
    <2> QED BY <2>2, <2>3, <2>4
  <1>4. CASE kind = "pf"
    <2>1. PfInv
      BY <1>4 DEF Inv
    <2>2. t \in Threads /\ u \in Threads /\ pc[t] = "wr" /\ pc[u] # "w_down"
      BY <2>1 DEF PfInv, PfType, PfLabels
    <2>3. pc[u] # "wr"
      BY <2>1, <2>2 DEF PfInv, PfServed
    <2>4. Free = {}
      BY <2>1, <2>2 DEF PfInv
    <2>5. pc[u] # "rd"
      BY <2>2, <2>4 DEF Free, PfR, Blocked
    <2> QED BY <2>2, <2>3, <2>5
  <1>5. CASE kind = "br"
    <2>1. BrInv
      BY <1>5 DEF Inv
    <2>2. t \in Threads /\ u \in Threads /\ pc[t] = "wr" /\ pc[u] # "w_down"
      BY <2>1 DEF BrInv, BrType, BrLabels
    <2> QED BY <2>1, <2>2 DEF BrInv, BrW
  <1>6. CASE kind = "byte"
    <2>1. ByInv
      BY <1>6 DEF Inv
    <2>2. t \in Threads /\ u \in Threads /\ pc[t] = "wr" /\ pc[u] # "w_down"
      BY <2>1 DEF ByInv, ByType, ByLabels
    <2>3. m.use # "any"
      BY <2>1 DEF ByInv, ByType
    <2>4. ByOwned /\ ByCounted
      BY <2>1, <2>3 DEF ByInv
    <2>5. pc[u] # "wr"
      BY <2>2, <2>4 DEF ByOwned, ByW
    <2> QED BY <2>2, <2>4, <2>5 DEF ByCounted
  <1>7. CASE kind = "cohort"
    <2>1. CoInv
      BY <1>7 DEF Inv
    <2>2. t \in Threads /\ u \in Threads /\ pc[t] = "wr" /\ pc[u] # "w_down"
      BY <2>1 DEF CoInv, CoType, CoLabels, CoAcquiring, CoOwning, CoReleasing, CoTrying, CoReading
    <2>3. pc[u] # "wr"
      <3>1. "wr" \in CoGlobal /\ "wr" \in CoLocal
        BY DEF CoGlobal, CoLocal, CoOwning
      <3>2. m.global = Co!C(t) /\ m.local[Co!C(t)] = t
        BY <2>1, <2>2, <3>1 DEF CoInv, CoLocks, CoGlobals
      <3>3. pc[u] = "wr" => m.global = Co!C(u) /\ m.local[Co!C(u)] = u
        BY <2>1, <2>2, <3>1 DEF CoInv, CoLocks, CoGlobals
      <3> QED BY <3>2, <3>3
    <2>4. CoEntered = {}
      BY <2>1, <2>2 DEF CoInv, CoReaders, In
    <2>5. pc[u] # "rd"
      BY <2>2, <2>4 DEF CoEntered, CoIn
    <2> QED BY <2>2, <2>3, <2>5
  <1>8. CASE kind = "sequence"
    <2>1. SqInv
      BY <1>8 DEF Inv
    <2> QED BY <2>1 DEF SqInv, SqType, SqLabels
  <1>9. CASE kind = "backoff"
    <2>1. BoInv
      BY <1>9 DEF Inv
    <2> QED BY <2>1 DEF BoInv, BoType
  <1>10. CASE kind \notin {"rw", "sw", "tf", "pf", "br", "byte", "cohort", "sequence", "backoff"}
    <2>1. OtherInv
      BY <1>10 DEF Inv
    <2> QED BY <2>1 DEF OtherInv
  <1> QED BY <1>1, <1>2, <1>3, <1>4, <1>5, <1>6, <1>7, <1>8, <1>9, <1>10

\* From the invariants of ck_pflock and of the cohort locks.
LEMMA InvPasses == Inv => FairPasses
  <1>1. ASSUME Inv, kind = "pf" PROVE Fl!PfPhaseFair
    <2>1. PfType
      BY <1>1 DEF Inv, PfInv
    <2>2. \A t \in Threads : r[t].passed \in 0 .. 1
      BY <2>1 DEF PfType
    <2> QED BY <2>2 DEF Fl!PfPhaseFair
  <1>2. ASSUME Inv, kind = "cohort" PROVE Co!CohortPasses
    <2>1. CoInv
      BY <1>2 DEF Inv
    <2>2. CoGlobals /\ CoAcquired
      BY <2>1 DEF CoInv
    <2>3. \A c \in Cohorts : m.acquired[c] \in Int /\ m.release[c] \in {"local", "global"}
      BY <2>1 DEF CoInv, CoType
    <2>4. ASSUME NEW c \in Cohorts PROVE m.acquired[c] <= PassLimit
      BY <2>2, <2>3, SyncAssumption DEF CoAcquired, CoRested, CoHeld
    <2> QED BY <2>2, <2>4 DEF CoGlobals, Co!CohortPasses
  <1> QED BY <1>1, <1>2 DEF FairPasses

\* From the invariants of ck_sequence and of exponential_backoff.
LEMMA InvReads == Inv => ConsistentRead /\ SleepAhead
  BY DEF Inv, SqInv, BoInv, ConsistentRead, SleepAhead, Sq!ConsistentRead, Sq!At

\* ck_rwlock, ck_swlock, ck_tflock, ck_pflock, ck_brlock, ck_bytelock, ck_cohort
\* and ck_rwcohort: for any number of threads, whatever the counters wrap around
\* at, a writer is alone in its section.  The threads without a slot of the byte
\* lock pass numbers of their own, or CK_BYTELOCK_UNSLOTTED and then they all
\* read or all write: where they pass it and do both ("any"), a reader takes the
\* writer's number for its own and the statement is false.
THEOREM WritersAlone ==
  ASSUME "any" \notin Uses
  PROVE  Spec => []Exclusion
  <1>1. Inv => Exclusion
    BY InvExcludes
  <1> QED BY InvAlways, <1>1, PTL

\* A reader of ck_pflock that waits lets one writer at most go first, and a
\* cohort passes its lock on at most PassLimit times in a row and only while it
\* has the lock of all cohorts.
THEOREM PassesFairly == Spec => []FairPasses
  BY InvAlways, InvPasses, PTL

\* A reader of ck_sequence that accepts what it read has read one writer's
\* words, for any number of sequence numbers that a read cannot see wrap around.
THEOREM ReadsConsistently == Spec => []ConsistentRead
  <1>1. Inv => ConsistentRead
    BY InvReads
  <1> QED BY InvAlways, <1>1, PTL

\* Whatever overflows, exponential_backoff sleeps until a time in the future.
THEOREM SleepsAhead == Spec => []SleepAhead
  <1>1. Inv => SleepAhead
    BY InvReads
  <1> QED BY InvAlways, <1>1, PTL
=============================================================================
