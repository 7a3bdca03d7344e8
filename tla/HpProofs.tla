------------------------------ MODULE HpProofs ------------------------------
(***************************************************************************)
(* Proofs about ck_hp with its clients ck_hp_fifo and ck_hp_stack, two of  *)
(* the kinds of MCQueues.                                                  *)
(*                                                                         *)
(* A slot guards an object from the moment in which the client, having     *)
(* published it, finds it to be linked still.  A guarded object may be     *)
(* taken out and be pending, but every ck_hp_reclaim that has it yet to    *)
(* look at has the slot in its cache, or will come to the slot.  So no     *)
(* guarded object is destroyed, or becomes one that can be linked again,   *)
(* and what a client has read of it stays true.                            *)
(***************************************************************************)
EXTENDS FifoProofs

Hp == INSTANCE Hp

-----------------------------------------------------------------------------
(* Hazard pointers.                                                          *)

Objects == IF kind = "hp_stack" THEN Entries ELSE FifoNodes \cup {Stub}

HpFields == {"subs", "state", "n_free", "ptr", "pending", "dead", "degree", "threshold", "joins"}
HpLocalFields == {"rec", "joins", "list", "pos", "i", "cache", "n", "marker", "todo", "kept", "purge"}
HpLabels == {"out", "look", "take", "taken", "left", "idle", "reclaim", "cache_record",
             "cache_slot", "sweep", "scan_record", "scan_slot"}
Reclaiming == {"cache_record", "cache_slot", "sweep", "scan_record", "scan_slot"}

\* Slot i of t has protected x since x was found to be linked.
Guarded(t, i, x) ==
  \/ i = 0 /\ pc[t] \in {"p_next", "p_cas"} /\ x = r[t].e
  \/ i = 0 /\ pc[t] \in {"e_next", "e_again", "e_link", "e_forward"} /\ x = r[t].tail
  \/ i = 0 /\ pc[t] \in {"d_next", "d_set1", "d_again", "d_forward", "d_commit"} /\ x = r[t].head
  \/ i = 0 /\ pc[t] = "d_tail" /\ ~r[t].try /\ x = r[t].head
  \/ i = 1 /\ pc[t] \in {"d_forward", "d_commit", "d_value"} /\ x = r[t].next
\* t has x, which it will link; or x, which it has taken out.
Brings(t, x) ==
  /\ pc[t] \in {"s_head", "s_cas", "e_tail", "e_set", "e_same", "e_next", "e_again", "e_link"}
  /\ x = r[t].e
Takes(t, x) ==
  \/ pc[t] = "p_free" /\ x = r[t].e
  \/ pc[t] \in {"d_value", "d_free"} /\ x = r[t].head
Carries(t, x) == Brings(t, x) \/ Takes(t, x)

HpType ==
  /\ HpFields \cup {"new", "abs"} \subseteq DOMAIN m
  /\ m.subs \in Seq(Records)
  /\ m.state \in [Records -> {"new", "free", "used"}]
  /\ m.degree \in Nat
  /\ m.ptr \in [Records -> [0 .. m.degree - 1 -> Objects \cup {NULL}]]
  /\ m.pending \in [Records -> Seq(Objects)]
  /\ m.dead \subseteq Objects
  /\ DOMAIN pc = Threads /\ DOMAIN r = Threads
HpLocalType(t) ==
  /\ HpLocalFields \subseteq DOMAIN r[t]
  /\ r[t].rec \in Records \cup {NULL}
  /\ r[t].list \in Seq(Records)
  /\ r[t].pos \in Nat \ {0} /\ r[t].i \in Nat /\ r[t].marker \in Nat
  /\ r[t].todo \in Seq(Objects) /\ r[t].kept \in Seq(Objects)

\* Who has which record.
HpRecords ==
  /\ \A x \in Records : m.state[x] # "new" <=> x \in Members(m.subs)
  /\ \A t \in Threads : pc[t] \in {"out", "look", "take"} <=> r[t].rec = NULL
  /\ \A t \in Threads : r[t].rec # NULL /\ pc[t] # "left" => m.state[r[t].rec] = "used"
  /\ \A t, u \in Threads :
       t # u /\ r[t].rec # NULL /\ pc[t] # "left" /\ pc[u] # "left" => r[t].rec # r[u].rec
  /\ \A t \in Threads : Members(r[t].list) \subseteq Members(m.subs)
  /\ \A t \in Threads : pc[t] = "take" => r[t].pos \in DOMAIN r[t].list

\* What is pending is so once, and what a call has yet to look at is pending.
HpPending ==
  /\ \A x \in Records : Distinct(m.pending[x]) /\ Members(m.pending[x]) \cap m.dead = {}
  /\ \A x, y \in Records : x # y => Members(m.pending[x]) \cap Members(m.pending[y]) = {}
  /\ \A t \in Threads : pc[t] \in Reclaiming => m.pending[r[t].rec] = r[t].kept \o r[t].todo
  /\ \A t \in Threads : pc[t] \in {"cache_slot", "scan_slot"} => r[t].pos \in DOMAIN r[t].list
  /\ \A t \in Threads : pc[t] \in {"scan_record", "scan_slot"} => r[t].todo # <<>>

\* The call of t has x, which slot i of record y protects, in its cache, or
\* will come across it.
Covers(t, i, y, x) ==
  \E k \in DOMAIN r[t].list :
    /\ r[t].list[k] = y
    /\ pc[t] = "cache_record" => x \in r[t].cache \/ r[t].pos <= k
    /\ pc[t] = "cache_slot" =>
         x \in r[t].cache \/ r[t].pos < k \/ (r[t].pos = k /\ r[t].i <= i)
    /\ pc[t] \in {"sweep", "scan_record", "scan_slot"} =>
         x \in r[t].cache \/ (r[t].marker # 0 /\ r[t].marker <= k)
    /\ pc[t] = "scan_record" /\ x = Head(r[t].todo) => r[t].pos <= k
    /\ pc[t] = "scan_slot" /\ x = Head(r[t].todo) =>
         r[t].pos < k \/ (r[t].pos = k /\ r[t].i <= i)
HpScan ==
  \A t, u \in Threads : \A i \in {0, 1}, x \in Objects :
    pc[t] \in Reclaiming /\ Guarded(u, i, x) /\ x \in Members(r[t].todo)
      => Covers(t, i, r[u].rec, x)

\* A slot that protects holds the pointer.
HpGuards ==
  \A t \in Threads : \A i \in {0, 1} : \A x \in Objects :
    Guarded(t, i, x) => i < m.degree /\ m.ptr[r[t].rec][i] = x /\ x \notin m.dead

\* An object is in one place, and the protected ones are not where they
\* could be linked again.
AllPending == UNION {Members(m.pending[x]) : x \in Records}
HpPlaces ==
  /\ m.new \subseteq Objects /\ m.abs \in Seq(Objects) /\ Distinct(m.abs)
  /\ Members(m.abs) \cap (m.new \cup m.dead \cup AllPending) = {}
  /\ AllPending \cap m.new = {}
  /\ \A t \in Threads : \A x \in Objects :
       Carries(t, x) => x \notin m.new \cup m.dead \cup AllPending \cup Members(m.abs)
  /\ \A t, u \in Threads : \A x \in Objects : Carries(t, x) /\ Carries(u, x) => t = u
  /\ \A t, u \in Threads : \A i \in {0, 1}, x \in Objects :
       Guarded(t, i, x) => x \notin m.new /\ ~Brings(u, x)

HpInv ==
  /\ HpType /\ (\A t \in Threads : HpLocalType(t))
  /\ HpRecords /\ HpPending /\ HpScan /\ HpGuards /\ HpPlaces

-----------------------------------------------------------------------------
(* ck_hp_stack.                                                              *)

StFields == HpFields \cup {"head", "next", "new", "pushes", "pops", "abs"}
StLocalFields == HpLocalFields \cup {"try", "e", "next", "update"}
StLabels ==
  HpLabels \cup {"s_head", "s_cas", "p_head", "p_set", "p_same", "p_next", "p_cas", "p_reset",
                 "p_update", "p_reset2", "p_update2", "p_free"}
StLocals(t) ==
  /\ pc[t] \in StLabels /\ DOMAIN r[t] = StLocalFields
  /\ r[t].e \in Entries \cup {NULL} /\ r[t].next \in Entries \cup {NULL} /\ r[t].update \in Entries \cup {NULL}
StType ==
  /\ DOMAIN m = StFields /\ m.degree = 1
  /\ m.head \in Entries \cup {NULL} /\ m.next \in [Entries -> Entries \cup {NULL}]
StOps(t) ==
  /\ pc[t] \in {"s_head", "s_cas", "p_set", "p_same", "p_next", "p_cas", "p_reset", "p_update", "p_free"} =>
       r[t].e # NULL
  /\ pc[t] \in {"p_same", "p_next", "p_cas", "p_update", "p_update2"} => m.ptr[r[t].rec][0] = r[t].e
  /\ pc[t] = "p_cas" => r[t].next = m.next[r[t].e]
StInv ==
  /\ HpInv /\ StType
  /\ m.head = IF m.abs = <<>> THEN NULL ELSE m.abs[1]
  /\ LinkedBy(m.abs, m.next)
  /\ \A t \in Threads : StLocals(t) /\ StOps(t)

-----------------------------------------------------------------------------
(* ck_hp_fifo.                                                               *)

FfNodes == FifoNodes \cup {Stub}
FfFields == HpFields \cup {"try", "reuse", "head", "tail", "next", "value", "new", "enqs", "deqs",
                           "abs", "enq", "left"}
FfLocalFields == HpLocalFields \cup {"try", "e", "head", "tail", "next", "nth", "v"}
FfLabels ==
  HpLabels \cup {"e_tail", "e_set", "e_same", "e_next", "e_again", "e_link", "e_forward",
                 "d_head", "d_tail", "d_set", "d_same", "d_next", "d_set1", "d_again",
                 "d_forward", "d_commit", "d_value", "d_free"}
FfLocals(t) ==
  /\ pc[t] \in FfLabels /\ DOMAIN r[t] = FfLocalFields
  /\ r[t].e \in FfNodes \cup {NULL} /\ r[t].head \in FfNodes \cup {NULL}
  /\ r[t].tail \in FfNodes \cup {NULL} /\ r[t].next \in FfNodes \cup {NULL}
  /\ r[t].try \in BOOLEAN /\ (r[t].try => m.try)
FfType ==
  /\ DOMAIN m = FfFields /\ m.degree = 2
  /\ m.head \in FfNodes /\ m.tail \in FfNodes
  /\ m.next \in [FfNodes -> FfNodes \cup {NULL}] /\ m.value \in [FfNodes -> Int]
  /\ m.enqs \in Int /\ m.enq \in Seq(Int) /\ m.left \in Nat /\ ~(m.try /\ m.reuse)
  /\ m.try \in BOOLEAN /\ m.reuse \in BOOLEAN

\* The tail is the last node or the one before it.
FfChain ==
  /\ m.abs # <<>> /\ m.head = m.abs[1]
  /\ LinkedBy(m.abs, m.next)
  /\ \E i \in DOMAIN m.abs : m.tail = m.abs[i] /\ i >= Len(m.abs) - 1
  /\ Len(m.enq) = m.left + Len(m.abs) - 1
  /\ \A i \in DOMAIN m.abs : i > 1 => m.value[m.abs[i]] = m.enq[m.left + i - 1]

FfEnqueues(t) ==
  /\ pc[t] \in {"e_tail", "e_set", "e_same", "e_next", "e_again", "e_link"} =>
       r[t].e # NULL /\ m.next[r[t].e] = NULL
  /\ pc[t] \in {"e_set", "e_same", "e_next", "e_again", "e_link", "e_forward"} => r[t].tail # NULL
  /\ pc[t] \in {"e_same", "e_next", "e_again", "e_link", "e_forward"} =>
       m.ptr[r[t].rec][0] = r[t].tail
  /\ pc[t] \in {"e_next", "e_again", "e_link"} /\ m.next[r[t].tail] = NULL => m.tail = r[t].tail
  /\ pc[t] \in {"e_again", "e_link"} /\ r[t].next # NULL => m.next[r[t].tail] = r[t].next
  /\ pc[t] = "e_forward" => r[t].e # NULL /\ m.next[r[t].tail] = r[t].e

DChecked == {"d_next", "d_set1", "d_again", "d_forward", "d_commit"}
\* The head that t has read cannot become the head once more.
Settled(t) ==
  \/ pc[t] \in DChecked
  \/ pc[t] = "d_tail"
  \/ pc[t] \in {"d_set", "d_same"} /\ r[t].try
FfDequeues(t) ==
  /\ pc[t] \in DChecked \cup {"d_tail", "d_set", "d_same", "d_value", "d_free"} => r[t].head # NULL
  /\ pc[t] \in DChecked \cup {"d_same"} \/ (pc[t] = "d_tail" /\ ~r[t].try) =>
       m.ptr[r[t].rec][0] = r[t].head
  /\ pc[t] \in {"d_again", "d_forward", "d_commit", "d_value"} => m.ptr[r[t].rec][1] = r[t].next
  /\ Settled(t) => /\ r[t].head \notin m.new
                   /\ \A u \in Threads : ~Brings(u, r[t].head)
                   /\ \A i \in DOMAIN m.abs : m.abs[i] = r[t].head => i = 1
  /\ pc[t] \in DChecked \/ (pc[t] \in {"d_set", "d_same"} /\ r[t].try) =>
       (m.head = r[t].head /\ r[t].head # r[t].tail => m.tail # m.head)
  /\ pc[t] \in {"d_set1", "d_again", "d_forward", "d_commit"} =>
       /\ r[t].next # NULL => m.next[r[t].head] = r[t].next
       /\ m.head = r[t].head /\ r[t].head # r[t].tail => r[t].next # NULL
  /\ pc[t] \in {"d_forward", "d_commit", "d_value"} => r[t].next # NULL
  /\ pc[t] = "d_forward" => r[t].head = r[t].tail
  /\ pc[t] = "d_commit" => r[t].head # r[t].tail
  /\ pc[t] \in {"d_value", "d_free"} => r[t].nth \in DOMAIN m.enq
  /\ pc[t] = "d_value" => m.value[r[t].next] = m.enq[r[t].nth]
  /\ pc[t] = "d_free" => r[t].v = m.enq[r[t].nth]

FfInv ==
  /\ HpInv /\ FfType /\ FfChain
  /\ \A t \in Threads : FfLocals(t) /\ FfEnqueues(t) /\ FfDequeues(t)

HpUsersInv ==
  /\ kind = "hp_stack" => StInv
  /\ kind = "hp_fifo" => FfInv

-----------------------------------------------------------------------------
(* Hazard pointers: what a step of ck_hp by t leaves alone, and what is left *)
(* to show of it.                                                            *)

HpFrame(t) ==
  /\ pc[t] \in HpLabels /\ pc'[t] \in HpLabels
  /\ DOMAIN pc' = Threads /\ DOMAIN r' = Threads
  /\ \A u \in Threads \ {t} : pc'[u] = pc[u] /\ r'[u] = r[u]
  /\ DOMAIN r'[t] = DOMAIN r[t]
  /\ \A f \in DOMAIN r[t] \ HpLocalFields : r'[t][f] = r[t][f]
  /\ DOMAIN m' = DOMAIN m
  /\ \A f \in DOMAIN m \ HpFields : m'[f] = m[f]
  /\ m'.degree = m.degree /\ kind' = kind
  /\ \A u \in Threads \ {t} : pc[u] \notin HpLabels => m'.ptr[r[u].rec] = m.ptr[r[u].rec]
HpPendingFrame(t) ==
  /\ \A x \in Records : Distinct(m'.pending[x]) /\ Members(m'.pending[x]) \subseteq Members(m.pending[x])
  /\ \A u \in Threads \ {t} : pc[u] \in Reclaiming => m'.pending[r[u].rec] = m.pending[r[u].rec]
  /\ \A z \in m'.dead : \/ z \in m.dead
                        \/ /\ z \in AllPending /\ \A x \in Records : z \notin Members(m'.pending[x])
                           /\ \A u \in Threads, i \in {0, 1} : ~Guarded(u, i, z)
HpOwn(t) ==
  /\ pc[t] \in Reclaiming => m.pending[r[t].rec] = r[t].kept \o r[t].todo
  /\ pc[t] \in {"cache_slot", "scan_slot"} => r[t].pos \in DOMAIN r[t].list
  /\ pc[t] \in {"scan_record", "scan_slot"} => r[t].todo # <<>>
HpCovered(t) ==
  \A u \in Threads : \A i \in {0, 1}, x \in Objects :
    pc'[t] \in Reclaiming /\ Guarded(u, i, x) /\ x \in Members(r'[t].todo)
      => Covers(t, i, r[u].rec, x)'

LEMMA HpSame ==
  ASSUME NEW t \in Threads, HpFrame(t), NEW u \in Threads, NEW i, NEW x
  PROVE  /\ Guarded(u, i, x)' <=> Guarded(u, i, x)
         /\ Brings(u, x)' <=> Brings(u, x)
         /\ Takes(u, x)' <=> Takes(u, x)
         /\ Guarded(u, i, x) => u # t
PROOF
  <1>1. CASE u = t
    BY <1>1 DEF HpFrame, HpLabels, Guarded, Brings, Takes
  <1>2. CASE u # t
    <2>1. pc'[u] = pc[u] /\ r'[u] = r[u]
      BY <1>2 DEF HpFrame
    <2> QED
      BY <2>1, <1>2 DEF Guarded, Brings, Takes
  <1> QED
    BY <1>1, <1>2

\* A guard is in an operation of a client.
LEMMA HpGuardHolds ==
  ASSUME HpInv, NEW u \in Threads, NEW i, NEW x, Guarded(u, i, x)
  PROVE  /\ pc[u] \notin HpLabels /\ r[u].rec \in Records /\ r[u].rec \in Members(m.subs)
         /\ m.state[r[u].rec] = "used"
PROOF
  <1>1. pc[u] \notin HpLabels /\ pc[u] \notin {"out", "look", "take", "left"}
    BY DEF Guarded, HpLabels
  <1>2. r[u].rec \in Records \cup {NULL} /\ r[u].rec # NULL
    BY <1>1 DEF HpInv, HpLocalType, HpRecords
  <1> QED
    BY <1>1, <1>2 DEF HpInv, HpRecords

LEMMA HpPreserves ==
  ASSUME NEW t \in Threads, HpInv, HpFrame(t), HpType', HpLocalType(t)', HpRecords',
         HpPendingFrame(t), HpOwn(t)', HpCovered(t)
  PROVE  HpInv'
PROOF
  <1>0. \A u \in Threads \ {t} : pc'[u] = pc[u] /\ r'[u] = r[u]
    BY DEF HpFrame
  <1>1. /\ \A u \in Threads, i \in {0, 1}, x \in Objects : (Guarded(u, i, x)' <=> Guarded(u, i, x))
        /\ \A u \in Threads, i \in {0, 1}, x \in Objects : Guarded(u, i, x) => u # t
        /\ \A u \in Threads, x \in Objects : (Brings(u, x)' <=> Brings(u, x)) /\ (Takes(u, x)' <=> Takes(u, x))
    BY HpSame
  <1>2. Objects' = Objects
    BY DEF HpFrame, Objects
  <1>3. \A u \in Threads : HpLocalType(u)'
    <2> SUFFICES ASSUME NEW u \in Threads, u # t PROVE HpLocalType(u)'
      OBVIOUS
    <2> QED
      BY <1>0, <1>2 DEF HpInv, HpLocalType
  <1>4. HpPending'
    <2>1. \A x \in Records : Distinct(m.pending[x])' /\ Members(m.pending[x])' \cap m.dead' = {}
      <3> SUFFICES ASSUME NEW x \in Records PROVE Distinct(m'.pending[x]) /\ Members(m'.pending[x]) \cap m'.dead = {}
        BY DEF Distinct, Members
      <3>1. Members(m.pending[x]) \cap m.dead = {}
        BY DEF HpInv, HpPending
      <3> QED
        BY <3>1 DEF HpPendingFrame
    <2>2. \A x, y \in Records : x # y => Members(m.pending[x])' \cap Members(m.pending[y])' = {}
      <3> SUFFICES ASSUME NEW x \in Records, NEW y \in Records, x # y
                   PROVE  Members(m'.pending[x]) \cap Members(m'.pending[y]) = {}
        BY DEF Members
      <3>1. Members(m.pending[x]) \cap Members(m.pending[y]) = {}
        BY DEF HpInv, HpPending
      <3> QED
        BY <3>1 DEF HpPendingFrame
    <2>3. \A u \in Threads : HpOwn(u)'
      <3> SUFFICES ASSUME NEW u \in Threads, u # t PROVE HpOwn(u)'
        OBVIOUS
      <3>1. HpOwn(u)
        BY DEF HpInv, HpPending, HpOwn
      <3>2. pc[u] \in Reclaiming => m'.pending[r[u].rec] = m.pending[r[u].rec]
        BY DEF HpPendingFrame
      <3> QED
        BY <3>1, <3>2, <1>0 DEF HpOwn
    <2> QED
      BY <2>1, <2>2, <2>3 DEF HpPending, HpOwn
  <1>5. HpScan'
    <2> SUFFICES ASSUME NEW v \in Threads, NEW u \in Threads, NEW i \in {0, 1}, NEW x \in Objects,
                        pc'[v] \in Reclaiming, Guarded(u, i, x)', x \in Members(r'[v].todo)
                 PROVE  Covers(v, i, r[u].rec, x)'
      BY <1>2 DEF HpScan, Members
    <2>1. Guarded(u, i, x) /\ u # t /\ r'[u] = r[u]
      BY <1>0, <1>1
    <2>2. CASE v = t
      <3>1. Covers(t, i, r[u].rec, x)'
        BY <2>1, <2>2 DEF HpCovered
      <3> QED
        BY <3>1, <2>1, <2>2
    <2>3. CASE v # t
      <3>1. pc'[v] = pc[v] /\ r'[v] = r[v]
        BY <2>3, <1>0
      <3>2. Covers(v, i, r[u].rec, x)
        BY <3>1, <2>1 DEF HpInv, HpScan
      <3> QED
        BY <3>1, <3>2, <2>1 DEF Covers
    <2> QED
      BY <2>2, <2>3
  <1>6. HpGuards'
    <2> SUFFICES ASSUME NEW u \in Threads, NEW i \in {0, 1}, NEW x \in Objects, Guarded(u, i, x)'
                 PROVE  i < m'.degree /\ m'.ptr[r'[u].rec][i] = x /\ x \notin m'.dead
      BY <1>2 DEF HpGuards
    <2>1. Guarded(u, i, x) /\ u # t /\ r'[u] = r[u]
      BY <1>0, <1>1
    <2>2. i < m.degree /\ m.ptr[r[u].rec][i] = x /\ x \notin m.dead
      BY <2>1 DEF HpInv, HpGuards
    <2>3. pc[u] \notin HpLabels
      BY <2>1, HpGuardHolds
    <2>4. m'.ptr[r[u].rec] = m.ptr[r[u].rec] /\ m'.degree = m.degree
      BY <2>1, <2>3 DEF HpFrame
    <2>5. x \notin m'.dead
      BY <2>1, <2>2 DEF HpPendingFrame
    <2> QED
      BY <2>1, <2>2, <2>4, <2>5
  <1>7. HpPlaces'
    <2>1. m'.new = m.new /\ m'.abs = m.abs
      BY DEF HpInv, HpType, HpFrame, HpFields
    <2>2. \A x \in AllPending' : x \in AllPending
      BY DEF HpPendingFrame, AllPending, Members
    <2>3. \A x \in m'.dead : x \in m.dead \cup AllPending
      BY DEF HpPendingFrame
    <2>4. HpPlaces
      BY DEF HpInv
    <2>5. /\ m'.new \subseteq Objects /\ m'.abs \in Seq(Objects) /\ Distinct(m'.abs)
          /\ Members(m'.abs) \cap (m'.new \cup m'.dead \cup AllPending') = {}
          /\ AllPending' \cap m'.new = {}
      BY <2>1, <2>2, <2>3, <2>4 DEF HpPlaces
    <2>6. ASSUME NEW u \in Threads, NEW x \in Objects, Carries(u, x)'
          PROVE  x \notin m'.new \cup m'.dead \cup AllPending' \cup Members(m'.abs)
      <3>1. Carries(u, x)
        BY <1>1, <2>6 DEF Carries
      <3> QED
        BY <3>1, <2>1, <2>2, <2>3, <2>4 DEF HpPlaces
    <2>7. ASSUME NEW u \in Threads, NEW v \in Threads, NEW x \in Objects, Carries(u, x)', Carries(v, x)'
          PROVE  u = v
      <3>1. Carries(u, x) /\ Carries(v, x)
        BY <1>1, <2>7 DEF Carries
      <3> QED
        BY <3>1, <2>4 DEF HpPlaces
    <2>8. ASSUME NEW u \in Threads, NEW v \in Threads, NEW i \in {0, 1}, NEW x \in Objects, Guarded(u, i, x)'
          PROVE  x \notin m'.new /\ ~Brings(v, x)'
      <3>1. Guarded(u, i, x) /\ (Brings(v, x)' <=> Brings(v, x))
        BY <1>1, <2>8
      <3> QED
        BY <3>1, <2>1, <2>4 DEF HpPlaces
    <2>9. Distinct(m.abs)' /\ Members(m.abs)' = Members(m'.abs)
      BY <2>5 DEF Distinct, Members
    <2> QED
      BY <1>2, <2>5, <2>6, <2>7, <2>8, <2>9 DEF HpPlaces
  <1> QED
    BY <1>3, <1>4, <1>5, <1>6, <1>7 DEF HpInv

\* What holds of t, in the form the steps need.
LEMMA HpKnown ==
  ASSUME HpInv, NEW t \in Threads
  PROVE  /\ HpFields \subseteq DOMAIN m /\ DOMAIN pc = Threads /\ DOMAIN r = Threads
         /\ HpLocalFields \subseteq DOMAIN r[t] /\ HpLocalType(t) /\ HpOwn(t)
         /\ Members(r[t].list) \subseteq Members(m.subs)
         /\ pc[t] = "take" => r[t].pos \in DOMAIN r[t].list
         /\ (pc[t] \in {"out", "look", "take"}) <=> (r[t].rec = NULL)
         /\ pc[t] \notin {"out", "look", "take"} => r[t].rec \in Records
         /\ pc[t] \notin {"out", "look", "take", "left"} => m.state[r[t].rec] = "used"
         /\ \A u \in Threads \ {t} : pc[t] \notin {"out", "look", "take", "left"} /\ pc[u] # "left"
              => r[t].rec # r[u].rec
PROOF
  <1>1. HpType /\ HpLocalType(t) /\ HpRecords /\ HpPending
    BY DEF HpInv
  <1>2. HpOwn(t)
    BY <1>1 DEF HpPending, HpOwn
  <1>3. /\ HpFields \subseteq DOMAIN m /\ DOMAIN pc = Threads /\ DOMAIN r = Threads
        /\ HpLocalFields \subseteq DOMAIN r[t] /\ r[t].rec \in Records \cup {NULL}
    BY <1>1 DEF HpType, HpLocalType
  <1>4. /\ Members(r[t].list) \subseteq Members(m.subs)
        /\ pc[t] = "take" => r[t].pos \in DOMAIN r[t].list
        /\ (pc[t] \in {"out", "look", "take"}) <=> (r[t].rec = NULL)
        /\ (r[t].rec # NULL /\ pc[t] # "left") => m.state[r[t].rec] = "used"
    BY <1>1 DEF HpRecords
  <1>5. ASSUME NEW u \in Threads, u # t, pc[t] # "left", pc[u] # "left", r[t].rec # NULL
        PROVE  r[t].rec # r[u].rec
    BY <1>1, <1>5 DEF HpRecords
  <1> QED
    BY <1>1, <1>2, <1>3, <1>4, <1>5

\* A step that leaves everybody with their records.
LEMMA HpRecordsKept ==
  ASSUME NEW t \in Threads, HpInv, \A u \in Threads \ {t} : pc'[u] = pc[u] /\ r'[u] = r[u],
         m'.subs = m.subs, m'.state = m.state, r'[t].rec = r[t].rec,
         (pc[t] \in {"out", "look", "take"}) <=> (pc'[t] \in {"out", "look", "take"}),
         pc[t] # "left" /\ pc'[t] # "left",
         Members(r'[t].list) \subseteq Members(m.subs),
         pc'[t] = "take" => r'[t].pos \in DOMAIN r'[t].list
  PROVE  HpRecords'
PROOF
  <1>0. \A u \in Threads \ {t} : pc'[u] = pc[u] /\ r'[u] = r[u]
    OBVIOUS
  <1>10. HpRecords
    BY DEF HpInv
  <1>1. ASSUME NEW u \in Threads
        PROVE  /\ r'[u].rec = r[u].rec
               /\ (pc'[u] = "left") <=> (pc[u] = "left")
               /\ (pc'[u] \in {"out", "look", "take"}) <=> (pc[u] \in {"out", "look", "take"})
    <2>1. CASE u = t
      BY <2>1
    <2>2. CASE u # t
      BY <2>2, <1>0
    <2> QED
      BY <2>1, <2>2
  <1>2. \A u \in Threads : Members(r'[u].list) \subseteq Members(m'.subs)
    BY <1>0, <1>10 DEF HpRecords
  <1>3. \A u \in Threads : pc'[u] = "take" => r'[u].pos \in DOMAIN r'[u].list
    BY <1>0, <1>10 DEF HpRecords
  <1>5. \A x \in Records : (m'.state[x] # "new") <=> (x \in Members(m'.subs))
    BY <1>10 DEF HpRecords
  <1>6. ASSUME NEW u \in Threads PROVE (pc'[u] \in {"out", "look", "take"}) <=> (r'[u].rec = NULL)
    <2>1. (pc[u] \in {"out", "look", "take"}) <=> (r[u].rec = NULL)
      BY <1>10 DEF HpRecords
    <2> QED
      BY <2>1, <1>1
  <1>7. ASSUME NEW u \in Threads, r'[u].rec # NULL, pc'[u] # "left" PROVE m'.state[r'[u].rec] = "used"
    <2>1. r[u].rec # NULL /\ pc[u] # "left"
      BY <1>1, <1>7
    <2>2. m.state[r[u].rec] = "used"
      BY <2>1, <1>10 DEF HpRecords
    <2> QED
      BY <2>2, <1>1
  <1>8. ASSUME NEW u \in Threads, NEW v \in Threads, u # v, r'[u].rec # NULL, pc'[u] # "left", pc'[v] # "left"
        PROVE  r'[u].rec # r'[v].rec
    <2>1. r[u].rec # NULL /\ pc[u] # "left" /\ pc[v] # "left"
      BY <1>1, <1>8
    <2>2. r[u].rec # r[v].rec
      BY <2>1, <1>10, <1>8 DEF HpRecords
    <2> QED
      BY <2>2, <1>1
  <1> QED
    BY <1>2, <1>3, <1>5, <1>6, <1>7, <1>8 DEF HpRecords, Members

LEMMA HpRecordsSame ==
  ASSUME NEW t \in Threads, HpInv, HpFrame(t), m'.subs = m.subs, m'.state = m.state, r'[t].rec = r[t].rec,
         (pc[t] \in {"out", "look", "take"}) <=> (pc'[t] \in {"out", "look", "take"}),
         pc[t] # "left" /\ pc'[t] # "left",
         Members(r'[t].list) \subseteq Members(m.subs),
         pc'[t] = "take" => r'[t].pos \in DOMAIN r'[t].list
  PROVE  HpRecords'
PROOF
  <1>1. \A u \in Threads \ {t} : pc'[u] = pc[u] /\ r'[u] = r[u]
    BY DEF HpFrame
  <1> QED
    BY <1>1, HpRecordsKept

\* A step with a store to no more than local variables.
LEMMA HpLocalStep ==
  ASSUME NEW t \in Threads, HpInv, HpFrame(t), m' = m, r'[t].rec = r[t].rec,
         (pc[t] \in {"out", "look", "take"}) <=> (pc'[t] \in {"out", "look", "take"}),
         pc[t] # "left" /\ pc'[t] # "left",
         HpLocalType(t)', Members(r'[t].list) \subseteq Members(m.subs),
         pc'[t] = "take" => r'[t].pos \in DOMAIN r'[t].list,
         HpOwn(t)', HpCovered(t)
  PROVE  HpInv'
PROOF
  <1>1. HpType'
    BY DEF HpInv, HpType, HpFrame, Objects
  <1>2. HpRecords'
    BY HpRecordsSame
  <1>3. HpPendingFrame(t)
    BY DEF HpPendingFrame, HpInv, HpPending
  <1> QED
    BY <1>1, <1>2, <1>3, HpPreserves

LEMMA HpFrames ==
  ASSUME NEW t \in Threads, HpInv, kind' = kind, Hp!HpStep(t)
  PROVE  HpFrame(t)
PROOF
  <1>0. /\ HpFields \subseteq DOMAIN m /\ DOMAIN pc = Threads /\ DOMAIN r = Threads
        /\ HpLocalFields \subseteq DOMAIN r[t] /\ DOMAIN m.ptr = Records
        /\ r[t].rec \in Records \cup {NULL} /\ (pc[t] = "idle" => r[t].rec # NULL)
    BY DEF HpInv, HpType, HpLocalType, HpRecords
  <1>1. \A u \in Threads \ {t} : pc[u] \notin HpLabels =>
          /\ r[u].rec \in Records /\ m.state[r[u].rec] = "used"
          /\ r[t].rec # NULL /\ pc[t] # "left" => r[u].rec # r[t].rec
    <2> SUFFICES ASSUME NEW u \in Threads \ {t}, pc[u] \notin HpLabels
                 PROVE  /\ r[u].rec \in Records /\ m.state[r[u].rec] = "used"
                        /\ r[t].rec # NULL /\ pc[t] # "left" => r[u].rec # r[t].rec
      OBVIOUS
    <2>1. pc[u] \notin {"out", "look", "take", "left"}
      BY DEF HpLabels
    <2>2. HpLocalType(u) /\ HpRecords
      BY DEF HpInv
    <2> QED
      BY <2>1, <2>2 DEF HpLocalType, HpRecords
  <1> USE DEF Hp!At, Hp!Go, Hp!Step, Hp!Put, Hp!With, Hp!Local, Hp!Mine, HpFrame, HpLabels, HpFields, HpLocalFields
  <1>2. CASE Hp!Clear(t)
    <2>1. m' = [m EXCEPT !.ptr[r[t].rec] = Hp!Empty(m.degree)] /\ UNCHANGED <<pc, r>> /\ pc[t] = "idle"
      BY <1>2 DEF Hp!Clear
    <2>2. ASSUME NEW u \in Threads \ {t}, pc[u] \notin HpLabels PROVE m'.ptr[r[u].rec] = m.ptr[r[u].rec]
      BY <2>1, <2>2, <1>0, <1>1
    <2> QED
      BY <2>1, <2>2, <1>0
  <1>3. CASE Hp!Register(t)
    <2>1. PICK x \in {y \in Records : m.state[y] = "new"} :
            /\ m' = [m EXCEPT !.state[x] = "used", !.subs = <<x>> \o m.subs,
                              !.ptr[x] = Hp!Empty(m.degree), !.pending[x] = <<>>]
            /\ Hp!Put(t, [rec |-> x, joins |-> r[t].joins + 1])
      BY <1>3 DEF Hp!Register
    <2>2. ASSUME NEW u \in Threads \ {t}, pc[u] \notin HpLabels PROVE m'.ptr[r[u].rec] = m.ptr[r[u].rec]
      <3>1. r[u].rec \in Records /\ r[u].rec # x
        BY <2>1, <2>2, <1>1
      <3> QED
        BY <3>1, <2>1, <1>0
    <2>3. pc[t] = "out" /\ pc' = [pc EXCEPT ![t] = "idle"]
      BY <1>3 DEF Hp!Register
    <2>4. DOMAIN m' = DOMAIN m /\ m'.degree = m.degree /\ \A f \in DOMAIN m \ HpFields : m'[f] = m[f]
      BY <2>1, <1>0
    <2> QED
      BY <2>1, <2>2, <2>3, <2>4, <1>0
  <1>4. CASE Hp!RecycleCall(t)
    BY <1>0, <1>1, <1>4 DEF Hp!RecycleCall
  <1>5. CASE Hp!RecycleLook(t)
    BY <1>0, <1>1, <1>5 DEF Hp!RecycleLook, Hp!HpScratch
  <1>6. CASE Hp!RecycleTake(t)
    BY <1>0, <1>1, <1>6 DEF Hp!RecycleTake
  <1>7. CASE Hp!RecycleCount(t)
    BY <1>0, <1>1, <1>7 DEF Hp!RecycleCount, Hp!HpScratch
  <1>8. CASE Hp!Unregister(t)
    BY <1>0, <1>1, <1>8 DEF Hp!Unregister
  <1>9. CASE Hp!UnregisterCount(t)
    BY <1>0, <1>1, <1>9 DEF Hp!UnregisterCount
  <1>10. CASE Hp!Purge(t)
    BY <1>0, <1>1, <1>10 DEF Hp!Purge
  <1>11. CASE Hp!Reclaim(t)
    BY <1>0, <1>1, <1>11 DEF Hp!Reclaim
  <1>12. CASE Hp!CacheRecord(t)
    BY <1>0, <1>1, <1>12 DEF Hp!CacheRecord
  <1>13. CASE Hp!CacheSlot(t)
    BY <1>0, <1>1, <1>13 DEF Hp!CacheSlot
  <1>14. CASE Hp!Sweep(t)
    <2>1. m' = m \/ m' = Hp!Destroyed(t, r[t])
      BY <1>14 DEF Hp!Sweep
    <2>2. /\ DOMAIN m' = DOMAIN m /\ m'.degree = m.degree /\ m'.ptr = m.ptr
          /\ \A f \in DOMAIN m \ HpFields : m'[f] = m[f]
      BY <2>1, <1>0 DEF Hp!Destroyed
    <2>3. /\ pc[t] = "sweep" /\ (pc' = pc \/ pc' = [pc EXCEPT ![t] = "scan_record"])
          /\ \/ Hp!Put(t, [todo |-> Tail(r[t].todo), kept |-> Append(r[t].kept, Head(r[t].todo))])
             \/ Hp!Put(t, [pos |-> r[t].marker]) \/ Hp!Put(t, [todo |-> Tail(r[t].todo)])
      BY <1>14 DEF Hp!Sweep, Hp!Keep
    <2> QED
      BY <2>2, <2>3, <1>0
  <1>15. CASE Hp!SweepDone(t)
    BY <1>0, <1>1, <1>15 DEF Hp!SweepDone, Hp!HpScratch
  <1>16. CASE Hp!ScanRecord(t)
    <2>1. m' = m \/ m' = Hp!Destroyed(t, r[t])
      BY <1>16 DEF Hp!ScanRecord
    <2>2. /\ DOMAIN m' = DOMAIN m /\ m'.degree = m.degree /\ m'.ptr = m.ptr
          /\ \A f \in DOMAIN m \ HpFields : m'[f] = m[f]
      BY <2>1, <1>0 DEF Hp!Destroyed
    <2>3. /\ pc[t] = "scan_record"
          /\ pc' = pc \/ pc' = [pc EXCEPT ![t] = "sweep"] \/ pc' = [pc EXCEPT ![t] = "scan_slot"]
          /\ \/ Hp!Put(t, [todo |-> Tail(r[t].todo)]) \/ Hp!Put(t, [pos |-> r[t].pos + 1]) \/ Hp!Put(t, [i |-> 0])
      BY <1>16 DEF Hp!ScanRecord
    <2> QED
      BY <2>2, <2>3, <1>0
  <1>17. CASE Hp!ScanSlot(t)
    BY <1>0, <1>1, <1>17 DEF Hp!ScanSlot, Hp!Keep
  <1> QED
    BY <1>2, <1>3, <1>4, <1>5, <1>6, <1>7, <1>8, <1>9, <1>10, <1>11, <1>12, <1>13, <1>14, <1>15, <1>16, <1>17 DEF Hp!HpStep

-----------------------------------------------------------------------------
(* The steps of ck_hp.                                                       *)

LEMMA Nothing == Members(<<>>) = {} /\ \A S : <<>> \in Seq(S)
PROOF
  <1>1. DOMAIN <<>> = {} /\ \A S : <<>> \in Seq(S)
    OBVIOUS
  <1> QED
    BY <1>1 DEF Members

LEMMA HpNoNull == NULL \notin Objects
PROOF
  BY QueuesAssumption DEF Objects

\* What protects x covers it still after a step of a call that reclaims.
LEMMA HpWasCovered ==
  ASSUME HpInv, NEW t \in Threads, pc[t] \in Reclaiming, NEW u \in Threads, NEW i \in {0, 1},
         NEW x \in Objects, Guarded(u, i, x), x \in Members(r[t].todo)
  PROVE  /\ \E k \in DOMAIN r[t].list :
              /\ r[t].list[k] = r[u].rec
              /\ pc[t] = "cache_record" => x \in r[t].cache \/ r[t].pos <= k
              /\ pc[t] = "cache_slot" =>
                   x \in r[t].cache \/ r[t].pos < k \/ (r[t].pos = k /\ r[t].i <= i)
              /\ pc[t] \in {"sweep", "scan_record", "scan_slot"} =>
                   x \in r[t].cache \/ (r[t].marker # 0 /\ r[t].marker <= k)
              /\ pc[t] = "scan_record" /\ x = Head(r[t].todo) => r[t].pos <= k
              /\ pc[t] = "scan_slot" /\ x = Head(r[t].todo) =>
                   r[t].pos < k \/ (r[t].pos = k /\ r[t].i <= i)
         /\ m.state[r[u].rec] = "used" /\ i < m.degree /\ m.ptr[r[u].rec][i] = x /\ x # NULL
         /\ DOMAIN r[t].list = 1 .. Len(r[t].list) /\ Len(r[t].list) \in Nat
         /\ r[t].pos \in Nat \ {0} /\ r[t].i \in Nat /\ r[t].marker \in Nat /\ m.degree \in Nat
PROOF
  <1>1. Covers(t, i, r[u].rec, x)
    BY DEF HpInv, HpScan
  <1>2. m.state[r[u].rec] = "used"
    BY HpGuardHolds
  <1>3. i < m.degree /\ m.ptr[r[u].rec][i] = x /\ x # NULL
    BY HpNoNull DEF HpInv, HpGuards
  <1>4. /\ DOMAIN r[t].list = 1 .. Len(r[t].list) /\ Len(r[t].list) \in Nat
        /\ r[t].pos \in Nat \ {0} /\ r[t].i \in Nat /\ r[t].marker \in Nat /\ m.degree \in Nat
    BY DEF HpInv, HpLocalType, HpType
  <1> QED
    BY <1>1, <1>2, <1>3, <1>4 DEF Covers

LEMMA HpOther ==
  ASSUME NEW t \in Threads, HpFrame(t), NEW u \in Threads, NEW i, NEW x, Guarded(u, i, x)
  PROVE  u # t /\ r'[u].rec = r[u].rec
PROOF
  <1>1. u # t
    BY HpSame
  <1> QED
    BY <1>1 DEF HpFrame

\* Outside a reclamation nothing need be covered.
LEMMA HpIdle ==
  ASSUME NEW t \in Threads, pc'[t] \in HpLabels \ Reclaiming
  PROVE  HpOwn(t)' /\ HpCovered(t)
PROOF
  BY DEF HpOwn, HpCovered, HpLabels, Reclaiming

LEMMA HpRecycleCall ==
  ASSUME NEW t \in Threads, HpInv, HpFrame(t), Hp!RecycleCall(t)
  PROVE  HpInv'
PROOF
  <1>1. /\ DOMAIN r = Threads /\ DOMAIN pc = Threads /\ HpLocalFields \subseteq DOMAIN r[t]
        /\ HpLocalType(t) /\ m.subs \in Seq(Records)
    BY HpKnown DEF HpInv, HpType
  <1>2. /\ pc[t] = "out" /\ pc'[t] = "look" /\ m' = m /\ r'[t].rec = r[t].rec /\ r'[t].list = m.subs
        /\ r'[t].pos = 1 /\ r'[t].i = r[t].i /\ r'[t].marker = r[t].marker
        /\ r'[t].todo = r[t].todo /\ r'[t].kept = r[t].kept
    BY <1>1 DEF Hp!RecycleCall, Hp!At, Hp!Go, Hp!Put, Hp!With, Hp!Local, HpLocalFields
  <1>3. HpLocalType(t)'
    BY <1>1, <1>2 DEF HpLocalType, HpFrame, Objects
  <1>4. HpOwn(t)' /\ HpCovered(t)
    BY <1>2, HpIdle DEF HpLabels, Reclaiming
  <1> QED
    BY <1>2, <1>3, <1>4, HpLocalStep

LEMMA HpRecycleLook ==
  ASSUME NEW t \in Threads, HpInv, HpFrame(t), Hp!RecycleLook(t)
  PROVE  HpInv'
PROOF
  <1>1. /\ DOMAIN r = Threads /\ DOMAIN pc = Threads /\ HpLocalFields \subseteq DOMAIN r[t]
        /\ HpLocalType(t) /\ Members(r[t].list) \subseteq Members(m.subs)
    BY HpKnown
  <1>2. /\ pc[t] = "look" /\ pc'[t] \in {"look", "out", "take"} /\ m' = m /\ r'[t].rec = r[t].rec
        /\ \/ /\ pc'[t] = "out" /\ r'[t].list = <<>> /\ r'[t].pos = 1 /\ r'[t].i = 0 /\ r'[t].marker = 0
              /\ r'[t].todo = <<>> /\ r'[t].kept = <<>>
           \/ pc'[t] = "take" /\ r'[t] = r[t] /\ ~(r[t].pos > Len(r[t].list))
           \/ /\ pc'[t] = "look" /\ r'[t].list = r[t].list /\ r'[t].pos = r[t].pos + 1 /\ r'[t].i = r[t].i
              /\ r'[t].marker = r[t].marker /\ r'[t].todo = r[t].todo /\ r'[t].kept = r[t].kept
    BY <1>1 DEF Hp!RecycleLook, Hp!At, Hp!Go, Hp!Put, Hp!With, Hp!Local, Hp!HpScratch, HpLocalFields
  <1>3. HpLocalType(t)' /\ (pc'[t] = "take" => r'[t].pos \in DOMAIN r'[t].list)
    <2>1. CASE r'[t].list = <<>> /\ pc'[t] = "out"
      <3>1. <<>> \in Seq(Objects) /\ <<>> \in Seq(Records) /\ Objects' = Objects
        BY Nothing DEF HpFrame, Objects
      <3>2. /\ r'[t].list = <<>> /\ r'[t].pos = 1 /\ r'[t].i = 0 /\ r'[t].marker = 0
            /\ r'[t].todo = <<>> /\ r'[t].kept = <<>> /\ DOMAIN r'[t] = DOMAIN r[t]
        BY <1>2, <2>1 DEF HpFrame
      <3> QED
        BY <1>1, <1>2, <2>1, <3>1, <3>2 DEF HpLocalType
    <2>2. CASE pc'[t] = "take"
      BY <1>1, <1>2, <2>2 DEF HpLocalType, HpFrame, Objects
    <2>3. CASE pc'[t] = "look"
      BY <1>1, <1>2, <2>3 DEF HpLocalType, HpFrame, Objects
    <2> QED
      BY <1>2, <2>1, <2>2, <2>3
  <1>4. Members(r'[t].list) \subseteq Members(m.subs)
    BY <1>1, <1>2, Nothing
  <1>5. HpOwn(t)' /\ HpCovered(t)
    BY <1>2, HpIdle DEF HpLabels, Reclaiming
  <1> QED
    BY <1>2, <1>3, <1>4, <1>5, HpLocalStep

LEMMA HpPurge ==
  ASSUME NEW t \in Threads, HpInv, HpFrame(t), Hp!Purge(t)
  PROVE  HpInv'
PROOF
  <1>1. /\ DOMAIN r = Threads /\ DOMAIN pc = Threads /\ HpLocalFields \subseteq DOMAIN r[t]
        /\ HpLocalType(t) /\ Members(r[t].list) \subseteq Members(m.subs)
    BY HpKnown
  <1>2. /\ pc[t] = "idle" /\ pc'[t] = "reclaim" /\ m' = m
        /\ \A f \in HpLocalFields \ {"purge"} : r'[t][f] = r[t][f]
    BY <1>1 DEF Hp!Purge, Hp!Step, Hp!At, Hp!Go, Hp!Put, Hp!With, Hp!Local, HpLocalFields
  <1>3. HpLocalType(t)'
    BY <1>1, <1>2 DEF HpLocalType, HpFrame, Objects, HpLocalFields
  <1>4. HpOwn(t)' /\ HpCovered(t)
    BY <1>2, HpIdle DEF HpLabels, Reclaiming
  <1> QED
    BY <1>1, <1>2, <1>3, <1>4, HpLocalStep DEF HpLocalFields

LEMMA HpSweepDone ==
  ASSUME NEW t \in Threads, HpInv, HpFrame(t), Hp!SweepDone(t)
  PROVE  HpInv'
PROOF
  <1>1. /\ DOMAIN r = Threads /\ DOMAIN pc = Threads /\ HpLocalFields \subseteq DOMAIN r[t]
        /\ HpLocalType(t) /\ Members(r[t].list) \subseteq Members(m.subs)
    BY HpKnown
  <1>2. /\ pc[t] = "sweep" /\ pc'[t] \in {"idle", "reclaim"} /\ m' = m /\ r'[t].rec = r[t].rec
        /\ \/ /\ r'[t].list = <<>> /\ r'[t].pos = 1 /\ r'[t].i = 0 /\ r'[t].marker = 0
              /\ r'[t].todo = <<>> /\ r'[t].kept = <<>>
           \/ r'[t] = r[t]
    BY <1>1 DEF Hp!SweepDone, Hp!At, Hp!Go, Hp!Put, Hp!With, Hp!Local, Hp!HpScratch, HpLocalFields
  <1>3. HpLocalType(t)'
    <2>1. CASE r'[t] = r[t]
      BY <1>1, <2>1 DEF HpLocalType, HpFrame, Objects
    <2>2. CASE r'[t] # r[t]
      <3>1. <<>> \in Seq(Objects) /\ <<>> \in Seq(Records) /\ Objects' = Objects
        BY Nothing DEF HpFrame, Objects
      <3>2. /\ r'[t].list = <<>> /\ r'[t].pos = 1 /\ r'[t].i = 0 /\ r'[t].marker = 0
            /\ r'[t].todo = <<>> /\ r'[t].kept = <<>> /\ DOMAIN r'[t] = DOMAIN r[t]
        BY <1>2, <2>2 DEF HpFrame
      <3> QED
        BY <1>1, <1>2, <3>1, <3>2 DEF HpLocalType
    <2> QED
      BY <2>1, <2>2
  <1>4. Members(r'[t].list) \subseteq Members(m.subs)
    BY <1>1, <1>2, Nothing
  <1>5. HpOwn(t)' /\ HpCovered(t)
    BY <1>2, HpIdle DEF HpLabels, Reclaiming
  <1> QED
    BY <1>2, <1>3, <1>4, <1>5, HpLocalStep

LEMMA HpReclaim ==
  ASSUME NEW t \in Threads, HpInv, HpFrame(t), Hp!Reclaim(t)
  PROVE  HpInv'
PROOF
  <1>1. /\ DOMAIN r = Threads /\ DOMAIN pc = Threads /\ HpLocalFields \subseteq DOMAIN r[t]
        /\ HpLocalType(t) /\ m.subs \in Seq(Records) /\ m.pending \in [Records -> Seq(Objects)]
    BY HpKnown DEF HpInv, HpType
  <1>2. /\ pc[t] = "reclaim" /\ pc'[t] = "cache_record" /\ m' = m /\ r'[t].rec = r[t].rec
        /\ r'[t].list = m.subs /\ r'[t].pos = 1 /\ r'[t].i = r[t].i /\ r'[t].marker = 0
        /\ r'[t].todo = m.pending[r[t].rec] /\ r'[t].kept = <<>>
    BY <1>1 DEF Hp!Reclaim, Hp!Step, Hp!At, Hp!Go, Hp!Put, Hp!With, Hp!Local, Hp!Mine, HpLocalFields
  <1>3. r[t].rec \in Records
    BY <1>2, HpKnown
  <1>4. HpLocalType(t)'
    BY <1>1, <1>2, <1>3 DEF HpLocalType, HpFrame, Objects
  <1>5. HpOwn(t)'
    <2>1. m.pending[r[t].rec] \in Seq(Objects)
      BY <1>1, <1>3
    <2>2. <<>> \o m.pending[r[t].rec] = m.pending[r[t].rec]
      BY <2>1
    <2> QED
      BY <1>2, <2>2 DEF HpOwn
  <1>6. HpCovered(t)
    <2> SUFFICES ASSUME NEW u \in Threads, NEW i \in {0, 1}, NEW x \in Objects, Guarded(u, i, x)
                 PROVE  Covers(t, i, r[u].rec, x)'
      BY DEF HpCovered
    <2>1. r[u].rec \in Members(m.subs)
      BY HpGuardHolds
    <2>2. PICK k \in DOMAIN m.subs : m.subs[k] = r[u].rec
      BY <2>1 DEF Members
    <2>3. 1 <= k /\ r'[u].rec = r[u].rec
      BY <1>1, HpOther
    <2> QED
      BY <1>2, <2>2, <2>3 DEF Covers
  <1> QED
    BY <1>2, <1>4, <1>5, <1>6, HpLocalStep

\* A call that reclaims goes on to another record or slot.
LEMMA HpGoesOn ==
  ASSUME NEW t \in Threads, HpInv, HpFrame(t), m' = m, pc[t] \in Reclaiming, pc'[t] \in Reclaiming,
         \A f \in {"rec", "list", "todo", "kept"} : r'[t][f] = r[t][f],
         r'[t].pos \in Nat \ {0}, r'[t].i \in Nat, r'[t].marker \in Nat,
         pc'[t] \in {"cache_slot", "scan_slot"} => r[t].pos \in DOMAIN r[t].list /\ r'[t].pos = r[t].pos,
         pc'[t] \in {"scan_record", "scan_slot"} => r[t].todo # <<>>,
         HpCovered(t)
  PROVE  HpInv'
PROOF
  <1>1. /\ HpLocalType(t) /\ Members(r[t].list) \subseteq Members(m.subs) /\ HpOwn(t)
        /\ HpLocalFields \subseteq DOMAIN r[t]
    BY HpKnown
  <1>2. HpLocalType(t)'
    BY <1>1 DEF HpLocalType, HpFrame, Objects
  <1>3. HpOwn(t)'
    BY <1>1 DEF HpOwn
  <1>4. /\ (pc[t] \in {"out", "look", "take"}) <=> (pc'[t] \in {"out", "look", "take"})
        /\ pc[t] # "left" /\ pc'[t] # "left" /\ pc'[t] # "take"
    BY DEF Reclaiming
  <1> QED
    BY <1>1, <1>2, <1>3, <1>4, HpLocalStep

LEMMA HpCacheRecord ==
  ASSUME NEW t \in Threads, HpInv, HpFrame(t), Hp!CacheRecord(t)
  PROVE  HpInv'
PROOF
  <1>1. /\ DOMAIN r = Threads /\ DOMAIN pc = Threads /\ HpLocalFields \subseteq DOMAIN r[t]
        /\ HpLocalType(t)
    BY HpKnown
  <1>2. /\ pc[t] = "cache_record" /\ pc'[t] \in {"cache_record", "cache_slot", "sweep"} /\ m' = m
        /\ \A f \in HpLocalFields \ {"pos", "i"} : r'[t][f] = r[t][f]
        /\ \/ pc'[t] = "sweep" /\ r'[t].pos = r[t].pos /\ r'[t].i = r[t].i /\ r[t].pos > Len(r[t].list)
           \/ /\ pc'[t] = "cache_record" /\ r'[t].pos = r[t].pos + 1 /\ r'[t].i = r[t].i
              /\ m.state[r[t].list[r[t].pos]] = "free"
           \/ pc'[t] = "cache_slot" /\ r'[t].pos = r[t].pos /\ r'[t].i = 0 /\ ~(r[t].pos > Len(r[t].list))
    BY <1>1 DEF Hp!CacheRecord, Hp!At, Hp!Go, Hp!Put, Hp!With, Hp!Local, HpLocalFields
  <1>3. /\ r[t].pos \in Nat \ {0} /\ r[t].i \in Nat /\ r[t].marker \in Nat /\ r[t].list \in Seq(Records)
        /\ DOMAIN r[t].list = 1 .. Len(r[t].list) /\ Len(r[t].list) \in Nat
    BY <1>1 DEF HpLocalType
  <1>4. HpCovered(t)
    <2> SUFFICES ASSUME NEW u \in Threads, NEW i \in {0, 1}, NEW x \in Objects, Guarded(u, i, x),
                        x \in Members(r'[t].todo)
                 PROVE  Covers(t, i, r[u].rec, x)'
      BY DEF HpCovered
    <2>1. x \in Members(r[t].todo)
      BY <1>2 DEF HpLocalFields
    <2>2. /\ m.state[r[u].rec] = "used" /\ r'[u].rec = r[u].rec
          /\ \E k \in DOMAIN r[t].list : r[t].list[k] = r[u].rec /\ (x \in r[t].cache \/ r[t].pos <= k)
      BY <1>2, <2>1, HpWasCovered, HpOther, SMTT(30) DEF Reclaiming
    <2>3. PICK k \in DOMAIN r[t].list : r[t].list[k] = r[u].rec /\ (x \in r[t].cache \/ r[t].pos <= k)
      BY <2>2
    <2>4. r'[t].list = r[t].list /\ r'[t].cache = r[t].cache
      BY <1>2 DEF HpLocalFields
    <2>5. CASE x \in r[t].cache
      BY <1>2, <2>2, <2>3, <2>4, <2>5 DEF Covers
    <2>6. CASE pc'[t] = "sweep"
      BY <1>2, <1>3, <2>2, <2>3, <2>4, <2>6 DEF Covers
    <2>7. CASE pc'[t] = "cache_record" /\ x \notin r[t].cache
      <3>1. r[t].pos # k
        BY <1>2, <2>2, <2>3, <2>7
      <3>2. r'[t].pos <= k
        BY <1>2, <1>3, <2>3, <2>7, <3>1
      <3> QED
        BY <2>2, <2>3, <2>4, <2>7, <3>2 DEF Covers
    <2>8. CASE pc'[t] = "cache_slot" /\ x \notin r[t].cache
      <3>1. r'[t].pos < k \/ (r'[t].pos = k /\ r'[t].i <= i)
        BY <1>2, <1>3, <2>3, <2>8
      <3> QED
        BY <2>2, <2>3, <2>4, <2>8, <3>1 DEF Covers
    <2> QED
      BY <1>2, <2>5, <2>6, <2>7, <2>8
  <1>5. /\ r'[t].pos \in Nat \ {0} /\ r'[t].i \in Nat /\ r'[t].marker \in Nat
        /\ pc'[t] \in {"cache_slot", "scan_slot"} => r[t].pos \in DOMAIN r[t].list /\ r'[t].pos = r[t].pos
    BY <1>2, <1>3 DEF HpLocalFields
  <1>6. \A f \in {"rec", "list", "todo", "kept"} : r'[t][f] = r[t][f]
    BY <1>2 DEF HpLocalFields
  <1>7. pc[t] \in Reclaiming /\ pc'[t] \in Reclaiming /\ pc'[t] \notin {"scan_record", "scan_slot"}
    BY <1>2 DEF Reclaiming
  <1> QED
    BY <1>2, <1>4, <1>5, <1>6, <1>7, HpGoesOn

LEMMA HpCacheSlot ==
  ASSUME NEW t \in Threads, HpInv, HpFrame(t), Hp!CacheSlot(t)
  PROVE  HpInv'
PROOF
  <1> DEFINE p == m.ptr[r[t].list[r[t].pos]][r[t].i]
  <1>1. /\ DOMAIN r = Threads /\ DOMAIN pc = Threads /\ HpLocalFields \subseteq DOMAIN r[t]
        /\ HpLocalType(t) /\ HpOwn(t) /\ m.degree \in Nat
    BY HpKnown DEF HpInv, HpType
  <1>2. /\ pc[t] = "cache_slot" /\ pc'[t] \in {"cache_record", "cache_slot", "sweep"} /\ m' = m
        /\ \A f \in {"rec", "list", "todo", "kept"} : r'[t][f] = r[t][f]
        /\ \/ /\ pc'[t] = "sweep" /\ r'[t].pos = r[t].pos /\ r'[t].i = r[t].i /\ r'[t].marker = r[t].pos
              /\ r'[t].cache = r[t].cache
           \/ /\ pc'[t] = "cache_slot" /\ r'[t].pos = r[t].pos /\ r'[t].i = r[t].i + 1
              /\ r'[t].marker = r[t].marker /\ r'[t].cache = r[t].cache \cup ({p} \ {NULL})
           \/ /\ pc'[t] = "cache_record" /\ r'[t].pos = r[t].pos + 1 /\ r'[t].i = 0
              /\ r'[t].marker = r[t].marker /\ r'[t].cache = r[t].cache \cup ({p} \ {NULL})
              /\ ~(r[t].i + 1 < m.degree)
    <2>1. /\ pc[t] = "cache_slot" /\ m' = m
          /\ \/ /\ pc' = [pc EXCEPT ![t] = "sweep"]
                /\ Hp!Put(t, [marker |-> r[t].pos])
             \/ /\ r[t].i + 1 < m.degree /\ pc' = [pc EXCEPT ![t] = "cache_slot"]
                /\ Hp!Put(t, [i |-> r[t].i + 1, pos |-> r[t].pos, cache |-> r[t].cache \cup ({p} \ {NULL}),
                           n |-> IF p = NULL THEN r[t].n ELSE r[t].n + 1])
             \/ /\ ~(r[t].i + 1 < m.degree) /\ pc' = [pc EXCEPT ![t] = "cache_record"]
                /\ Hp!Put(t, [i |-> 0, pos |-> r[t].pos + 1, cache |-> r[t].cache \cup ({p} \ {NULL}),
                           n |-> IF p = NULL THEN r[t].n ELSE r[t].n + 1])
      BY DEF Hp!CacheSlot, Hp!At, Hp!Go, Hp!Local
    <2> HIDE DEF p
    <2> QED
      BY <2>1, <1>1 DEF Hp!Put, Hp!With, HpLocalFields
  <1>3. /\ r[t].pos \in Nat \ {0} /\ r[t].i \in Nat /\ r[t].marker \in Nat /\ r[t].list \in Seq(Records)
        /\ DOMAIN r[t].list = 1 .. Len(r[t].list) /\ Len(r[t].list) \in Nat
        /\ r[t].pos \in DOMAIN r[t].list
    <2>1. pc[t] = "cache_slot"
      BY <1>2
    <2> QED
      BY <1>1, <2>1 DEF HpLocalType, HpOwn
  <1>4. HpCovered(t)
    <2> SUFFICES ASSUME NEW u \in Threads, NEW i \in {0, 1}, NEW x \in Objects, Guarded(u, i, x),
                        x \in Members(r'[t].todo)
                 PROVE  Covers(t, i, r[u].rec, x)'
      BY DEF HpCovered
    <2>1. x \in Members(r[t].todo)
      BY <1>2
    <2>2. /\ r'[u].rec = r[u].rec /\ i < m.degree /\ m.ptr[r[u].rec][i] = x /\ x # NULL
          /\ \E k \in DOMAIN r[t].list :
               /\ r[t].list[k] = r[u].rec
               /\ x \in r[t].cache \/ r[t].pos < k \/ (r[t].pos = k /\ r[t].i <= i)
      <3>1. pc[t] = "cache_slot" /\ pc[t] \in Reclaiming
        BY <1>2 DEF Reclaiming
      <3> HIDE DEF p
      <3> QED
        BY <2>1, <3>1, HpWasCovered, HpOther
    <2>3. PICK k \in DOMAIN r[t].list :
               /\ r[t].list[k] = r[u].rec
               /\ x \in r[t].cache \/ r[t].pos < k \/ (r[t].pos = k /\ r[t].i <= i)
      BY <2>2
    <2>4. r'[t].list = r[t].list /\ (x \in r[t].cache => x \in r'[t].cache)
      BY <1>2
    <2>5. CASE x \in r'[t].cache
      BY <1>2, <2>2, <2>3, <2>4, <2>5 DEF Covers
    <2>6. CASE pc'[t] = "sweep" /\ x \notin r'[t].cache
      <3>1. r'[t].marker # 0 /\ r'[t].marker <= k
        BY <1>2, <1>3, <2>3, <2>4, <2>6
      <3> QED
        BY <1>3, <2>2, <2>3, <2>4, <2>6, <3>1 DEF Covers
    <2>7. ASSUME pc'[t] # "sweep", x \notin r'[t].cache PROVE ~(r[t].pos = k /\ r[t].i = i)
      <3>1. p \in r'[t].cache \/ p = NULL
        BY <1>2, <2>7
      <3> QED
        BY <2>2, <2>3, <2>7, <3>1
    <2>8. CASE pc'[t] = "cache_slot" /\ x \notin r'[t].cache
      <3>1. r'[t].pos < k \/ (r'[t].pos = k /\ r'[t].i <= i)
        BY <1>2, <1>3, <2>3, <2>4, <2>7, <2>8
      <3> QED
        BY <2>2, <2>3, <2>4, <2>8, <3>1 DEF Covers
    <2>9. CASE pc'[t] = "cache_record" /\ x \notin r'[t].cache
      <3>1. r'[t].pos <= k
        BY <1>1, <1>2, <1>3, <2>2, <2>3, <2>4, <2>7, <2>9
      <3> QED
        BY <2>2, <2>3, <2>4, <2>9, <3>1 DEF Covers
    <2> QED
      BY <1>2, <2>5, <2>6, <2>8, <2>9
  <1>5. /\ r'[t].pos \in Nat \ {0} /\ r'[t].i \in Nat /\ r'[t].marker \in Nat
        /\ pc'[t] \in {"cache_slot", "scan_slot"} => r[t].pos \in DOMAIN r[t].list /\ r'[t].pos = r[t].pos
    <2> HIDE DEF p
    <2>1. CASE pc'[t] = "sweep"
      BY <1>2, <1>3, <2>1
    <2>2. CASE pc'[t] = "cache_slot"
      BY <1>2, <1>3, <2>2
    <2>3. CASE pc'[t] = "cache_record"
      BY <1>2, <1>3, <2>3
    <2> QED
      BY <1>2, <2>1, <2>2, <2>3
  <1>7. pc[t] \in Reclaiming /\ pc'[t] \in Reclaiming /\ pc'[t] \notin {"scan_record", "scan_slot"}
    BY <1>2 DEF Reclaiming
  <1> HIDE DEF p
  <1> QED
    BY <1>2, <1>4, <1>5, <1>7, HpGoesOn

\* The first object is kept.
LEMMA HpKeeps ==
  ASSUME NEW t \in Threads, HpInv, HpFrame(t), m' = m, pc[t] \in {"sweep", "scan_slot"}, pc'[t] = "sweep",
         \A f \in {"rec", "list", "pos", "i", "marker", "cache"} : r'[t][f] = r[t][f],
         r[t].todo # <<>>, r'[t].todo = Tail(r[t].todo), r'[t].kept = Append(r[t].kept, Head(r[t].todo))
  PROVE  HpInv'
PROOF
  <1>1. /\ HpLocalType(t) /\ Members(r[t].list) \subseteq Members(m.subs) /\ HpOwn(t)
        /\ HpLocalFields \subseteq DOMAIN r[t]
    BY HpKnown
  <1>2. r[t].todo \in Seq(Objects) /\ r[t].kept \in Seq(Objects) /\ pc[t] \in Reclaiming
    BY <1>1 DEF HpLocalType, Reclaiming
  <1>3. /\ r'[t].todo \in Seq(Objects) /\ r'[t].kept \in Seq(Objects)
        /\ r'[t].kept \o r'[t].todo = r[t].kept \o r[t].todo
        /\ Members(r'[t].todo) \subseteq Members(r[t].todo)
    <2>1. ASSUME NEW k \in Seq(Objects), NEW s \in Seq(Objects), s # <<>>
          PROVE  /\ Append(k, Head(s)) \in Seq(Objects) /\ Tail(s) \in Seq(Objects)
                 /\ Append(k, Head(s)) \o Tail(s) = k \o s /\ Members(Tail(s)) \subseteq Members(s)
      BY <2>1, MovesOver, SMTT(30)
    <2> QED
      BY <1>2, <2>1
  <1>4. HpLocalType(t)'
    BY <1>1, <1>3 DEF HpLocalType, HpFrame, Objects
  <1>5. HpOwn(t)'
    BY <1>1, <1>2, <1>3 DEF HpOwn
  <1>6. HpCovered(t)
    <2> SUFFICES ASSUME NEW u \in Threads, NEW i \in {0, 1}, NEW x \in Objects, Guarded(u, i, x),
                        x \in Members(r'[t].todo)
                 PROVE  Covers(t, i, r[u].rec, x)'
      BY DEF HpCovered
    <2>1. x \in Members(r[t].todo) /\ pc[t] \in {"sweep", "scan_record", "scan_slot"}
      BY <1>3
    <2>2. PICK k \in DOMAIN r[t].list :
            /\ r[t].list[k] = r[u].rec
            /\ x \in r[t].cache \/ (r[t].marker # 0 /\ r[t].marker <= k)
      BY <1>2, <2>1, HpWasCovered
    <2>3. r'[u].rec = r[u].rec
      BY HpOther
    <2> QED
      BY <2>2, <2>3 DEF Covers
  <1>7. /\ (pc[t] \in {"out", "look", "take"}) <=> (pc'[t] \in {"out", "look", "take"})
        /\ pc[t] # "left" /\ pc'[t] # "left" /\ pc'[t] # "take"
    OBVIOUS
  <1> QED
    BY <1>1, <1>4, <1>5, <1>6, <1>7, HpLocalStep

\* The first object, which nobody protects, is destroyed.
LEMMA HpDestroys ==
  ASSUME NEW t \in Threads, HpInv, HpFrame(t), pc[t] \in {"sweep", "scan_record"}, pc'[t] = "sweep",
         \A f \in {"rec", "list", "pos", "i", "marker", "cache", "kept"} : r'[t][f] = r[t][f],
         r[t].todo # <<>>, r'[t].todo = Tail(r[t].todo), m' = Hp!Destroyed(t, r[t]),
         \A u \in Threads, i \in {0, 1} : ~Guarded(u, i, Head(r[t].todo))
  PROVE  HpInv'
PROOF
  <1> DEFINE z == Head(r[t].todo)
             y == r[t].rec
  <1>1. /\ HpLocalType(t) /\ Members(r[t].list) \subseteq Members(m.subs) /\ HpOwn(t)
        /\ HpLocalFields \subseteq DOMAIN r[t] /\ HpFields \subseteq DOMAIN m /\ y \in Records
    BY HpKnown
  <1>2. /\ r[t].todo \in Seq(Objects) /\ r[t].kept \in Seq(Objects) /\ pc[t] \in Reclaiming
        /\ m.pending[y] = r[t].kept \o r[t].todo /\ Distinct(m.pending[y])
    BY <1>1 DEF HpLocalType, Reclaiming, HpOwn, HpInv, HpPending
  <1>3. /\ r'[t].todo \in Seq(Objects)
        /\ Members(r'[t].todo) \subseteq Members(r[t].todo)
        /\ z \in Members(m.pending[y]) /\ z \in Objects
        /\ r[t].kept \o r'[t].todo \in Seq(Objects) /\ Distinct(r[t].kept \o r'[t].todo)
        /\ Members(r[t].kept \o r'[t].todo) = Members(m.pending[y]) \ {z}
    BY <1>2, MovesOver
  <1>4. /\ DOMAIN m' = DOMAIN m /\ m'.dead = m.dead \cup {z}
        /\ m'.pending = [m.pending EXCEPT ![y] = r[t].kept \o r'[t].todo]
        /\ \A f \in DOMAIN m \ {"dead", "pending"} : m'[f] = m[f]
    BY <1>1 DEF Hp!Destroyed, Hp!Mine, HpFields
  <1> HIDE DEF z, y
  <1>5. HpType'
    <2>1. HpType
      BY DEF HpInv
    <2>2. /\ m'.subs = m.subs /\ m'.state = m.state /\ m'.degree = m.degree /\ m'.ptr = m.ptr
      BY <1>1, <1>4 DEF HpFields
    <2>3. m'.pending \in [Records -> Seq(Objects)] /\ m'.dead \subseteq Objects
      BY <1>1, <1>3, <1>4, <2>1 DEF HpType
    <2>4. Objects' = Objects /\ DOMAIN pc' = Threads /\ DOMAIN r' = Threads
      BY DEF HpFrame, Objects
    <2> QED
      BY <1>4, <2>1, <2>2, <2>3, <2>4 DEF HpType
  <1>6. HpLocalType(t)'
    BY <1>1, <1>3 DEF HpLocalType, HpFrame, Objects
  <1>7. HpRecords'
    <2>1. m'.subs = m.subs /\ m'.state = m.state
      BY <1>1, <1>4 DEF HpFields
    <2>2. /\ (pc[t] \in {"out", "look", "take"}) <=> (pc'[t] \in {"out", "look", "take"})
          /\ pc[t] # "left" /\ pc'[t] # "left" /\ pc'[t] # "take"
      OBVIOUS
    <2> QED
      BY <1>1, <2>1, <2>2, HpRecordsSame
  <1>8. m.pending \in [Records -> Seq(Objects)]
    BY DEF HpInv, HpType
  <1>9. HpPendingFrame(t)
    <2>1. ASSUME NEW x \in Records
          PROVE  Distinct(m'.pending[x]) /\ Members(m'.pending[x]) \subseteq Members(m.pending[x])
      <3>1. Distinct(m.pending[x])
        BY DEF HpInv, HpPending
      <3> QED
        BY <1>3, <1>4, <1>8, <3>1
    <2>2. ASSUME NEW u \in Threads \ {t}, pc[u] \in Reclaiming
          PROVE  m'.pending[r[u].rec] = m.pending[r[u].rec]
      <3>1. r[u].rec # y
        BY <2>2, HpKnown DEF y, Reclaiming
      <3>2. r[u].rec \in Records
        BY <2>2, HpKnown DEF Reclaiming
      <3> QED
        BY <1>4, <1>8, <3>1, <3>2
    <2>3. ASSUME NEW x \in Records PROVE z \notin Members(m'.pending[x])
      <3>1. CASE x = y
        BY <1>3, <1>4, <1>8, <3>1
      <3>2. CASE x # y
        <4>1. Members(m.pending[x]) \cap Members(m.pending[y]) = {}
          BY <1>1, <3>2 DEF HpInv, HpPending
        <4> QED
          BY <4>1, <1>3, <1>4, <1>8, <3>2
      <3> QED
        BY <3>1, <3>2
    <2>4. z \in AllPending
      BY <1>1, <1>3 DEF AllPending
    <2>5. \A u \in Threads, i \in {0, 1} : ~Guarded(u, i, z)
      BY DEF z
    <2> QED
      BY <1>4, <2>1, <2>2, <2>3, <2>4, <2>5 DEF HpPendingFrame
  <1>10. HpOwn(t)'
    <2>1. m'.pending[y] = r[t].kept \o r'[t].todo /\ r'[t].rec = y
      BY <1>1, <1>4, <1>8 DEF y
    <2> QED
      BY <2>1 DEF HpOwn
  <1>11. HpCovered(t)
    <2> SUFFICES ASSUME NEW u \in Threads, NEW i \in {0, 1}, NEW x \in Objects, Guarded(u, i, x),
                        x \in Members(r'[t].todo)
                 PROVE  Covers(t, i, r[u].rec, x)'
      BY DEF HpCovered
    <2>1. x \in Members(r[t].todo) /\ pc[t] \in {"sweep", "scan_record", "scan_slot"}
      BY <1>3
    <2>2. PICK k \in DOMAIN r[t].list :
            /\ r[t].list[k] = r[u].rec
            /\ x \in r[t].cache \/ (r[t].marker # 0 /\ r[t].marker <= k)
      BY <1>2, <2>1, HpWasCovered
    <2>3. r'[u].rec = r[u].rec
      BY HpOther
    <2> QED
      BY <2>2, <2>3 DEF Covers
  <1> QED
    BY <1>5, <1>6, <1>7, <1>9, <1>10, <1>11, HpPreserves

LEMMA HpSweep ==
  ASSUME NEW t \in Threads, HpInv, HpFrame(t), Hp!Sweep(t)
  PROVE  HpInv'
PROOF
  <1>1. /\ DOMAIN r = Threads /\ DOMAIN pc = Threads /\ HpLocalFields \subseteq DOMAIN r[t]
        /\ HpLocalType(t)
    BY HpKnown
  <1>2. pc[t] = "sweep" /\ r[t].todo # <<>>
    BY DEF Hp!Sweep, Hp!At
  <1>3. /\ r[t].pos \in Nat \ {0} /\ r[t].i \in Nat /\ r[t].marker \in Nat /\ r[t].todo \in Seq(Objects)
        /\ Head(r[t].todo) \in Members(r[t].todo) /\ Head(r[t].todo) \in Objects
    <2>1. r[t].todo \in Seq(Objects) /\ r[t].kept \in Seq(Objects)
      BY <1>1 DEF HpLocalType
    <2> QED
      BY <1>1, <1>2, <2>1, MovesOver DEF HpLocalType
  <1>4. CASE /\ Head(r[t].todo) \in r[t].cache
             /\ Hp!Put(t, Hp!Keep(r[t])) /\ UNCHANGED <<m, pc>>
    <2>1. /\ \A f \in {"rec", "list", "pos", "i", "marker", "cache"} : r'[t][f] = r[t][f]
          /\ r'[t].todo = Tail(r[t].todo) /\ r'[t].kept = Append(r[t].kept, Head(r[t].todo))
      BY <1>1, <1>4 DEF Hp!Put, Hp!With, Hp!Keep, HpLocalFields
    <2> QED
      BY <1>2, <1>4, <2>1, HpKeeps
  <1>5. CASE /\ Head(r[t].todo) \notin r[t].cache /\ r[t].marker # 0
             /\ Hp!Go(t, "scan_record") /\ Hp!Put(t, [pos |-> r[t].marker]) /\ Hp!Local
    <2>1. /\ \A f \in HpLocalFields \ {"pos"} : r'[t][f] = r[t][f]
          /\ r'[t].pos = r[t].marker /\ pc'[t] = "scan_record" /\ m' = m
      BY <1>1, <1>5 DEF Hp!Put, Hp!With, Hp!Go, Hp!Local, HpLocalFields
    <2>2. HpCovered(t)
      <3> SUFFICES ASSUME NEW u \in Threads, NEW i \in {0, 1}, NEW x \in Objects, Guarded(u, i, x),
                          x \in Members(r'[t].todo)
                   PROVE  Covers(t, i, r[u].rec, x)'
        BY DEF HpCovered
      <3>1. x \in Members(r[t].todo) /\ pc[t] \in {"sweep", "scan_record", "scan_slot"} /\ pc[t] \in Reclaiming
        BY <1>2, <2>1 DEF HpLocalFields, Reclaiming
      <3>2. PICK k \in DOMAIN r[t].list :
              /\ r[t].list[k] = r[u].rec
              /\ x \in r[t].cache \/ (r[t].marker # 0 /\ r[t].marker <= k)
        BY <3>1, HpWasCovered
      <3>3. r'[u].rec = r[u].rec
        BY HpOther
      <3>4. \A f \in {"list", "cache", "marker", "todo"} : r'[t][f] = r[t][f]
        BY <2>1 DEF HpLocalFields
      <3> QED
        BY <1>5, <2>1, <3>2, <3>3, <3>4 DEF Covers
    <2>3. \A f \in {"rec", "list", "todo", "kept", "i", "marker"} : r'[t][f] = r[t][f]
      BY <2>1 DEF HpLocalFields
    <2>4. pc[t] \in Reclaiming /\ pc'[t] \in Reclaiming
      BY <1>2, <2>1 DEF Reclaiming
    <2>5. r'[t].pos \in Nat \ {0} /\ r'[t].i \in Nat /\ r'[t].marker \in Nat
      BY <1>3, <1>5, <2>1, <2>3
    <2> QED
      BY <1>2, <2>1, <2>2, <2>3, <2>4, <2>5, HpGoesOn
  <1>6. CASE /\ Head(r[t].todo) \notin r[t].cache /\ r[t].marker = 0
             /\ m' = Hp!Destroyed(t, r[t]) /\ Hp!Put(t, [todo |-> Tail(r[t].todo)]) /\ UNCHANGED pc
    <2>1. /\ \A f \in {"rec", "list", "pos", "i", "marker", "cache", "kept"} : r'[t][f] = r[t][f]
          /\ r'[t].todo = Tail(r[t].todo)
      BY <1>1, <1>6 DEF Hp!Put, Hp!With, HpLocalFields
    <2>2. ASSUME NEW u \in Threads, NEW i \in {0, 1}, Guarded(u, i, Head(r[t].todo)) PROVE FALSE
      <3>1. pc[t] \in Reclaiming
        BY <1>2 DEF Reclaiming
      <3> QED
        BY <1>2, <1>3, <1>6, <2>2, <3>1, HpWasCovered
    <2> QED
      BY <1>2, <1>6, <2>1, <2>2, HpDestroys
  <1> QED
    BY <1>4, <1>5, <1>6 DEF Hp!Sweep

LEMMA HpScanRecord ==
  ASSUME NEW t \in Threads, HpInv, HpFrame(t), Hp!ScanRecord(t)
  PROVE  HpInv'
PROOF
  <1>1. /\ DOMAIN r = Threads /\ DOMAIN pc = Threads /\ HpLocalFields \subseteq DOMAIN r[t]
        /\ HpLocalType(t) /\ HpOwn(t)
    BY HpKnown
  <1>2. pc[t] = "scan_record" /\ r[t].todo # <<>> /\ pc[t] \in Reclaiming
    BY <1>1 DEF Hp!ScanRecord, Hp!At, HpOwn, Reclaiming
  <1>3. /\ r[t].pos \in Nat \ {0} /\ r[t].i \in Nat /\ r[t].marker \in Nat /\ r[t].todo \in Seq(Objects)
        /\ Head(r[t].todo) \in Members(r[t].todo) /\ Head(r[t].todo) \in Objects
        /\ r[t].list \in Seq(Records) /\ DOMAIN r[t].list = 1 .. Len(r[t].list) /\ Len(r[t].list) \in Nat
    <2>1. r[t].todo \in Seq(Objects) /\ r[t].kept \in Seq(Objects)
      BY <1>1 DEF HpLocalType
    <2> QED
      BY <1>1, <1>2, <2>1, MovesOver DEF HpLocalType
  <1>4. CASE r[t].pos > Len(r[t].list)
    <2>1. /\ m' = Hp!Destroyed(t, r[t]) /\ pc'[t] = "sweep"
          /\ \A f \in {"rec", "list", "pos", "i", "marker", "cache", "kept"} : r'[t][f] = r[t][f]
          /\ r'[t].todo = Tail(r[t].todo)
      BY <1>1, <1>4 DEF Hp!ScanRecord, Hp!Put, Hp!With, Hp!Go, HpLocalFields
    <2>2. ASSUME NEW u \in Threads, NEW i \in {0, 1}, Guarded(u, i, Head(r[t].todo)) PROVE FALSE
      <3>1. PICK k \in DOMAIN r[t].list : r[t].pos <= k
        BY <1>2, <1>3, <2>2, HpWasCovered, SMTT(30)
      <3> QED
        BY <1>3, <1>4, <3>1
    <2> QED
      BY <1>2, <2>1, <2>2, HpDestroys
  <1>5. CASE ~(r[t].pos > Len(r[t].list))
    <2>1. /\ m' = m /\ \A f \in HpLocalFields \ {"pos", "i"} : r'[t][f] = r[t][f]
          /\ \/ /\ pc'[t] = "scan_record" /\ r'[t].pos = r[t].pos + 1 /\ r'[t].i = r[t].i
                /\ m.state[r[t].list[r[t].pos]] = "free"
             \/ pc'[t] = "scan_slot" /\ r'[t].pos = r[t].pos /\ r'[t].i = 0
      BY <1>1, <1>2, <1>5 DEF Hp!ScanRecord, Hp!Put, Hp!With, Hp!Go, Hp!Local, HpLocalFields
    <2>2. HpCovered(t)
      <3> SUFFICES ASSUME NEW u \in Threads, NEW i \in {0, 1}, NEW x \in Objects, Guarded(u, i, x),
                          x \in Members(r'[t].todo)
                   PROVE  Covers(t, i, r[u].rec, x)'
        BY DEF HpCovered
      <3>1. \A f \in {"list", "cache", "marker", "todo"} : r'[t][f] = r[t][f]
        BY <2>1 DEF HpLocalFields
      <3>2. x \in Members(r[t].todo)
        BY <3>1
      <3>3. PICK k \in DOMAIN r[t].list :
              /\ r[t].list[k] = r[u].rec
              /\ x \in r[t].cache \/ (r[t].marker # 0 /\ r[t].marker <= k)
              /\ x = Head(r[t].todo) => r[t].pos <= k
        BY <1>2, <3>2, HpWasCovered
      <3>4. r'[u].rec = r[u].rec /\ m.state[r[u].rec] = "used"
        BY HpOther, HpGuardHolds
      <3>5. CASE pc'[t] = "scan_record"
        <4>0. r[t].pos # k
          BY <2>1, <3>3, <3>4, <3>5
        <4>1. x = Head(r[t].todo) => r'[t].pos <= k
          BY <1>3, <2>1, <3>3, <3>5, <4>0
        <4> QED
          BY <3>1, <3>3, <3>4, <3>5, <4>1 DEF Covers
      <3>6. CASE pc'[t] = "scan_slot"
        <4>1. x = Head(r[t].todo) => r'[t].pos < k \/ (r'[t].pos = k /\ r'[t].i <= i)
          BY <1>3, <2>1, <3>3, <3>6
        <4> QED
          BY <3>1, <3>3, <3>4, <3>6, <4>1 DEF Covers
      <3> QED
        BY <2>1, <3>5, <3>6
    <2>3. \A f \in {"rec", "list", "todo", "kept", "marker"} : r'[t][f] = r[t][f]
      BY <2>1 DEF HpLocalFields
    <2>4. pc'[t] \in Reclaiming
      BY <2>1 DEF Reclaiming
    <2>5. /\ r'[t].pos \in Nat \ {0} /\ r'[t].i \in Nat /\ r'[t].marker \in Nat
          /\ pc'[t] \in {"cache_slot", "scan_slot"} => r[t].pos \in DOMAIN r[t].list /\ r'[t].pos = r[t].pos
      BY <1>3, <1>5, <2>1, <2>3
    <2> QED
      BY <1>2, <2>1, <2>2, <2>3, <2>4, <2>5, HpGoesOn
  <1> QED
    BY <1>4, <1>5

LEMMA HpScanSlot ==
  ASSUME NEW t \in Threads, HpInv, HpFrame(t), Hp!ScanSlot(t)
  PROVE  HpInv'
PROOF
  <1> DEFINE p == m.ptr[r[t].list[r[t].pos]][r[t].i]
  <1>1. /\ DOMAIN r = Threads /\ DOMAIN pc = Threads /\ HpLocalFields \subseteq DOMAIN r[t]
        /\ HpLocalType(t) /\ HpOwn(t) /\ m.degree \in Nat
    BY HpKnown DEF HpInv, HpType
  <1>2. pc[t] = "scan_slot" /\ r[t].todo # <<>> /\ pc[t] \in Reclaiming
    BY <1>1 DEF Hp!ScanSlot, Hp!At, HpOwn, Reclaiming
  <1>3. /\ r[t].pos \in Nat \ {0} /\ r[t].i \in Nat /\ r[t].marker \in Nat
        /\ r[t].list \in Seq(Records) /\ DOMAIN r[t].list = 1 .. Len(r[t].list) /\ Len(r[t].list) \in Nat
        /\ r[t].pos \in DOMAIN r[t].list
    BY <1>1, <1>2 DEF HpLocalType, HpOwn
  <1>4. CASE p = Head(r[t].todo)
    <2>1. /\ m' = m /\ pc'[t] = "sweep"
          /\ \A f \in {"rec", "list", "pos", "i", "marker", "cache"} : r'[t][f] = r[t][f]
          /\ r'[t].todo = Tail(r[t].todo) /\ r'[t].kept = Append(r[t].kept, Head(r[t].todo))
      BY <1>1, <1>4 DEF Hp!ScanSlot, Hp!Put, Hp!With, Hp!Go, Hp!Local, Hp!Keep, HpLocalFields
    <2> HIDE DEF p
    <2> QED
      BY <1>2, <2>1, HpKeeps
  <1>5. CASE p # Head(r[t].todo)
    <2>1. /\ m' = m /\ \A f \in HpLocalFields \ {"pos", "i"} : r'[t][f] = r[t][f]
          /\ \/ /\ pc'[t] = "scan_slot" /\ r'[t].pos = r[t].pos /\ r'[t].i = r[t].i + 1
             \/ /\ pc'[t] = "scan_record" /\ r'[t].pos = r[t].pos + 1 /\ r'[t].i = r[t].i
                /\ ~(r[t].i + 1 < m.degree)
      BY <1>1, <1>2, <1>5 DEF Hp!ScanSlot, Hp!Put, Hp!With, Hp!Go, Hp!Local, HpLocalFields
    <2>2. HpCovered(t)
      <3> SUFFICES ASSUME NEW u \in Threads, NEW i \in {0, 1}, NEW x \in Objects, Guarded(u, i, x),
                          x \in Members(r'[t].todo)
                   PROVE  Covers(t, i, r[u].rec, x)'
        BY DEF HpCovered
      <3>1. \A f \in {"list", "cache", "marker", "todo"} : r'[t][f] = r[t][f]
        BY <2>1 DEF HpLocalFields
      <3>2. x \in Members(r[t].todo)
        BY <3>1
      <3>3. /\ i < m.degree /\ m.ptr[r[u].rec][i] = x
            /\ \E k \in DOMAIN r[t].list :
                 /\ r[t].list[k] = r[u].rec
                 /\ x \in r[t].cache \/ (r[t].marker # 0 /\ r[t].marker <= k)
                 /\ x = Head(r[t].todo) => r[t].pos < k \/ (r[t].pos = k /\ r[t].i <= i)
        <4> HIDE DEF p
        <4> QED
          BY <1>2, <3>2, HpWasCovered
      <3>4. PICK k \in DOMAIN r[t].list :
                 /\ r[t].list[k] = r[u].rec
                 /\ x \in r[t].cache \/ (r[t].marker # 0 /\ r[t].marker <= k)
                 /\ x = Head(r[t].todo) => r[t].pos < k \/ (r[t].pos = k /\ r[t].i <= i)
        BY <3>3
      <3>5. r'[u].rec = r[u].rec
        BY HpOther
      <3>6. x = Head(r[t].todo) => ~(r[t].pos = k /\ r[t].i = i)
        BY <1>5, <3>3, <3>4
      <3> HIDE DEF p
      <3>7. CASE pc'[t] = "scan_record"
        <4>1. x = Head(r[t].todo) => r'[t].pos <= k
          BY <1>1, <1>3, <2>1, <3>3, <3>4, <3>6, <3>7
        <4> QED
          BY <3>1, <3>4, <3>5, <3>7, <4>1 DEF Covers
      <3>8. CASE pc'[t] = "scan_slot"
        <4>1. x = Head(r[t].todo) => r'[t].pos < k \/ (r'[t].pos = k /\ r'[t].i <= i)
          BY <1>3, <2>1, <3>4, <3>6, <3>8
        <4> QED
          BY <3>1, <3>4, <3>5, <3>8, <4>1 DEF Covers
      <3> QED
        BY <2>1, <3>7, <3>8
    <2> HIDE DEF p
    <2>3. \A f \in {"rec", "list", "todo", "kept", "marker"} : r'[t][f] = r[t][f]
      BY <2>1 DEF HpLocalFields
    <2>4. pc'[t] \in Reclaiming
      BY <2>1 DEF Reclaiming
    <2>5. /\ r'[t].pos \in Nat \ {0} /\ r'[t].i \in Nat /\ r'[t].marker \in Nat
          /\ pc'[t] \in {"cache_slot", "scan_slot"} => r[t].pos \in DOMAIN r[t].list /\ r'[t].pos = r[t].pos
      BY <1>3, <2>1, <2>3, SMTT(30)
    <2> QED
      BY <1>2, <2>1, <2>2, <2>3, <2>4, <2>5, HpGoesOn
  <1> QED
    BY <1>4, <1>5

LEMMA HpPendingSame ==
  ASSUME NEW t \in Threads, HpInv, m'.pending = m.pending, m'.dead = m.dead
  PROVE  HpPendingFrame(t)
PROOF
  BY DEF HpPendingFrame, HpInv, HpPending

\* t takes x, which nobody has.
LEMMA HpRecordsTaken ==
  ASSUME NEW t \in Threads, HpInv, HpFrame(t), NEW x \in Records, m.state[x] # "used",
         pc'[t] \notin {"out", "look", "take", "left"}, r'[t].rec = x,
         m'.state = [m.state EXCEPT ![x] = "used"], Members(m'.subs) = Members(m.subs) \cup {x},
         Members(r'[t].list) \subseteq Members(m'.subs)
  PROVE  HpRecords'
PROOF
  <1>0. /\ \A u \in Threads \ {t} : pc'[u] = pc[u] /\ r'[u] = r[u]
        /\ m.state \in [Records -> {"new", "free", "used"}] /\ x # NULL
    BY QueuesAssumption DEF HpFrame, HpInv, HpType
  <1>1. HpRecords
    BY DEF HpInv
  <1>2. ASSUME NEW y \in Records PROVE (m'.state[y] # "new") <=> (y \in Members(m'.subs))
    <2>1. (m.state[y] # "new") <=> (y \in Members(m.subs))
      BY <1>1 DEF HpRecords
    <2> QED
      BY <2>1, <1>0
  <1>3. ASSUME NEW u \in Threads PROVE (pc'[u] \in {"out", "look", "take"}) <=> (r'[u].rec = NULL)
    <2>1. CASE u = t
      BY <2>1, <1>0
    <2>2. CASE u # t
      BY <2>2, <1>0, <1>1 DEF HpRecords
    <2> QED
      BY <2>1, <2>2
  <1>4. ASSUME NEW u \in Threads, u # t, r[u].rec # NULL, pc[u] # "left"
        PROVE  m.state[r[u].rec] = "used" /\ r[u].rec # x /\ r[u].rec \in Records
    <2>1. m.state[r[u].rec] = "used" /\ r[u].rec # x
      BY <1>1, <1>4 DEF HpRecords
    <2>2. HpLocalType(u)
      BY DEF HpInv
    <2> QED
      BY <2>1, <2>2, <1>4 DEF HpLocalType
  <1>5. ASSUME NEW u \in Threads, r'[u].rec # NULL, pc'[u] # "left" PROVE m'.state[r'[u].rec] = "used"
    <2>1. CASE u = t
      BY <2>1, <1>0
    <2>2. CASE u # t
      BY <2>2, <1>0, <1>4, <1>5
    <2> QED
      BY <2>1, <2>2
  <1>6. ASSUME NEW u \in Threads, NEW v \in Threads, u # v, r'[u].rec # NULL, pc'[u] # "left", pc'[v] # "left"
        PROVE  r'[u].rec # r'[v].rec
    <2>1. CASE u = t
      BY <2>1, <1>0, <1>4, <1>6
    <2>2. CASE v = t
      BY <2>2, <1>0, <1>4, <1>6
    <2>3. CASE u # t /\ v # t
      <3>1. r[u].rec # r[v].rec
        BY <2>3, <1>0, <1>1, <1>6 DEF HpRecords
      <3> QED
        BY <2>3, <3>1, <1>0
    <2> QED
      BY <2>1, <2>2, <2>3
  <1>7. ASSUME NEW u \in Threads PROVE Members(r'[u].list) \subseteq Members(m'.subs)
    <2>1. CASE u # t
      BY <2>1, <1>0, <1>1 DEF HpRecords
    <2> QED
      BY <2>1
  <1>8. ASSUME NEW u \in Threads, pc'[u] = "take" PROVE r'[u].pos \in DOMAIN r'[u].list
    <2>1. u # t
      BY <1>8
    <2> QED
      BY <2>1, <1>0, <1>1, <1>8 DEF HpRecords
  <1>9. /\ \A y \in Records : (m'.state[y] # "new") <=> (y \in Members(m.subs)')
        /\ \A u \in Threads : Members(r[u].list)' \subseteq Members(m.subs)'
    BY <1>2, <1>7 DEF Members
  <1> QED
    BY <1>3, <1>5, <1>6, <1>8, <1>9 DEF HpRecords

LEMMA HpClear ==
  ASSUME NEW t \in Threads, HpInv, HpFrame(t), Hp!Clear(t)
  PROVE  HpInv'
PROOF
  <1>1. /\ HpFields \subseteq DOMAIN m /\ HpLocalType(t) /\ Members(r[t].list) \subseteq Members(m.subs)
        /\ HpType
    BY HpKnown DEF HpInv
  <1>2. pc[t] = "idle" /\ pc' = pc /\ r' = r /\ m' = [m EXCEPT !.ptr[r[t].rec] = Hp!Empty(m.degree)]
    BY DEF Hp!Clear, Hp!At, Hp!Mine
  <1>3. /\ DOMAIN m' = DOMAIN m /\ m'.ptr = [m.ptr EXCEPT ![r[t].rec] = Hp!Empty(m.degree)]
        /\ \A f \in DOMAIN m \ {"ptr"} : m'[f] = m[f]
    BY <1>1, <1>2 DEF HpFields
  <1>4. /\ m'.subs = m.subs /\ m'.state = m.state /\ m'.degree = m.degree /\ m'.pending = m.pending
        /\ m'.dead = m.dead
    BY <1>1, <1>3 DEF HpFields
  <1>5. HpType'
    <2>1. Hp!Empty(m.degree) \in [0 .. m.degree - 1 -> Objects \cup {NULL}]
      BY DEF Hp!Empty
    <2>2. m'.ptr \in [Records -> [0 .. m.degree - 1 -> Objects \cup {NULL}]]
      BY <1>1, <1>3, <2>1 DEF HpType
    <2>3. Objects' = Objects
      BY DEF HpFrame, Objects
    <2> QED
      BY <1>1, <1>2, <1>3, <1>4, <2>2, <2>3 DEF HpType
  <1>6. HpLocalType(t)'
    BY <1>1, <1>2 DEF HpLocalType, HpFrame, Objects
  <1>7. HpRecords'
    BY <1>1, <1>2, <1>4, HpRecordsSame
  <1>8. HpPendingFrame(t)
    BY <1>4, HpPendingSame
  <1>9. HpOwn(t)' /\ HpCovered(t)
    BY <1>2, HpIdle DEF HpLabels, Reclaiming
  <1> QED
    BY <1>5, <1>6, <1>7, <1>8, <1>9, HpPreserves

LEMMA HpRegister ==
  ASSUME NEW t \in Threads, HpInv, HpFrame(t), Hp!Register(t)
  PROVE  HpInv'
PROOF
  <1>1. /\ HpFields \subseteq DOMAIN m /\ DOMAIN r = Threads /\ DOMAIN pc = Threads
        /\ HpLocalFields \subseteq DOMAIN r[t] /\ HpLocalType(t)
        /\ Members(r[t].list) \subseteq Members(m.subs) /\ HpType
    BY HpKnown DEF HpInv
  <1>2. PICK x \in {y \in Records : m.state[y] = "new"} :
          /\ m' = [m EXCEPT !.state[x] = "used", !.subs = <<x>> \o m.subs,
                            !.ptr[x] = Hp!Empty(m.degree), !.pending[x] = <<>>]
          /\ Hp!Put(t, [rec |-> x, joins |-> r[t].joins + 1])
    BY DEF Hp!Register
  <1>3. x \in Records /\ m.state[x] = "new" /\ pc[t] = "out" /\ pc'[t] = "idle"
    BY <1>1, <1>2 DEF Hp!Register, Hp!At, Hp!Go
  <1>4. r'[t].rec = x /\ \A f \in HpLocalFields \ {"rec", "joins"} : r'[t][f] = r[t][f]
    BY <1>1, <1>2 DEF Hp!Put, Hp!With, HpLocalFields
  <1>5. /\ DOMAIN m' = DOMAIN m
        /\ m'.state = [m.state EXCEPT ![x] = "used"] /\ m'.subs = <<x>> \o m.subs
        /\ m'.ptr = [m.ptr EXCEPT ![x] = Hp!Empty(m.degree)] /\ m'.pending = [m.pending EXCEPT ![x] = <<>>]
        /\ m'.dead = m.dead /\ m'.degree = m.degree
    BY <1>1, <1>2 DEF HpFields
  <1>6. /\ m.subs \in Seq(Records) /\ m.pending \in [Records -> Seq(Objects)]
        /\ m.state \in [Records -> {"new", "free", "used"}]
        /\ m.ptr \in [Records -> [0 .. m.degree - 1 -> Objects \cup {NULL}]]
    BY <1>1 DEF HpType
  <1>7. m'.subs \in Seq(Records) /\ Members(m'.subs) = {x} \cup Members(m.subs)
    BY <1>3, <1>5, <1>6, InFront
  <1>8. HpType'
    <2>1. Hp!Empty(m.degree) \in [0 .. m.degree - 1 -> Objects \cup {NULL}]
      BY DEF Hp!Empty
    <2>2. m'.ptr \in [Records -> [0 .. m.degree - 1 -> Objects \cup {NULL}]]
      BY <1>3, <1>5, <1>6, <2>1
    <2>3. Objects' = Objects /\ DOMAIN pc' = Threads /\ DOMAIN r' = Threads
      BY DEF HpFrame, Objects
    <2>4. m'.state \in [Records -> {"new", "free", "used"}]
      BY <1>3, <1>5, <1>6
    <2>5. m'.pending \in [Records -> Seq(Objects)]
      BY <1>3, <1>5, <1>6, Nothing
    <2> QED
      BY <1>1, <1>5, <1>7, <2>2, <2>3, <2>4, <2>5 DEF HpType
  <1>9. HpLocalType(t)'
    BY <1>1, <1>3, <1>4 DEF HpLocalType, HpFrame, Objects, HpLocalFields
  <1>10. HpRecords'
    <2>1. Members(r'[t].list) \subseteq Members(m'.subs)
      BY <1>1, <1>4, <1>7 DEF HpLocalFields
    <2> QED
      BY <1>3, <1>4, <1>5, <1>7, <2>1, HpRecordsTaken
  <1>11. HpPendingFrame(t)
    <2>1. ASSUME NEW y \in Records
          PROVE  Distinct(m'.pending[y]) /\ Members(m'.pending[y]) \subseteq Members(m.pending[y])
      <3>1. Distinct(<<>>) /\ Members(<<>>) = {}
        BY Nothing DEF Distinct
      <3>2. Distinct(m.pending[y])
        BY DEF HpInv, HpPending
      <3> QED
        BY <1>5, <1>6, <3>1, <3>2
    <2>2. ASSUME NEW u \in Threads \ {t}, pc[u] \in Reclaiming
          PROVE  m'.pending[r[u].rec] = m.pending[r[u].rec]
      <3>1. r[u].rec \in Records /\ m.state[r[u].rec] = "used"
        BY <2>2, HpKnown DEF Reclaiming
      <3> QED
        BY <1>3, <1>5, <1>6, <3>1
    <2> QED
      BY <1>5, <2>1, <2>2 DEF HpPendingFrame
  <1>12. HpOwn(t)' /\ HpCovered(t)
    BY <1>3, HpIdle DEF HpLabels, Reclaiming
  <1> QED
    BY <1>8, <1>9, <1>10, <1>11, <1>12, HpPreserves

\* A step, outside of reclamations, that changes who has which record.
LEMMA HpStateStep ==
  ASSUME NEW t \in Threads, HpInv, HpFrame(t), pc'[t] \in HpLabels \ Reclaiming,
         \A f \in HpFields \ {"state", "n_free"} : m'[f] = m[f],
         m'.state \in [Records -> {"new", "free", "used"}], HpLocalType(t)', HpRecords'
  PROVE  HpInv'
PROOF
  <1>1. /\ m'.subs = m.subs /\ m'.degree = m.degree /\ m'.pending = m.pending
        /\ m'.dead = m.dead /\ m'.ptr = m.ptr
    BY DEF HpFields
  <1>2. HpType'
    BY <1>1 DEF HpInv, HpType, HpFrame, Objects
  <1>3. HpPendingFrame(t)
    BY <1>1, HpPendingSame
  <1>4. HpOwn(t)' /\ HpCovered(t)
    BY HpIdle
  <1> QED
    BY <1>2, <1>3, <1>4, HpPreserves

LEMMA HpRecycleTake ==
  ASSUME NEW t \in Threads, HpInv, HpFrame(t), Hp!RecycleTake(t)
  PROVE  HpInv'
PROOF
  <1> DEFINE x == r[t].list[r[t].pos]
  <1>1. /\ HpFields \subseteq DOMAIN m /\ DOMAIN r = Threads /\ DOMAIN pc = Threads
        /\ HpLocalFields \subseteq DOMAIN r[t] /\ HpLocalType(t)
        /\ Members(r[t].list) \subseteq Members(m.subs)
        /\ m.state \in [Records -> {"new", "free", "used"}] /\ HpRecords
    BY HpKnown DEF HpInv, HpType
  <1>2. pc[t] = "take" /\ m' = [m EXCEPT !.state[x] = "used"] /\ r[t].pos \in DOMAIN r[t].list
    BY HpKnown DEF Hp!RecycleTake, Hp!At
  <1>3. x \in Records /\ x \in Members(m.subs)
    <2>1. x \in Records /\ x \in Members(r[t].list)
      BY <1>1, <1>2 DEF HpLocalType, Members
    <2> QED
      BY <1>1, <2>1
  <1>4. m.state[x] \in {"free", "used"}
    BY <1>1, <1>3 DEF HpRecords
  <1>5. CASE m.state[x] = "free"
    <2>1. pc'[t] = "taken" /\ r'[t].rec = x /\ \A f \in HpLocalFields \ {"rec"} : r'[t][f] = r[t][f]
      BY <1>1, <1>5 DEF Hp!RecycleTake, Hp!Go, Hp!Put, Hp!With, HpLocalFields
    <2> HIDE DEF x
    <2>2. m'.state = [m.state EXCEPT ![x] = "used"] /\ \A f \in HpFields \ {"state"} : m'[f] = m[f]
      BY <1>1, <1>2 DEF HpFields
    <2>3. m'.subs = m.subs /\ r'[t].list = r[t].list
      BY <2>1, <2>2 DEF HpFields, HpLocalFields
    <2>4. Members(m'.subs) = Members(m.subs) \cup {x} /\ Members(r'[t].list) \subseteq Members(m'.subs)
      BY <1>1, <1>3, <2>3
    <2>5. HpRecords'
      BY <1>3, <1>5, <2>1, <2>2, <2>4, HpRecordsTaken
    <2>6. HpLocalType(t)'
      BY <1>1, <1>3, <2>1 DEF HpLocalType, HpFrame, Objects, HpLocalFields
    <2>7. m'.state \in [Records -> {"new", "free", "used"}] /\ pc'[t] \in HpLabels \ Reclaiming
      BY <1>1, <1>3, <2>1, <2>2 DEF HpLabels, Reclaiming
    <2> QED
      BY <2>2, <2>5, <2>6, <2>7, HpStateStep
  <1>6. CASE m.state[x] = "used"
    <2>1. pc'[t] = "look" /\ r'[t].pos = r[t].pos + 1 /\ \A f \in HpLocalFields \ {"pos"} : r'[t][f] = r[t][f]
      BY <1>1, <1>6 DEF Hp!RecycleTake, Hp!Go, Hp!Put, Hp!With, HpLocalFields
    <2> HIDE DEF x
    <2>2. m'.state = [m.state EXCEPT ![x] = "used"] /\ \A f \in HpFields \ {"state"} : m'[f] = m[f]
      BY <1>1, <1>2 DEF HpFields
    <2>3. m'.state = m.state /\ m'.subs = m.subs
      BY <1>1, <1>6, <2>2 DEF HpFields
    <2>4. Members(r'[t].list) \subseteq Members(m.subs) /\ r'[t].rec = r[t].rec
      BY <1>1, <2>1 DEF HpLocalFields
    <2>5. HpRecords'
      BY <1>2, <2>1, <2>3, <2>4, HpRecordsSame
    <2>6. HpLocalType(t)'
      BY <1>1, <2>1 DEF HpLocalType, HpFrame, Objects, HpLocalFields
    <2>7. pc'[t] \in HpLabels \ Reclaiming
      BY <2>1 DEF HpLabels, Reclaiming
    <2> QED
      BY <1>1, <2>2, <2>3, <2>5, <2>6, <2>7, HpStateStep
  <1> QED
    BY <1>4, <1>5, <1>6

LEMMA HpRecycleCount ==
  ASSUME NEW t \in Threads, HpInv, HpFrame(t), Hp!RecycleCount(t)
  PROVE  HpInv'
PROOF
  <1>1. /\ HpFields \subseteq DOMAIN m /\ DOMAIN r = Threads /\ DOMAIN pc = Threads
        /\ HpLocalFields \subseteq DOMAIN r[t] /\ HpLocalType(t)
        /\ m.state \in [Records -> {"new", "free", "used"}]
    BY HpKnown DEF HpInv, HpType
  <1>2. /\ pc[t] = "taken" /\ pc'[t] = "idle" /\ r'[t].rec = r[t].rec
        /\ r'[t].list = <<>> /\ r'[t].pos = 1 /\ r'[t].i = 0 /\ r'[t].marker = 0
        /\ r'[t].todo = <<>> /\ r'[t].kept = <<>>
    BY <1>1 DEF Hp!RecycleCount, Hp!Step, Hp!At, Hp!Go, Hp!Put, Hp!With, Hp!HpScratch, HpLocalFields
  <1>3. \A f \in HpFields \ {"n_free"} : m'[f] = m[f]
    BY <1>1 DEF Hp!RecycleCount, HpFields
  <1>4. m'.subs = m.subs /\ m'.state = m.state
    BY <1>3 DEF HpFields
  <1>5. Members(r'[t].list) \subseteq Members(m.subs)
    BY <1>2, Nothing
  <1>6. HpRecords'
    BY <1>2, <1>4, <1>5, HpRecordsSame
  <1>7. HpLocalType(t)'
    <2>1. <<>> \in Seq(Objects) /\ <<>> \in Seq(Records) /\ Objects' = Objects /\ DOMAIN r'[t] = DOMAIN r[t]
      BY Nothing DEF HpFrame, Objects
    <2> QED
      BY <1>1, <1>2, <2>1 DEF HpLocalType
  <1>8. pc'[t] \in HpLabels \ Reclaiming
    BY <1>2 DEF HpLabels, Reclaiming
  <1> QED
    BY <1>1, <1>3, <1>4, <1>6, <1>7, <1>8, HpStateStep

LEMMA HpUnregister ==
  ASSUME NEW t \in Threads, HpInv, HpFrame(t), Hp!Unregister(t)
  PROVE  HpInv'
PROOF
  <1>1. /\ HpFields \subseteq DOMAIN m /\ DOMAIN r = Threads /\ DOMAIN pc = Threads /\ HpLocalType(t)
        /\ m.state \in [Records -> {"new", "free", "used"}] /\ HpRecords
    BY HpKnown DEF HpInv, HpType
  <1>2. pc[t] = "idle" /\ pc'[t] = "left" /\ r' = r /\ m' = [m EXCEPT !.state[r[t].rec] = "free"]
    BY <1>1 DEF Hp!Unregister, Hp!Step, Hp!At, Hp!Go, Hp!Mine
  <1>3. m'.state = [m.state EXCEPT ![r[t].rec] = "free"] /\ \A f \in HpFields \ {"state"} : m'[f] = m[f]
    BY <1>1, <1>2 DEF HpFields
  <1>4. /\ r[t].rec \in Records /\ m.state[r[t].rec] = "used" /\ r[t].rec # NULL
        /\ \A u \in Threads \ {t} : pc[u] # "left" => r[t].rec # r[u].rec
    BY <1>2, HpKnown, QueuesAssumption
  <1>5. \A u \in Threads \ {t} : pc'[u] = pc[u]
    BY DEF HpFrame
  <1>6. m'.subs = m.subs
    BY <1>3 DEF HpFields
  <1>7. HpRecords'
    <2>1. ASSUME NEW y \in Records PROVE (m'.state[y] # "new") <=> (y \in Members(m'.subs))
      <3>1. (m.state[y] # "new") <=> (y \in Members(m.subs))
        BY <1>1 DEF HpRecords
      <3> QED
        BY <3>1, <1>1, <1>3, <1>4, <1>6
    <2>2. ASSUME NEW u \in Threads PROVE (pc'[u] \in {"out", "look", "take"}) <=> (r'[u].rec = NULL)
      <3>1. (pc[u] \in {"out", "look", "take"}) <=> (r[u].rec = NULL)
        BY <1>1 DEF HpRecords
      <3> QED
        BY <3>1, <1>2, <1>5
    <2>3. ASSUME NEW u \in Threads, r'[u].rec # NULL, pc'[u] # "left" PROVE m'.state[r'[u].rec] = "used"
      <3>1. u # t /\ r[u].rec # NULL /\ pc[u] # "left"
        BY <2>3, <1>2, <1>5
      <3>2. m.state[r[u].rec] = "used"
        BY <3>1, <1>1 DEF HpRecords
      <3>3. r[u].rec # r[t].rec
        BY <3>1, <1>4
      <3> QED
        BY <3>2, <3>3, <1>2, <1>3, <1>1
    <2>4. ASSUME NEW u \in Threads, NEW v \in Threads, u # v, r'[u].rec # NULL, pc'[u] # "left", pc'[v] # "left"
          PROVE  r'[u].rec # r'[v].rec
      <3>1. u # t /\ v # t /\ r[u].rec # NULL /\ pc[u] # "left" /\ pc[v] # "left"
        BY <2>4, <1>2, <1>5
      <3>2. r[u].rec # r[v].rec
        BY <2>4, <3>1, <1>1 DEF HpRecords
      <3> QED
        BY <3>2, <1>2
    <2>5. \A u \in Threads : Members(r'[u].list) \subseteq Members(m'.subs)
      BY <1>1, <1>2, <1>6 DEF HpRecords
    <2>6. ASSUME NEW u \in Threads, pc'[u] = "take" PROVE r'[u].pos \in DOMAIN r'[u].list
      <3>1. u # t
        BY <2>6, <1>2
      <3> QED
        BY <3>1, <2>6, <1>1, <1>2, <1>5 DEF HpRecords
    <2>7. /\ \A y \in Records : (m'.state[y] # "new") <=> (y \in Members(m.subs)')
          /\ \A u \in Threads : Members(r[u].list)' \subseteq Members(m.subs)'
      BY <2>1, <2>5 DEF Members
    <2> QED
      BY <2>2, <2>3, <2>4, <2>6, <2>7 DEF HpRecords
  <1>8. HpLocalType(t)'
    BY <1>1, <1>2 DEF HpLocalType, HpFrame, Objects
  <1>9. m'.state \in [Records -> {"new", "free", "used"}] /\ pc'[t] \in HpLabels \ Reclaiming
    BY <1>1, <1>2, <1>3, <1>4 DEF HpLabels, Reclaiming
  <1> QED
    BY <1>3, <1>7, <1>8, <1>9, HpStateStep

LEMMA HpUnregisterCount ==
  ASSUME NEW t \in Threads, HpInv, HpFrame(t), Hp!UnregisterCount(t)
  PROVE  HpInv'
PROOF
  <1>1. /\ HpFields \subseteq DOMAIN m /\ DOMAIN r = Threads /\ DOMAIN pc = Threads /\ HpLocalType(t)
        /\ HpLocalFields \subseteq DOMAIN r[t]
        /\ m.state \in [Records -> {"new", "free", "used"}] /\ HpRecords
    BY HpKnown DEF HpInv, HpType
  <1>2. /\ pc[t] = "left" /\ pc'[t] = "out" /\ r'[t].rec = NULL
        /\ \A f \in HpLocalFields \ {"rec"} : r'[t][f] = r[t][f]
    BY <1>1 DEF Hp!UnregisterCount, Hp!Step, Hp!At, Hp!Go, Hp!Put, Hp!With, HpLocalFields
  <1>3. \A f \in HpFields \ {"n_free"} : m'[f] = m[f]
    BY <1>1 DEF Hp!UnregisterCount, HpFields
  <1>4. m'.subs = m.subs /\ m'.state = m.state
    BY <1>3 DEF HpFields
  <1>5. \A u \in Threads \ {t} : pc'[u] = pc[u] /\ r'[u] = r[u]
    BY DEF HpFrame
  <1>6. HpRecords'
    <2>1. \A y \in Records : (m'.state[y] # "new") <=> (y \in Members(m'.subs))
      BY <1>1, <1>4 DEF HpRecords
    <2>2. ASSUME NEW u \in Threads PROVE (pc'[u] \in {"out", "look", "take"}) <=> (r'[u].rec = NULL)
      <3>1. (pc[u] \in {"out", "look", "take"}) <=> (r[u].rec = NULL)
        BY <1>1 DEF HpRecords
      <3> QED
        BY <3>1, <1>2, <1>5
    <2>3. ASSUME NEW u \in Threads, r'[u].rec # NULL, pc'[u] # "left" PROVE m'.state[r'[u].rec] = "used"
      <3>1. u # t
        BY <2>3, <1>2
      <3>2. m.state[r[u].rec] = "used"
        BY <3>1, <2>3, <1>1, <1>5 DEF HpRecords
      <3> QED
        BY <3>1, <3>2, <1>4, <1>5
    <2>4. ASSUME NEW u \in Threads, NEW v \in Threads, u # v, r'[u].rec # NULL, pc'[u] # "left", pc'[v] # "left"
          PROVE  r'[u].rec # r'[v].rec
      <3>1. u # t
        BY <2>4, <1>2
      <3>2. CASE v = t
        BY <3>2, <2>4, <1>2
      <3>3. CASE v # t
        <4>1. r[u].rec # r[v].rec
          BY <3>1, <3>3, <2>4, <1>1, <1>5 DEF HpRecords
        <4> QED
          BY <4>1, <3>1, <3>3, <1>5
      <3> QED
        BY <3>2, <3>3
    <2>5. ASSUME NEW u \in Threads PROVE Members(r'[u].list) \subseteq Members(m'.subs)
      <3>1. r'[u].list = r[u].list
        BY <1>2, <1>5 DEF HpLocalFields
      <3> QED
        BY <3>1, <1>1, <1>4 DEF HpRecords
    <2>6. ASSUME NEW u \in Threads, pc'[u] = "take" PROVE r'[u].pos \in DOMAIN r'[u].list
      <3>1. u # t
        BY <2>6, <1>2
      <3> QED
        BY <3>1, <2>6, <1>1, <1>5 DEF HpRecords
    <2>7. /\ \A y \in Records : (m'.state[y] # "new") <=> (y \in Members(m.subs)')
          /\ \A u \in Threads : Members(r[u].list)' \subseteq Members(m.subs)'
      BY <2>1, <2>5 DEF Members
    <2> QED
      BY <2>2, <2>3, <2>4, <2>6, <2>7 DEF HpRecords
  <1>7. HpLocalType(t)'
    BY <1>1, <1>2 DEF HpLocalType, HpFrame, Objects, HpLocalFields
  <1>8. pc'[t] \in HpLabels \ Reclaiming
    BY <1>2 DEF HpLabels, Reclaiming
  <1> QED
    BY <1>1, <1>3, <1>4, <1>6, <1>7, <1>8, HpStateStep

LEMMA HpStepKeeps ==
  ASSUME NEW t \in Threads, HpInv, kind' = kind, Hp!HpStep(t)
  PROVE  HpInv' /\ HpFrame(t)
PROOF
  <1>1. HpFrame(t)
    BY HpFrames
  <1> QED
    BY <1>1, HpClear, HpRegister, HpRecycleCall, HpRecycleLook, HpRecycleTake, HpRecycleCount,
       HpUnregister, HpUnregisterCount, HpPurge, HpReclaim, HpCacheRecord, HpCacheSlot,
       HpSweep, HpSweepDone, HpScanRecord, HpScanSlot DEF Hp!HpStep

-----------------------------------------------------------------------------
(* The steps of the clients: t publishes in its own slots, and an object     *)
(* goes from spare to t, from t into the structure, out of it to t again,    *)
(* and from t to what is pending.                                            *)

HpClientFrame(t) ==
  /\ pc[t] \notin HpLabels \ {"idle"} /\ pc'[t] \notin HpLabels \ {"idle", "reclaim"}
  /\ DOMAIN pc' = Threads /\ DOMAIN r' = Threads
  /\ \A u \in Threads \ {t} : pc'[u] = pc[u] /\ r'[u] = r[u]
  /\ DOMAIN r'[t] = DOMAIN r[t] /\ \A f \in HpLocalFields : r'[t][f] = r[t][f]
  /\ DOMAIN m' = DOMAIN m /\ \A f \in HpFields \ {"ptr", "pending", "dead"} : m'[f] = m[f]
  /\ m'.ptr \in [Records -> [0 .. m.degree - 1 -> Objects \cup {NULL}]]
  /\ \A x \in Records \ {r[t].rec} : m'.ptr[x] = m.ptr[x]
  /\ kind' = kind
HpClientGuards(t) ==
  \A i \in {0, 1}, x \in Objects : Guarded(t, i, x)' =>
    /\ i < m.degree /\ m'.ptr[r[t].rec][i] = x
    /\ Guarded(t, i, x) \/ x \in Members(m.abs)
\* What is somewhere was there before, or has been moved there by t; and what
\* t has moved is in one place.
Apart(p1, p2, p3, p4, p5) ==
  /\ p1 => ~p2 /\ ~p3 /\ ~p4 /\ ~p5
  /\ p2 => ~p3 /\ ~p4 /\ ~p5
  /\ p3 => ~p4 /\ ~p5
  /\ p4 => ~p5
HpMoves(t) ==
  /\ m'.new \subseteq Objects /\ m'.abs \in Seq(Objects) /\ Distinct(m'.abs)
  /\ m'.dead \subseteq m.dead
  /\ \/ m'.pending = m.pending
     \/ \E x \in Objects : Takes(t, x) /\ m'.pending = [m.pending EXCEPT ![r[t].rec] = <<x>> \o @]
  /\ \A x \in Objects :
       /\ x \in m'.new => x \in m.new \/ Brings(t, x)
       /\ x \in AllPending' => x \in AllPending \/ Takes(t, x)
       /\ x \in Members(m'.abs) => x \in Members(m.abs) \/ Brings(t, x)
       /\ Brings(t, x)' => Brings(t, x) \/ x \in m.new \cup m.dead
       /\ Takes(t, x)' => Takes(t, x) \/ x \in Members(m.abs)
       /\ Carries(t, x) \/ Carries(t, x)' =>
            Apart(x \in m'.new, x \in m'.dead, x \in Members(m'.abs), x \in AllPending', Carries(t, x)')

LEMMA Suffix ==
  ASSUME NEW S, NEW k \in Seq(S), NEW s \in Seq(S)
  PROVE  Members(s) \subseteq Members(k \o s)
PROOF
  <1>1. /\ DOMAIN s = 1 .. Len(s) /\ DOMAIN (k \o s) = 1 .. Len(k) + Len(s) /\ Len(s) \in Nat /\ Len(k) \in Nat
        /\ \A i \in 1 .. Len(s) : (k \o s)[Len(k) + i] = s[i]
    OBVIOUS
  <1>2. ASSUME NEW i \in DOMAIN s PROVE Len(k) + i \in DOMAIN (k \o s) /\ (k \o s)[Len(k) + i] = s[i]
    BY <1>1
  <1> QED
    BY <1>2 DEF Members

LEMMA HpTodoPending ==
  ASSUME HpInv, NEW v \in Threads, pc[v] \in Reclaiming
  PROVE  Members(r[v].todo) \subseteq AllPending
PROOF
  <1>1. HpOwn(v) /\ HpLocalType(v)
    BY HpKnown
  <1>2. r[v].rec \in Records
    BY HpKnown DEF Reclaiming
  <1>3. Members(r[v].todo) \subseteq Members(m.pending[r[v].rec])
    <2>1. r[v].kept \in Seq(Objects) /\ r[v].todo \in Seq(Objects) /\ m.pending[r[v].rec] = r[v].kept \o r[v].todo
      BY <1>1 DEF HpOwn, HpLocalType
    <2> QED
      BY <2>1, Suffix
  <1> QED
    BY <1>2, <1>3 DEF AllPending

LEMMA HpClientSame ==
  ASSUME NEW t \in Threads, HpClientFrame(t), NEW u \in Threads \ {t}, NEW i, NEW x
  PROVE  /\ Guarded(u, i, x)' <=> Guarded(u, i, x)
         /\ Brings(u, x)' <=> Brings(u, x)
         /\ Takes(u, x)' <=> Takes(u, x)
PROOF
  <1>1. pc'[u] = pc[u] /\ r'[u] = r[u]
    BY DEF HpClientFrame
  <1> QED
    BY <1>1 DEF Guarded, Brings, Takes

LEMMA HpClientStep ==
  ASSUME NEW t \in Threads, HpInv, HpClientFrame(t), HpClientGuards(t), HpMoves(t)
  PROVE  HpInv'
PROOF
  <1>0. /\ \A u \in Threads \ {t} : pc'[u] = pc[u] /\ r'[u] = r[u]
        /\ r'[t].rec = r[t].rec /\ kind' = kind /\ Objects' = Objects
        /\ m'.subs = m.subs /\ m'.state = m.state /\ m'.degree = m.degree
    BY DEF HpClientFrame, HpFields, HpLocalFields, Objects
  <1>1. /\ HpLocalType(t) /\ Members(r[t].list) \subseteq Members(m.subs) /\ HpType /\ HpRecords
        /\ HpLocalFields \subseteq DOMAIN r[t] /\ HpFields \subseteq DOMAIN m
        /\ HpPending /\ HpPlaces /\ HpGuards
    BY HpKnown DEF HpInv
  <1>2. /\ pc[t] \notin {"out", "look", "take", "left"} /\ pc[t] \notin Reclaiming
        /\ pc'[t] \notin {"out", "look", "take", "left"} /\ pc'[t] \notin Reclaiming
    BY DEF HpClientFrame, HpLabels, Reclaiming
  <1>3. /\ r[t].rec \in Records
        /\ \A u \in Threads \ {t} : pc[u] # "left" => r[t].rec # r[u].rec
    BY <1>2, HpKnown
  <1>4. ASSUME NEW u \in Threads, u # t, NEW i \in {0, 1}, NEW x \in Objects
        PROVE  /\ Guarded(u, i, x)' <=> Guarded(u, i, x)
               /\ (Brings(u, x)' <=> Brings(u, x))
               /\ (Carries(u, x)' <=> Carries(u, x))
    <2>1. /\ (Guarded(u, i, x)' <=> Guarded(u, i, x))
          /\ (Brings(u, x)' <=> Brings(u, x)) /\ (Takes(u, x)' <=> Takes(u, x))
      BY <1>4, HpClientSame
    <2> QED
      BY <2>1 DEF Carries
  <1>5. m'.pending \in [Records -> Seq(Objects)] /\ m.pending \in [Records -> Seq(Objects)]
    <2>1. m.pending \in [Records -> Seq(Objects)]
      BY <1>1 DEF HpType
    <2>2. ASSUME NEW x \in Objects, m'.pending = [m.pending EXCEPT ![r[t].rec] = <<x>> \o @]
          PROVE  m'.pending \in [Records -> Seq(Objects)]
      <3>1. <<x>> \o m.pending[r[t].rec] \in Seq(Objects)
        BY <1>3, <2>1, InFront
      <3> QED
        BY <2>1, <2>2, <3>1
    <2> QED
      BY <2>1, <2>2 DEF HpMoves
  <1>6. HpType'
    BY <1>0, <1>1, <1>5 DEF HpType, HpClientFrame, HpMoves
  <1>7. \A u \in Threads : HpLocalType(u)'
    <2>1. HpLocalType(t)'
      BY <1>0, <1>1 DEF HpLocalType, HpClientFrame, HpLocalFields
    <2>2. ASSUME NEW u \in Threads, u # t PROVE HpLocalType(u)'
      <3>1. HpLocalType(u)
        BY DEF HpInv
      <3> QED
        BY <1>0, <2>2, <3>1 DEF HpLocalType
    <2> QED
      BY <2>1, <2>2
  <1>8. HpRecords'
    <2>1. r'[t].list = r[t].list
      BY DEF HpClientFrame, HpLocalFields
    <2> QED
      BY <1>0, <1>1, <1>2, <2>1, HpRecordsKept
  <1>9. HpPending'
    <2>1. ASSUME NEW x \in Objects, Takes(t, x), m'.pending = [m.pending EXCEPT ![r[t].rec] = <<x>> \o @]
          PROVE  /\ Distinct(m'.pending[r[t].rec])
                 /\ Members(m'.pending[r[t].rec]) = {x} \cup Members(m.pending[r[t].rec])
                 /\ x \notin m.dead /\ \A y \in Records : x \notin Members(m.pending[y])
      <3>1. Carries(t, x)
        BY <2>1 DEF Carries
      <3>2. x \notin m.dead /\ x \notin AllPending
        BY <1>1, <3>1 DEF HpPlaces
      <3>3. \A y \in Records : x \notin Members(m.pending[y])
        BY <3>2 DEF AllPending
      <3>4. Distinct(m.pending[r[t].rec]) /\ m.pending[r[t].rec] \in Seq(Objects)
        BY <1>1, <1>3, <1>5 DEF HpPending
      <3>5. m'.pending[r[t].rec] = <<x>> \o m.pending[r[t].rec]
        BY <1>3, <1>5, <2>1
      <3> QED
        BY <1>3, <3>2, <3>3, <3>4, <3>5, InFront
    <2>2. ASSUME NEW y \in Records, y # r[t].rec PROVE m'.pending[y] = m.pending[y]
      BY <1>5, <2>2 DEF HpMoves
    <2>3. ASSUME NEW y \in Records PROVE Distinct(m'.pending[y]) /\ Members(m'.pending[y]) \cap m'.dead = {}
      <3>1. Distinct(m.pending[y]) /\ Members(m.pending[y]) \cap m.dead = {} /\ m'.dead \subseteq m.dead
        BY <1>1 DEF HpPending, HpMoves
      <3>2. CASE m'.pending[y] = m.pending[y]
        BY <3>1, <3>2
      <3>3. CASE m'.pending[y] # m.pending[y]
        <4>1. y = r[t].rec /\ m'.pending # m.pending
          BY <2>2, <3>3
        <4> QED
          BY <2>1, <3>1, <4>1 DEF HpMoves
      <3> QED
        BY <3>2, <3>3
    <2>4. ASSUME NEW y \in Records, NEW z \in Records, y # z
          PROVE  Members(m'.pending[y]) \cap Members(m'.pending[z]) = {}
      <3>1. Members(m.pending[y]) \cap Members(m.pending[z]) = {}
        BY <1>1, <2>4 DEF HpPending
      <3>2. CASE m'.pending = m.pending
        BY <3>1, <3>2
      <3>3. CASE m'.pending # m.pending
        <4>1. PICK x \in Objects : Takes(t, x) /\ m'.pending = [m.pending EXCEPT ![r[t].rec] = <<x>> \o @]
          BY <3>3 DEF HpMoves
        <4>2. \A w \in Records : Members(m'.pending[w]) \subseteq {x} \cup Members(m.pending[w])
          BY <2>1, <2>2, <4>1
        <4>3. \A w \in Records : w # r[t].rec => x \notin Members(m'.pending[w])
          BY <2>1, <2>2, <4>1
        <4> QED
          BY <2>4, <3>1, <4>2, <4>3
      <3> QED
        BY <3>2, <3>3
    <2>5. ASSUME NEW u \in Threads PROVE HpOwn(u)'
      <3>1. CASE u = t
        BY <1>2, <3>1 DEF HpOwn, Reclaiming
      <3>2. CASE u # t
        <4>1. HpOwn(u)
          BY HpKnown
        <4>2. pc[u] \in Reclaiming => m'.pending[r[u].rec] = m.pending[r[u].rec]
          <5> SUFFICES ASSUME pc[u] \in Reclaiming PROVE m'.pending[r[u].rec] = m.pending[r[u].rec]
            OBVIOUS
          <5>1. r[u].rec \in Records /\ pc[u] # "left"
            BY HpKnown DEF Reclaiming
          <5> QED
            BY <1>3, <2>2, <3>2, <5>1
        <4> QED
          BY <1>0, <3>2, <4>1, <4>2 DEF HpOwn
      <3> QED
        BY <3>1, <3>2
    <2>6. /\ \A y \in Records : Distinct(m.pending[y])' /\ Members(m.pending[y])' \cap m'.dead = {}
          /\ \A y, z \in Records : y # z => Members(m.pending[y])' \cap Members(m.pending[z])' = {}
      BY <2>3, <2>4 DEF Distinct, Members
    <2> QED
      BY <2>5, <2>6 DEF HpPending, HpOwn
  <1>10. HpScan'
    <2> SUFFICES ASSUME NEW v \in Threads, NEW u \in Threads, NEW i \in {0, 1}, NEW x \in Objects,
                        pc'[v] \in Reclaiming, Guarded(u, i, x)', x \in Members(r'[v].todo)
                 PROVE  Covers(v, i, r[u].rec, x)'
      BY <1>0 DEF HpScan, Members
    <2>1. v # t /\ pc'[v] = pc[v] /\ r'[v] = r[v] /\ r'[u].rec = r[u].rec
      BY <1>0, <1>2
    <2>2. x \in AllPending
      BY <2>1, HpTodoPending
    <2>3. x \notin Members(m.abs)
      BY <1>1, <2>2 DEF HpPlaces
    <2>4. Guarded(u, i, x)
      <3>1. CASE u = t
        BY <2>3, <3>1 DEF HpClientGuards
      <3>2. CASE u # t
        BY <1>4, <3>2
      <3> QED
        BY <3>1, <3>2
    <2>5. Covers(v, i, r[u].rec, x)
      BY <2>1, <2>4 DEF HpInv, HpScan
    <2> QED
      BY <2>1, <2>5 DEF Covers
  <1>11. HpGuards'
    <2> SUFFICES ASSUME NEW u \in Threads, NEW i \in {0, 1}, NEW x \in Objects, Guarded(u, i, x)'
                 PROVE  i < m'.degree /\ m'.ptr[r'[u].rec][i] = x /\ x \notin m'.dead
      BY <1>0 DEF HpGuards
    <2>0. m'.dead \subseteq m.dead
      BY DEF HpMoves
    <2>1. CASE u = t
      <3>1. i < m.degree /\ m'.ptr[r[t].rec][i] = x /\ (Guarded(t, i, x) \/ x \in Members(m.abs))
        BY <2>1 DEF HpClientGuards
      <3>2. x \notin m.dead
        BY <1>1, <3>1 DEF HpGuards, HpPlaces
      <3> QED
        BY <1>0, <2>0, <2>1, <3>1, <3>2
    <2>2. CASE u # t
      <3>1. Guarded(u, i, x)
        BY <1>4, <2>2
      <3>2. r[u].rec \in Records /\ pc[u] # "left"
        BY <3>1, HpGuardHolds DEF HpLabels
      <3>3. m'.ptr[r[u].rec] = m.ptr[r[u].rec]
        BY <1>3, <2>2, <3>2 DEF HpClientFrame
      <3> QED
        BY <1>0, <1>1, <2>0, <2>2, <3>1, <3>3 DEF HpGuards
    <2> QED
      BY <2>1, <2>2
  <1>12. HpPlaces'
    <2>0. m'.new \subseteq Objects /\ m'.abs \in Seq(Objects) /\ Distinct(m'.abs) /\ m'.dead \subseteq m.dead
      BY DEF HpMoves
    <2>1. ASSUME NEW x \in Objects
          PROVE  /\ x \in m'.new => x \in m.new \/ Brings(t, x)
                 /\ x \in m'.dead => x \in m.dead
                 /\ x \in AllPending' => x \in AllPending \/ Takes(t, x)
                 /\ x \in Members(m'.abs) => x \in Members(m.abs) \/ Brings(t, x)
                 /\ Brings(t, x)' => Brings(t, x) \/ x \in m.new \cup m.dead
                 /\ Takes(t, x)' => Takes(t, x) \/ x \in Members(m.abs)
                 /\ Carries(t, x) \/ Carries(t, x)' =>
                      Apart(x \in m'.new, x \in m'.dead, x \in Members(m'.abs), x \in AllPending', Carries(t, x)')
      BY DEF HpMoves
    <2>2. ASSUME NEW x \in Objects
          PROVE  /\ x \in Members(m.abs) => x \notin m.new \cup m.dead \cup AllPending
                 /\ x \in AllPending => x \notin m.new /\ x \notin m.dead
                 /\ \A u \in Threads : Carries(u, x) => x \notin m.new \cup m.dead \cup AllPending \cup Members(m.abs)
                 /\ \A u, v \in Threads : Carries(u, x) /\ Carries(v, x) => u = v
                 /\ \A u, v \in Threads : \A i \in {0, 1} : Guarded(u, i, x) => x \notin m.new /\ ~Brings(v, x)
      BY <1>1 DEF HpPlaces, HpPending, AllPending
    <2>3. ASSUME NEW x \in Objects
          PROVE  /\ x \in Members(m'.abs) => x \notin m'.new \cup m'.dead \cup AllPending'
                 /\ x \in AllPending' => x \notin m'.new
                 /\ Carries(t, x)' => x \notin m'.new \cup m'.dead \cup AllPending' \cup Members(m'.abs)
      BY <2>1, <2>2 DEF Carries, Apart
    <2>4. ASSUME NEW x \in Objects, NEW u \in Threads, u # t, Carries(u, x)'
          PROVE  x \notin m'.new \cup m'.dead \cup AllPending' \cup Members(m'.abs) /\ ~Carries(t, x)'
      <3>1. Carries(u, x) /\ ~Carries(t, x) /\ x \notin m.new \cup m.dead \cup AllPending \cup Members(m.abs)
        BY <1>4, <2>2, <2>4
      <3> QED
        BY <2>1, <3>1 DEF Carries
    <2>5. ASSUME NEW x \in Objects, NEW u \in Threads, NEW v \in Threads, Carries(u, x)', Carries(v, x)' PROVE u = v
      <3>1. CASE u # t /\ v # t
        BY <1>4, <2>2, <2>5, <3>1
      <3> QED
        BY <2>4, <2>5, <3>1
    <2>6. ASSUME NEW x \in Objects, NEW u \in Threads, NEW i \in {0, 1}, Guarded(u, i, x)'
          PROVE  Guarded(u, i, x) \/ x \in Members(m.abs)
      <3>1. CASE u = t
        BY <2>6, <3>1 DEF HpClientGuards
      <3>2. CASE u # t
        BY <1>4, <2>6, <3>2
      <3> QED
        BY <3>1, <3>2
    <2>7. ASSUME NEW x \in Objects, NEW u \in Threads, NEW v \in Threads, NEW i \in {0, 1}, Guarded(u, i, x)'
          PROVE  x \notin m'.new /\ ~Brings(v, x)'
      <3>1. /\ x \notin m.new /\ ~Brings(v, x) /\ ~Brings(t, x) /\ x \notin m.dead
        <4>1. CASE Guarded(u, i, x)
          BY <1>1, <2>2, <4>1 DEF HpGuards
        <4>2. CASE x \in Members(m.abs)
          BY <2>2, <4>2 DEF Carries
        <4> QED
          BY <2>6, <2>7, <4>1, <4>2
      <3>2. CASE v = t
        BY <2>1, <3>1, <3>2
      <3>3. CASE v # t
        BY <1>4, <2>1, <3>1, <3>3
      <3> QED
        BY <3>2, <3>3
    <2>8. ASSUME NEW x \in Objects, NEW u \in Threads, Carries(u, x)'
          PROVE  x \notin m'.new \cup m'.dead \cup AllPending' \cup Members(m'.abs)
      <3>1. CASE u = t
        BY <2>3, <2>8, <3>1
      <3>2. CASE u # t
        BY <2>4, <2>8, <3>2
      <3> QED
        BY <3>1, <3>2
    <2>9. Members(m'.abs) \subseteq Objects /\ AllPending' \subseteq Objects
      <3>1. \A y \in Records : Members(m'.pending[y]) \subseteq Objects
        BY <1>5 DEF Members
      <3>2. AllPending' = UNION {Members(m'.pending[y]) : y \in Records}
        BY DEF AllPending, Members
      <3> QED
        BY <2>0, <3>1, <3>2 DEF Members
    <2>10. /\ Members(m'.abs) \cap (m'.new \cup m'.dead \cup AllPending') = {}
           /\ AllPending' \cap m'.new = {}
      BY <2>3, <2>9
    <2>11. Distinct(m.abs)' /\ Members(m.abs)' = Members(m'.abs)
      BY <2>0 DEF Distinct, Members
    <2> QED
      BY <1>0, <2>0, <2>5, <2>7, <2>8, <2>10, <2>11 DEF HpPlaces
  <1> QED
    BY <1>6, <1>7, <1>8, <1>9, <1>10, <1>11, <1>12 DEF HpInv

-----------------------------------------------------------------------------
(* What a client may move.                                                   *)

LEMMA PendingSame ==
  ASSUME m'.pending = m.pending
  PROVE  AllPending' = AllPending
PROOF
  BY DEF AllPending, Members

LEMMA HpMovesNothing ==
  ASSUME NEW t \in Threads, HpInv, m'.new = m.new, m'.dead = m.dead, m'.pending = m.pending, m'.abs = m.abs,
         \A x \in Objects : (Brings(t, x)' => Brings(t, x)) /\ (Takes(t, x)' => Takes(t, x))
  PROVE  HpMoves(t)
PROOF
  <1>1. HpPlaces /\ AllPending' = AllPending
    BY PendingSame DEF HpInv
  <1>2. ASSUME NEW x \in Objects, Carries(t, x) \/ Carries(t, x)'
        PROVE  Apart(x \in m'.new, x \in m'.dead, x \in Members(m'.abs), x \in AllPending', Carries(t, x)')
    <2>1. Carries(t, x)
      BY <1>2 DEF Carries
    <2>2. x \notin m.new \cup m.dead \cup AllPending \cup Members(m.abs)
      BY <1>1, <2>1 DEF HpPlaces
    <2> QED
      BY <1>1, <2>2 DEF Apart
  <1>3. m'.new \subseteq Objects /\ m'.abs \in Seq(Objects) /\ Distinct(m'.abs)
    BY <1>1 DEF HpPlaces
  <1> QED
    BY <1>1, <1>2, <1>3 DEF HpMoves

\* t gets z, which was spare.
LEMMA HpFetches ==
  ASSUME NEW t \in Threads, HpInv, NEW z \in Objects, z \in m.new \cup m.dead,
         m'.new = m.new \ {z}, m'.dead = m.dead \ {z}, m'.pending = m.pending, m'.abs = m.abs,
         \A x \in Objects : ~Carries(t, x) /\ (Brings(t, x)' => x = z) /\ ~Takes(t, x)'
  PROVE  HpMoves(t)
PROOF
  <1>1. HpPlaces /\ AllPending' = AllPending /\ HpPending
    BY PendingSame DEF HpInv
  <1>2. z \notin AllPending /\ z \notin Members(m.abs)
    BY <1>1 DEF HpPlaces, HpPending, AllPending
  <1>3. ASSUME NEW x \in Objects, Carries(t, x) \/ Carries(t, x)'
        PROVE  Apart(x \in m'.new, x \in m'.dead, x \in Members(m'.abs), x \in AllPending', Carries(t, x)')
    <2>1. x = z
      BY <1>3 DEF Carries
    <2> QED
      BY <1>1, <1>2, <2>1 DEF Apart
  <1>4. m'.new \subseteq Objects /\ m'.abs \in Seq(Objects) /\ Distinct(m'.abs)
    BY <1>1 DEF HpPlaces
  <1> QED
    BY <1>1, <1>3, <1>4 DEF HpMoves

\* t lets go of z, which is spare again.
LEMMA HpGivesBack ==
  ASSUME NEW t \in Threads, HpInv, NEW z \in Objects, Brings(t, z),
         m'.new = m.new \cup {z}, m'.dead = m.dead, m'.pending = m.pending, m'.abs = m.abs,
         \A x \in Objects : (Carries(t, x) => x = z) /\ ~Carries(t, x)'
  PROVE  HpMoves(t)
PROOF
  <1>1. HpPlaces /\ AllPending' = AllPending
    BY PendingSame DEF HpInv
  <1>2. z \notin m.new \cup m.dead \cup AllPending \cup Members(m.abs)
    BY <1>1 DEF HpPlaces, Carries
  <1>3. ASSUME NEW x \in Objects, Carries(t, x) \/ Carries(t, x)'
        PROVE  Apart(x \in m'.new, x \in m'.dead, x \in Members(m'.abs), x \in AllPending', Carries(t, x)')
    <2>1. x = z /\ ~Carries(t, x)'
      BY <1>3
    <2> QED
      BY <1>1, <1>2, <2>1 DEF Apart
  <1>4. m'.new \subseteq Objects /\ m'.abs \in Seq(Objects) /\ Distinct(m'.abs)
    BY <1>1 DEF HpPlaces
  <1>5. \A x \in Objects : ~Brings(t, x)' /\ ~Takes(t, x)'
    BY DEF Carries
  <1> QED
    BY <1>1, <1>3, <1>4, <1>5 DEF HpMoves

\* z, which t brought, is linked.
LEMMA HpLinks ==
  ASSUME NEW t \in Threads, HpInv, NEW z \in Objects, Brings(t, z),
         m'.new = m.new, m'.dead = m.dead, m'.pending = m.pending,
         m'.abs \in Seq(Objects), Distinct(m'.abs), Members(m'.abs) = {z} \cup Members(m.abs),
         \A x \in Objects : (Carries(t, x) => x = z) /\ ~Carries(t, x)'
  PROVE  HpMoves(t)
PROOF
  <1>1. HpPlaces /\ AllPending' = AllPending
    BY PendingSame DEF HpInv
  <1>2. z \notin m.new \cup m.dead \cup AllPending \cup Members(m.abs)
    BY <1>1 DEF HpPlaces, Carries
  <1>3. ASSUME NEW x \in Objects, Carries(t, x) \/ Carries(t, x)'
        PROVE  Apart(x \in m'.new, x \in m'.dead, x \in Members(m'.abs), x \in AllPending', Carries(t, x)')
    <2>1. x = z /\ ~Carries(t, x)'
      BY <1>3
    <2> QED
      BY <1>1, <1>2, <2>1 DEF Apart
  <1>4. m'.new \subseteq Objects
    BY <1>1 DEF HpPlaces
  <1>5. \A x \in Objects : ~Brings(t, x)' /\ ~Takes(t, x)'
    BY DEF Carries
  <1> QED
    BY <1>1, <1>3, <1>4, <1>5 DEF HpMoves

\* t takes the first object out.
LEMMA HpUnlinks ==
  ASSUME NEW t \in Threads, HpInv, m.abs # <<>>, m'.abs = Tail(m.abs),
         m'.new = m.new, m'.dead = m.dead, m'.pending = m.pending,
         \A x \in Objects : ~Carries(t, x) /\ ~Brings(t, x)' /\ (Takes(t, x)' => x = m.abs[1])
  PROVE  HpMoves(t)
PROOF
  <1>1. HpPlaces /\ AllPending' = AllPending
    BY PendingSame DEF HpInv
  <1>2. /\ m'.abs \in Seq(Objects) /\ Distinct(m'.abs) /\ m.abs[1] \notin Members(m'.abs)
        /\ m.abs[1] \in Members(m.abs) /\ Members(m'.abs) \subseteq Members(m.abs)
    BY <1>1, Without DEF HpPlaces
  <1>3. ASSUME NEW x \in Objects, Carries(t, x) \/ Carries(t, x)'
        PROVE  Apart(x \in m'.new, x \in m'.dead, x \in Members(m'.abs), x \in AllPending', Carries(t, x)')
    <2>1. x = m.abs[1]
      BY <1>3 DEF Carries
    <2>2. x \notin m.new \cup m.dead \cup AllPending
      BY <1>1, <1>2, <2>1 DEF HpPlaces
    <2> QED
      BY <1>1, <1>2, <2>1, <2>2 DEF Apart
  <1>4. m'.new \subseteq Objects
    BY <1>1 DEF HpPlaces
  <1> QED
    BY <1>1, <1>2, <1>3, <1>4 DEF HpMoves

\* What t has taken out is pending.
LEMMA HpRetires ==
  ASSUME NEW t \in Threads, HpInv, NEW z \in Objects, Takes(t, z), r[t].rec \in Records,
         m'.new = m.new, m'.dead = m.dead, m'.abs = m.abs,
         m'.pending = [m.pending EXCEPT ![r[t].rec] = <<z>> \o @],
         \A x \in Objects : (Carries(t, x) => x = z) /\ ~Carries(t, x)'
  PROVE  HpMoves(t)
PROOF
  <1>1. HpPlaces /\ m.pending \in [Records -> Seq(Objects)]
    BY DEF HpInv, HpType
  <1>2. z \notin m.new \cup m.dead \cup AllPending \cup Members(m.abs)
    BY <1>1 DEF HpPlaces, Carries
  <1>3. \A x \in AllPending' : x \in AllPending \/ x = z
    <2>1. AllPending' = UNION {Members(m'.pending[y]) : y \in Records}
      BY DEF AllPending, Members
    <2>2. Members(m'.pending[r[t].rec]) = {z} \cup Members(m.pending[r[t].rec])
      <3>1. m'.pending[r[t].rec] = <<z>> \o m.pending[r[t].rec] /\ m.pending[r[t].rec] \in Seq(Objects)
        BY <1>1
      <3> QED
        BY <3>1, InFront
    <2>3. \A y \in Records : y # r[t].rec => m'.pending[y] = m.pending[y]
      BY <1>1
    <2> QED
      BY <2>1, <2>2, <2>3 DEF AllPending
  <1>4. ASSUME NEW x \in Objects, Carries(t, x) \/ Carries(t, x)'
        PROVE  Apart(x \in m'.new, x \in m'.dead, x \in Members(m'.abs), x \in AllPending', Carries(t, x)')
    <2>1. x = z /\ ~Carries(t, x)'
      BY <1>4
    <2> QED
      BY <1>1, <1>2, <2>1 DEF Apart
  <1>5. m'.new \subseteq Objects /\ m'.abs \in Seq(Objects) /\ Distinct(m'.abs)
    BY <1>1 DEF HpPlaces
  <1>6. \A x \in Objects : ~Brings(t, x)' /\ ~Takes(t, x)'
    BY DEF Carries
  <1> QED
    BY <1>1, <1>3, <1>4, <1>5, <1>6 DEF HpMoves

\* ck_hp_set_threshold.
LEMMA HpThreshold ==
  ASSUME HpInv, UNCHANGED <<pc, r>>, kind' = kind, DOMAIN m' = DOMAIN m,
         \A f \in DOMAIN m \ {"threshold"} : m'[f] = m[f]
  PROVE  HpInv'
PROOF
  <1>1. /\ m'.subs = m.subs /\ m'.state = m.state /\ m'.degree = m.degree /\ m'.pending = m.pending
        /\ m'.dead = m.dead /\ m'.ptr = m.ptr /\ m'.new = m.new /\ m'.abs = m.abs
    BY DEF HpInv, HpType, HpFields
  <1>2. Objects' = Objects /\ AllPending' = AllPending
    BY <1>1, PendingSame DEF Objects
  <1>3. HpType'
    BY <1>1, <1>2 DEF HpInv, HpType
  <1>4. \A t \in Threads : HpLocalType(t)'
    BY <1>2 DEF HpInv, HpLocalType
  <1>5. HpRecords'
    BY <1>1 DEF HpInv, HpRecords, Members
  <1>6. HpPending'
    <2>1. HpPending
      BY DEF HpInv
    <2>2. ASSUME NEW x \in Records PROVE Distinct(m'.pending[x]) /\ Members(m'.pending[x]) \cap m'.dead = {}
      BY <1>1, <2>1 DEF HpPending
    <2>3. ASSUME NEW x \in Records, NEW y \in Records, x # y
          PROVE  Members(m'.pending[x]) \cap Members(m'.pending[y]) = {}
      BY <1>1, <2>1, <2>3 DEF HpPending
    <2>4. /\ \A x \in Records : Distinct(m.pending[x])' /\ Members(m.pending[x])' \cap m'.dead = {}
          /\ \A x, y \in Records : x # y => Members(m.pending[x])' \cap Members(m.pending[y])' = {}
      BY <2>2, <2>3 DEF Distinct, Members
    <2>5. \A t \in Threads : HpOwn(t)'
      BY <1>1, <2>1 DEF HpPending, HpOwn
    <2> QED
      BY <2>4, <2>5 DEF HpPending, HpOwn
  <1>7. ASSUME NEW t \in Threads, NEW i \in {0, 1}, NEW x \in Objects
        PROVE  (Guarded(t, i, x)' <=> Guarded(t, i, x)) /\ (Brings(t, x)' <=> Brings(t, x)) /\ (Takes(t, x)' <=> Takes(t, x))
    BY DEF Guarded, Brings, Takes
  <1>8. HpScan'
    <2> SUFFICES ASSUME NEW v \in Threads, NEW u \in Threads, NEW i \in {0, 1}, NEW x \in Objects,
                        pc'[v] \in Reclaiming, Guarded(u, i, x)', x \in Members(r'[v].todo)
                 PROVE  Covers(v, i, r[u].rec, x)'
      BY <1>2 DEF HpScan, Members
    <2>1. Covers(v, i, r[u].rec, x)
      BY <1>7 DEF HpInv, HpScan
    <2> QED
      BY <2>1 DEF Covers
  <1>9. HpGuards'
    BY <1>1, <1>2, <1>7 DEF HpInv, HpGuards
  <1>10. HpPlaces'
    BY <1>1, <1>2, <1>7 DEF HpInv, HpPlaces, Carries, Distinct, Members
  <1> QED
    BY <1>3, <1>4, <1>5, <1>6, <1>8, <1>9, <1>10 DEF HpInv

-----------------------------------------------------------------------------
(* The steps of ck_hp are the same for both clients.                         *)

LEMMA HpOfStack ==
  ASSUME NEW t, HpS!HpStep(t)
  PROVE  Hp!HpStep(t)
PROOF
  <1>1. ASSUME HpS!Clear(t) PROVE Hp!Clear(t)
    BY <1>1 DEF HpS!Clear, Hp!Clear, HpS!At, Hp!At, HpS!Mine, Hp!Mine, HpS!Empty, Hp!Empty
  <1>2. ASSUME HpS!Register(t) PROVE Hp!Register(t)
    BY <1>2 DEF HpS!Register, Hp!Register, HpS!At, Hp!At, HpS!Go, Hp!Go, HpS!Put, Hp!Put, HpS!With, Hp!With, HpS!Empty, Hp!Empty
  <1>3. ASSUME HpS!RecycleCall(t) PROVE Hp!RecycleCall(t)
    BY <1>3 DEF HpS!RecycleCall, Hp!RecycleCall, HpS!At, Hp!At, HpS!Go, Hp!Go, HpS!Put, Hp!Put, HpS!With, Hp!With, HpS!Local, Hp!Local
  <1>4. ASSUME HpS!RecycleLook(t) PROVE Hp!RecycleLook(t)
    BY <1>4 DEF HpS!RecycleLook, Hp!RecycleLook, HpS!At, Hp!At, HpS!Go, Hp!Go, HpS!Put, Hp!Put, HpS!With, Hp!With, HpS!Local, Hp!Local, HpS!HpScratch, Hp!HpScratch
  <1>5. ASSUME HpS!RecycleTake(t) PROVE Hp!RecycleTake(t)
    BY <1>5 DEF HpS!RecycleTake, Hp!RecycleTake, HpS!At, Hp!At, HpS!Go, Hp!Go, HpS!Put, Hp!Put, HpS!With, Hp!With
  <1>6. ASSUME HpS!RecycleCount(t) PROVE Hp!RecycleCount(t)
    BY <1>6 DEF HpS!RecycleCount, Hp!RecycleCount, HpS!Step, Hp!Step, HpS!At, Hp!At, HpS!Go, Hp!Go, HpS!Put, Hp!Put, HpS!With, Hp!With, HpS!HpScratch, Hp!HpScratch
  <1>7. ASSUME HpS!Unregister(t) PROVE Hp!Unregister(t)
    BY <1>7 DEF HpS!Unregister, Hp!Unregister, HpS!Step, Hp!Step, HpS!At, Hp!At, HpS!Go, Hp!Go, HpS!Mine, Hp!Mine
  <1>8. ASSUME HpS!UnregisterCount(t) PROVE Hp!UnregisterCount(t)
    BY <1>8 DEF HpS!UnregisterCount, Hp!UnregisterCount, HpS!Step, Hp!Step, HpS!At, Hp!At, HpS!Go, Hp!Go, HpS!Put, Hp!Put, HpS!With, Hp!With
  <1>9. ASSUME HpS!Purge(t) PROVE Hp!Purge(t)
    BY <1>9 DEF HpS!Purge, Hp!Purge, HpS!Step, Hp!Step, HpS!At, Hp!At, HpS!Go, Hp!Go, HpS!Mine, Hp!Mine, HpS!Put, Hp!Put, HpS!With, Hp!With, HpS!Local, Hp!Local
  <1>10. ASSUME HpS!Reclaim(t) PROVE Hp!Reclaim(t)
    BY <1>10 DEF HpS!Reclaim, Hp!Reclaim, HpS!Step, Hp!Step, HpS!At, Hp!At, HpS!Go, Hp!Go, HpS!Mine, Hp!Mine, HpS!Put, Hp!Put, HpS!With, Hp!With, HpS!Local, Hp!Local
  <1>11. ASSUME HpS!CacheRecord(t) PROVE Hp!CacheRecord(t)
    BY <1>11 DEF HpS!CacheRecord, Hp!CacheRecord, HpS!At, Hp!At, HpS!Go, Hp!Go, HpS!Put, Hp!Put, HpS!With, Hp!With, HpS!Local, Hp!Local
  <1>12. ASSUME HpS!CacheSlot(t) PROVE Hp!CacheSlot(t)
    BY <1>12 DEF HpS!CacheSlot, Hp!CacheSlot, HpS!At, Hp!At, HpS!Go, Hp!Go, HpS!Put, Hp!Put, HpS!With, Hp!With, HpS!Local, Hp!Local
  <1>13. ASSUME HpS!Sweep(t) PROVE Hp!Sweep(t)
    BY <1>13 DEF HpS!Sweep, Hp!Sweep, HpS!At, Hp!At, HpS!Go, Hp!Go, HpS!Put, Hp!Put, HpS!With, Hp!With, HpS!Local, Hp!Local, HpS!Keep, Hp!Keep, HpS!Destroyed, Hp!Destroyed, HpS!Mine, Hp!Mine
  <1>14. ASSUME HpS!SweepDone(t) PROVE Hp!SweepDone(t)
    BY <1>14 DEF HpS!SweepDone, Hp!SweepDone, HpS!At, Hp!At, HpS!Go, Hp!Go, HpS!Put, Hp!Put, HpS!With, Hp!With, HpS!Local, Hp!Local, HpS!HpScratch, Hp!HpScratch
  <1>15. ASSUME HpS!ScanRecord(t) PROVE Hp!ScanRecord(t)
    BY <1>15 DEF HpS!ScanRecord, Hp!ScanRecord, HpS!At, Hp!At, HpS!Go, Hp!Go, HpS!Put, Hp!Put, HpS!With, Hp!With, HpS!Local, Hp!Local, HpS!Destroyed, Hp!Destroyed, HpS!Mine, Hp!Mine
  <1>16. ASSUME HpS!ScanSlot(t) PROVE Hp!ScanSlot(t)
    BY <1>16 DEF HpS!ScanSlot, Hp!ScanSlot, HpS!At, Hp!At, HpS!Go, Hp!Go, HpS!Put, Hp!Put, HpS!With, Hp!With, HpS!Local, Hp!Local, HpS!Keep, Hp!Keep
  <1> QED
    BY <1>1, <1>2, <1>3, <1>4, <1>5, <1>6, <1>7, <1>8, <1>9, <1>10, <1>11, <1>12, <1>13, <1>14, <1>15, <1>16 DEF HpS!HpStep, Hp!HpStep

LEMMA HpOfFifo ==
  ASSUME NEW t, HpF!HpStep(t)
  PROVE  Hp!HpStep(t)
PROOF
  <1>1. ASSUME HpF!Clear(t) PROVE Hp!Clear(t)
    BY <1>1 DEF HpF!Clear, Hp!Clear, HpF!At, Hp!At, HpF!Mine, Hp!Mine, HpF!Empty, Hp!Empty
  <1>2. ASSUME HpF!Register(t) PROVE Hp!Register(t)
    BY <1>2 DEF HpF!Register, Hp!Register, HpF!At, Hp!At, HpF!Go, Hp!Go, HpF!Put, Hp!Put, HpF!With, Hp!With, HpF!Empty, Hp!Empty
  <1>3. ASSUME HpF!RecycleCall(t) PROVE Hp!RecycleCall(t)
    BY <1>3 DEF HpF!RecycleCall, Hp!RecycleCall, HpF!At, Hp!At, HpF!Go, Hp!Go, HpF!Put, Hp!Put, HpF!With, Hp!With, HpF!Local, Hp!Local
  <1>4. ASSUME HpF!RecycleLook(t) PROVE Hp!RecycleLook(t)
    BY <1>4 DEF HpF!RecycleLook, Hp!RecycleLook, HpF!At, Hp!At, HpF!Go, Hp!Go, HpF!Put, Hp!Put, HpF!With, Hp!With, HpF!Local, Hp!Local, HpF!HpScratch, Hp!HpScratch
  <1>5. ASSUME HpF!RecycleTake(t) PROVE Hp!RecycleTake(t)
    BY <1>5 DEF HpF!RecycleTake, Hp!RecycleTake, HpF!At, Hp!At, HpF!Go, Hp!Go, HpF!Put, Hp!Put, HpF!With, Hp!With
  <1>6. ASSUME HpF!RecycleCount(t) PROVE Hp!RecycleCount(t)
    BY <1>6 DEF HpF!RecycleCount, Hp!RecycleCount, HpF!Step, Hp!Step, HpF!At, Hp!At, HpF!Go, Hp!Go, HpF!Put, Hp!Put, HpF!With, Hp!With, HpF!HpScratch, Hp!HpScratch
  <1>7. ASSUME HpF!Unregister(t) PROVE Hp!Unregister(t)
    BY <1>7 DEF HpF!Unregister, Hp!Unregister, HpF!Step, Hp!Step, HpF!At, Hp!At, HpF!Go, Hp!Go, HpF!Mine, Hp!Mine
  <1>8. ASSUME HpF!UnregisterCount(t) PROVE Hp!UnregisterCount(t)
    BY <1>8 DEF HpF!UnregisterCount, Hp!UnregisterCount, HpF!Step, Hp!Step, HpF!At, Hp!At, HpF!Go, Hp!Go, HpF!Put, Hp!Put, HpF!With, Hp!With
  <1>9. ASSUME HpF!Purge(t) PROVE Hp!Purge(t)
    BY <1>9 DEF HpF!Purge, Hp!Purge, HpF!Step, Hp!Step, HpF!At, Hp!At, HpF!Go, Hp!Go, HpF!Mine, Hp!Mine, HpF!Put, Hp!Put, HpF!With, Hp!With, HpF!Local, Hp!Local
  <1>10. ASSUME HpF!Reclaim(t) PROVE Hp!Reclaim(t)
    BY <1>10 DEF HpF!Reclaim, Hp!Reclaim, HpF!Step, Hp!Step, HpF!At, Hp!At, HpF!Go, Hp!Go, HpF!Mine, Hp!Mine, HpF!Put, Hp!Put, HpF!With, Hp!With, HpF!Local, Hp!Local
  <1>11. ASSUME HpF!CacheRecord(t) PROVE Hp!CacheRecord(t)
    BY <1>11 DEF HpF!CacheRecord, Hp!CacheRecord, HpF!At, Hp!At, HpF!Go, Hp!Go, HpF!Put, Hp!Put, HpF!With, Hp!With, HpF!Local, Hp!Local
  <1>12. ASSUME HpF!CacheSlot(t) PROVE Hp!CacheSlot(t)
    BY <1>12 DEF HpF!CacheSlot, Hp!CacheSlot, HpF!At, Hp!At, HpF!Go, Hp!Go, HpF!Put, Hp!Put, HpF!With, Hp!With, HpF!Local, Hp!Local
  <1>13. ASSUME HpF!Sweep(t) PROVE Hp!Sweep(t)
    BY <1>13 DEF HpF!Sweep, Hp!Sweep, HpF!At, Hp!At, HpF!Go, Hp!Go, HpF!Put, Hp!Put, HpF!With, Hp!With, HpF!Local, Hp!Local, HpF!Keep, Hp!Keep, HpF!Destroyed, Hp!Destroyed, HpF!Mine, Hp!Mine
  <1>14. ASSUME HpF!SweepDone(t) PROVE Hp!SweepDone(t)
    BY <1>14 DEF HpF!SweepDone, Hp!SweepDone, HpF!At, Hp!At, HpF!Go, Hp!Go, HpF!Put, Hp!Put, HpF!With, Hp!With, HpF!Local, Hp!Local, HpF!HpScratch, Hp!HpScratch
  <1>15. ASSUME HpF!ScanRecord(t) PROVE Hp!ScanRecord(t)
    BY <1>15 DEF HpF!ScanRecord, Hp!ScanRecord, HpF!At, Hp!At, HpF!Go, Hp!Go, HpF!Put, Hp!Put, HpF!With, Hp!With, HpF!Local, Hp!Local, HpF!Destroyed, Hp!Destroyed, HpF!Mine, Hp!Mine
  <1>16. ASSUME HpF!ScanSlot(t) PROVE Hp!ScanSlot(t)
    BY <1>16 DEF HpF!ScanSlot, Hp!ScanSlot, HpF!At, Hp!At, HpF!Go, Hp!Go, HpF!Put, Hp!Put, HpF!With, Hp!With, HpF!Local, Hp!Local, HpF!Keep, Hp!Keep
  <1> QED
    BY <1>1, <1>2, <1>3, <1>4, <1>5, <1>6, <1>7, <1>8, <1>9, <1>10, <1>11, <1>12, <1>13, <1>14, <1>15, <1>16 DEF HpF!HpStep, Hp!HpStep

-----------------------------------------------------------------------------
(* ck_hp_stack.                                                              *)

\* A step of t, in an operation.
Moves(t) ==
  /\ pc[t] \notin HpLabels \ {"idle"} /\ pc'[t] \notin HpLabels \ {"idle", "reclaim"}
  /\ DOMAIN pc' = Threads /\ DOMAIN r' = Threads
  /\ \A u \in Threads \ {t} : pc'[u] = pc[u] /\ r'[u] = r[u]
  /\ DOMAIN r'[t] = DOMAIN r[t] /\ \A f \in HpLocalFields : r'[t][f] = r[t][f]
  /\ DOMAIN m' = DOMAIN m
  /\ kind' = kind
StGuard(t) == pc'[t] \in {"p_next", "p_cas"} =>
  m'.ptr[r[t].rec][0] = r'[t].e /\ (Guarded(t, 0, r'[t].e) \/ r'[t].e \in Members(m.abs))

LEMMA StKnown ==
  ASSUME StInv, kind = "hp_stack", NEW t \in Threads
  PROVE  /\ HpInv /\ DOMAIN pc = Threads /\ DOMAIN r = Threads /\ DOMAIN m = StFields /\ m.degree = 1
         /\ m.head \in Entries \cup {NULL} /\ m.next \in [Entries -> Entries \cup {NULL}]
         /\ Objects = Entries /\ NULL \notin Entries /\ m.abs \in Seq(Entries) /\ Distinct(m.abs)
         /\ m.ptr \in [Records -> [{0} -> Entries \cup {NULL}]]
         /\ StLocals(t) /\ StOps(t) /\ DOMAIN r[t] = StLocalFields
         /\ pc[t] \notin {"out", "look", "take"} => r[t].rec \in Records
PROOF
  <1>1. HpInv /\ StType /\ StLocals(t) /\ StOps(t) /\ HpType /\ HpPlaces
    BY DEF StInv, HpInv
  <1>2. Objects = Entries /\ NULL \notin Entries
    BY QueuesAssumption DEF Objects
  <1>3. 0 .. m.degree - 1 = {0}
    BY <1>1 DEF StType
  <1>4. pc[t] \notin {"out", "look", "take"} => r[t].rec \in Records
    BY <1>1, HpKnown
  <1> QED
    BY <1>1, <1>2, <1>3, <1>4 DEF StType, StLocals, HpType, HpPlaces

LEMMA StGuards ==
  ASSUME NEW t \in Threads, pc'[t] \in StLabels, m.degree = 1, StGuard(t)
  PROVE  HpClientGuards(t)
PROOF
  <1> SUFFICES ASSUME NEW i \in {0, 1}, NEW x \in Objects, Guarded(t, i, x)'
               PROVE  i < m.degree /\ m'.ptr[r[t].rec][i] = x /\ (Guarded(t, i, x) \/ x \in Members(m.abs))
    BY DEF HpClientGuards
  <1>1. i = 0 /\ pc'[t] \in {"p_next", "p_cas"} /\ x = r'[t].e
    BY DEF Guarded, StLabels, HpLabels
  <1> QED
    BY <1>1 DEF StGuard

LEMMA StClient ==
  ASSUME NEW t \in Threads, StInv, kind = "hp_stack", Moves(t), StGuard(t), HpMoves(t),
         \A f \in HpFields \ {"ptr", "pending", "dead"} : m'[f] = m[f],
         m'.ptr = m.ptr \/ \E p \in Entries \cup {NULL} : m'.ptr = [m.ptr EXCEPT ![r[t].rec][0] = p],
         m'.head \in Entries \cup {NULL}, m'.next \in [Entries -> Entries \cup {NULL}],
         \A x \in Entries : ~Brings(t, x) => m'.next[x] = m.next[x],
         StLocals(t)', StOps(t)',
         m'.head = IF m'.abs = <<>> THEN NULL ELSE m'.abs[1], LinkedBy(m'.abs, m'.next)
  PROVE  StInv'
PROOF
  <1>1. /\ HpInv /\ DOMAIN m = StFields /\ m.degree = 1 /\ Objects = Entries
        /\ m.ptr \in [Records -> [{0} -> Entries \cup {NULL}]] /\ 0 .. m.degree - 1 = {0}
        /\ m'.degree = 1
    BY StKnown DEF HpFields
  <1>2. /\ pc[t] \notin {"out", "look", "take", "left"} /\ pc'[t] \in StLabels
        /\ \A u \in Threads \ {t} : pc'[u] = pc[u] /\ r'[u] = r[u]
    BY DEF Moves, HpLabels, StLocals
  <1>3. r[t].rec \in Records /\ \A u \in Threads \ {t} : pc[u] # "left" => r[t].rec # r[u].rec
    BY <1>1, <1>2, HpKnown
  <1>4. m'.ptr \in [Records -> [0 .. m.degree - 1 -> Objects \cup {NULL}]]
    <2>1. ASSUME NEW p \in Entries \cup {NULL}, m'.ptr = [m.ptr EXCEPT ![r[t].rec][0] = p]
          PROVE  m'.ptr \in [Records -> [{0} -> Entries \cup {NULL}]]
      BY <1>1, <1>3, <2>1
    <2> QED
      BY <1>1, <2>1
  <1>5. \A x \in Records \ {r[t].rec} : m'.ptr[x] = m.ptr[x]
    BY <1>1
  <1>6. HpClientFrame(t)
    BY <1>4, <1>5 DEF HpClientFrame, Moves
  <1>7. HpInv'
    BY <1>1, <1>2, <1>6, StGuards, HpClientStep
  <1>8. ASSUME NEW u \in Threads, u # t PROVE StLocals(u)' /\ StOps(u)'
    <2>1. pc'[u] = pc[u] /\ r'[u] = r[u] /\ StLocals(u) /\ StOps(u)
      BY <1>2, <1>8 DEF StInv
    <2>2. StLocals(u)'
      BY <2>1 DEF StLocals
    <2>3. pc[u] \in {"p_same", "p_next", "p_cas", "p_update", "p_update2"} => m'.ptr[r[u].rec][0] = m.ptr[r[u].rec][0]
      <3> SUFFICES ASSUME pc[u] \in {"p_same", "p_next", "p_cas", "p_update", "p_update2"}
                   PROVE  m'.ptr[r[u].rec][0] = m.ptr[r[u].rec][0]
        OBVIOUS
      <3>1. r[u].rec \in Records /\ r[u].rec # r[t].rec
        BY <1>1, <1>3, <1>8, HpKnown
      <3> QED
        BY <3>1, <1>5
    <2>4. pc[u] = "p_cas" => m'.next[r[u].e] = m.next[r[u].e]
      <3> SUFFICES ASSUME pc[u] = "p_cas" PROVE m'.next[r[u].e] = m.next[r[u].e]
        OBVIOUS
      <3>1. r[u].e \in Entries
        BY <2>1 DEF StLocals, StOps
      <3>2. Guarded(u, 0, r[u].e)
        BY DEF Guarded
      <3>3. ~Brings(t, r[u].e)
        BY <1>1, <3>1, <3>2 DEF HpInv, HpPlaces
      <3> QED
        BY <3>1, <3>3
    <2> QED
      BY <2>1, <2>2, <2>3, <2>4 DEF StOps
  <1>9. StType'
    BY <1>1 DEF StType, Moves
  <1>10. LinkedBy(m.abs, m.next)'
    BY DEF LinkedBy
  <1> QED
    BY <1>7, <1>8, <1>9, <1>10 DEF StInv

\* A step that moves no entry.
LEMMA StQuiet ==
  ASSUME NEW t \in Threads, StInv, kind = "hp_stack", Moves(t), StGuard(t),
         \A f \in StFields \ {"ptr", "pops"} : m'[f] = m[f],
         m'.ptr = m.ptr \/ \E p \in Entries \cup {NULL} : m'.ptr = [m.ptr EXCEPT ![r[t].rec][0] = p],
         pc'[t] \notin {"s_head", "s_cas", "p_free"},
         StLocals(t)', StOps(t)'
  PROVE  StInv'
PROOF
  <1>1. /\ m'.new = m.new /\ m'.dead = m.dead /\ m'.pending = m.pending /\ m'.abs = m.abs
        /\ m'.head = m.head /\ m'.next = m.next
        /\ \A f \in HpFields \ {"ptr", "pending", "dead"} : m'[f] = m[f]
    BY DEF StFields, HpFields
  <1>2. \A x \in Objects : ~Brings(t, x)' /\ ~Takes(t, x)'
    BY DEF Brings, Takes, StLocals, StLabels, HpLabels
  <1>3. HpInv /\ m.head \in Entries \cup {NULL} /\ m.next \in [Entries -> Entries \cup {NULL}]
    BY StKnown
  <1>4. HpMoves(t)
    BY <1>1, <1>2, <1>3, HpMovesNothing
  <1>5. m'.head = IF m'.abs = <<>> THEN NULL ELSE m'.abs[1]
    BY <1>1 DEF StInv
  <1>6. LinkedBy(m'.abs, m'.next)
    BY <1>1 DEF StInv
  <1> QED
    BY <1>1, <1>3, <1>4, <1>5, <1>6, StClient

\* What t stores in its variables.
LEMMA StPut ==
  ASSUME NEW t \in Threads, NEW new, DOMAIN r = Threads, DOMAIN r[t] = StLocalFields,
         DOMAIN new \cap HpLocalFields = {}, HpS!Put(t, new)
  PROVE  /\ DOMAIN r' = Threads /\ \A u \in Threads \ {t} : r'[u] = r[u]
         /\ DOMAIN r'[t] = StLocalFields /\ \A f \in HpLocalFields : r'[t][f] = r[t][f]
         /\ \A f \in StLocalFields \ DOMAIN new : r'[t][f] = r[t][f]
         /\ \A f \in StLocalFields \cap DOMAIN new : r'[t][f] = new[f]
PROOF
  BY DEF HpS!Put, HpS!With, StLocalFields

\* A step from l to k that changes local variables, and at most the slot.
LEMMA StGoes ==
  ASSUME NEW t \in Threads, StInv, kind = "hp_stack", kind' = kind, NEW l, NEW k,
         pc[t] = l, l \in StLabels \ (HpLabels \ {"idle"}), HpS!Go(t, k), k \in StLabels \ (HpLabels \ {"idle", "reclaim"}),
         r' = r \/ \E new : DOMAIN new \cap HpLocalFields = {} /\ HpS!Put(t, new),
         DOMAIN m' = DOMAIN m
  PROVE  Moves(t) /\ pc'[t] = k /\ DOMAIN r'[t] = StLocalFields
PROOF
  <1>1. DOMAIN pc = Threads /\ DOMAIN r = Threads /\ DOMAIN r[t] = StLocalFields /\ HpLocalFields \subseteq StLocalFields
    BY StKnown DEF StLocalFields
  <1>2. DOMAIN pc' = Threads /\ pc'[t] = k /\ \A u \in Threads \ {t} : pc'[u] = pc[u]
    BY <1>1 DEF HpS!Go
  <1>3. /\ DOMAIN r' = Threads /\ \A u \in Threads \ {t} : r'[u] = r[u]
        /\ DOMAIN r'[t] = StLocalFields /\ \A f \in HpLocalFields : r'[t][f] = r[t][f]
    BY <1>1, StPut
  <1> QED
    BY <1>1, <1>2, <1>3 DEF Moves

\* The entry at the head is linked.
LEMMA StHead ==
  ASSUME StInv, kind = "hp_stack", m.head # NULL
  PROVE  m.abs # <<>> /\ m.head = m.abs[1] /\ m.head \in Members(m.abs)
PROOF
  <1>1. m.abs # <<>> /\ m.head = m.abs[1] /\ m.abs \in Seq(Entries)
    BY DEF StInv, HpInv, HpPlaces, Objects
  <1> QED
    BY <1>1, Without

LEMMA StPop ==
  ASSUME NEW t \in Threads, StInv, kind = "hp_stack", kind' = kind, HpS!Pop(t)
  PROVE  StInv'
PROOF
  <1>1. DOMAIN r = Threads /\ DOMAIN r[t] = StLocalFields /\ StLocals(t) /\ DOMAIN m = StFields
    BY StKnown
  <1>2. PICK b \in BOOLEAN : HpS!Put(t, [try |-> b])
    BY DEF HpS!Pop
  <1>3. pc[t] = "idle" /\ HpS!Go(t, "p_head") /\ m' = [m EXCEPT !.pops = @ - 1]
    BY DEF HpS!Pop, HpS!Step, HpS!At
  <1>4. DOMAIN [try |-> b] \cap HpLocalFields = {}
    BY DEF HpLocalFields
  <1>5. Moves(t) /\ pc'[t] = "p_head" /\ DOMAIN r'[t] = StLocalFields
    BY <1>2, <1>3, <1>4, StGoes DEF StLabels, HpLabels
  <1>6. \A f \in {"e", "next", "update"} : r'[t][f] = r[t][f]
    BY <1>1, <1>2, <1>4, StPut DEF StLocalFields
  <1>7. StLocals(t)' /\ StOps(t)' /\ StGuard(t)
    BY <1>1, <1>5, <1>6 DEF StLocals, StOps, StGuard, StLabels
  <1>8. \A f \in StFields \ {"pops"} : m'[f] = m[f]
    BY <1>1, <1>3
  <1> QED
    BY <1>5, <1>7, <1>8, StQuiet DEF StFields, HpFields

LEMMA StReturn ==
  ASSUME NEW t \in Threads, StInv, kind = "hp_stack", kind' = kind,
         pc[t] \in StLabels \ HpLabels, HpS!Return(t), DOMAIN m' = DOMAIN m
  PROVE  Moves(t) /\ pc'[t] = "idle" /\ StLocals(t)' /\ StOps(t)' /\ StGuard(t)
PROOF
  <1>1. DOMAIN r = Threads /\ DOMAIN r[t] = StLocalFields
    BY StKnown
  <1>2. HpS!Go(t, "idle") /\ HpS!Put(t, HpS!Scratch) /\ DOMAIN HpS!Scratch \cap HpLocalFields = {}
    BY DEF HpS!Return, HpS!Scratch, HpLocalFields
  <1>3. Moves(t) /\ pc'[t] = "idle" /\ DOMAIN r'[t] = StLocalFields
    BY <1>2, StGoes DEF StLabels, HpLabels
  <1>4. r'[t].e = NULL /\ r'[t].next = NULL /\ r'[t].update = NULL
    BY <1>1, <1>2, StPut DEF HpS!Scratch, StLocalFields
  <1> QED
    BY <1>3, <1>4 DEF StLocals, StOps, StGuard, StLabels, HpLabels

LEMMA StPublish ==
  ASSUME NEW t \in Threads, StInv, kind = "hp_stack", pc[t] \in StLabels \ HpLabels,
         NEW p \in Entries \cup {NULL}, HpS!Publish(t, 0, p)
  PROVE  /\ DOMAIN m' = DOMAIN m /\ \A f \in StFields \ {"ptr"} : m'[f] = m[f]
         /\ m'.ptr = [m.ptr EXCEPT ![r[t].rec][0] = p] /\ m'.ptr[r[t].rec][0] = p
PROOF
  <1>1. DOMAIN m = StFields /\ m.ptr \in [Records -> [{0} -> Entries \cup {NULL}]] /\ r[t].rec \in Records
    BY StKnown DEF HpLabels
  <1>2. m' = [m EXCEPT !.ptr[r[t].rec][0] = p]
    BY DEF HpS!Publish, HpS!Mine
  <1>3. DOMAIN m' = DOMAIN m /\ m'.ptr = [m.ptr EXCEPT ![r[t].rec][0] = p] /\ \A f \in StFields \ {"ptr"} : m'[f] = m[f]
    BY <1>1, <1>2 DEF StFields, HpFields
  <1> QED
    BY <1>1, <1>3

LEMMA StPopHead ==
  ASSUME NEW t \in Threads, StInv, kind = "hp_stack", kind' = kind, HpS!PopHead(t)
  PROVE  StInv'
PROOF
  <1>1. /\ DOMAIN r = Threads /\ DOMAIN r[t] = StLocalFields /\ StLocals(t) /\ DOMAIN m = StFields
        /\ m.head \in Entries \cup {NULL}
    BY StKnown
  <1>2. pc[t] = "p_head" /\ m' = m
    BY DEF HpS!PopHead, HpS!At, HpS!Local
  <1>3. CASE HpS!Return(t)
    BY <1>2, <1>3, StReturn, StQuiet DEF StLabels, HpLabels
  <1>4. CASE m.head # NULL /\ HpS!Go(t, "p_set") /\ HpS!Put(t, [e |-> m.head])
    <2>1. DOMAIN [e |-> m.head] \cap HpLocalFields = {}
      BY DEF HpLocalFields
    <2>2. Moves(t) /\ pc'[t] = "p_set" /\ DOMAIN r'[t] = StLocalFields
      BY <1>2, <1>4, <2>1, StGoes DEF StLabels, HpLabels
    <2>3. r'[t].e = m.head /\ r'[t].next = r[t].next /\ r'[t].update = r[t].update
      BY <1>1, <1>4, <2>1, StPut DEF StLocalFields
    <2>4. StLocals(t)' /\ StOps(t)' /\ StGuard(t)
      BY <1>1, <1>4, <2>2, <2>3 DEF StLocals, StOps, StGuard, StLabels
    <2> QED
      BY <1>2, <2>2, <2>4, StQuiet
  <1> QED
    BY <1>3, <1>4 DEF HpS!PopHead

LEMMA StPopSet ==
  ASSUME NEW t \in Threads, StInv, kind = "hp_stack", kind' = kind,
         HpS!PopSet(t) \/ HpS!PopReset(t)
  PROVE  StInv'
PROOF
  <1>1. DOMAIN r = Threads /\ StLocals(t) /\ StOps(t)
    BY StKnown
  <1>2. /\ r' = r /\ HpS!Publish(t, 0, r[t].e)
        /\ \/ pc[t] = "p_set" /\ HpS!Go(t, "p_same")
           \/ pc[t] = "p_reset" /\ HpS!Go(t, "p_update")
    BY DEF HpS!PopSet, HpS!PopReset, HpS!Step, HpS!At
  <1>3. r[t].e \in Entries \cup {NULL} /\ r[t].e # NULL /\ pc[t] \in StLabels \ HpLabels
    BY <1>1, <1>2 DEF StLocals, StOps, StLabels, HpLabels
  <1>4. /\ DOMAIN m' = DOMAIN m /\ \A f \in StFields \ {"ptr"} : m'[f] = m[f]
        /\ m'.ptr = [m.ptr EXCEPT ![r[t].rec][0] = r[t].e] /\ m'.ptr[r[t].rec][0] = r[t].e
    BY <1>2, <1>3, StPublish
  <1>5. Moves(t) /\ pc'[t] \in {"p_same", "p_update"}
    <2>1. CASE pc[t] = "p_set" /\ HpS!Go(t, "p_same")
      BY <1>2, <1>4, <2>1, StGoes DEF StLabels, HpLabels
    <2>2. CASE pc[t] = "p_reset" /\ HpS!Go(t, "p_update")
      BY <1>2, <1>4, <2>2, StGoes DEF StLabels, HpLabels
    <2> QED
      BY <1>2, <2>1, <2>2
  <1>6. StLocals(t)' /\ StOps(t)' /\ StGuard(t)
    BY <1>1, <1>2, <1>3, <1>4, <1>5 DEF StLocals, StOps, StGuard, StLabels
  <1> QED
    BY <1>3, <1>4, <1>5, <1>6, StQuiet

LEMMA StPopSame ==
  ASSUME NEW t \in Threads, StInv, kind = "hp_stack", kind' = kind, HpS!PopSame(t)
  PROVE  StInv'
PROOF
  <1>1. DOMAIN r = Threads /\ StLocals(t) /\ StOps(t) /\ DOMAIN m = StFields
    BY StKnown
  <1>2. pc[t] = "p_same" /\ pc[t] \in StLabels \ HpLabels
    BY DEF HpS!PopSame, HpS!At, StLabels, HpLabels
  <1>3. CASE m.head = r[t].e /\ HpS!Go(t, "p_next") /\ UNCHANGED <<m, r>>
    <2>1. Moves(t) /\ pc'[t] = "p_next"
      BY <1>2, <1>3, StGoes DEF StLabels, HpLabels
    <2>2. r[t].e # NULL /\ m.ptr[r[t].rec][0] = r[t].e
      BY <1>1, <1>2 DEF StOps
    <2>3. r[t].e \in Members(m.abs)
      BY <1>3, <2>2, StHead
    <2>4. StLocals(t)' /\ StOps(t)' /\ StGuard(t)
      BY <1>1, <1>3, <2>1, <2>2, <2>3 DEF StLocals, StOps, StGuard, StLabels
    <2> QED
      BY <1>3, <2>1, <2>4, StQuiet
  <1>4. CASE HpS!Publish(t, 0, NULL) /\ HpS!Return(t)
    BY <1>2, <1>4, StPublish, StReturn, StQuiet DEF StLabels, HpLabels
  <1>5. CASE HpS!Go(t, "p_head") /\ UNCHANGED <<m, r>>
    <2>1. Moves(t) /\ pc'[t] = "p_head"
      BY <1>2, <1>5, StGoes DEF StLabels, HpLabels
    <2>2. StLocals(t)' /\ StOps(t)' /\ StGuard(t)
      BY <1>1, <1>5, <2>1 DEF StLocals, StOps, StGuard, StLabels
    <2> QED
      BY <1>5, <2>1, <2>2, StQuiet
  <1> QED
    BY <1>3, <1>4, <1>5 DEF HpS!PopSame

LEMMA StPopNext ==
  ASSUME NEW t \in Threads, StInv, kind = "hp_stack", kind' = kind, HpS!PopNext(t)
  PROVE  StInv'
PROOF
  <1>1. /\ DOMAIN r = Threads /\ DOMAIN r[t] = StLocalFields /\ StLocals(t) /\ StOps(t) /\ DOMAIN m = StFields
        /\ m.next \in [Entries -> Entries \cup {NULL}]
    BY StKnown
  <1>2. /\ pc[t] = "p_next" /\ HpS!Go(t, "p_cas") /\ m' = m
        /\ HpS!Put(t, [next |-> m.next[r[t].e]])
    BY DEF HpS!PopNext, HpS!Step, HpS!At, HpS!Local
  <1>3. r[t].e \in Entries /\ m.ptr[r[t].rec][0] = r[t].e /\ r[t].e # NULL
    BY <1>1, <1>2 DEF StLocals, StOps
  <1>4. DOMAIN [next |-> m.next[r[t].e]] \cap HpLocalFields = {}
    BY DEF HpLocalFields
  <1>5. Moves(t) /\ pc'[t] = "p_cas" /\ DOMAIN r'[t] = StLocalFields
    BY <1>2, <1>4, StGoes DEF StLabels, HpLabels
  <1>6. r'[t].next = m.next[r[t].e] /\ r'[t].e = r[t].e /\ r'[t].update = r[t].update /\ r'[t].rec = r[t].rec
    BY <1>1, <1>2, <1>4, StPut DEF StLocalFields, HpLocalFields
  <1>7. Guarded(t, 0, r[t].e)
    BY <1>2 DEF Guarded
  <1>8. StLocals(t)' /\ StOps(t)' /\ StGuard(t)
    BY <1>1, <1>2, <1>3, <1>5, <1>6, <1>7 DEF StLocals, StOps, StGuard, StLabels
  <1> QED
    BY <1>2, <1>5, <1>8, StQuiet

LEMMA StPopUpdate ==
  ASSUME NEW t \in Threads, StInv, kind = "hp_stack", kind' = kind, HpS!PopUpdate(t) \/ HpS!PopUpdateAgain(t)
  PROVE  StInv'
PROOF
  <1>1. /\ DOMAIN r = Threads /\ DOMAIN r[t] = StLocalFields /\ StLocals(t) /\ StOps(t) /\ DOMAIN m = StFields
        /\ m.head \in Entries \cup {NULL}
    BY StKnown
  <1>2. pc[t] \in {"p_update", "p_update2"} /\ m' = m /\ pc[t] \in StLabels \ HpLabels
    BY DEF HpS!PopUpdate, HpS!PopUpdateAgain, HpS!At, HpS!Local, StLabels, HpLabels
  <1>3. CASE HpS!Return(t)
    BY <1>2, <1>3, StReturn, StQuiet DEF StLabels, HpLabels
  <1>4. CASE /\ HpS!Put(t, [update |-> m.head])
             /\ (pc[t] = "p_update" \/ m.head # NULL)
             /\ \/ HpS!Go(t, "p_next") /\ m.head = r[t].e
                \/ HpS!Go(t, "p_reset2")
    <2>1. DOMAIN [update |-> m.head] \cap HpLocalFields = {}
      BY DEF HpLocalFields
    <2>2. r'[t].next = r[t].next /\ r'[t].e = r[t].e /\ r'[t].update = m.head /\ r'[t].rec = r[t].rec
      BY <1>1, <1>4, <2>1, StPut DEF StLocalFields, HpLocalFields
    <2>3. CASE HpS!Go(t, "p_next") /\ m.head = r[t].e
      <3>1. Moves(t) /\ pc'[t] = "p_next" /\ DOMAIN r'[t] = StLocalFields
        BY <1>2, <1>4, <2>1, <2>3, StGoes DEF StLabels, HpLabels
      <3>2. r[t].e # NULL /\ m.ptr[r[t].rec][0] = r[t].e
        BY <1>1, <1>2, <1>4, <2>3 DEF StOps
      <3>3. r[t].e \in Members(m.abs)
        BY <2>3, <3>2, StHead
      <3>4. StLocals(t)' /\ StOps(t)' /\ StGuard(t)
        BY <1>1, <1>2, <2>2, <3>1, <3>2, <3>3 DEF StLocals, StOps, StGuard, StLabels
      <3> QED
        BY <1>2, <3>1, <3>4, StQuiet
    <2>4. CASE HpS!Go(t, "p_reset2")
      <3>1. Moves(t) /\ pc'[t] = "p_reset2" /\ DOMAIN r'[t] = StLocalFields
        BY <1>2, <1>4, <2>1, <2>4, StGoes DEF StLabels, HpLabels
      <3>2. StLocals(t)' /\ StOps(t)' /\ StGuard(t)
        BY <1>1, <1>2, <2>2, <3>1 DEF StLocals, StOps, StGuard, StLabels
      <3> QED
        BY <1>2, <3>1, <3>2, StQuiet
    <2> QED
      BY <1>4, <2>3, <2>4
  <1> QED
    BY <1>3, <1>4 DEF HpS!PopUpdate, HpS!PopUpdateAgain, HpS!At

LEMMA StPopResetUpdate ==
  ASSUME NEW t \in Threads, StInv, kind = "hp_stack", kind' = kind, HpS!PopResetUpdate(t)
  PROVE  StInv'
PROOF
  <1>1. DOMAIN r = Threads /\ DOMAIN r[t] = StLocalFields /\ StLocals(t) /\ StOps(t)
    BY StKnown
  <1>2. /\ HpS!Publish(t, 0, r[t].update) /\ pc[t] = "p_reset2" /\ HpS!Go(t, "p_update2")
        /\ HpS!Put(t, [e |-> r[t].update])
    BY DEF HpS!PopResetUpdate, HpS!Step, HpS!At
  <1>3. r[t].update \in Entries \cup {NULL} /\ pc[t] \in StLabels \ HpLabels
    BY <1>1, <1>2 DEF StLocals, StLabels, HpLabels
  <1>4. /\ DOMAIN m' = DOMAIN m /\ \A f \in StFields \ {"ptr"} : m'[f] = m[f]
        /\ m'.ptr = [m.ptr EXCEPT ![r[t].rec][0] = r[t].update] /\ m'.ptr[r[t].rec][0] = r[t].update
    BY <1>2, <1>3, StPublish
  <1>5. DOMAIN [e |-> r[t].update] \cap HpLocalFields = {}
    BY DEF HpLocalFields
  <1>6. Moves(t) /\ pc'[t] = "p_update2" /\ DOMAIN r'[t] = StLocalFields
    BY <1>2, <1>4, <1>5, StGoes DEF StLabels, HpLabels
  <1>7. r'[t].next = r[t].next /\ r'[t].e = r[t].update /\ r'[t].update = r[t].update /\ r'[t].rec = r[t].rec
    BY <1>1, <1>2, <1>5, StPut DEF StLocalFields, HpLocalFields
  <1>8. StLocals(t)' /\ StOps(t)' /\ StGuard(t)
    BY <1>1, <1>3, <1>4, <1>6, <1>7 DEF StLocals, StOps, StGuard, StLabels
  <1> QED
    BY <1>3, <1>4, <1>6, <1>8, StQuiet

LEMMA StPopSwap ==
  ASSUME NEW t \in Threads, StInv, kind = "hp_stack", kind' = kind, HpS!PopSwap(t)
  PROVE  StInv'
PROOF
  <1>1. /\ HpInv /\ DOMAIN r = Threads /\ DOMAIN r[t] = StLocalFields /\ StLocals(t) /\ StOps(t) /\ DOMAIN m = StFields
        /\ m.head \in Entries \cup {NULL} /\ m.next \in [Entries -> Entries \cup {NULL}]
        /\ m.abs \in Seq(Entries) /\ Objects = Entries
    BY StKnown
  <1>2. pc[t] = "p_cas" /\ pc[t] \in StLabels \ HpLabels
    BY DEF HpS!PopSwap, HpS!At, StLabels, HpLabels
  <1>3. CASE /\ m.head = r[t].e /\ m' = [m EXCEPT !.head = r[t].next, !.abs = Tail(@)]
             /\ HpS!Go(t, "p_free") /\ r' = r
    <2>1. DOMAIN m' = DOMAIN m /\ m'.head = r[t].next /\ m'.abs = Tail(m.abs)
          /\ \A f \in StFields \ {"head", "abs"} : m'[f] = m[f]
      BY <1>1, <1>3 DEF StFields, HpFields
    <2>2. Moves(t) /\ pc'[t] = "p_free"
      BY <1>2, <1>3, <2>1, StGoes DEF StLabels, HpLabels
    <2>3. r[t].e # NULL /\ r[t].next = m.next[r[t].e] /\ m.head # NULL
      BY <1>1, <1>2, <1>3 DEF StOps
    <2>4. m.abs # <<>> /\ r[t].e = m.abs[1]
      BY <1>3, <2>3, StHead
    <2>5. LinkedBy(m.abs, m.next)
      BY DEF StInv
    <2>6. LinkedBy(Tail(m.abs), m.next) /\ m.next[m.abs[1]] = IF Tail(m.abs) = <<>> THEN NULL ELSE Tail(m.abs)[1]
      BY <1>1, <2>4, <2>5, LinkedTail
    <2>7. m'.next = m.next /\ m'.new = m.new /\ m'.dead = m.dead /\ m'.pending = m.pending /\ m'.ptr = m.ptr
          /\ \A f \in HpFields \ {"ptr", "pending", "dead"} : m'[f] = m[f]
      BY <2>1 DEF StFields, HpFields
    <2>8. \A x \in Objects : ~Carries(t, x) /\ ~Brings(t, x)' /\ (Takes(t, x)' => x = m.abs[1])
      BY <1>2, <1>3, <2>2, <2>4 DEF Carries, Brings, Takes
    <2>9. HpMoves(t)
      BY <1>1, <2>1, <2>4, <2>7, <2>8, HpUnlinks
    <2>10. StLocals(t)' /\ StOps(t)' /\ StGuard(t)
      BY <1>1, <1>3, <2>2, <2>3 DEF StLocals, StOps, StGuard, StLabels
    <2>11. m'.head = IF m'.abs = <<>> THEN NULL ELSE m'.abs[1]
      BY <2>1, <2>3, <2>4, <2>6
    <2>12. LinkedBy(m'.abs, m'.next) /\ m'.head \in Entries \cup {NULL}
      BY <1>1, <2>1, <2>6, <2>7 DEF StLocals
    <2> QED
      BY <1>1, <2>2, <2>7, <2>9, <2>10, <2>11, <2>12, StClient
  <1>4. CASE HpS!Publish(t, 0, NULL) /\ HpS!Return(t)
    BY <1>2, <1>4, StPublish, StReturn, StQuiet DEF StLabels, HpLabels
  <1>5. CASE m' = m /\ HpS!Return(t)
    BY <1>2, <1>5, StReturn, StQuiet DEF StLabels, HpLabels
  <1>6. CASE m' = m /\ m.head # NULL /\ HpS!Go(t, "p_reset") /\ HpS!Put(t, [e |-> m.head])
    <2>1. DOMAIN [e |-> m.head] \cap HpLocalFields = {}
      BY DEF HpLocalFields
    <2>2. Moves(t) /\ pc'[t] = "p_reset" /\ DOMAIN r'[t] = StLocalFields
      BY <1>2, <1>6, <2>1, StGoes DEF StLabels, HpLabels
    <2>3. r'[t].e = m.head /\ r'[t].next = r[t].next /\ r'[t].update = r[t].update
      BY <1>1, <1>6, <2>1, StPut DEF StLocalFields
    <2>4. StLocals(t)' /\ StOps(t)' /\ StGuard(t)
      BY <1>1, <1>6, <2>2, <2>3 DEF StLocals, StOps, StGuard, StLabels
    <2> QED
      BY <1>6, <2>2, <2>4, StQuiet
  <1> QED
    BY <1>3, <1>4, <1>5, <1>6 DEF HpS!PopSwap, HpS!Local

LEMMA StPopFree ==
  ASSUME NEW t \in Threads, StInv, kind = "hp_stack", kind' = kind, HpS!PopFree(t)
  PROVE  StInv'
PROOF
  <1>1. /\ HpInv /\ DOMAIN r = Threads /\ DOMAIN r[t] = StLocalFields /\ StLocals(t) /\ StOps(t) /\ DOMAIN m = StFields
        /\ m.head \in Entries \cup {NULL} /\ m.next \in [Entries -> Entries \cup {NULL}]
        /\ Objects = Entries
    BY StKnown
  <1>2. /\ pc[t] = "p_free" /\ HpS!Put(t, HpS!Scratch) /\ (HpS!Go(t, "reclaim") \/ HpS!Go(t, "idle"))
        /\ m' = [m EXCEPT !.pending[r[t].rec] = <<r[t].e>> \o @]
    BY DEF HpS!PopFree, HpS!At, HpS!AfterFree, HpS!Retire, HpS!Mine
  <1>3. r[t].rec \in Records /\ r[t].e \in Entries
    BY <1>1, <1>2, StKnown DEF StLocals, StOps
  <1>4. /\ DOMAIN m' = DOMAIN m /\ \A f \in StFields \ {"pending"} : m'[f] = m[f]
        /\ m'.pending = [m.pending EXCEPT ![r[t].rec] = <<r[t].e>> \o @]
    BY <1>1, <1>2 DEF StFields, HpFields
  <1>5. DOMAIN HpS!Scratch \cap HpLocalFields = {}
    BY DEF HpS!Scratch, HpLocalFields
  <1>6. Moves(t) /\ pc'[t] \in {"reclaim", "idle"} /\ DOMAIN r'[t] = StLocalFields
    <2>1. CASE HpS!Go(t, "reclaim")
      BY <1>2, <1>4, <1>5, <2>1, StGoes DEF StLabels, HpLabels
    <2>2. CASE HpS!Go(t, "idle")
      BY <1>2, <1>4, <1>5, <2>2, StGoes DEF StLabels, HpLabels
    <2> QED
      BY <1>2, <2>1, <2>2
  <1>7. r'[t].e = NULL /\ r'[t].next = NULL /\ r'[t].update = NULL
    BY <1>1, <1>2, <1>5, StPut DEF HpS!Scratch, StLocalFields
  <1>8. StLocals(t)' /\ StOps(t)' /\ StGuard(t)
    BY <1>6, <1>7 DEF StLocals, StOps, StGuard, StLabels, HpLabels
  <1>9. /\ m'.head = m.head /\ m'.next = m.next /\ m'.new = m.new /\ m'.dead = m.dead /\ m'.abs = m.abs /\ m'.ptr = m.ptr
        /\ \A f \in HpFields \ {"ptr", "pending", "dead"} : m'[f] = m[f]
    BY <1>4 DEF StFields, HpFields
  <1>10. Takes(t, r[t].e) /\ \A x \in Objects : (Carries(t, x) => x = r[t].e) /\ ~Carries(t, x)'
    BY <1>2, <1>6 DEF Carries, Brings, Takes
  <1>11. HpMoves(t)
    BY <1>1, <1>3, <1>4, <1>9, <1>10, HpRetires
  <1>12. m'.head = (IF m'.abs = <<>> THEN NULL ELSE m'.abs[1]) /\ LinkedBy(m'.abs, m'.next)
    BY <1>9 DEF StInv
  <1> QED
    BY <1>1, <1>6, <1>8, <1>9, <1>11, <1>12, StClient

LEMMA StPush ==
  ASSUME NEW t \in Threads, StInv, kind = "hp_stack", kind' = kind, HpS!Push(t)
  PROVE  StInv'
PROOF
  <1>1. /\ HpInv /\ DOMAIN r = Threads /\ DOMAIN r[t] = StLocalFields /\ StLocals(t) /\ StOps(t) /\ DOMAIN m = StFields
        /\ m.head \in Entries \cup {NULL} /\ m.next \in [Entries -> Entries \cup {NULL}]
        /\ Objects = Entries /\ NULL \notin Entries
    BY StKnown
  <1>2. PICK x \in m.new \cup m.dead, b \in BOOLEAN :
          /\ m' = [m EXCEPT !.new = @ \ {x}, !.dead = @ \ {x}, !.pushes = @ - 1]
          /\ HpS!Put(t, [e |-> x, try |-> b])
    BY DEF HpS!Push
  <1>3. pc[t] = "idle" /\ HpS!Go(t, "s_head")
    BY DEF HpS!Push, HpS!Step, HpS!At
  <1>4. x \in Entries
    BY <1>1 DEF HpInv, HpType, HpPlaces
  <1>5. /\ DOMAIN m' = DOMAIN m /\ \A f \in StFields \ {"new", "dead", "pushes"} : m'[f] = m[f]
        /\ m'.new = m.new \ {x} /\ m'.dead = m.dead \ {x}
    BY <1>1, <1>2 DEF StFields, HpFields
  <1>6. DOMAIN [e |-> x, try |-> b] \cap HpLocalFields = {}
    BY DEF HpLocalFields
  <1>7. Moves(t) /\ pc'[t] = "s_head" /\ DOMAIN r'[t] = StLocalFields
    BY <1>2, <1>3, <1>5, <1>6, StGoes DEF StLabels, HpLabels
  <1>8. r'[t].e = x /\ r'[t].next = r[t].next /\ r'[t].update = r[t].update
    BY <1>1, <1>2, <1>6, StPut DEF StLocalFields
  <1>9. StLocals(t)' /\ StOps(t)' /\ StGuard(t)
    BY <1>1, <1>4, <1>7, <1>8 DEF StLocals, StOps, StGuard, StLabels
  <1>10. /\ m'.head = m.head /\ m'.next = m.next /\ m'.pending = m.pending /\ m'.abs = m.abs /\ m'.ptr = m.ptr
         /\ \A f \in HpFields \ {"ptr", "pending", "dead"} : m'[f] = m[f]
    BY <1>5 DEF StFields, HpFields
  <1>11. \A y \in Objects : ~Carries(t, y) /\ (Brings(t, y)' => y = x) /\ ~Takes(t, y)'
    BY <1>3, <1>7, <1>8 DEF Carries, Brings, Takes
  <1>12. HpMoves(t)
    BY <1>1, <1>4, <1>5, <1>10, <1>11, HpFetches
  <1>13. m'.head = (IF m'.abs = <<>> THEN NULL ELSE m'.abs[1]) /\ LinkedBy(m'.abs, m'.next)
    BY <1>10 DEF StInv
  <1> QED
    BY <1>1, <1>7, <1>9, <1>10, <1>12, <1>13, StClient

\* The entry that t brings is not linked, and what it points to does not matter.
LEMMA StPoints ==
  ASSUME NEW t \in Threads, StInv, kind = "hp_stack", kind' = kind,
         pc[t] \in {"s_head", "s_cas"}, HpS!Go(t, "s_cas") \/ (pc' = pc /\ pc[t] = "s_cas"), r' = r,
         m' = [m EXCEPT !.next[r[t].e] = m.head]
  PROVE  StInv'
PROOF
  <1>1. /\ HpInv /\ DOMAIN r = Threads /\ DOMAIN r[t] = StLocalFields /\ StLocals(t) /\ StOps(t) /\ DOMAIN m = StFields
        /\ m.head \in Entries \cup {NULL} /\ m.next \in [Entries -> Entries \cup {NULL}]
        /\ Objects = Entries /\ NULL \notin Entries
    BY StKnown
  <1>2. r[t].e \in Entries /\ r[t].e # NULL /\ Brings(t, r[t].e)
    BY <1>1 DEF StLocals, StOps, Brings
  <1>3. /\ DOMAIN m' = DOMAIN m /\ \A f \in StFields \ {"next"} : m'[f] = m[f]
        /\ m'.next = [m.next EXCEPT ![r[t].e] = m.head]
    BY <1>1 DEF StFields, HpFields
  <1>4. Moves(t) /\ pc'[t] = "s_cas"
    <2>1. CASE HpS!Go(t, "s_cas")
      BY <1>3, <2>1, StGoes DEF StLabels, HpLabels
    <2>2. CASE pc' = pc /\ pc[t] = "s_cas"
      <3>1. DOMAIN pc = Threads
        BY StKnown
      <3> QED
        BY <1>1, <1>3, <2>2, <3>1 DEF Moves, HpLabels
    <2> QED
      BY <2>1, <2>2
  <1>5. StLocals(t)' /\ StOps(t)' /\ StGuard(t)
    BY <1>1, <1>2, <1>4 DEF StLocals, StOps, StGuard, StLabels
  <1>6. /\ m'.head = m.head /\ m'.pending = m.pending /\ m'.abs = m.abs /\ m'.ptr = m.ptr
        /\ m'.new = m.new /\ m'.dead = m.dead
        /\ \A f \in HpFields \ {"ptr", "pending", "dead"} : m'[f] = m[f]
    BY <1>3 DEF StFields, HpFields
  <1>7. \A y \in Objects : (Brings(t, y)' => Brings(t, y)) /\ (Takes(t, y)' => Takes(t, y))
    BY <1>4 DEF Brings, Takes
  <1>8. HpMoves(t)
    BY <1>1, <1>6, <1>7, HpMovesNothing
  <1>9. r[t].e \notin Members(m.abs)
    BY <1>1, <1>2 DEF HpInv, HpPlaces, Carries
  <1>10. LinkedBy(m.abs, m.next) /\ m'.head = IF m'.abs = <<>> THEN NULL ELSE m'.abs[1]
    BY <1>6 DEF StInv
  <1>11. \A y \in Entries \ {r[t].e} : m'.next[y] = m.next[y]
    BY <1>1, <1>3
  <1>12. \A y \in Members(m.abs) : m'.next[y] = m.next[y]
    <2>1. Members(m.abs) \subseteq Entries
      BY <1>1 DEF HpInv, HpPlaces, Members
    <2> QED
      BY <1>9, <1>11, <2>1
  <1>13. LinkedBy(m'.abs, m'.next)
    <2> DEFINE s == m.abs
               f == m.next
               g == m'.next
    <2>a. LinkedBy(s, f) /\ \A y \in Members(s) : g[y] = f[y]
      BY <1>10, <1>12
    <2> HIDE DEF s, f, g
    <2>b. LinkedBy(s, g)
      BY ONLY <2>a, LinkedSame
    <2>1. LinkedBy(m.abs, m'.next)
      BY <2>b DEF s, g
    <2> QED
      BY <1>6, <2>1
  <1>14. \A y \in Entries : ~Brings(t, y) => m'.next[y] = m.next[y]
    BY <1>2, <1>11
  <1>15. m'.next \in [Entries -> Entries \cup {NULL}]
    BY <1>1, <1>3
  <1> QED
    BY <1>1, <1>4, <1>5, <1>6, <1>8, <1>10, <1>13, <1>14, <1>15, StClient

LEMMA StPushSwap ==
  ASSUME NEW t \in Threads, StInv, kind = "hp_stack", kind' = kind, HpS!PushSwap(t)
  PROVE  StInv'
PROOF
  <1>1. /\ HpInv /\ DOMAIN r = Threads /\ DOMAIN pc = Threads /\ DOMAIN r[t] = StLocalFields /\ StLocals(t) /\ StOps(t) /\ DOMAIN m = StFields
        /\ m.head \in Entries \cup {NULL} /\ m.next \in [Entries -> Entries \cup {NULL}]
        /\ Objects = Entries /\ NULL \notin Entries /\ m.abs \in Seq(Entries) /\ Distinct(m.abs)
    BY StKnown
  <1>2. pc[t] = "s_cas" /\ pc[t] \in StLabels \ HpLabels
    BY DEF HpS!PushSwap, HpS!At, StLabels, HpLabels
  <1>3. r[t].e \in Entries /\ r[t].e # NULL /\ Brings(t, r[t].e)
    BY <1>1, <1>2 DEF StLocals, StOps, Brings
  <1>4. r[t].e \notin Members(m.abs)
    BY <1>1, <1>3 DEF HpInv, HpPlaces, Carries
  <1>5. LinkedBy(m.abs, m.next) /\ m.head = IF m.abs = <<>> THEN NULL ELSE m.abs[1]
    BY DEF StInv
  <1>6. \A x \in Objects : Carries(t, x) => x = r[t].e
    BY <1>2 DEF Carries, Brings, Takes
  <1>7. CASE /\ m.head = m.next[r[t].e] /\ m' = [m EXCEPT !.head = r[t].e, !.abs = <<r[t].e>> \o @]
             /\ HpS!Return(t)
    <2>1. /\ DOMAIN m' = DOMAIN m /\ \A f \in StFields \ {"head", "abs"} : m'[f] = m[f]
          /\ m'.head = r[t].e /\ m'.abs = <<r[t].e>> \o m.abs
      BY <1>1, <1>7 DEF StFields, HpFields
    <2>2. Moves(t) /\ pc'[t] = "idle" /\ StLocals(t)' /\ StOps(t)' /\ StGuard(t)
      BY <1>2, <1>7, <2>1, StReturn
    <2>3. /\ m'.next = m.next /\ m'.pending = m.pending /\ m'.ptr = m.ptr
          /\ m'.new = m.new /\ m'.dead = m.dead
          /\ \A f \in HpFields \ {"ptr", "pending", "dead"} : m'[f] = m[f]
      BY <2>1 DEF StFields, HpFields
    <2>4. /\ m'.abs \in Seq(Entries) /\ Distinct(m'.abs) /\ Members(m'.abs) = {r[t].e} \cup Members(m.abs)
          /\ m'.abs[1] = r[t].e /\ m'.abs # <<>>
      <3>1. /\ m'.abs \in Seq(Entries) /\ Len(m'.abs) = Len(m.abs) + 1 /\ m'.abs[1] = r[t].e
            /\ Distinct(m'.abs) /\ Members(m'.abs) = {r[t].e} \cup Members(m.abs)
        BY <1>1, <1>3, <1>4, <2>1, InFront
      <3>2. m'.abs # <<>>
        <4>1. r[t].e \in Members(m'.abs)
          BY <3>1
        <4> QED
          BY <4>1, Nothing
      <3> QED
        BY <3>1, <3>2
    <2>5. \A x \in Objects : ~Carries(t, x)'
      BY <2>2 DEF Carries, Brings, Takes
    <2>6. HpMoves(t)
      BY <1>1, <1>3, <1>6, <2>3, <2>4, <2>5, HpLinks
    <2>7. LinkedBy(m'.abs, m'.next)
      BY <1>1, <1>3, <1>5, <1>7, <2>1, <2>3, LinkedFront
    <2> QED
      BY <1>1, <1>3, <2>1, <2>2, <2>3, <2>4, <2>6, <2>7, StClient
  <1>8. CASE m' = [m EXCEPT !.new = @ \cup {r[t].e}] /\ HpS!Return(t)
    <2>1. DOMAIN m' = DOMAIN m /\ m'.new = m.new \cup {r[t].e} /\ \A f \in StFields \ {"new"} : m'[f] = m[f]
      BY <1>1, <1>8 DEF StFields, HpFields
    <2>2. Moves(t) /\ pc'[t] = "idle" /\ StLocals(t)' /\ StOps(t)' /\ StGuard(t)
      BY <1>2, <1>8, <2>1, StReturn
    <2>3. /\ m'.head = m.head /\ m'.next = m.next /\ m'.pending = m.pending /\ m'.ptr = m.ptr
          /\ m'.abs = m.abs /\ m'.dead = m.dead
          /\ \A f \in HpFields \ {"ptr", "pending", "dead"} : m'[f] = m[f]
      BY <2>1 DEF StFields, HpFields
    <2>4. \A x \in Objects : ~Carries(t, x)'
      BY <2>2 DEF Carries, Brings, Takes
    <2>5. HpMoves(t)
      BY <1>1, <1>3, <1>6, <2>1, <2>3, <2>4, HpGivesBack
    <2>6. LinkedBy(m'.abs, m'.next) /\ m'.head = IF m'.abs = <<>> THEN NULL ELSE m'.abs[1]
      BY <1>5, <2>3
    <2> QED
      BY <1>1, <2>2, <2>3, <2>5, <2>6, StClient
  <1>9. CASE m' = [m EXCEPT !.next[r[t].e] = m.head] /\ UNCHANGED <<pc, r>>
    BY <1>2, <1>9, StPoints
  <1> QED
    BY <1>7, <1>8, <1>9 DEF HpS!PushSwap

LEMMA StPushHead ==
  ASSUME NEW t \in Threads, StInv, kind = "hp_stack", kind' = kind, HpS!PushHead(t)
  PROVE  StInv'
PROOF
  BY StPoints DEF HpS!PushHead, HpS!Step, HpS!At

\* A call of ck_hp does not disturb the stack.
LEMMA StOfHp ==
  ASSUME NEW t \in Threads, StInv, kind = "hp_stack", kind' = kind, HpS!HpStep(t)
  PROVE  StInv'
PROOF
  <1>1. HpInv /\ DOMAIN m = StFields /\ StType /\ StLocals(t)
    BY StKnown DEF StInv
  <1>2. HpInv' /\ HpFrame(t)
    BY <1>1, HpOfStack, HpStepKeeps
  <1>3. /\ DOMAIN m' = StFields /\ m'.degree = m.degree /\ m'.head = m.head /\ m'.next = m.next /\ m'.abs = m.abs
    BY <1>1, <1>2 DEF HpFrame, StFields, HpFields
  <1>4. StType'
    BY <1>1, <1>3 DEF StType
  <1>5. StLocals(t)' /\ StOps(t)'
    <2>1. /\ DOMAIN r'[t] = StLocalFields /\ r'[t].e = r[t].e /\ r'[t].next = r[t].next /\ r'[t].update = r[t].update
          /\ pc'[t] \in HpLabels
      BY <1>1, <1>2 DEF HpFrame, StLocals, StLocalFields, HpLocalFields
    <2> QED
      BY <1>1, <2>1 DEF StLocals, StOps, StLabels, HpLabels
  <1>6. ASSUME NEW u \in Threads, u # t PROVE StLocals(u)' /\ StOps(u)'
    <2>1. pc'[u] = pc[u] /\ r'[u] = r[u] /\ StLocals(u) /\ StOps(u)
      BY <1>2, <1>6 DEF StInv, HpFrame
    <2>2. pc[u] \in {"p_same", "p_next", "p_cas", "p_update", "p_update2"} => m'.ptr[r[u].rec] = m.ptr[r[u].rec]
      BY <1>2, <1>6 DEF HpFrame, HpLabels
    <2> QED
      BY <1>3, <2>1, <2>2 DEF StLocals, StOps
  <1> QED
    BY <1>2, <1>3, <1>4, <1>5, <1>6 DEF StInv, LinkedBy

LEMMA StThreshold ==
  ASSUME StInv, kind = "hp_stack", kind' = kind, HpS!SetThreshold
  PROVE  StInv'
PROOF
  <1>1. HpInv /\ StType
    BY DEF StInv
  <1>2. PICK n : m' = [m EXCEPT !.threshold = n]
    BY DEF HpS!SetThreshold
  <1>3. DOMAIN m' = DOMAIN m /\ \A f \in DOMAIN m \ {"threshold"} : m'[f] = m[f]
    BY <1>2
  <1>4. pc' = pc /\ r' = r
    BY DEF HpS!SetThreshold
  <1>5. HpInv'
    BY <1>1, <1>3, <1>4, HpThreshold
  <1>6. /\ m'.degree = m.degree /\ m'.head = m.head /\ m'.next = m.next /\ m'.abs = m.abs /\ m'.ptr = m.ptr
        /\ DOMAIN m' = StFields
    BY <1>1, <1>3 DEF StType, StFields, HpFields
  <1>7. StType'
    BY <1>1, <1>6 DEF StType
  <1>8. \A t \in Threads : StLocals(t)' /\ StOps(t)'
    BY <1>4, <1>6 DEF StInv, StLocals, StOps
  <1> QED
    BY <1>5, <1>6, <1>7, <1>8 DEF StInv, LinkedBy

LEMMA StStep ==
  ASSUME StInv, kind = "hp_stack", kind' = kind, HpS!Next
  PROVE  StInv'
PROOF
  <1>1. CASE HpS!SetThreshold
    BY <1>1, StThreshold
  <1>2. ASSUME NEW t \in Threads, HpS!HpStep(t) \/ HpS!Pushes(t) \/ HpS!Pops(t)
        PROVE  StInv'
    <2>1. CASE HpS!HpStep(t)
      BY <2>1, StOfHp
    <2>2. CASE HpS!Pushes(t)
      BY <2>2, StPush, StPushHead, StPushSwap DEF HpS!Pushes
    <2>3. CASE HpS!Pops(t)
      BY <2>3, StPop, StPopHead, StPopSet, StPopSame, StPopNext, StPopSwap, StPopUpdate,
         StPopResetUpdate, StPopFree DEF HpS!Pops
    <2> QED
      BY <1>2, <2>1, <2>2, <2>3
  <1> QED
    BY <1>1, <1>2 DEF HpS!Next

-----------------------------------------------------------------------------
(* ck_hp_fifo.                                                               *)

LEMMA FfKnown ==
  ASSUME FfInv, kind = "hp_fifo", NEW t \in Threads
  PROVE  /\ HpInv /\ DOMAIN pc = Threads /\ DOMAIN r = Threads /\ DOMAIN m = FfFields /\ m.degree = 2
         /\ FfType /\ FfChain /\ m.head \in FfNodes /\ m.tail \in FfNodes
         /\ m.next \in [FfNodes -> FfNodes \cup {NULL}] /\ m.value \in [FfNodes -> Int]
         /\ Objects = FfNodes /\ NULL \notin FfNodes /\ m.abs \in Seq(FfNodes) /\ Distinct(m.abs)
         /\ m.ptr \in [Records -> [{0, 1} -> FfNodes \cup {NULL}]]
         /\ FfLocals(t) /\ FfEnqueues(t) /\ FfDequeues(t) /\ DOMAIN r[t] = FfLocalFields
         /\ pc[t] \notin {"out", "look", "take"} => r[t].rec \in Records
PROOF
  <1>1. HpInv /\ FfType /\ FfChain /\ FfLocals(t) /\ FfEnqueues(t) /\ FfDequeues(t) /\ HpType /\ HpPlaces
    BY DEF FfInv, HpInv
  <1>2. Objects = FfNodes /\ NULL \notin FfNodes
    BY QueuesAssumption DEF Objects, FfNodes
  <1>3. 0 .. m.degree - 1 = {0, 1}
    BY <1>1 DEF FfType
  <1>4. pc[t] \notin {"out", "look", "take"} => r[t].rec \in Records
    BY <1>1, HpKnown
  <1> QED
    BY <1>1, <1>2, <1>3, <1>4 DEF FfType, FfLocals, HpType, HpPlaces

\* What t has protected is neither spare nor about to be linked.
LEMMA FfGuarded ==
  ASSUME FfInv, kind = "hp_fifo", NEW t \in Threads
  PROVE  /\ pc[t] \in {"e_next", "e_again", "e_link", "e_forward"} =>
              /\ r[t].tail \in FfNodes /\ r[t].tail \notin m.new \cup m.dead
              /\ \A u \in Threads : ~Brings(u, r[t].tail)
         /\ pc[t] \in DChecked \/ (pc[t] = "d_tail" /\ ~r[t].try) =>
              /\ r[t].head \in FfNodes /\ r[t].head \notin m.new \cup m.dead
              /\ \A u \in Threads : ~Brings(u, r[t].head)
         /\ pc[t] \in {"d_forward", "d_commit", "d_value"} =>
              /\ r[t].next \in FfNodes /\ r[t].next \notin m.new \cup m.dead
              /\ \A u \in Threads : ~Brings(u, r[t].next)
PROOF
  <1>1. HpGuards /\ HpPlaces /\ Objects = FfNodes /\ FfLocals(t) /\ FfEnqueues(t) /\ FfDequeues(t)
    BY FfKnown DEF HpInv
  <1>2. ASSUME NEW x \in FfNodes, NEW i \in {0, 1}, Guarded(t, i, x)
        PROVE  x \notin m.new \cup m.dead /\ \A u \in Threads : ~Brings(u, x)
    BY <1>1, <1>2 DEF HpGuards, HpPlaces
  <1>3. CASE pc[t] \in {"e_next", "e_again", "e_link", "e_forward"}
    <2>1. r[t].tail \in FfNodes /\ Guarded(t, 0, r[t].tail)
      BY <1>1, <1>3 DEF FfLocals, FfEnqueues, Guarded
    <2> QED
      BY <1>2, <1>3, <2>1 DEF DChecked
  <1>4. pc[t] \in DChecked \/ (pc[t] = "d_tail" /\ ~r[t].try) =>
              /\ r[t].head \in FfNodes /\ r[t].head \notin m.new \cup m.dead
              /\ \A u \in Threads : ~Brings(u, r[t].head)
    <2> SUFFICES ASSUME pc[t] \in DChecked \/ (pc[t] = "d_tail" /\ ~r[t].try)
                 PROVE  /\ r[t].head \in FfNodes /\ r[t].head \notin m.new \cup m.dead
                        /\ \A u \in Threads : ~Brings(u, r[t].head)
      OBVIOUS
    <2>1. r[t].head \in FfNodes /\ Guarded(t, 0, r[t].head)
      BY <1>1 DEF FfLocals, FfDequeues, Guarded, DChecked
    <2> QED
      BY <1>2, <2>1
  <1>5. CASE pc[t] \in {"d_forward", "d_commit", "d_value"}
    <2>1. r[t].next \in FfNodes /\ Guarded(t, 1, r[t].next)
      BY <1>1, <1>5 DEF FfLocals, FfDequeues, Guarded
    <2> QED
      BY <1>2, <1>4, <1>5, <2>1 DEF DChecked
  <1> QED
    BY <1>3, <1>4, <1>5

\* The chain from the head to the tail.
LEMMA FfLine ==
  ASSUME FfInv, kind = "hp_fifo"
  PROVE  /\ m.abs \in Seq(FfNodes) /\ m.abs # <<>> /\ m.head = m.abs[1] /\ Len(m.abs) \in Nat \ {0}
         /\ DOMAIN m.abs = 1 .. Len(m.abs)
         /\ m.head \in Members(m.abs) /\ m.tail \in Members(m.abs)
         /\ Members(m.abs) \subseteq FfNodes
         /\ Members(m.abs) \cap (m.new \cup m.dead) = {}
         /\ \A x \in Members(m.abs), u \in Threads : ~Brings(u, x)
         /\ \A i \in DOMAIN m.abs : m.abs[i] = m.head => i = 1
         /\ m.next[m.tail] = NULL => m.tail = m.abs[Len(m.abs)]
         /\ m.next[m.tail] # NULL =>
              Len(m.abs) > 1 /\ m.tail = m.abs[Len(m.abs) - 1] /\ m.next[m.tail] = m.abs[Len(m.abs)]
         /\ m.next[m.head] # NULL => Len(m.abs) > 1
         /\ Len(m.abs) > 1 => m.next[m.head] = m.abs[2] /\ m.abs[2] \in Members(m.abs) /\ m.abs[2] # m.head
                              /\ m.abs[2] # NULL
         /\ m.tail # m.head => Len(m.abs) > 1
         /\ \A t \in Threads : Settled(t) => r[t].head # NULL
PROOF
  <1> DEFINE n == Len(m.abs)
  <1>1. /\ m.abs \in Seq(FfNodes) /\ Distinct(m.abs) /\ FfChain /\ HpPlaces /\ Objects = FfNodes /\ NULL \notin FfNodes
    BY QueuesAssumption DEF FfInv, HpInv, HpPlaces, Objects, FfNodes
  <1>2. m.abs # <<>> /\ m.head = m.abs[1] /\ LinkedBy(m.abs, m.next)
    BY <1>1 DEF FfChain
  <1>3. n \in Nat \ {0} /\ DOMAIN m.abs = 1 .. n
    BY <1>1, <1>2
  <1>4. PICK k \in DOMAIN m.abs : m.tail = m.abs[k] /\ k >= Len(m.abs) - 1
    BY <1>1 DEF FfChain
  <1> HIDE DEF n
  <1>5. \A i \in DOMAIN m.abs : m.abs[i] \in Members(m.abs) /\ m.abs[i] \in FfNodes /\ m.abs[i] # NULL
    BY <1>1 DEF Members
  <1>6. m.head \in Members(m.abs) /\ m.tail \in Members(m.abs) /\ 1 \in DOMAIN m.abs
    BY <1>2, <1>3, <1>4, <1>5
  <1>7. Members(m.abs) \subseteq FfNodes
    BY <1>5 DEF Members
  <1>8. Members(m.abs) \cap (m.new \cup m.dead) = {} /\ \A x \in Members(m.abs), u \in Threads : ~Brings(u, x)
    BY <1>1, <1>7 DEF HpPlaces, Carries
  <1>9. \A i \in DOMAIN m.abs : m.abs[i] = m.head => i = 1
    BY <1>1, <1>2, <1>6 DEF Distinct
  <1>10. \A i \in DOMAIN m.abs : m.next[m.abs[i]] = IF i = n THEN NULL ELSE m.abs[i + 1]
    BY <1>2 DEF LinkedBy, n
  <1>11. k = n \/ (k = n - 1 /\ k + 1 = n /\ n > 1 /\ n \in DOMAIN m.abs)
    BY <1>3, <1>4 DEF n
  <1>12. k # n => m.next[m.tail] = m.abs[n] /\ m.abs[n] # NULL
    BY <1>4, <1>5, <1>10, <1>11
  <1>13. k = n => m.next[m.tail] = NULL
    BY <1>4, <1>10
  <1>14. n > 1 => 2 \in DOMAIN m.abs /\ m.next[m.head] = m.abs[1 + 1]
    BY <1>2, <1>3, <1>6, <1>10
  <1>15. m.next[m.head] # NULL => n > 1
    BY <1>2, <1>3, <1>6, <1>10
  <1>16. n > 1 => m.abs[2] # m.head
    BY <1>9, <1>14
  <1>17. m.tail # m.head => n > 1
    BY <1>2, <1>3, <1>4
  <1>18. \A t \in Threads : Settled(t) => r[t].head # NULL
    BY DEF FfInv, FfDequeues, Settled
  <1> QED
    BY <1>1, <1>2, <1>3, <1>4, <1>5, <1>6, <1>7, <1>8, <1>9, <1>11, <1>12, <1>13, <1>14, <1>15, <1>16, <1>17, <1>18 DEF n

\* What a step of t may do to the queue: prepare a spare node, link it behind
\* the tail, forward the tail, or take out the head.
FfChange(t) ==
  /\ \A x \in FfNodes :
       /\ m'.next[x] = m.next[x] \/ x \in m.new \cup m.dead \/ (x = m.tail /\ m.next[x] = NULL)
       /\ m'.value[x] = m.value[x] \/ x \in m.new \cup m.dead
       /\ x \in m'.new => x \in m.new \/ Brings(t, x)
       /\ Brings(t, x)' => Brings(t, x) \/ x \in m.new \/ (x \in m.dead /\ m.reuse)
  /\ m'.tail = m.tail \/ (m.next[m.tail] # NULL /\ m'.tail = m.next[m.tail])
  /\ \/ m'.head = m.head /\ m'.abs = m.abs
     \/ m'.head = m.head /\ \E x \in FfNodes : Brings(t, x) /\ m'.abs = Append(m.abs, x)
     \/ Len(m.abs) > 1 /\ m'.head = m.abs[2] /\ m'.abs = Tail(m.abs) /\ m'.tail = m.tail
  /\ \A i \in DOMAIN m.enq : i \in DOMAIN m'.enq /\ m'.enq[i] = m.enq[i]
  /\ m'.try = m.try
\* What u has stays as it is.
FfOther(u) == pc'[u] = pc[u] /\ r'[u] = r[u] /\ (pc[u] \notin HpLabels => m'.ptr[r[u].rec] = m.ptr[r[u].rec])

LEMMA FfOtherEnqueues ==
  ASSUME FfInv, kind = "hp_fifo", NEW t \in Threads, FfChange(t), NEW u \in Threads, FfOther(u)
  PROVE  FfEnqueues(u)'
PROOF
  <1>1. FfLocals(u) /\ FfEnqueues(u) /\ pc'[u] = pc[u] /\ r'[u] = r[u] /\ FfType /\ NULL \notin FfNodes
    BY FfKnown DEF FfOther
  <1>2. CASE pc[u] \in {"e_tail", "e_set", "e_same", "e_next", "e_again", "e_link", "e_forward"}
    <2>1. m'.ptr[r[u].rec] = m.ptr[r[u].rec]
      BY <1>2 DEF FfOther, HpLabels
    <2>2. pc[u] # "e_forward" => r[u].e \in FfNodes /\ m.next[r[u].e] = NULL /\ m'.next[r[u].e] = NULL
      <3> SUFFICES ASSUME pc[u] # "e_forward" PROVE r[u].e \in FfNodes /\ m.next[r[u].e] = NULL /\ m'.next[r[u].e] = NULL
        OBVIOUS
      <3>1. r[u].e \in FfNodes /\ Brings(u, r[u].e) /\ m.next[r[u].e] = NULL
        BY <1>1, <1>2 DEF FfLocals, FfEnqueues, Brings
      <3>2. r[u].e \notin m.new \cup m.dead /\ r[u].e # m.tail
        BY <3>1, FfLine DEF FfInv, HpInv, HpPlaces, Carries, Objects, FfNodes
      <3> QED
        BY <3>1, <3>2 DEF FfChange
    <2>3. CASE pc[u] \in {"e_next", "e_again", "e_link", "e_forward"}
      <3>1. r[u].tail \in FfNodes /\ r[u].tail \notin m.new \cup m.dead
        BY <2>3, FfGuarded
      <3>2. m'.next[r[u].tail] = m.next[r[u].tail] \/ (r[u].tail = m.tail /\ m.next[r[u].tail] = NULL)
        BY <3>1 DEF FfChange
      <3>3. m'.tail = m.tail \/ m.next[m.tail] # NULL
        BY DEF FfChange
      <3>4. (pc[u] \in {"e_next", "e_again", "e_link"} /\ m'.next[r[u].tail] = NULL) => m'.tail = r[u].tail
        BY <1>1, <3>2, <3>3 DEF FfEnqueues
      <3>5. (pc[u] \in {"e_again", "e_link"} /\ r[u].next # NULL) => m'.next[r[u].tail] = r[u].next
        BY <1>1, <3>2 DEF FfEnqueues
      <3>6. pc[u] = "e_forward" => r[u].e # NULL /\ m'.next[r[u].tail] = r[u].e
        BY <1>1, <3>2 DEF FfEnqueues
      <3> QED
        BY <1>1, <1>2, <2>1, <2>2, <2>3, <3>4, <3>5, <3>6 DEF FfEnqueues
    <2>4. CASE pc[u] \in {"e_tail", "e_set", "e_same"}
      BY <1>1, <1>2, <2>1, <2>2, <2>4 DEF FfEnqueues
    <2> QED
      BY <1>2, <2>3, <2>4
  <1>3. CASE pc[u] \notin {"e_tail", "e_set", "e_same", "e_next", "e_again", "e_link", "e_forward"}
    BY <1>1, <1>3 DEF FfEnqueues
  <1> QED
    BY <1>2, <1>3

\* The head that u has read cannot become the head once more.
LEMMA FfSettled ==
  ASSUME FfInv, kind = "hp_fifo", NEW t \in Threads, FfChange(t), NEW u \in Threads, Settled(u), FfLocals(u), r'[u].head = r[u].head,
         \A v \in Threads \ {t}, x \in FfNodes : Brings(v, x)' => Brings(v, x)
  PROVE  /\ r[u].head \notin m'.new
         /\ \A v \in Threads : ~(Brings(v, r[u].head)')
         /\ \A i \in DOMAIN m'.abs : m'.abs[i] = r[u].head => i = 1
         /\ m'.head = r[u].head => m.head = r[u].head
PROOF
  <1>1. /\ r[u].head \in FfNodes /\ r[u].head \notin m.new /\ \A v \in Threads : ~Brings(v, r[u].head)
        /\ \A i \in DOMAIN m.abs : m.abs[i] = r[u].head => i = 1
    BY FfLine DEF FfInv, FfDequeues, FfLocals
  <1>2. ~(r[u].head \in m.dead /\ m.reuse)
    <2>1. CASE pc[u] \in DChecked \/ (pc[u] = "d_tail" /\ ~r[u].try)
      BY <2>1, FfGuarded
    <2>2. CASE r[u].try
      BY <2>2 DEF FfInv, FfLocals, FfType
    <2> QED
      BY <2>1, <2>2 DEF Settled
  <1>3. r[u].head \notin m'.new /\ \A v \in Threads : ~(Brings(v, r[u].head)')
    <2>1. ASSUME NEW x \in FfNodes, x \notin m.new, ~(x \in m.dead /\ m.reuse), \A v \in Threads : ~Brings(v, x)
          PROVE  x \notin m'.new /\ \A v \in Threads : ~(Brings(v, x)')
      BY <2>1 DEF FfChange
    <2>2. r[u].head \notin m'.new /\ \A v \in Threads : ~(pc'[v] \in {"s_head", "s_cas", "e_tail", "e_set", "e_same", "e_next", "e_again", "e_link"} /\ r[u].head = r'[v].e)
      BY <1>1, <1>2, <2>1 DEF Brings
    <2> QED
      BY <2>2 DEF Brings
  <1>4. m.abs \in Seq(FfNodes) /\ m.abs # <<>> /\ Len(m.abs) \in Nat \ {0} /\ DOMAIN m.abs = 1 .. Len(m.abs)
    BY FfLine
  <1>5. CASE m'.head = m.head /\ m'.abs = m.abs
    BY <1>1, <1>3, <1>5
  <1>6. ASSUME m'.head = m.head, NEW x \in FfNodes, Brings(t, x), m'.abs = Append(m.abs, x)
        PROVE  \A i \in DOMAIN m'.abs : m'.abs[i] = r[u].head => i = 1
    <2>1. x # r[u].head
      BY <1>1, <1>6
    <2>2. /\ DOMAIN m'.abs = 1 .. Len(m.abs) + 1 /\ m'.abs[Len(m.abs) + 1] = x
          /\ \A i \in DOMAIN m.abs : m'.abs[i] = m.abs[i]
      BY <1>4, <1>6, Behind
    <2>3. ASSUME NEW i \in DOMAIN m'.abs, m'.abs[i] = r[u].head PROVE i = 1
      <3>1. i \in DOMAIN m.abs \/ i = Len(m.abs) + 1
        BY <1>4, <2>2
      <3> QED
        BY <1>1, <2>1, <2>2, <2>3, <3>1
    <2> QED
      BY <2>3
  <1>7. CASE Len(m.abs) > 1 /\ m'.head = m.abs[2] /\ m'.abs = Tail(m.abs)
    <2>1. \A i \in DOMAIN m'.abs : i \in Nat \ {0} /\ i + 1 \in DOMAIN m.abs /\ m'.abs[i] = m.abs[i + 1]
      BY <1>4, <1>7, Without
    <2>2. 2 \in DOMAIN m.abs
      BY <1>4, <1>7
    <2>3. \A i \in DOMAIN m'.abs : m'.abs[i] # r[u].head
      BY <1>1, <2>1
    <2> QED
      BY <1>1, <1>3, <1>7, <2>2, <2>3
  <1> QED
    BY <1>3, <1>5, <1>6, <1>7 DEF FfChange

LEMMA FfOtherDequeues ==
  ASSUME FfInv, kind = "hp_fifo", NEW t \in Threads, FfChange(t), NEW u \in Threads, FfOther(u),
         \A v \in Threads \ {t}, x \in FfNodes : Brings(v, x)' => Brings(v, x)
  PROVE  FfDequeues(u)'
PROOF
  <1>1. /\ FfLocals(u) /\ FfDequeues(u) /\ pc'[u] = pc[u] /\ r'[u] = r[u] /\ NULL \notin FfNodes
        /\ m.tail \in FfNodes
    BY FfKnown DEF FfOther
  <1>2. pc[u] \in DChecked \cup {"d_tail", "d_set", "d_same", "d_value", "d_free"} => m'.ptr[r[u].rec] = m.ptr[r[u].rec]
    BY DEF FfOther, HpLabels, DChecked
  <1>3. Settled(u) =>
         /\ r[u].head \notin m'.new
         /\ \A v \in Threads : ~(Brings(v, r[u].head)')
         /\ \A i \in DOMAIN m'.abs : m'.abs[i] = r[u].head => i = 1
         /\ m'.head = r[u].head => m.head = r[u].head
    BY <1>1, FfSettled
  <1>4. Settled(u)' <=> Settled(u)
    BY <1>1 DEF Settled
  <1>5. (pc[u] \in DChecked \/ (pc[u] \in {"d_set", "d_same"} /\ r[u].try)) =>
           ((m'.head = r[u].head /\ r[u].head # r[u].tail) => m'.tail # m'.head)
    <2> SUFFICES ASSUME pc[u] \in DChecked \/ (pc[u] \in {"d_set", "d_same"} /\ r[u].try),
                        m'.head = r[u].head, r[u].head # r[u].tail
                 PROVE  m'.tail # m'.head
      OBVIOUS
    <2>1. Settled(u)
      BY DEF Settled
    <2>2. m.head = r[u].head /\ m.tail # m.head
      BY <1>1, <1>3, <2>1 DEF FfDequeues
    <2>3. CASE m'.tail = m.tail
      BY <2>2, <2>3
    <2>4. CASE m.next[m.tail] # NULL /\ m'.tail = m.next[m.tail]
      <3>1. /\ Len(m.abs) > 1 /\ m'.tail = m.abs[Len(m.abs)] /\ Len(m.abs) \in DOMAIN m.abs
            /\ \A i \in DOMAIN m.abs : m.abs[i] = m.head => i = 1
        BY <2>4, FfLine
      <3> QED
        BY <2>2, <3>1
    <2> QED
      BY <2>3, <2>4 DEF FfChange
  <1>6. pc[u] \in {"d_set1", "d_again", "d_forward", "d_commit"} =>
         /\ r[u].next # NULL => m'.next[r[u].head] = r[u].next
         /\ (m'.head = r[u].head /\ r[u].head # r[u].tail) => r[u].next # NULL
    <2> SUFFICES ASSUME pc[u] \in {"d_set1", "d_again", "d_forward", "d_commit"}
                 PROVE  /\ r[u].next # NULL => m'.next[r[u].head] = r[u].next
                        /\ (m'.head = r[u].head /\ r[u].head # r[u].tail) => r[u].next # NULL
      OBVIOUS
    <2>1. Settled(u) /\ pc[u] \in DChecked
      BY DEF Settled, DChecked
    <2>2. r[u].head \in FfNodes /\ r[u].head \notin m.new \cup m.dead
      BY <2>1, FfGuarded
    <2>3. m'.next[r[u].head] = m.next[r[u].head] \/ m.next[r[u].head] = NULL
      BY <2>2 DEF FfChange
    <2> QED
      BY <1>1, <1>3, <2>1, <2>3 DEF FfDequeues
  <1>7. pc[u] \in {"d_value", "d_free"} => r[u].nth \in DOMAIN m'.enq /\ m'.enq[r[u].nth] = m.enq[r[u].nth]
    BY <1>1 DEF FfDequeues, FfChange
  <1>8. pc[u] = "d_value" => m'.value[r[u].next] = m.value[r[u].next]
    BY FfGuarded DEF FfChange
  <1>9. /\ pc[u] \in DChecked \cup {"d_tail", "d_set", "d_same", "d_value", "d_free"} => r[u].head # NULL
        /\ (pc[u] \in DChecked \cup {"d_same"} \/ (pc[u] = "d_tail" /\ ~r[u].try)) =>
              m'.ptr[r[u].rec][0] = r[u].head
        /\ pc[u] \in {"d_again", "d_forward", "d_commit", "d_value"} => m'.ptr[r[u].rec][1] = r[u].next
        /\ pc[u] \in {"d_forward", "d_commit", "d_value"} => r[u].next # NULL
        /\ pc[u] = "d_forward" => r[u].head = r[u].tail
        /\ pc[u] = "d_commit" => r[u].head # r[u].tail
    BY <1>1, <1>2 DEF FfDequeues, DChecked
  <1>10. /\ pc[u] = "d_value" => m'.value[r[u].next] = m'.enq[r[u].nth]
         /\ pc[u] = "d_free" => r[u].v = m'.enq[r[u].nth]
    BY <1>1, <1>7, <1>8 DEF FfDequeues
  <1> QED
    BY <1>1, <1>3, <1>4, <1>5, <1>6, <1>7, <1>9, <1>10 DEF FfDequeues

\* What t protects from now on, it has protected before, or it is linked.
FfGuard(t) ==
  /\ pc'[t] \in {"e_next", "e_again", "e_link", "e_forward"} =>
       Guarded(t, 0, r'[t].tail) \/ r'[t].tail \in Members(m.abs)
  /\ pc'[t] \in DChecked \/ (pc'[t] = "d_tail" /\ ~r'[t].try) =>
       Guarded(t, 0, r'[t].head) \/ r'[t].head \in Members(m.abs)
  /\ pc'[t] \in {"d_forward", "d_commit", "d_value"} =>
       Guarded(t, 1, r'[t].next) \/ r'[t].next \in Members(m.abs)
\* t stores in its own slots at most.
FfSlots(t) ==
  /\ m'.ptr \in [Records -> [{0, 1} -> FfNodes \cup {NULL}]]
  /\ \A x \in Records \ {r[t].rec} : m'.ptr[x] = m.ptr[x]

LEMMA FfGuards ==
  ASSUME NEW t \in Threads, m.degree = 2, FfGuard(t), FfLocals(t)', FfEnqueues(t)', FfDequeues(t)',
         r'[t].rec = r[t].rec
  PROVE  HpClientGuards(t)
PROOF
  <1> SUFFICES ASSUME NEW i \in {0, 1}, NEW x \in Objects, Guarded(t, i, x)'
               PROVE  i < m.degree /\ m'.ptr[r[t].rec][i] = x /\ (Guarded(t, i, x) \/ x \in Members(m.abs))
    BY DEF HpClientGuards
  <1>0. i < m.degree
    OBVIOUS
  <1>1. CASE i = 0 /\ pc'[t] \in {"e_next", "e_again", "e_link", "e_forward"} /\ x = r'[t].tail
    BY <1>0, <1>1 DEF FfGuard, FfEnqueues
  <1>2. CASE i = 0 /\ (pc'[t] \in DChecked \/ (pc'[t] = "d_tail" /\ ~r'[t].try)) /\ x = r'[t].head
    <2>1. m'.ptr[r[t].rec][i] = x
      BY <1>2 DEF FfDequeues
    <2> QED
      BY <1>0, <1>2, <2>1 DEF FfGuard
  <1>3. CASE i = 1 /\ pc'[t] \in {"d_forward", "d_commit", "d_value"} /\ x = r'[t].next
    BY <1>0, <1>3 DEF FfGuard, FfDequeues
  <1> QED
    BY <1>1, <1>2, <1>3 DEF Guarded, FfLocals, FfLabels, HpLabels, DChecked

LEMMA FfClient ==
  ASSUME NEW t \in Threads, FfInv, kind = "hp_fifo", Moves(t), FfGuard(t), HpMoves(t), FfChange(t), FfSlots(t),
         \A f \in HpFields \ {"ptr", "pending", "dead"} : m'[f] = m[f],
         FfType', FfChain', FfLocals(t)', FfEnqueues(t)', FfDequeues(t)'
  PROVE  FfInv'
PROOF
  <1>1. /\ HpInv /\ m.degree = 2 /\ Objects = FfNodes /\ 0 .. m.degree - 1 = {0, 1}
    BY FfKnown
  <1>2. /\ pc[t] \notin {"out", "look", "take", "left"} /\ r'[t].rec = r[t].rec
        /\ \A u \in Threads \ {t} : pc'[u] = pc[u] /\ r'[u] = r[u]
    BY DEF Moves, HpLabels, HpLocalFields
  <1>3. r[t].rec \in Records /\ \A u \in Threads \ {t} : pc[u] # "left" => r[t].rec # r[u].rec
    BY <1>1, <1>2, HpKnown
  <1>4. HpClientFrame(t)
    BY <1>1 DEF HpClientFrame, Moves, FfSlots
  <1>5. HpInv'
    BY <1>1, <1>2, <1>4, FfGuards, HpClientStep
  <1>6. ASSUME NEW u \in Threads, u # t PROVE FfLocals(u)' /\ FfEnqueues(u)' /\ FfDequeues(u)'
    <2>1. FfOther(u)
      <3>1. pc[u] \notin HpLabels => r[u].rec \in Records /\ r[u].rec # r[t].rec
        BY <1>1, <1>3, <1>6, HpKnown DEF HpLabels
      <3> QED
        BY <1>2, <1>6, <3>1 DEF FfOther, FfSlots
    <2>2. \A v \in Threads \ {t}, x \in FfNodes : Brings(v, x)' => Brings(v, x)
      BY <1>2 DEF Brings
    <2>3. FfLocals(u)'
      BY <1>2, <1>6 DEF FfInv, FfLocals, FfChange
    <2> QED
      BY <2>1, <2>2, <2>3, FfOtherEnqueues, FfOtherDequeues
  <1> QED
    BY <1>5, <1>6 DEF FfInv

\* The same nodes are linked, and the tail is where it was or forwarded.
LEMMA FfChainSame ==
  ASSUME FfInv, kind = "hp_fifo", m'.abs = m.abs, m'.head = m.head, m'.enq = m.enq, m'.left = m.left,
         \A x \in Members(m.abs) : m'.next[x] = m.next[x] /\ m'.value[x] = m.value[x],
         m'.tail = m.tail \/ (m.next[m.tail] # NULL /\ m'.tail = m.next[m.tail])
  PROVE  FfChain'
PROOF
  <1>1. FfChain
    BY DEF FfInv
  <1>2. LinkedBy(m.abs, m.next)'
    <2>1. LinkedBy(m.abs, m.next)
      BY <1>1 DEF FfChain
    <2>2. LinkedBy(m.abs, m'.next)
      BY <2>1, LinkedSame
    <2> QED
      BY <2>2 DEF LinkedBy
  <1>3. \E i \in DOMAIN m.abs : m'.tail = m.abs[i] /\ i >= Len(m.abs) - 1
    <2>1. CASE m'.tail = m.tail
      BY <1>1, <2>1 DEF FfChain
    <2>2. CASE m.next[m.tail] # NULL /\ m'.tail = m.next[m.tail]
      <3>1. m'.tail = m.abs[Len(m.abs)] /\ Len(m.abs) \in Nat \ {0} /\ DOMAIN m.abs = 1 .. Len(m.abs)
        BY <2>2, FfLine
      <3>2. Len(m.abs) \in DOMAIN m.abs /\ Len(m.abs) >= Len(m.abs) - 1
        BY <3>1
      <3> QED
        BY <3>1, <3>2
    <2> QED
      BY <2>1, <2>2
  <1>4. \A i \in DOMAIN m.abs : i > 1 => m'.value[m.abs[i]] = m.enq[m.left + i - 1]
    BY <1>1 DEF FfChain, Members
  <1> QED
    BY <1>1, <1>2, <1>3, <1>4 DEF FfChain

\* A step that moves no node.
LEMMA FfQuiet ==
  ASSUME NEW t \in Threads, FfInv, kind = "hp_fifo", Moves(t), FfGuard(t), FfSlots(t),
         \A f \in FfFields \ {"ptr", "deqs", "tail"} : m'[f] = m[f],
         m'.tail = m.tail \/ (m.next[m.tail] # NULL /\ m'.tail = m.next[m.tail]),
         \A x \in FfNodes : (Brings(t, x)' => Brings(t, x)) /\ (Takes(t, x)' => Takes(t, x)),
         FfLocals(t)', FfEnqueues(t)', FfDequeues(t)'
  PROVE  FfInv'
PROOF
  <1>1. /\ m'.new = m.new /\ m'.dead = m.dead /\ m'.pending = m.pending /\ m'.abs = m.abs
        /\ m'.head = m.head /\ m'.next = m.next /\ m'.value = m.value /\ m'.enq = m.enq /\ m'.left = m.left
        /\ m'.try = m.try /\ m'.reuse = m.reuse /\ m'.enqs = m.enqs /\ m'.degree = m.degree
        /\ \A f \in HpFields \ {"ptr", "pending", "dead"} : m'[f] = m[f]
    BY DEF FfFields, HpFields
  <1>2. HpInv /\ FfType /\ Objects = FfNodes /\ DOMAIN m = FfFields
    BY FfKnown
  <1>3. HpMoves(t)
    BY <1>1, <1>2, HpMovesNothing
  <1>4. FfChain'
    BY <1>1, FfChainSame
  <1>5. m'.tail \in FfNodes /\ DOMAIN m' = DOMAIN m
    BY <1>2 DEF FfType, Moves
  <1>6. FfType'
    BY <1>1, <1>2, <1>5 DEF FfType
  <1>7. FfChange(t)
    BY <1>1 DEF FfChange
  <1> QED
    BY <1>1, <1>3, <1>4, <1>6, <1>7, FfClient

FfBringing == {"s_head", "s_cas", "e_tail", "e_set", "e_same", "e_next", "e_again", "e_link"}
FfEnqueueing == {"e_tail", "e_set", "e_same", "e_next", "e_again", "e_link", "e_forward"}
FfDequeueing == DChecked \cup {"d_tail", "d_set", "d_same", "d_value", "d_free"}
\* The head that t has read is the head, or never will be again.
FfSet(t) ==
  /\ r[t].head \notin m.new
  /\ \A u \in Threads : ~Brings(u, r[t].head)
  /\ \A i \in DOMAIN m.abs : m.abs[i] = r[t].head => i = 1

LEMMA FfPut ==
  ASSUME NEW t \in Threads, NEW new, DOMAIN r = Threads, DOMAIN r[t] = FfLocalFields,
         DOMAIN new \cap HpLocalFields = {}, HpF!Put(t, new)
  PROVE  /\ DOMAIN r' = Threads /\ \A u \in Threads \ {t} : r'[u] = r[u]
         /\ DOMAIN r'[t] = FfLocalFields /\ \A f \in HpLocalFields : r'[t][f] = r[t][f]
         /\ \A f \in FfLocalFields \ DOMAIN new : r'[t][f] = r[t][f]
         /\ \A f \in FfLocalFields \cap DOMAIN new : r'[t][f] = new[f]
PROOF
  BY DEF HpF!Put, HpF!With, FfLocalFields

LEMMA FfGoes ==
  ASSUME NEW t \in Threads, FfInv, kind = "hp_fifo", kind' = kind, NEW l, NEW k,
         pc[t] = l, l \in FfLabels \ (HpLabels \ {"idle"}), HpF!Go(t, k), k \in FfLabels \ (HpLabels \ {"idle", "reclaim"}),
         r' = r \/ \E new : DOMAIN new \cap HpLocalFields = {} /\ HpF!Put(t, new),
         DOMAIN m' = DOMAIN m
  PROVE  Moves(t) /\ pc'[t] = k /\ DOMAIN r'[t] = FfLocalFields /\ r'[t].rec = r[t].rec
PROOF
  <1>1. DOMAIN pc = Threads /\ DOMAIN r = Threads /\ DOMAIN r[t] = FfLocalFields /\ HpLocalFields \subseteq FfLocalFields
    BY FfKnown DEF FfLocalFields
  <1>2. DOMAIN pc' = Threads /\ pc'[t] = k /\ \A u \in Threads \ {t} : pc'[u] = pc[u]
    BY <1>1 DEF HpF!Go
  <1>3. /\ DOMAIN r' = Threads /\ \A u \in Threads \ {t} : r'[u] = r[u]
        /\ DOMAIN r'[t] = FfLocalFields /\ \A f \in HpLocalFields : r'[t][f] = r[t][f]
    BY <1>1, FfPut
  <1> QED
    BY <1>1, <1>2, <1>3 DEF Moves, HpLocalFields

\* A thread that does not enqueue, or does not dequeue.
LEMMA FfIdle ==
  ASSUME NEW t \in Threads
  PROVE  /\ pc'[t] \notin FfEnqueueing => FfEnqueues(t)'
         /\ pc'[t] \notin FfDequeueing => FfDequeues(t)'
         /\ pc'[t] \notin FfBringing => \A x : ~(Brings(t, x)')
         /\ pc'[t] \notin {"p_free", "d_value", "d_free"} => \A x : ~(Takes(t, x)')
         /\ pc'[t] \notin {"e_next", "e_again", "e_link", "e_forward"} \cup DChecked \cup {"d_tail", "d_value"} => FfGuard(t)
PROOF
  <1>1. pc'[t] \notin FfEnqueueing => FfEnqueues(t)'
    BY DEF FfEnqueues, FfEnqueueing
  <1>2. pc'[t] \notin FfDequeueing => FfDequeues(t)'
    BY DEF FfDequeues, FfDequeueing, Settled, DChecked
  <1>3. /\ pc'[t] \notin FfBringing => \A x : ~(Brings(t, x)')
        /\ pc'[t] \notin {"p_free", "d_value", "d_free"} => \A x : ~(Takes(t, x)')
    BY DEF Brings, Takes, FfBringing
  <1>4. pc'[t] \notin {"e_next", "e_again", "e_link", "e_forward"} \cup DChecked \cup {"d_tail", "d_value"} => FfGuard(t)
    BY DEF FfGuard, DChecked
  <1> QED
    BY <1>1, <1>2, <1>3, <1>4

LEMMA FfReturn ==
  ASSUME NEW t \in Threads, FfInv, kind = "hp_fifo", kind' = kind,
         pc[t] \in FfLabels \ HpLabels, HpF!Return(t), DOMAIN m' = DOMAIN m
  PROVE  /\ Moves(t) /\ pc'[t] = "idle" /\ FfLocals(t)' /\ FfEnqueues(t)' /\ FfDequeues(t)' /\ FfGuard(t)
         /\ \A x : ~(Brings(t, x)') /\ ~(Takes(t, x)')
PROOF
  <1>1. DOMAIN r = Threads /\ DOMAIN r[t] = FfLocalFields
    BY FfKnown
  <1>2. HpF!Go(t, "idle") /\ HpF!Put(t, HpF!Scratch) /\ DOMAIN HpF!Scratch \cap HpLocalFields = {}
    BY DEF HpF!Return, HpF!Scratch, HpLocalFields
  <1>3. Moves(t) /\ pc'[t] = "idle" /\ DOMAIN r'[t] = FfLocalFields
    BY <1>2, FfGoes DEF FfLabels, HpLabels
  <1>4. r'[t].e = NULL /\ r'[t].head = NULL /\ r'[t].tail = NULL /\ r'[t].next = NULL /\ r'[t].try = FALSE
    BY <1>1, <1>2, FfPut DEF HpF!Scratch, FfLocalFields
  <1>5. FfLocals(t)'
    BY <1>3, <1>4 DEF FfLocals, FfLabels, HpLabels
  <1> QED
    BY <1>3, <1>5, FfIdle DEF FfEnqueueing, FfDequeueing, FfBringing, DChecked

LEMMA FfPublish ==
  ASSUME NEW t \in Threads, FfInv, kind = "hp_fifo", pc[t] \in FfLabels \ HpLabels, NEW i \in {0, 1},
         NEW p \in FfNodes \cup {NULL}, HpF!Publish(t, i, p)
  PROVE  /\ DOMAIN m' = DOMAIN m /\ \A f \in FfFields \ {"ptr"} : m'[f] = m[f]
         /\ FfSlots(t) /\ m'.ptr[r[t].rec][i] = p
         /\ \A j \in {0, 1} \ {i} : m'.ptr[r[t].rec][j] = m.ptr[r[t].rec][j]
PROOF
  <1>1. DOMAIN m = FfFields /\ m.ptr \in [Records -> [{0, 1} -> FfNodes \cup {NULL}]] /\ r[t].rec \in Records
    BY FfKnown DEF HpLabels
  <1>2. m' = [m EXCEPT !.ptr[r[t].rec][i] = p]
    BY DEF HpF!Publish, HpF!Mine
  <1>3. DOMAIN m' = DOMAIN m /\ m'.ptr = [m.ptr EXCEPT ![r[t].rec][i] = p] /\ \A f \in FfFields \ {"ptr"} : m'[f] = m[f]
    BY <1>1, <1>2 DEF FfFields, HpFields
  <1> QED
    BY <1>1, <1>3 DEF FfSlots

LEMMA FfStill ==
  ASSUME NEW t \in Threads, FfInv, kind = "hp_fifo", m' = m
  PROVE  FfSlots(t) /\ DOMAIN m' = DOMAIN m /\ \A f \in FfFields : m'[f] = m[f]
PROOF
  <1>1. m.ptr \in [Records -> [{0, 1} -> FfNodes \cup {NULL}]]
    BY FfKnown
  <1> QED
    BY <1>1 DEF FfSlots

LEMMA FfStaysSet ==
  ASSUME NEW t \in Threads, FfInv, kind = "hp_fifo", Moves(t), m'.new = m.new, m'.abs = m.abs, pc'[t] \notin FfBringing,
         (Settled(t) /\ r'[t].head = r[t].head) \/ r'[t].head = m.head
  PROVE  FfSet(t)'
PROOF
  <1>1. FfDequeues(t)
    BY FfKnown
  <1> DEFINE h == r'[t].head
  <1>2. /\ h \notin m.new /\ \A u \in Threads : ~Brings(u, h)
        /\ \A i \in DOMAIN m.abs : m.abs[i] = h => i = 1
    <2>1. CASE Settled(t) /\ r'[t].head = r[t].head
      BY <1>1, <2>1 DEF FfDequeues
    <2>2. CASE r'[t].head = m.head
      BY <2>2, FfLine
    <2> QED
      BY <2>1, <2>2
  <1> HIDE DEF h
  <1>3. \A u \in Threads \ {t} : pc'[u] = pc[u] /\ r'[u] = r[u]
    BY DEF Moves
  <1>4. \A u \in Threads : ~(pc'[u] \in FfBringing /\ h = r'[u].e)
    BY <1>2, <1>3 DEF Brings, FfBringing
  <1> QED
    BY <1>2, <1>4 DEF FfSet, Brings, FfBringing, h

LEMMA FfEnqueueTail ==
  ASSUME NEW t \in Threads, FfInv, kind = "hp_fifo", kind' = kind, HpF!EnqueueTail(t)
  PROVE  FfInv'
PROOF
  <1>1. /\ DOMAIN r = Threads /\ DOMAIN r[t] = FfLocalFields /\ FfLocals(t) /\ FfEnqueues(t)
        /\ m.tail \in FfNodes /\ NULL \notin FfNodes
    BY FfKnown
  <1>2. pc[t] = "e_tail" /\ HpF!Go(t, "e_set") /\ m' = m /\ HpF!Put(t, [tail |-> m.tail])
    BY DEF HpF!EnqueueTail, HpF!Step, HpF!At, HpF!Local
  <1>3. DOMAIN [tail |-> m.tail] \cap HpLocalFields = {}
    BY DEF HpLocalFields
  <1>4. FfSlots(t) /\ DOMAIN m' = DOMAIN m /\ \A f \in FfFields : m'[f] = m[f]
    BY <1>2, FfStill
  <1>5. Moves(t) /\ pc'[t] = "e_set" /\ DOMAIN r'[t] = FfLocalFields
    BY <1>2, <1>3, FfGoes DEF FfLabels, HpLabels
  <1>6. /\ r'[t].tail = m.tail /\ r'[t].e = r[t].e /\ r'[t].head = r[t].head /\ r'[t].next = r[t].next
        /\ r'[t].try = r[t].try
    BY <1>1, <1>2, <1>3, FfPut DEF FfLocalFields
  <1>7. FfLocals(t)' /\ FfEnqueues(t)'
    BY <1>1, <1>2, <1>5, <1>6 DEF FfLocals, FfEnqueues, FfLabels
  <1>8. FfDequeues(t)' /\ FfGuard(t) /\ \A x : ~(Takes(t, x)')
    BY <1>5, FfIdle DEF FfDequeueing, DChecked
  <1>9. \A x : Brings(t, x)' => Brings(t, x)
    BY <1>2, <1>5, <1>6 DEF Brings
  <1> QED
    BY <1>2, <1>4, <1>5, <1>7, <1>8, <1>9, FfQuiet

LEMMA FfEnqueueSet ==
  ASSUME NEW t \in Threads, FfInv, kind = "hp_fifo", kind' = kind, HpF!EnqueueSet(t)
  PROVE  FfInv'
PROOF
  <1>1. DOMAIN r = Threads /\ DOMAIN r[t] = FfLocalFields /\ FfLocals(t) /\ FfEnqueues(t) /\ DOMAIN m = FfFields
    BY FfKnown
  <1>2. pc[t] = "e_set" /\ HpF!Go(t, "e_same") /\ HpF!Publish(t, 0, r[t].tail) /\ r' = r
    BY DEF HpF!EnqueueSet, HpF!Step, HpF!At
  <1>3. r[t].tail \in FfNodes \cup {NULL} /\ pc[t] \in FfLabels \ HpLabels
    BY <1>1, <1>2 DEF FfLocals, FfLabels, HpLabels
  <1>4. /\ DOMAIN m' = DOMAIN m /\ \A f \in FfFields \ {"ptr"} : m'[f] = m[f]
        /\ FfSlots(t) /\ m'.ptr[r[t].rec][0] = r[t].tail
    BY <1>2, <1>3, FfPublish
  <1>5. Moves(t) /\ pc'[t] = "e_same"
    BY <1>2, <1>4, FfGoes DEF FfLabels, HpLabels
  <1>6. m'.try = m.try /\ m'.next = m.next /\ m'.tail = m.tail
    BY <1>4 DEF FfFields
  <1>7. FfLocals(t)' /\ FfEnqueues(t)'
    BY <1>1, <1>2, <1>4, <1>5, <1>6 DEF FfLocals, FfEnqueues, FfLabels
  <1>8. FfDequeues(t)' /\ FfGuard(t) /\ \A x : ~(Takes(t, x)')
    BY <1>5, FfIdle DEF FfDequeueing, DChecked
  <1>9. \A x : Brings(t, x)' => Brings(t, x)
    BY <1>2, <1>5 DEF Brings
  <1> QED
    BY <1>4, <1>5, <1>6, <1>7, <1>8, <1>9, FfQuiet

\* A try gives its node back.
LEMMA FfGivesBack ==
  ASSUME NEW t \in Threads, FfInv, kind = "hp_fifo", kind' = kind, pc[t] \in FfBringing \ {"s_head", "s_cas"},
         HpF!Return(t), DOMAIN m' = DOMAIN m, m'.new = m.new \cup {r[t].e},
         \A f \in FfFields \ {"new", "tail"} : m'[f] = m[f],
         m'.tail = m.tail \/ (m.next[m.tail] # NULL /\ m'.tail = m.next[m.tail])
  PROVE  FfInv'
PROOF
  <1>1. /\ HpInv /\ DOMAIN r = Threads /\ DOMAIN r[t] = FfLocalFields /\ FfLocals(t) /\ FfEnqueues(t)
        /\ DOMAIN m = FfFields /\ Objects = FfNodes /\ FfType
        /\ m.ptr \in [Records -> [{0, 1} -> FfNodes \cup {NULL}]]
    BY FfKnown
  <1>2. pc[t] \in FfLabels \ HpLabels
    BY DEF FfBringing, FfLabels, HpLabels
  <1>3. /\ Moves(t) /\ pc'[t] = "idle" /\ FfLocals(t)' /\ FfEnqueues(t)' /\ FfDequeues(t)' /\ FfGuard(t)
        /\ \A x : ~(Brings(t, x)') /\ ~(Takes(t, x)')
    BY <1>2, FfReturn
  <1>4. r[t].e \in FfNodes /\ Brings(t, r[t].e)
    BY <1>1 DEF FfLocals, FfEnqueues, Brings, FfBringing
  <1>5. /\ m'.dead = m.dead /\ m'.pending = m.pending /\ m'.abs = m.abs /\ m'.ptr = m.ptr
        /\ m'.head = m.head /\ m'.next = m.next /\ m'.value = m.value /\ m'.enq = m.enq /\ m'.left = m.left
        /\ m'.try = m.try /\ m'.reuse = m.reuse /\ m'.enqs = m.enqs /\ m'.degree = m.degree
        /\ \A f \in HpFields \ {"ptr", "pending", "dead"} : m'[f] = m[f]
    BY DEF FfFields, HpFields
  <1>6. \A x \in Objects : (Carries(t, x) => x = r[t].e) /\ ~(Carries(t, x)')
    BY <1>3 DEF Carries, Brings, Takes, FfBringing
  <1>7. HpMoves(t)
    BY <1>1, <1>4, <1>5, <1>6, HpGivesBack
  <1>8. FfChain'
    BY <1>5, FfChainSame
  <1>9. m'.tail \in FfNodes
    BY <1>1 DEF FfType
  <1>10. FfType'
    BY <1>1, <1>5, <1>9 DEF FfType
  <1>11. FfChange(t) /\ FfSlots(t)
    BY <1>1, <1>3, <1>4, <1>5 DEF FfChange, FfSlots
  <1> QED
    BY <1>3, <1>5, <1>7, <1>8, <1>10, <1>11, FfClient

\* An enqueue starts again, having forwarded the tail or not.
LEMMA FfEnqueueAgains ==
  ASSUME NEW t \in Threads, FfInv, kind = "hp_fifo", kind' = kind, pc[t] \in {"e_same", "e_again", "e_link"},
         HpF!Go(t, "e_tail"), r' = r, DOMAIN m' = DOMAIN m,
         \A f \in FfFields \ {"tail"} : m'[f] = m[f],
         m'.tail = m.tail \/ (m.next[m.tail] # NULL /\ m'.tail = m.next[m.tail])
  PROVE  FfInv'
PROOF
  <1>1. /\ DOMAIN r = Threads /\ DOMAIN r[t] = FfLocalFields /\ FfLocals(t) /\ FfEnqueues(t)
        /\ m.ptr \in [Records -> [{0, 1} -> FfNodes \cup {NULL}]]
    BY FfKnown
  <1>2. Moves(t) /\ pc'[t] = "e_tail"
    BY FfGoes DEF FfLabels, HpLabels
  <1>3. m'.try = m.try /\ m'.next = m.next /\ m'.ptr = m.ptr
    BY DEF FfFields, HpFields
  <1>4. FfLocals(t)' /\ FfEnqueues(t)'
    BY <1>1, <1>2, <1>3 DEF FfLocals, FfEnqueues, FfLabels
  <1>5. FfDequeues(t)' /\ FfGuard(t) /\ \A x : ~(Takes(t, x)')
    BY <1>2, FfIdle DEF FfDequeueing, DChecked
  <1>6. \A x : Brings(t, x)' => Brings(t, x)
    BY <1>2 DEF Brings
  <1>7. FfSlots(t)
    BY <1>1, <1>3 DEF FfSlots
  <1> QED
    BY <1>2, <1>4, <1>5, <1>6, <1>7, FfQuiet

\* The same for a try, which gives up.
LEMMA FfEnqueueFails ==
  ASSUME NEW t \in Threads, FfInv, kind = "hp_fifo", kind' = kind, pc[t] \in {"e_same", "e_link"},
         HpF!Again(t, "e_tail"), NEW n,
         m' = [HpF!GiveBack(t) EXCEPT !.tail = n],
         n = m.tail \/ (m.next[m.tail] # NULL /\ n = m.next[m.tail])
  PROVE  FfInv'
PROOF
  <1>1. DOMAIN m = FfFields
    BY FfKnown
  <1>2. CASE r[t].try
    <2>1. HpF!Return(t) /\ m' = [[m EXCEPT !.new = @ \cup {r[t].e}] EXCEPT !.tail = n]
      BY <1>2 DEF HpF!Again, HpF!GiveBack
    <2>2. /\ DOMAIN m' = DOMAIN m /\ m'.new = m.new \cup {r[t].e} /\ m'.tail = n
          /\ \A f \in FfFields \ {"new", "tail"} : m'[f] = m[f]
      BY <1>1, <2>1 DEF FfFields, HpFields
    <2> QED
      BY <2>1, <2>2, FfGivesBack DEF FfBringing
  <1>3. CASE ~r[t].try
    <2>1. HpF!Go(t, "e_tail") /\ r' = r /\ m' = [m EXCEPT !.tail = n]
      BY <1>3 DEF HpF!Again, HpF!GiveBack
    <2>2. DOMAIN m' = DOMAIN m /\ m'.tail = n /\ \A f \in FfFields \ {"tail"} : m'[f] = m[f]
      BY <1>1, <2>1 DEF FfFields, HpFields
    <2> QED
      BY <2>1, <2>2, FfEnqueueAgains
  <1> QED
    BY <1>2, <1>3

LEMMA FfEnqueueSame ==
  ASSUME NEW t \in Threads, FfInv, kind = "hp_fifo", kind' = kind, HpF!EnqueueSame(t)
  PROVE  FfInv'
PROOF
  <1>1. DOMAIN r = Threads /\ DOMAIN r[t] = FfLocalFields /\ FfLocals(t) /\ FfEnqueues(t) /\ DOMAIN m = FfFields
    BY FfKnown
  <1>2. pc[t] = "e_same"
    BY DEF HpF!EnqueueSame, HpF!At
  <1>3. CASE m.tail = r[t].tail /\ HpF!Go(t, "e_next") /\ m' = m /\ r' = r
    <2>1. FfSlots(t) /\ DOMAIN m' = DOMAIN m /\ \A f \in FfFields : m'[f] = m[f]
      BY <1>3, FfStill
    <2>2. Moves(t) /\ pc'[t] = "e_next"
      BY <1>2, <1>3, FfGoes DEF FfLabels, HpLabels
    <2>3. FfLocals(t)' /\ FfEnqueues(t)'
      BY <1>1, <1>2, <1>3, <2>2 DEF FfLocals, FfEnqueues, FfLabels
    <2>4. FfDequeues(t)' /\ \A x : ~(Takes(t, x)')
      BY <2>2, FfIdle DEF FfDequeueing, DChecked
    <2>5. r[t].tail \in Members(m.abs)
      BY <1>3, FfLine
    <2>6. FfGuard(t)
      BY <1>3, <2>2, <2>5 DEF FfGuard, DChecked
    <2>7. \A x : Brings(t, x)' => Brings(t, x)
      BY <1>2, <1>3, <2>2 DEF Brings
    <2> QED
      BY <1>3, <2>1, <2>2, <2>3, <2>4, <2>6, <2>7, FfQuiet
  <1>4. CASE HpF!Again(t, "e_tail") /\ m' = HpF!GiveBack(t)
    <2>1. CASE r[t].try
      <3>1. HpF!Return(t) /\ m' = [m EXCEPT !.new = @ \cup {r[t].e}]
        BY <1>4, <2>1 DEF HpF!Again, HpF!GiveBack
      <3>2. /\ DOMAIN m' = DOMAIN m /\ m'.new = m.new \cup {r[t].e} /\ m'.tail = m.tail
            /\ \A f \in FfFields \ {"new", "tail"} : m'[f] = m[f]
        BY <1>1, <3>1 DEF FfFields, HpFields
      <3> QED
        BY <1>2, <3>1, <3>2, FfGivesBack DEF FfBringing
    <2>2. CASE ~r[t].try
      <3>1. HpF!Go(t, "e_tail") /\ r' = r /\ m' = m
        BY <1>4, <2>2 DEF HpF!Again, HpF!GiveBack
      <3> QED
        BY <1>2, <3>1, FfEnqueueAgains
    <2> QED
      BY <2>1, <2>2
  <1> QED
    BY <1>3, <1>4 DEF HpF!EnqueueSame

LEMMA FfEnqueueNext ==
  ASSUME NEW t \in Threads, FfInv, kind = "hp_fifo", kind' = kind, HpF!EnqueueNext(t)
  PROVE  FfInv'
PROOF
  <1>1. /\ DOMAIN r = Threads /\ DOMAIN r[t] = FfLocalFields /\ FfLocals(t) /\ FfEnqueues(t)
        /\ m.next \in [FfNodes -> FfNodes \cup {NULL}] /\ NULL \notin FfNodes
    BY FfKnown
  <1>2. /\ pc[t] = "e_next" /\ (HpF!Go(t, "e_link") \/ HpF!Go(t, "e_again")) /\ m' = m
        /\ HpF!Put(t, [next |-> m.next[r[t].tail]])
    BY DEF HpF!EnqueueNext, HpF!At, HpF!Local
  <1>3. DOMAIN [next |-> m.next[r[t].tail]] \cap HpLocalFields = {}
    BY DEF HpLocalFields
  <1>4. FfSlots(t) /\ DOMAIN m' = DOMAIN m /\ \A f \in FfFields : m'[f] = m[f]
    BY <1>2, FfStill
  <1>5. Moves(t) /\ pc'[t] \in {"e_link", "e_again"} /\ DOMAIN r'[t] = FfLocalFields /\ r'[t].rec = r[t].rec
    <2>1. CASE HpF!Go(t, "e_link")
      BY <1>2, <1>3, <1>4, <2>1, FfGoes DEF FfLabels, HpLabels
    <2>2. CASE HpF!Go(t, "e_again")
      BY <1>2, <1>3, <1>4, <2>2, FfGoes DEF FfLabels, HpLabels
    <2> QED
      BY <1>2, <2>1, <2>2
  <1>6. /\ r'[t].tail = r[t].tail /\ r'[t].e = r[t].e /\ r'[t].head = r[t].head /\ r'[t].next = m.next[r[t].tail]
        /\ r'[t].try = r[t].try
    BY <1>1, <1>2, <1>3, FfPut DEF FfLocalFields
  <1>7. r[t].tail \in FfNodes
    BY <1>2, FfGuarded
  <1>8. FfLocals(t)' /\ FfEnqueues(t)'
    BY <1>1, <1>2, <1>5, <1>6, <1>7 DEF FfLocals, FfEnqueues, FfLabels
  <1>9. FfDequeues(t)' /\ \A x : ~(Takes(t, x)')
    BY <1>5, FfIdle DEF FfDequeueing, DChecked
  <1>10. FfGuard(t)
    BY <1>2, <1>5, <1>6 DEF FfGuard, DChecked, Guarded
  <1>11. \A x : Brings(t, x)' => Brings(t, x)
    BY <1>2, <1>5, <1>6 DEF Brings
  <1> QED
    BY <1>2, <1>4, <1>5, <1>8, <1>9, <1>10, <1>11, FfQuiet

LEMMA FfEnqueueAgain ==
  ASSUME NEW t \in Threads, FfInv, kind = "hp_fifo", kind' = kind, HpF!EnqueueAgain(t)
  PROVE  FfInv'
PROOF
  <1>1. DOMAIN r = Threads /\ DOMAIN r[t] = FfLocalFields /\ FfLocals(t) /\ FfEnqueues(t)
    BY FfKnown
  <1>2. pc[t] = "e_again" /\ (HpF!Go(t, "e_link") \/ HpF!Go(t, "e_tail")) /\ m' = m /\ r' = r
    BY DEF HpF!EnqueueAgain, HpF!At, HpF!Local
  <1>3. FfSlots(t) /\ DOMAIN m' = DOMAIN m /\ \A f \in FfFields : m'[f] = m[f]
    BY <1>2, FfStill
  <1>4. CASE HpF!Go(t, "e_tail")
    BY <1>2, <1>3, <1>4, FfEnqueueAgains
  <1>5. CASE HpF!Go(t, "e_link")
    <2>1. Moves(t) /\ pc'[t] = "e_link"
      BY <1>2, <1>3, <1>5, FfGoes DEF FfLabels, HpLabels
    <2>2. FfLocals(t)' /\ FfEnqueues(t)'
      BY <1>1, <1>2, <2>1 DEF FfLocals, FfEnqueues, FfLabels
    <2>3. FfDequeues(t)' /\ \A x : ~(Takes(t, x)')
      BY <2>1, FfIdle DEF FfDequeueing, DChecked
    <2>4. FfGuard(t)
      BY <1>2, <2>1 DEF FfGuard, DChecked, Guarded
    <2>5. \A x : Brings(t, x)' => Brings(t, x)
      BY <1>2, <2>1 DEF Brings
    <2> QED
      BY <1>2, <1>3, <2>1, <2>2, <2>3, <2>4, <2>5, FfQuiet
  <1> QED
    BY <1>2, <1>4, <1>5

LEMMA FfEnqueueForward ==
  ASSUME NEW t \in Threads, FfInv, kind = "hp_fifo", kind' = kind, HpF!EnqueueForward(t)
  PROVE  FfInv'
PROOF
  <1>1. /\ FfLocals(t) /\ FfEnqueues(t) /\ DOMAIN m = FfFields
        /\ m.ptr \in [Records -> [{0, 1} -> FfNodes \cup {NULL}]]
    BY FfKnown
  <1>2. /\ pc[t] = "e_forward" /\ HpF!Return(t)
        /\ m' = [m EXCEPT !.tail = IF m.tail = r[t].tail THEN r[t].e ELSE m.tail]
    BY DEF HpF!EnqueueForward, HpF!At
  <1>3. /\ DOMAIN m' = DOMAIN m /\ \A f \in FfFields \ {"tail"} : m'[f] = m[f]
        /\ m'.tail = IF m.tail = r[t].tail THEN r[t].e ELSE m.tail
    BY <1>1, <1>2 DEF FfFields, HpFields
  <1>4. m'.tail = m.tail \/ (m.next[m.tail] # NULL /\ m'.tail = m.next[m.tail])
    BY <1>1, <1>2, <1>3 DEF FfEnqueues
  <1>5. /\ Moves(t) /\ FfLocals(t)' /\ FfEnqueues(t)' /\ FfDequeues(t)' /\ FfGuard(t)
        /\ \A x : ~(Brings(t, x)') /\ ~(Takes(t, x)')
    BY <1>2, <1>3, FfReturn DEF FfLabels, HpLabels
  <1>6. FfSlots(t)
    BY <1>1, <1>3 DEF FfSlots, FfFields, HpFields
  <1> QED
    BY <1>3, <1>4, <1>5, <1>6, FfQuiet

LEMMA FfCount ==
  ASSUME NEW n \in Nat \ {0}, NEW l \in Nat, NEW c \in Nat, c = l + n - 1
  PROVE  /\ c + 1 = l + (n + 1) - 1 /\ l + (n + 1) - 1 = c + 1
         /\ \A i \in 1 .. n + 1 : i = n + 1 \/ i \in 1 .. n
         /\ \A i \in 1 .. n : i > 1 => l + i - 1 \in 1 .. c
PROOF
  OBVIOUS

\* The node that t brings is linked behind the tail.
LEMMA FfLinks ==
  ASSUME NEW t \in Threads, FfInv, kind = "hp_fifo", kind' = kind, pc[t] = "e_link",
         m.next[r[t].tail] = NULL, HpF!Go(t, "e_forward"), r' = r,
         m' = [m EXCEPT !.next[r[t].tail] = r[t].e, !.abs = Append(@, r[t].e), !.enq = Append(@, m.value[r[t].e])]
  PROVE  FfInv'
PROOF
  <1> DEFINE e == r[t].e
             s == m.abs
             q == m.enq
             n == Len(s)
  <1>1. /\ HpInv /\ DOMAIN r = Threads /\ DOMAIN r[t] = FfLocalFields /\ FfLocals(t) /\ FfEnqueues(t)
        /\ DOMAIN m = FfFields /\ Objects = FfNodes /\ FfType /\ FfChain /\ Distinct(s)
        /\ m.ptr \in [Records -> [{0, 1} -> FfNodes \cup {NULL}]] /\ m.tail \in FfNodes
        /\ m.next \in [FfNodes -> FfNodes \cup {NULL}] /\ m.value \in [FfNodes -> Int]
    BY FfKnown
  <1>2. /\ e \in FfNodes /\ e # NULL /\ Brings(t, e) /\ m.next[e] = NULL /\ m.tail = r[t].tail
        /\ m.ptr[r[t].rec][0] = r[t].tail /\ r[t].tail # NULL
    BY <1>1 DEF FfLocals, FfEnqueues, Brings
  <1>3. /\ s \in Seq(FfNodes) /\ s # <<>> /\ m.tail = s[n] /\ n \in Nat \ {0} /\ DOMAIN s = 1 .. n
        /\ m.tail \in Members(s) /\ e \notin Members(s) /\ Members(s) \subseteq FfNodes
    BY <1>2, FfLine
  <1>4. /\ DOMAIN m' = DOMAIN m /\ \A f \in FfFields \ {"next", "abs", "enq"} : m'[f] = m[f]
        /\ m'.next = [m.next EXCEPT ![m.tail] = e] /\ m'.abs = Append(s, e)
        /\ m'.enq = Append(q, m.value[e])
    BY <1>1, <1>2 DEF FfFields, HpFields
  <1>5. /\ m'.dead = m.dead /\ m'.pending = m.pending /\ m'.new = m.new /\ m'.ptr = m.ptr
        /\ m'.head = m.head /\ m'.tail = m.tail /\ m'.value = m.value /\ m'.left = m.left
        /\ m'.try = m.try /\ m'.reuse = m.reuse /\ m'.enqs = m.enqs /\ m'.degree = m.degree
        /\ \A f \in HpFields \ {"ptr", "pending", "dead"} : m'[f] = m[f]
    BY <1>4 DEF FfFields, HpFields
  <1>6. Moves(t) /\ pc'[t] = "e_forward"
    BY <1>4, FfGoes DEF FfLabels, HpLabels
  <1>7. m'.next \in [FfNodes -> FfNodes \cup {NULL}] /\ m'.next[m.tail] = e /\ m'.next[e] = NULL
        /\ \A x \in FfNodes \ {m.tail} : m'.next[x] = m.next[x]
    BY <1>1, <1>2, <1>3, <1>4
  <1>8. FfLocals(t)' /\ FfEnqueues(t)'
    BY <1>1, <1>2, <1>5, <1>6, <1>7 DEF FfLocals, FfEnqueues, FfLabels
  <1>9. FfDequeues(t)' /\ \A x : ~(Takes(t, x)') /\ ~(Brings(t, x)')
    BY <1>6, FfIdle DEF FfDequeueing, FfBringing, DChecked
  <1>10. FfGuard(t)
    BY <1>6 DEF FfGuard, DChecked, Guarded
  <1>11. FfSlots(t)
    BY <1>1, <1>5 DEF FfSlots
  <1>12. /\ m'.abs \in Seq(FfNodes) /\ Len(m'.abs) = n + 1 /\ DOMAIN m'.abs = 1 .. n + 1 /\ m'.abs[n + 1] = e
         /\ \A i \in DOMAIN s : m'.abs[i] = s[i]
         /\ Members(m'.abs) = {e} \cup Members(s) /\ Distinct(m'.abs)
    BY <1>1, <1>2, <1>3, <1>4, Behind
  <1>13. \A x \in Objects : (Carries(t, x) => x = e) /\ ~(Carries(t, x)')
    BY <1>9 DEF Carries, Brings, Takes
  <1>14. HpMoves(t)
    BY <1>1, <1>2, <1>5, <1>12, <1>13, HpLinks
  <1>15. /\ q \in Seq(Int) /\ m.value[e] \in Int /\ m.left \in Nat /\ Len(q) = m.left + n - 1
         /\ \A i \in DOMAIN s : i > 1 => m.value[s[i]] = q[m.left + i - 1]
         /\ m.head = s[1] /\ LinkedBy(s, m.next)
    BY <1>1, <1>2 DEF FfType, FfChain
  <1> HIDE DEF e, s, q, n
  <1>16. /\ m'.enq \in Seq(Int) /\ Len(m'.enq) = Len(q) + 1 /\ m'.enq[Len(q) + 1] = m.value[e]
         /\ DOMAIN q = 1 .. Len(q) /\ Len(q) \in Nat /\ DOMAIN m'.enq = 1 .. Len(q) + 1
         /\ \A i \in DOMAIN q : m'.enq[i] = q[i]
    <2> DEFINE v == m.value[e]
               p == m'.enq
    <2>1. q \in Seq(Int) /\ v \in Int /\ p = Append(q, v)
      BY <1>4, <1>15
    <2> HIDE DEF v, p
    <2>2. DOMAIN q = 1 .. Len(q) /\ Len(q) \in Nat
      BY ONLY <2>1
    <2>3. /\ p \in Seq(Int) /\ Len(p) = Len(q) + 1 /\ p[Len(q) + 1] = v /\ DOMAIN p = 1 .. Len(q) + 1
          /\ \A i \in DOMAIN q : p[i] = q[i]
      BY ONLY <2>1, Behind
    <2> QED
      BY ONLY <2>2, <2>3 DEF v, p
  <1>17. LinkedBy(m'.abs, m'.next)
    <2> DEFINE f == m.next
               g == m'.next
    <2>1. /\ \A y \in Members(s) \ {s[Len(s)]} : g[y] = f[y]
          /\ g[e] = NULL /\ g[s[Len(s)]] = e /\ LinkedBy(s, f)
      BY <1>3, <1>7, <1>15 DEF n
    <2> HIDE DEF f, g
    <2>2. LinkedBy(Append(s, e), g)
      BY ONLY <1>1, <1>2, <1>3, <2>1, LinkedBehind
    <2> QED
      BY <1>4, <2>2 DEF g
  <1>18. \E i \in DOMAIN m'.abs : m'.tail = m'.abs[i] /\ i >= Len(m'.abs) - 1
    <2>1. n \in DOMAIN m'.abs /\ m'.tail = m'.abs[n] /\ n >= Len(m'.abs) - 1
      BY <1>3, <1>5, <1>12
    <2> QED
      BY <2>1
  <1>19. ASSUME NEW i \in DOMAIN m'.abs, i > 1 PROVE m'.value[m'.abs[i]] = m'.enq[m'.left + i - 1]
    <2>1. CASE i = n + 1
      <3>1. m.left + i - 1 = Len(q) + 1
        BY <1>3, <1>15, <1>16, <2>1, FfCount
      <3> QED
        BY <1>5, <1>12, <1>16, <2>1, <3>1
    <2>2. CASE i # n + 1
      <3>1. i \in DOMAIN s /\ m.left + i - 1 \in DOMAIN q
        BY <1>3, <1>12, <1>15, <1>16, <1>19, <2>2, FfCount
      <3>2. m'.abs[i] = s[i] /\ m'.enq[m.left + i - 1] = q[m.left + i - 1]
        BY <1>12, <1>16, <3>1
      <3>3. m.value[s[i]] = q[m.left + i - 1]
        BY <1>15, <1>19, <3>1
      <3> QED
        BY <1>5, <3>2, <3>3
    <2> QED
      BY <2>1, <2>2
  <1>20. m'.abs # <<>> /\ m'.abs[1] = m.head /\ Len(m'.enq) = m'.left + Len(m'.abs) - 1
    <2>1. m'.abs[1] = m.head
      BY <1>3, <1>12, <1>15, SMTT(30)
    <2>2. e \in Members(m'.abs)
      BY <1>12
    <2>3. m'.abs # <<>>
      BY <2>2, Nothing
    <2>4. Len(q) + 1 = m.left + (n + 1) - 1
      BY <1>3, <1>15, <1>16, FfCount
    <2> QED
      BY <1>5, <1>12, <1>16, <2>1, <2>3, <2>4
  <1>21. FfChain'
    <2>1. LinkedBy(m.abs, m.next)'
      BY <1>17 DEF LinkedBy
    <2> QED
      BY <1>5, <1>18, <1>19, <1>20, <2>1 DEF FfChain
  <1>22. FfType'
    BY <1>1, <1>4, <1>5, <1>7, <1>16 DEF FfType
  <1>23. FfChange(t)
    <2>1. m'.head = m.head /\ \E x \in FfNodes : Brings(t, x) /\ m'.abs = Append(m.abs, x)
      BY <1>2, <1>4, <1>5 DEF s
    <2>2. \A x \in FfNodes : m'.next[x] = m.next[x] \/ (x = m.tail /\ m.next[x] = NULL)
      BY <1>2, <1>7
    <2>3. \A i \in DOMAIN m.enq : i \in DOMAIN m'.enq /\ m'.enq[i] = m.enq[i]
      BY <1>16 DEF q
    <2> QED
      BY <1>5, <1>9, <2>1, <2>2, <2>3 DEF FfChange
  <1> QED
    BY <1>5, <1>6, <1>8, <1>9, <1>10, <1>11, <1>14, <1>21, <1>22, <1>23, FfClient

LEMMA FfEnqueueLink ==
  ASSUME NEW t \in Threads, FfInv, kind = "hp_fifo", kind' = kind, HpF!EnqueueLink(t)
  PROVE  FfInv'
PROOF
  <1>1. DOMAIN m = FfFields /\ FfEnqueues(t)
    BY FfKnown
  <1>2. pc[t] = "e_link"
    BY DEF HpF!EnqueueLink, HpF!At
  <1>3. CASE /\ r[t].next # NULL /\ HpF!Again(t, "e_tail")
             /\ m' = [HpF!GiveBack(t) EXCEPT !.tail = IF @ = r[t].tail THEN r[t].next ELSE @]
    <2> DEFINE n == IF m.tail = r[t].tail THEN r[t].next ELSE m.tail
    <2>1. HpF!GiveBack(t).tail = m.tail
      BY <1>1 DEF HpF!GiveBack, FfFields
    <2>2. m' = [HpF!GiveBack(t) EXCEPT !.tail = n]
      BY <1>3, <2>1
    <2>3. n = m.tail \/ (m.next[m.tail] # NULL /\ n = m.next[m.tail])
      BY <1>1, <1>2, <1>3 DEF FfEnqueues
    <2> HIDE DEF n
    <2> QED
      BY <1>2, <1>3, <2>2, <2>3, FfEnqueueFails
  <1>4. CASE /\ m.next[r[t].tail] = NULL /\ HpF!Go(t, "e_forward") /\ r' = r
             /\ m' = [m EXCEPT !.next[r[t].tail] = r[t].e, !.abs = Append(@, r[t].e), !.enq = Append(@, m.value[r[t].e])]
    BY <1>2, <1>4, FfLinks
  <1>5. CASE m' = HpF!GiveBack(t) /\ HpF!Again(t, "e_tail")
    <2>1. CASE r[t].try
      <3>1. HpF!Return(t) /\ m' = [m EXCEPT !.new = @ \cup {r[t].e}]
        BY <1>5, <2>1 DEF HpF!Again, HpF!GiveBack
      <3>2. /\ DOMAIN m' = DOMAIN m /\ m'.new = m.new \cup {r[t].e} /\ m'.tail = m.tail
            /\ \A f \in FfFields \ {"new", "tail"} : m'[f] = m[f]
        BY <1>1, <3>1 DEF FfFields, HpFields
      <3> QED
        BY <1>2, <3>1, <3>2, FfGivesBack DEF FfBringing
    <2>2. CASE ~r[t].try
      <3>1. HpF!Go(t, "e_tail") /\ r' = r /\ m' = m
        BY <1>5, <2>2 DEF HpF!Again, HpF!GiveBack
      <3> QED
        BY <1>2, <3>1, FfEnqueueAgains
    <2> QED
      BY <2>1, <2>2
  <1> QED
    BY <1>3, <1>4, <1>5 DEF HpF!EnqueueLink

LEMMA FfEnqueueCall ==
  ASSUME NEW t \in Threads, FfInv, kind = "hp_fifo", kind' = kind, HpF!EnqueueCall(t)
  PROVE  FfInv'
PROOF
  <1>1. /\ HpInv /\ DOMAIN r = Threads /\ DOMAIN r[t] = FfLocalFields /\ FfLocals(t) /\ FfEnqueues(t)
        /\ DOMAIN m = FfFields /\ Objects = FfNodes /\ FfType /\ FfChain /\ NULL \notin FfNodes
        /\ m.ptr \in [Records -> [{0, 1} -> FfNodes \cup {NULL}]]
        /\ m.next \in [FfNodes -> FfNodes \cup {NULL}] /\ m.value \in [FfNodes -> Int]
    BY FfKnown
  <1>2. PICK x \in HpF!Spare, b \in HpF!Tries :
          /\ HpF!Put(t, [e |-> x, try |-> b])
          /\ m' = [m EXCEPT !.new = @ \ {x}, !.dead = @ \ {x}, !.enqs = @ + 1,
                            !.value[x] = m.enqs + 1, !.next[x] = NULL]
    BY DEF HpF!EnqueueCall
  <1>3. pc[t] = "idle" /\ HpF!Go(t, "e_tail")
    BY DEF HpF!EnqueueCall, HpF!Step, HpF!At
  <1>4. x \in FfNodes /\ x # NULL /\ x \in m.new \cup m.dead /\ (x \in m.new \/ (x \in m.dead /\ m.reuse))
    <2>1. x \in m.new \/ (x \in m.dead /\ m.reuse)
      BY <1>2 DEF HpF!Spare
    <2> QED
      BY <1>1, <2>1 DEF HpInv, HpType, HpPlaces
  <1>5. b \in BOOLEAN /\ (b => m.try)
    BY <1>1 DEF HpF!Tries, FfType
  <1>6. /\ DOMAIN m' = DOMAIN m /\ \A f \in FfFields \ {"new", "dead", "enqs", "value", "next"} : m'[f] = m[f]
        /\ m'.new = m.new \ {x} /\ m'.dead = m.dead \ {x} /\ m'.enqs = m.enqs + 1
        /\ m'.value = [m.value EXCEPT ![x] = m.enqs + 1] /\ m'.next = [m.next EXCEPT ![x] = NULL]
    BY <1>1, <1>2 DEF FfFields, HpFields
  <1>7. DOMAIN [e |-> x, try |-> b] \cap HpLocalFields = {}
    BY DEF HpLocalFields
  <1>8. Moves(t) /\ pc'[t] = "e_tail" /\ DOMAIN r'[t] = FfLocalFields
    BY <1>2, <1>3, <1>6, <1>7, FfGoes DEF FfLabels, HpLabels
  <1>9. /\ r'[t].tail = r[t].tail /\ r'[t].e = x /\ r'[t].head = r[t].head /\ r'[t].next = r[t].next
        /\ r'[t].try = b
    BY <1>1, <1>2, <1>7, FfPut DEF FfLocalFields
  <1>10. /\ m'.abs = m.abs /\ m'.pending = m.pending /\ m'.ptr = m.ptr
         /\ m'.head = m.head /\ m'.tail = m.tail /\ m'.left = m.left /\ m'.enq = m.enq
         /\ m'.try = m.try /\ m'.reuse = m.reuse /\ m'.degree = m.degree
         /\ \A f \in HpFields \ {"ptr", "pending", "dead"} : m'[f] = m[f]
    BY <1>6 DEF FfFields, HpFields
  <1>11. /\ m'.next \in [FfNodes -> FfNodes \cup {NULL}] /\ m'.value \in [FfNodes -> Int] /\ m'.next[x] = NULL
         /\ \A y \in FfNodes \ {x} : m'.next[y] = m.next[y] /\ m'.value[y] = m.value[y]
    BY <1>1, <1>4, <1>6 DEF FfType
  <1>12. FfLocals(t)' /\ FfEnqueues(t)'
    BY <1>1, <1>4, <1>5, <1>8, <1>9, <1>10, <1>11 DEF FfLocals, FfEnqueues, FfLabels
  <1>13. FfDequeues(t)' /\ FfGuard(t) /\ \A y : ~(Takes(t, y)')
    BY <1>8, FfIdle DEF FfDequeueing, DChecked
  <1>14. \A y \in Objects : ~Carries(t, y) /\ (Brings(t, y)' => y = x) /\ ~(Takes(t, y)')
    BY <1>3, <1>8, <1>9, <1>13 DEF Carries, Brings, Takes
  <1>15. HpMoves(t)
    BY <1>1, <1>4, <1>6, <1>10, <1>14, HpFetches
  <1>16. \A y \in Members(m.abs) : y \in FfNodes /\ y # x
    BY <1>4, FfLine
  <1>17. FfChain'
    BY <1>10, <1>11, <1>16, FfChainSame
  <1>18. FfType'
    BY <1>1, <1>6, <1>10, <1>11 DEF FfType
  <1>19. FfSlots(t)
    BY <1>1, <1>10 DEF FfSlots
  <1>20. FfChange(t)
    BY <1>1, <1>4, <1>6, <1>10, <1>11, <1>14 DEF FfChange
  <1> QED
    BY <1>8, <1>10, <1>12, <1>13, <1>15, <1>17, <1>18, <1>19, <1>20, FfClient

LEMMA FfDequeueCall ==
  ASSUME NEW t \in Threads, FfInv, kind = "hp_fifo", kind' = kind, HpF!DequeueCall(t)
  PROVE  FfInv'
PROOF
  <1>1. /\ DOMAIN r = Threads /\ DOMAIN r[t] = FfLocalFields /\ FfLocals(t) /\ DOMAIN m = FfFields /\ FfType
        /\ m.ptr \in [Records -> [{0, 1} -> FfNodes \cup {NULL}]]
    BY FfKnown
  <1>2. PICK b \in HpF!Tries : HpF!Put(t, [try |-> b])
    BY DEF HpF!DequeueCall
  <1>3. pc[t] = "idle" /\ HpF!Go(t, "d_head") /\ m' = [m EXCEPT !.deqs = @ + 1]
    BY DEF HpF!DequeueCall, HpF!Step, HpF!At
  <1>4. b \in BOOLEAN /\ (b => m.try)
    BY <1>1 DEF HpF!Tries, FfType
  <1>5. DOMAIN [try |-> b] \cap HpLocalFields = {}
    BY DEF HpLocalFields
  <1>6. DOMAIN m' = DOMAIN m /\ \A f \in FfFields \ {"deqs"} : m'[f] = m[f]
    BY <1>1, <1>3
  <1>7. Moves(t) /\ pc'[t] = "d_head" /\ DOMAIN r'[t] = FfLocalFields
    BY <1>2, <1>3, <1>5, <1>6, FfGoes DEF FfLabels, HpLabels
  <1>8. /\ r'[t].tail = r[t].tail /\ r'[t].e = r[t].e /\ r'[t].head = r[t].head /\ r'[t].next = r[t].next
        /\ r'[t].try = b
    BY <1>1, <1>2, <1>5, FfPut DEF FfLocalFields
  <1>9. m'.try = m.try /\ m'.ptr = m.ptr /\ m'.tail = m.tail
    BY <1>6 DEF FfFields, HpFields
  <1>10. FfLocals(t)'
    BY <1>1, <1>4, <1>7, <1>8, <1>9 DEF FfLocals, FfLabels
  <1>11. FfEnqueues(t)' /\ FfDequeues(t)' /\ FfGuard(t) /\ \A x : ~(Takes(t, x)') /\ ~(Brings(t, x)')
    BY <1>7, FfIdle DEF FfEnqueueing, FfDequeueing, FfBringing, DChecked
  <1>12. FfSlots(t)
    BY <1>1, <1>9 DEF FfSlots
  <1> QED
    BY <1>6, <1>7, <1>9, <1>10, <1>11, <1>12, FfQuiet

\* A step of a dequeue that stores in local variables only.
LEMMA FfDequeueLocal ==
  ASSUME NEW t \in Threads, FfInv, kind = "hp_fifo", Moves(t), FfGuard(t), m' = m,
         pc'[t] \notin FfEnqueueing, \A x : Takes(t, x)' => Takes(t, x),
         FfLocals(t)', FfDequeues(t)'
  PROVE  FfInv'
PROOF
  <1>1. pc'[t] \notin FfBringing
    BY DEF FfEnqueueing, FfBringing, FfLocals, FfLabels, HpLabels
  <1>2. FfEnqueues(t)' /\ \A x : ~(Brings(t, x)')
    BY <1>1, FfIdle
  <1>3. FfSlots(t) /\ DOMAIN m' = DOMAIN m /\ \A f \in FfFields : m'[f] = m[f]
    BY FfStill
  <1> QED
    BY <1>2, <1>3, FfQuiet

LEMMA FfDequeueHead ==
  ASSUME NEW t \in Threads, FfInv, kind = "hp_fifo", kind' = kind, HpF!DequeueHead(t)
  PROVE  FfInv'
PROOF
  <1>1. /\ DOMAIN r = Threads /\ DOMAIN r[t] = FfLocalFields /\ FfLocals(t) /\ m.head \in FfNodes /\ NULL \notin FfNodes
    BY FfKnown
  <1>2. /\ pc[t] = "d_head" /\ m' = m /\ HpF!Put(t, [head |-> m.head])
        /\ (HpF!Go(t, "d_tail") /\ r[t].try) \/ (HpF!Go(t, "d_set") /\ ~r[t].try)
    BY DEF HpF!DequeueHead, HpF!At, HpF!Local
  <1>3. DOMAIN [head |-> m.head] \cap HpLocalFields = {}
    BY DEF HpLocalFields
  <1>4. /\ Moves(t) /\ DOMAIN r'[t] = FfLocalFields
        /\ (pc'[t] = "d_tail" /\ r[t].try) \/ (pc'[t] = "d_set" /\ ~r[t].try)
    <2>1. CASE HpF!Go(t, "d_tail") /\ r[t].try
      BY <1>2, <1>3, <2>1, FfGoes DEF FfLabels, HpLabels
    <2>2. CASE HpF!Go(t, "d_set") /\ ~r[t].try
      BY <1>2, <1>3, <2>2, FfGoes DEF FfLabels, HpLabels
    <2> QED
      BY <1>2, <2>1, <2>2
  <1>5. /\ r'[t].tail = r[t].tail /\ r'[t].e = r[t].e /\ r'[t].head = m.head /\ r'[t].next = r[t].next
        /\ r'[t].try = r[t].try
    BY <1>1, <1>2, <1>3, FfPut DEF FfLocalFields
  <1>6. FfLocals(t)'
    BY <1>1, <1>2, <1>4, <1>5 DEF FfLocals, FfLabels
  <1>7. FfSet(t)'
    BY <1>2, <1>4, <1>5, FfStaysSet DEF FfBringing
  <1>8. FfDequeues(t)'
    BY <1>1, <1>4, <1>5, <1>7 DEF FfDequeues, FfSet, DChecked
  <1>9. FfGuard(t)
    BY <1>4, <1>5 DEF FfGuard, DChecked
  <1>10. \A x : ~(Takes(t, x)')
    BY <1>4 DEF Takes
  <1>11. pc'[t] \notin FfEnqueueing
    BY <1>4 DEF FfEnqueueing
  <1> QED
    BY <1>2, <1>4, <1>6, <1>8, <1>9, <1>10, <1>11, FfDequeueLocal

LEMMA FfDequeueSet ==
  ASSUME NEW t \in Threads, FfInv, kind = "hp_fifo", kind' = kind, HpF!DequeueSet(t)
  PROVE  FfInv'
PROOF
  <1>1. DOMAIN r = Threads /\ DOMAIN r[t] = FfLocalFields /\ FfLocals(t) /\ FfDequeues(t) /\ DOMAIN m = FfFields
    BY FfKnown
  <1>2. pc[t] = "d_set" /\ HpF!Go(t, "d_same") /\ HpF!Publish(t, 0, r[t].head) /\ r' = r
    BY DEF HpF!DequeueSet, HpF!Step, HpF!At
  <1>3. r[t].head \in FfNodes \cup {NULL} /\ pc[t] \in FfLabels \ HpLabels
    BY <1>1, <1>2 DEF FfLocals, FfLabels, HpLabels
  <1>4. /\ DOMAIN m' = DOMAIN m /\ \A f \in FfFields \ {"ptr"} : m'[f] = m[f]
        /\ FfSlots(t) /\ m'.ptr[r[t].rec][0] = r[t].head
    BY <1>2, <1>3, FfPublish
  <1>5. Moves(t) /\ pc'[t] = "d_same"
    BY <1>2, <1>4, FfGoes DEF FfLabels, HpLabels
  <1>6. m'.try = m.try /\ m'.next = m.next /\ m'.tail = m.tail /\ m'.head = m.head /\ m'.new = m.new /\ m'.abs = m.abs
    BY <1>4 DEF FfFields
  <1>7. FfLocals(t)'
    BY <1>1, <1>2, <1>4, <1>5, <1>6 DEF FfLocals, FfLabels
  <1>8. r[t].try => FfSet(t)'
    BY <1>2, <1>5, <1>6, FfStaysSet DEF FfBringing, Settled
  <1>9. FfDequeues(t)'
    BY <1>1, <1>2, <1>4, <1>5, <1>6, <1>8 DEF FfDequeues, FfSet, DChecked, Settled
  <1>10. FfEnqueues(t)' /\ FfGuard(t) /\ \A x : ~(Takes(t, x)') /\ ~(Brings(t, x)')
    BY <1>5, FfIdle DEF FfEnqueueing, FfBringing, DChecked
  <1> QED
    BY <1>4, <1>5, <1>6, <1>7, <1>9, <1>10, FfQuiet

\* A dequeue starts again, or a try returns.
LEMMA FfDequeueAgains ==
  ASSUME NEW t \in Threads, FfInv, kind = "hp_fifo", kind' = kind, pc[t] \in DChecked \cup {"d_same"},
         HpF!Again(t, "d_head"), DOMAIN m' = DOMAIN m,
         \A f \in FfFields \ {"tail"} : m'[f] = m[f],
         m'.tail = m.tail \/ (m.next[m.tail] # NULL /\ m'.tail = m.next[m.tail])
  PROVE  FfInv'
PROOF
  <1>1. /\ FfLocals(t) /\ m.ptr \in [Records -> [{0, 1} -> FfNodes \cup {NULL}]]
        /\ DOMAIN r = Threads /\ DOMAIN r[t] = FfLocalFields
    BY FfKnown
  <1>2. pc[t] \in FfLabels \ HpLabels
    BY DEF FfLabels, HpLabels, DChecked
  <1>3. m'.try = m.try /\ m'.ptr = m.ptr
    BY DEF FfFields, HpFields
  <1>4. FfSlots(t)
    BY <1>1, <1>3 DEF FfSlots
  <1>5. CASE HpF!Return(t)
    <2>1. /\ Moves(t) /\ FfLocals(t)' /\ FfEnqueues(t)' /\ FfDequeues(t)' /\ FfGuard(t)
          /\ \A x : ~(Brings(t, x)') /\ ~(Takes(t, x)')
      BY <1>2, <1>5, FfReturn
    <2> QED
      BY <1>4, <2>1, FfQuiet
  <1>6. CASE HpF!Go(t, "d_head") /\ r' = r
    <2>1. Moves(t) /\ pc'[t] = "d_head"
      BY <1>2, <1>6, FfGoes DEF FfLabels, HpLabels
    <2>2. FfEnqueues(t)' /\ FfDequeues(t)' /\ FfGuard(t) /\ \A x : ~(Takes(t, x)') /\ ~(Brings(t, x)')
      BY <2>1, FfIdle DEF FfEnqueueing, FfDequeueing, FfBringing, DChecked
    <2>3. FfLocals(t)'
      BY <1>1, <1>3, <1>6, <2>1 DEF FfLocals, FfLabels
    <2> QED
      BY <1>4, <2>1, <2>2, <2>3, FfQuiet
  <1> QED
    BY <1>5, <1>6 DEF HpF!Again

LEMMA FfDequeueSame ==
  ASSUME NEW t \in Threads, FfInv, kind = "hp_fifo", kind' = kind, HpF!DequeueSame(t)
  PROVE  FfInv'
PROOF
  <1>1. DOMAIN r = Threads /\ DOMAIN r[t] = FfLocalFields /\ FfLocals(t) /\ FfDequeues(t)
    BY FfKnown
  <1>2. pc[t] = "d_same" /\ m' = m
    BY DEF HpF!DequeueSame, HpF!At, HpF!Local
  <1>3. CASE HpF!Again(t, "d_head")
    BY <1>2, <1>3, FfDequeueAgains
  <1>4. CASE /\ m.head = r[t].head /\ r' = r
             /\ (HpF!Go(t, "d_next") /\ r[t].try) \/ (HpF!Go(t, "d_tail") /\ ~r[t].try)
    <2>1. Moves(t) /\ ((pc'[t] = "d_next" /\ r[t].try) \/ (pc'[t] = "d_tail" /\ ~r[t].try))
      <3>1. CASE HpF!Go(t, "d_next") /\ r[t].try
        BY <1>2, <1>4, <3>1, FfGoes DEF FfLabels, HpLabels
      <3>2. CASE HpF!Go(t, "d_tail") /\ ~r[t].try
        BY <1>2, <1>4, <3>2, FfGoes DEF FfLabels, HpLabels
      <3> QED
        BY <1>4, <3>1, <3>2
    <2>2. FfLocals(t)'
      BY <1>1, <1>2, <1>4, <2>1 DEF FfLocals, FfLabels
    <2>3. FfSet(t)'
      BY <1>2, <1>4, <2>1, FfStaysSet DEF FfBringing
    <2>4. FfDequeues(t)'
      BY <1>1, <1>2, <1>4, <2>1, <2>3 DEF FfDequeues, FfSet, DChecked
    <2>5. r[t].head \in Members(m.abs)
      BY <1>4, FfLine
    <2>6. FfGuard(t)
      BY <1>4, <2>1, <2>5 DEF FfGuard, DChecked
    <2>7. (\A x : ~(Takes(t, x)')) /\ pc'[t] \notin FfEnqueueing
      BY <2>1 DEF Takes, FfEnqueueing
    <2> QED
      BY <1>2, <2>1, <2>2, <2>4, <2>6, <2>7, FfDequeueLocal
  <1> QED
    BY <1>3, <1>4 DEF HpF!DequeueSame

LEMMA FfDequeueTail ==
  ASSUME NEW t \in Threads, FfInv, kind = "hp_fifo", kind' = kind, HpF!DequeueTail(t)
  PROVE  FfInv'
PROOF
  <1>1. /\ DOMAIN r = Threads /\ DOMAIN r[t] = FfLocalFields /\ FfLocals(t) /\ FfDequeues(t)
        /\ m.tail \in FfNodes /\ NULL \notin FfNodes
    BY FfKnown
  <1>2. /\ pc[t] = "d_tail" /\ m' = m /\ HpF!Put(t, [tail |-> m.tail])
        /\ (HpF!Go(t, "d_set") /\ r[t].try) \/ (HpF!Go(t, "d_next") /\ ~r[t].try)
    BY DEF HpF!DequeueTail, HpF!At, HpF!Local
  <1>3. DOMAIN [tail |-> m.tail] \cap HpLocalFields = {}
    BY DEF HpLocalFields
  <1>4. /\ Moves(t) /\ DOMAIN r'[t] = FfLocalFields /\ r'[t].rec = r[t].rec
        /\ (pc'[t] = "d_set" /\ r[t].try) \/ (pc'[t] = "d_next" /\ ~r[t].try)
    <2>1. CASE HpF!Go(t, "d_set") /\ r[t].try
      BY <1>2, <1>3, <2>1, FfGoes DEF FfLabels, HpLabels
    <2>2. CASE HpF!Go(t, "d_next") /\ ~r[t].try
      BY <1>2, <1>3, <2>2, FfGoes DEF FfLabels, HpLabels
    <2> QED
      BY <1>2, <2>1, <2>2
  <1>5. /\ r'[t].tail = m.tail /\ r'[t].e = r[t].e /\ r'[t].head = r[t].head /\ r'[t].next = r[t].next
        /\ r'[t].try = r[t].try
    BY <1>1, <1>2, <1>3, FfPut DEF FfLocalFields
  <1>6. FfLocals(t)'
    BY <1>1, <1>2, <1>4, <1>5 DEF FfLocals, FfLabels
  <1>7. FfSet(t)'
    BY <1>2, <1>4, <1>5, FfStaysSet DEF FfBringing, Settled
  <1>8. FfDequeues(t)'
    BY <1>1, <1>2, <1>4, <1>5, <1>7 DEF FfDequeues, FfSet, DChecked
  <1>9. FfGuard(t)
    BY <1>2, <1>4, <1>5 DEF FfGuard, DChecked, Guarded
  <1>10. (\A x : ~(Takes(t, x)')) /\ pc'[t] \notin FfEnqueueing
    BY <1>4 DEF Takes, FfEnqueueing
  <1> QED
    BY <1>2, <1>4, <1>6, <1>8, <1>9, <1>10, FfDequeueLocal

LEMMA FfDequeueNext ==
  ASSUME NEW t \in Threads, FfInv, kind = "hp_fifo", kind' = kind, HpF!DequeueNext(t)
  PROVE  FfInv'
PROOF
  <1>1. /\ DOMAIN r = Threads /\ DOMAIN r[t] = FfLocalFields /\ FfLocals(t) /\ FfDequeues(t)
        /\ m.next \in [FfNodes -> FfNodes \cup {NULL}] /\ NULL \notin FfNodes
    BY FfKnown
  <1>2. /\ pc[t] = "d_next" /\ m' = m /\ HpF!Put(t, [next |-> m.next[r[t].head]])
        /\ HpF!Go(t, "d_set1")
    BY DEF HpF!DequeueNext, HpF!Step, HpF!At, HpF!Local
  <1>3. DOMAIN [next |-> m.next[r[t].head]] \cap HpLocalFields = {}
    BY DEF HpLocalFields
  <1>4. Moves(t) /\ DOMAIN r'[t] = FfLocalFields /\ r'[t].rec = r[t].rec /\ pc'[t] = "d_set1"
    BY <1>2, <1>3, FfGoes DEF FfLabels, HpLabels
  <1>5. /\ r'[t].tail = r[t].tail /\ r'[t].e = r[t].e /\ r'[t].head = r[t].head /\ r'[t].next = m.next[r[t].head]
        /\ r'[t].try = r[t].try
    BY <1>1, <1>2, <1>3, FfPut DEF FfLocalFields
  <1>6. r[t].head \in FfNodes
    BY <1>2, FfGuarded DEF DChecked
  <1>7. FfLocals(t)'
    BY <1>1, <1>2, <1>4, <1>5, <1>6 DEF FfLocals, FfLabels
  <1>8. FfSet(t)'
    BY <1>2, <1>4, <1>5, FfStaysSet DEF FfBringing, Settled, DChecked
  <1>9. (m.head = r[t].head /\ r[t].head # r[t].tail) => m.next[r[t].head] # NULL
    BY <1>1, <1>2, FfLine DEF FfDequeues, DChecked
  <1>10. FfDequeues(t)'
    BY <1>1, <1>2, <1>4, <1>5, <1>8, <1>9 DEF FfDequeues, FfSet, DChecked
  <1>11. FfGuard(t)
    BY <1>2, <1>4, <1>5 DEF FfGuard, DChecked, Guarded
  <1>12. (\A x : ~(Takes(t, x)')) /\ pc'[t] \notin FfEnqueueing
    BY <1>4 DEF Takes, FfEnqueueing
  <1> QED
    BY <1>2, <1>4, <1>7, <1>10, <1>11, <1>12, FfDequeueLocal

LEMMA FfDequeueSetNext ==
  ASSUME NEW t \in Threads, FfInv, kind = "hp_fifo", kind' = kind, HpF!DequeueSetNext(t)
  PROVE  FfInv'
PROOF
  <1>1. DOMAIN r = Threads /\ DOMAIN r[t] = FfLocalFields /\ FfLocals(t) /\ FfDequeues(t) /\ DOMAIN m = FfFields
    BY FfKnown
  <1>2. pc[t] = "d_set1" /\ HpF!Go(t, "d_again") /\ HpF!Publish(t, 1, r[t].next) /\ r' = r
    BY DEF HpF!DequeueSetNext, HpF!Step, HpF!At
  <1>3. r[t].next \in FfNodes \cup {NULL} /\ pc[t] \in FfLabels \ HpLabels
    BY <1>1, <1>2 DEF FfLocals, FfLabels, HpLabels
  <1>4. /\ DOMAIN m' = DOMAIN m /\ \A f \in FfFields \ {"ptr"} : m'[f] = m[f]
        /\ FfSlots(t) /\ m'.ptr[r[t].rec][1] = r[t].next
        /\ m'.ptr[r[t].rec][0] = m.ptr[r[t].rec][0]
    BY <1>2, <1>3, FfPublish
  <1>5. Moves(t) /\ pc'[t] = "d_again"
    BY <1>2, <1>4, FfGoes DEF FfLabels, HpLabels
  <1>6. m'.try = m.try /\ m'.next = m.next /\ m'.tail = m.tail /\ m'.head = m.head /\ m'.new = m.new /\ m'.abs = m.abs
    BY <1>4 DEF FfFields
  <1>7. FfLocals(t)'
    BY <1>1, <1>2, <1>4, <1>5, <1>6 DEF FfLocals, FfLabels
  <1>8. FfSet(t)'
    BY <1>2, <1>5, <1>6, FfStaysSet DEF FfBringing, Settled, DChecked
  <1>9. FfDequeues(t)'
    BY <1>1, <1>2, <1>4, <1>5, <1>6, <1>8 DEF FfDequeues, FfSet, DChecked
  <1>10. FfEnqueues(t)' /\ \A x : ~(Takes(t, x)') /\ ~(Brings(t, x)')
    BY <1>5, FfIdle DEF FfEnqueueing, FfBringing
  <1>11. FfGuard(t)
    BY <1>2, <1>5 DEF FfGuard, DChecked, Guarded
  <1> QED
    BY <1>4, <1>5, <1>6, <1>7, <1>9, <1>10, <1>11, FfQuiet

LEMMA FfDequeueEmpty ==
  ASSUME NEW t \in Threads, FfInv, kind = "hp_fifo", kind' = kind, HpF!DequeueEmpty(t)
  PROVE  FfInv'
PROOF
  <1>1. /\ DOMAIN m = FfFields /\ m.ptr \in [Records -> [{0, 1} -> FfNodes \cup {NULL}]] /\ m.degree = 2
    BY FfKnown
  <1>2. pc[t] = "d_again" /\ HpF!Return(t) /\ (m' = m \/ m' = [m EXCEPT !.ptr[r[t].rec] = HpF!Empty(m.degree)])
    BY DEF HpF!DequeueEmpty, HpF!At, HpF!Local, HpF!Mine
  <1>3. DOMAIN m' = DOMAIN m /\ FfSlots(t) /\ \A f \in FfFields \ {"ptr"} : m'[f] = m[f]
    <2>1. CASE m' = m
      BY <2>1, FfStill
    <2>2. CASE m' = [m EXCEPT !.ptr[r[t].rec] = HpF!Empty(m.degree)]
      <3>1. DOMAIN m' = DOMAIN m /\ m'.ptr = [m.ptr EXCEPT ![r[t].rec] = HpF!Empty(m.degree)]
            /\ \A f \in FfFields \ {"ptr"} : m'[f] = m[f]
        BY <1>1, <2>2 DEF FfFields, HpFields
      <3>2. HpF!Empty(m.degree) \in [{0, 1} -> FfNodes \cup {NULL}]
        <4>1. 0 .. m.degree - 1 = {0, 1}
          BY <1>1
        <4> QED
          BY <4>1 DEF HpF!Empty
      <3> QED
        BY <1>1, <3>1, <3>2 DEF FfSlots
    <2> QED
      BY <1>2, <2>1, <2>2
  <1>4. /\ Moves(t) /\ FfLocals(t)' /\ FfEnqueues(t)' /\ FfDequeues(t)' /\ FfGuard(t)
        /\ \A x : ~(Brings(t, x)') /\ ~(Takes(t, x)')
    BY <1>2, <1>3, FfReturn DEF FfLabels, HpLabels
  <1>5. m'.tail = m.tail
    BY <1>3 DEF FfFields
  <1> QED
    BY <1>3, <1>4, <1>5, FfQuiet

LEMMA FfDequeueAgain ==
  ASSUME NEW t \in Threads, FfInv, kind = "hp_fifo", kind' = kind, HpF!DequeueAgain(t)
  PROVE  FfInv'
PROOF
  <1>1. DOMAIN r = Threads /\ DOMAIN r[t] = FfLocalFields /\ FfLocals(t) /\ FfDequeues(t)
    BY FfKnown
  <1>2. pc[t] = "d_again" /\ m' = m
    BY DEF HpF!DequeueAgain, HpF!At, HpF!Local
  <1>3. CASE HpF!Again(t, "d_head")
    BY <1>2, <1>3, FfDequeueAgains DEF DChecked
  <1>4. CASE /\ m.head = r[t].head /\ r' = r /\ (r[t].next # NULL \/ r[t].head # r[t].tail)
             /\ (HpF!Go(t, "d_forward") /\ r[t].head = r[t].tail) \/ (HpF!Go(t, "d_commit") /\ r[t].head # r[t].tail)
    <2>1. Moves(t) /\ ((pc'[t] = "d_forward" /\ r[t].head = r[t].tail) \/ (pc'[t] = "d_commit" /\ r[t].head # r[t].tail))
      <3>1. CASE HpF!Go(t, "d_forward") /\ r[t].head = r[t].tail
        BY <1>2, <1>4, <3>1, FfGoes DEF FfLabels, HpLabels
      <3>2. CASE HpF!Go(t, "d_commit") /\ r[t].head # r[t].tail
        BY <1>2, <1>4, <3>2, FfGoes DEF FfLabels, HpLabels
      <3> QED
        BY <1>4, <3>1, <3>2
    <2>2. FfLocals(t)'
      BY <1>1, <1>2, <1>4, <2>1 DEF FfLocals, FfLabels
    <2>3. FfSet(t)'
      BY <1>2, <1>4, <2>1, FfStaysSet DEF FfBringing
    <2>4. r[t].next # NULL /\ m.next[m.head] = r[t].next
      BY <1>1, <1>2, <1>4 DEF FfDequeues
    <2>5. r[t].next \in Members(m.abs)
      BY <2>4, FfLine
    <2>6. FfDequeues(t)'
      BY <1>1, <1>2, <1>4, <2>1, <2>3, <2>4 DEF FfDequeues, FfSet, DChecked
    <2>7. FfGuard(t)
      BY <1>2, <1>4, <2>1, <2>5 DEF FfGuard, DChecked, Guarded
    <2>8. (\A x : ~(Takes(t, x)')) /\ pc'[t] \notin FfEnqueueing
      BY <2>1 DEF Takes, FfEnqueueing
    <2> QED
      BY <1>2, <2>1, <2>2, <2>6, <2>7, <2>8, FfDequeueLocal
  <1> QED
    BY <1>3, <1>4 DEF HpF!DequeueAgain

LEMMA FfDequeueForward ==
  ASSUME NEW t \in Threads, FfInv, kind = "hp_fifo", kind' = kind, HpF!DequeueForward(t)
  PROVE  FfInv'
PROOF
  <1>1. FfDequeues(t) /\ DOMAIN m = FfFields
    BY FfKnown
  <1>2. /\ pc[t] = "d_forward" /\ HpF!Again(t, "d_head")
        /\ m' = [m EXCEPT !.tail = IF m.tail = r[t].tail THEN r[t].next ELSE m.tail]
    BY DEF HpF!DequeueForward, HpF!At
  <1>3. /\ DOMAIN m' = DOMAIN m /\ \A f \in FfFields \ {"tail"} : m'[f] = m[f]
        /\ m'.tail = IF m.tail = r[t].tail THEN r[t].next ELSE m.tail
    BY <1>1, <1>2 DEF FfFields, HpFields
  <1>4. m'.tail = m.tail \/ (m.next[m.tail] # NULL /\ m'.tail = m.next[m.tail])
    BY <1>1, <1>2, <1>3 DEF FfDequeues
  <1> QED
    BY <1>2, <1>3, <1>4, FfDequeueAgains DEF DChecked

LEMMA FfDequeueValue ==
  ASSUME NEW t \in Threads, FfInv, kind = "hp_fifo", kind' = kind, HpF!DequeueValue(t)
  PROVE  FfInv'
PROOF
  <1>1. DOMAIN r = Threads /\ DOMAIN r[t] = FfLocalFields /\ FfLocals(t) /\ FfDequeues(t)
    BY FfKnown
  <1>2. pc[t] = "d_value" /\ m' = m /\ HpF!Put(t, [v |-> m.value[r[t].next]]) /\ HpF!Go(t, "d_free")
    BY DEF HpF!DequeueValue, HpF!Step, HpF!At, HpF!Local
  <1>3. DOMAIN [v |-> m.value[r[t].next]] \cap HpLocalFields = {}
    BY DEF HpLocalFields
  <1>4. Moves(t) /\ DOMAIN r'[t] = FfLocalFields /\ pc'[t] = "d_free"
    BY <1>2, <1>3, FfGoes DEF FfLabels, HpLabels
  <1>5. /\ r'[t].tail = r[t].tail /\ r'[t].e = r[t].e /\ r'[t].head = r[t].head /\ r'[t].next = r[t].next
        /\ r'[t].try = r[t].try /\ r'[t].v = m.value[r[t].next] /\ r'[t].nth = r[t].nth
    BY <1>1, <1>2, <1>3, FfPut DEF FfLocalFields
  <1>6. FfLocals(t)'
    BY <1>1, <1>2, <1>4, <1>5 DEF FfLocals, FfLabels
  <1>7. FfDequeues(t)'
    BY <1>1, <1>2, <1>4, <1>5 DEF FfDequeues, DChecked, Settled
  <1>8. FfGuard(t) /\ pc'[t] \notin FfEnqueueing
    BY <1>4 DEF FfGuard, DChecked, FfEnqueueing
  <1>9. \A x : Takes(t, x)' => Takes(t, x)
    BY <1>2, <1>4, <1>5 DEF Takes
  <1> QED
    BY <1>2, <1>4, <1>6, <1>7, <1>8, <1>9, FfDequeueLocal

LEMMA FfDequeueFree ==
  ASSUME NEW t \in Threads, FfInv, kind = "hp_fifo", kind' = kind, HpF!DequeueFree(t)
  PROVE  FfInv'
PROOF
  <1>1. /\ HpInv /\ DOMAIN r = Threads /\ DOMAIN r[t] = FfLocalFields /\ FfLocals(t) /\ FfDequeues(t) /\ DOMAIN m = FfFields
        /\ Objects = FfNodes /\ FfType
        /\ m.ptr \in [Records -> [{0, 1} -> FfNodes \cup {NULL}]]
    BY FfKnown
  <1>2. /\ pc[t] = "d_free" /\ HpF!Put(t, HpF!Scratch) /\ (HpF!Go(t, "reclaim") \/ HpF!Go(t, "idle"))
        /\ m' = [m EXCEPT !.pending[r[t].rec] = <<r[t].head>> \o @]
    BY DEF HpF!DequeueFree, HpF!At, HpF!AfterFree, HpF!Retire, HpF!Mine
  <1>3. r[t].rec \in Records /\ r[t].head \in FfNodes
    BY <1>1, <1>2, FfKnown DEF FfLocals, FfDequeues
  <1>4. /\ DOMAIN m' = DOMAIN m /\ \A f \in FfFields \ {"pending"} : m'[f] = m[f]
        /\ m'.pending = [m.pending EXCEPT ![r[t].rec] = <<r[t].head>> \o @]
    BY <1>1, <1>2 DEF FfFields, HpFields
  <1>5. DOMAIN HpF!Scratch \cap HpLocalFields = {}
    BY DEF HpF!Scratch, HpLocalFields
  <1>6. Moves(t) /\ pc'[t] \in {"reclaim", "idle"} /\ DOMAIN r'[t] = FfLocalFields
    <2>1. CASE HpF!Go(t, "reclaim")
      BY <1>2, <1>4, <1>5, <2>1, FfGoes DEF FfLabels, HpLabels
    <2>2. CASE HpF!Go(t, "idle")
      BY <1>2, <1>4, <1>5, <2>2, FfGoes DEF FfLabels, HpLabels
    <2> QED
      BY <1>2, <2>1, <2>2
  <1>7. r'[t].e = NULL /\ r'[t].head = NULL /\ r'[t].tail = NULL /\ r'[t].next = NULL /\ r'[t].try = FALSE
    BY <1>1, <1>2, <1>5, FfPut DEF HpF!Scratch, FfLocalFields
  <1>8. FfLocals(t)'
    BY <1>6, <1>7 DEF FfLocals, FfLabels, HpLabels
  <1>9. FfEnqueues(t)' /\ FfDequeues(t)' /\ FfGuard(t) /\ \A x : ~(Takes(t, x)') /\ ~(Brings(t, x)')
    BY <1>6, FfIdle DEF FfEnqueueing, FfDequeueing, FfBringing, DChecked
  <1>10. /\ m'.dead = m.dead /\ m'.new = m.new /\ m'.abs = m.abs /\ m'.ptr = m.ptr /\ m'.tail = m.tail
         /\ m'.head = m.head /\ m'.next = m.next /\ m'.value = m.value /\ m'.enq = m.enq /\ m'.left = m.left
         /\ m'.try = m.try /\ m'.reuse = m.reuse /\ m'.enqs = m.enqs /\ m'.degree = m.degree
         /\ \A f \in HpFields \ {"ptr", "pending", "dead"} : m'[f] = m[f]
    BY <1>4 DEF FfFields, HpFields
  <1>11. Takes(t, r[t].head) /\ \A x \in Objects : (Carries(t, x) => x = r[t].head) /\ ~(Carries(t, x)')
    BY <1>2, <1>9 DEF Carries, Brings, Takes
  <1>12. HpMoves(t)
    BY <1>1, <1>3, <1>4, <1>10, <1>11, HpRetires
  <1>13. FfChain'
    BY <1>10, FfChainSame
  <1>14. FfType'
    BY <1>1, <1>4, <1>10 DEF FfType
  <1>15. FfChange(t) /\ FfSlots(t)
    BY <1>1, <1>9, <1>10 DEF FfChange, FfSlots
  <1> QED
    BY <1>6, <1>8, <1>9, <1>10, <1>12, <1>13, <1>14, <1>15, FfClient

\* The head is taken out.
LEMMA FfTakes ==
  ASSUME NEW t \in Threads, FfInv, kind = "hp_fifo", kind' = kind, pc[t] = "d_commit", m.head = r[t].head,
         HpF!Go(t, "d_value"), HpF!Put(t, [nth |-> m.left + 1]),
         m' = [m EXCEPT !.head = r[t].next, !.abs = Tail(@), !.left = @ + 1]
  PROVE  FfInv'
PROOF
  <1> DEFINE s == m.abs
             q == m.enq
             n == Len(s)
  <1>1. /\ HpInv /\ DOMAIN r = Threads /\ DOMAIN r[t] = FfLocalFields /\ FfLocals(t) /\ FfDequeues(t)
        /\ DOMAIN m = FfFields /\ Objects = FfNodes /\ FfType /\ FfChain /\ Distinct(s)
        /\ m.ptr \in [Records -> [{0, 1} -> FfNodes \cup {NULL}]] /\ m.tail \in FfNodes
        /\ m.next \in [FfNodes -> FfNodes \cup {NULL}] /\ m.value \in [FfNodes -> Int]
    BY FfKnown
  <1>2. /\ r[t].next # NULL /\ m.next[r[t].head] = r[t].next /\ r[t].head # r[t].tail /\ m.tail # m.head
        /\ m.ptr[r[t].rec][1] = r[t].next /\ r[t].head # NULL /\ r[t].next \in FfNodes
    BY <1>1 DEF FfLocals, FfDequeues, DChecked
  <1>3. /\ s \in Seq(FfNodes) /\ s # <<>> /\ n \in Nat \ {0} /\ DOMAIN s = 1 .. n /\ n > 1
        /\ m.head = s[1] /\ r[t].next = s[2] /\ m.tail \in Members(s)
    BY <1>2, FfLine
  <1>4. /\ DOMAIN m' = DOMAIN m /\ \A f \in FfFields \ {"head", "abs", "left"} : m'[f] = m[f]
        /\ m'.head = r[t].next /\ m'.abs = Tail(s) /\ m'.left = m.left + 1
    BY <1>1 DEF FfFields, HpFields
  <1>5. /\ m'.dead = m.dead /\ m'.pending = m.pending /\ m'.new = m.new /\ m'.ptr = m.ptr
        /\ m'.next = m.next /\ m'.tail = m.tail /\ m'.value = m.value /\ m'.enq = q
        /\ m'.try = m.try /\ m'.reuse = m.reuse /\ m'.enqs = m.enqs /\ m'.degree = m.degree
        /\ \A f \in HpFields \ {"ptr", "pending", "dead"} : m'[f] = m[f]
    BY <1>4 DEF FfFields, HpFields
  <1>6. DOMAIN [nth |-> m.left + 1] \cap HpLocalFields = {}
    BY DEF HpLocalFields
  <1>7. Moves(t) /\ pc'[t] = "d_value" /\ DOMAIN r'[t] = FfLocalFields /\ r'[t].rec = r[t].rec
    BY <1>4, <1>6, FfGoes DEF FfLabels, HpLabels
  <1>8. /\ r'[t].tail = r[t].tail /\ r'[t].e = r[t].e /\ r'[t].head = r[t].head /\ r'[t].next = r[t].next
        /\ r'[t].try = r[t].try /\ r'[t].nth = m.left + 1
    BY <1>1, <1>6, FfPut DEF FfLocalFields
  <1>9. /\ q \in Seq(Int) /\ m.left \in Nat /\ Len(q) = m.left + n - 1
        /\ \A i \in DOMAIN s : i > 1 => m.value[s[i]] = q[m.left + i - 1]
        /\ LinkedBy(s, m.next)
    BY <1>1 DEF FfType, FfChain
  <1>10. PICK k \in DOMAIN s : m.tail = s[k] /\ k >= n - 1
    BY <1>1 DEF FfChain
  <1> HIDE DEF s, q, n
  <1>11. m.left + 1 \in DOMAIN q /\ m.value[r[t].next] = q[m.left + 1]
    <2>1. DOMAIN q = 1 .. Len(q) /\ Len(q) \in Nat
      BY ONLY <1>9
    <2>2. 2 \in DOMAIN s /\ m.left + 2 - 1 = m.left + 1 /\ m.left + 1 \in 1 .. Len(q)
      BY ONLY <1>3, <1>9, <2>1
    <2>3. m.value[s[2]] = q[m.left + 2 - 1]
      BY ONLY <1>9, <2>2, 2 > 1
    <2> QED
      BY ONLY <1>3, <2>1, <2>2, <2>3
  <1>12. FfLocals(t)'
    BY <1>1, <1>5, <1>7, <1>8 DEF FfLocals, FfLabels
  <1>13. FfDequeues(t)'
    BY <1>1, <1>2, <1>5, <1>7, <1>8, <1>11 DEF FfDequeues, DChecked, Settled
  <1>14. FfEnqueues(t)' /\ \A x : ~(Brings(t, x)')
    BY <1>7, FfIdle DEF FfEnqueueing, FfBringing
  <1>15. FfGuard(t)
    BY <1>7, <1>8 DEF FfGuard, DChecked, Guarded
  <1>16. FfSlots(t)
    BY <1>1, <1>5 DEF FfSlots
  <1>17. \A x \in Objects : ~Carries(t, x) /\ ~(Brings(t, x)') /\ (Takes(t, x)' => x = m.abs[1])
    BY <1>3, <1>7, <1>8, <1>14 DEF Carries, Brings, Takes, s
  <1>18. HpMoves(t)
    BY <1>1, <1>3, <1>4, <1>5, <1>17, HpUnlinks DEF s
  <1>19. /\ m'.abs \in Seq(FfNodes) /\ Len(m'.abs) = n - 1 /\ DOMAIN m'.abs = 1 .. n - 1
         /\ \A i \in DOMAIN m'.abs : i + 1 \in DOMAIN s /\ m'.abs[i] = s[i + 1]
    <2>1. /\ Tail(s) \in Seq(FfNodes) /\ Len(Tail(s)) = n - 1 /\ DOMAIN Tail(s) = 1 .. n - 1
          /\ \A i \in DOMAIN Tail(s) : i + 1 \in DOMAIN s /\ Tail(s)[i] = s[i + 1]
      BY ONLY <1>3 DEF n
    <2> QED
      BY ONLY <1>4, <2>1
  <1>20. LinkedBy(m'.abs, m.next) /\ m.next[s[1]] = IF m'.abs = <<>> THEN NULL ELSE m'.abs[1]
    BY ONLY <1>3, <1>4, <1>9, LinkedTail, SMTT(30)
  <1>21. m'.abs # <<>> /\ m'.head = m'.abs[1]
    BY <1>2, <1>3, <1>4, <1>20
  <1>22. \E i \in DOMAIN m'.abs : m'.tail = m'.abs[i] /\ i >= Len(m'.abs) - 1
    <2>1. k # 1
      BY <1>2, <1>3, <1>10
    <2>2. k - 1 \in DOMAIN m'.abs /\ (k - 1) + 1 = k /\ k - 1 >= Len(m'.abs) - 1
      BY <1>3, <1>10, <1>19, <2>1
    <2>3. m'.abs[k - 1] = s[k]
      BY <1>19, <2>2
    <2> QED
      BY <1>5, <1>10, <2>2, <2>3
  <1>23. ASSUME NEW i \in DOMAIN m'.abs, i > 1 PROVE m'.value[m'.abs[i]] = m'.enq[m'.left + i - 1]
    <2>1. i + 1 \in DOMAIN s /\ m'.abs[i] = s[i + 1] /\ i \in Int
      BY <1>19
    <2>2. i + 1 > 1 /\ m.left + (i + 1) - 1 = (m.left + 1) + i - 1
      <3>1. \A a, b \in Int : a > 1 => a + 1 > 1 /\ b + (a + 1) - 1 = (b + 1) + a - 1
        OBVIOUS
      <3>2. i \in Int /\ m.left \in Int /\ i > 1
        BY <1>9, <1>23, <2>1
      <3> QED
        BY ONLY <3>1, <3>2
    <2>3. m.value[s[i + 1]] = q[m.left + (i + 1) - 1]
      BY <1>9, <2>1, <2>2
    <2> QED
      BY <1>4, <1>5, <2>1, <2>2, <2>3
  <1>24. Len(m'.enq) = m'.left + Len(m'.abs) - 1
    <2>1. m.left + n - 1 = (m.left + 1) + (n - 1) - 1
      BY <1>3, <1>9
    <2> QED
      BY <1>4, <1>5, <1>9, <1>19, <2>1
  <1>25. FfChain'
    <2>1. LinkedBy(m.abs, m.next)'
      BY <1>5, <1>20 DEF LinkedBy
    <2> QED
      BY <1>21, <1>22, <1>23, <1>24, <2>1 DEF FfChain
  <1>26. FfType'
    BY <1>1, <1>2, <1>4, <1>5, <1>9 DEF FfType
  <1>27. FfChange(t)
    <2>1. Len(m.abs) > 1 /\ m'.head = m.abs[2] /\ m'.abs = Tail(m.abs) /\ m'.tail = m.tail
      BY <1>3, <1>4, <1>5 DEF s, n
    <2> QED
      BY <1>5, <1>14, <2>1 DEF FfChange, q
  <1> QED
    BY <1>5, <1>7, <1>12, <1>13, <1>14, <1>15, <1>16, <1>18, <1>25, <1>26, <1>27, FfClient

LEMMA FfDequeueCommit ==
  ASSUME NEW t \in Threads, FfInv, kind = "hp_fifo", kind' = kind, HpF!DequeueCommit(t)
  PROVE  FfInv'
PROOF
  <1>1. pc[t] = "d_commit"
    BY DEF HpF!DequeueCommit, HpF!At
  <1>2. CASE /\ m.head = r[t].head /\ HpF!Go(t, "d_value") /\ HpF!Put(t, [nth |-> m.left + 1])
             /\ m' = [m EXCEPT !.head = r[t].next, !.abs = Tail(@), !.left = @ + 1]
    BY <1>1, <1>2, FfTakes
  <1>3. CASE HpF!Again(t, "d_head") /\ m' = m
    BY <1>1, <1>3, FfDequeueAgains DEF DChecked
  <1> QED
    BY <1>2, <1>3 DEF HpF!DequeueCommit, HpF!Local

\* A call of ck_hp does not disturb the queue.
LEMMA FfOfHp ==
  ASSUME NEW t \in Threads, FfInv, kind = "hp_fifo", kind' = kind, HpF!HpStep(t)
  PROVE  FfInv'
PROOF
  <1>1. HpInv /\ DOMAIN m = FfFields /\ FfType /\ FfLocals(t) /\ FfChain
    BY FfKnown
  <1>2. HpInv' /\ HpFrame(t)
    BY <1>1, HpOfFifo, HpStepKeeps
  <1>3. /\ DOMAIN m' = FfFields /\ m'.degree = m.degree /\ m'.head = m.head /\ m'.next = m.next /\ m'.abs = m.abs
        /\ m'.tail = m.tail /\ m'.value = m.value /\ m'.enq = m.enq /\ m'.left = m.left /\ m'.new = m.new
        /\ m'.try = m.try /\ m'.reuse = m.reuse /\ m'.enqs = m.enqs
    BY <1>1, <1>2 DEF HpFrame, FfFields, HpFields
  <1>4. FfType' /\ FfChain'
    <2>1. FfType'
      BY <1>1, <1>3 DEF FfType
    <2> QED
      BY <1>3, <2>1, FfChainSame
  <1>5. FfLocals(t)' /\ FfEnqueues(t)' /\ FfDequeues(t)' /\ \A x : ~(Brings(t, x)')
    <2>1. /\ DOMAIN r'[t] = FfLocalFields /\ r'[t].e = r[t].e /\ r'[t].next = r[t].next /\ r'[t].head = r[t].head
          /\ r'[t].tail = r[t].tail /\ r'[t].try = r[t].try /\ pc'[t] \in HpLabels
      BY <1>1, <1>2 DEF HpFrame, FfLocals, FfLocalFields, HpLocalFields
    <2>2. FfLocals(t)'
      BY <1>1, <1>3, <2>1 DEF FfLocals, FfLabels
    <2> QED
      BY <2>1, <2>2, FfIdle DEF FfEnqueueing, FfDequeueing, FfBringing, DChecked, HpLabels
  <1>6. FfChange(t)
    BY <1>3, <1>5 DEF FfChange
  <1>7. \A u \in Threads \ {t} : FfOther(u)
    BY <1>2 DEF FfOther, HpFrame
  <1>8. \A v \in Threads \ {t}, x \in FfNodes : Brings(v, x)' => Brings(v, x)
    BY <1>7 DEF Brings, FfOther
  <1>9. ASSUME NEW u \in Threads, u # t PROVE FfLocals(u)' /\ FfEnqueues(u)' /\ FfDequeues(u)'
    <2>1. FfLocals(u)'
      BY <1>3, <1>7, <1>9 DEF FfInv, FfLocals, FfOther
    <2> QED
      BY <1>6, <1>7, <1>8, <1>9, <2>1, FfOtherEnqueues, FfOtherDequeues
  <1> QED
    BY <1>2, <1>4, <1>5, <1>9 DEF FfInv

LEMMA FfThreshold ==
  ASSUME FfInv, kind = "hp_fifo", kind' = kind, HpF!SetThreshold
  PROVE  FfInv'
PROOF
  <1>1. HpInv /\ FfType /\ FfChain
    BY DEF FfInv
  <1>2. PICK n : m' = [m EXCEPT !.threshold = n]
    BY DEF HpF!SetThreshold
  <1>3. DOMAIN m' = DOMAIN m /\ \A f \in DOMAIN m \ {"threshold"} : m'[f] = m[f]
    BY <1>2
  <1>4. pc' = pc /\ r' = r
    BY DEF HpF!SetThreshold
  <1>5. HpInv'
    BY <1>1, <1>3, <1>4, HpThreshold
  <1>6. /\ DOMAIN m' = FfFields /\ m'.degree = m.degree /\ m'.head = m.head /\ m'.next = m.next /\ m'.abs = m.abs
        /\ m'.tail = m.tail /\ m'.value = m.value /\ m'.enq = m.enq /\ m'.left = m.left /\ m'.new = m.new
        /\ m'.try = m.try /\ m'.reuse = m.reuse /\ m'.enqs = m.enqs /\ m'.ptr = m.ptr
    BY <1>1, <1>3 DEF FfType, FfFields, HpFields
  <1>7. FfType'
    BY <1>1, <1>6 DEF FfType
  <1>8. FfChain'
    BY <1>6, FfChainSame
  <1>9. ASSUME NEW t \in Threads PROVE FfLocals(t)' /\ FfEnqueues(t)' /\ FfDequeues(t)'
    <2>1. FfLocals(t)'
      BY <1>4, <1>6 DEF FfInv, FfLocals
    <2>2. FfChange(t) /\ FfOther(t)
      BY <1>4, <1>6 DEF FfChange, FfOther, Brings
    <2>3. \A v \in Threads \ {t}, x \in FfNodes : Brings(v, x)' => Brings(v, x)
      BY <1>4 DEF Brings
    <2> QED
      BY <2>1, <2>2, <2>3, FfOtherEnqueues, FfOtherDequeues
  <1> QED
    BY <1>5, <1>7, <1>8, <1>9 DEF FfInv

LEMMA FfStep ==
  ASSUME FfInv, kind = "hp_fifo", kind' = kind, HpF!Next
  PROVE  FfInv'
PROOF
  <1>1. CASE HpF!SetThreshold
    BY <1>1, FfThreshold
  <1>2. ASSUME NEW t \in Threads, HpF!HpStep(t) \/ HpF!Enqueue(t) \/ HpF!Dequeue(t)
        PROVE  FfInv'
    <2>1. CASE HpF!HpStep(t)
      BY <2>1, FfOfHp
    <2>2. CASE HpF!Enqueue(t)
      BY <2>2, FfEnqueueCall, FfEnqueueTail, FfEnqueueSet, FfEnqueueSame, FfEnqueueNext,
         FfEnqueueAgain, FfEnqueueLink, FfEnqueueForward DEF HpF!Enqueue
    <2>3. CASE HpF!Dequeue(t)
      BY <2>3, FfDequeueCall, FfDequeueHead, FfDequeueSet, FfDequeueSame, FfDequeueTail,
         FfDequeueNext, FfDequeueSetNext, FfDequeueEmpty, FfDequeueAgain, FfDequeueForward,
         FfDequeueCommit, FfDequeueValue, FfDequeueFree DEF HpF!Dequeue
    <2> QED
      BY <1>2, <2>1, <2>2, <2>3
  <1> QED
    BY <1>1, <1>2 DEF HpF!Next

-----------------------------------------------------------------------------
(* The initial states.                                                       *)

LEMMA HpInit ==
  ASSUME HpFields \cup {"new", "abs"} \subseteq DOMAIN m,
         m.subs = <<>>, m.state = [x \in Records |-> "new"], m.degree \in Nat,
         m.ptr = [x \in Records |-> [i \in 0 .. m.degree - 1 |-> NULL]],
         m.pending = [x \in Records |-> <<>>], m.dead = {},
         m.new \subseteq Objects, m.abs \in Seq(Objects), Distinct(m.abs), Members(m.abs) \cap m.new = {},
         pc = [t \in Threads |-> "out"], DOMAIN r = Threads,
         \A t \in Threads : /\ HpLocalFields \subseteq DOMAIN r[t] /\ r[t].rec = NULL /\ r[t].list = <<>>
                            /\ r[t].pos = 1 /\ r[t].i = 0 /\ r[t].marker = 0
                            /\ r[t].todo = <<>> /\ r[t].kept = <<>>
  PROVE  HpInv
PROOF
  <1>1. Members(<<>>) = {} /\ Distinct(<<>>)
    BY DEF Members, Distinct
  <1>2. \A S : <<>> \in Seq(S)
    OBVIOUS
  <1>3. \A t \in Threads : pc[t] = "out"
    OBVIOUS
  <1>4. \A t \in Threads : \A i, x : ~Guarded(t, i, x) /\ ~Brings(t, x) /\ ~Takes(t, x)
    BY <1>3 DEF Guarded, Brings, Takes
  <1>5. \A x \in Records : m.pending[x] = <<>> /\ m.state[x] = "new"
    OBVIOUS
  <1>6. AllPending = {}
    BY <1>1, <1>5 DEF AllPending
  <1>7. HpType
    <2>1. m.subs \in Seq(Records) /\ m.pending \in [Records -> Seq(Objects)]
      BY <1>2
    <2>2. m.state \in [Records -> {"new", "free", "used"}]
      OBVIOUS
    <2>3. m.ptr \in [Records -> [0 .. m.degree - 1 -> Objects \cup {NULL}]]
      OBVIOUS
    <2> QED
      BY <2>1, <2>2, <2>3 DEF HpType
  <1>8. ASSUME NEW t \in Threads PROVE HpLocalType(t)
    <2>1. /\ HpLocalFields \subseteq DOMAIN r[t] /\ r[t].rec = NULL /\ r[t].list = <<>>
          /\ r[t].pos = 1 /\ r[t].i = 0 /\ r[t].marker = 0 /\ r[t].todo = <<>> /\ r[t].kept = <<>>
      OBVIOUS
    <2>2. 1 \in Nat \ {0} /\ 0 \in Nat
      OBVIOUS
    <2>3. <<>> \in Seq(Records) /\ <<>> \in Seq(Objects)
      BY <1>2
    <2> QED
      BY ONLY <2>1, <2>2, <2>3 DEF HpLocalType
  <1>9. HpRecords
    BY <1>1, <1>3, <1>5 DEF HpRecords
  <1>10. HpPending
    BY <1>1, <1>3, <1>5 DEF HpPending, Reclaiming
  <1>11. HpScan /\ HpGuards
    BY <1>4 DEF HpScan, HpGuards
  <1>12. HpPlaces
    BY <1>4, <1>6 DEF HpPlaces, Carries
  <1> QED
    BY <1>7, <1>8, <1>9, <1>10, <1>11, <1>12 DEF HpInv

LEMMA StInit ==
  ASSUME kind = "hp_stack", HpS!Init
  PROVE  StInv
PROOF
  <1>1. PICK n \in Thresholds, b \in {[nodes |-> Entries, joins |-> MaxJoins, pushes |-> MaxHpCalls, pops |-> MaxHpCalls],
                     [nodes |-> FifoNodes, joins |-> MaxJoins + 1, pushes |-> 1, pops |-> 1]} :
          m = HpS!Both(HpS!HpMem(1, n, b.joins),
                [head |-> NULL, next |-> [x \in Entries |-> NULL], new |-> b.nodes,
                 pushes |-> b.pushes, pops |-> b.pops, abs |-> <<>>])
    BY DEF HpS!Init
  <1>2. b.nodes \subseteq Entries
    BY QueuesAssumption
  <1>3. /\ DOMAIN m = StFields /\ m.subs = <<>> /\ m.state = [x \in Records |-> "new"] /\ m.degree = 1
        /\ m.ptr = [x \in Records |-> [i \in 0 .. 0 |-> NULL]] /\ m.pending = [x \in Records |-> <<>>]
        /\ m.dead = {} /\ m.new = b.nodes /\ m.abs = <<>> /\ m.head = NULL /\ m.next = [x \in Entries |-> NULL]
    BY <1>1 DEF HpS!Both, HpS!HpMem, HpS!Empty, StFields, HpFields
  <1>4. pc = [t \in Threads |-> "out"] /\ r = [t \in Threads |-> HpS!Both(HpS!HpLocals, HpS!Scratch)]
    BY DEF HpS!Init
  <1>5. ASSUME NEW t \in Threads
        PROVE  /\ DOMAIN r[t] = StLocalFields /\ r[t].rec = NULL /\ r[t].list = <<>>
               /\ r[t].pos = 1 /\ r[t].i = 0 /\ r[t].marker = 0 /\ r[t].todo = <<>> /\ r[t].kept = <<>>
               /\ r[t].e = NULL /\ r[t].next = NULL /\ r[t].update = NULL
    <2>1. r[t] = HpS!Both(HpS!HpLocals, HpS!Scratch)
      BY <1>4
    <2> QED
      BY <2>1 DEF HpS!Both, HpS!HpLocals, HpS!HpScratch, HpS!Scratch, StLocalFields, HpLocalFields
  <1>6. Members(<<>>) = {} /\ Distinct(<<>>) /\ LinkedBy(<<>>, m.next) /\ <<>> \in Seq(Objects) /\ Objects = Entries
    BY DEF Members, Distinct, LinkedBy, Objects
  <1>7. HpInv
    <2>1. HpFields \cup {"new", "abs"} \subseteq DOMAIN m
      BY <1>3 DEF StFields
    <2>2. m.degree \in Nat /\ m.ptr = [x \in Records |-> [i \in 0 .. m.degree - 1 |-> NULL]]
      <3>1. 1 - 1 = 0 /\ 1 \in Nat
        OBVIOUS
      <3> QED
        BY <1>3, <3>1
    <2>3. \A t \in Threads : HpLocalFields \subseteq DOMAIN r[t]
      BY <1>5 DEF StLocalFields
    <2>4. DOMAIN r = Threads
      BY <1>4
    <2> QED
      BY <1>2, <1>3, <1>4, <1>5, <1>6, <2>1, <2>2, <2>3, <2>4, HpInit
  <1>8. StType
    BY <1>3 DEF StType
  <1>9. \A t \in Threads : pc[t] = "out"
    BY <1>4
  <1>10. \A t \in Threads : StLocals(t) /\ StOps(t)
    BY <1>5, <1>9 DEF StLocals, StOps, StLabels, HpLabels
  <1> QED
    BY <1>3, <1>6, <1>7, <1>8, <1>10 DEF StInv

LEMMA FfInit ==
  ASSUME kind = "hp_fifo", HpF!Init, Trys # {TRUE} \/ TRUE \notin Reuses
  PROVE  FfInv
PROOF
  <1>1. PICK n \in Thresholds, try \in Trys, reuse \in Reuses :
          /\ try /\ reuse => Trys = {TRUE}
          /\ m = HpF!Both(HpF!HpMem(2, n, MaxJoins),
                   [try |-> try, reuse |-> reuse, head |-> Stub, tail |-> Stub,
                    next |-> [x \in FifoNodes \cup {Stub} |-> NULL],
                    value |-> [x \in FifoNodes \cup {Stub} |-> 0],
                    new |-> FifoNodes, enqs |-> 0, deqs |-> 0,
                    abs |-> <<Stub>>, enq |-> <<>>, left |-> 0])
    BY DEF HpF!Init
  <1>2. try \in BOOLEAN /\ reuse \in BOOLEAN /\ ~(try /\ reuse)
    BY <1>1, QueuesAssumption
  <1>3. /\ DOMAIN m = FfFields /\ m.subs = <<>> /\ m.state = [x \in Records |-> "new"] /\ m.degree = 2
        /\ m.ptr = [x \in Records |-> [i \in 0 .. 2 - 1 |-> NULL]] /\ m.pending = [x \in Records |-> <<>>]
        /\ m.dead = {} /\ m.new = FifoNodes /\ m.abs = <<Stub>> /\ m.head = Stub /\ m.tail = Stub
        /\ m.next = [x \in FifoNodes \cup {Stub} |-> NULL] /\ m.value = [x \in FifoNodes \cup {Stub} |-> 0]
        /\ m.enqs = 0 /\ m.enq = <<>> /\ m.left = 0 /\ m.try = try /\ m.reuse = reuse
    BY <1>1 DEF HpF!Both, HpF!HpMem, HpF!Empty, FfFields, HpFields
  <1>4. pc = [t \in Threads |-> "out"] /\ r = [t \in Threads |-> HpF!Both(HpF!HpLocals, HpF!Scratch)]
    BY DEF HpF!Init
  <1>5. ASSUME NEW t \in Threads
        PROVE  /\ DOMAIN r[t] = FfLocalFields /\ r[t].rec = NULL /\ r[t].list = <<>>
               /\ r[t].pos = 1 /\ r[t].i = 0 /\ r[t].marker = 0 /\ r[t].todo = <<>> /\ r[t].kept = <<>>
               /\ r[t].e = NULL /\ r[t].next = NULL /\ r[t].head = NULL /\ r[t].tail = NULL /\ r[t].try = FALSE
    <2>1. r[t] = HpF!Both(HpF!HpLocals, HpF!Scratch)
      BY <1>4
    <2> QED
      BY <2>1 DEF HpF!Both, HpF!HpLocals, HpF!HpScratch, HpF!Scratch, FfLocalFields, HpLocalFields
  <1>6. /\ <<Stub>> \in Seq(FfNodes) /\ Len(<<Stub>>) = 1 /\ DOMAIN <<Stub>> = {1} /\ <<Stub>>[1] = Stub
        /\ <<Stub>> # <<>> /\ Objects = FfNodes /\ Stub \in FfNodes
    BY DEF Objects, FfNodes
  <1>7. Members(<<Stub>>) = {Stub} /\ Distinct(<<Stub>>)
    BY <1>6 DEF Members, Distinct
  <1>8. HpInv
    <2>1. HpFields \cup {"new", "abs"} \subseteq DOMAIN m
      BY <1>3 DEF FfFields
    <2>2. m.degree \in Nat /\ m.ptr = [x \in Records |-> [i \in 0 .. m.degree - 1 |-> NULL]]
      BY <1>3
    <2>3. \A t \in Threads : HpLocalFields \subseteq DOMAIN r[t]
      BY <1>5 DEF FfLocalFields
    <2>4. DOMAIN r = Threads
      BY <1>4
    <2>5. FifoNodes \subseteq Objects /\ {Stub} \cap FifoNodes = {}
      BY <1>6, QueuesAssumption DEF FfNodes
    <2> QED
      BY <1>3, <1>4, <1>5, <1>6, <1>7, <2>1, <2>2, <2>3, <2>4, <2>5, HpInit
  <1>9. FfType
    BY <1>2, <1>3, <1>6 DEF FfType, FfNodes
  <1>10. FfChain
    <2>1. LinkedBy(m.abs, m.next)
      BY <1>3, <1>6 DEF LinkedBy, FfNodes
    <2>2. \E i \in DOMAIN m.abs : m.tail = m.abs[i] /\ i >= Len(m.abs) - 1
      BY <1>3, <1>6
    <2>3. Len(m.enq) = m.left + Len(m.abs) - 1
      BY <1>3, <1>6
    <2>4. \A i \in DOMAIN m.abs : i > 1 => m.value[m.abs[i]] = m.enq[m.left + i - 1]
      BY <1>3, <1>6
    <2> QED
      BY <1>3, <1>6, <2>1, <2>2, <2>3, <2>4 DEF FfChain
  <1>11. \A t \in Threads : pc[t] = "out"
    BY <1>4
  <1>12. \A t \in Threads : FfLocals(t) /\ FfEnqueues(t) /\ FfDequeues(t)
    BY <1>5, <1>11 DEF FfLocals, FfEnqueues, FfDequeues, FfLabels, HpLabels, DChecked, Settled
  <1> QED
    BY <1>8, <1>9, <1>10, <1>12 DEF FfInv

-----------------------------------------------------------------------------
(* The invariant of both clients, and what follows from it.                  *)

LEMMA HpStutters ==
  ASSUME HpInv, kind' = kind, m' = m, pc' = pc, r' = r
  PROVE  HpInv'
PROOF
  <1>1. HpType' /\ (\A t \in Threads : HpLocalType(t))'
    <2>1. HpType'
      BY DEF HpInv, HpType, Objects
    <2>2. Objects' = Objects
      BY DEF Objects
    <2>3. (\A t \in Threads : HpLocalType(t))'
      BY <2>2 DEF HpInv, HpLocalType
    <2> QED
      BY <2>1, <2>3
  <1>2. HpRecords'
    BY DEF HpInv, HpRecords, Members
  <1>3. HpPending'
    <2>1. \A x \in Records : Distinct(m'.pending[x]) /\ Members(m'.pending[x]) \cap m'.dead = {}
      BY DEF HpInv, HpPending
    <2>2. \A x, y \in Records : x # y => Members(m'.pending[x]) \cap Members(m'.pending[y]) = {}
      BY DEF HpInv, HpPending
    <2>3. /\ \A t \in Threads : pc'[t] \in Reclaiming => m'.pending[r'[t].rec] = r'[t].kept \o r'[t].todo
          /\ \A t \in Threads : pc'[t] \in {"cache_slot", "scan_slot"} => r'[t].pos \in DOMAIN r'[t].list
          /\ \A t \in Threads : pc'[t] \in {"scan_record", "scan_slot"} => r'[t].todo # <<>>
      BY DEF HpInv, HpPending
    <2> QED
      BY <2>1, <2>2, <2>3 DEF HpPending, Members, Distinct
  <1>4. HpScan'
    BY DEF HpInv, HpScan, Covers, Guarded, Objects, Members
  <1>5. HpGuards'
    BY DEF HpInv, HpGuards, Guarded, Objects
  <1>6. HpPlaces'
    <2>1. Objects' = Objects /\ AllPending' = AllPending /\ Members(m.abs)' = Members(m.abs)
      BY DEF Objects, AllPending, Members
    <2>2. \A t \in Threads : \A x : Carries(t, x)' = Carries(t, x) /\ Brings(t, x)' = Brings(t, x)
      BY DEF Carries, Brings, Takes
    <2>3. \A t \in Threads : \A i, x : Guarded(t, i, x)' = Guarded(t, i, x)
      BY DEF Guarded
    <2>4. Distinct(m.abs)' = Distinct(m.abs)
      BY DEF Distinct
    <2> QED
      BY <2>1, <2>2, <2>3, <2>4 DEF HpInv, HpPlaces
  <1> QED
    BY <1>1, <1>2, <1>3, <1>4, <1>5, <1>6 DEF HpInv

LEMMA StStutters ==
  ASSUME StInv, kind' = kind, m' = m, pc' = pc, r' = r
  PROVE  StInv'
PROOF
  <1>1. HpInv'
    BY HpStutters DEF StInv
  <1>2. StType' /\ (m.head = IF m.abs = <<>> THEN NULL ELSE m.abs[1])' /\ LinkedBy(m.abs, m.next)'
    BY DEF StInv, StType, LinkedBy
  <1>3. \A t \in Threads : StLocals(t)' /\ StOps(t)'
    BY DEF StInv, StLocals, StOps
  <1> QED
    BY <1>1, <1>2, <1>3 DEF StInv

LEMMA FfStutters ==
  ASSUME FfInv, kind' = kind, m' = m, pc' = pc, r' = r
  PROVE  FfInv'
PROOF
  <1>1. HpInv'
    BY HpStutters DEF FfInv
  <1>2. FfType' /\ FfChain'
    BY DEF FfInv, FfType, FfChain, LinkedBy
  <1>3. \A t \in Threads : FfLocals(t)' /\ FfEnqueues(t)'
    BY DEF FfInv, FfLocals, FfEnqueues
  <1>4. \A t \in Threads : FfDequeues(t)'
    BY DEF FfInv, FfDequeues, Settled, Brings
  <1> QED
    BY <1>1, <1>2, <1>3, <1>4 DEF FfInv

LEMMA HpUsersInvInit ==
  ASSUME Init, Trys # {TRUE} \/ TRUE \notin Reuses
  PROVE  HpUsersInv
PROOF
  <1>1. kind = "hp_stack" => StInv
    BY StInit DEF Init
  <1>2. kind = "hp_fifo" => FfInv
    BY FfInit DEF Init
  <1> QED
    BY <1>1, <1>2 DEF HpUsersInv

LEMMA HpUsersInvStep ==
  ASSUME HpUsersInv, [Next]_vars
  PROVE  HpUsersInv'
PROOF
  <1>1. CASE Next
    <2>1. kind' = kind
      BY <1>1 DEF Next
    <2>2. ASSUME kind = "hp_stack" PROVE StInv'
      BY <1>1, <2>1, <2>2, StStep DEF Next, HpUsersInv
    <2>3. ASSUME kind = "hp_fifo" PROVE FfInv'
      BY <1>1, <2>1, <2>3, FfStep DEF Next, HpUsersInv
    <2> QED
      BY <2>1, <2>2, <2>3 DEF HpUsersInv
  <1>2. CASE UNCHANGED vars
    <2>1. kind' = kind /\ m' = m /\ pc' = pc /\ r' = r
      BY <1>2 DEF vars, tvars
    <2> QED
      BY <2>1, StStutters, FfStutters DEF HpUsersInv
  <1> QED
    BY <1>1, <1>2

LEMMA StOrder ==
  ASSUME StInv
  PROVE  HpS!Represents
PROOF
  <1>1. m.abs # <<>> => Head(m.abs) = m.abs[1]
    BY Without DEF StInv, HpInv, HpPlaces
  <1> QED
    BY <1>1 DEF StInv, LinkedBy, HpS!Represents

LEMMA FfOrder ==
  ASSUME FfInv
  PROVE  HpF!FifoOrder
PROOF
  BY DEF FfInv, FfDequeues, HpF!FifoOrder, HpF!At

LEMMA HpExclusive ==
  ASSUME HpInv
  PROVE  HpF!RecordsExclusive /\ HpS!RecordsExclusive
PROOF
  BY DEF HpInv, HpRecords, HpF!RecordsExclusive, HpF!Holds, HpF!Mine,
         HpS!RecordsExclusive, HpS!Holds, HpS!Mine

LEMMA StFollows ==
  ASSUME kind = "hp_stack", StInv
  PROVE  HpS!NoUseAfterFree
PROOF
  <1>1. ASSUME NEW t \in Threads, pc[t] = "p_next" PROVE r[t].e \notin m.dead /\ r[t].e # NULL
    <2>1. r[t].e # NULL /\ r[t].e \in Objects
      BY <1>1 DEF StInv, StOps, StLocals, Objects
    <2>2. Guarded(t, 0, r[t].e)
      BY <1>1 DEF Guarded
    <2>3. HpGuards
      BY DEF StInv, HpInv
    <2> QED
      BY <2>1, <2>2, <2>3 DEF HpGuards
  <1> QED
    BY <1>1 DEF HpS!NoUseAfterFree, HpS!At

LEMMA FfFollows ==
  ASSUME kind = "hp_fifo", FfInv
  PROVE  HpF!NoUseAfterFree
PROOF
  <1>1. ASSUME NEW t \in Threads, NEW x \in HpF!Followed(t) PROVE x # NULL /\ x \notin m.dead
    <2>1. HpGuards /\ FfLocals(t) /\ FfEnqueues(t) /\ FfDequeues(t) /\ Objects = FfNodes
      BY DEF FfInv, HpInv, Objects, FfNodes
    <2>2. CASE pc[t] \in {"e_next", "e_link"}
      <3>1. x = r[t].tail /\ x # NULL /\ x \in Objects /\ Guarded(t, 0, x)
        BY <1>1, <2>1, <2>2 DEF HpF!Followed, FfEnqueues, FfLocals, Guarded
      <3> QED
        BY <2>1, <3>1 DEF HpGuards
    <2>3. CASE pc[t] = "d_next"
      <3>1. x = r[t].head /\ x # NULL /\ x \in Objects /\ Guarded(t, 0, x)
        BY <1>1, <2>1, <2>3 DEF HpF!Followed, FfDequeues, FfLocals, Guarded, DChecked
      <3> QED
        BY <2>1, <3>1 DEF HpGuards
    <2>4. CASE pc[t] = "d_value"
      <3>1. x = r[t].next /\ x # NULL /\ x \in Objects /\ Guarded(t, 1, x)
        BY <1>1, <2>1, <2>4 DEF HpF!Followed, FfDequeues, FfLocals, Guarded
      <3> QED
        BY <2>1, <3>1 DEF HpGuards
    <2> QED
      BY <1>1, <2>2, <2>3, <2>4 DEF HpF!Followed
  <1> QED
    BY <1>1 DEF HpF!NoUseAfterFree

\* The invariant of ck_hp and its clients: what a slot protects since it was
\* found to be linked is pending at most, and a ck_hp_reclaim that has it yet
\* to look at has cached the slot or will come across it.  The hypothesis
\* leaves out nodes that are enqueued again by callers of trydequeue, which
\* the code does not protect against (run HpTryDequeue).
THEOREM HpUsersInvAlways ==
  ASSUME Trys # {TRUE} \/ TRUE \notin Reuses
  PROVE  Spec => []HpUsersInv
PROOF
  <1>1. Init => HpUsersInv
    BY HpUsersInvInit
  <1>2. HpUsersInv /\ [Next]_vars => HpUsersInv'
    BY HpUsersInvStep
  <1> QED
    BY <1>1, <1>2, PTL DEF Spec

\* What leaves ck_fifo_spsc, ck_fifo_mpmc and ck_hp_fifo does so in the order
\* in which it entered, and ck_hp_stack is the chain of what was pushed and
\* not popped, latest first.
THEOREM InOrder ==
  ASSUME Trys # {TRUE} \/ TRUE \notin Reuses
  PROVE  Spec => []LeavesInOrder
PROOF
  <1>1. FifoInv /\ HpUsersInv => LeavesInOrder
    BY SpOrder, MpOrder, StOrder, FfOrder DEF FifoInv, HpUsersInv, LeavesInOrder
  <1> QED
    BY <1>1, FifoInvAlways, HpUsersInvAlways, PTL

\* No call of ck_hp_fifo or ck_hp_stack follows a pointer to a node that
\* ck_hp_reclaim has destroyed, or a null pointer.
THEOREM FollowsLive ==
  ASSUME Trys # {TRUE} \/ TRUE \notin Reuses
  PROVE  Spec => []NoUseAfterFree
PROOF
  <1>1. HpUsersInv => NoUseAfterFree
    BY StFollows, FfFollows DEF HpUsersInv, NoUseAfterFree
  <1> QED
    BY <1>1, HpUsersInvAlways, PTL

\* A hazard record that ck_hp_register or ck_hp_recycle has given to a thread
\* is that of no other until ck_hp_unregister.
THEOREM OwnRecords ==
  ASSUME Trys # {TRUE} \/ TRUE \notin Reuses
  PROVE  Spec => []HpRecordsExclusive
PROOF
  <1>1. HpUsersInv => HpRecordsExclusive
    BY HpExclusive DEF HpUsersInv, StInv, FfInv, HpRecordsExclusive
  <1> QED
    BY <1>1, HpUsersInvAlways, PTL
=============================================================================
