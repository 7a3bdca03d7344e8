----------------------------- MODULE FifoProofs -----------------------------
(***************************************************************************)
(* Proofs about ck_fifo_spsc and ck_fifo_mpmc, two of the kinds of         *)
(* MCQueues.                                                               *)
(*                                                                         *)
(* abs is the sequence of the linked entries, and the values of these are  *)
(* the ones in enq that are not in deq.  In ck_fifo_spsc it begins with    *)
(* the entries that may be recycled.  What a call of ck_fifo_mpmc has read *)
(* through a pointer stays true for as long as the generation beside that  *)
(* pointer is the one that it has read: so a compare-and-swap that         *)
(* succeeds acts on what was read, although entries are re-used at once.   *)
(***************************************************************************)
EXTENDS MCQueues, TLAPS, SequenceTheorems

Members(s) == {s[i] : i \in DOMAIN s}
Distinct(s) == \A i, j \in DOMAIN s : s[i] = s[j] => i = j
\* The entries of s are linked in order.
LinkedBy(s, next) == \A i \in DOMAIN s : next[s[i]] = IF i = Len(s) THEN NULL ELSE s[i + 1]

-----------------------------------------------------------------------------
(* ck_fifo_mpmc.                                                             *)

FifoEntries == Entries \cup {Stub}
SamePointer(x, y) == x.p = y.p /\ x.g = y.g
Pointers == [p : FifoEntries \cup {NULL}, g : Nat]
MpLabels ==
  {"idle", "prepare", "tail_gen", "tail_ptr", "next_gen", "next_ptr", "same_tail", "link",
   "forward", "head_gen", "head_ptr", "dtail_gen", "dtail_ptr", "dnext", "compare",
   "same_head", "empty", "commit"}
MpFields == {"head", "tail", "next", "value", "own", "enqs", "deqs", "abs", "enq", "deq", "sawEmpty"}
MpLocalFields == {"try", "e", "v", "head", "tail", "next"}
MpMemory ==
  /\ DOMAIN m = MpFields
  /\ m.head \in Pointers /\ m.tail \in Pointers /\ m.next \in [FifoEntries -> Pointers]
  /\ m.value \in [FifoEntries -> Int] /\ m.own \in [Threads -> SUBSET FifoEntries] /\ m.enqs \in Int
  /\ m.abs \in Seq(FifoEntries) /\ m.enq \in Seq(Int) /\ m.deq \in Seq(Int)
MpLocal(t) ==
  /\ pc[t] \in MpLabels /\ DOMAIN r[t] = MpLocalFields /\ r[t].e \in FifoEntries \cup {NULL}
  /\ r[t].head \in Pointers /\ r[t].tail \in Pointers /\ r[t].next \in Pointers
MpLocals == DOMAIN pc = Threads /\ DOMAIN r = Threads /\ \A t \in Threads : MpLocal(t)

MpNext == [x \in FifoEntries |-> m.next[x].p]
MpChain ==
  /\ m.abs # <<>> /\ Distinct(m.abs) /\ m.head.p = m.abs[1]
  /\ LinkedBy(m.abs, MpNext)
  /\ \E i \in DOMAIN m.abs : m.tail.p = m.abs[i] /\ i >= Len(m.abs) - 1
  /\ Len(m.enq) = Len(m.deq) + Len(m.abs) - 1
  /\ \A i \in DOMAIN m.abs : i > 1 => m.value[m.abs[i]] = m.enq[Len(m.deq) + i - 1]
  /\ \A i \in DOMAIN m.deq : m.deq[i] = m.enq[i]

\* The generation of a successor is no newer than that of the tail, but for
\* the successor of the tail itself.
MpGenerations ==
  \A x \in FifoEntries :
    m.next[x].g <= m.tail.g + IF x = m.tail.p /\ m.next[x].p # NULL THEN 1 ELSE 0

MpBrings(t) == pc[t] \in {"prepare", "tail_gen", "tail_ptr", "next_gen", "next_ptr", "same_tail", "link"}
MpPlaces ==
  /\ \A t, u \in Threads : t # u => m.own[t] \cap m.own[u] = {}
  /\ \A t \in Threads : m.own[t] \cap Members(m.abs) = {}
  /\ \A t \in Threads : MpBrings(t) =>
       /\ r[t].e # NULL /\ m.next[r[t].e].p = NULL /\ r[t].e \notin Members(m.abs)
       /\ \A u \in Threads : r[t].e \notin m.own[u]
  /\ \A t, u \in Threads : MpBrings(t) /\ MpBrings(u) /\ r[t].e = r[u].e => t = u

MpEnqueues(t) ==
  LET l == r[t]
      T == r[t].tail.p
      current == m.tail.g = r[t].tail.g
  IN  /\ pc[t] \in {"tail_ptr", "next_gen", "next_ptr", "same_tail", "link", "forward"} =>
           l.tail.g <= m.tail.g
      /\ pc[t] \in {"next_gen", "next_ptr", "same_tail", "link", "forward"} =>
           T # NULL /\ (current => m.tail.p = T)
      /\ pc[t] = "next_ptr" /\ current =>
           /\ l.next.g <= m.next[T].g
           /\ m.next[T].p = NULL => l.next.g = m.next[T].g
      /\ pc[t] \in {"same_tail", "link"} /\ current /\ l.next.p # NULL => m.next[T].p = l.next.p
      /\ pc[t] = "same_tail" /\ current /\ l.next.p = NULL =>
           SamePointer(m.next[T], l.next) \/ m.next[T].g > l.next.g
      /\ pc[t] = "link" /\ l.next.p = NULL =>
           (SamePointer(m.next[T], l.next) /\ m.tail.p = T) \/ m.next[T].g > l.next.g
      /\ pc[t] = "forward" => l.e # NULL /\ (current => m.next[T].p = l.e)

MpDequeues(t) ==
  LET l == r[t]
      H == r[t].head.p
      current == m.head.g = r[t].head.g
  IN  /\ pc[t] \in {"head_ptr", "dtail_gen", "dtail_ptr", "dnext", "compare", "same_head", "commit"} =>
           l.head.g <= m.head.g
      /\ pc[t] \in {"dtail_gen", "dtail_ptr", "dnext", "compare", "same_head", "commit"} =>
           H # NULL /\ (current => m.head.p = H)
      /\ pc[t] \in {"dtail_ptr", "dnext", "compare", "commit"} => l.tail.g <= m.tail.g
      /\ pc[t] \in {"dnext", "compare", "commit"} =>
           /\ l.tail.p # NULL /\ (m.tail.g = l.tail.g => m.tail.p = l.tail.p)
           /\ current /\ l.tail.p # H => m.tail.p # m.head.p
      /\ pc[t] = "compare" =>
           /\ current /\ l.next.p = NULL => t \in m.sawEmpty
           /\ m.tail.g = l.tail.g /\ H = l.tail.p /\ l.next.p # NULL => m.next[H].p = l.next.p
      /\ pc[t] \in {"compare", "commit"} /\ current /\ l.next.p # NULL => m.next[H].p = l.next.p
      /\ pc[t] = "commit" => l.next.p # NULL /\ l.tail.p # H
      /\ pc[t] = "commit" /\ current => l.v = m.enq[Len(m.deq) + 1]
      /\ pc[t] = "same_head" /\ current => t \in m.sawEmpty
      /\ pc[t] = "empty" => t \in m.sawEmpty
      /\ pc[t] \in {"head_gen", "head_ptr", "dtail_gen", "dtail_ptr", "dnext", "compare", "same_head",
                   "commit"} /\ m.deq = m.enq => t \in m.sawEmpty

MpInv ==
  /\ MpMemory /\ MpLocals /\ MpChain /\ MpGenerations /\ MpPlaces
  /\ \A t \in Threads : MpEnqueues(t) /\ MpDequeues(t)

-----------------------------------------------------------------------------
(* ck_fifo_spsc.                                                             *)

SpProducing == {"recycle", "link", "publish", "unlock_tail"}
SpConsuming == {"first", "value", "advance", "empty", "unlock_head"}
SpFields == {"head", "tail", "snapshot", "garbage", "next", "value", "m_head", "m_tail", "new", "deqs",
             "abs", "enq", "deq", "sawEmpty"}
SpMemory ==
  /\ DOMAIN m = SpFields
  /\ m.head \in FifoEntries /\ m.tail \in FifoEntries /\ m.snapshot \in FifoEntries /\ m.garbage \in FifoEntries
  /\ m.next \in [FifoEntries -> FifoEntries \cup {NULL}] /\ m.value \in [FifoEntries -> Int]
  /\ m.m_head \in Threads \cup {NULL} /\ m.m_tail \in Threads \cup {NULL} /\ m.new \subseteq FifoEntries
  /\ m.abs \in Seq(FifoEntries) /\ m.enq \in Seq(Int) /\ m.deq \in Seq(Int)
SpLocals ==
  /\ DOMAIN pc = Threads /\ DOMAIN r = Threads
  /\ \A t \in Threads : /\ pc[t] \in {"idle"} \cup SpProducing \cup SpConsuming
                         /\ DOMAIN r[t] = {"e", "v"} /\ r[t].e \in FifoEntries \cup {NULL}
SpType == SpMemory /\ SpLocals

\* The entries from garbage to tail: snapshot and head are two of them.
SpAt(s, h) ==
  /\ s \in DOMAIN m.abs /\ h \in DOMAIN m.abs /\ s <= h
  /\ m.snapshot = m.abs[s] /\ m.head = m.abs[h]
  /\ Len(m.enq) = Len(m.deq) + Len(m.abs) - h
  /\ \A i \in DOMAIN m.abs : i > h => m.value[m.abs[i]] = Len(m.deq) + i - h
SpChain ==
  /\ m.abs # <<>> /\ Distinct(m.abs) /\ LinkedBy(m.abs, m.next) /\ Members(m.abs) \cap m.new = {}
  /\ m.garbage = m.abs[1] /\ m.tail = m.abs[Len(m.abs)]
  /\ \E s, h \in DOMAIN m.abs : SpAt(s, h)
  /\ \A i \in DOMAIN m.enq : m.enq[i] = i
  /\ \A i \in DOMAIN m.deq : m.deq[i] = i

SpProduces(t) ==
  /\ pc[t] \in SpProducing <=> m.m_tail = t
  /\ pc[t] \in {"link", "publish"} => r[t].e # NULL /\ r[t].e \notin m.new \cup Members(m.abs)
  /\ pc[t] = "publish" => m.next[r[t].e] = NULL /\ m.value[r[t].e] = Len(m.enq) + 1
SpConsumes(t) ==
  /\ pc[t] \in SpConsuming <=> m.m_head = t
  /\ pc[t] \in {"value", "advance"} => r[t].e # NULL /\ r[t].e = m.next[m.head]
  /\ pc[t] = "advance" => r[t].v = Len(m.deq) + 1
  /\ pc[t] = "first" /\ m.enq = m.deq => t \in m.sawEmpty
  /\ pc[t] = "empty" => t \in m.sawEmpty

SpInv ==
  /\ SpType /\ SpChain
  /\ \A t \in Threads : SpProduces(t) /\ SpConsumes(t)

FifoInv ==
  /\ kind = "fifo_spsc" => SpInv
  /\ kind = "fifo_mpmc" => MpInv

-----------------------------------------------------------------------------
(* Sequences.                                                                *)

\* What x in front of a sequence, or behind it, does to it.
LEMMA InFront ==
  ASSUME NEW S, NEW s \in Seq(S), NEW x \in S
  PROVE  /\ <<x>> \o s \in Seq(S) /\ Len(<<x>> \o s) = Len(s) + 1
         /\ (<<x>> \o s)[1] = x
         /\ \A i \in 1 .. Len(s) : (<<x>> \o s)[i + 1] = s[i]
         /\ Members(<<x>> \o s) = {x} \cup Members(s)
         /\ Distinct(s) /\ x \notin Members(s) => Distinct(<<x>> \o s)
PROOF
  <1> DEFINE c == <<x>> \o s
  <1>1. c \in Seq(S) /\ Len(c) = Len(s) + 1 /\ c[1] = x
    OBVIOUS
  <1>2. \A i \in 1 .. Len(s) : c[i + 1] = s[i]
    OBVIOUS
  <1>3. DOMAIN c = 1 .. Len(s) + 1 /\ DOMAIN s = 1 .. Len(s) /\ Len(s) \in Nat
    BY <1>1
  <1> HIDE DEF c
  <1>4. \A i \in DOMAIN c : i = 1 \/ (i - 1 \in DOMAIN s /\ c[i] = s[i - 1])
    <2>1. ASSUME NEW i \in DOMAIN c, i # 1 PROVE i - 1 \in 1 .. Len(s)
      BY <1>3, <2>1
    <2>2. ASSUME NEW i \in DOMAIN c, i # 1 PROVE c[(i - 1) + 1] = s[i - 1]
      BY <1>2, <2>1, <2>2
    <2> QED
      BY <2>1, <2>2, <1>3
  <1>5. \A i \in DOMAIN s : i + 1 \in DOMAIN c /\ c[i + 1] = s[i]
    BY <1>2, <1>3
  <1>6. Members(c) = {x} \cup Members(s)
    <2>1. \A y \in Members(c) : y \in {x} \cup Members(s)
      BY <1>1, <1>4 DEF Members
    <2>2. \A y \in {x} \cup Members(s) : y \in Members(c)
      BY <1>1, <1>3, <1>5 DEF Members
    <2> QED
      BY <2>1, <2>2
  <1>7. ASSUME Distinct(s), x \notin Members(s) PROVE Distinct(c)
    <2> SUFFICES ASSUME NEW i \in DOMAIN c, NEW j \in DOMAIN c, c[i] = c[j] PROVE i = j
      BY DEF Distinct
    <2>1. CASE i = 1 /\ j = 1
      BY <2>1
    <2>2. CASE i = 1 /\ j # 1
      BY <1>1, <1>4, <1>7, <2>2 DEF Members
    <2>3. CASE i # 1 /\ j = 1
      BY <1>1, <1>4, <1>7, <2>3 DEF Members
    <2>4. CASE i # 1 /\ j # 1
      <3>1. i - 1 = j - 1
        BY <1>4, <1>7, <2>4 DEF Distinct
      <3> QED
        BY <3>1, <1>3
    <2> QED
      BY <2>1, <2>2, <2>3, <2>4
  <1> QED
    BY <1>1, <1>2, <1>6, <1>7 DEF c

LEMMA Behind ==
  ASSUME NEW S, NEW s \in Seq(S), NEW x \in S
  PROVE  /\ Append(s, x) \in Seq(S) /\ Len(Append(s, x)) = Len(s) + 1
         /\ DOMAIN Append(s, x) = 1 .. Len(s) + 1
         /\ Append(s, x)[Len(s) + 1] = x
         /\ \A i \in DOMAIN s : Append(s, x)[i] = s[i]
         /\ Members(Append(s, x)) = {x} \cup Members(s)
         /\ Distinct(s) /\ x \notin Members(s) => Distinct(Append(s, x))
PROOF
  <1> DEFINE c == Append(s, x)
  <1>1. c \in Seq(S) /\ Len(c) = Len(s) + 1 /\ c[Len(s) + 1] = x /\ \A i \in 1 .. Len(s) : c[i] = s[i]
    OBVIOUS
  <1>3. DOMAIN c = 1 .. Len(s) + 1 /\ DOMAIN s = 1 .. Len(s) /\ Len(s) \in Nat
    BY <1>1
  <1> HIDE DEF c
  <1>4. \A i \in DOMAIN c : i = Len(s) + 1 \/ (i \in DOMAIN s /\ c[i] = s[i])
    BY <1>1, <1>3
  <1>6. Members(c) = {x} \cup Members(s)
    <2>1. \A y \in Members(c) : y \in {x} \cup Members(s)
      BY <1>1, <1>4 DEF Members
    <2>2. \A y \in {x} \cup Members(s) : y \in Members(c)
      BY <1>1, <1>3 DEF Members
    <2> QED
      BY <2>1, <2>2
  <1>7. ASSUME Distinct(s), x \notin Members(s) PROVE Distinct(c)
    BY <1>1, <1>3, <1>4, <1>7 DEF Distinct, Members
  <1> QED
    BY <1>1, <1>3, <1>6, <1>7 DEF c

\* A sequence without its first element.
LEMMA Without ==
  ASSUME NEW S, NEW s \in Seq(S), s # <<>>
  PROVE  /\ Tail(s) \in Seq(S) /\ Len(s) > 0 /\ Len(Tail(s)) = Len(s) - 1
         /\ DOMAIN Tail(s) = 1 .. Len(s) - 1 /\ 1 \in DOMAIN s /\ Head(s) = s[1] /\ s[1] \in S
         /\ \A i \in DOMAIN Tail(s) : i + 1 \in DOMAIN s /\ Tail(s)[i] = s[i + 1]
         /\ Members(s) = {s[1]} \cup Members(Tail(s))
         /\ Distinct(s) => Distinct(Tail(s)) /\ s[1] \notin Members(Tail(s))
PROOF
  <1> DEFINE c == Tail(s)
  <1>1. c \in Seq(S) /\ Len(s) > 0 /\ Len(c) = Len(s) - 1 /\ Head(s) = s[1]
    OBVIOUS
  <1>2. \A i \in 1 .. Len(s) - 1 : c[i] = s[i + 1]
    OBVIOUS
  <1>3. DOMAIN c = 1 .. Len(s) - 1 /\ DOMAIN s = 1 .. Len(s) /\ Len(s) \in Nat
    BY <1>1
  <1>4. 1 \in DOMAIN s /\ s[1] \in S
    BY <1>1, <1>3
  <1> HIDE DEF c
  <1>5. \A i \in DOMAIN c : i + 1 \in DOMAIN s /\ c[i] = s[i + 1]
    BY <1>2, <1>3
  <1>6. \A i \in DOMAIN s : i = 1 \/ (i - 1 \in DOMAIN c /\ s[i] = c[i - 1])
    <2>1. ASSUME NEW i \in DOMAIN s, i # 1 PROVE i - 1 \in DOMAIN c /\ (i - 1) + 1 = i
      BY <1>3, <2>1
    <2> QED
      BY <1>5, <2>1
  <1>7. Members(s) = {s[1]} \cup Members(c)
    <2>1. \A y \in Members(s) : y \in {s[1]} \cup Members(c)
      BY <1>6 DEF Members
    <2>2. \A y \in {s[1]} \cup Members(c) : y \in Members(s)
      BY <1>4, <1>5 DEF Members
    <2> QED
      BY <2>1, <2>2
  <1>8. ASSUME Distinct(s) PROVE Distinct(c) /\ s[1] \notin Members(c)
    <2>1. ASSUME NEW i \in DOMAIN c, NEW j \in DOMAIN c, c[i] = c[j] PROVE i = j
      BY <1>3, <1>5, <1>8, <2>1 DEF Distinct
    <2>2. ASSUME NEW i \in DOMAIN c PROVE c[i] # s[1]
      BY <1>3, <1>4, <1>5, <1>8, <2>2 DEF Distinct
    <2> QED
      BY <2>1, <2>2 DEF Distinct, Members
  <1> QED
    BY <1>1, <1>3, <1>4, <1>5, <1>7, <1>8 DEF c

\* The first of s moves to the end of k, or goes.
LEMMA MovesOver ==
  ASSUME NEW S, NEW k \in Seq(S), NEW s \in Seq(S), s # <<>>
  PROVE  /\ Append(k, Head(s)) \in Seq(S) /\ Tail(s) \in Seq(S)
         /\ Append(k, Head(s)) \o Tail(s) = k \o s
         /\ Members(Tail(s)) \subseteq Members(s) /\ Members(s) \subseteq Members(k \o s)
         /\ Head(s) \in Members(s) /\ Head(s) \in S
         /\ k \o Tail(s) \in Seq(S)
         /\ Members(k \o Tail(s)) \subseteq Members(k \o s)
         /\ Distinct(k \o s) =>
              /\ Distinct(k \o Tail(s))
              /\ Members(k \o Tail(s)) = Members(k \o s) \ {Head(s)}
PROOF
  <1> DEFINE c == k \o s
             d == k \o Tail(s)
             a == Append(k, Head(s))
             n == Len(k)
  <1>1. /\ Tail(s) \in Seq(S) /\ Len(s) > 0 /\ Len(Tail(s)) = Len(s) - 1 /\ Head(s) = s[1] /\ s[1] \in S
        /\ DOMAIN s = 1 .. Len(s) /\ DOMAIN k = 1 .. n /\ n \in Nat /\ Len(s) \in Nat
        /\ \A i \in 1 .. Len(s) - 1 : Tail(s)[i] = s[i + 1]
    OBVIOUS
  <1>2. /\ c \in Seq(S) /\ Len(c) = n + Len(s) /\ DOMAIN c = 1 .. n + Len(s)
        /\ (\A i \in 1 .. n : c[i] = k[i]) /\ (\A i \in 1 .. Len(s) : c[n + i] = s[i])
    OBVIOUS
  <1>3. /\ d \in Seq(S) /\ Len(d) = n + Len(s) - 1 /\ DOMAIN d = 1 .. n + Len(s) - 1
        /\ (\A i \in 1 .. n : d[i] = k[i]) /\ (\A i \in 1 .. Len(s) - 1 : d[n + i] = Tail(s)[i])
    BY <1>1
  <1>4. /\ a \in Seq(S) /\ Len(a) = n + 1 /\ a[n + 1] = s[1] /\ \A i \in 1 .. n : a[i] = k[i]
    BY <1>1
  <1> HIDE DEF c, d, a, n
  <1>5. a \o Tail(s) = c
    <2> DEFINE b == a \o Tail(s)
    <2>1. /\ b \in Seq(S) /\ Len(b) = n + Len(s)
          /\ (\A i \in 1 .. n + 1 : b[i] = a[i]) /\ (\A i \in 1 .. Len(s) - 1 : b[(n + 1) + i] = Tail(s)[i])
      <3>1. ASSUME NEW x \in Seq(S), NEW y \in Seq(S)
            PROVE  /\ x \o y \in Seq(S) /\ Len(x \o y) = Len(x) + Len(y)
                   /\ (\A i \in 1 .. Len(x) : (x \o y)[i] = x[i])
                   /\ (\A i \in 1 .. Len(y) : (x \o y)[Len(x) + i] = y[i])
        OBVIOUS
      <3>2. /\ b \in Seq(S) /\ Len(b) = Len(a) + Len(Tail(s))
            /\ (\A i \in 1 .. Len(a) : b[i] = a[i])
            /\ (\A i \in 1 .. Len(Tail(s)) : b[Len(a) + i] = Tail(s)[i])
        BY <3>1, <1>1, <1>4
      <3> HIDE DEF b
      <3> QED
        BY <3>2, <1>1, <1>4
    <2> HIDE DEF b
    <2>2. ASSUME NEW i \in 1 .. n + Len(s) PROVE b[i] = c[i]
      <3>1. CASE i <= n
        BY <3>1, <2>1, <1>4, <1>2, <1>1
      <3>2. CASE i = n + 1
        <4>1. c[n + 1] = s[1]
          BY <1>1, <1>2
        <4> QED
          BY <3>2, <4>1, <2>1, <1>4, <1>1
      <3>3. CASE i > n + 1
        <4> DEFINE j == i - (n + 1)
        <4>1. j \in 1 .. Len(s) - 1 /\ i = (n + 1) + j /\ j + 1 \in 1 .. Len(s) /\ i = n + (j + 1)
          BY <3>3, <1>1
        <4> HIDE DEF j
        <4>2. b[i] = Tail(s)[j] /\ c[i] = s[j + 1]
          BY <4>1, <2>1, <1>2
        <4> QED
          BY <4>1, <4>2, <1>1
      <3> QED
        BY <3>1, <3>2, <3>3, <1>1
    <2>3. b = c
      <3>1. b = [i \in 1 .. Len(b) |-> b[i]] /\ c = [i \in 1 .. Len(c) |-> c[i]]
        BY <2>1, <1>2
      <3> QED
        BY <3>1, <2>1, <2>2, <1>2
    <2> QED
      BY <2>3 DEF b
  <1>6. Members(Tail(s)) \subseteq Members(s) /\ s[1] \in Members(s)
    BY <1>1 DEF Members
  <1>7. Members(s) \subseteq Members(c)
    BY <1>1, <1>2 DEF Members
  <1>8. \A i \in DOMAIN d : IF i <= n THEN i \in DOMAIN c /\ d[i] = c[i]
                            ELSE i + 1 \in DOMAIN c /\ d[i] = c[i + 1]
    <2> SUFFICES ASSUME NEW i \in DOMAIN d
                 PROVE  IF i <= n THEN i \in DOMAIN c /\ d[i] = c[i]
                        ELSE i + 1 \in DOMAIN c /\ d[i] = c[i + 1]
      OBVIOUS
    <2>1. CASE i <= n
      BY <2>1, <1>1, <1>2, <1>3
    <2>2. CASE ~(i <= n)
      <3> DEFINE j == i - n
      <3>1. j \in 1 .. Len(s) - 1 /\ i = n + j /\ j + 1 \in 1 .. Len(s) /\ i + 1 = n + (j + 1) /\ i + 1 \in DOMAIN c
        BY <2>2, <1>1, <1>2, <1>3, SMTT(30)
      <3> HIDE DEF j
      <3>2. d[i] = Tail(s)[j] /\ c[i + 1] = s[j + 1]
        BY <3>1, <1>2, <1>3
      <3> QED
        BY <2>2, <3>1, <3>2, <1>1
    <2> QED
      BY <2>1, <2>2
  <1>9. Members(d) \subseteq Members(c)
    BY <1>8 DEF Members
  <1>10. ASSUME Distinct(c) PROVE Distinct(d) /\ Members(d) = Members(c) \ {s[1]}
    <2>0. n + 1 \in DOMAIN c /\ c[n + 1] = s[1]
      BY <1>1, <1>2
    <2>1. Distinct(d)
      <3> SUFFICES ASSUME NEW i \in DOMAIN d, NEW j \in DOMAIN d, d[i] = d[j] PROVE i = j
        BY DEF Distinct
      <3>1. i \in Int /\ j \in Int /\ n \in Int
        BY <1>1, <1>3
      <3> QED
        BY <3>1, <1>8, <1>10 DEF Distinct
    <2>2. ASSUME NEW i \in DOMAIN d PROVE d[i] # s[1]
      <3>1. i \in Int /\ n \in Int
        BY <1>1, <1>3
      <3> QED
        BY <3>1, <1>8, <1>10, <2>0 DEF Distinct
    <2>3. ASSUME NEW i \in DOMAIN c, c[i] # s[1] PROVE c[i] \in Members(d)
      <3>1. CASE i <= n
        <4>1. i \in DOMAIN d /\ d[i] = c[i]
          BY <3>1, <1>1, <1>2, <1>3
        <4> QED
          BY <4>1 DEF Members
      <3>2. CASE i > n
        <4>1. i # n + 1
          BY <2>0, <2>3
        <4>2. i - 1 \in DOMAIN d /\ ~(i - 1 <= n) /\ (i - 1) + 1 = i
          BY <4>1, <3>2, <1>1, <1>2, <1>3
        <4> QED
          BY <4>2, <1>8 DEF Members
      <3> QED
        BY <3>1, <3>2, <1>1, <1>2
    <2>4. \A y \in Members(d) : y \in Members(c) \ {s[1]}
      BY <1>9, <2>2 DEF Members
    <2>5. \A y \in Members(c) \ {s[1]} : y \in Members(d)
      BY <2>3 DEF Members
    <2> QED
      BY <2>1, <2>4, <2>5
  <1> QED
    BY <1>1, <1>2, <1>3, <1>4, <1>5, <1>6, <1>7, <1>9, <1>10 DEF a, c, d

-----------------------------------------------------------------------------
(* Chains.                                                                   *)

LEMMA LinkedSame ==
  ASSUME NEW s, NEW f, NEW g, LinkedBy(s, f), \A x \in Members(s) : g[x] = f[x]
  PROVE  LinkedBy(s, g)
PROOF
  BY DEF LinkedBy, Members

LEMMA LinkedFront ==
  ASSUME NEW S, NEW s \in Seq(S), NEW x \in S, NEW f, LinkedBy(s, f),
         f[x] = IF s = <<>> THEN NULL ELSE s[1]
  PROVE  LinkedBy(<<x>> \o s, f)
PROOF
  <1> DEFINE c == <<x>> \o s
  <1>1. /\ Len(c) = Len(s) + 1 /\ c[1] = x /\ \A i \in 1 .. Len(s) : c[i + 1] = s[i]
        /\ c \in Seq(S)
    BY InFront
  <1>2. DOMAIN c = 1 .. Len(s) + 1 /\ DOMAIN s = 1 .. Len(s) /\ Len(s) \in Nat
    BY <1>1
  <1>3. s = <<>> <=> Len(s) = 0
    OBVIOUS
  <1> HIDE DEF c
  <1>4. ASSUME NEW i \in DOMAIN c PROVE f[c[i]] = IF i = Len(c) THEN NULL ELSE c[i + 1]
    <2>1. CASE i = 1
      <3>1. s # <<>> => c[2] = s[1]
        BY <1>1, <1>2, <1>3
      <3> QED
        BY <1>1, <1>2, <1>3, <2>1, <3>1
    <2>2. CASE i # 1
      <3> DEFINE j == i - 1
      <3>1. j \in 1 .. Len(s) /\ i = j + 1
        BY <1>2, <2>2
      <3> HIDE DEF j
      <3>2. c[i] = s[j] /\ f[s[j]] = IF j = Len(s) THEN NULL ELSE s[j + 1]
        BY <1>1, <1>2, <3>1 DEF LinkedBy
      <3>a. ASSUME NEW n \in Nat, NEW k \in 1 .. n
            PROVE  /\ k # n => k + 1 \in 1 .. n
                   /\ n + 1 = k + 1 <=> k = n
        OBVIOUS
      <3>3. j # Len(s) => j + 1 \in 1 .. Len(s)
        BY <1>2, <3>1, <3>a
      <3>4. j # Len(s) => c[(j + 1) + 1] = s[j + 1]
        BY <1>1, <3>3
      <3>5. Len(c) = i <=> j = Len(s)
        BY <1>1, <1>2, <3>1, <3>a
      <3> QED
        BY <3>1, <3>2, <3>4, <3>5
    <2> QED
      BY <2>1, <2>2
  <1> QED
    BY <1>4 DEF LinkedBy, c

LEMMA LinkedTail ==
  ASSUME NEW S, NEW s \in Seq(S), s # <<>>, NEW f, LinkedBy(s, f)
  PROVE  /\ LinkedBy(Tail(s), f)
         /\ f[s[1]] = IF Tail(s) = <<>> THEN NULL ELSE Tail(s)[1]
PROOF
  <1> DEFINE c == Tail(s)
  <1>1. /\ c \in Seq(S) /\ Len(s) > 0 /\ Len(c) = Len(s) - 1 /\ DOMAIN c = 1 .. Len(s) - 1 /\ 1 \in DOMAIN s
        /\ \A i \in DOMAIN c : i + 1 \in DOMAIN s /\ c[i] = s[i + 1]
    BY Without
  <1>2. Len(s) \in Nat /\ DOMAIN s = 1 .. Len(s)
    OBVIOUS
  <1> HIDE DEF c
  <1>3. c = <<>> <=> Len(c) = 0
    BY <1>1
  <1>4. ASSUME NEW i \in DOMAIN c PROVE f[c[i]] = IF i = Len(c) THEN NULL ELSE c[i + 1]
    <2>1. i + 1 \in DOMAIN s /\ c[i] = s[i + 1] /\ f[s[i + 1]] = IF i + 1 = Len(s) THEN NULL ELSE s[i + 1 + 1]
      BY <1>1 DEF LinkedBy
    <2>2. i # Len(c) => c[i + 1] = s[i + 1 + 1]
      BY <1>1, <1>2
    <2> QED
      BY <1>1, <1>2, <2>1, <2>2
  <1>5. f[s[1]] = IF 1 = Len(s) THEN NULL ELSE s[1 + 1]
    BY <1>1 DEF LinkedBy
  <1>6. Len(s) # 1 => c[1] = s[1 + 1]
    BY <1>1, <1>2
  <1>7. f[s[1]] = IF c = <<>> THEN NULL ELSE c[1]
    BY <1>1, <1>2, <1>3, <1>5, <1>6
  <1>8. LinkedBy(c, f)
    BY <1>4 DEF LinkedBy
  <1> QED
    BY <1>7, <1>8 DEF c

LEMMA LastOf ==
  ASSUME NEW n \in Nat, n > 0
  PROVE  n \in 1 .. n /\ n # n + 1
PROOF
  OBVIOUS

\* The last entry gets a successor.
LEMMA LinkedBehind ==
  ASSUME NEW S, NEW s \in Seq(S), NEW x \in S, s # <<>>, Distinct(s), x \notin Members(s),
         NEW f, NEW g, LinkedBy(s, f), g[x] = NULL, g[s[Len(s)]] = x,
         \A y \in Members(s) \ {s[Len(s)]} : g[y] = f[y]
  PROVE  LinkedBy(Append(s, x), g)
PROOF
  <1> DEFINE c == Append(s, x)
  <1>1. /\ Len(c) = Len(s) + 1 /\ DOMAIN c = 1 .. Len(s) + 1 /\ c[Len(s) + 1] = x
        /\ \A i \in DOMAIN s : c[i] = s[i]
    BY Behind
  <1>2. Len(s) \in Nat /\ DOMAIN s = 1 .. Len(s) /\ Len(s) > 0
    OBVIOUS
  <1> HIDE DEF c
  <1>3. ASSUME NEW i \in DOMAIN c PROVE g[c[i]] = IF i = Len(c) THEN NULL ELSE c[i + 1]
    <2>1. CASE i = Len(s) + 1
      BY <1>1, <2>1
    <2>2. CASE i = Len(s)
      <3>1. c[Len(s)] = s[Len(s)] /\ c[i + 1] = x /\ i # Len(c)
        <4>1. Len(s) \in DOMAIN s /\ Len(s) # Len(s) + 1
          BY <1>2, LastOf
        <4> QED
          BY <1>1, <2>2, <4>1
      <3> QED
        BY <2>2, <3>1
    <2>3. CASE i < Len(s)
      <3>1. i \in DOMAIN s /\ i + 1 \in DOMAIN s /\ Len(s) \in DOMAIN s
        BY <1>1, <1>2, <2>3
      <3>2. s[i] \in Members(s) /\ s[i] # s[Len(s)]
        BY <1>2, <2>3, <3>1 DEF Members, Distinct
      <3>3. g[s[i]] = s[i + 1]
        BY <1>2, <2>3, <3>1, <3>2 DEF LinkedBy
      <3> QED
        BY <1>1, <1>2, <2>3, <3>1, <3>3
    <2> QED
      BY <1>1, <1>2, <2>1, <2>2, <2>3
  <1> QED
    BY <1>3 DEF LinkedBy, c

-----------------------------------------------------------------------------
(* ck_fifo_spsc.  The step of one side leaves the other side alone.          *)

SpMoves(t) ==
  \A u \in Threads \ {t} : pc'[u] = pc[u] /\ r'[u] = r[u]

LEMMA SpOfProducer ==
  ASSUME NEW t \in Threads, SpInv, SpMoves(t), SpType', SpChain', SpProduces(t)', SpConsumes(t)',
         m.m_tail \in {t, NULL}, m'.m_tail \in {t, NULL},
         m'.m_head = m.m_head, m'.head = m.head, m'.deq = m.deq, m'.sawEmpty = m.sawEmpty,
         m.next[m.head] # NULL => m'.next[m.head] = m.next[m.head],
         m'.enq = m.enq \/ m'.enq # m.deq
  PROVE  SpInv'
PROOF
  <1>1. ASSUME NEW u \in Threads, u # t PROVE SpProduces(u)' /\ SpConsumes(u)'
    <2>1. pc'[u] = pc[u] /\ r'[u] = r[u] /\ SpProduces(u) /\ SpConsumes(u)
      BY <1>1 DEF SpMoves, SpInv
    <2>2. m.m_tail # u /\ m'.m_tail # u
      BY <1>1, QueuesAssumption
    <2>3. pc[u] \notin SpProducing
      BY <2>1, <2>2 DEF SpProduces
    <2>4. SpProduces(u)'
      BY <2>1, <2>2, <2>3 DEF SpProduces, SpProducing
    <2>5. SpConsumes(u)'
      BY <2>1 DEF SpConsumes
    <2> QED
      BY <2>4, <2>5
  <1> QED
    BY <1>1 DEF SpInv

LEMMA SpOfConsumer ==
  ASSUME NEW t \in Threads, SpInv, SpMoves(t), SpType', SpChain', SpProduces(t)', SpConsumes(t)',
         m.m_head \in {t, NULL}, m'.m_head \in {t, NULL},
         m'.m_tail = m.m_tail, m'.new = m.new, m'.abs = m.abs, m'.next = m.next, m'.value = m.value,
         m'.enq = m.enq
  PROVE  SpInv'
PROOF
  <1>1. ASSUME NEW u \in Threads, u # t PROVE SpProduces(u)' /\ SpConsumes(u)'
    <2>1. pc'[u] = pc[u] /\ r'[u] = r[u] /\ SpProduces(u) /\ SpConsumes(u)
      BY <1>1 DEF SpMoves, SpInv
    <2>2. m.m_head # u /\ m'.m_head # u
      BY <1>1, QueuesAssumption
    <2>3. pc[u] \notin SpConsuming
      BY <2>1, <2>2 DEF SpConsumes
    <2>4. SpConsumes(u)'
      BY <2>1, <2>2, <2>3 DEF SpConsumes, SpConsuming
    <2>5. Members(m.abs)' = Members(m.abs)
      BY DEF Members
    <2>6. SpProduces(u)'
      BY <2>1, <2>5 DEF SpProduces
    <2> QED
      BY <2>4, <2>6
  <1> QED
    BY <1>1 DEF SpInv

LEMMA SpChainSame ==
  ASSUME SpChain, \A f \in {"head", "tail", "snapshot", "garbage", "next", "value", "new", "abs", "enq", "deq"} :
                    m'[f] = m[f]
  PROVE  SpChain'
PROOF
  <1>1. /\ m'.head = m.head /\ m'.tail = m.tail /\ m'.snapshot = m.snapshot /\ m'.garbage = m.garbage
        /\ m'.next = m.next /\ m'.value = m.value /\ m'.new = m.new /\ m'.abs = m.abs /\ m'.enq = m.enq
        /\ m'.deq = m.deq
    OBVIOUS
  <1>2. \A s, h \in DOMAIN m.abs : SpAt(s, h) => SpAt(s, h)'
    BY <1>1 DEF SpAt
  <1>3. Distinct(m.abs)' /\ LinkedBy(m.abs, m.next)' /\ (Members(m.abs) \cap m.new = {})'
    BY <1>1 DEF SpChain, Distinct, LinkedBy, Members
  <1> QED
    BY <1>1, <1>2, <1>3 DEF SpChain

\* What a step does to the local variables.
LEMMA SpPut ==
  ASSUME NEW t \in Threads, SpLocals, NEW l, NEW new, pc' = [pc EXCEPT ![t] = l], Sp!Put(t, new),
         l \in {"idle"} \cup SpProducing \cup SpConsuming,
         "e" \in DOMAIN new => new.e \in FifoEntries \cup {NULL}
  PROVE  /\ SpLocals' /\ SpMoves(t) /\ pc'[t] = l
         /\ r'[t].e = IF "e" \in DOMAIN new THEN new.e ELSE r[t].e
         /\ r'[t].v = IF "v" \in DOMAIN new THEN new.v ELSE r[t].v
PROOF
  <1>1. DOMAIN pc' = Threads /\ pc'[t] = l /\ \A u \in Threads \ {t} : pc'[u] = pc[u]
    BY DEF SpLocals
  <1>2. DOMAIN r' = Threads /\ r'[t] = Sp!With(r[t], new) /\ \A u \in Threads \ {t} : r'[u] = r[u]
    BY DEF SpLocals, Sp!Put
  <1>3. DOMAIN r[t] = {"e", "v"} /\ r[t].e \in FifoEntries \cup {NULL}
    BY DEF SpLocals
  <1>4. /\ DOMAIN r'[t] = {"e", "v"}
        /\ r'[t].e = IF "e" \in DOMAIN new THEN new.e ELSE r[t].e
        /\ r'[t].v = IF "v" \in DOMAIN new THEN new.v ELSE r[t].v
    BY <1>2, <1>3 DEF Sp!With
  <1>5. SpLocals'
    BY <1>1, <1>2, <1>3, <1>4 DEF SpLocals
  <1> QED
    BY <1>1, <1>2, <1>4, <1>5 DEF SpMoves

LEMMA SpGo ==
  ASSUME NEW t \in Threads, SpLocals, NEW l, pc' = [pc EXCEPT ![t] = l], r' = r,
         l \in {"idle"} \cup SpProducing \cup SpConsuming
  PROVE  SpLocals' /\ SpMoves(t) /\ pc'[t] = l /\ r'[t] = r[t]
PROOF
  BY DEF SpLocals, SpMoves

LEMMA SpKnown ==
  ASSUME NEW t \in Threads, SpInv
  PROVE  /\ SpMemory /\ SpLocals /\ SpChain /\ SpProduces(t) /\ SpConsumes(t)
         /\ DOMAIN m = SpFields /\ t # NULL
         /\ pc[t] = "idle" => m.m_tail # t /\ m.m_head # t
         /\ pc[t] \in SpProducing => m.m_tail = t /\ m.m_head # t /\ pc[t] \notin SpConsuming
         /\ pc[t] \in SpConsuming => m.m_head = t /\ m.m_tail # t /\ pc[t] \notin SpProducing
PROOF
  BY QueuesAssumption DEF SpInv, SpType, SpMemory, SpProduces, SpConsumes, SpProducing, SpConsuming

LEMMA SpEnqueueLock ==
  ASSUME NEW t \in Threads, SpInv, Sp!EnqueueLock(t)
  PROVE  SpInv'
PROOF
  <1>1. /\ SpMemory /\ SpLocals /\ SpChain /\ DOMAIN m = SpFields /\ t # NULL /\ SpConsumes(t) /\ SpProduces(t)
        /\ pc[t] = "idle" /\ m.m_head # t
    BY SpKnown DEF Sp!EnqueueLock, Sp!Step, Sp!At
  <1>2. m.m_tail = NULL /\ m' = [m EXCEPT !.m_tail = t]
    BY DEF Sp!EnqueueLock
  <1>3. SpLocals' /\ SpMoves(t) /\ pc'[t] = "recycle"
    BY <1>1, SpGo DEF Sp!EnqueueLock, Sp!Step, Sp!Go, SpProducing
  <1>4. DOMAIN m' = SpFields /\ m'.m_tail = t /\ \A f \in SpFields \ {"m_tail"} : m'[f] = m[f]
    BY <1>1, <1>2 DEF SpFields
  <1>5. SpChain' /\ SpMemory'
    <2>1. SpChain'
      BY <1>1, <1>4, SpChainSame DEF SpFields
    <2> QED
      BY <1>1, <1>4, <2>1 DEF SpMemory, SpFields
  <1>6. SpProduces(t)' /\ SpConsumes(t)'
    BY <1>1, <1>3, <1>4 DEF SpProduces, SpConsumes, SpProducing, SpConsuming, SpFields
  <1> QED
    BY <1>2, <1>3, <1>4, <1>5, <1>6, SpOfProducer DEF SpType, SpFields

\* The producer gives its lock back.
LEMMA SpEnqueueUnlocks ==
  ASSUME NEW t \in Threads, SpInv, pc[t] \in SpProducing, m' = [m EXCEPT !.m_tail = NULL],
         SpLocals', SpMoves(t), pc'[t] = "idle"
  PROVE  SpInv'
PROOF
  <1>1. /\ SpMemory /\ SpLocals /\ SpChain /\ DOMAIN m = SpFields /\ t # NULL /\ SpConsumes(t) /\ SpProduces(t)
        /\ m.m_head # t /\ m.m_tail = t
    BY SpKnown
  <1>4. DOMAIN m' = SpFields /\ m'.m_tail = NULL /\ \A f \in SpFields \ {"m_tail"} : m'[f] = m[f]
    BY <1>1 DEF SpFields
  <1>5. SpChain' /\ SpMemory'
    <2>1. SpChain'
      BY <1>1, <1>4, SpChainSame DEF SpFields
    <2> QED
      BY <1>1, <1>4, <2>1 DEF SpMemory, SpFields
  <1>6. SpProduces(t)' /\ SpConsumes(t)'
    BY <1>1, <1>4 DEF SpProduces, SpConsumes, SpProducing, SpConsuming, SpFields
  <1> QED
    BY <1>1, <1>4, <1>5, <1>6, SpOfProducer DEF SpType, SpFields

LEMMA SpNoEntry ==
  ASSUME NEW t \in Threads, SpInv, Sp!NoEntry(t)
  PROVE  SpInv'
PROOF
  <1>1. SpLocals /\ pc[t] \in SpProducing
    BY SpKnown DEF Sp!NoEntry, Sp!Step, Sp!At, SpProducing
  <1>2. SpLocals' /\ SpMoves(t) /\ pc'[t] = "idle"
    BY <1>1, SpGo DEF Sp!NoEntry, Sp!Step, Sp!Go
  <1> QED
    BY <1>1, <1>2, SpEnqueueUnlocks DEF Sp!NoEntry

LEMMA SpEnqueueUnlock ==
  ASSUME NEW t \in Threads, SpInv, Sp!EnqueueUnlock(t)
  PROVE  SpInv'
PROOF
  <1>1. SpLocals /\ pc[t] \in SpProducing
    BY SpKnown DEF Sp!EnqueueUnlock, Sp!Step, Sp!At, SpProducing
  <1>2. SpLocals' /\ SpMoves(t) /\ pc'[t] = "idle"
    BY <1>1, SpPut DEF Sp!EnqueueUnlock, Sp!Step, Sp!Go
  <1> QED
    BY <1>1, <1>2, SpEnqueueUnlocks DEF Sp!EnqueueUnlock

LEMMA SpWrite ==
  ASSUME NEW t \in Threads, SpInv, Sp!Write(t)
  PROVE  SpInv'
PROOF
  <1> DEFINE e == r[t].e
  <1>1. /\ SpMemory /\ SpLocals /\ SpChain /\ DOMAIN m = SpFields /\ SpConsumes(t) /\ SpProduces(t)
        /\ pc[t] = "link" /\ m.m_head # t /\ m.m_tail = t
    BY SpKnown DEF Sp!Write, Sp!Step, Sp!At, SpProducing
  <1>2. e \in FifoEntries /\ e \notin m.new \cup Members(m.abs) /\ e # NULL
    BY <1>1 DEF SpProduces, SpLocals
  <1>3. SpLocals' /\ SpMoves(t) /\ pc'[t] = "publish" /\ r'[t] = r[t]
    BY <1>1, SpGo DEF Sp!Write, Sp!Step, Sp!Go, SpProducing
  <1>4. m' = [m EXCEPT !.value[e] = Len(m.enq) + 1, !.next[e] = NULL]
    BY DEF Sp!Write
  <1>5. /\ DOMAIN m' = SpFields /\ \A f \in SpFields \ {"value", "next"} : m'[f] = m[f]
        /\ m'.value = [m.value EXCEPT ![e] = Len(m.enq) + 1] /\ m'.next = [m.next EXCEPT ![e] = NULL]
    BY <1>1, <1>4 DEF SpFields
  <1>6. /\ m'.head = m.head /\ m'.tail = m.tail /\ m'.snapshot = m.snapshot /\ m'.garbage = m.garbage
        /\ m'.new = m.new /\ m'.abs = m.abs /\ m'.enq = m.enq /\ m'.deq = m.deq
        /\ m'.m_tail = m.m_tail /\ m'.m_head = m.m_head /\ m'.sawEmpty = m.sawEmpty
    BY <1>5 DEF SpFields
  <1> HIDE DEF e
  <1>7. \A x \in FifoEntries : x # e => m'.value[x] = m.value[x] /\ m'.next[x] = m.next[x]
    BY <1>1, <1>2, <1>5 DEF SpMemory
  <1>8. m'.value[e] = Len(m.enq) + 1 /\ m'.next[e] = NULL /\ Len(m.enq) \in Int
    BY <1>1, <1>2, <1>5 DEF SpMemory
  <1>9. \A x \in Members(m.abs) : x \in FifoEntries /\ x # e
    BY <1>1, <1>2 DEF SpMemory, Members
  <1>10. SpMemory'
    BY <1>1, <1>2, <1>5, <1>6, <1>8 DEF SpMemory
  <1>11. SpChain'
    <2>1. LinkedBy(m.abs, m'.next)
      <3>1. LinkedBy(m.abs, m.next)
        BY <1>1 DEF SpChain
      <3>2. \A x \in Members(m.abs) : m'.next[x] = m.next[x]
        BY <1>7, <1>9
      <3> QED
        BY <3>1, <3>2, LinkedSame
    <2>2. \A i \in DOMAIN m.abs : m'.value[m.abs[i]] = m.value[m.abs[i]]
      BY <1>7, <1>9 DEF Members
    <2>3. \A s, h \in DOMAIN m.abs : SpAt(s, h) => SpAt(s, h)'
      BY <1>6, <2>2 DEF SpAt
    <2>4. Distinct(m.abs)' /\ LinkedBy(m.abs, m.next)' /\ (Members(m.abs) \cap m.new = {})'
      BY <1>1, <1>6, <2>1 DEF SpChain, Distinct, LinkedBy, Members
    <2> QED
      BY <1>1, <1>6, <2>3, <2>4 DEF SpChain
  <1>12. SpProduces(t)'
    <2>1. Members(m.abs)' = Members(m.abs)
      BY <1>6 DEF Members
    <2> QED
      BY <1>1, <1>2, <1>3, <1>6, <1>8, <2>1 DEF SpProduces, SpProducing, e
  <1>13. SpConsumes(t)'
    BY <1>1, <1>3, <1>6 DEF SpConsumes, SpConsuming
  <1>14. m'.next[m.head] = m.next[m.head]
    <2>1. m.head \in Members(m.abs)
      BY <1>1 DEF SpChain, SpAt, Members
    <2> QED
      BY <1>7, <1>9, <2>1
  <1> QED
    BY <1>1, <1>3, <1>6, <1>10, <1>11, <1>12, <1>13, <1>14, SpOfProducer DEF SpType

\* The last look at the head may be replaced by another.
LEMMA SpLooks ==
  ASSUME SpChain, NEW s \in DOMAIN m.abs, NEW h \in DOMAIN m.abs, SpAt(s, h), SpMemory
  PROVE  LET snapshot == IF m.snapshot = m.garbage THEN m.head ELSE m.snapshot
         IN  /\ \E k \in DOMAIN m.abs : k <= h /\ snapshot = m.abs[k]
             /\ snapshot \in FifoEntries
PROOF
  <1>1. h <= h /\ m.head = m.abs[h] /\ s <= h /\ m.snapshot = m.abs[s] /\ m.head \in FifoEntries /\ m.snapshot \in FifoEntries
    BY DEF SpAt, SpMemory
  <1> QED
    BY <1>1

LEMMA SpPutEntry ==
  ASSUME NEW t \in Threads, SpLocals, NEW e \in FifoEntries, pc' = [pc EXCEPT ![t] = "link"], Sp!Put(t, [e |-> e])
  PROVE  SpLocals' /\ SpMoves(t) /\ pc'[t] = "link" /\ r'[t].e = e
PROOF
  <1>1. DOMAIN [e |-> e] = {"e"} /\ [e |-> e].e = e
    OBVIOUS
  <1>2. "link" \in SpProducing
    BY DEF SpProducing
  <1> QED
    BY <1>1, <1>2, SpPut

LEMMA SpTakesNew ==
  ASSUME NEW t \in Threads, SpInv, pc[t] = "recycle", NEW snapshot, NEW e \in m.new,
         snapshot = IF m.snapshot = m.garbage THEN m.head ELSE m.snapshot,
         m' = [m EXCEPT !.new = @ \ {e}, !.snapshot = snapshot],
         Sp!Put(t, [e |-> e]), pc' = [pc EXCEPT ![t] = "link"]
  PROVE  SpInv'
PROOF
  <1>1. /\ SpMemory /\ SpLocals /\ SpChain /\ DOMAIN m = SpFields /\ SpConsumes(t) /\ SpProduces(t)
        /\ m.m_head # t /\ m.m_tail = t
    BY SpKnown DEF SpProducing
  <1>2. e \in FifoEntries /\ e \notin Members(m.abs) /\ e # NULL
    BY <1>1, QueuesAssumption DEF SpChain, SpMemory, FifoEntries
  <1>3. SpLocals' /\ SpMoves(t) /\ pc'[t] = "link" /\ r'[t].e = e
    BY <1>1, <1>2, SpPutEntry
  <1>4. /\ DOMAIN m' = SpFields /\ \A f \in SpFields \ {"new", "snapshot"} : m'[f] = m[f]
        /\ m'.new = m.new \ {e} /\ m'.snapshot = snapshot
    BY <1>1 DEF SpFields
  <1>5. /\ m'.head = m.head /\ m'.tail = m.tail /\ m'.garbage = m.garbage
        /\ m'.abs = m.abs /\ m'.enq = m.enq /\ m'.deq = m.deq /\ m'.next = m.next /\ m'.value = m.value
        /\ m'.m_tail = m.m_tail /\ m'.m_head = m.m_head /\ m'.sawEmpty = m.sawEmpty
    BY <1>4 DEF SpFields
  <1>6. PICK s, h \in DOMAIN m.abs : SpAt(s, h)
    BY <1>1 DEF SpChain
  <1>7. PICK k \in DOMAIN m.abs : k <= h /\ snapshot = m.abs[k]
    BY <1>1, <1>6, SpLooks
  <1>8. snapshot \in FifoEntries
    BY <1>1, <1>6, SpLooks
  <1>9. SpMemory'
    BY <1>1, <1>4, <1>5, <1>8 DEF SpMemory
  <1>10. SpAt(k, h)'
    BY <1>4, <1>5, <1>6, <1>7 DEF SpAt
  <1>11. SpChain'
    <2>1. Distinct(m.abs)' /\ LinkedBy(m.abs, m.next)' /\ (Members(m.abs) \cap m.new = {})'
      BY <1>1, <1>4, <1>5 DEF SpChain, Distinct, LinkedBy, Members
    <2> QED
      BY <1>1, <1>5, <1>10, <2>1 DEF SpChain
  <1>12. SpProduces(t)'
    <2>1. Members(m.abs)' = Members(m.abs)
      BY <1>5 DEF Members
    <2> QED
      BY <1>1, <1>2, <1>3, <1>4, <1>5, <2>1 DEF SpProduces, SpProducing
  <1>13. SpConsumes(t)'
    BY <1>1, <1>3, <1>5 DEF SpConsumes, SpConsuming
  <1> QED
    BY <1>1, <1>3, <1>5, <1>9, <1>11, <1>12, <1>13, SpOfProducer DEF SpType

LEMMA SpShift ==
  ASSUME NEW k \in Int, NEW h \in Int, NEW n \in Int, NEW d \in Int, k \in 1 .. n, h \in 1 .. n, k # 1, k <= h
  PROVE  /\ k - 1 \in 1 .. n - 1 /\ h - 1 \in 1 .. n - 1 /\ k - 1 <= h - 1 /\ (k - 1) + 1 = k /\ (h - 1) + 1 = h
         /\ d + n - h = d + (n - 1) - (h - 1) /\ n > 1
         /\ \A i \in Int : i > h - 1 => i + 1 > h /\ d + (i + 1) - h = d + i - (h - 1)
PROOF
  OBVIOUS

LEMMA SpTakesOld ==
  ASSUME NEW t \in Threads, SpInv, pc[t] = "recycle", NEW snapshot,
         snapshot = IF m.snapshot = m.garbage THEN m.head ELSE m.snapshot, snapshot # m.garbage,
         m' = [m EXCEPT !.snapshot = snapshot, !.garbage = m.next[@], !.abs = Tail(@)],
         Sp!Put(t, [e |-> m.garbage]), pc' = [pc EXCEPT ![t] = "link"]
  PROVE  SpInv'
PROOF
  <1> DEFINE a == m.abs
             n == Len(a)
             d == Len(m.deq)
  <1>1. /\ SpMemory /\ SpLocals /\ SpChain /\ DOMAIN m = SpFields /\ SpConsumes(t) /\ SpProduces(t)
        /\ m.m_head # t /\ m.m_tail = t
    BY SpKnown DEF SpProducing
  <1>2. m.garbage \in FifoEntries /\ m.garbage # NULL
    BY <1>1, QueuesAssumption DEF SpMemory, FifoEntries
  <1>3. SpLocals' /\ SpMoves(t) /\ pc'[t] = "link" /\ r'[t].e = m.garbage
    BY <1>1, <1>2, SpPutEntry
  <1>4. /\ DOMAIN m' = SpFields /\ \A f \in SpFields \ {"abs", "garbage", "snapshot"} : m'[f] = m[f]
        /\ m'.abs = Tail(a) /\ m'.snapshot = snapshot /\ m'.garbage = m.next[m.garbage]
    BY <1>1 DEF SpFields
  <1>5. /\ m'.head = m.head /\ m'.tail = m.tail /\ m'.new = m.new
        /\ m'.enq = m.enq /\ m'.deq = m.deq /\ m'.next = m.next /\ m'.value = m.value
        /\ m'.m_tail = m.m_tail /\ m'.m_head = m.m_head /\ m'.sawEmpty = m.sawEmpty
    BY <1>4 DEF SpFields
  <1>6. PICK s, h \in DOMAIN a : SpAt(s, h)
    BY <1>1 DEF SpChain
  <1>7. PICK k \in DOMAIN a : k <= h /\ snapshot = a[k]
    BY <1>1, <1>6, SpLooks
  <1>8. /\ a \in Seq(FifoEntries) /\ a # <<>> /\ Distinct(a) /\ LinkedBy(a, m.next) /\ Members(a) \cap m.new = {}
        /\ m.garbage = a[1] /\ m.tail = a[n] /\ n \in Nat /\ DOMAIN a = 1 .. n /\ d \in Nat
    BY <1>1, SMTT(30) DEF SpMemory, SpChain
  <1>9. /\ h \in 1 .. n /\ s \in 1 .. n /\ m.head = a[h] /\ Len(m.enq) = d + n - h
        /\ \A i \in DOMAIN a : i > h => m.value[a[i]] = d + i - h
    BY <1>6, <1>8 DEF SpAt
  <1> HIDE DEF a, n, d
  <1>10. k # 1 /\ k \in 1 .. n /\ h \in 1 .. n /\ k \in Int /\ h \in Int /\ n \in Int /\ d \in Int /\ k <= h
    BY <1>7, <1>8, <1>9
  <1>11. /\ k - 1 \in 1 .. n - 1 /\ h - 1 \in 1 .. n - 1 /\ k - 1 <= h - 1 /\ (k - 1) + 1 = k /\ (h - 1) + 1 = h
         /\ d + n - h = d + (n - 1) - (h - 1) /\ n > 1
         /\ \A i \in Int : i > h - 1 => i + 1 > h /\ d + (i + 1) - h = d + i - (h - 1)
    BY ONLY <1>10, SpShift
  <1>12. /\ Tail(a) \in Seq(FifoEntries) /\ Len(Tail(a)) = n - 1 /\ DOMAIN Tail(a) = 1 .. n - 1
         /\ \A i \in DOMAIN Tail(a) : i + 1 \in DOMAIN a /\ Tail(a)[i] = a[i + 1]
         /\ Members(a) = {a[1]} \cup Members(Tail(a)) /\ Distinct(Tail(a)) /\ a[1] \notin Members(Tail(a))
    BY ONLY <1>8, Without DEF n
  <1>13. LinkedBy(Tail(a), m.next) /\ m.next[a[1]] = IF Tail(a) = <<>> THEN NULL ELSE Tail(a)[1]
    BY ONLY <1>8, LinkedTail
  <1>14. Tail(a) # <<>>
    <2>1. Len(Tail(a)) # 0
      BY ONLY <1>10, <1>11, <1>12
    <2>2. Len(<<>>) = 0
      OBVIOUS
    <2> QED
      BY ONLY <2>1, <2>2
  <1>15. SpAt(k - 1, h - 1)'
    <2>1. Tail(a)[k - 1] = snapshot /\ Tail(a)[h - 1] = m.head
      BY ONLY <1>7, <1>9, <1>11, <1>12
    <2>2. ASSUME NEW i \in DOMAIN Tail(a), i > h - 1
          PROVE  m.value[Tail(a)[i]] = d + i - (h - 1)
      <3>1. i + 1 \in DOMAIN a /\ Tail(a)[i] = a[i + 1] /\ i \in Int
        BY ONLY <1>10, <1>12, <2>2
      <3>2. i + 1 > h /\ d + (i + 1) - h = d + i - (h - 1)
        BY ONLY <1>11, <2>2, <3>1
      <3> QED
        BY ONLY <1>9, <3>1, <3>2
    <2>3. /\ k - 1 \in DOMAIN m'.abs /\ h - 1 \in DOMAIN m'.abs /\ k - 1 <= h - 1
          /\ m'.snapshot = m'.abs[k - 1] /\ m'.head = m'.abs[h - 1]
          /\ Len(m'.enq) = Len(m'.deq) + Len(m'.abs) - (h - 1)
      BY ONLY <1>4, <1>5, <1>9, <1>11, <1>12, <2>1 DEF d
    <2>4. \A i \in DOMAIN m'.abs : i > h - 1 => m'.value[m'.abs[i]] = Len(m'.deq) + i - (h - 1)
      BY ONLY <1>4, <1>5, <2>2 DEF d
    <2> QED
      BY ONLY <2>3, <2>4 DEF SpAt
  <1>16. m'.garbage = Tail(a)[1] /\ m'.garbage \in FifoEntries /\ m'.tail = Tail(a)[Len(Tail(a))]
    <2>1. n - 1 \in DOMAIN Tail(a) /\ (n - 1) + 1 = n /\ 1 \in DOMAIN Tail(a)
      BY ONLY <1>10, <1>11, <1>12, SMTT(30)
    <2>2. Tail(a)[n - 1] = a[n] /\ Tail(a)[1] \in FifoEntries
      BY ONLY <1>12, <2>1
    <2> QED
      BY <1>4, <1>5, <1>8, <1>12, <1>13, <1>14, <2>2
  <1>17. snapshot \in FifoEntries
    BY <1>7, <1>8
  <1>18. SpMemory'
    BY <1>1, <1>4, <1>5, <1>12, <1>16, <1>17 DEF SpMemory
  <1>19. SpChain'
    <2>1. Distinct(m.abs)' /\ LinkedBy(m.abs, m.next)' /\ (Members(m.abs) \cap m.new = {})'
      <3>1. Distinct(m.abs)'
        BY ONLY <1>4, <1>12 DEF Distinct
      <3>2. LinkedBy(m.abs, m.next)'
        BY ONLY <1>4, <1>5, <1>13 DEF LinkedBy
      <3>3. Members(m.abs)' = Members(Tail(a))
        BY ONLY <1>4 DEF Members
      <3> QED
        BY <1>5, <1>8, <1>12, <3>1, <3>2, <3>3
    <2>2. (k - 1 \in DOMAIN m.abs /\ h - 1 \in DOMAIN m.abs)'
      BY <1>4, <1>11, <1>12
    <2>3. (\E x, y \in DOMAIN m.abs : SpAt(x, y))'
      BY <1>15, <2>2
    <2> QED
      BY <1>1, <1>4, <1>5, <1>14, <1>16, <2>1, <2>3 DEF SpChain
  <1>20. SpProduces(t)'
    <2>1. Members(m.abs)' = Members(Tail(a))
      BY <1>4 DEF Members
    <2>2. m.garbage \notin m.new
      BY <1>8, <1>12
    <2> QED
      BY <1>1, <1>2, <1>3, <1>5, <1>8, <1>12, <2>1, <2>2 DEF SpProduces, SpProducing
  <1>21. SpConsumes(t)'
    BY <1>1, <1>3, <1>5 DEF SpConsumes, SpConsuming
  <1> QED
    BY <1>1, <1>3, <1>5, <1>18, <1>19, <1>20, <1>21, SpOfProducer DEF SpType

LEMMA SpRecycle ==
  ASSUME NEW t \in Threads, SpInv, Sp!Recycle(t)
  PROVE  SpInv'
PROOF
  <1> DEFINE snapshot == IF m.snapshot = m.garbage THEN m.head ELSE m.snapshot
  <1>1. pc[t] = "recycle" /\ pc' = [pc EXCEPT ![t] = "link"]
    BY DEF Sp!Recycle, Sp!Step, Sp!At, Sp!Go
  <1>2. ASSUME snapshot # m.garbage PROVE SpInv'
    <2>1. /\ m' = [m EXCEPT !.snapshot = snapshot, !.garbage = m.next[@], !.abs = Tail(@)]
          /\ Sp!Put(t, [e |-> m.garbage])
      BY <1>2 DEF Sp!Recycle
    <2>2. PICK x : x = snapshot
      OBVIOUS
    <2> HIDE DEF snapshot
    <2> QED
      BY <1>1, <1>2, <2>1, <2>2, SpTakesOld DEF snapshot
  <1>3. ASSUME snapshot = m.garbage PROVE SpInv'
    <2>1. PICK e \in m.new : /\ m' = [m EXCEPT !.new = @ \ {e}, !.snapshot = snapshot]
                             /\ Sp!Put(t, [e |-> e])
      BY <1>3 DEF Sp!Recycle
    <2> QED
      BY <1>1, <2>1, SpTakesNew
  <1> QED
    BY <1>2, <1>3

LEMMA SpPublish ==
  ASSUME NEW t \in Threads, SpInv, Sp!Publish(t)
  PROVE  SpInv'
PROOF
  <1> DEFINE e == r[t].e
             a == m.abs
             n == Len(a)
             q == m.enq
             d == Len(m.deq)
             c == Append(a, e)
  <1>1. /\ SpMemory /\ SpLocals /\ SpChain /\ DOMAIN m = SpFields /\ SpConsumes(t) /\ SpProduces(t)
        /\ pc[t] = "publish" /\ m.m_head # t /\ m.m_tail = t
    BY SpKnown DEF Sp!Publish, Sp!Step, Sp!At, SpProducing
  <1>2. /\ e \in FifoEntries /\ e \notin m.new \cup Members(a) /\ e # NULL
        /\ m.next[e] = NULL /\ m.value[e] = Len(q) + 1
    BY <1>1 DEF SpProduces, SpLocals
  <1>3. SpLocals' /\ SpMoves(t) /\ pc'[t] = "unlock_tail" /\ r'[t] = r[t]
    BY <1>1, SpGo DEF Sp!Publish, Sp!Step, Sp!Go, SpProducing
  <1>4. m' = [m EXCEPT !.next[m.tail] = e, !.tail = e, !.abs = Append(@, e), !.enq = Append(@, Len(@) + 1)]
    BY DEF Sp!Publish
  <1>5. /\ DOMAIN m' = SpFields /\ \A f \in SpFields \ {"next", "tail", "abs", "enq"} : m'[f] = m[f]
        /\ m'.next = [m.next EXCEPT ![m.tail] = e] /\ m'.tail = e /\ m'.abs = c /\ m'.enq = Append(q, Len(q) + 1)
    BY <1>1, <1>4 DEF SpFields
  <1>6. /\ m'.head = m.head /\ m'.snapshot = m.snapshot /\ m'.garbage = m.garbage /\ m'.value = m.value
        /\ m'.new = m.new /\ m'.deq = m.deq
        /\ m'.m_tail = m.m_tail /\ m'.m_head = m.m_head /\ m'.sawEmpty = m.sawEmpty
    BY <1>5 DEF SpFields
  <1>7. /\ a \in Seq(FifoEntries) /\ a # <<>> /\ Distinct(a) /\ LinkedBy(a, m.next) /\ Members(a) \cap m.new = {}
        /\ m.garbage = a[1] /\ m.tail = a[n] /\ n \in Nat /\ DOMAIN a = 1 .. n /\ d \in Nat
        /\ q \in Seq(Int) /\ Len(q) \in Nat /\ DOMAIN q = 1 .. Len(q) /\ m.deq \in Seq(Int)
        /\ \A i \in DOMAIN q : q[i] = i
    BY <1>1 DEF SpMemory, SpChain
  <1>8. PICK s, h \in DOMAIN a : SpAt(s, h)
    BY <1>1 DEF SpChain
  <1>9. /\ s \in 1 .. n /\ h \in 1 .. n /\ s <= h /\ m.snapshot = a[s] /\ m.head = a[h] /\ Len(q) = d + n - h
        /\ \A i \in DOMAIN a : i > h => m.value[a[i]] = d + i - h
    BY <1>7, <1>8 DEF SpAt
  <1>10. /\ m.next \in [FifoEntries -> FifoEntries \cup {NULL}] /\ m.tail \in FifoEntries
         /\ m.next[m.head] # NULL => m.head # m.tail
    <2>1. m.next[a[n]] = NULL
      <3>1. n \in DOMAIN a
        BY ONLY <1>7
      <3> QED
        BY ONLY <1>7, <3>1 DEF LinkedBy, n
    <2> QED
      BY <1>1, <1>7, <2>1 DEF SpMemory
  <1> HIDE DEF e, a, n, q, d, c
  <1>11. /\ c \in Seq(FifoEntries) /\ Len(c) = n + 1 /\ DOMAIN c = 1 .. n + 1 /\ c[n + 1] = e
         /\ \A i \in DOMAIN a : c[i] = a[i]
         /\ Members(c) = {e} \cup Members(a) /\ Distinct(c)
    BY ONLY <1>2, <1>7, Behind DEF c, n
  <1>12. /\ Append(q, Len(q) + 1) \in Seq(Int) /\ Len(Append(q, Len(q) + 1)) = Len(q) + 1
         /\ DOMAIN Append(q, Len(q) + 1) = 1 .. Len(q) + 1
         /\ \A i \in DOMAIN q : Append(q, Len(q) + 1)[i] = q[i]
         /\ Append(q, Len(q) + 1)[Len(q) + 1] = Len(q) + 1
    <2>1. Len(q) + 1 \in Int
      BY ONLY <1>7
    <2> QED
      BY ONLY <1>7, <2>1, Behind
  <1>13. /\ 1 \in DOMAIN a /\ n \in DOMAIN a /\ n > 0 /\ s \in 1 .. n + 1 /\ h \in 1 .. n + 1 /\ s \in DOMAIN a /\ h \in DOMAIN a
         /\ Len(q) + 1 = d + (n + 1) - h
    BY ONLY <1>7, <1>9
  <1>14. /\ m'.next[m.tail] = e /\ m'.next[e] = NULL /\ e # m.tail
         /\ \A x \in FifoEntries \ {m.tail} : m'.next[x] = m.next[x]
         /\ m'.next \in [FifoEntries -> FifoEntries \cup {NULL}]
    <2>1. e # m.tail
      BY <1>2, <1>7, <1>13 DEF Members
    <2> QED
      BY <1>2, <1>5, <1>10, <2>1
  <1>15. LinkedBy(c, m'.next)
    <2>1. \A y \in Members(a) \ {a[Len(a)]} : m'.next[y] = m.next[y]
      <3>1. Members(a) \subseteq FifoEntries
        BY ONLY <1>7 DEF Members
      <3> QED
        BY ONLY <1>7, <1>14, <3>1 DEF n
    <2>2. e \in FifoEntries /\ e \notin Members(a) /\ m'.next[a[Len(a)]] = e /\ m'.next[e] = NULL
      BY ONLY <1>2, <1>7, <1>14 DEF n
    <2>3. a \in Seq(FifoEntries) /\ a # <<>> /\ Distinct(a) /\ LinkedBy(a, m.next)
      BY ONLY <1>7
    <2> QED
      BY ONLY <2>1, <2>2, <2>3, LinkedBehind DEF c
  <1>16. SpMemory'
    BY <1>1, <1>2, <1>5, <1>6, <1>11, <1>12, <1>14 DEF SpMemory
  <1>17. SpAt(s, h)'
    <2>1. ASSUME NEW i \in DOMAIN c, i > h PROVE m.value[c[i]] = d + i - h
      <3>1. CASE i = n + 1
        <4>1. m.value[c[i]] = Len(q) + 1
          BY ONLY <1>2, <1>11, <3>1
        <4> QED
          BY ONLY <1>13, <3>1, <4>1
      <3>2. CASE i # n + 1
        <4>1. i \in DOMAIN a
          BY ONLY <1>7, <1>11, <3>2, <2>1
        <4> QED
          BY ONLY <1>9, <1>11, <2>1, <4>1
      <3> QED
        BY ONLY <3>1, <3>2
    <2>2. /\ s \in DOMAIN m'.abs /\ h \in DOMAIN m'.abs /\ s <= h /\ m'.snapshot = m'.abs[s] /\ m'.head = m'.abs[h]
          /\ Len(m'.enq) = Len(m'.deq) + Len(m'.abs) - h
      BY ONLY <1>5, <1>6, <1>9, <1>11, <1>12, <1>13 DEF d
    <2>3. \A i \in DOMAIN m'.abs : i > h => m'.value[m'.abs[i]] = Len(m'.deq) + i - h
      BY ONLY <1>5, <1>6, <2>1 DEF d
    <2> QED
      BY ONLY <2>2, <2>3 DEF SpAt
  <1>18. SpChain'
    <2>1. Distinct(m.abs)'
      BY ONLY <1>5, <1>11 DEF Distinct
    <2>2. LinkedBy(m.abs, m.next)'
      BY ONLY <1>5, <1>15 DEF LinkedBy
    <2>3. (Members(m.abs) \cap m.new = {})'
      <3>1. Members(m.abs)' = Members(c)
        BY ONLY <1>5 DEF Members
      <3> QED
        BY <1>2, <1>6, <1>7, <1>11, <3>1
    <2>4. m'.garbage = m'.abs[1] /\ m'.tail = m'.abs[Len(m'.abs)] /\ m'.abs # <<>>
      <3>1. c # <<>>
        <4>1. Len(c) # 0 /\ Len(<<>>) = 0
          BY ONLY <1>7, <1>11
        <4> QED
          BY ONLY <4>1
      <3> QED
        BY ONLY <1>5, <1>6, <1>7, <1>11, <1>13, <3>1
    <2>5. \A i \in DOMAIN m'.enq : m'.enq[i] = i
      BY ONLY <1>5, <1>7, <1>12
    <2>6. (\E x, y \in DOMAIN m.abs : SpAt(x, y))'
      <3>1. (s \in DOMAIN m.abs /\ h \in DOMAIN m.abs)'
        BY <1>5, <1>11, <1>13
      <3> QED
        BY <1>17, <3>1
    <2> QED
      BY <1>1, <1>6, <2>1, <2>2, <2>3, <2>4, <2>5, <2>6 DEF SpChain
  <1>19. SpProduces(t)'
    BY <1>1, <1>3, <1>6 DEF SpProduces, SpProducing
  <1>20. SpConsumes(t)'
    BY <1>1, <1>3, <1>6 DEF SpConsumes, SpConsuming
  <1>21. m'.enq # m.deq
    <2>1. Len(m'.enq) # Len(m.deq)
      BY ONLY <1>5, <1>7, <1>9, <1>12 DEF d
    <2> QED
      BY <2>1
  <1>22. m.next[m.head] # NULL => m'.next[m.head] = m.next[m.head]
    BY <1>1, <1>10, <1>14 DEF SpMemory
  <1> QED
    BY <1>1, <1>3, <1>6, <1>16, <1>18, <1>19, <1>20, <1>21, <1>22, SpOfProducer DEF SpType

LEMMA SpDequeueLock ==
  ASSUME NEW t \in Threads, SpInv, Sp!DequeueLock(t)
  PROVE  SpInv'
PROOF
  <1>1. /\ SpMemory /\ SpLocals /\ SpChain /\ DOMAIN m = SpFields /\ t # NULL /\ SpConsumes(t) /\ SpProduces(t)
        /\ pc[t] = "idle" /\ m.m_tail # t
    BY SpKnown DEF Sp!DequeueLock, Sp!Step, Sp!At
  <1>2. m.m_head = NULL
    BY DEF Sp!DequeueLock
  <1>3. SpLocals' /\ SpMoves(t) /\ pc'[t] = "first"
    BY <1>1, SpGo DEF Sp!DequeueLock, Sp!Step, Sp!Go, SpConsuming
  <1>4. /\ DOMAIN m' = SpFields /\ m'.m_head = t /\ \A f \in SpFields \ {"m_head", "deqs", "sawEmpty"} : m'[f] = m[f]
        /\ m'.sawEmpty = IF m.enq = m.deq THEN m.sawEmpty \cup {t} ELSE m.sawEmpty \ {t}
    BY <1>1 DEF Sp!DequeueLock, SpFields
  <1>5. SpChain' /\ SpMemory'
    <2>1. SpChain'
      BY <1>1, <1>4, SpChainSame DEF SpFields
    <2> QED
      BY <1>1, <1>4, <2>1 DEF SpMemory, SpFields
  <1>6. m'.m_tail = m.m_tail /\ m'.new = m.new /\ m'.abs = m.abs /\ m'.next = m.next /\ m'.value = m.value /\ m'.enq = m.enq /\ m'.deq = m.deq
    BY <1>4 DEF SpFields
  <1>7. SpProduces(t)' /\ SpConsumes(t)'
    BY <1>1, <1>3, <1>4, <1>6 DEF SpProduces, SpConsumes, SpProducing, SpConsuming
  <1> QED
    BY <1>2, <1>3, <1>4, <1>5, <1>6, <1>7, SpOfConsumer DEF SpType

LEMMA SpDequeueUnlock ==
  ASSUME NEW t \in Threads, SpInv, Sp!DequeueUnlock(t)
  PROVE  SpInv'
PROOF
  <1>1. /\ SpMemory /\ SpLocals /\ SpChain /\ DOMAIN m = SpFields /\ t # NULL /\ SpConsumes(t) /\ SpProduces(t)
        /\ pc[t] = "unlock_head" /\ m.m_tail # t /\ m.m_head = t
    BY SpKnown DEF Sp!DequeueUnlock, Sp!Step, Sp!At, SpConsuming
  <1>2. SpLocals' /\ SpMoves(t) /\ pc'[t] = "idle"
    <2> DEFINE new == [e |-> NULL, v |-> 0]
    <2>1. pc' = [pc EXCEPT ![t] = "idle"] /\ Sp!Put(t, new)
      BY DEF Sp!DequeueUnlock, Sp!Step, Sp!Go
    <2>2. new.e = NULL
      OBVIOUS
    <2> HIDE DEF new
    <2> QED
      BY <1>1, <2>1, <2>2, SpPut
  <1>3. DOMAIN m' = SpFields /\ m'.m_head = NULL /\ \A f \in SpFields \ {"m_head"} : m'[f] = m[f]
    BY <1>1 DEF Sp!DequeueUnlock, SpFields
  <1>4. SpChain' /\ SpMemory'
    <2>1. SpChain'
      BY <1>1, <1>3, SpChainSame DEF SpFields
    <2> QED
      BY <1>1, <1>3, <2>1 DEF SpMemory, SpFields
  <1>5. m'.m_tail = m.m_tail /\ m'.new = m.new /\ m'.abs = m.abs /\ m'.next = m.next /\ m'.value = m.value /\ m'.enq = m.enq
    BY <1>3 DEF SpFields
  <1>6. SpProduces(t)' /\ SpConsumes(t)'
    BY <1>1, <1>2, <1>3, <1>5 DEF SpProduces, SpConsumes, SpProducing, SpConsuming
  <1> QED
    BY <1>1, <1>2, <1>3, <1>4, <1>5, <1>6, SpOfConsumer DEF SpType

\* The consumer takes a step that leaves the shared memory alone.
LEMMA SpReads ==
  ASSUME NEW t \in Threads, SpInv, pc[t] \in SpConsuming, m' = m, SpLocals', SpMoves(t), pc'[t] \in SpConsuming,
         SpConsumes(t)'
  PROVE  SpInv'
PROOF
  <1>1. SpMemory /\ SpChain /\ DOMAIN m = SpFields /\ t # NULL /\ SpProduces(t) /\ m.m_tail # t /\ m.m_head = t
    BY SpKnown
  <1>2. SpChain'
    BY <1>1, SpChainSame
  <1>3. SpMemory'
    BY <1>1 DEF SpMemory
  <1>4. SpProduces(t)'
    BY <1>1 DEF SpProduces, SpProducing, SpConsuming
  <1> QED
    BY <1>1, <1>2, <1>3, <1>4, SpOfConsumer DEF SpType

\* The entry after the head, and its value.
LEMMA SpNext ==
  ASSUME SpMemory, SpChain
  PROVE  /\ m.next[m.head] \in FifoEntries \cup {NULL}
         /\ m.next[m.head] = NULL => m.enq = m.deq
         /\ m.next[m.head] # NULL => m.value[m.next[m.head]] = Len(m.deq) + 1
         /\ \A s, h \in DOMAIN m.abs : SpAt(s, h) /\ m.next[m.head] # NULL =>
              h + 1 \in DOMAIN m.abs /\ m.next[m.head] = m.abs[h + 1]
PROOF
  <1> DEFINE a == m.abs
             n == Len(a)
  <1>1. m.next[m.head] \in FifoEntries \cup {NULL}
    BY DEF SpMemory
  <1>2. ASSUME NEW s \in DOMAIN a, NEW h \in DOMAIN a, SpAt(s, h)
        PROVE  /\ m.next[m.head] = NULL => h = n
               /\ m.next[m.head] # NULL => h + 1 \in DOMAIN a /\ m.next[m.head] = a[h + 1]
    <2>1. a \in Seq(FifoEntries) /\ LinkedBy(a, m.next) /\ m.head = a[h] /\ n \in Nat /\ DOMAIN a = 1 .. n
      <3>1. a \in Seq(FifoEntries)
        BY DEF SpMemory
      <3>2. LinkedBy(a, m.next)
        BY DEF SpChain
      <3>3. m.head = a[h]
        BY <1>2 DEF SpAt
      <3>4. n \in Nat /\ DOMAIN a = 1 .. n
        BY ONLY <3>1
      <3> QED
        BY <3>1, <3>2, <3>3, <3>4
    <2>2. m.next[m.head] = IF h = n THEN NULL ELSE a[h + 1]
      BY <2>1 DEF LinkedBy
    <2> HIDE DEF a, n
    <2>3. h # n => h + 1 \in DOMAIN a
      BY <2>1, <1>2
    <2>4. h # n => a[h + 1] # NULL
      <3>1. h # n => a[h + 1] \in FifoEntries
        BY <2>1, <2>3
      <3> QED
        BY <3>1, QueuesAssumption DEF FifoEntries
    <2> QED
      BY <2>2, <2>3, <2>4
  <1>3. PICK s, h \in DOMAIN a : SpAt(s, h)
    BY DEF SpChain
  <1>4. /\ Len(m.enq) = Len(m.deq) + n - h /\ \A i \in DOMAIN a : i > h => m.value[a[i]] = Len(m.deq) + i - h
        /\ m.enq \in Seq(Int) /\ m.deq \in Seq(Int) /\ \A i \in DOMAIN m.enq : m.enq[i] = i
        /\ \A i \in DOMAIN m.deq : m.deq[i] = i
        /\ n \in Nat /\ h \in Nat
    <2>1. a \in Seq(FifoEntries)
      BY DEF SpMemory
    <2>2. n \in Nat /\ h \in Nat
      BY <1>3, <2>1
    <2> QED
      BY <1>3, <2>2 DEF SpAt, SpChain, SpMemory
  <1> HIDE DEF a, n
  <1>5. ASSUME m.next[m.head] = NULL PROVE m.enq = m.deq
    <2>1. Len(m.enq) = Len(m.deq) /\ DOMAIN m.enq = 1 .. Len(m.enq) /\ DOMAIN m.deq = 1 .. Len(m.deq)
      BY <1>2, <1>3, <1>4, <1>5
    <2>2. \A i \in 1 .. Len(m.enq) : m.enq[i] = m.deq[i]
      BY ONLY <1>4, <2>1
    <2> QED
      BY ONLY <1>4, <2>1, <2>2, SeqEqual
  <1>6. ASSUME m.next[m.head] # NULL PROVE m.value[m.next[m.head]] = Len(m.deq) + 1
    <2>1. h + 1 \in DOMAIN a /\ m.next[m.head] = a[h + 1]
      BY <1>2, <1>3, <1>6
    <2>2. h + 1 > h /\ Len(m.deq) + (h + 1) - h = Len(m.deq) + 1
      BY ONLY <1>4
    <2>3. m.value[a[h + 1]] = Len(m.deq) + (h + 1) - h
      BY ONLY <1>4, <2>1, <2>2
    <2> QED
      BY ONLY <2>1, <2>2, <2>3
  <1> QED
    BY <1>1, <1>2, <1>5, <1>6 DEF a

LEMMA SpFirst ==
  ASSUME NEW t \in Threads, SpInv, Sp!First(t)
  PROVE  SpInv'
PROOF
  <1> DEFINE e == m.next[m.head]
             l == IF e = NULL THEN "empty" ELSE "value"
  <1>1. /\ SpMemory /\ SpLocals /\ SpChain /\ SpConsumes(t)
        /\ pc[t] = "first" /\ pc[t] \in SpConsuming /\ m.m_head = t
    BY SpKnown DEF Sp!First, Sp!At, SpConsuming
  <1>2. e \in FifoEntries \cup {NULL} /\ (e = NULL => m.enq = m.deq)
    BY <1>1, SpNext
  <1>3. m' = m /\ Sp!Put(t, [e |-> e]) /\ pc' = [pc EXCEPT ![t] = l]
    BY DEF Sp!First, Sp!Local, Sp!Go
  <1>4. l \in SpConsuming /\ DOMAIN [e |-> e] = {"e"} /\ [e |-> e].e = e
    BY DEF SpConsuming
  <1>5. SpLocals' /\ SpMoves(t) /\ pc'[t] = l /\ r'[t].e = e
    <2> HIDE DEF e, l
    <2> QED
      BY <1>1, <1>2, <1>3, <1>4, SpPut
  <1>6. SpConsumes(t)'
    BY <1>1, <1>2, <1>3, <1>5 DEF SpConsumes, SpConsuming
  <1> QED
    BY <1>1, <1>3, <1>4, <1>5, <1>6, SpReads

LEMMA SpValue ==
  ASSUME NEW t \in Threads, SpInv, Sp!Value(t)
  PROVE  SpInv'
PROOF
  <1> DEFINE v == m.value[r[t].e]
  <1>1. /\ SpMemory /\ SpLocals /\ SpChain /\ SpConsumes(t)
        /\ pc[t] = "value" /\ pc[t] \in SpConsuming /\ m.m_head = t
    BY SpKnown DEF Sp!Value, Sp!Step, Sp!At, SpConsuming
  <1>2. v = Len(m.deq) + 1
    BY <1>1, SpNext DEF SpConsumes
  <1>3. m' = m /\ Sp!Put(t, [v |-> v]) /\ pc' = [pc EXCEPT ![t] = "advance"]
    BY DEF Sp!Value, Sp!Step, Sp!Local, Sp!Go
  <1>4. "advance" \in SpConsuming /\ DOMAIN [v |-> v] = {"v"} /\ [v |-> v].v = v
    BY DEF SpConsuming
  <1>5. SpLocals' /\ SpMoves(t) /\ pc'[t] = "advance" /\ r'[t].e = r[t].e /\ r'[t].v = v
    <2> HIDE DEF v
    <2>1. "e" \notin DOMAIN [v |-> v]
      BY <1>4
    <2> QED
      BY <1>1, <1>3, <1>4, <2>1, SpPut
  <1>6. SpConsumes(t)'
    BY <1>1, <1>2, <1>3, <1>5 DEF SpConsumes, SpConsuming
  <1> QED
    BY <1>1, <1>3, <1>4, <1>5, <1>6, SpReads

LEMMA SpReturnEmpty ==
  ASSUME NEW t \in Threads, SpInv, Sp!ReturnEmpty(t)
  PROVE  SpInv'
PROOF
  <1>1. SpLocals /\ SpConsumes(t) /\ pc[t] = "empty" /\ pc[t] \in SpConsuming /\ m.m_head = t
    BY SpKnown DEF Sp!ReturnEmpty, Sp!Step, Sp!At, SpConsuming
  <1>2. m' = m /\ SpLocals' /\ SpMoves(t) /\ pc'[t] = "unlock_head"
    BY <1>1, SpGo DEF Sp!ReturnEmpty, Sp!Step, Sp!Go, Sp!Local, SpConsuming
  <1>3. SpConsumes(t)' /\ pc'[t] \in SpConsuming
    BY <1>1, <1>2 DEF SpConsumes, SpConsuming
  <1> QED
    BY <1>1, <1>2, <1>3, SpReads

LEMMA SpAdvance ==
  ASSUME NEW t \in Threads, SpInv, Sp!Advance(t)
  PROVE  SpInv'
PROOF
  <1> DEFINE a == m.abs
             n == Len(a)
             q == m.deq
             d == Len(q)
             c == Append(q, d + 1)
  <1>1. /\ SpMemory /\ SpLocals /\ SpChain /\ DOMAIN m = SpFields /\ SpConsumes(t) /\ SpProduces(t)
        /\ pc[t] = "advance" /\ m.m_tail # t /\ m.m_head = t
    BY SpKnown DEF Sp!Advance, Sp!Step, Sp!At, SpConsuming
  <1>2. r[t].e # NULL /\ r[t].e = m.next[m.head] /\ r[t].v = d + 1
    BY <1>1 DEF SpConsumes
  <1>3. SpLocals' /\ SpMoves(t) /\ pc'[t] = "unlock_head"
    BY <1>1, SpGo DEF Sp!Advance, Sp!Step, Sp!Go, SpConsuming
  <1>4. /\ DOMAIN m' = SpFields /\ \A f \in SpFields \ {"head", "deq"} : m'[f] = m[f]
        /\ m'.head = m.next[m.head] /\ m'.deq = c
    BY <1>1, <1>2 DEF SpFields, Sp!Advance
  <1>5. /\ m'.tail = m.tail /\ m'.snapshot = m.snapshot /\ m'.garbage = m.garbage /\ m'.value = m.value
        /\ m'.next = m.next /\ m'.new = m.new /\ m'.abs = m.abs /\ m'.enq = m.enq
        /\ m'.m_tail = m.m_tail /\ m'.m_head = m.m_head /\ m'.sawEmpty = m.sawEmpty
    BY <1>4 DEF SpFields
  <1>6. PICK s, h \in DOMAIN a : SpAt(s, h)
    BY <1>1 DEF SpChain
  <1>7. h + 1 \in DOMAIN a /\ m.next[m.head] = a[h + 1] /\ m.next[m.head] \in FifoEntries
    BY <1>1, <1>2, <1>6, SpNext
  <1>8. /\ a \in Seq(FifoEntries) /\ n \in Nat /\ DOMAIN a = 1 .. n /\ q \in Seq(Int) /\ d \in Nat /\ DOMAIN q = 1 .. d
        /\ \A i \in DOMAIN q : q[i] = i
    BY <1>1 DEF SpMemory, SpChain
  <1>9. /\ s \in 1 .. n /\ h \in 1 .. n /\ s <= h /\ m.snapshot = a[s] /\ Len(m.enq) = d + n - h
        /\ \A i \in DOMAIN a : i > h => m.value[a[i]] = d + i - h
    BY <1>6, <1>8 DEF SpAt
  <1> HIDE DEF a, n, q, d, c
  <1>10. /\ c \in Seq(Int) /\ Len(c) = d + 1 /\ DOMAIN c = 1 .. d + 1 /\ c[d + 1] = d + 1
         /\ \A i \in DOMAIN q : c[i] = q[i]
    <2>1. d + 1 \in Int
      BY ONLY <1>8
    <2> QED
      BY ONLY <1>8, <2>1, Behind DEF c, d
  <1>11. SpAt(s, h + 1)'
    <2>1. ASSUME NEW i \in DOMAIN a, i > h + 1 PROVE m.value[a[i]] = (d + 1) + i - (h + 1)
      <3>1. i > h /\ d + i - h = (d + 1) + i - (h + 1)
        BY ONLY <1>8, <1>9, <2>1
      <3> QED
        BY ONLY <1>9, <2>1, <3>1
    <2>2. s <= h + 1 /\ d + n - h = (d + 1) + n - (h + 1)
      BY ONLY <1>8, <1>9
    <2>3. /\ s \in DOMAIN m'.abs /\ h + 1 \in DOMAIN m'.abs /\ s <= h + 1 /\ m'.snapshot = m'.abs[s]
          /\ m'.head = m'.abs[h + 1] /\ Len(m'.enq) = Len(m'.deq) + Len(m'.abs) - (h + 1)
      BY ONLY <1>4, <1>5, <1>7, <1>8, <1>9, <1>10, <2>2 DEF a, n
    <2>4. \A i \in DOMAIN m'.abs : i > h + 1 => m'.value[m'.abs[i]] = Len(m'.deq) + i - (h + 1)
      BY ONLY <1>4, <1>5, <1>10, <2>1 DEF a
    <2> QED
      BY ONLY <2>3, <2>4 DEF SpAt
  <1>12. SpChain'
    <2>1. Distinct(m.abs)' /\ LinkedBy(m.abs, m.next)' /\ (Members(m.abs) \cap m.new = {})'
      BY <1>1, <1>5 DEF SpChain, Distinct, LinkedBy, Members
    <2>2. \A i \in DOMAIN m'.deq : m'.deq[i] = i
      <3>1. \A i \in 1 .. d + 1 : i = d + 1 \/ i \in 1 .. d
        BY ONLY <1>8
      <3>2. \A i \in DOMAIN c : c[i] = i
        BY ONLY <1>8, <1>10, <3>1
      <3> QED
        BY ONLY <1>4, <3>2
    <2>3. (\E x, y \in DOMAIN m.abs : SpAt(x, y))'
      <3>1. (s \in DOMAIN m.abs /\ h + 1 \in DOMAIN m.abs)'
        BY <1>5, <1>6, <1>7 DEF a
      <3> QED
        BY <1>11, <3>1
    <2> QED
      BY <1>1, <1>5, <2>1, <2>2, <2>3 DEF SpChain
  <1>13. SpMemory'
    BY <1>1, <1>4, <1>5, <1>7, <1>10 DEF SpMemory
  <1>14. SpProduces(t)'
    BY <1>1, <1>3, <1>5 DEF SpProduces, SpProducing
  <1>15. SpConsumes(t)'
    BY <1>1, <1>3, <1>5 DEF SpConsumes, SpConsuming
  <1> QED
    BY <1>1, <1>3, <1>5, <1>12, <1>13, <1>14, <1>15, SpOfConsumer DEF SpType

LEMMA SpStep ==
  ASSUME SpInv, Sp!Next
  PROVE  SpInv'
PROOF
  <1>1. PICK t \in Threads : Sp!Produce(t) \/ Sp!Consume(t)
    BY DEF Sp!Next
  <1>2. CASE Sp!Produce(t)
    BY <1>2, SpEnqueueLock, SpRecycle, SpNoEntry, SpWrite, SpPublish, SpEnqueueUnlock DEF Sp!Produce
  <1>3. CASE Sp!Consume(t)
    BY <1>3, SpDequeueLock, SpFirst, SpValue, SpAdvance, SpReturnEmpty, SpDequeueUnlock DEF Sp!Consume
  <1> QED
    BY <1>1, <1>2, <1>3

LEMMA SpInit ==
  ASSUME Sp!Init
  PROVE  SpInv
PROOF
  <1>1. m = [head |-> Stub, tail |-> Stub, snapshot |-> Stub, garbage |-> Stub,
             next |-> [e \in Entries \cup {Stub} |-> NULL], value |-> [e \in Entries \cup {Stub} |-> 0],
             m_head |-> NULL, m_tail |-> NULL, new |-> Entries,
             deqs |-> 0, abs |-> <<Stub>>, enq |-> <<>>, deq |-> <<>>, sawEmpty |-> {}]
    BY DEF Sp!Init
  <1>2. pc = [t \in Threads |-> "idle"] /\ r = [t \in Threads |-> [e |-> NULL, v |-> 0]]
    BY DEF Sp!Init
  <1>3. /\ DOMAIN m = SpFields /\ m.head = Stub /\ m.tail = Stub /\ m.snapshot = Stub /\ m.garbage = Stub
        /\ m.next = [e \in FifoEntries |-> NULL] /\ m.value = [e \in FifoEntries |-> 0]
        /\ m.m_head = NULL /\ m.m_tail = NULL /\ m.new = Entries /\ m.abs = <<Stub>> /\ m.enq = <<>> /\ m.deq = <<>>
    BY <1>1 DEF SpFields, FifoEntries
  <1>4. /\ <<Stub>> \in Seq(FifoEntries) /\ Len(<<Stub>>) = 1 /\ DOMAIN <<Stub>> = {1} /\ <<Stub>>[1] = Stub
        /\ <<Stub>> # <<>> /\ Stub \in FifoEntries /\ <<>> \in Seq(Int) /\ Len(<<>>) = 0 /\ DOMAIN <<>> = {}
    BY DEF FifoEntries
  <1>5. Members(<<Stub>>) = {Stub} /\ Distinct(<<Stub>>)
    BY <1>4 DEF Members, Distinct
  <1>6. SpMemory
    BY <1>3, <1>4 DEF SpMemory, FifoEntries
  <1>7. SpLocals
    BY <1>2 DEF SpLocals
  <1>8. SpChain
    <2>1. LinkedBy(m.abs, m.next)
      BY <1>3, <1>4 DEF LinkedBy
    <2>2. SpAt(1, 1)
      BY <1>3, <1>4 DEF SpAt
    <2>3. \E s, h \in DOMAIN m.abs : SpAt(s, h)
      BY <1>3, <1>4, <2>2
    <2>4. Members(m.abs) \cap m.new = {}
      BY <1>3, <1>5, QueuesAssumption
    <2> QED
      BY <1>3, <1>4, <1>5, <2>1, <2>3, <2>4 DEF SpChain
  <1>9. \A t \in Threads : SpProduces(t) /\ SpConsumes(t)
    BY <1>2, <1>3, QueuesAssumption DEF SpProduces, SpConsumes, SpProducing, SpConsuming
  <1> QED
    BY <1>6, <1>7, <1>8, <1>9 DEF SpInv, SpType

-----------------------------------------------------------------------------
(* ck_fifo_mpmc.  What a step does to the shared memory, as the other        *)
(* threads see it: a pointer that changes has another generation.            *)

MpMoves(t) == \A u \in Threads \ {t} : pc'[u] = pc[u] /\ r'[u] = r[u]

MpTailChange ==
  /\ m.tail.g <= m'.tail.g /\ (m'.tail.g = m.tail.g => m'.tail.p = m.tail.p)
  /\ \/ m'.next[m.tail.p] = m.next[m.tail.p]
     \/ /\ m.next[m.tail.p].p = NULL /\ m'.next[m.tail.p].p # NULL
        /\ m'.next[m.tail.p].g > m.next[m.tail.p].g
  /\ \A x \in FifoEntries : m.next[x].g <= m'.next[x].g
  /\ m'.tail.p = m.tail.p \/ m.next[m.tail.p].p # NULL
MpHeadChange ==
  /\ m.next[m.head.p].p # NULL => m'.next[m.head.p].p = m.next[m.head.p].p
  /\ m.head.g <= m'.head.g
  /\ m'.head.g = m.head.g =>
       /\ m'.head.p = m.head.p /\ m'.deq = m.deq
       /\ m.tail.p # m.head.p => m'.tail.p # m.head.p
  /\ m.tail.p # m.head.p => m'.enq[Len(m.deq) + 1] = m.enq[Len(m.deq) + 1]
MpSaw(t) ==
  \A u \in Threads \ {t} : /\ u \in m.sawEmpty => u \in m'.sawEmpty
                           /\ m'.deq = m'.enq => m.deq = m.enq \/ u \in m'.sawEmpty

LEMMA MpEnds ==
  ASSUME MpMemory, MpChain
  PROVE  /\ m.tail.p \in FifoEntries /\ m.head.p \in FifoEntries /\ m.tail.g \in Nat /\ m.head.g \in Nat
         /\ m.tail.p \in Members(m.abs) /\ m.head.p \in Members(m.abs) /\ m.tail.p # NULL /\ m.head.p # NULL
         /\ \A x \in FifoEntries : m.next[x] \in Pointers /\ m.next[x].g \in Nat /\ m.next[x].p \in FifoEntries \cup {NULL}
         /\ \A x \in Members(m.abs) : x \in FifoEntries /\ x # NULL
PROOF
  <1>1. PICK i \in DOMAIN m.abs : m.tail.p = m.abs[i]
    BY DEF MpChain
  <1>2. m.abs \in Seq(FifoEntries) /\ m.abs # <<>> /\ m.head.p = m.abs[1]
    BY DEF MpChain, MpMemory
  <1>3. 1 \in DOMAIN m.abs
    BY <1>2
  <1>4. NULL \notin FifoEntries
    BY QueuesAssumption DEF FifoEntries
  <1>5. m.tail.g \in Nat /\ m.head.g \in Nat
    BY DEF MpMemory, Pointers
  <1>6. \A x \in FifoEntries : m.next[x] \in Pointers /\ m.next[x].g \in Nat /\ m.next[x].p \in FifoEntries \cup {NULL}
    BY DEF MpMemory, Pointers
  <1>7. \A x \in Members(m.abs) : x \in FifoEntries
    BY <1>2 DEF Members
  <1>8. m.tail.p \in Members(m.abs) /\ m.head.p \in Members(m.abs)
    BY <1>1, <1>2, <1>3 DEF Members
  <1> QED
    BY <1>4, <1>5, <1>6, <1>7, <1>8

LEMMA MpOtherEnqueues ==
  ASSUME NEW u \in Threads, MpMemory, MpMemory', MpLocal(u), MpChain, MpEnqueues(u), MpTailChange, pc'[u] = pc[u], r'[u] = r[u]
  PROVE  MpEnqueues(u)'
PROOF
  <1> DEFINE l == r[u]
             T == r[u].tail.p
             N == m.next[T]
             M == m'.next[T]
             a == m.tail.g
             b == m'.tail.g
             g == r[u].tail.g
  <1>1. /\ m.tail.p \in FifoEntries /\ a \in Nat
        /\ \A x \in FifoEntries : m.next[x].g \in Nat /\ m.next[x].p \in FifoEntries \cup {NULL}
    BY MpEnds
  <1>2. /\ g \in Nat /\ l.next.g \in Nat /\ T \in FifoEntries \cup {NULL} /\ b \in Nat
        /\ \A x \in FifoEntries : m'.next[x].g \in Nat
    BY DEF MpLocal, Pointers, MpMemory
  <1>3. ASSUME pc[u] \in {"tail_ptr", "next_gen", "next_ptr", "same_tail", "link", "forward"}
        PROVE  g <= a /\ g <= b /\ (b = g => a = g /\ m'.tail.p = m.tail.p)
    <2>1. g <= a
      BY <1>3 DEF MpEnqueues
    <2>2. a <= b /\ (b = a => m'.tail.p = m.tail.p)
      BY DEF MpTailChange
    <2> QED
      BY <1>1, <1>2, <2>1, <2>2
  <1>4. ASSUME pc[u] \in {"next_gen", "next_ptr", "same_tail", "link", "forward"}
        PROVE  T \in FifoEntries /\ T # NULL /\ (a = g => m.tail.p = T)
    BY <1>2, <1>4 DEF MpEnqueues
  <1>5. ASSUME T = m.tail.p
        PROVE  (M = N \/ (N.p = NULL /\ M.p # NULL /\ M.g > N.g)) /\ (m'.tail.p = m.tail.p \/ N.p # NULL)
    BY <1>5 DEF MpTailChange
  <1>6. T \in FifoEntries => N.g <= M.g /\ N.g \in Nat /\ M.g \in Nat
    BY <1>1, <1>2 DEF MpTailChange
  <1>7. /\ pc[u] = "next_ptr" /\ a = g => l.next.g <= N.g /\ (N.p = NULL => l.next.g = N.g)
        /\ pc[u] \in {"same_tail", "link"} /\ a = g /\ l.next.p # NULL => N.p = l.next.p
        /\ pc[u] = "same_tail" /\ a = g /\ l.next.p = NULL => SamePointer(N, l.next) \/ N.g > l.next.g
        /\ pc[u] = "link" /\ l.next.p = NULL => (SamePointer(N, l.next) /\ m.tail.p = T) \/ N.g > l.next.g
        /\ pc[u] = "forward" => l.e # NULL /\ (a = g => N.p = l.e)
    BY DEF MpEnqueues
  <1> HIDE DEF l, T, N, M, a, b, g
  <1>8. pc[u] = "next_ptr" /\ b = g => l.next.g <= M.g /\ (M.p = NULL => l.next.g = M.g)
    BY <1>2, <1>3, <1>4, <1>5, <1>6, <1>7
  <1>9. pc[u] \in {"same_tail", "link"} /\ b = g /\ l.next.p # NULL => M.p = l.next.p
    BY <1>3, <1>4, <1>5, <1>7
  <1>10. pc[u] = "same_tail" /\ b = g /\ l.next.p = NULL => SamePointer(M, l.next) \/ M.g > l.next.g
    BY <1>2, <1>3, <1>4, <1>5, <1>6, <1>7 DEF SamePointer
  <1>11. pc[u] = "link" /\ l.next.p = NULL => (SamePointer(M, l.next) /\ m'.tail.p = T) \/ M.g > l.next.g
    <2> SUFFICES ASSUME pc[u] = "link", l.next.p = NULL
                 PROVE  (SamePointer(M, l.next) /\ m'.tail.p = T) \/ M.g > l.next.g
      OBVIOUS
    <2>1. CASE N.g > l.next.g
      BY <1>2, <1>4, <1>6, <2>1
    <2>2. CASE SamePointer(N, l.next) /\ m.tail.p = T
      <3>1. N.p = NULL /\ N.g = l.next.g /\ m'.tail.p = T
        BY <1>5, <2>2 DEF SamePointer
      <3> QED
        BY <1>5, <2>2, <3>1 DEF SamePointer
    <2> QED
      BY <1>7, <2>1, <2>2
  <1>12. pc[u] = "forward" => l.e # NULL /\ (b = g => M.p = l.e)
    BY <1>3, <1>4, <1>5, <1>7
  <1> QED
    BY <1>3, <1>4, <1>8, <1>9, <1>10, <1>11, <1>12 DEF MpEnqueues, l, T, N, M, a, b, g

LEMMA MpOtherDequeues ==
  ASSUME NEW t \in Threads, NEW u \in Threads, u # t, MpMemory, MpMemory', MpLocal(u), MpChain, MpDequeues(u),
         MpTailChange, MpHeadChange, MpSaw(t), pc'[u] = pc[u], r'[u] = r[u]
  PROVE  MpDequeues(u)'
PROOF
  <1> DEFINE l == r[u]
             H == r[u].head.p
             T == r[u].tail.p
             a == m.head.g
             b == m'.head.g
             g == r[u].head.g
             c == m.tail.g
             d == m'.tail.g
             k == r[u].tail.g
             N == m.next[H].p
             M == m'.next[H].p
             V == m.enq[Len(m.deq) + 1]
             W == m'.enq[Len(m.deq) + 1]
  <1>1. m.tail.p \in FifoEntries /\ m.head.p \in FifoEntries /\ a \in Nat /\ c \in Nat
    BY MpEnds
  <1>2. g \in Nat /\ k \in Nat /\ b \in Nat /\ d \in Nat
    BY DEF MpLocal, Pointers, MpMemory
  <1>3. /\ a <= b /\ (b = a => m'.head.p = m.head.p /\ m'.deq = m.deq /\ (m.tail.p # m.head.p => m'.tail.p # m.head.p))
        /\ m.tail.p # m.head.p => W = V
    BY DEF MpHeadChange
  <1>4. c <= d /\ (d = c => m'.tail.p = m.tail.p)
    BY DEF MpTailChange
  <1>5. H = m.head.p /\ N # NULL => M = N
    BY DEF MpHeadChange
  <1>6. H = m.tail.p /\ N # NULL => M = N
    BY DEF MpTailChange
  <1>7. (u \in m.sawEmpty => u \in m'.sawEmpty) /\ (m'.deq = m'.enq => m.deq = m.enq \/ u \in m'.sawEmpty)
    BY DEF MpSaw
  <1>8. /\ pc[u] \in {"head_ptr", "dtail_gen", "dtail_ptr", "dnext", "compare", "same_head", "commit"} => g <= a
        /\ pc[u] \in {"dtail_gen", "dtail_ptr", "dnext", "compare", "same_head", "commit"} =>
             H # NULL /\ (a = g => m.head.p = H)
        /\ pc[u] \in {"dtail_ptr", "dnext", "compare", "commit"} => k <= c
        /\ pc[u] \in {"dnext", "compare", "commit"} =>
             /\ T # NULL /\ (c = k => m.tail.p = T)
             /\ a = g /\ T # H => m.tail.p # m.head.p
        /\ pc[u] = "compare" =>
             /\ a = g /\ l.next.p = NULL => u \in m.sawEmpty
             /\ c = k /\ H = T /\ l.next.p # NULL => N = l.next.p
        /\ pc[u] \in {"compare", "commit"} /\ a = g /\ l.next.p # NULL => N = l.next.p
        /\ pc[u] = "commit" => l.next.p # NULL /\ T # H
        /\ pc[u] = "commit" /\ a = g => l.v = V
        /\ pc[u] = "same_head" /\ a = g => u \in m.sawEmpty
        /\ pc[u] = "empty" => u \in m.sawEmpty
        /\ pc[u] \in {"head_gen", "head_ptr", "dtail_gen", "dtail_ptr", "dnext", "compare", "same_head",
                      "commit"} /\ m.deq = m.enq => u \in m.sawEmpty
    BY DEF MpDequeues
  <1> HIDE DEF l, H, T, a, b, g, c, d, k, N, M, V, W
  <1>9. g <= a => g <= b /\ (b = g => b = a /\ a = g)
    BY ONLY <1>1, <1>2, <1>3
  <1>10. k <= c => k <= d /\ (d = k => d = c /\ c = k)
    BY ONLY <1>1, <1>2, <1>4
  <1>11. /\ pc[u] \in {"head_ptr", "dtail_gen", "dtail_ptr", "dnext", "compare", "same_head", "commit"} => g <= b
         /\ pc[u] \in {"dtail_gen", "dtail_ptr", "dnext", "compare", "same_head", "commit"} =>
              H # NULL /\ (b = g => m'.head.p = H)
         /\ pc[u] \in {"dtail_ptr", "dnext", "compare", "commit"} => k <= d
    BY ONLY <1>3, <1>8, <1>9, <1>10
  <1>12. pc[u] \in {"dnext", "compare", "commit"} =>
             /\ T # NULL /\ (d = k => m'.tail.p = T)
             /\ b = g /\ T # H => m'.tail.p # m'.head.p
    BY ONLY <1>3, <1>4, <1>8, <1>9, <1>10
  <1>13. /\ pc[u] = "compare" =>
              /\ b = g /\ l.next.p = NULL => u \in m'.sawEmpty
              /\ d = k /\ H = T /\ l.next.p # NULL => M = l.next.p
         /\ pc[u] \in {"compare", "commit"} /\ b = g /\ l.next.p # NULL => M = l.next.p
    BY ONLY <1>3, <1>5, <1>6, <1>7, <1>8, <1>9, <1>10
  <1>14. pc[u] = "commit" /\ b = g => l.v = W /\ m'.deq = m.deq
    BY ONLY <1>3, <1>8, <1>9
  <1>15. /\ pc[u] = "same_head" /\ b = g => u \in m'.sawEmpty
         /\ pc[u] = "empty" => u \in m'.sawEmpty
         /\ pc[u] \in {"head_gen", "head_ptr", "dtail_gen", "dtail_ptr", "dnext", "compare", "same_head",
                       "commit"} /\ m'.deq = m'.enq => u \in m'.sawEmpty
    BY ONLY <1>7, <1>8, <1>9
  <1>16. pc[u] = "commit" => l.next.p # NULL /\ T # H
    BY ONLY <1>8
  <1> QED
    BY <1>11, <1>12, <1>13, <1>14, <1>15, <1>16 DEF MpDequeues, l, H, T, b, g, d, k, M, W

LEMMA MpKeeps ==
  ASSUME NEW t \in Threads, MpInv, MpMoves(t), MpMemory', MpLocals', MpChain', MpGenerations', MpPlaces',
         MpTailChange, MpHeadChange, MpSaw(t), MpEnqueues(t)', MpDequeues(t)'
  PROVE  MpInv'
PROOF
  <1>1. ASSUME NEW u \in Threads, u # t PROVE MpEnqueues(u)' /\ MpDequeues(u)'
    <2>1. pc'[u] = pc[u] /\ r'[u] = r[u] /\ MpEnqueues(u) /\ MpDequeues(u) /\ MpMemory /\ MpChain /\ MpLocal(u)
      BY <1>1 DEF MpMoves, MpInv, MpLocals
    <2> QED
      BY <1>1, <2>1, MpOtherEnqueues, MpOtherDequeues
  <1> QED
    BY <1>1 DEF MpInv

LEMMA MpKnown ==
  ASSUME NEW t \in Threads, MpInv
  PROVE  /\ MpMemory /\ MpLocals /\ MpLocal(t) /\ MpChain /\ MpGenerations /\ MpPlaces /\ MpEnqueues(t) /\ MpDequeues(t)
         /\ DOMAIN m = MpFields
PROOF
  BY DEF MpInv, MpLocals, MpMemory

\* What a step does to the local variables.
MpFits(new) ==
  /\ "e" \in DOMAIN new => new.e \in FifoEntries \cup {NULL}
  /\ \A f \in {"head", "tail", "next"} \cap DOMAIN new : new[f] \in Pointers
MpPuts(t, new) == \A f \in MpLocalFields : r'[t][f] = IF f \in DOMAIN new THEN new[f] ELSE r[t][f]
LEMMA MpPut ==
  ASSUME NEW t \in Threads, MpLocals, NEW l \in MpLabels, NEW new, pc' = [pc EXCEPT ![t] = l], Mp!Put(t, new),
         MpFits(new)
  PROVE  MpLocals' /\ MpMoves(t) /\ pc'[t] = l /\ MpPuts(t, new)
PROOF
  <1>1. DOMAIN pc' = Threads /\ pc'[t] = l /\ \A u \in Threads \ {t} : pc'[u] = pc[u]
    BY DEF MpLocals
  <1>2. DOMAIN r' = Threads /\ r'[t] = Mp!With(r[t], new) /\ \A u \in Threads \ {t} : r'[u] = r[u]
    BY DEF MpLocals, Mp!Put
  <1>3. MpLocal(t) /\ DOMAIN r[t] = MpLocalFields
    BY DEF MpLocals, MpLocal
  <1>4. /\ DOMAIN r'[t] = MpLocalFields
        /\ \A f \in MpLocalFields : r'[t][f] = IF f \in DOMAIN new THEN new[f] ELSE r[t][f]
    BY <1>2, <1>3 DEF Mp!With
  <1>5. MpLocal(t)'
    BY <1>1, <1>3, <1>4 DEF MpLocal, MpLocalFields, MpFits
  <1>6. \A u \in Threads \ {t} : MpLocal(u)'
    BY <1>1, <1>2 DEF MpLocal, MpLocals
  <1> QED
    BY <1>1, <1>2, <1>4, <1>5, <1>6 DEF MpMoves, MpLocals, MpPuts

LEMMA MpGo ==
  ASSUME NEW t \in Threads, MpLocals, NEW l \in MpLabels, pc' = [pc EXCEPT ![t] = l], r' = r
  PROVE  MpLocals' /\ MpMoves(t) /\ pc'[t] = l /\ r'[t] = r[t]
PROOF
  <1>1. DOMAIN pc' = Threads /\ pc'[t] = l /\ \A u \in Threads \ {t} : pc'[u] = pc[u]
    BY DEF MpLocals
  <1>2. \A u \in Threads : MpLocal(u)'
    BY <1>1 DEF MpLocals, MpLocal
  <1> QED
    BY <1>1, <1>2 DEF MpLocals, MpMoves

LEMMA MpReturn ==
  ASSUME NEW t \in Threads, MpLocals, Mp!Return(t)
  PROVE  MpLocals' /\ MpMoves(t) /\ pc'[t] = "idle"
PROOF
  <1>1. pc' = [pc EXCEPT ![t] = "idle"] /\ Mp!Put(t, Mp!Scratch) /\ "idle" \in MpLabels
    BY DEF Mp!Return, Mp!Go, MpLabels
  <1>2. Mp!Scratch.e \in FifoEntries \cup {NULL} /\ \A f \in {"head", "tail", "next"} : Mp!Scratch[f] \in Pointers
    BY DEF Mp!Scratch, Mp!Ptr, Pointers
  <1>3. MpFits(Mp!Scratch)
    BY <1>2 DEF MpFits
  <1> QED
    BY <1>1, <1>3, MpPut

LEMMA MpAgain ==
  ASSUME NEW t \in Threads, MpLocals, NEW start \in MpLabels, Mp!Again(t, start)
  PROVE  /\ MpLocals' /\ MpMoves(t)
         /\ r[t].try => pc'[t] = "idle"
         /\ ~r[t].try => pc'[t] = start /\ r'[t] = r[t]
PROOF
  BY MpReturn, MpGo DEF Mp!Again, Mp!Go

LEMMA MpIdle ==
  ASSUME NEW t \in Threads, pc'[t] = "idle"
  PROVE  MpEnqueues(t)' /\ MpDequeues(t)' /\ ~(MpBrings(t)')
PROOF
  BY DEF MpEnqueues, MpDequeues, MpBrings

LEMMA MpChainSame ==
  ASSUME MpMemory, MpMemory', MpChain, m'.head.p = m.head.p, m'.tail.p = m.tail.p, m'.abs = m.abs, m'.enq = m.enq, m'.deq = m.deq,
         \A x \in Members(m.abs) : m'.next[x].p = m.next[x].p /\ m'.value[x] = m.value[x]
  PROVE  MpChain'
PROOF
  <1>1. LinkedBy(m.abs, MpNext')
    <2>1. \A x \in Members(m.abs) : (MpNext')[x] = MpNext[x]
      BY MpEnds DEF MpNext
    <2> QED
      BY <2>1, LinkedSame DEF MpChain
  <1>2. (\E i \in DOMAIN m.abs : m.tail.p = m.abs[i] /\ i >= Len(m.abs) - 1)'
    BY DEF MpChain
  <1>3. (\A i \in DOMAIN m.abs : i > 1 => m.value[m.abs[i]] = m.enq[Len(m.deq) + i - 1])'
    <2>1. \A i \in DOMAIN m.abs : m'.value[m.abs[i]] = m.value[m.abs[i]]
      BY DEF Members
    <2> QED
      BY <2>1 DEF MpChain
  <1>4. LinkedBy(m.abs, MpNext)' /\ Distinct(m.abs)'
    BY <1>1 DEF LinkedBy, MpChain, Distinct
  <1> QED
    BY <1>2, <1>3, <1>4 DEF MpChain

LEMMA MpPlacesSame ==
  ASSUME NEW t \in Threads, MpLocals, MpPlaces, MpMoves(t), m'.own = m.own, m'.abs = m.abs,
         \A x \in FifoEntries \ Members(m.abs) : m.next[x].p = NULL => m'.next[x].p = NULL,
         MpBrings(t)' => MpBrings(t) /\ r'[t].e = r[t].e
  PROVE  MpPlaces'
PROOF
  <1>1. Members(m.abs)' = Members(m.abs)
    BY DEF Members
  <1>2. \A u \in Threads : MpBrings(u)' => MpBrings(u) /\ r'[u].e = r[u].e
    BY DEF MpMoves, MpBrings
  <1>3. \A u \in Threads : r[u].e \in FifoEntries \cup {NULL}
    BY DEF MpLocals, MpLocal
  <1> QED
    BY <1>1, <1>2, <1>3 DEF MpPlaces

\* A step that leaves the shared memory alone.
LEMMA MpReads ==
  ASSUME NEW t \in Threads, MpInv, m' = m, MpMoves(t), MpLocals', MpEnqueues(t)', MpDequeues(t)',
         MpBrings(t)' => MpBrings(t) /\ r'[t].e = r[t].e
  PROVE  MpInv'
PROOF
  <1>1. MpMemory /\ MpLocals /\ MpChain /\ MpGenerations /\ MpPlaces
    BY DEF MpInv
  <1>2. MpMemory' /\ MpGenerations'
    BY <1>1 DEF MpMemory, MpGenerations
  <1>3. MpChain'
    BY <1>1, <1>2, MpChainSame
  <1>4. MpPlaces'
    BY <1>1, MpPlacesSame
  <1>5. MpTailChange /\ MpHeadChange /\ MpSaw(t)
    <2>1. m.tail.g \in Nat /\ m.head.g \in Nat /\ \A x \in FifoEntries : m.next[x].g \in Nat
      BY <1>1, MpEnds
    <2> QED
      BY <2>1 DEF MpTailChange, MpHeadChange, MpSaw
  <1> QED
    BY <1>2, <1>3, <1>4, <1>5, MpKeeps

\* An operation of which a try returns, and others start again, having
\* changed nothing.
LEMMA MpStartsAgain ==
  ASSUME NEW t \in Threads, MpInv, m' = m,
         \/ Mp!Again(t, "tail_gen") /\ MpBrings(t)
         \/ Mp!Again(t, "head_gen") /\ pc[t] \in {"compare", "same_head", "commit"}
  PROVE  MpInv'
PROOF
  <1>1. MpLocals /\ MpDequeues(t)
    BY MpKnown
  <1>2. "tail_gen" \in MpLabels /\ "head_gen" \in MpLabels
    BY DEF MpLabels
  <1>3. CASE Mp!Again(t, "tail_gen") /\ MpBrings(t)
    <2>1. /\ MpLocals' /\ MpMoves(t) /\ (r[t].try => pc'[t] = "idle")
          /\ ~r[t].try => pc'[t] = "tail_gen" /\ r'[t] = r[t]
      BY <1>1, <1>2, <1>3, MpAgain
    <2>2. CASE r[t].try
      BY <2>1, <2>2, MpIdle, MpReads
    <2>3. CASE ~r[t].try
      <3>1. MpEnqueues(t)' /\ MpDequeues(t)'
        BY <2>1, <2>3 DEF MpEnqueues, MpDequeues
      <3> QED
        BY <1>3, <2>1, <2>3, <3>1, MpReads
    <2> QED
      BY <2>2, <2>3
  <1>4. CASE Mp!Again(t, "head_gen") /\ pc[t] \in {"compare", "same_head", "commit"}
    <2>1. /\ MpLocals' /\ MpMoves(t) /\ (r[t].try => pc'[t] = "idle")
          /\ ~r[t].try => pc'[t] = "head_gen" /\ r'[t] = r[t]
      BY <1>1, <1>2, <1>4, MpAgain
    <2>2. CASE r[t].try
      BY <2>1, <2>2, MpIdle, MpReads
    <2>3. CASE ~r[t].try
      <3>1. MpEnqueues(t)' /\ MpDequeues(t)' /\ ~(MpBrings(t)')
        BY <1>1, <1>4, <2>1, <2>3 DEF MpEnqueues, MpDequeues, MpBrings
      <3> QED
        BY <2>1, <2>3, <3>1, MpReads
    <2> QED
      BY <2>2, <2>3
  <1> QED
    BY <1>3, <1>4

LEMMA PointerOf ==
  ASSUME NEW p \in FifoEntries \cup {NULL}, NEW g \in Nat
  PROVE  Mp!Ptr(p, g) \in Pointers /\ Mp!Ptr(p, g).p = p /\ Mp!Ptr(p, g).g = g
PROOF
  BY DEF Mp!Ptr, Pointers

\* A step that only reads a pointer, into one local variable.
LEMMA MpLoadsHead ==
  ASSUME NEW t \in Threads, MpLocals, NEW l \in MpLabels, NEW P \in Pointers,
         pc' = [pc EXCEPT ![t] = l], Mp!Put(t, [head |-> P])
  PROVE  /\ MpLocals' /\ MpMoves(t) /\ pc'[t] = l /\ r'[t].head = P
         /\ r'[t].e = r[t].e /\ r'[t].tail = r[t].tail /\ r'[t].next = r[t].next /\ r'[t].try = r[t].try
PROOF
  <1> DEFINE new == [head |-> P]
  <1>1. DOMAIN new = {"head"} /\ new.head = P
    OBVIOUS
  <1>2. MpFits(new)
    BY <1>1 DEF MpFits
  <1>3. Mp!Put(t, new)
    OBVIOUS
  <1> HIDE DEF new
  <1>4. MpLocals' /\ MpMoves(t) /\ pc'[t] = l /\ MpPuts(t, new)
    BY <1>2, <1>3, MpPut
  <1> QED
    BY <1>1, <1>4 DEF MpLocalFields, MpPuts

LEMMA MpLoadsTail ==
  ASSUME NEW t \in Threads, MpLocals, NEW l \in MpLabels, NEW P \in Pointers,
         pc' = [pc EXCEPT ![t] = l], Mp!Put(t, [tail |-> P])
  PROVE  /\ MpLocals' /\ MpMoves(t) /\ pc'[t] = l /\ r'[t].tail = P
         /\ r'[t].e = r[t].e /\ r'[t].head = r[t].head /\ r'[t].next = r[t].next /\ r'[t].try = r[t].try
PROOF
  <1> DEFINE new == [tail |-> P]
  <1>1. DOMAIN new = {"tail"} /\ new.tail = P
    OBVIOUS
  <1>2. MpFits(new)
    BY <1>1 DEF MpFits
  <1>3. Mp!Put(t, new)
    OBVIOUS
  <1> HIDE DEF new
  <1>4. MpLocals' /\ MpMoves(t) /\ pc'[t] = l /\ MpPuts(t, new)
    BY <1>2, <1>3, MpPut
  <1> QED
    BY <1>1, <1>4 DEF MpLocalFields, MpPuts

LEMMA MpLoadsNext ==
  ASSUME NEW t \in Threads, MpLocals, NEW l \in MpLabels, NEW P \in Pointers,
         pc' = [pc EXCEPT ![t] = l], Mp!Put(t, [next |-> P])
  PROVE  /\ MpLocals' /\ MpMoves(t) /\ pc'[t] = l /\ r'[t].next = P
         /\ r'[t].e = r[t].e /\ r'[t].head = r[t].head /\ r'[t].tail = r[t].tail /\ r'[t].try = r[t].try
PROOF
  <1> DEFINE new == [next |-> P]
  <1>1. DOMAIN new = {"next"} /\ new.next = P
    OBVIOUS
  <1>2. MpFits(new)
    BY <1>1 DEF MpFits
  <1>3. Mp!Put(t, new)
    OBVIOUS
  <1> HIDE DEF new
  <1>4. MpLocals' /\ MpMoves(t) /\ pc'[t] = l /\ MpPuts(t, new)
    BY <1>2, <1>3, MpPut
  <1> QED
    BY <1>1, <1>4 DEF MpLocalFields, MpPuts

LEMMA MpTailGeneration ==
  ASSUME NEW t \in Threads, MpInv, Mp!TailGeneration(t)
  PROVE  MpInv'
PROOF
  <1> DEFINE P == Mp!Ptr(NULL, m.tail.g)
  <1>1. MpMemory /\ MpLocals /\ MpChain /\ pc[t] = "tail_gen" /\ m.tail.g \in Nat
    BY MpKnown, MpEnds DEF Mp!TailGeneration, Mp!Step, Mp!At
  <1>2. P \in Pointers /\ P.g = m.tail.g
    BY <1>1, PointerOf
  <1>3. m' = m /\ Mp!Put(t, [tail |-> P]) /\ pc' = [pc EXCEPT ![t] = "tail_ptr"]
    BY DEF Mp!TailGeneration, Mp!Step, Mp!Go, Mp!Local
  <1> HIDE DEF P
  <1>4. "tail_ptr" \in MpLabels
    BY DEF MpLabels
  <1>5. MpLocals' /\ MpMoves(t) /\ pc'[t] = "tail_ptr" /\ r'[t].e = r[t].e /\ r'[t].tail = P
    BY <1>1, <1>2, <1>3, <1>4, MpLoadsTail
  <1>6. MpEnqueues(t)' /\ MpDequeues(t)' /\ MpBrings(t)
    BY <1>1, <1>2, <1>3, <1>5 DEF MpEnqueues, MpDequeues, MpBrings
  <1> QED
    BY <1>3, <1>5, <1>6, MpReads

LEMMA MpTailPointer ==
  ASSUME NEW t \in Threads, MpInv, Mp!TailPointer(t)
  PROVE  MpInv'
PROOF
  <1> DEFINE P == Mp!Ptr(m.tail.p, r[t].tail.g)
  <1>1. /\ MpMemory /\ MpLocals /\ MpChain /\ pc[t] = "tail_ptr" /\ MpEnqueues(t) /\ m.tail.p \in FifoEntries
        /\ m.tail.p # NULL
    BY MpKnown, MpEnds DEF Mp!TailPointer, Mp!Step, Mp!At
  <1>2. P \in Pointers /\ P.p = m.tail.p /\ P.g = r[t].tail.g
    BY <1>1, PointerOf DEF MpLocals, MpLocal, Pointers
  <1>3. m' = m /\ Mp!Put(t, [tail |-> P]) /\ pc' = [pc EXCEPT ![t] = "next_gen"]
    BY DEF Mp!TailPointer, Mp!Step, Mp!Go, Mp!Local
  <1> HIDE DEF P
  <1>4. "next_gen" \in MpLabels
    BY DEF MpLabels
  <1>5. MpLocals' /\ MpMoves(t) /\ pc'[t] = "next_gen" /\ r'[t].e = r[t].e /\ r'[t].tail = P
    BY <1>1, <1>2, <1>3, <1>4, MpLoadsTail
  <1>6. MpEnqueues(t)' /\ MpDequeues(t)' /\ MpBrings(t)
    BY <1>1, <1>2, <1>3, <1>5 DEF MpEnqueues, MpDequeues, MpBrings
  <1> QED
    BY <1>3, <1>5, <1>6, MpReads

LEMMA MpNextGeneration ==
  ASSUME NEW t \in Threads, MpInv, Mp!NextGeneration(t)
  PROVE  MpInv'
PROOF
  <1> DEFINE P == Mp!Ptr(NULL, m.next[r[t].tail.p].g)
  <1>1. MpMemory /\ MpLocals /\ MpChain /\ pc[t] = "next_gen" /\ MpEnqueues(t)
    BY MpKnown DEF Mp!NextGeneration, Mp!Step, Mp!At
  <1>2. r[t].tail.p \in FifoEntries
    BY <1>1 DEF MpEnqueues, MpLocals, MpLocal, Pointers
  <1>3. m.next[r[t].tail.p].g \in Nat
    BY <1>1, <1>2, MpEnds
  <1>4. P \in Pointers /\ P.g = m.next[r[t].tail.p].g
    BY <1>3, PointerOf
  <1>5. m' = m /\ Mp!Put(t, [next |-> P]) /\ pc' = [pc EXCEPT ![t] = "next_ptr"]
    BY DEF Mp!NextGeneration, Mp!Step, Mp!Go, Mp!Local
  <1> HIDE DEF P
  <1>6. "next_ptr" \in MpLabels
    BY DEF MpLabels
  <1>7. MpLocals' /\ MpMoves(t) /\ pc'[t] = "next_ptr" /\ r'[t].e = r[t].e /\ r'[t].next = P /\ r'[t].tail = r[t].tail
    BY <1>1, <1>4, <1>5, <1>6, MpLoadsNext
  <1>8. MpEnqueues(t)' /\ MpDequeues(t)' /\ MpBrings(t)
    BY <1>1, <1>3, <1>4, <1>5, <1>7, SMTT(30) DEF MpEnqueues, MpDequeues, MpBrings
  <1> QED
    BY <1>5, <1>7, <1>8, MpReads

LEMMA MpNextPointer ==
  ASSUME NEW t \in Threads, MpInv, Mp!NextPointer(t)
  PROVE  MpInv'
PROOF
  <1> DEFINE P == Mp!Ptr(m.next[r[t].tail.p].p, r[t].next.g)
  <1>1. MpMemory /\ MpLocals /\ MpChain /\ pc[t] = "next_ptr" /\ MpEnqueues(t)
    BY MpKnown DEF Mp!NextPointer, Mp!Step, Mp!At
  <1>2. r[t].tail.p \in FifoEntries /\ r[t].next.g \in Nat
    BY <1>1 DEF MpEnqueues, MpLocals, MpLocal, Pointers
  <1>3. m.next[r[t].tail.p].p \in FifoEntries \cup {NULL}
    BY <1>1, <1>2, MpEnds
  <1>4. P \in Pointers /\ P.p = m.next[r[t].tail.p].p /\ P.g = r[t].next.g
    BY <1>2, <1>3, PointerOf
  <1>5. m' = m /\ Mp!Put(t, [next |-> P]) /\ pc' = [pc EXCEPT ![t] = "same_tail"]
    BY DEF Mp!NextPointer, Mp!Step, Mp!Go, Mp!Local
  <1> HIDE DEF P
  <1>6. "same_tail" \in MpLabels
    BY DEF MpLabels
  <1>7. MpLocals' /\ MpMoves(t) /\ pc'[t] = "same_tail" /\ r'[t].e = r[t].e /\ r'[t].next = P /\ r'[t].tail = r[t].tail
    BY <1>1, <1>4, <1>5, <1>6, MpLoadsNext
  <1>8. MpEnqueues(t)' /\ MpDequeues(t)' /\ MpBrings(t)
    BY <1>1, <1>2, <1>4, <1>5, <1>7 DEF MpEnqueues, MpDequeues, MpBrings, SamePointer
  <1> QED
    BY <1>5, <1>7, <1>8, MpReads

LEMMA MpHeadGeneration ==
  ASSUME NEW t \in Threads, MpInv, Mp!HeadGeneration(t)
  PROVE  MpInv'
PROOF
  <1> DEFINE P == Mp!Ptr(NULL, m.head.g)
  <1>1. MpMemory /\ MpLocals /\ MpChain /\ pc[t] = "head_gen" /\ m.head.g \in Nat /\ MpDequeues(t)
    BY MpKnown, MpEnds DEF Mp!HeadGeneration, Mp!Step, Mp!At
  <1>2. P \in Pointers /\ P.g = m.head.g
    BY <1>1, PointerOf
  <1>3. m' = m /\ Mp!Put(t, [head |-> P]) /\ pc' = [pc EXCEPT ![t] = "head_ptr"]
    BY DEF Mp!HeadGeneration, Mp!Step, Mp!Go, Mp!Local
  <1> HIDE DEF P
  <1>4. "head_ptr" \in MpLabels
    BY DEF MpLabels
  <1>5. MpLocals' /\ MpMoves(t) /\ pc'[t] = "head_ptr" /\ r'[t].head = P
    BY <1>1, <1>2, <1>3, <1>4, MpLoadsHead
  <1>6. MpEnqueues(t)' /\ MpDequeues(t)' /\ ~(MpBrings(t)')
    BY <1>1, <1>2, <1>3, <1>5 DEF MpEnqueues, MpDequeues, MpBrings
  <1> QED
    BY <1>3, <1>5, <1>6, MpReads

LEMMA MpHeadPointer ==
  ASSUME NEW t \in Threads, MpInv, Mp!HeadPointer(t)
  PROVE  MpInv'
PROOF
  <1> DEFINE P == Mp!Ptr(m.head.p, r[t].head.g)
  <1>1. /\ MpMemory /\ MpLocals /\ MpChain /\ pc[t] = "head_ptr" /\ MpDequeues(t) /\ m.head.p \in FifoEntries
        /\ m.head.p # NULL
    BY MpKnown, MpEnds DEF Mp!HeadPointer, Mp!Step, Mp!At
  <1>2. P \in Pointers /\ P.p = m.head.p /\ P.g = r[t].head.g
    BY <1>1, PointerOf DEF MpLocals, MpLocal, Pointers
  <1>3. m' = m /\ Mp!Put(t, [head |-> P]) /\ pc' = [pc EXCEPT ![t] = "dtail_gen"]
    BY DEF Mp!HeadPointer, Mp!Step, Mp!Go, Mp!Local
  <1> HIDE DEF P
  <1>4. "dtail_gen" \in MpLabels
    BY DEF MpLabels
  <1>5. MpLocals' /\ MpMoves(t) /\ pc'[t] = "dtail_gen" /\ r'[t].head = P
    BY <1>1, <1>2, <1>3, <1>4, MpLoadsHead
  <1>6. MpEnqueues(t)' /\ MpDequeues(t)' /\ ~(MpBrings(t)')
    BY <1>1, <1>2, <1>3, <1>5 DEF MpEnqueues, MpDequeues, MpBrings
  <1> QED
    BY <1>3, <1>5, <1>6, MpReads

LEMMA MpDequeueTailGeneration ==
  ASSUME NEW t \in Threads, MpInv, Mp!DequeueTailGeneration(t)
  PROVE  MpInv'
PROOF
  <1> DEFINE P == Mp!Ptr(NULL, m.tail.g)
  <1>1. MpMemory /\ MpLocals /\ MpChain /\ pc[t] = "dtail_gen" /\ m.tail.g \in Nat /\ MpDequeues(t)
    BY MpKnown, MpEnds DEF Mp!DequeueTailGeneration, Mp!Step, Mp!At
  <1>2. P \in Pointers /\ P.g = m.tail.g
    BY <1>1, PointerOf
  <1>3. m' = m /\ Mp!Put(t, [tail |-> P]) /\ pc' = [pc EXCEPT ![t] = "dtail_ptr"]
    BY DEF Mp!DequeueTailGeneration, Mp!Step, Mp!Go, Mp!Local
  <1> HIDE DEF P
  <1>4. "dtail_ptr" \in MpLabels
    BY DEF MpLabels
  <1>5. MpLocals' /\ MpMoves(t) /\ pc'[t] = "dtail_ptr" /\ r'[t].tail = P /\ r'[t].head = r[t].head
    BY <1>1, <1>2, <1>3, <1>4, MpLoadsTail
  <1>6. MpEnqueues(t)' /\ MpDequeues(t)' /\ ~(MpBrings(t)')
    BY <1>1, <1>2, <1>3, <1>5 DEF MpEnqueues, MpDequeues, MpBrings
  <1> QED
    BY <1>3, <1>5, <1>6, MpReads

LEMMA MpDequeueTailPointer ==
  ASSUME NEW t \in Threads, MpInv, Mp!DequeueTailPointer(t)
  PROVE  MpInv'
PROOF
  <1> DEFINE P == Mp!Ptr(m.tail.p, r[t].tail.g)
  <1>1. /\ MpMemory /\ MpLocals /\ MpChain /\ pc[t] = "dtail_ptr" /\ MpDequeues(t) /\ m.tail.p \in FifoEntries
        /\ m.tail.p # NULL
    BY MpKnown, MpEnds DEF Mp!DequeueTailPointer, Mp!Step, Mp!At
  <1>2. P \in Pointers /\ P.p = m.tail.p /\ P.g = r[t].tail.g
    BY <1>1, PointerOf DEF MpLocals, MpLocal, Pointers
  <1>3. m' = m /\ Mp!Put(t, [tail |-> P]) /\ pc' = [pc EXCEPT ![t] = "dnext"]
    BY DEF Mp!DequeueTailPointer, Mp!Step, Mp!Go, Mp!Local
  <1> HIDE DEF P
  <1>4. "dnext" \in MpLabels
    BY DEF MpLabels
  <1>5. MpLocals' /\ MpMoves(t) /\ pc'[t] = "dnext" /\ r'[t].tail = P /\ r'[t].head = r[t].head
    BY <1>1, <1>2, <1>3, <1>4, MpLoadsTail
  <1>6. MpEnqueues(t)' /\ MpDequeues(t)' /\ ~(MpBrings(t)')
    BY <1>1, <1>2, <1>3, <1>5 DEF MpEnqueues, MpDequeues, MpBrings
  <1> QED
    BY <1>3, <1>5, <1>6, MpReads

\* The entry after the stub, and its value.
LEMMA MpFirst ==
  ASSUME MpMemory, MpChain
  PROVE  LET h == m.next[m.head.p].p
             n == Len(m.abs)
         IN  /\ n \in Nat \ {0} /\ DOMAIN m.abs = 1 .. n /\ m.head.p = m.abs[1]
             /\ h = NULL => n = 1 /\ m.deq = m.enq
             /\ h # NULL => n > 1 /\ h = m.abs[2] /\ m.value[h] = m.enq[Len(m.deq) + 1]
             /\ n > 1 => Len(m.deq) + 1 \in DOMAIN m.enq /\ m.deq # m.enq /\ h # NULL
             /\ m.tail.p # m.head.p => n > 1
PROOF
  <1> DEFINE a == m.abs
             n == Len(m.abs)
             h == m.next[m.head.p].p
             d == Len(m.deq)
             q == m.enq
  <1>1. /\ a \in Seq(FifoEntries) /\ a # <<>> /\ m.head.p = a[1] /\ q \in Seq(Int) /\ m.deq \in Seq(Int)
        /\ Len(q) = d + n - 1 /\ \A i \in DOMAIN a : i > 1 => m.value[a[i]] = q[d + i - 1]
        /\ \A i \in DOMAIN m.deq : m.deq[i] = q[i]
        /\ \E i \in DOMAIN a : m.tail.p = a[i]
    BY DEF MpChain, MpMemory
  <1>2. n \in Nat \ {0} /\ DOMAIN a = 1 .. n /\ d \in Nat /\ DOMAIN q = 1 .. Len(q) /\ DOMAIN m.deq = 1 .. d
    <2>1. n \in Nat \ {0} /\ DOMAIN a = 1 .. n
      BY <1>1
    <2>2. q \in Seq(Int) /\ m.deq \in Seq(Int)
      BY <1>1
    <2>3. d \in Nat /\ DOMAIN q = 1 .. Len(q) /\ DOMAIN m.deq = 1 .. d
      BY ONLY <2>2
    <2> QED
      BY <2>1, <2>3
  <1>3. h = IF 1 = n THEN NULL ELSE a[1 + 1]
    <2>1. 1 \in DOMAIN a
      BY ONLY <1>2
    <2>2. MpNext[a[1]] = IF 1 = n THEN NULL ELSE a[1 + 1]
      BY <2>1 DEF MpChain, LinkedBy
    <2>3. a[1] \in FifoEntries
      BY <1>1, <2>1
    <2> QED
      BY <1>1, <2>2, <2>3 DEF MpNext
  <1> HIDE DEF a, n, h, d, q
  <1>4. n # 1 => 2 \in DOMAIN a /\ 2 > 1 /\ 1 + 1 = 2 /\ d + 2 - 1 = d + 1 /\ d + 1 \in 1 .. Len(q) /\ Len(q) # d
    BY ONLY <1>1, <1>2
  <1>5. n # 1 => a[2] # NULL /\ m.value[a[2]] = q[d + 1]
    <2>1. n # 1 => a[2] \in FifoEntries
      BY ONLY <1>1, <1>4
    <2>2. NULL \notin FifoEntries
      BY QueuesAssumption DEF FifoEntries
    <2> QED
      BY ONLY <1>1, <1>4, <2>1, <2>2
  <1>6. n = 1 => m.deq = q
    <2>1. n = 1 => Len(q) = Len(m.deq)
      BY ONLY <1>1, <1>2 DEF d
    <2>2. n = 1 => \A i \in 1 .. Len(m.deq) : m.deq[i] = q[i]
      BY ONLY <1>1, <1>2 DEF d
    <2> QED
      BY ONLY <1>1, <2>1, <2>2, SeqEqual
  <1>7. n # 1 => m.deq # q
    BY ONLY <1>4 DEF d
  <1>8. m.tail.p # m.head.p => n # 1
    BY ONLY <1>1, <1>2
  <1>9. n # 1 => n > 1
    BY ONLY <1>2
  <1>10. h = NULL => n = 1
    BY ONLY <1>3, <1>4, <1>5
  <1>11. h # NULL => n # 1 /\ h = a[2]
    BY ONLY <1>3, <1>4
  <1>12. n > 1 => n # 1
    BY ONLY <1>2
  <1> QED
    BY ONLY <1>1, <1>2, <1>4, <1>5, <1>6, <1>7, <1>8, <1>9, <1>10, <1>11, <1>12, <1>3 DEF a, n, h, d, q

LEMMA MpDequeueNext ==
  ASSUME NEW t \in Threads, MpInv, Mp!DequeueNext(t)
  PROVE  MpInv'
PROOF
  <1> DEFINE H == r[t].head.p
             P == Mp!Ptr(m.next[H].p, 0)
  <1>1. MpMemory /\ MpLocals /\ MpChain /\ pc[t] = "dnext" /\ MpDequeues(t)
    BY MpKnown DEF Mp!DequeueNext, Mp!Step, Mp!At
  <1>2. H \in FifoEntries
    BY <1>1 DEF MpDequeues, MpLocals, MpLocal, Pointers
  <1>3. m.next[H].p \in FifoEntries \cup {NULL}
    BY <1>1, <1>2, MpEnds
  <1>4. P \in Pointers /\ P.p = m.next[H].p
    BY <1>3, PointerOf
  <1>5. m' = m /\ Mp!Put(t, [next |-> P]) /\ pc' = [pc EXCEPT ![t] = "compare"]
    BY DEF Mp!DequeueNext, Mp!Step, Mp!Go, Mp!Local
  <1> HIDE DEF P
  <1>6. "compare" \in MpLabels
    BY DEF MpLabels
  <1>7. /\ MpLocals' /\ MpMoves(t) /\ pc'[t] = "compare" /\ r'[t].next = P /\ r'[t].tail = r[t].tail
        /\ r'[t].head = r[t].head
    BY <1>1, <1>4, <1>5, <1>6, MpLoadsNext
  <1>8. m.head.g = r[t].head.g /\ m.next[H].p = NULL => t \in m.sawEmpty
    BY <1>1, MpFirst DEF MpDequeues
  <1>9. MpEnqueues(t)' /\ MpDequeues(t)' /\ ~(MpBrings(t)')
    BY <1>1, <1>4, <1>5, <1>7, <1>8 DEF MpEnqueues, MpDequeues, MpBrings
  <1> QED
    BY <1>5, <1>7, <1>9, MpReads

LEMMA MpSameHead ==
  ASSUME NEW t \in Threads, MpInv, Mp!SameHead(t)
  PROVE  MpInv'
PROOF
  <1> DEFINE l == IF m.head.g = r[t].head.g THEN "empty" ELSE "head_gen"
  <1>1. MpLocals /\ pc[t] = "same_head" /\ MpDequeues(t)
    BY MpKnown DEF Mp!SameHead, Mp!At
  <1>2. m' = m /\ r' = r /\ pc' = [pc EXCEPT ![t] = l] /\ l \in MpLabels
    BY DEF Mp!SameHead, Mp!Go, Mp!Local, MpLabels
  <1>3. MpLocals' /\ MpMoves(t) /\ pc'[t] = l /\ r'[t] = r[t]
    BY <1>1, <1>2, MpGo
  <1>4. MpEnqueues(t)' /\ MpDequeues(t)' /\ ~(MpBrings(t)')
    BY <1>1, <1>2, <1>3 DEF MpEnqueues, MpDequeues, MpBrings
  <1> QED
    BY <1>2, <1>3, <1>4, MpReads

LEMMA MpReturnEmpty ==
  ASSUME NEW t \in Threads, MpInv, Mp!ReturnEmpty(t)
  PROVE  MpInv'
PROOF
  <1>1. MpLocals /\ m' = m /\ Mp!Return(t)
    BY MpKnown DEF Mp!ReturnEmpty, Mp!Local
  <1>2. MpLocals' /\ MpMoves(t) /\ pc'[t] = "idle"
    BY <1>1, MpReturn
  <1> QED
    BY <1>1, <1>2, MpIdle, MpReads

LEMMA MpReadValue ==
  ASSUME NEW t \in Threads, MpInv, Mp!ReadValue(t)
  PROVE  MpInv'
PROOF
  <1> DEFINE v == m.value[r[t].next.p]
             new == [v |-> v]
  <1>1. MpMemory /\ MpLocals /\ MpChain /\ pc[t] = "compare" /\ MpDequeues(t) /\ m' = m /\ r[t].head.p # r[t].tail.p
    BY MpKnown DEF Mp!ReadValue, Mp!At, Mp!Local
  <1>2. CASE Mp!Again(t, "head_gen")
    BY <1>1, <1>2, MpStartsAgain
  <1>3. ASSUME r[t].next.p # NULL, pc' = [pc EXCEPT ![t] = "commit"], Mp!Put(t, new)
        PROVE  MpInv'
    <2>1. DOMAIN new = {"v"} /\ new.v = v /\ "commit" \in MpLabels
      BY DEF MpLabels
    <2> HIDE DEF new
    <2>2. MpFits(new)
      BY <2>1 DEF MpFits
    <2>3. MpLocals' /\ MpMoves(t) /\ pc'[t] = "commit" /\ MpPuts(t, new)
      BY <1>1, <1>3, <2>1, <2>2, MpPut
    <2>4. r'[t].v = v /\ r'[t].next = r[t].next /\ r'[t].tail = r[t].tail /\ r'[t].head = r[t].head
      BY <2>1, <2>3 DEF MpPuts, MpLocalFields
    <2>5. m.head.g = r[t].head.g => v = m.enq[Len(m.deq) + 1]
      BY <1>1, <1>3, MpFirst DEF MpDequeues
    <2> HIDE DEF v
    <2>6. MpEnqueues(t)' /\ MpDequeues(t)' /\ ~(MpBrings(t)')
      BY <1>1, <1>3, <2>3, <2>4, <2>5 DEF MpEnqueues, MpDequeues, MpBrings
    <2> QED
      BY <1>1, <2>3, <2>6, MpReads
  <1> QED
    BY <1>2, <1>3 DEF Mp!ReadValue, Mp!Go

\* A caller keeps the entry that it could not enqueue.
LEMMA MpKeepsPlaces ==
  ASSUME NEW t \in Threads, MpMemory, MpLocals, MpPlaces, MpMoves(t), m'.abs = m.abs, m'.next = m.next,
         NEW kept, m'.own = [m.own EXCEPT ![t] = m.own[t] \cup kept],
         kept = {} \/ (MpBrings(t) /\ kept = {r[t].e} /\ ~(MpBrings(t)')),
         MpBrings(t)' => MpBrings(t) /\ r'[t].e = r[t].e
  PROVE  MpPlaces' /\ m'.own \in [Threads -> SUBSET FifoEntries]
PROOF
  <1>1. m.own \in [Threads -> SUBSET FifoEntries]
    BY DEF MpMemory
  <1>2. CASE kept = {}
    <2>1. m'.own = m.own
      BY <1>1, <1>2
    <2>2. MpPlaces'
      BY <2>1, MpPlacesSame
    <2> QED
      BY <1>1, <2>1, <2>2
  <1>3. CASE MpBrings(t) /\ kept = {r[t].e} /\ ~(MpBrings(t)')
    <2> DEFINE e == r[t].e
    <2>1. e \in FifoEntries /\ e \notin Members(m.abs) /\ \A u \in Threads : e \notin m.own[u]
      BY <1>3 DEF MpPlaces, MpLocals, MpLocal
    <2>2. /\ \A u \in Threads \ {t} : m'.own[u] = m.own[u]
          /\ m'.own[t] = m.own[t] \cup {e} /\ m'.own \in [Threads -> SUBSET FifoEntries]
      BY <1>1, <1>3, <2>1
    <2>3. Members(m.abs)' = Members(m.abs)
      BY DEF Members
    <2>4. \A u \in Threads : MpBrings(u)' => u # t /\ MpBrings(u) /\ r'[u].e = r[u].e
      BY <1>3 DEF MpMoves, MpBrings
    <2>5. \A u \in Threads : MpBrings(u) /\ u # t => r[u].e # e
      BY <1>3 DEF MpPlaces
    <2> HIDE DEF e
    <2>6. MpPlaces'
      <3>1. \A x, u \in Threads : x # u => m'.own[x] \cap m'.own[u] = {}
        <4>1. \A x, u \in Threads : x # u => m.own[x] \cap m.own[u] = {}
          BY DEF MpPlaces
        <4> QED
          BY <2>1, <2>2, <4>1
      <3>2. \A x \in Threads : m'.own[x] \cap Members(m.abs) = {}
        <4>1. \A x \in Threads : m.own[x] \cap Members(m.abs) = {}
          BY DEF MpPlaces
        <4> QED
          BY <2>1, <2>2, <4>1
      <3>3. ASSUME NEW u \in Threads, MpBrings(u)'
            PROVE  /\ r'[u].e # NULL /\ m'.next[r'[u].e].p = NULL /\ r'[u].e \notin Members(m.abs)
                   /\ \A x \in Threads : r'[u].e \notin m'.own[x]
        <4>1. MpBrings(u) /\ r'[u].e = r[u].e /\ r[u].e # e
          BY <2>4, <2>5, <3>3
        <4>2. /\ r[u].e # NULL /\ m.next[r[u].e].p = NULL /\ r[u].e \notin Members(m.abs)
              /\ \A x \in Threads : r[u].e \notin m.own[x]
          BY <4>1 DEF MpPlaces
        <4> QED
          BY <2>2, <4>1, <4>2
      <3>4. \A x, u \in Threads : MpBrings(x)' /\ MpBrings(u)' /\ r'[x].e = r'[u].e => x = u
        BY <2>4 DEF MpPlaces
      <3> QED
        BY <2>3, <3>1, <3>2, <3>3, <3>4 DEF MpPlaces
    <2> QED
      BY <2>2, <2>6
  <1> QED
    BY <1>2, <1>3

\* The entry after the tail is the last one, and not the head.
LEMMA MpSecond ==
  ASSUME MpMemory, MpChain, m.next[m.tail.p].p # NULL
  PROVE  LET x == m.next[m.tail.p].p
         IN  x \in FifoEntries /\ x # m.head.p /\ Len(m.abs) \in DOMAIN m.abs /\ x = m.abs[Len(m.abs)]
PROOF
  <1> DEFINE a == m.abs
             n == Len(m.abs)
             x == m.next[m.tail.p].p
  <1>1. a \in Seq(FifoEntries) /\ a # <<>> /\ Distinct(a) /\ m.head.p = a[1] /\ LinkedBy(a, MpNext)
    BY DEF MpChain, MpMemory
  <1>2. PICK k \in DOMAIN a : m.tail.p = a[k] /\ k >= n - 1
    BY DEF MpChain
  <1>3. n \in Nat \ {0} /\ DOMAIN a = 1 .. n
    BY <1>1
  <1>4. a[k] \in FifoEntries
    BY <1>1, <1>2
  <1>5. x = IF k = n THEN NULL ELSE a[k + 1]
    BY <1>1, <1>2, <1>4 DEF LinkedBy, MpNext
  <1> HIDE DEF a, n
  <1>6. k = n - 1 /\ k + 1 = n /\ n \in DOMAIN a /\ n # 1 /\ 1 \in DOMAIN a
    BY <1>2, <1>3, <1>5
  <1>7. a[n] \in FifoEntries /\ a[n] # a[1]
    BY ONLY <1>1, <1>6 DEF Distinct
  <1> QED
    BY <1>1, <1>5, <1>6, <1>7 DEF a, n

\* A step that changes the tail at most: to the entry after it.
LEMMA MpSwapsTail ==
  ASSUME NEW t \in Threads, MpInv, DOMAIN m' = MpFields, \A f \in MpFields \ {"tail", "own"} : m'[f] = m[f],
         \/ m'.tail = m.tail
         \/ /\ m'.tail \in Pointers /\ m'.tail.g = m.tail.g + 1
            /\ m'.tail.p = m.next[m.tail.p].p /\ m'.tail.p # NULL,
         m'.own \in [Threads -> SUBSET FifoEntries], MpPlaces',
         MpMoves(t), MpLocals', MpEnqueues(t)', MpDequeues(t)'
  PROVE  MpInv'
PROOF
  <1>1. MpMemory /\ MpLocals /\ MpChain /\ MpGenerations
    BY DEF MpInv
  <1>2. /\ m'.head = m.head /\ m'.next = m.next /\ m'.value = m.value /\ m'.enqs = m.enqs /\ m'.abs = m.abs
        /\ m'.enq = m.enq /\ m'.deq = m.deq /\ m'.sawEmpty = m.sawEmpty
    BY DEF MpFields
  <1>3. MpMemory'
    BY <1>1, <1>2 DEF MpMemory
  <1>4. /\ m.tail.g \in Nat /\ m.head.g \in Nat /\ (\A x \in FifoEntries : m.next[x].g \in Nat)
        /\ m.tail.p \in FifoEntries
    BY <1>1, MpEnds
  <1>5. CASE m'.tail = m.tail
    <2>1. MpChain'
      BY <1>1, <1>2, <1>3, <1>5, MpChainSame
    <2>2. MpGenerations'
      BY <1>1, <1>2, <1>5 DEF MpGenerations
    <2>3. MpTailChange /\ MpHeadChange /\ MpSaw(t)
      BY <1>2, <1>4, <1>5 DEF MpTailChange, MpHeadChange, MpSaw
    <2> QED
      BY <1>3, <2>1, <2>2, <2>3, MpKeeps
  <1>6. CASE /\ m'.tail \in Pointers /\ m'.tail.g = m.tail.g + 1
             /\ m'.tail.p = m.next[m.tail.p].p /\ m'.tail.p # NULL
    <2>1. m'.tail.p # m.head.p /\ Len(m.abs) \in DOMAIN m.abs /\ m'.tail.p = m.abs[Len(m.abs)]
      BY <1>1, <1>6, MpSecond
    <2>2. MpTailChange /\ MpHeadChange /\ MpSaw(t)
      <3>1. m.tail.g <= m'.tail.g /\ m'.tail.g # m.tail.g
        BY <1>4, <1>6
      <3> QED
        BY <1>2, <1>4, <1>6, <2>1, <3>1 DEF MpTailChange, MpHeadChange, MpSaw
    <2>3. MpGenerations'
      <3>1. ASSUME NEW x \in FifoEntries PROVE m.next[x].g <= m'.tail.g
        <4>1. m.next[x].g <= m.tail.g + 1
          BY <1>1, <1>4 DEF MpGenerations
        <4> QED
          BY <1>6, <4>1
      <3>2. m'.tail.g \in Nat
        BY <1>4, <1>6
      <3> QED
        BY <1>2, <1>4, <3>1, <3>2 DEF MpGenerations
    <2>4. MpChain'
      <3>1. LinkedBy(m.abs, MpNext)' /\ Distinct(m.abs)'
        BY <1>1, <1>2 DEF MpChain, LinkedBy, MpNext, Distinct
      <3>2. (\E i \in DOMAIN m.abs : m.tail.p = m.abs[i] /\ i >= Len(m.abs) - 1)'
        <4>1. Len(m.abs) >= Len(m.abs) - 1
          BY <1>1 DEF MpMemory
        <4> QED
          BY <1>2, <2>1, <4>1
      <3> QED
        BY <1>1, <1>2, <3>1, <3>2 DEF MpChain
    <2> QED
      BY <1>3, <2>2, <2>3, <2>4, MpKeeps
  <1> QED
    BY <1>5, <1>6

LEMMA MpSameTail ==
  ASSUME NEW t \in Threads, MpInv, Mp!SameTail(t)
  PROVE  MpInv'
PROOF
  <1>1. MpMemory /\ MpLocals /\ MpPlaces /\ pc[t] = "same_tail" /\ MpEnqueues(t) /\ MpBrings(t) /\ DOMAIN m = MpFields
    BY MpKnown DEF Mp!SameTail, Mp!At, MpBrings
  <1>2. ASSUME m.tail.g = r[t].tail.g, pc' = [pc EXCEPT ![t] = "link"], m' = m, r' = r
        PROVE  MpInv'
    <2>1. MpLocals' /\ MpMoves(t) /\ pc'[t] = "link" /\ r'[t] = r[t]
      BY <1>1, <1>2, MpGo DEF MpLabels
    <2>2. MpEnqueues(t)' /\ MpDequeues(t)'
      BY <1>1, <1>2, <2>1 DEF MpEnqueues, MpDequeues
    <2> QED
      BY <1>1, <1>2, <2>1, <2>2, MpReads
  <1>3. ASSUME Mp!Again(t, "tail_gen"), r[t].try, m' = [m EXCEPT !.own[t] = @ \cup {r[t].e}]
        PROVE  MpInv'
    <2>1. MpLocals' /\ MpMoves(t) /\ pc'[t] = "idle"
      BY <1>1, <1>3, MpAgain DEF MpLabels
    <2>2. MpEnqueues(t)' /\ MpDequeues(t)' /\ ~(MpBrings(t)')
      BY <2>1, MpIdle
    <2>3. /\ DOMAIN m' = MpFields /\ \A f \in MpFields \ {"own"} : m'[f] = m[f]
          /\ m'.own = [m.own EXCEPT ![t] = m.own[t] \cup {r[t].e}]
      BY <1>1, <1>3 DEF MpFields
    <2>4. m'.abs = m.abs /\ m'.next = m.next /\ m'.tail = m.tail
      BY <2>3 DEF MpFields
    <2>5. MpPlaces' /\ m'.own \in [Threads -> SUBSET FifoEntries]
      BY <1>1, <2>1, <2>2, <2>3, <2>4, MpKeepsPlaces
    <2> QED
      BY <2>1, <2>2, <2>3, <2>4, <2>5, MpSwapsTail
  <1>4. ASSUME Mp!Again(t, "tail_gen"), m' = m PROVE MpInv'
    BY <1>1, <1>4, MpStartsAgain
  <1> QED
    BY <1>2, <1>3, <1>4 DEF Mp!SameTail, Mp!Go

\* The tail is swapped if it has not changed since it was read.
LEMMA MpSwap ==
  ASSUME MpMemory, MpChain, NEW p \in FifoEntries, NEW l \in Pointers,
         m.tail.g = l.g /\ m.tail.p = l.p => m.next[m.tail.p].p = p,
         m'.tail = Mp!Swap(m.tail, l, Mp!Ptr(p, l.g + 1))
  PROVE  \/ m'.tail = m.tail
         \/ /\ m'.tail \in Pointers /\ m'.tail.g = m.tail.g + 1
            /\ m'.tail.p = m.next[m.tail.p].p /\ m'.tail.p # NULL
PROOF
  <1>1. p # NULL
    BY QueuesAssumption DEF FifoEntries
  <1>2. l.g + 1 \in Nat
    BY DEF Pointers
  <1>3. Mp!Ptr(p, l.g + 1) \in Pointers /\ Mp!Ptr(p, l.g + 1).p = p /\ Mp!Ptr(p, l.g + 1).g = l.g + 1
    BY <1>2, PointerOf
  <1> QED
    BY <1>1, <1>3 DEF Mp!Swap

LEMMA MpForward ==
  ASSUME NEW t \in Threads, MpInv, Mp!Forward(t)
  PROVE  MpInv'
PROOF
  <1>1. /\ MpMemory /\ MpLocals /\ MpChain /\ MpPlaces /\ pc[t] = "forward" /\ MpEnqueues(t) /\ DOMAIN m = MpFields
        /\ Mp!Return(t)
    BY MpKnown DEF Mp!Forward, Mp!At
  <1>2. MpLocals' /\ MpMoves(t) /\ pc'[t] = "idle"
    BY <1>1, MpReturn
  <1>3. MpEnqueues(t)' /\ MpDequeues(t)' /\ ~(MpBrings(t)')
    BY <1>2, MpIdle
  <1>4. /\ DOMAIN m' = MpFields /\ \A f \in MpFields \ {"tail"} : m'[f] = m[f]
        /\ m'.tail = Mp!Swap(m.tail, r[t].tail, Mp!Ptr(r[t].e, r[t].tail.g + 1))
    BY <1>1 DEF MpFields, Mp!Forward
  <1>5. m'.own = m.own /\ m'.abs = m.abs /\ m'.next = m.next
    BY <1>4 DEF MpFields
  <1>6. MpPlaces' /\ m'.own \in [Threads -> SUBSET FifoEntries]
    BY <1>1, <1>2, <1>3, <1>5, MpPlacesSame DEF MpMemory
  <1>7. /\ r[t].e \in FifoEntries /\ r[t].tail \in Pointers
        /\ m.tail.g = r[t].tail.g /\ m.tail.p = r[t].tail.p => m.next[m.tail.p].p = r[t].e
    BY <1>1 DEF MpEnqueues, MpLocals, MpLocal
  <1>8. \/ m'.tail = m.tail
        \/ /\ m'.tail \in Pointers /\ m'.tail.g = m.tail.g + 1
           /\ m'.tail.p = m.next[m.tail.p].p /\ m'.tail.p # NULL
    BY <1>1, <1>4, <1>7, MpSwap
  <1> QED
    BY <1>2, <1>3, <1>4, <1>6, <1>8, MpSwapsTail

LEMMA MpOnlyStub ==
  ASSUME NEW t \in Threads, MpInv, Mp!OnlyStub(t)
  PROVE  MpInv'
PROOF
  <1>1. /\ MpMemory /\ MpLocals /\ MpChain /\ MpPlaces /\ pc[t] = "compare" /\ MpDequeues(t) /\ DOMAIN m = MpFields
        /\ r[t].head.p = r[t].tail.p /\ ~MpBrings(t) /\ MpLocal(t)
    BY MpKnown DEF Mp!OnlyStub, Mp!At, MpBrings
  <1>2. ASSUME r[t].next.p = NULL, m' = m, Mp!Again(t, "same_head") PROVE MpInv'
    <2>1. /\ MpLocals' /\ MpMoves(t) /\ (r[t].try => pc'[t] = "idle")
          /\ ~r[t].try => pc'[t] = "same_head" /\ r'[t] = r[t]
      BY <1>1, <1>2, MpAgain DEF MpLabels
    <2>2. MpEnqueues(t)' /\ MpDequeues(t)' /\ ~(MpBrings(t)')
      <3>1. CASE r[t].try
        BY <2>1, <3>1, MpIdle
      <3>2. CASE ~r[t].try
        BY <1>1, <1>2, <2>1, <3>2 DEF MpEnqueues, MpDequeues, MpBrings
      <3> QED
        BY <3>1, <3>2
    <2> QED
      BY <1>2, <2>1, <2>2, MpReads
  <1>3. ASSUME r[t].next.p # NULL, Mp!Again(t, "head_gen"),
               m' = [m EXCEPT !.tail = Mp!Swap(@, r[t].tail, Mp!Ptr(r[t].next.p, r[t].tail.g + 1))]
        PROVE  MpInv'
    <2>1. /\ MpLocals' /\ MpMoves(t) /\ (r[t].try => pc'[t] = "idle")
          /\ ~r[t].try => pc'[t] = "head_gen" /\ r'[t] = r[t]
      BY <1>1, <1>3, MpAgain DEF MpLabels
    <2>2. /\ DOMAIN m' = MpFields /\ \A f \in MpFields \ {"tail"} : m'[f] = m[f]
          /\ m'.tail = Mp!Swap(m.tail, r[t].tail, Mp!Ptr(r[t].next.p, r[t].tail.g + 1))
      BY <1>1, <1>3 DEF MpFields
    <2>3. m'.own = m.own /\ m'.abs = m.abs /\ m'.next = m.next /\ m'.enq = m.enq /\ m'.deq = m.deq /\ m'.sawEmpty = m.sawEmpty
      BY <2>2 DEF MpFields
    <2>4. MpEnqueues(t)' /\ MpDequeues(t)' /\ ~(MpBrings(t)')
      <3>1. CASE r[t].try
        BY <2>1, <3>1, MpIdle
      <3>2. CASE ~r[t].try
        BY <1>1, <2>1, <2>3, <3>2 DEF MpEnqueues, MpDequeues, MpBrings
      <3> QED
        BY <3>1, <3>2
    <2>5. MpPlaces' /\ m'.own \in [Threads -> SUBSET FifoEntries]
      BY <1>1, <2>1, <2>3, <2>4, MpPlacesSame DEF MpMemory
    <2>6. /\ r[t].next.p \in FifoEntries /\ r[t].tail \in Pointers
          /\ m.tail.g = r[t].tail.g /\ m.tail.p = r[t].tail.p => m.next[m.tail.p].p = r[t].next.p
      BY <1>1, <1>3 DEF MpDequeues, MpLocal, Pointers
    <2>7. \/ m'.tail = m.tail
          \/ /\ m'.tail \in Pointers /\ m'.tail.g = m.tail.g + 1
             /\ m'.tail.p = m.next[m.tail.p].p /\ m'.tail.p # NULL
      BY <1>1, <2>2, <2>6, MpSwap
    <2> QED
      BY <2>1, <2>2, <2>4, <2>5, <2>7, MpSwapsTail
  <1> QED
    BY <1>2, <1>3 DEF Mp!OnlyStub, Mp!Local

LEMMA MpDequeueCall ==
  ASSUME NEW t \in Threads, MpInv, Mp!DequeueCall(t)
  PROVE  MpInv'
PROOF
  <1>1. MpMemory /\ MpLocals /\ MpChain /\ MpGenerations /\ MpPlaces /\ DOMAIN m = MpFields
    BY MpKnown
  <1>2. PICK try \in BOOLEAN : Mp!Put(t, [try |-> try])
    BY DEF Mp!DequeueCall
  <1> DEFINE new == [try |-> try]
  <1>3. DOMAIN new = {"try"} /\ Mp!Put(t, new) /\ pc' = [pc EXCEPT ![t] = "head_gen"] /\ "head_gen" \in MpLabels
    BY <1>2 DEF Mp!DequeueCall, Mp!Step, Mp!Go, MpLabels
  <1> HIDE DEF new
  <1>4. MpFits(new)
    BY <1>3 DEF MpFits
  <1>5. MpLocals' /\ MpMoves(t) /\ pc'[t] = "head_gen"
    BY <1>1, <1>3, <1>4, MpPut
  <1>6. /\ DOMAIN m' = MpFields /\ \A f \in MpFields \ {"deqs", "sawEmpty"} : m'[f] = m[f]
        /\ m'.sawEmpty = IF m.deq = m.enq THEN m.sawEmpty \cup {t} ELSE m.sawEmpty \ {t}
    BY <1>1 DEF MpFields, Mp!DequeueCall
  <1>7. /\ m'.head = m.head /\ m'.tail = m.tail /\ m'.next = m.next /\ m'.value = m.value /\ m'.enqs = m.enqs
        /\ m'.abs = m.abs /\ m'.enq = m.enq /\ m'.deq = m.deq /\ m'.own = m.own
    BY <1>6 DEF MpFields
  <1>8. MpMemory' /\ MpGenerations'
    BY <1>1, <1>6, <1>7 DEF MpMemory, MpGenerations
  <1>9. MpEnqueues(t)' /\ MpDequeues(t)' /\ ~(MpBrings(t)')
    BY <1>5, <1>6, <1>7 DEF MpEnqueues, MpDequeues, MpBrings
  <1>10. MpPlaces' /\ MpChain'
    <2>1. MpPlaces'
      BY <1>1, <1>5, <1>7, <1>9, MpPlacesSame
    <2> QED
      BY <1>1, <1>7, <1>8, <2>1, MpChainSame
  <1>11. MpTailChange /\ MpHeadChange /\ MpSaw(t)
    <2>1. m.tail.g \in Nat /\ m.head.g \in Nat /\ \A x \in FifoEntries : m.next[x].g \in Nat
      BY <1>1, MpEnds
    <2> QED
      BY <1>6, <1>7, <2>1 DEF MpTailChange, MpHeadChange, MpSaw
  <1> QED
    BY <1>5, <1>8, <1>9, <1>10, <1>11, MpKeeps

\* A step that writes an entry that is not linked.
LEMMA MpWrites ==
  ASSUME NEW t \in Threads, MpInv, NEW e \in FifoEntries, e \notin Members(m.abs), MpMemory',
         m'.head = m.head, m'.tail = m.tail, m'.abs = m.abs, m'.enq = m.enq, m'.deq = m.deq, m'.sawEmpty = m.sawEmpty,
         \A x \in FifoEntries \ {e} : m'.next[x] = m.next[x] /\ m'.value[x] = m.value[x],
         m.next[e].g <= m'.next[e].g, m'.next[e].g <= m.tail.g,
         MpPlaces', MpMoves(t), MpLocals', MpEnqueues(t)', MpDequeues(t)'
  PROVE  MpInv'
PROOF
  <1>1. MpMemory /\ MpLocals /\ MpChain /\ MpGenerations
    BY DEF MpInv
  <1>2. /\ m.tail.g \in Nat /\ m.head.g \in Nat /\ (\A x \in FifoEntries : m.next[x].g \in Nat)
        /\ m.tail.p \in FifoEntries /\ m.head.p \in FifoEntries /\ m.tail.p # e /\ m.head.p # e
        /\ \A x \in Members(m.abs) : x \in FifoEntries /\ x # e
    BY <1>1, MpEnds
  <1>3. MpChain'
    BY <1>1, <1>2, MpChainSame
  <1>4. MpGenerations'
    <2>1. ASSUME NEW x \in FifoEntries
          PROVE  m'.next[x].g <= m'.tail.g + IF x = m'.tail.p /\ m'.next[x].p # NULL THEN 1 ELSE 0
      <3>1. CASE x = e
        BY <1>2, <3>1
      <3>2. CASE x # e
        BY <1>1, <3>2 DEF MpGenerations
      <3> QED
        BY <3>1, <3>2
    <2> QED
      BY <2>1 DEF MpGenerations
  <1>5. MpTailChange
    <2>1. \A x \in FifoEntries : m.next[x].g <= m'.next[x].g
      BY <1>2
    <2> QED
      BY <1>2, <2>1 DEF MpTailChange
  <1>6. MpHeadChange /\ MpSaw(t)
    BY <1>2 DEF MpHeadChange, MpSaw
  <1> QED
    BY <1>3, <1>4, <1>5, <1>6, MpKeeps

LEMMA MpEnqueueCall ==
  ASSUME NEW t \in Threads, MpInv, Mp!EnqueueCall(t)
  PROVE  MpInv'
PROOF
  <1>1. MpMemory /\ MpLocals /\ MpChain /\ MpGenerations /\ MpPlaces /\ DOMAIN m = MpFields
    BY MpKnown
  <1>2. PICK e \in m.own[t], try \in BOOLEAN :
          /\ Mp!Put(t, [e |-> e, try |-> try])
          /\ m' = [m EXCEPT !.own[t] = @ \ {e}, !.enqs = @ + 1, !.value[e] = m.enqs + 1, !.next[e].p = NULL]
    BY DEF Mp!EnqueueCall
  <1> DEFINE new == [e |-> e, try |-> try]
  <1>3. /\ e \in FifoEntries /\ e \notin Members(m.abs) /\ m.own \in [Threads -> SUBSET FifoEntries] /\ e # NULL
        /\ \A u \in Threads \ {t} : e \notin m.own[u]
    BY <1>1, QueuesAssumption DEF MpPlaces, MpMemory, FifoEntries
  <1>4. /\ DOMAIN new = {"e", "try"} /\ new.e = e /\ Mp!Put(t, new) /\ pc' = [pc EXCEPT ![t] = "prepare"]
        /\ "prepare" \in MpLabels
    BY <1>2 DEF Mp!EnqueueCall, Mp!Step, Mp!Go, MpLabels
  <1>5. /\ DOMAIN m' = MpFields /\ \A f \in MpFields \ {"own", "enqs", "value", "next"} : m'[f] = m[f]
        /\ m'.own = [m.own EXCEPT ![t] = m.own[t] \ {e}] /\ m'.value = [m.value EXCEPT ![e] = m.enqs + 1]
        /\ m'.next = [m.next EXCEPT ![e].p = NULL] /\ m'.enqs = m.enqs + 1
    BY <1>1, <1>2 DEF MpFields
  <1> HIDE DEF new
  <1>6. MpFits(new)
    BY <1>3, <1>4 DEF MpFits
  <1>7. MpLocals' /\ MpMoves(t) /\ pc'[t] = "prepare" /\ MpPuts(t, new)
    BY <1>1, <1>4, <1>6, MpPut
  <1>8. r'[t].e = e
    BY <1>4, <1>7 DEF MpPuts, MpLocalFields
  <1>9. /\ m'.head = m.head /\ m'.tail = m.tail
        /\ m'.abs = m.abs /\ m'.enq = m.enq /\ m'.deq = m.deq /\ m'.sawEmpty = m.sawEmpty
    BY <1>5 DEF MpFields
  <1>10. /\ m.next \in [FifoEntries -> Pointers] /\ m.next[e] \in Pointers /\ m.next[e].g \in Nat /\ m.tail.g \in Nat
         /\ m.tail.p # e
    BY <1>1, <1>3, MpEnds DEF MpMemory
  <1>11. /\ \A x \in FifoEntries \ {e} : m'.next[x] = m.next[x] /\ m'.value[x] = m.value[x]
         /\ m'.next[e].g = m.next[e].g /\ m'.next[e].p = NULL /\ m'.next[e] \in Pointers
    <2>1. m'.next[e] = [m.next[e] EXCEPT !.p = NULL] /\ \A x \in FifoEntries \ {e} : m'.next[x] = m.next[x]
      BY <1>3, <1>5, <1>10
    <2>2. m'.next[e].g = m.next[e].g /\ m'.next[e].p = NULL /\ m'.next[e] \in Pointers
      BY <1>10, <2>1 DEF Pointers
    <2>3. \A x \in FifoEntries \ {e} : m'.value[x] = m.value[x]
      BY <1>1, <1>5 DEF MpMemory
    <2> QED
      BY <2>1, <2>2, <2>3
  <1>12. MpMemory'
    <2>1. m'.next \in [FifoEntries -> Pointers]
      <3>1. m.next \in [FifoEntries -> Pointers] /\ m'.next = [m.next EXCEPT ![e].p = NULL] /\ m'.next[e] \in Pointers
        BY <1>5, <1>10, <1>11
      <3>2. m'.next = [x \in FifoEntries |-> IF x = e THEN m'.next[e] ELSE m.next[x]]
        BY ONLY <3>1, <1>3
      <3> QED
        BY ONLY <3>1, <3>2
    <2>2. m'.value \in [FifoEntries -> Int] /\ m'.own \in [Threads -> SUBSET FifoEntries] /\ m'.enqs \in Int
      BY <1>1, <1>3, <1>5 DEF MpMemory
    <2> QED
      BY <1>1, <1>5, <1>9, <2>1, <2>2 DEF MpMemory
  <1>13. m'.next[e].g <= m.tail.g /\ m.next[e].g <= m'.next[e].g
    BY <1>1, <1>3, <1>10, <1>11 DEF MpGenerations
  <1>14. MpEnqueues(t)' /\ MpDequeues(t)'
    BY <1>7 DEF MpEnqueues, MpDequeues
  <1>15. MpPlaces'
    <2>1. Members(m.abs)' = Members(m.abs)
      BY <1>9 DEF Members
    <2>2. m'.own[t] = m.own[t] \ {e} /\ \A u \in Threads \ {t} : m'.own[u] = m.own[u]
      BY <1>3, <1>5
    <2>3. \A u \in Threads \ {t} : (MpBrings(u)' => MpBrings(u)) /\ r'[u].e = r[u].e
      BY <1>7 DEF MpMoves, MpBrings
    <2>4. \A u \in Threads : MpBrings(u) => r[u].e # e /\ r[u].e \in FifoEntries
      BY <1>1 DEF MpPlaces, MpLocals, MpLocal
    <2>5. \A x, u \in Threads : x # u => m'.own[x] \cap m'.own[u] = {}
      BY <1>1, <2>2 DEF MpPlaces
    <2>6. \A x \in Threads : m'.own[x] \cap Members(m.abs) = {} /\ e \notin m'.own[x]
      BY <1>1, <1>3, <2>2 DEF MpPlaces
    <2>7. ASSUME NEW u \in Threads, MpBrings(u)'
          PROVE  /\ r'[u].e # NULL /\ m'.next[r'[u].e].p = NULL /\ r'[u].e \notin Members(m.abs)
                 /\ \A x \in Threads : r'[u].e \notin m'.own[x]
      <3>1. CASE u = t
        BY <1>3, <1>8, <1>11, <2>6, <3>1
      <3>2. CASE u # t
        <4>1. MpBrings(u) /\ r'[u].e = r[u].e /\ r[u].e # e /\ r[u].e \in FifoEntries
          BY <2>3, <2>4, <2>7, <3>2
        <4>2. /\ r[u].e # NULL /\ m.next[r[u].e].p = NULL /\ r[u].e \notin Members(m.abs)
              /\ \A x \in Threads : r[u].e \notin m.own[x]
          BY <1>1, <4>1 DEF MpPlaces
        <4> QED
          BY <1>11, <2>2, <4>1, <4>2
      <3> QED
        BY <3>1, <3>2
    <2>8. \A x, u \in Threads : MpBrings(x)' /\ MpBrings(u)' /\ r'[x].e = r'[u].e => x = u
      <3>1. \A x, u \in Threads \ {t} : MpBrings(x) /\ MpBrings(u) /\ r[x].e = r[u].e => x = u
        BY <1>1 DEF MpPlaces
      <3> QED
        BY <1>8, <2>3, <2>4, <3>1
    <2> QED
      BY <2>1, <2>5, <2>6, <2>7, <2>8 DEF MpPlaces
  <1> QED
    BY <1>3, <1>7, <1>9, <1>11, <1>12, <1>13, <1>14, <1>15, MpWrites

LEMMA MpPrepare ==
  ASSUME NEW t \in Threads, MpInv, Mp!Prepare(t)
  PROVE  MpInv'
PROOF
  <1> DEFINE e == r[t].e
  <1>1. MpMemory /\ MpLocals /\ MpChain /\ MpGenerations /\ MpPlaces /\ DOMAIN m = MpFields /\ pc[t] = "prepare" /\ MpBrings(t)
    BY MpKnown DEF Mp!Prepare, Mp!Step, Mp!At, MpBrings
  <1>2. e \in FifoEntries /\ e \notin Members(m.abs) /\ m.next[e].p = NULL
    BY <1>1 DEF MpPlaces, MpLocals, MpLocal
  <1>3. MpLocals' /\ MpMoves(t) /\ pc'[t] = "tail_gen" /\ r'[t] = r[t]
    BY <1>1, MpGo DEF MpLabels, Mp!Prepare, Mp!Step, Mp!Go
  <1>4. /\ DOMAIN m' = MpFields /\ \A f \in MpFields \ {"next"} : m'[f] = m[f]
        /\ m'.next = [m.next EXCEPT ![e].g = m.tail.g]
    BY <1>1 DEF MpFields, Mp!Prepare
  <1> HIDE DEF e
  <1>5. /\ m'.head = m.head /\ m'.tail = m.tail /\ m'.own = m.own /\ m'.value = m.value /\ m'.enqs = m.enqs
        /\ m'.abs = m.abs /\ m'.enq = m.enq /\ m'.deq = m.deq /\ m'.sawEmpty = m.sawEmpty
    BY <1>4 DEF MpFields
  <1>6. /\ m.next \in [FifoEntries -> Pointers] /\ m.next[e] \in Pointers /\ m.next[e].g \in Nat /\ m.tail.g \in Nat
        /\ m.tail.p # e
    BY <1>1, <1>2, MpEnds DEF MpMemory
  <1>7. m'.next[e] = [m.next[e] EXCEPT !.g = m.tail.g] /\ \A x \in FifoEntries \ {e} : m'.next[x] = m.next[x]
    BY <1>2, <1>4, <1>6
  <1>8. m'.next[e].g = m.tail.g /\ m'.next[e].p = NULL /\ m'.next[e] \in Pointers
    BY <1>2, <1>6, <1>7 DEF Pointers
  <1>9. MpMemory'
    <2>1. m'.next \in [FifoEntries -> Pointers]
      BY <1>4, <1>6, <1>7, <1>8
    <2> QED
      BY <1>1, <1>4, <1>5, <2>1 DEF MpMemory
  <1>10. m.next[e].g <= m'.next[e].g /\ m'.next[e].g <= m.tail.g
    BY <1>1, <1>2, <1>6, <1>8 DEF MpGenerations
  <1>11. MpEnqueues(t)' /\ MpDequeues(t)' /\ (MpBrings(t)' => MpBrings(t) /\ r'[t].e = r[t].e)
    BY <1>1, <1>3 DEF MpEnqueues, MpDequeues
  <1>12. MpPlaces'
    <2>1. \A x \in FifoEntries \ Members(m.abs) : m.next[x].p = NULL => m'.next[x].p = NULL
      BY <1>7, <1>8
    <2> QED
      BY <1>1, <1>3, <1>5, <1>11, <2>1, MpPlacesSame
  <1> QED
    BY <1>2, <1>3, <1>5, <1>7, <1>9, <1>10, <1>11, <1>12, MpWrites

\* A tail without a successor is the last entry.
LEMMA MpLast ==
  ASSUME MpMemory, MpChain, m.next[m.tail.p].p = NULL
  PROVE  Len(m.abs) \in DOMAIN m.abs /\ m.tail.p = m.abs[Len(m.abs)]
PROOF
  <1> DEFINE a == m.abs
             n == Len(m.abs)
  <1>1. a \in Seq(FifoEntries) /\ a # <<>> /\ LinkedBy(a, MpNext)
    BY DEF MpChain, MpMemory
  <1>2. PICK k \in DOMAIN a : m.tail.p = a[k]
    BY DEF MpChain
  <1>3. n \in Nat \ {0} /\ DOMAIN a = 1 .. n
    BY <1>1
  <1>4. a[k] \in FifoEntries
    BY <1>1, <1>2
  <1>5. NULL = IF k = n THEN NULL ELSE a[k + 1]
    BY <1>1, <1>2, <1>4 DEF LinkedBy, MpNext
  <1> HIDE DEF a, n
  <1>6. ASSUME k # n PROVE FALSE
    <2>1. k + 1 \in DOMAIN a
      BY <1>3, <1>6
    <2>2. a[k + 1] \in FifoEntries
      BY <1>1, <2>1
    <2> QED
      BY <1>5, <1>6, <2>2, QueuesAssumption DEF FifoEntries
  <1> QED
    BY <1>2, <1>3, <1>6 DEF a, n

LEMMA MpLinkCount ==
  ASSUME NEW n \in Nat, NEW d \in Nat, NEW q \in Nat, n > 0, q = d + n - 1
  PROVE  /\ q + 1 = d + (n + 1) - 1 /\ d + (n + 1) - 1 = q + 1 /\ q + 1 \in 1 .. q + 1
         /\ \A i \in 1 .. n + 1 : i > 1 /\ i # n + 1 => i \in 1 .. n /\ d + i - 1 \in 1 .. q
         /\ \A i \in 1 .. d : i \in 1 .. q
PROOF
  OBVIOUS

\* The chain with an entry more.
LEMMA MpChainBehind ==
  ASSUME MpMemory, MpMemory', MpChain, m.next[m.tail.p].p = NULL, NEW e \in FifoEntries, e \notin Members(m.abs),
         m.next[e].p = NULL, m'.next[m.tail.p].p = e, \A x \in FifoEntries \ {m.tail.p} : m'.next[x] = m.next[x],
         m'.abs = Append(m.abs, e), m'.enq = Append(m.enq, m.value[e]),
         m'.head = m.head, m'.tail = m.tail, m'.deq = m.deq, m'.value = m.value
  PROVE  MpChain' /\ m'.deq # m'.enq /\ (\A i \in DOMAIN m.enq : m'.enq[i] = m.enq[i])
         /\ Members(m.abs)' = Members(m.abs) \cup {e}
PROOF
  <1> DEFINE a == m.abs
             n == Len(a)
             d == Len(m.deq)
             q == m.enq
             v == m.value[e]
             c == Append(a, e)
             s == Append(q, v)
  <1>1. /\ a \in Seq(FifoEntries) /\ a # <<>> /\ Distinct(a) /\ m.head.p = a[1] /\ LinkedBy(a, MpNext)
        /\ q \in Seq(Int) /\ m.deq \in Seq(Int) /\ v \in Int
        /\ Len(q) = d + n - 1 /\ \A i \in DOMAIN a : i > 1 => m.value[a[i]] = q[d + i - 1]
    BY DEF MpChain, MpMemory
  <1>2. \A i \in DOMAIN m.deq : m.deq[i] = q[i]
    BY DEF MpChain
  <1>3. n \in DOMAIN a /\ m.tail.p = a[n]
    BY MpLast
  <1>4. n \in Nat /\ n > 0 /\ DOMAIN a = 1 .. n
    BY <1>1
  <1>5. d \in Nat /\ Len(q) \in Nat /\ DOMAIN q = 1 .. Len(q) /\ DOMAIN m.deq = 1 .. d
    <2>1. q \in Seq(Int) /\ m.deq \in Seq(Int)
      BY <1>1
    <2> QED
      BY ONLY <2>1
  <1>6. m'.abs = c /\ m'.enq = s
    OBVIOUS
  <1>7. LinkedBy(c, MpNext')
    <2>1. \A x \in FifoEntries : MpNext[x] = m.next[x].p /\ (MpNext')[x] = m'.next[x].p
      BY DEF MpNext
    <2>2. \A x \in Members(a) : x \in FifoEntries
      BY <1>1 DEF Members
    <2>3. \A y \in Members(a) \ {a[Len(a)]} : (MpNext')[y] = MpNext[y]
      BY <1>3, <2>1, <2>2
    <2>4. a[n] \in FifoEntries /\ a[n] \in Members(a)
      BY <1>1, <1>3 DEF Members
    <2>5. (MpNext')[a[Len(a)]] = e /\ (MpNext')[e] = NULL
      BY <1>3, <2>1, <2>4
    <2>6. a \in Seq(FifoEntries) /\ a # <<>> /\ Distinct(a) /\ LinkedBy(a, MpNext)
      BY <1>1
    <2>7. e \in FifoEntries /\ e \notin Members(a)
      OBVIOUS
    <2> HIDE DEF a, n, c
    <2> QED
      BY ONLY <2>3, <2>5, <2>6, <2>7, LinkedBehind DEF c
  <1> HIDE DEF a, n, d, q, v, c, s
  <1>8. /\ c \in Seq(FifoEntries) /\ Len(c) = n + 1 /\ DOMAIN c = 1 .. n + 1 /\ c[n + 1] = e
        /\ \A i \in DOMAIN a : c[i] = a[i]
        /\ Members(c) = {e} \cup Members(a) /\ Distinct(c)
    <2>1. e \notin Members(a)
      BY DEF a
    <2> QED
      BY ONLY <1>1, <2>1, e \in FifoEntries, Behind DEF c, n
  <1>9. /\ s \in Seq(Int) /\ Len(s) = Len(q) + 1 /\ DOMAIN s = 1 .. Len(q) + 1
        /\ (\A i \in DOMAIN q : s[i] = q[i]) /\ s[Len(q) + 1] = v
    BY ONLY <1>1, Behind DEF s
  <1>10. /\ Len(q) + 1 = d + (n + 1) - 1 /\ d + (n + 1) - 1 = Len(q) + 1
         /\ \A i \in 1 .. n + 1 : i > 1 /\ i # n + 1 => i \in 1 .. n /\ d + i - 1 \in 1 .. Len(q)
         /\ \A i \in 1 .. d : i \in 1 .. Len(q)
    <2>1. Len(q) = d + n - 1
      BY ONLY <1>1
    <2> QED
      BY ONLY <1>4, <1>5, <2>1, MpLinkCount
  <1>11. ASSUME NEW i \in DOMAIN c, i > 1 PROVE m.value[c[i]] = s[d + i - 1]
    <2>1. CASE i = n + 1
      <3>1. m.value[c[n + 1]] = v
        BY <1>8 DEF v
      <3> QED
        BY ONLY <1>9, <1>10, <2>1, <3>1
    <2>2. CASE i # n + 1
      <3>1. i \in 1 .. n /\ d + i - 1 \in 1 .. Len(q)
        BY ONLY <1>8, <1>10, <1>11, <2>2
      <3>2. c[i] = a[i] /\ s[d + i - 1] = q[d + i - 1]
        BY ONLY <1>4, <1>5, <1>8, <1>9, <3>1
      <3>3. m.value[a[i]] = q[d + i - 1]
        BY ONLY <1>1, <1>4, <1>11, <3>1
      <3> QED
        BY ONLY <3>2, <3>3
    <2> QED
      BY ONLY <2>1, <2>2
  <1>12. \E i \in DOMAIN c : m.tail.p = c[i] /\ i >= Len(c) - 1
    <2>1. n \in DOMAIN c /\ n >= (n + 1) - 1
      BY ONLY <1>4, <1>8
    <2> QED
      BY ONLY <1>3, <1>8, <2>1
  <1>13. \A i \in DOMAIN m.deq : m.deq[i] = s[i]
    BY ONLY <1>2, <1>5, <1>9, <1>10
  <1>14. c # <<>> /\ m.head.p = c[1]
    <2>1. Len(c) # 0 /\ Len(<<>>) = 0 /\ 1 \in DOMAIN a
      BY ONLY <1>4, <1>8
    <2> QED
      BY ONLY <1>1, <1>8, <2>1
  <1>15. m'.deq # m'.enq
    <2>1. Len(m.deq) # Len(s)
      BY ONLY <1>4, <1>5, <1>9, <1>10 DEF d
    <2> QED
      BY <1>6, <2>1
  <1>16. Len(s) = d + Len(c) - 1
    BY ONLY <1>8, <1>9, <1>10
  <1>17. MpChain'
    <2>1. Distinct(m.abs)' /\ LinkedBy(m.abs, MpNext)'
      BY <1>6, <1>7, <1>8 DEF Distinct, LinkedBy
    <2>2. (\A i \in DOMAIN m.abs : i > 1 => m.value[m.abs[i]] = m.enq[Len(m.deq) + i - 1])'
      BY <1>6, <1>11 DEF d
    <2>3. (Len(m.enq) = Len(m.deq) + Len(m.abs) - 1)' /\ (\A i \in DOMAIN m.deq : m.deq[i] = m.enq[i])'
      BY <1>6, <1>13, <1>16 DEF d
    <2>4. (\E i \in DOMAIN m.abs : m.tail.p = m.abs[i] /\ i >= Len(m.abs) - 1)'
      BY <1>6, <1>12
    <2> QED
      BY <1>6, <1>14, <2>1, <2>2, <2>3, <2>4 DEF MpChain
  <1>18. Members(m.abs)' = Members(m.abs) \cup {e}
    <2>1. Members(m.abs)' = Members(c)
      BY <1>6 DEF Members
    <2> QED
      BY <1>8, <2>1 DEF a
  <1>19. \A i \in DOMAIN m.enq : m'.enq[i] = m.enq[i]
    BY <1>6, <1>9 DEF q
  <1> QED
    BY <1>15, <1>17, <1>18, <1>19

LEMMA MpLinks ==
  ASSUME NEW t \in Threads, MpInv, pc[t] = "link", r[t].next.p = NULL, m.next[r[t].tail.p] = r[t].next,
         m' = [m EXCEPT !.next[r[t].tail.p] = Mp!Ptr(r[t].e, r[t].next.g + 1), !.abs = Append(@, r[t].e),
                        !.enq = Append(@, m.value[r[t].e])],
         pc' = [pc EXCEPT ![t] = "forward"], r' = r
  PROVE  MpInv'
PROOF
  <1> DEFINE e == r[t].e
             T == m.tail.p
             P == Mp!Ptr(e, r[t].next.g + 1)
  <1>1. /\ MpMemory /\ MpLocals /\ MpLocal(t) /\ MpChain /\ MpGenerations /\ MpPlaces /\ DOMAIN m = MpFields
        /\ MpEnqueues(t) /\ MpBrings(t)
    BY MpKnown DEF MpBrings
  <1>2. e \in FifoEntries /\ e \notin Members(m.abs) /\ m.next[e].p = NULL /\ e # NULL
    BY <1>1 DEF MpPlaces, MpLocal
  <1>3. r[t].next.g \in Nat /\ r[t].next.g + 1 \in Nat /\ r[t].next.g + 1 > r[t].next.g
    BY <1>1 DEF MpLocal, Pointers
  <1>4. r[t].tail.p = T
    BY <1>1, <1>3 DEF MpEnqueues, SamePointer
  <1>5. P \in Pointers /\ P.p = e /\ P.g = r[t].next.g + 1
    BY <1>2, <1>3, PointerOf
  <1>6. /\ DOMAIN m' = MpFields /\ \A f \in MpFields \ {"next", "abs", "enq"} : m'[f] = m[f]
        /\ m'.next = [m.next EXCEPT ![T] = P] /\ m'.abs = Append(m.abs, e) /\ m'.enq = Append(m.enq, m.value[e])
    BY <1>1, <1>4 DEF MpFields
  <1> HIDE DEF P
  <1>7. /\ m'.head = m.head /\ m'.tail = m.tail /\ m'.own = m.own /\ m'.value = m.value /\ m'.enqs = m.enqs
        /\ m'.deq = m.deq /\ m'.sawEmpty = m.sawEmpty
    BY <1>6 DEF MpFields
  <1>8. MpLocals' /\ MpMoves(t) /\ pc'[t] = "forward" /\ r'[t] = r[t]
    BY <1>1, MpGo DEF MpLabels
  <1>9. /\ T \in FifoEntries /\ T \in Members(m.abs) /\ m.tail.g \in Nat /\ m.head.g \in Nat
        /\ m.head.p \in FifoEntries /\ \A x \in FifoEntries : m.next[x].g \in Nat
    BY <1>1, MpEnds
  <1>10. m.next[T].p = NULL /\ m.next[T].g = r[t].next.g
    BY <1>4
  <1>11. m'.next[T] = P /\ \A x \in FifoEntries \ {T} : m'.next[x] = m.next[x]
    <2>1. m.next \in [FifoEntries -> Pointers]
      BY <1>1 DEF MpMemory
    <2>2. m'.next = [m.next EXCEPT ![T] = P] /\ T \in FifoEntries
      BY <1>6, <1>9
    <2> QED
      BY ONLY <2>1, <2>2
  <1>12. MpMemory'
    <2>1. m'.next \in [FifoEntries -> Pointers]
      <3>1. m.next \in [FifoEntries -> Pointers]
        BY <1>1 DEF MpMemory
      <3>2. P \in Pointers /\ m'.next = [m.next EXCEPT ![T] = P]
        BY <1>5, <1>6
      <3> QED
        BY ONLY <3>1, <3>2
    <2>2. m'.abs \in Seq(FifoEntries) /\ m'.enq \in Seq(Int)
      <3>1. m.abs \in Seq(FifoEntries) /\ m.enq \in Seq(Int) /\ m.value[e] \in Int
        BY <1>1, <1>2 DEF MpMemory
      <3> QED
        BY <1>2, <1>6, <3>1, Behind
    <2> QED
      BY <1>1, <1>6, <1>7, <2>1, <2>2 DEF MpMemory
  <1>13. /\ MpChain' /\ m'.deq # m'.enq /\ (\A i \in DOMAIN m.enq : m'.enq[i] = m.enq[i])
         /\ Members(m.abs)' = Members(m.abs) \cup {e}
    <2>1. m'.next[m.tail.p].p = e /\ \A x \in FifoEntries \ {m.tail.p} : m'.next[x] = m.next[x]
      BY <1>5, <1>11
    <2>2. m.next[m.tail.p].p = NULL
      BY <1>10
    <2> HIDE DEF T, e
    <2> QED
      BY <1>1, <1>2, <1>6, <1>7, <1>12, <2>1, <2>2, MpChainBehind
  <1>14. MpGenerations'
    <2>1. m.next[T].g <= m.tail.g
      BY <1>1, <1>9, <1>10 DEF MpGenerations
    <2>2. ASSUME NEW x \in FifoEntries
          PROVE  m'.next[x].g <= m'.tail.g + IF x = m'.tail.p /\ m'.next[x].p # NULL THEN 1 ELSE 0
      <3>1. CASE x = T
        BY <1>2, <1>3, <1>5, <1>7, <1>9, <1>10, <1>11, <2>1, <3>1
      <3>2. CASE x # T
        BY <1>1, <1>7, <1>11, <3>2 DEF MpGenerations
      <3> QED
        BY <3>1, <3>2
    <2> QED
      BY <2>2 DEF MpGenerations
  <1>15. MpPlaces'
    <2>1. \A u \in Threads : MpBrings(u)' => u # t /\ MpBrings(u) /\ r'[u].e = r[u].e
      BY <1>8 DEF MpMoves, MpBrings
    <2>2. \A u \in Threads : MpBrings(u) /\ u # t => r[u].e # e /\ r[u].e \in FifoEntries /\ r[u].e # T
      BY <1>1, <1>9 DEF MpPlaces, MpLocals, MpLocal
    <2>3. \A u \in Threads : e \notin m.own[u]
      BY <1>1 DEF MpPlaces
    <2> HIDE DEF e, T
    <2>4. ASSUME NEW u \in Threads, MpBrings(u)'
          PROVE  /\ r'[u].e # NULL /\ m'.next[r'[u].e].p = NULL /\ r'[u].e \notin Members(m.abs)'
                 /\ \A x \in Threads : r'[u].e \notin m'.own[x]
      <3>1. MpBrings(u) /\ r'[u].e = r[u].e /\ r[u].e # e /\ r[u].e \in FifoEntries \ {T}
        BY <2>1, <2>2, <2>4
      <3>2. /\ r[u].e # NULL /\ m.next[r[u].e].p = NULL /\ r[u].e \notin Members(m.abs)
            /\ \A x \in Threads : r[u].e \notin m.own[x]
        BY <1>1, <3>1 DEF MpPlaces
      <3>3. m'.next[r[u].e] = m.next[r[u].e]
        BY <1>11, <3>1
      <3> QED
        BY <1>7, <1>13, <3>1, <3>2, <3>3
    <2>5. \A x, u \in Threads : MpBrings(x)' /\ MpBrings(u)' /\ r'[x].e = r'[u].e => x = u
      BY <1>1, <2>1 DEF MpPlaces
    <2>6. \A x \in Threads : m'.own[x] \cap (Members(m.abs)') = {}
      BY <1>1, <1>7, <1>13, <2>3 DEF MpPlaces
    <2> QED
      BY <1>1, <1>7, <2>4, <2>5, <2>6 DEF MpPlaces
  <1>16. MpTailChange
    <2>1. \A x \in FifoEntries : m.next[x].g <= m'.next[x].g
      BY <1>3, <1>5, <1>9, <1>10, <1>11
    <2>2. m.next[m.tail.p].p = NULL /\ m'.next[m.tail.p].p # NULL /\ m'.next[m.tail.p].g > m.next[m.tail.p].g
      BY <1>2, <1>3, <1>5, <1>10, <1>11
    <2> QED
      BY <1>7, <1>9, <2>1, <2>2 DEF MpTailChange
  <1>17. MpHeadChange
    <2>1. m.next[m.head.p].p # NULL => m'.next[m.head.p].p = m.next[m.head.p].p
      BY <1>9, <1>10, <1>11
    <2>2. m.tail.p # m.head.p => m'.enq[Len(m.deq) + 1] = m.enq[Len(m.deq) + 1]
      BY <1>1, <1>13, MpFirst
    <2>3. m.head.g \in Nat
      BY <1>9
    <2> QED
      BY ONLY <1>7, <2>1, <2>2, <2>3 DEF MpHeadChange
  <1>18. MpSaw(t)
    BY <1>7, <1>13 DEF MpSaw
  <1>19. MpEnqueues(t)' /\ MpDequeues(t)'
    BY <1>1, <1>2, <1>4, <1>5, <1>7, <1>8, <1>11 DEF MpEnqueues, MpDequeues
  <1> QED
    BY <1>8, <1>12, <1>13, <1>14, <1>15, <1>16, <1>17, <1>18, <1>19, MpKeeps

LEMMA MpLink ==
  ASSUME NEW t \in Threads, MpInv, Mp!Link(t)
  PROVE  MpInv'
PROOF
  <1> DEFINE l == r[t]
             linked == l.next.p = NULL /\ m.next[l.tail.p] = l.next
             kept == IF l.try /\ ~linked THEN {l.e} ELSE {}
  <1>1. /\ MpMemory /\ MpLocals /\ MpLocal(t) /\ MpChain /\ MpPlaces /\ DOMAIN m = MpFields
        /\ MpEnqueues(t) /\ MpBrings(t) /\ pc[t] = "link"
    BY MpKnown DEF MpBrings, Mp!Link, Mp!At
  <1>2. ASSUME linked PROVE MpInv'
    <2>1. /\ m' = [m EXCEPT !.next[l.tail.p] = Mp!Ptr(l.e, l.next.g + 1), !.abs = Append(@, l.e),
                             !.enq = Append(@, m.value[l.e])]
          /\ pc' = [pc EXCEPT ![t] = "forward"] /\ r' = r
      BY <1>2 DEF Mp!Link, Mp!Go
    <2> QED
      BY <1>1, <1>2, <2>1, MpLinks
  <1>3. ASSUME ~linked PROVE MpInv'
    <2>1. Mp!Again(t, "tail_gen")
      BY <1>3 DEF Mp!Link
    <2>2. /\ MpLocals' /\ MpMoves(t) /\ (l.try => pc'[t] = "idle")
          /\ ~l.try => pc'[t] = "tail_gen" /\ r'[t] = r[t]
      BY <1>1, <2>1, MpAgain DEF MpLabels
    <2>3. MpEnqueues(t)' /\ MpDequeues(t)'
      <3>1. CASE l.try
        BY <2>2, <3>1, MpIdle
      <3>2. CASE ~l.try
        BY <2>2, <3>2 DEF MpEnqueues, MpDequeues
      <3> QED
        BY <3>1, <3>2
    <2>4. /\ kept = {} \/ (MpBrings(t) /\ kept = {r[t].e} /\ ~(MpBrings(t)'))
          /\ MpBrings(t)' => MpBrings(t) /\ r'[t].e = r[t].e
      BY <1>1, <1>3, <2>2 DEF MpBrings
    <2>5. m' = IF l.next.p # NULL
               THEN [m EXCEPT !.tail = Mp!Swap(@, l.tail, Mp!Ptr(l.next.p, l.tail.g + 1)),
                              !.own[t] = @ \cup kept]
               ELSE [m EXCEPT !.own[t] = @ \cup kept]
      BY <1>3 DEF Mp!Link
    <2> HIDE DEF kept, linked
    <2>6. /\ DOMAIN m' = MpFields /\ \A f \in MpFields \ {"tail", "own"} : m'[f] = m[f]
          /\ m'.own = [m.own EXCEPT ![t] = m.own[t] \cup kept]
          /\ l.next.p = NULL => m'.tail = m.tail
          /\ l.next.p # NULL => m'.tail = Mp!Swap(m.tail, l.tail, Mp!Ptr(l.next.p, l.tail.g + 1))
      BY <1>1, <2>5 DEF MpFields
    <2>7. m'.abs = m.abs /\ m'.next = m.next
      BY <2>6 DEF MpFields
    <2>8. MpPlaces' /\ m'.own \in [Threads -> SUBSET FifoEntries]
      BY <1>1, <2>2, <2>4, <2>6, <2>7, MpKeepsPlaces
    <2>9. \/ m'.tail = m.tail
          \/ /\ m'.tail \in Pointers /\ m'.tail.g = m.tail.g + 1
             /\ m'.tail.p = m.next[m.tail.p].p /\ m'.tail.p # NULL
      <3>1. CASE l.next.p = NULL
        BY <2>6, <3>1
      <3>2. CASE l.next.p # NULL
        <4>1. /\ l.next.p \in FifoEntries /\ l.tail \in Pointers
              /\ m.tail.g = l.tail.g /\ m.tail.p = l.tail.p => m.next[m.tail.p].p = l.next.p
          BY <1>1, <3>2 DEF MpEnqueues, MpLocal, Pointers
        <4> QED
          BY <1>1, <2>6, <3>2, <4>1, MpSwap
      <3> QED
        BY <3>1, <3>2
    <2> QED
      BY <2>2, <2>3, <2>6, <2>8, <2>9, MpSwapsTail
  <1> QED
    BY <1>2, <1>3

LEMMA MpTakeCount ==
  ASSUME NEW n \in Nat, NEW d \in Nat, NEW q \in Nat, n > 1, q = d + n - 1
  PROVE  /\ q = (d + 1) + (n - 1) - 1 /\ d + 1 \in 1 .. q /\ n - 1 \in Nat /\ 1 \in 1 .. n - 1 /\ n - 1 # 0
         /\ \A i \in 1 .. n - 1 : /\ (d + 1) + i - 1 = d + (i + 1) - 1
                                  /\ i > 1 => i + 1 > 1 /\ i + 1 \in 1 .. n
         /\ \A k \in 1 .. n : k # 1 /\ k >= n - 1 => k - 1 \in 1 .. n - 1 /\ (k - 1) + 1 = k /\ k - 1 >= (n - 1) - 1
         /\ \A i \in 1 .. d + 1 : i # d + 1 => i \in 1 .. d
PROOF
  OBVIOUS

\* The chain without its first entry: the one after it is the stub now.
LEMMA MpChainFirst ==
  ASSUME MpMemory, MpMemory', MpChain, m.tail.p # m.head.p, m'.deq = Append(m.deq, m.enq[Len(m.deq) + 1]),
         m'.abs = Tail(m.abs), m'.head.p = m.next[m.head.p].p, m'.next = m.next, m'.value = m.value,
         m'.enq = m.enq, m'.tail = m.tail
  PROVE  MpChain' /\ Members(m.abs) = {m.head.p} \cup (Members(m.abs)') /\ m.head.p \notin Members(m.abs)'
PROOF
  <1> DEFINE a == m.abs
             n == Len(a)
             d == Len(m.deq)
             q == m.enq
             v == q[d + 1]
             c == Tail(a)
             s == Append(m.deq, v)
  <1>1. /\ a \in Seq(FifoEntries) /\ a # <<>> /\ Distinct(a) /\ m.head.p = a[1] /\ LinkedBy(a, MpNext)
        /\ q \in Seq(Int) /\ m.deq \in Seq(Int)
        /\ Len(q) = d + n - 1 /\ \A i \in DOMAIN a : i > 1 => m.value[a[i]] = q[d + i - 1]
    BY DEF MpChain, MpMemory
  <1>2. \A i \in DOMAIN m.deq : m.deq[i] = q[i]
    BY DEF MpChain
  <1>3. PICK k \in DOMAIN a : m.tail.p = a[k] /\ k >= n - 1
    BY DEF MpChain
  <1>4. /\ n \in Nat /\ n > 1 /\ DOMAIN a = 1 .. n /\ d + 1 \in DOMAIN q /\ m.next[m.head.p].p = a[2]
        /\ m.head.p = a[1]
    BY MpFirst
  <1>5. d \in Nat /\ Len(q) \in Nat /\ DOMAIN q = 1 .. Len(q) /\ DOMAIN m.deq = 1 .. d
    <2>1. q \in Seq(Int) /\ m.deq \in Seq(Int)
      BY <1>1
    <2> QED
      BY ONLY <2>1
  <1>6. m'.abs = c /\ m'.deq = s
    OBVIOUS
  <1>7. LinkedBy(c, MpNext) /\ MpNext' = MpNext
    BY <1>1, LinkedTail DEF MpNext
  <1> HIDE DEF a, n, d, q, v, c, s
  <1>8. /\ c \in Seq(FifoEntries) /\ Len(c) = n - 1 /\ DOMAIN c = 1 .. n - 1
        /\ \A i \in DOMAIN c : i + 1 \in DOMAIN a /\ c[i] = a[i + 1]
        /\ Members(a) = {a[1]} \cup Members(c) /\ Distinct(c) /\ a[1] \notin Members(c)
    BY ONLY <1>1, Without DEF c, n
  <1>9. v \in Int
    BY ONLY <1>1, <1>4 DEF v
  <1>10. /\ s \in Seq(Int) /\ Len(s) = d + 1 /\ DOMAIN s = 1 .. d + 1
         /\ (\A i \in DOMAIN m.deq : s[i] = m.deq[i]) /\ s[d + 1] = v
    BY ONLY <1>1, <1>9, Behind DEF s, d
  <1>11. /\ Len(q) = (d + 1) + (n - 1) - 1 /\ d + 1 \in 1 .. Len(q) /\ n - 1 \in Nat /\ 1 \in 1 .. n - 1 /\ n - 1 # 0
         /\ \A i \in 1 .. n - 1 : /\ (d + 1) + i - 1 = d + (i + 1) - 1
                                  /\ i > 1 => i + 1 > 1 /\ i + 1 \in 1 .. n
         /\ \A j \in 1 .. n : j # 1 /\ j >= n - 1 => j - 1 \in 1 .. n - 1 /\ (j - 1) + 1 = j /\ j - 1 >= (n - 1) - 1
         /\ \A i \in 1 .. d + 1 : i # d + 1 => i \in 1 .. d
    <2>1. Len(q) = d + n - 1
      BY ONLY <1>1
    <2> QED
      BY ONLY <1>4, <1>5, <2>1, MpTakeCount
  <1>12. ASSUME NEW i \in DOMAIN c, i > 1 PROVE m.value[c[i]] = q[(d + 1) + i - 1]
    <2>1. i \in 1 .. n - 1 /\ c[i] = a[i + 1]
      BY ONLY <1>8, <1>12
    <2>2. i + 1 > 1 /\ i + 1 \in DOMAIN a /\ (d + 1) + i - 1 = d + (i + 1) - 1
      BY ONLY <1>4, <1>11, <1>12, <2>1
    <2> QED
      BY ONLY <1>1, <2>1, <2>2
  <1>13. \E i \in DOMAIN c : m.tail.p = c[i] /\ i >= Len(c) - 1
    <2>1. k # 1
      BY <1>3, <1>4
    <2>2. k - 1 \in DOMAIN c /\ (k - 1) + 1 = k /\ k - 1 >= Len(c) - 1
      BY ONLY <1>3, <1>4, <1>8, <1>11, <2>1
    <2>3. c[k - 1] = a[k]
      BY ONLY <1>8, <2>2
    <2> QED
      BY ONLY <1>3, <2>2, <2>3
  <1>14. \A i \in DOMAIN s : s[i] = q[i]
    <2>1. ASSUME NEW i \in DOMAIN s PROVE s[i] = q[i]
      <3>1. CASE i = d + 1
        BY ONLY <1>10, <3>1 DEF v
      <3>2. CASE i # d + 1
        BY ONLY <1>2, <1>5, <1>10, <1>11, <2>1, <3>2
      <3> QED
        BY ONLY <3>1, <3>2
    <2> QED
      BY ONLY <2>1
  <1>15. c # <<>> /\ m'.head.p = c[1]
    <2>1. Len(c) # 0 /\ Len(<<>>) = 0 /\ 1 \in DOMAIN c /\ 1 + 1 = 2
      BY ONLY <1>8, <1>11
    <2>2. c[1] = a[2]
      BY ONLY <1>8, <2>1
    <2> QED
      BY <1>4, <2>1, <2>2
  <1>16. Len(q) = Len(s) + Len(c) - 1
    BY ONLY <1>8, <1>10, <1>11
  <1>17. MpChain'
    <2>1. Distinct(m.abs)' /\ LinkedBy(m.abs, MpNext)'
      BY <1>6, <1>7, <1>8 DEF Distinct, LinkedBy
    <2>2. (\A i \in DOMAIN m.abs : i > 1 => m.value[m.abs[i]] = m.enq[Len(m.deq) + i - 1])'
      BY <1>6, <1>10, <1>12 DEF q
    <2>3. (Len(m.enq) = Len(m.deq) + Len(m.abs) - 1)' /\ (\A i \in DOMAIN m.deq : m.deq[i] = m.enq[i])'
      BY <1>6, <1>14, <1>16 DEF q
    <2>4. (\E i \in DOMAIN m.abs : m.tail.p = m.abs[i] /\ i >= Len(m.abs) - 1)'
      BY <1>6, <1>13
    <2> QED
      BY <1>6, <1>15, <2>1, <2>2, <2>3, <2>4 DEF MpChain
  <1>18. Members(m.abs)' = Members(c)
    BY <1>6 DEF Members
  <1> QED
    BY <1>1, <1>8, <1>17, <1>18 DEF a

LEMMA MpTakes ==
  ASSUME NEW t \in Threads, MpInv, pc[t] = "commit", m.head = r[t].head,
         m' = [m EXCEPT !.head = Mp!Ptr(r[t].next.p, r[t].head.g + 1), !.own[t] = @ \cup {r[t].head.p},
                        !.abs = Tail(@), !.deq = Append(m.deq, r[t].v),
                        !.sawEmpty = IF Append(m.deq, r[t].v) = m.enq THEN Threads ELSE @],
         Mp!Return(t)
  PROVE  MpInv'
PROOF
  <1> DEFINE H == m.head.p
             gone == Append(m.deq, r[t].v)
             P == Mp!Ptr(r[t].next.p, r[t].head.g + 1)
             saw == IF gone = m.enq THEN Threads ELSE m.sawEmpty
             A == Members(m.abs)
             B == Members(m.abs)'
  <1>1. /\ MpMemory /\ MpLocals /\ MpLocal(t) /\ MpChain /\ MpGenerations /\ MpPlaces /\ DOMAIN m = MpFields
        /\ MpDequeues(t)
    BY MpKnown
  <1>2. /\ r[t].next.p # NULL /\ m.next[H].p = r[t].next.p /\ r[t].v = m.enq[Len(m.deq) + 1] /\ m.tail.p # H
        /\ r[t].head.g = m.head.g /\ r[t].head.p = H
    BY <1>1 DEF MpDequeues
  <1>3. /\ H \in FifoEntries /\ H \in A /\ m.head.g \in Nat /\ m.tail.g \in Nat /\ r[t].next.p \in FifoEntries
        /\ \A x \in FifoEntries : m.next[x].g \in Nat
    BY <1>1, <1>2, MpEnds DEF MpLocal, Pointers
  <1>4. P \in Pointers /\ P.p = r[t].next.p /\ P.g = m.head.g + 1
    <2>1. m.head.g + 1 \in Nat
      BY <1>3
    <2> QED
      BY <1>2, <1>3, <2>1, PointerOf
  <1>5. /\ DOMAIN m' = MpFields /\ \A f \in MpFields \ {"head", "own", "abs", "deq", "sawEmpty"} : m'[f] = m[f]
        /\ m'.head = P /\ m'.own = [m.own EXCEPT ![t] = m.own[t] \cup {H}] /\ m'.abs = Tail(m.abs)
        /\ m'.deq = gone /\ m'.sawEmpty = saw
    BY <1>1, <1>2 DEF MpFields
  <1> HIDE DEF P, saw
  <1>6. m'.tail = m.tail /\ m'.next = m.next /\ m'.value = m.value /\ m'.enqs = m.enqs /\ m'.enq = m.enq
    BY <1>5 DEF MpFields
  <1>7. MpLocals' /\ MpMoves(t) /\ pc'[t] = "idle"
    BY <1>1, MpReturn
  <1>8. MpEnqueues(t)' /\ MpDequeues(t)' /\ ~(MpBrings(t)')
    BY <1>7, MpIdle
  <1>9. MpMemory'
    <2>1. /\ m.abs \in Seq(FifoEntries) /\ m.abs # <<>> /\ m.deq \in Seq(Int) /\ m.enq \in Seq(Int)
          /\ m.own \in [Threads -> SUBSET FifoEntries]
      BY <1>1 DEF MpMemory, MpChain
    <2>2. Tail(m.abs) \in Seq(FifoEntries)
      BY <2>1, Without
    <2>3. r[t].v \in Int
      <3>1. Len(m.deq) + 1 \in DOMAIN m.enq
        BY <1>1, <1>2, MpFirst
      <3> QED
        BY <1>2, <2>1, <3>1
    <2>4. gone \in Seq(Int)
      BY <2>1, <2>3, Behind DEF gone
    <2>5. m'.own \in [Threads -> SUBSET FifoEntries]
      <3>1. {H} \subseteq FifoEntries /\ m'.own = [m.own EXCEPT ![t] = m.own[t] \cup {H}]
        BY <1>3, <1>5
      <3> HIDE DEF H
      <3> QED
        BY ONLY <2>1, <3>1, t \in Threads
    <2> QED
      BY <1>1, <1>4, <1>5, <1>6, <2>2, <2>4, <2>5 DEF MpMemory
  <1>10. MpChain' /\ A = {H} \cup B /\ H \notin B
    <2>1. m'.deq = Append(m.deq, m.enq[Len(m.deq) + 1]) /\ m'.head.p = m.next[m.head.p].p
      BY <1>2, <1>4, <1>5
    <2> QED
      BY <1>1, <1>2, <1>5, <1>6, <1>9, <2>1, MpChainFirst
  <1>11. MpGenerations'
    BY <1>1, <1>6 DEF MpGenerations
  <1> HIDE DEF H, A, B
  <1>12. MpPlaces'
    <2>1. \A u \in Threads : MpBrings(u)' => u # t /\ MpBrings(u) /\ r'[u].e = r[u].e
      BY <1>7, <1>8 DEF MpMoves, MpBrings
    <2>2. m'.own[t] = m.own[t] \cup {H} /\ \A u \in Threads \ {t} : m'.own[u] = m.own[u]
      <3>1. m.own \in [Threads -> SUBSET FifoEntries]
        BY <1>1 DEF MpMemory
      <3> QED
        BY ONLY <1>5, <3>1, t \in Threads
    <2>3. \A u \in Threads : m.own[u] \cap A = {}
      BY <1>1 DEF MpPlaces, A
    <2>4. \A x, u \in Threads : x # u => m.own[x] \cap m.own[u] = {}
      BY <1>1 DEF MpPlaces
    <2>5. \A u \in Threads : H \notin m.own[u]
      BY ONLY <1>3, <2>3
    <2>6. \A x, u \in Threads : x # u => m'.own[x] \cap m'.own[u] = {}
      BY ONLY <2>2, <2>4, <2>5
    <2>7. \A u \in Threads : m'.own[u] \cap B = {}
      BY ONLY <1>10, <2>2, <2>3
    <2>8. ASSUME NEW u \in Threads, MpBrings(u)'
          PROVE  /\ r'[u].e # NULL /\ m'.next[r'[u].e].p = NULL /\ r'[u].e \notin B
                 /\ \A x \in Threads : r'[u].e \notin m'.own[x]
      <3>1. MpBrings(u) /\ r'[u].e = r[u].e
        BY <2>1, <2>8
      <3>2. /\ r[u].e # NULL /\ m.next[r[u].e].p = NULL /\ r[u].e \notin A
            /\ \A x \in Threads : r[u].e \notin m.own[x]
        BY <1>1, <3>1 DEF MpPlaces, A
      <3>3. r[u].e \notin B /\ r[u].e # H
        BY ONLY <1>3, <1>10, <3>2
      <3> QED
        BY ONLY <1>6, <2>2, <3>1, <3>2, <3>3
    <2>9. \A x, u \in Threads : MpBrings(x)' /\ MpBrings(u)' /\ r'[x].e = r'[u].e => x = u
      BY <1>1, <2>1 DEF MpPlaces
    <2> QED
      BY <2>6, <2>7, <2>8, <2>9 DEF MpPlaces, B
  <1>13. MpTailChange
    BY <1>3, <1>6 DEF MpTailChange
  <1>14. MpHeadChange
    <2>1. m'.head.g = m.head.g + 1 /\ m.head.g \in Nat
      BY <1>3, <1>4, <1>5
    <2>2. m.head.g <= m'.head.g /\ m'.head.g # m.head.g
      BY ONLY <2>1
    <2> QED
      BY <1>6, <2>2 DEF MpHeadChange
  <1>15. MpSaw(t)
    BY <1>5, <1>6 DEF MpSaw, saw
  <1> QED
    BY <1>7, <1>8, <1>9, <1>10, <1>11, <1>12, <1>13, <1>14, <1>15, MpKeeps

LEMMA MpCommit ==
  ASSUME NEW t \in Threads, MpInv, Mp!Commit(t)
  PROVE  MpInv'
PROOF
  <1>1. pc[t] = "commit"
    BY DEF Mp!Commit, Mp!At
  <1>2. CASE m.head = r[t].head
    <2>1. /\ m' = [m EXCEPT !.head = Mp!Ptr(r[t].next.p, r[t].head.g + 1), !.own[t] = @ \cup {r[t].head.p},
                        !.abs = Tail(@), !.deq = Append(m.deq, r[t].v),
                        !.sawEmpty = IF Append(m.deq, r[t].v) = m.enq THEN Threads ELSE @]
          /\ Mp!Return(t)
      BY <1>2 DEF Mp!Commit
    <2> QED
      BY <1>1, <1>2, <2>1, MpTakes
  <1>3. CASE m.head # r[t].head
    <2>1. m' = m /\ Mp!Again(t, "head_gen")
      BY <1>3 DEF Mp!Commit, Mp!Local
    <2> QED
      BY <1>1, <2>1, MpStartsAgain
  <1> QED
    BY <1>2, <1>3

LEMMA MpStep ==
  ASSUME MpInv, Mp!Next
  PROVE  MpInv'
PROOF
  <1>1. PICK t \in Threads : Mp!Enqueue(t) \/ Mp!Dequeue(t)
    BY DEF Mp!Next
  <1>2. CASE Mp!Enqueue(t)
    BY <1>2, MpEnqueueCall, MpPrepare, MpTailGeneration, MpTailPointer, MpNextGeneration, MpNextPointer,
       MpSameTail, MpLink, MpForward DEF Mp!Enqueue
  <1>3. CASE Mp!Dequeue(t)
    BY <1>3, MpDequeueCall, MpHeadGeneration, MpHeadPointer, MpDequeueTailGeneration, MpDequeueTailPointer,
       MpDequeueNext, MpOnlyStub, MpSameHead, MpReturnEmpty, MpReadValue, MpCommit DEF Mp!Dequeue
  <1> QED
    BY <1>1, <1>2, <1>3

LEMMA MpInit ==
  ASSUME Mp!Init
  PROVE  MpInv
PROOF
  <1> DEFINE N == Mp!Ptr(NULL, 0)
  <1>1. PICK first \in Threads :
       m = [head |-> Mp!Ptr(Stub, 0), tail |-> Mp!Ptr(Stub, 0),
            next |-> [e \in Entries \cup {Stub} |-> N],
            value |-> [e \in Entries \cup {Stub} |-> 0],
            own |-> [t \in Threads |-> IF t = first THEN Entries ELSE {}],
            enqs |-> 0, deqs |-> 0, abs |-> <<Stub>>, enq |-> <<>>, deq |-> <<>>, sawEmpty |-> {}]
    BY DEF Mp!Init
  <1>2. Stub \in FifoEntries /\ Stub \notin Entries /\ NULL \notin FifoEntries
    BY QueuesAssumption DEF FifoEntries
  <1>3. /\ Mp!Ptr(Stub, 0) \in Pointers /\ Mp!Ptr(Stub, 0).p = Stub /\ Mp!Ptr(Stub, 0).g = 0
        /\ N \in Pointers /\ N.p = NULL /\ N.g = 0
    BY <1>2 DEF Mp!Ptr, Pointers
  <1> HIDE DEF N
  <1>4. /\ DOMAIN m = MpFields /\ m.head \in Pointers /\ m.tail \in Pointers /\ m.head.p = Stub /\ m.tail.p = Stub
        /\ m.tail.g = 0 /\ m.next = [e \in FifoEntries |-> N] /\ m.value = [e \in FifoEntries |-> 0]
        /\ m.own = [t \in Threads |-> IF t = first THEN Entries ELSE {}]
        /\ m.enqs = 0 /\ m.abs = <<Stub>> /\ m.enq = <<>> /\ m.deq = <<>>
    BY <1>1, <1>3 DEF MpFields, FifoEntries
  <1>5. MpMemory
    <2>1. /\ <<Stub>> \in Seq(FifoEntries) /\ <<>> \in Seq(Int)
      BY <1>2
    <2>2. /\ m.next \in [FifoEntries -> Pointers] /\ m.value \in [FifoEntries -> Int]
          /\ m.own \in [Threads -> SUBSET FifoEntries]
      BY <1>3, <1>4 DEF FifoEntries
    <2> QED
      BY <1>4, <2>1, <2>2 DEF MpMemory
  <1>6. MpLocals
    <2>1. ASSUME NEW t \in Threads PROVE MpLocal(t)
      <3>1. pc[t] = "idle" /\ r[t] = Mp!Scratch
        BY DEF Mp!Init
      <3>2. Mp!Scratch = [try |-> FALSE, e |-> NULL, v |-> 0, head |-> N, tail |-> N, next |-> N]
        BY DEF Mp!Scratch, N
      <3> QED
        BY <1>3, <3>1, <3>2 DEF MpLocal, MpLabels, MpLocalFields
    <2>2. DOMAIN pc = Threads /\ DOMAIN r = Threads
      BY DEF Mp!Init
    <2> QED
      BY <2>1, <2>2 DEF MpLocals
  <1>7. /\ DOMAIN m.abs = {1} /\ Len(m.abs) = 1 /\ m.abs[1] = Stub /\ m.abs # <<>>
        /\ Len(m.enq) = 0 /\ Len(m.deq) = 0 /\ DOMAIN m.deq = {} /\ Members(m.abs) = {Stub}
    BY <1>4 DEF Members
  <1>8. MpChain
    <2>1. LinkedBy(m.abs, MpNext)
      BY <1>2, <1>3, <1>4, <1>7 DEF LinkedBy, MpNext
    <2>2. \E i \in DOMAIN m.abs : m.tail.p = m.abs[i] /\ i >= Len(m.abs) - 1
      BY <1>4, <1>7
    <2> QED
      BY <1>4, <1>7, <2>1, <2>2 DEF MpChain, Distinct
  <1>9. MpGenerations
    BY <1>3, <1>4 DEF MpGenerations
  <1>10. \A t \in Threads : pc[t] = "idle"
    BY DEF Mp!Init
  <1>11. MpPlaces
    <2>1. \A t \in Threads : m.own[t] = IF t = first THEN Entries ELSE {}
      BY <1>4
    <2> QED
      BY <1>2, <1>7, <1>10, <2>1 DEF MpPlaces, MpBrings
  <1>12. \A t \in Threads : MpEnqueues(t) /\ MpDequeues(t)
    BY <1>10 DEF MpEnqueues, MpDequeues
  <1> QED
    BY <1>5, <1>6, <1>8, <1>9, <1>11, <1>12 DEF MpInv

-----------------------------------------------------------------------------
(* The invariant of both, and what follows from it.                          *)

LEMMA SpStutters ==
  ASSUME SpInv, m' = m, pc' = pc, r' = r
  PROVE  SpInv'
PROOF
  <1>1. SpMemory' /\ SpLocals'
    BY DEF SpInv, SpType, SpMemory, SpLocals
  <1>2. SpChain'
    <2>1. (\E s, h \in DOMAIN m.abs : SpAt(s, h))'
      BY DEF SpInv, SpChain, SpAt
    <2> QED
      BY <2>1 DEF SpInv, SpChain, Distinct, LinkedBy, Members
  <1>3. \A t \in Threads : SpProduces(t)' /\ SpConsumes(t)'
    BY DEF SpInv, SpProduces, SpConsumes, Members
  <1> QED
    BY <1>1, <1>2, <1>3 DEF SpInv, SpType

LEMMA MpStutters ==
  ASSUME MpInv, m' = m, pc' = pc, r' = r
  PROVE  MpInv'
PROOF
  <1>1. MpMemory' /\ MpLocals'
    BY DEF MpInv, MpMemory, MpLocals, MpLocal
  <1>2. MpChain' /\ MpGenerations'
    <2>1. MpNext' = MpNext
      BY DEF MpNext
    <2>2. LinkedBy(m'.abs, MpNext') /\ Distinct(m'.abs)
      BY <2>1 DEF MpInv, MpChain
    <2>3. MpGenerations'
      BY DEF MpInv, MpGenerations
    <2>4. MpChain'
      <3>1. /\ m'.abs # <<>> /\ m'.head.p = m'.abs[1] /\ Len(m'.enq) = Len(m'.deq) + Len(m'.abs) - 1
            /\ \E i \in DOMAIN m'.abs : m'.tail.p = m'.abs[i] /\ i >= Len(m'.abs) - 1
        BY DEF MpInv, MpChain
      <3>2. /\ \A i \in DOMAIN m'.abs : i > 1 => m'.value[m'.abs[i]] = m'.enq[Len(m'.deq) + i - 1]
            /\ \A i \in DOMAIN m'.deq : m'.deq[i] = m'.enq[i]
        BY DEF MpInv, MpChain
      <3> QED
        BY <2>2, <3>1, <3>2 DEF MpChain, LinkedBy, Distinct
    <2> QED
      BY <2>3, <2>4
  <1>3. MpPlaces'
    BY DEF MpInv, MpPlaces, MpBrings, Members
  <1>4. \A t \in Threads : MpEnqueues(t)' /\ MpDequeues(t)'
    BY SMTT(30) DEF MpInv, MpEnqueues, MpDequeues
  <1> QED
    BY <1>1, <1>2, <1>3, <1>4 DEF MpInv

LEMMA FifoInvInit ==
  ASSUME Init
  PROVE  FifoInv
PROOF
  <1>1. kind = "fifo_spsc" => SpInv
    BY SpInit DEF Init
  <1>2. kind = "fifo_mpmc" => MpInv
    BY MpInit DEF Init
  <1> QED
    BY <1>1, <1>2 DEF FifoInv

LEMMA FifoInvStep ==
  ASSUME FifoInv, [Next]_vars
  PROVE  FifoInv'
PROOF
  <1>1. CASE Next
    <2>1. kind' = kind
      BY <1>1 DEF Next
    <2>2. ASSUME kind = "fifo_spsc" PROVE SpInv'
      BY <1>1, <2>2, SpStep DEF Next, FifoInv
    <2>3. ASSUME kind = "fifo_mpmc" PROVE MpInv'
      BY <1>1, <2>3, MpStep DEF Next, FifoInv
    <2> QED
      BY <2>1, <2>2, <2>3 DEF FifoInv
  <1>2. CASE UNCHANGED vars
    BY <1>2, SpStutters, MpStutters DEF FifoInv, vars, tvars
  <1> QED
    BY <1>1, <1>2

\* A sequence that agrees with the beginning of another is a prefix of it.
LEMMA PrefixOf ==
  ASSUME NEW s \in Seq(Int), NEW q \in Seq(Int), Len(s) <= Len(q), \A i \in DOMAIN s : s[i] = q[i]
  PROVE  s = SubSeq(q, 1, Len(s))
PROOF
  <1> DEFINE p == SubSeq(q, 1, Len(s))
  <1>1. Len(s) \in Nat /\ Len(q) \in Nat /\ DOMAIN s = 1 .. Len(s) /\ DOMAIN q = 1 .. Len(q)
    OBVIOUS
  <1>2. p \in Seq(Int) /\ Len(p) = Len(s) /\ \A i \in 1 .. Len(s) : p[i] = q[i]
    <2>1. 1 \in Int /\ Len(s) \in Int
      BY <1>1
    <2>2. \A i \in 1 .. Len(s) : q[i] \in Int
      BY <1>1
    <2> QED
      BY <1>1, <2>2
  <1> HIDE DEF p
  <1>3. \A i \in 1 .. Len(s) : s[i] = p[i]
    BY <1>1, <1>2
  <1> QED
    BY <1>2, <1>3, SeqEqual DEF p

LEMMA SpOrder ==
  ASSUME SpInv
  PROVE  Sp!FifoOrder
PROOF
  <1> DEFINE d == Len(m.deq)
             q == Len(m.enq)
             n == Len(m.abs)
  <1>1. m.abs \in Seq(FifoEntries) /\ m.enq \in Seq(Int) /\ m.deq \in Seq(Int)
    BY DEF SpInv, SpType, SpMemory
  <1>2. d \in Nat /\ q \in Nat /\ n \in Nat /\ DOMAIN m.deq = 1 .. d /\ DOMAIN m.enq = 1 .. q /\ DOMAIN m.abs = 1 .. n
    BY ONLY <1>1
  <1>3. PICK s, h \in DOMAIN m.abs : SpAt(s, h)
    BY DEF SpInv, SpChain
  <1>4. q = d + n - h
    BY <1>3 DEF SpAt
  <1>5. (\A i \in DOMAIN m.enq : m.enq[i] = i) /\ (\A i \in DOMAIN m.deq : m.deq[i] = i)
    BY DEF SpInv, SpChain
  <1> HIDE DEF d, q, n
  <1>6. h \in 1 .. n
    BY <1>2, <1>3
  <1>7. d <= q /\ \A i \in 1 .. d : i \in 1 .. q
    BY ONLY <1>2, <1>4, <1>6
  <1>8. \A i \in DOMAIN m.deq : m.deq[i] = m.enq[i]
    BY ONLY <1>2, <1>5, <1>7
  <1> QED
    BY <1>1, <1>7, <1>8, PrefixOf DEF Sp!FifoOrder, d, q

LEMMA MpOrder ==
  ASSUME MpInv
  PROVE  Mp!FifoOrder
PROOF
  <1>1. MpMemory /\ MpChain /\ m.enq \in Seq(Int) /\ m.deq \in Seq(Int)
    BY DEF MpInv, MpMemory
  <1>2. Len(m.abs) \in Nat \ {0}
    BY <1>1, MpFirst
  <1>3. Len(m.deq) \in Nat
    BY ONLY <1>1
  <1>4. Len(m.enq) = Len(m.deq) + Len(m.abs) - 1 /\ \A i \in DOMAIN m.deq : m.deq[i] = m.enq[i]
    BY <1>1 DEF MpChain
  <1>5. Len(m.deq) <= Len(m.enq)
    BY ONLY <1>2, <1>3, <1>4
  <1> QED
    BY <1>1, <1>4, <1>5, PrefixOf DEF Mp!FifoOrder

\* The invariant of ck_fifo: the entries of both queues are chained in the
\* order of the values, and what a call of ck_fifo_mpmc has read stays true
\* for as long as the generation that it has read with it.
THEOREM FifoInvAlways == Spec => []FifoInv
PROOF
  <1>1. Init => FifoInv
    BY FifoInvInit
  <1>2. FifoInv /\ [Next]_vars => FifoInv'
    BY FifoInvStep
  <1> QED
    BY <1>1, <1>2, PTL DEF Spec

\* A dequeue of ck_fifo_spsc or ck_fifo_mpmc reports an empty queue only if
\* the queue was empty at some time during the call.
THEOREM ReportsEmpty == Spec => []EmptyIsEmpty
PROOF
  <1>1. FifoInv => EmptyIsEmpty
    BY DEF FifoInv, SpInv, SpConsumes, MpInv, MpDequeues, EmptyIsEmpty, Sp!EmptyIsEmpty, Mp!EmptyIsEmpty,
           Sp!At, Mp!At
  <1> QED
    BY <1>1, FifoInvAlways, PTL

\* Values leave ck_fifo_spsc and ck_fifo_mpmc in the order in which they
\* entered, each once, although entries are recycled or re-used at once.
THEOREM FifoOrderAlways ==
  Spec => []((kind = "fifo_spsc" => Sp!FifoOrder) /\ (kind = "fifo_mpmc" => Mp!FifoOrder))
PROOF
  <1>1. FifoInv => (kind = "fifo_spsc" => Sp!FifoOrder) /\ (kind = "fifo_mpmc" => Mp!FifoOrder)
    BY SpOrder, MpOrder DEF FifoInv
  <1> QED
    BY <1>1, FifoInvAlways, PTL
=============================================================================
