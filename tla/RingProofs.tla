----------------------------- MODULE RingProofs -----------------------------
(***************************************************************************)
(* The ring for any numbers of threads, any size, any width of its         *)
(* counters and entries of any number of words.                            *)
(*                                                                         *)
(* The tickets given out so far are numbered by Off, the distance of a     *)
(* counter from the value it started with.  At any time they form four     *)
(* intervals: dequeued, published, reserved, and not given out.            *)
(***************************************************************************)
EXTENDS Ring, FiniteSetTheorems, TLAPS

Counter == 0 .. Mod - 1
\* The counter that has advanced by i.
Cnt(i) == IF Base + i < Mod THEN Base + i ELSE Base + i - Mod

ProducerLabels == {"idle", "mp_load", "mp_cas", "mp_full", "mp_wait", "mp_store", "sp_store"}
ConsumerLabels == {"idle", "mc_tail", "mc_cas", "sc_store"}

TypeOK ==
  /\ mp \in BOOLEAN /\ mc \in BOOLEAN /\ up \in BOOLEAN
  /\ c_head \in Counter /\ p_tail \in Counter /\ p_head \in Counter
  /\ buffer \in [0 .. Size - 1 -> [Words -> Nat]]
  /\ pc \in [Threads -> ProducerLabels \cup ConsumerLabels]
  /\ producer \in [Threads -> Counter] /\ consumer \in [Threads -> Counter]
  /\ entry \in [Producers -> Nat]
  /\ todo \in [Threads -> SUBSET Words]
  /\ data \in [Consumers -> [Words -> Nat]]
  /\ wasFull \in [Producers -> BOOLEAN]
  /\ issued \in 0 .. MaxOps /\ crashes \in 0 .. MaxCrashes
  /\ enq \in Seq(Nat) /\ deq \in Seq([Words -> Nat])
  /\ dead \subseteq Nat

\* Which threads are where.
Labels ==
  /\ \A t \in Producers : pc[t] \in ProducerLabels
  /\ \A t \in Consumers : pc[t] \in ConsumerLabels
  /\ mp => \A t \in Producers : pc[t] # "sp_store"
  /\ ~mp => up /\ \A t \in Producers : pc[t] \in {"idle", "sp_store"}
  /\ mc => \A t \in Consumers : pc[t] # "sc_store"
  /\ ~mc => /\ \A t \in Consumers : pc[t] \in {"idle", "sc_store"}
            /\ \A t, u \in Consumers : pc[t] = "sc_store" /\ pc[u] = "sc_store" => t = u
  /\ ~up => \A t \in Threads : pc[t] = "idle"
  /\ \A t \in Producers : t \notin Reserving => todo[t] = {}
  /\ \A t \in Consumers : pc[t] \notin {"mc_cas", "sc_store"} => todo[t] = {}

\* Producers that have numbered an entry and have no ticket for it.
Wanting == {t \in Producers : pc[t] \in {"mp_load", "mp_cas", "mp_full"}}

\* The intervals, and the bound on all of them.
Order ==
  /\ Off(c_head) <= Off(p_tail) /\ Off(p_tail) <= Len(enq)
  /\ Len(enq) - Off(c_head) <= mask
  /\ mp => Off(p_head) = Len(enq)
  /\ dead \subseteq 1 .. Len(enq)
  /\ Len(enq) + Cardinality(Wanting) <= issued

\* What a producer that has no ticket knows.
Snapshots ==
  \A t \in Producers :
    /\ pc[t] # "idle" => entry[t] \in 1 .. issued
    /\ pc[t] \in {"mp_load", "mp_cas", "mp_full"} => Off(producer[t]) <= Off(p_head)
    /\ pc[t] = "mp_cas" => /\ Off(consumer[t]) <= Off(c_head)
                           /\ Off(producer[t]) - Off(consumer[t]) < mask
    /\ pc[t] = "mp_full" /\ producer[t] = p_head => wasFull[t]

\* Every reserved ticket has one producer, or belongs to a process that died.
Tickets ==
  /\ \A t \in Reserving :
       /\ Off(producer[t]) \in Off(p_tail) .. Len(enq) - 1
       /\ enq[Off(producer[t]) + 1] = entry[t]
       /\ pc[t] \in {"mp_store", "sp_store"} => producer[t] = p_tail
       /\ \A w \in Words \ todo[t] : buffer[Slot(producer[t])][w] = entry[t]
  /\ \A t, u \in Reserving : producer[t] = producer[u] => t = u
  /\ up => \A i \in Off(p_tail) .. Len(enq) - 1 : \E t \in Reserving : Off(producer[t]) = i
  /\ ~up => \A i \in Off(p_tail) .. Len(enq) - 1 : i + 1 \in dead

\* What is in the published slots.
Contents ==
  \A i \in Off(c_head) .. Off(p_tail) - 1 :
    i + 1 \notin dead => \A w \in Words : buffer[Slot(Cnt(i))][w] = enq[i + 1]

\* What a consumer knows, and has copied.
Copies ==
  \A t \in Consumers :
    /\ pc[t] # "idle" => Off(consumer[t]) <= Off(c_head)
    /\ pc[t] = "sc_store" => consumer[t] = c_head
    /\ pc[t] \in {"mc_cas", "sc_store"} /\ consumer[t] = c_head =>
         /\ Off(c_head) < Off(p_tail)
         /\ \A w \in Words \ todo[t] : data[t][w] = buffer[Slot(c_head)][w]

Inv == TypeOK /\ Labels /\ Order /\ Snapshots /\ Tickets /\ Contents /\ Copies /\ Fifo

-----------------------------------------------------------------------------
(* Counters and their distance from Base. *)

\* A counter is determined by its distance from the start.
LEMMA OffType ==
  ASSUME NEW a \in Counter
  PROVE  Off(a) \in Counter /\ Cnt(Off(a)) = a
  BY RingSizes DEF Counter, Off, Sub, Cnt

\* Two counters at the same distance from the start are the same counter.
LEMMA OffInjective ==
  ASSUME NEW a \in Counter, NEW b \in Counter, Off(a) = Off(b)
  PROVE  a = b
  BY RingSizes DEF Counter, Off, Sub

\* The starting value of the counters is at distance 0.
LEMMA OffBase == Base \in Counter /\ Off(Base) = 0
  BY RingSizes DEF Counter, Off, Sub

\* The counter at distance i is a counter, and it is at distance i.
LEMMA CntType ==
  ASSUME NEW i \in Counter
  PROVE  Cnt(i) \in Counter /\ Off(Cnt(i)) = i
  BY RingSizes DEF Counter, Off, Sub, Cnt

\* An increment lengthens the distance by one while the circle is not exhausted.
LEMMA OffInc ==
  ASSUME NEW a \in Counter, Off(a) + 1 < Mod
  PROVE  Inc(a) \in Counter /\ Off(Inc(a)) = Off(a) + 1
  BY RingSizes DEF Counter, Off, Sub, Inc

\* The difference of two counters is that of their distances, or wraps.
LEMMA OffSub ==
  ASSUME NEW a \in Counter, NEW b \in Counter
  PROVE  /\ Off(a) >= Off(b) => Sub(a, b) = Off(a) - Off(b)
         /\ Off(a) < Off(b) => Sub(a, b) = Off(a) - Off(b) + Mod
  BY RingSizes DEF Counter, Off, Sub

\* Division by the size of the ring.
LEMMA DivMod ==
  ASSUME NEW a \in Nat
  PROVE  \E q \in Nat : a = Size * q + (a % Size) /\ a % Size \in 0 .. Size - 1
  <1>1. Size \in Nat \ {0}
    BY RingSizes
  <1>2. a \div Size \in Nat
    BY <1>1
  <1>3. a = Size * (a \div Size) + (a % Size) /\ a % Size \in 0 .. Size - 1
    BY <1>1
  <1> QED
    BY <1>2, <1>3

\* The remainder of a division by the size is unique.
LEMMA ModUnique ==
  ASSUME NEW q \in Nat, NEW p \in Nat, NEW r \in 0 .. Size - 1, NEW s \in 0 .. Size - 1,
         Size * q + r = Size * p + s
  PROVE  r = s
  <1>1. Size \in Nat /\ Size > 1
    BY RingSizes
  <1>2. CASE q = p
    BY <1>1, <1>2
  <1>3. CASE q > p
    <2>1. q - p >= 1 /\ q - p \in Nat
      BY <1>3
    <2>2. Size * (q - p) >= Size
      BY <1>1, <2>1
    <2>3. Size * (q - p) = Size * q - Size * p
      BY <1>1
    <2> QED
      BY <1>1, <2>2, <2>3
  <1>4. CASE p > q
    <2>1. p - q >= 1 /\ p - q \in Nat
      BY <1>4
    <2>2. Size * (p - q) >= Size
      BY <1>1, <2>1
    <2>3. Size * (p - q) = Size * p - Size * q
      BY <1>1
    <2> QED
      BY <1>1, <2>2, <2>3
  <1> QED
    BY <1>2, <1>3, <1>4

\* The slot (counter & mask) of any counter is inside the buffer.
LEMMA SlotType ==
  ASSUME NEW a \in Counter
  PROVE  Slot(a) \in 0 .. Size - 1
  BY RingSizes DEF Slot, Counter

\* The width of the counters is a multiple of the size.
LEMMA ModAdd ==
  ASSUME NEW a \in Nat
  PROVE  (a + Mod) % Size = a % Size
  <1>1. PICK k \in Nat : Mod = Size * k + (Mod % Size)
    BY DivMod, RingSizes
  <1>2. Mod = Size * k /\ Size \in Nat \ {0}
    BY <1>1, RingSizes
  <1>3. PICK q \in Nat : a = Size * q + (a % Size) /\ a % Size \in 0 .. Size - 1
    BY DivMod
  <1>4. a + Mod \in Nat
    BY RingSizes
  <1>5. PICK p \in Nat : a + Mod = Size * p + ((a + Mod) % Size) /\ (a + Mod) % Size \in 0 .. Size - 1
    BY <1>4, DivMod
  <1>6. Size * (q + k) = Size * q + Size * k
    BY <1>2
  <1>7. q + k \in Nat /\ a + Mod = Size * (q + k) + (a % Size)
    BY <1>2, <1>3, <1>6
  <1>8. Size * (q + k) + (a % Size) = Size * p + ((a + Mod) % Size)
    BY <1>5, <1>7
  <1> QED
    BY <1>3, <1>5, <1>7, <1>8, ModUnique

\* A counter and its distance select the same slot.
LEMMA SlotCnt ==
  ASSUME NEW i \in Counter
  PROVE  Slot(Cnt(i)) = (Base + i) % Size
  <1>1. CASE Base + i < Mod
    BY <1>1 DEF Slot, Cnt
  <1>2. CASE ~ (Base + i < Mod)
    <2>1. Cnt(i) = Base + i - Mod /\ Base + i - Mod \in Nat
      BY <1>2, RingSizes DEF Cnt, Counter
    <2>2. (Base + i - Mod) + Mod = Base + i
      BY RingSizes DEF Counter
    <2> QED
      BY <2>1, <2>2, ModAdd DEF Slot
  <1> QED
    BY <1>1, <1>2

\* Fewer than Size tickets never meet in a slot.
LEMMA SlotsDiffer ==
  ASSUME NEW i \in Counter, NEW j \in Counter, i < j, j - i < Size
  PROVE  Slot(Cnt(i)) # Slot(Cnt(j))
  <1> SUFFICES ASSUME (Base + i) % Size = (Base + j) % Size PROVE FALSE
    BY SlotCnt
  <1>1. Base + i \in Nat /\ Base + j \in Nat /\ Size \in Nat \ {0}
    BY RingSizes DEF Counter
  <1>2. PICK q \in Nat : Base + i = Size * q + ((Base + i) % Size) /\ (Base + i) % Size \in 0 .. Size - 1
    BY <1>1, DivMod
  <1>3. PICK p \in Nat : Base + j = Size * p + ((Base + j) % Size)
    BY <1>1, DivMod
  <1>4. Size * (p - q) = Size * p - Size * q
    BY <1>1
  <1>5. Size * (p - q) = j - i
    BY <1>1, <1>2, <1>3, <1>4, RingSizes DEF Counter
  <1>6. CASE p > q
    <2>1. p - q \in Nat /\ p - q >= 1
      BY <1>6
    <2>2. Size * (p - q) >= Size
      BY <1>1, <2>1
    <2> QED
      BY <1>1, <1>5, <2>2 DEF Counter
  <1>7. CASE p <= q
    <2>1. q - p \in Nat
      BY <1>7
    <2>2. Size * (q - p) >= 0
      BY <1>1, <2>1
    <2>3. Size * (q - p) = Size * q - Size * p
      BY <1>1
    <2> QED
      BY <1>1, <1>4, <1>5, <2>2, <2>3 DEF Counter
  <1> QED
    BY <1>6, <1>7

\* The ticket after Size - 1 others meets the first of them.
LEMMA SlotsMeet ==
  ASSUME NEW i \in Counter, i + Size \in Counter
  PROVE  Slot(Cnt(i)) = Slot(Cnt(i + Size))
  <1>1. Base + i \in Nat /\ Size \in Nat \ {0} /\ Base + (i + Size) \in Nat
    BY RingSizes DEF Counter
  <1>2. PICK q \in Nat : Base + i = Size * q + ((Base + i) % Size) /\ (Base + i) % Size \in 0 .. Size - 1
    BY <1>1, DivMod
  <1>3. PICK p \in Nat : /\ Base + (i + Size) = Size * p + ((Base + (i + Size)) % Size)
                         /\ (Base + (i + Size)) % Size \in 0 .. Size - 1
    BY <1>1, DivMod
  <1>4. Size * (q + 1) = Size * q + Size
    BY <1>1
  <1>5. Size * (q + 1) + ((Base + i) % Size) = Size * p + ((Base + (i + Size)) % Size)
    BY <1>1, <1>2, <1>3, <1>4, RingSizes DEF Counter
  <1>6. q + 1 \in Nat
    OBVIOUS
  <1> QED
    BY <1>2, <1>3, <1>5, <1>6, ModUnique, SlotCnt

-----------------------------------------------------------------------------
(* What the invariant says about the sizes of things. *)

\* The producers that have issued a value and no ticket yet are finite in number.
LEMMA WantingFinite ==
  IsFiniteSet(Wanting) /\ Cardinality(Wanting) \in Nat
  <1>1. Wanting \subseteq Producers
    BY DEF Wanting
  <1> QED
    BY <1>1, FS_Subset, FS_CardinalityType, RingThreads

\* What the invariant says of the three counters, as natural numbers.
LEMMA Bounds ==
  ASSUME Inv
  PROVE  /\ Off(c_head) \in Nat /\ Off(p_tail) \in Nat /\ Off(p_head) \in Nat
         /\ Len(enq) \in Nat /\ Len(enq) <= MaxOps /\ Len(enq) + Size <= Mod
         /\ Size \in Nat /\ Size > 1 /\ Mod \in Nat /\ mask = Size - 1
  <1>1. Off(c_head) \in Counter /\ Off(p_tail) \in Counter /\ Off(p_head) \in Counter
    BY OffType DEF Inv, TypeOK
  <1>2. Len(enq) \in Nat /\ issued \in 0 .. MaxOps
    BY DEF Inv, TypeOK
  <1>3. Len(enq) + Cardinality(Wanting) <= issued
    BY DEF Inv, Order
  <1> QED
    BY <1>1, <1>2, <1>3, WantingFinite, RingSizes DEF Counter, mask

-----------------------------------------------------------------------------
(* Steps that only a thread itself can see. *)

\* A producer that has no ticket before or after its step disturbs nothing
\* that is said about tickets, slots and copies.
LEMMA ProducerLocal ==
  ASSUME Inv, NEW t \in Producers, t \notin Reserving, pc'[t] \notin {"mp_wait", "mp_store", "sp_store"},
         pc' \in [Threads -> ProducerLabels \cup ConsumerLabels],
         \A u \in Threads \ {t} : /\ pc'[u] = pc[u] /\ producer'[u] = producer[u]
                                  /\ consumer'[u] = consumer[u],
         \A u \in Producers \ {t} : entry'[u] = entry[u],
         UNCHANGED <<mp, mc, shared, buffer, todo, data, enq, deq, dead, up>>
  PROVE  Tickets' /\ Contents' /\ Copies' /\ Fifo'
  <1>1. Reserving' = Reserving
    BY DEF Reserving, Threads
  <1>2. Tickets'
    BY <1>1 DEF Inv, Tickets, Reserving, Threads, shared
  <1>3. Contents'
    BY DEF Inv, Contents, shared
  <1>4. Copies'
    BY RingThreads DEF Inv, Copies, Threads, shared
  <1>5. Fifo'
    BY DEF Inv, Fifo, shared
  <1> QED
    BY <1>2, <1>3, <1>4, <1>5

\* A consumer that does not take an entry disturbs only what is said about it.
LEMMA ConsumerLocal ==
  ASSUME Inv, NEW t \in Consumers,
         \A u \in Threads \ {t} : /\ pc'[u] = pc[u] /\ producer'[u] = producer[u]
                                  /\ consumer'[u] = consumer[u] /\ todo'[u] = todo[u],
         UNCHANGED <<mp, mc, shared, buffer, entry, wasFull, issued, enq, deq, dead, up>>
  PROVE  Order' /\ Snapshots' /\ Tickets' /\ Contents' /\ Fifo'
  <1>0. \A u \in Producers : /\ pc'[u] = pc[u] /\ producer'[u] = producer[u]
                             /\ consumer'[u] = consumer[u] /\ todo'[u] = todo[u]
    BY RingThreads DEF Threads
  <1>1. Reserving' = Reserving /\ Wanting' = Wanting
    BY <1>0 DEF Reserving, Wanting
  <1>2. Order'
    BY <1>1 DEF Inv, Order, shared
  <1>3. Snapshots'
    BY <1>0 DEF Inv, Snapshots, shared
  <1>4. Tickets'
    BY <1>0, <1>1 DEF Inv, Tickets, Reserving, shared
  <1>5. Contents'
    BY DEF Inv, Contents, shared
  <1>6. Fifo'
    BY DEF Inv, Fifo, shared
  <1> QED
    BY <1>2, <1>3, <1>4, <1>5, <1>6

-----------------------------------------------------------------------------
\* ck_ring_init, or a ring found in shared memory, establishes the invariant.
LEMMA InitInv == Init => Inv
  <1> SUFFICES ASSUME Init PROVE Inv
    OBVIOUS
  <1>0. Off(Base) = 0 /\ Base \in Counter /\ Size \in Nat /\ Size > 1 /\ mask = Size - 1
    BY OffBase, RingSizes DEF mask
  <1>1. TypeOK
    <2>1. mp \in BOOLEAN /\ mc \in BOOLEAN
      BY RingThreads DEF Init
    <2> QED
      BY <1>0, <2>1, RingSizes DEF Init, TypeOK, Uninit, ProducerLabels
  <1>2. Reserving = {} /\ Wanting = {}
    BY DEF Init, Reserving, Wanting, Threads
  <1>3. Labels
    BY <1>2 DEF Init, Labels, ProducerLabels, ConsumerLabels, Threads
  <1>4. Len(enq) = 0
    BY DEF Init
  <1>5. Cardinality(Wanting) = 0
    BY <1>2, FS_EmptySet
  <1>6. Order
    BY <1>0, <1>4, <1>5 DEF Init, Order
  <1>7. Snapshots
    BY DEF Init, Snapshots, Threads
  <1>8. Tickets
    BY <1>0, <1>2, <1>4 DEF Init, Tickets
  <1>9. Contents /\ Copies
    BY <1>0 DEF Init, Contents, Copies, Threads
  <1>10. Fifo
    BY <1>0 DEF Init, Fifo
  <1> QED
    BY <1>1, <1>3, <1>6, <1>7, <1>8, <1>9, <1>10 DEF Inv

-----------------------------------------------------------------------------
(* Producers without a ticket. *)

\* A multi-producer enqueue loads p_head.
LEMMA EnqueueMpInv ==
  ASSUME Inv, NEW t \in Producers, EnqueueMp(t)
  PROVE  Inv'
  <1> USE DEF Inv, EnqueueMp, Goto, Call
  <1>1. TypeOK'
    BY RingSizes DEF TypeOK, shared, Threads, ProducerLabels
  <1>2. pc[t] = "idle" /\ t \notin Wanting /\ Wanting' = Wanting \cup {t}
    BY DEF TypeOK, Wanting, Threads
  <1>3. Labels'
    BY <1>2, RingThreads DEF TypeOK, Labels, Reserving, Threads, ProducerLabels
  <1>4. Order'
    <2>1. Cardinality(Wanting') = Cardinality(Wanting) + 1
      BY <1>2, WantingFinite, FS_AddElement
    <2> QED
      BY <2>1, WantingFinite, Bounds DEF TypeOK, Order, shared
  <1>5. Snapshots'
    <2> SUFFICES ASSUME NEW u \in Producers
                 PROVE  Snapshots!(u)'
      BY DEF Snapshots
    <2>1. CASE u = t
      BY <2>1, Bounds DEF TypeOK, Snapshots, shared, Threads
    <2>2. CASE u # t
      BY <2>2 DEF TypeOK, Snapshots, shared, Threads
    <2> QED
      BY <2>1, <2>2
  <1>6. Tickets' /\ Contents' /\ Copies' /\ Fifo'
    BY <1>1, <1>2, ProducerLocal DEF TypeOK, Threads, Reserving, shared
  <1> QED
    BY <1>1, <1>3, <1>4, <1>5, <1>6

\* Loading c_head for the fullness test of _ck_ring_enqueue_reserve_mp.
LEMMA ReserveMpLoadInv ==
  ASSUME Inv, NEW t \in Producers, ReserveMpLoad(t)
  PROVE  Inv'
  <1> USE DEF Inv, ReserveMpLoad, Goto
  <1>1. TypeOK'
    BY DEF TypeOK, shared, Threads, ProducerLabels
  <1>2. pc[t] = "mp_load" /\ pc'[t] \in {"mp_cas", "mp_full"} /\ Wanting' = Wanting
    BY DEF TypeOK, Wanting, Threads
  <1>3. Labels'
    BY <1>2, RingThreads DEF TypeOK, Labels, Reserving, Threads, ProducerLabels
  <1>4. Order'
    BY <1>2 DEF TypeOK, Order, shared
  <1>5. Snapshots'
    <2> SUFFICES ASSUME NEW u \in Producers
                 PROVE  Snapshots!(u)'
      BY DEF Snapshots
    <2>1. CASE u = t
      <3>1. producer[t] \in Counter /\ consumer'[t] = c_head
        BY DEF TypeOK, Threads
      <3>2. Off(producer[t]) \in Nat
        BY <3>1, OffType DEF Counter
      <3>3. /\ Off(producer[t]) >= Off(c_head) => Sub(producer[t], c_head) = Off(producer[t]) - Off(c_head)
            /\ Off(producer[t]) < Off(c_head) => Sub(producer[t], c_head) = Off(producer[t]) - Off(c_head) + Mod
        BY <3>1, OffSub DEF TypeOK
      <3>4. Off(c_head) <= MaxOps /\ MaxOps \in Nat /\ MaxOps + Size <= Mod
        BY Bounds, RingSizes DEF Order
      <3>5. pc'[t] = "mp_cas" => Off(producer[t]) - Off(c_head) < mask
        <4>1. pc'[t] = "mp_cas" => Sub(producer[t], c_head) < mask
          BY DEF TypeOK, Threads
        <4> QED
          BY <3>2, <3>3, <3>4, <4>1, Bounds
      <3>6. pc'[t] = "mp_full" /\ producer[t] = p_head => wasFull'[t]
        <4>1. pc'[t] = "mp_full" => ~ (Sub(producer[t], c_head) < mask)
          BY DEF TypeOK, Threads
        <4>2. Sub(producer[t], c_head) \in Int /\ mask \in Int
          BY <3>2, <3>3, Bounds
        <4>3. pc'[t] = "mp_full" => Sub(producer[t], c_head) >= mask
          BY <4>1, <4>2
        <4>4. wasFull'[t] = (Sub(p_head, c_head) >= mask)
          BY DEF TypeOK
        <4> QED
          BY <4>3, <4>4
      <3> QED
        BY <1>2, <2>1, <3>1, <3>5, <3>6, Bounds DEF TypeOK, Snapshots, shared, Threads
    <2>2. CASE u # t
      BY <2>2 DEF TypeOK, Snapshots, shared, Threads
    <2> QED
      BY <2>1, <2>2
  <1>6. Tickets' /\ Contents' /\ Copies' /\ Fifo'
    BY <1>1, <1>2, ProducerLocal DEF TypeOK, Threads, Reserving, shared
  <1> QED
    BY <1>1, <1>3, <1>4, <1>5, <1>6

\* A lost compare-and-swap, and the second look at p_head of a full ring.
LEMMA ReserveMpAgainInv ==
  ASSUME Inv, NEW t \in Producers, ReserveMpCasFail(t) \/ ReserveMpRetry(t)
  PROVE  Inv'
  <1> USE DEF Inv
  <1>0. /\ pc[t] \in {"mp_cas", "mp_full"} /\ up
        /\ pc' = [pc EXCEPT ![t] = "mp_load"]
        /\ producer' = [producer EXCEPT ![t] = p_head]
        /\ UNCHANGED <<mp, mc, shared, buffer, consumer, entry, data, wasFull, todo, issued, enq, deq,
                       dead, up, crashes>>
    BY DEF ReserveMpCasFail, ReserveMpRetry, Goto
  <1>1. TypeOK'
    BY <1>0 DEF TypeOK, shared, Threads, ProducerLabels
  <1>2. pc'[t] = "mp_load" /\ Wanting' = Wanting
    BY <1>0 DEF TypeOK, Wanting, Threads
  <1>3. Labels'
    BY <1>0, RingThreads DEF TypeOK, Labels, Reserving, Threads, ProducerLabels
  <1>4. Order'
    BY <1>0, <1>2 DEF TypeOK, Order, shared
  <1>5. Snapshots'
    BY <1>0, Bounds DEF TypeOK, Snapshots, shared, Threads
  <1>6. Tickets' /\ Contents' /\ Copies' /\ Fifo'
    BY <1>0, <1>1, ProducerLocal DEF TypeOK, Threads, Reserving, shared
  <1> QED
    BY <1>1, <1>3, <1>4, <1>5, <1>6

\* A multi-producer enqueue that returns false on a full ring.
LEMMA ReserveMpFullInv ==
  ASSUME Inv, NEW t \in Producers, ReserveMpFull(t)
  PROVE  Inv'
  <1> USE DEF Inv, ReserveMpFull, ReturnP, Return, Goto
  <1>1. TypeOK'
    BY OffBase DEF TypeOK, shared, Threads, ProducerLabels, Uninit
  <1>2. pc[t] = "mp_full" /\ pc'[t] = "idle" /\ t \in Wanting /\ Wanting' = Wanting \ {t}
    BY DEF TypeOK, Wanting, Threads
  <1>3. Labels'
    BY <1>2, RingThreads DEF TypeOK, Labels, Reserving, Threads, ProducerLabels
  <1>4. Order'
    <2>1. Cardinality(Wanting') = Cardinality(Wanting) - 1
      BY <1>2, WantingFinite, FS_RemoveElement
    <2> QED
      BY <2>1, WantingFinite, Bounds DEF TypeOK, Order, shared
  <1>5. Snapshots'
    BY <1>2, Bounds DEF TypeOK, Snapshots, shared, Threads
  <1>6. Tickets' /\ Contents' /\ Copies' /\ Fifo'
    BY <1>1, <1>2, ProducerLocal DEF TypeOK, Threads, Reserving, shared
  <1> QED
    BY <1>1, <1>3, <1>4, <1>5, <1>6

\* A single-producer enqueue that returns false on a full ring.
LEMMA EnqueueSpFullInv ==
  ASSUME Inv, NEW t \in Producers, EnqueueSpFull(t)
  PROVE  Inv'
  <1> USE DEF Inv, EnqueueSpFull
  <1>1. TypeOK'
    BY RingSizes DEF TypeOK, shared, locals
  <1>2. Wanting' = Wanting /\ Reserving' = Reserving
    BY DEF Wanting, Reserving
  <1>3. Labels'
    BY <1>2 DEF Labels
  <1>4. Order'
    BY <1>2, WantingFinite, Bounds DEF TypeOK, Order, shared
  <1>5. Snapshots'
    BY DEF TypeOK, Snapshots, shared, locals
  <1>6. Tickets' /\ Contents' /\ Copies' /\ Fifo'
    BY <1>1, ProducerLocal DEF TypeOK, Threads, Reserving, shared, locals
  <1> QED
    BY <1>1, <1>3, <1>4, <1>5, <1>6

-----------------------------------------------------------------------------
(* A producer takes the next ticket. *)

\* What taking a ticket preserves, by whichever interface.
LEMMA TakeTicket ==
  ASSUME Inv, up, NEW t \in Producers, t \notin Reserving, t \in Reserving',
         TypeOK', Off(producer'[t]) = Len(enq), enq' = Append(enq, entry'[t]),
         pc'[t] # "mp_wait" => producer'[t] = p_tail, todo'[t] = Words,
         \A u \in Threads \ {t} : /\ pc'[u] = pc[u] /\ producer'[u] = producer[u]
                                  /\ consumer'[u] = consumer[u] /\ todo'[u] = todo[u],
         \A u \in Producers \ {t} : entry'[u] = entry[u],
         UNCHANGED <<mp, mc, c_head, p_tail, buffer, data, deq, dead, up>>
  PROVE  Tickets' /\ Contents' /\ Copies' /\ Fifo'
  <1>0. /\ Len(enq) \in Nat /\ Len(enq') = Len(enq) + 1 /\ enq'[Len(enq) + 1] = entry'[t]
        /\ \A i \in 1 .. Len(enq) : enq'[i] = enq[i]
        /\ Off(p_tail) \in Nat /\ Off(c_head) \in Nat
        /\ Off(c_head) <= Off(p_tail) /\ Off(p_tail) <= Len(enq)
    BY Bounds DEF Inv, TypeOK, Order
  <1>1. Reserving' = Reserving \cup {t}
    BY DEF Reserving, Threads
  <1>2. \A u \in Reserving : u # t /\ u \in Producers /\ u \in Threads
    BY DEF Reserving, Threads
  <1>3. \A u \in Reserving : /\ Off(producer[u]) \in Nat /\ Off(producer[u]) < Len(enq)
                             /\ Off(producer[u]) >= Off(p_tail)
    BY <1>0 DEF Inv, Tickets
  <1>4. Tickets'
    <2>1. ASSUME NEW u \in Reserving'
          PROVE  /\ Off(producer'[u]) \in Off(p_tail') .. Len(enq') - 1
                 /\ enq'[Off(producer'[u]) + 1] = entry'[u]
                 /\ pc'[u] \in {"mp_store", "sp_store"} => producer'[u] = p_tail'
                 /\ \A w \in Words \ todo'[u] : buffer'[Slot(producer'[u])][w] = entry'[u]
      <3>1. CASE u = t
        BY <1>0, <3>1
      <3>2. CASE u \in Reserving
        <4>1. /\ producer'[u] = producer[u] /\ pc'[u] = pc[u] /\ entry'[u] = entry[u]
              /\ todo'[u] = todo[u]
          BY <1>2, <3>2
        <4>2. Off(producer[u]) + 1 \in 1 .. Len(enq)
          BY <1>0, <1>3, <3>2
        <4>3. enq'[Off(producer[u]) + 1] = enq[Off(producer[u]) + 1]
          BY <1>0, <4>2
        <4>4. Off(producer[u]) \in Off(p_tail) .. Len(enq') - 1
          BY <1>0, <1>3, <3>2
        <4> QED
          BY <3>2, <4>1, <4>3, <4>4 DEF Inv, Tickets
      <3> QED
        BY <1>1, <3>1, <3>2
    <2>2. ASSUME NEW u \in Reserving', NEW v \in Reserving', producer'[u] = producer'[v]
          PROVE  u = v
      <3>1. \A x \in Reserving : Off(producer'[x]) # Off(producer'[t])
        BY <1>0, <1>2, <1>3
      <3> QED
        BY <1>1, <1>2, <2>2, <3>1 DEF Inv, Tickets
    <2>3. ASSUME NEW i \in Off(p_tail') .. Len(enq') - 1
          PROVE  \E u \in Reserving' : Off(producer'[u]) = i
      <3>1. CASE i = Len(enq)
        BY <1>1, <3>1
      <3>2. CASE i # Len(enq)
        <4>1. i \in Off(p_tail) .. Len(enq) - 1
          BY <1>0, <3>2
        <4>2. PICK u \in Reserving : Off(producer[u]) = i
          BY <4>1 DEF Inv, Tickets
        <4> QED
          BY <1>1, <1>2, <4>2
      <3> QED
        BY <3>1, <3>2
    <2> QED
      BY <2>1, <2>2, <2>3 DEF Tickets
  <1>5. Contents'
    <2> SUFFICES ASSUME NEW i \in Off(c_head) .. Off(p_tail) - 1, i + 1 \notin dead, NEW w \in Words
                 PROVE  buffer[Slot(Cnt(i))][w] = enq'[i + 1]
      BY DEF Contents
    <2>1. i + 1 \in 1 .. Len(enq)
      BY <1>0
    <2> QED
      BY <1>0, <2>1 DEF Inv, Contents
  <1>6. Copies'
    BY RingThreads DEF Inv, Copies, Threads
  <1>7. Fifo'
    <2>1. Len(deq) = Off(c_head) /\ DOMAIN deq = 1 .. Len(deq)
      BY DEF Inv, Fifo, TypeOK
    <2>2. \A i \in DOMAIN deq : enq'[i] = enq[i]
      BY <1>0, <2>1
    <2>3. \A i \in DOMAIN deq : [w \in Words |-> enq'[i]] = [w \in Words |-> enq[i]]
      BY <2>2
    <2> QED
      BY <2>1, <2>3, ZenonT(40) DEF Inv, Fifo
  <1> QED
    BY <1>4, <1>5, <1>6, <1>7

\* The compare-and-swap of p_head takes the next ticket.
LEMMA ReserveMpCasInv ==
  ASSUME Inv, NEW t \in Producers, ReserveMpCas(t)
  PROVE  Inv'
  <1> USE DEF Inv, ReserveMpCas, Goto
  <1>0. /\ pc[t] = "mp_cas" /\ pc'[t] = "mp_wait" /\ t \notin Reserving /\ t \in Reserving'
        /\ t \in Wanting /\ Wanting' = Wanting \ {t} /\ mp /\ up
    BY DEF TypeOK, Wanting, Threads, Reserving, Labels
  <1>1. Off(producer[t]) = Len(enq) /\ p_head = producer[t]
    BY <1>0 DEF Order
  <1>2. Off(p_head) + 1 < Mod
    BY <1>1, Bounds
  <1>3. p_head' \in Counter /\ Off(p_head') = Len(enq) + 1
    BY <1>1, <1>2, OffInc DEF TypeOK
  <1>4. TypeOK'
    BY <1>3 DEF TypeOK, Threads, ProducerLabels, locals
  <1>5. Labels'
    BY <1>0, RingThreads DEF TypeOK, Labels, Reserving, Threads, ProducerLabels
  <1>6. Order'
    <2>1. Cardinality(Wanting') = Cardinality(Wanting) - 1
      BY <1>0, WantingFinite, FS_RemoveElement
    <2>2. Len(enq') = Len(enq) + 1
      BY DEF TypeOK
    <2>3. Len(enq) + 1 - Off(c_head) <= mask
      <3>1. Off(consumer[t]) <= Off(c_head) /\ Off(producer[t]) - Off(consumer[t]) < mask
        BY <1>0 DEF Snapshots
      <3>2. consumer[t] \in Counter
        BY DEF TypeOK, Threads
      <3>3. Off(consumer[t]) \in Nat
        BY <3>2, OffType DEF Counter
      <3> QED
        BY <1>1, <3>1, <3>3, Bounds
    <2>4. dead' \subseteq 1 .. Len(enq')
      BY <2>2, Bounds DEF Order
    <2>5. Len(enq') + Cardinality(Wanting') <= issued'
      BY <2>1, <2>2, WantingFinite, Bounds DEF Order
    <2> QED
      BY <1>3, <2>2, <2>3, <2>4, <2>5, Bounds DEF Order
  <1>7. Snapshots'
    <2> SUFFICES ASSUME NEW u \in Producers
                 PROVE  Snapshots!(u)'
      BY DEF Snapshots
    <2>1. producer[u] \in Counter
      BY DEF TypeOK, Threads
    <2>2. Off(producer[u]) \in Nat
      BY <2>1, OffType DEF Counter
    <2>3. Wanting!(u) => producer[u] # p_head'
      BY <1>1, <1>3, <2>2, Bounds DEF Snapshots
    <2>4. Off(p_head) = Len(enq) /\ Off(p_head) < Off(p_head')
      BY <1>1, <1>3, Bounds
    <2> QED
      BY <1>0, <1>3, <2>2, <2>3, <2>4, Bounds DEF TypeOK, Snapshots, locals, Threads
  <1>8. Tickets' /\ Contents' /\ Copies' /\ Fifo'
    BY <1>0, <1>1, <1>4, TakeTicket DEF TypeOK, Threads, locals
  <1> QED
    BY <1>4, <1>5, <1>6, <1>7, <1>8

\* A single producer that finds room takes the slot at p_tail.
LEMMA EnqueueSpInv ==
  ASSUME Inv, NEW t \in Producers, EnqueueSp(t)
  PROVE  Inv'
  <1> USE DEF Inv, EnqueueSp, Goto, Call
  <1>0. /\ pc[t] = "idle" /\ pc'[t] = "sp_store" /\ t \notin Reserving /\ t \in Reserving'
        /\ Reserving = {} /\ Wanting' = Wanting /\ ~mp /\ up
    BY DEF TypeOK, Wanting, Threads, Reserving, Labels, Alone
  <1>1. TypeOK'
    BY RingSizes DEF TypeOK, shared, Threads, ProducerLabels
  <1>2. Len(enq) = Off(p_tail)
    <2>1. ~ (Off(p_tail) \in Off(p_tail) .. Len(enq) - 1)
      BY <1>0 DEF Tickets
    <2> QED
      BY <2>1, Bounds DEF Order
  <1>3. Labels'
    BY <1>0, RingThreads DEF TypeOK, Labels, Reserving, Threads, ProducerLabels
  <1>4. Len(enq) - Off(c_head) # mask
    <2> SUFFICES ASSUME Len(enq) - Off(c_head) = mask PROVE FALSE
      OBVIOUS
    <2>1. Len(enq) < MaxOps /\ MaxOps < Mod
      BY Bounds, WantingFinite, RingSizes DEF Order, TypeOK
    <2>2. Off(p_tail) + 1 < Mod
      BY <1>2, <2>1, Bounds, RingSizes
    <2>3. Inc(p_tail) \in Counter /\ Off(Inc(p_tail)) = Off(p_tail) + 1
      BY <2>2, OffInc DEF TypeOK
    <2>4. Off(p_tail) + 1 = Off(c_head) + Size
      BY <1>2, Bounds
    <2>5. Off(c_head) \in Counter /\ Off(c_head) + Size \in Counter
      <3>1. Off(c_head) \in Counter
        BY OffType DEF TypeOK
      <3> QED
        BY <2>2, <2>4, <3>1, Bounds DEF Counter
    <2>6. Slot(Cnt(Off(c_head))) = Slot(Cnt(Off(c_head) + Size))
      BY <2>5, SlotsMeet
    <2>7. Cnt(Off(c_head)) = c_head /\ Cnt(Off(Inc(p_tail))) = Inc(p_tail)
      BY <2>3, OffType DEF TypeOK
    <2> QED
      BY <2>3, <2>4, <2>6, <2>7
  <1>5. Order'
    <2>1. Len(enq') = Len(enq) + 1
      BY DEF TypeOK
    <2>2. dead' \subseteq 1 .. Len(enq')
      BY <2>1, Bounds DEF Order
    <2>3. Len(enq') + Cardinality(Wanting') <= issued'
      BY <1>0, <2>1, WantingFinite, Bounds DEF Order, TypeOK
    <2>4. Len(enq') - Off(c_head) <= mask
      BY <1>4, <2>1, Bounds DEF Order
    <2> QED
      BY <1>0, <2>1, <2>2, <2>3, <2>4, Bounds DEF Order, shared
  <1>6. Snapshots'
    BY <1>0 DEF TypeOK, Snapshots, Labels, shared, Threads, Alone
  <1>7. Tickets' /\ Contents' /\ Copies' /\ Fifo'
    <2>1. producer'[t] = p_tail /\ entry'[t] = issued + 1
      BY DEF TypeOK, Threads
    <2> QED
      BY <1>0, <1>1, <1>2, <2>1, TakeTicket DEF TypeOK, Threads, shared
  <1> QED
    BY <1>1, <1>3, <1>5, <1>6, <1>7

-----------------------------------------------------------------------------
(* The copy of an entry into its slot, and its publication. *)

\* Tickets that are not yet dequeued have slots of their own.
LEMMA OwnSlots ==
  ASSUME Inv, NEW a \in Counter, NEW b \in Counter, a # b,
         Off(a) \in Off(c_head) .. Len(enq) - 1, Off(b) \in Off(c_head) .. Len(enq) - 1
  PROVE  Slot(a) # Slot(b)
  <1>1. /\ Off(a) \in Counter /\ Off(b) \in Counter /\ Off(a) # Off(b)
        /\ Cnt(Off(a)) = a /\ Cnt(Off(b)) = b
    BY OffType, OffInjective
  <1>2. Len(enq) - Off(c_head) < Size
    BY Bounds DEF Inv, Order
  <1>3. CASE Off(a) < Off(b)
    <2>1. Off(b) - Off(a) < Size
      BY <1>2, Bounds
    <2> QED
      BY <1>1, <1>3, <2>1, SlotsDiffer
  <1>4. CASE Off(b) < Off(a)
    <2>1. Off(a) - Off(b) < Size
      BY <1>2, Bounds
    <2> QED
      BY <1>1, <1>4, <2>1, SlotsDiffer
  <1> QED
    BY <1>1, <1>3, <1>4, Bounds

\* A producer copies one word of its entry into the slot of its ticket.
LEMMA WriteWordInv ==
  ASSUME Inv, NEW t \in Producers, NEW w \in Words, WriteWord(t, w)
  PROVE  Inv'
  <1> USE DEF Inv, WriteWord
  <1>0. /\ t \in Reserving /\ w \in todo[t] /\ t \in Threads /\ up
        /\ producer[t] \in Counter /\ Slot(producer[t]) \in 0 .. Size - 1
    BY SlotType DEF TypeOK, Labels, Threads
  <1>1. /\ Off(producer[t]) \in Off(p_tail) .. Len(enq) - 1
        /\ Off(producer[t]) \in Off(c_head) .. Len(enq) - 1
    BY <1>0, Bounds DEF Tickets, Order
  <1>2. TypeOK'
    BY <1>0 DEF TypeOK, shared, locals, Threads
  <1>3. Wanting' = Wanting /\ Reserving' = Reserving
    BY DEF Wanting, Reserving
  <1>4. Labels'
    BY <1>0, <1>3, RingThreads DEF TypeOK, Labels, Threads
  <1>5. Order' /\ Snapshots'
    BY <1>3 DEF Order, Snapshots, shared, locals
  <1>6. \A s \in 0 .. Size - 1 : s # Slot(producer[t]) => buffer'[s] = buffer[s]
    BY DEF TypeOK
  <1>7. \A v \in Words : buffer'[Slot(producer[t])][v]
                           = IF v = w THEN entry[t] ELSE buffer[Slot(producer[t])][v]
    BY <1>0 DEF TypeOK
  <1>8. Tickets'
    <2>1. ASSUME NEW u \in Reserving
          PROVE  \A v \in Words \ todo'[u] : buffer'[Slot(producer[u])][v] = entry[u]
      <3>1. CASE u = t
        <4>1. todo'[t] = todo[t] \ {w}
          BY <1>0 DEF TypeOK
        <4> QED
          BY <1>0, <1>7, <3>1, <4>1 DEF Tickets
      <3>2. CASE u # t
        <4>1. todo'[u] = todo[u] /\ producer[u] \in Counter /\ Slot(producer[u]) \in 0 .. Size - 1
          BY <3>2, SlotType DEF TypeOK, Threads, Reserving
        <4>2. producer[u] # producer[t] /\ Off(producer[u]) \in Off(c_head) .. Len(enq) - 1
          <5>1. /\ producer[u] # producer[t] /\ Off(producer[u]) \in Off(p_tail) .. Len(enq) - 1
                /\ Off(c_head) <= Off(p_tail)
            BY <1>0, <3>2 DEF Tickets, Order
          <5> HIDE DEF Inv
          <5> QED
            BY <5>1, Bounds
        <4>3. Slot(producer[u]) # Slot(producer[t])
          BY <1>0, <1>1, <4>1, <4>2, OwnSlots
        <4> QED
          BY <1>6, <4>1, <4>3 DEF Tickets
      <3> QED
        BY <3>1, <3>2
    <2> QED
      BY <1>3, <2>1 DEF Tickets, shared, locals
  <1>9. Contents'
    <2> SUFFICES ASSUME NEW i \in Off(c_head) .. Off(p_tail) - 1, i + 1 \notin dead, NEW v \in Words
                 PROVE  buffer'[Slot(Cnt(i))][v] = enq[i + 1]
      BY DEF Contents, shared
    <2>1. i \in Counter /\ i \in Off(c_head) .. Len(enq) - 1 /\ i # Off(producer[t])
      <3>1. Off(p_tail) <= Len(enq)
        BY DEF Order
      <3> HIDE DEF Inv
      <3> QED
        BY <1>1, <3>1, Bounds DEF Counter
    <2>2. Cnt(i) \in Counter /\ Off(Cnt(i)) = i
      BY <2>1, CntType
    <2>3. Slot(Cnt(i)) # Slot(producer[t]) /\ Slot(Cnt(i)) \in 0 .. Size - 1
      BY <1>0, <1>1, <2>1, <2>2, OwnSlots, SlotType
    <2> QED
      BY <1>6, <2>3 DEF Contents
  <1>10. Copies'
    <2>1. Off(c_head) < Off(p_tail) => /\ Slot(c_head) # Slot(producer[t])
                                       /\ Slot(c_head) \in 0 .. Size - 1
      <3> SUFFICES ASSUME Off(c_head) < Off(p_tail)
                   PROVE  Slot(c_head) # Slot(producer[t]) /\ Slot(c_head) \in 0 .. Size - 1
        OBVIOUS
      <3>1. Off(c_head) \in Off(c_head) .. Len(enq) - 1 /\ Off(c_head) # Off(producer[t])
        BY <1>1, Bounds DEF Order
      <3> QED
        BY <1>0, <1>1, <3>1, OwnSlots, SlotType DEF TypeOK
    <2>2. \A u \in Consumers : todo'[u] = todo[u]
      BY RingThreads DEF TypeOK, Threads
    <2> QED
      BY <1>6, <2>1, <2>2 DEF Copies, shared, locals
  <1>11. Fifo'
    BY DEF Fifo, shared
  <1> QED
    BY <1>2, <1>4, <1>5, <1>8, <1>9, <1>10, <1>11

\* A producer sees that every earlier ticket is published.
LEMMA CommitMpWaitInv ==
  ASSUME Inv, NEW t \in Producers, CommitMpWait(t)
  PROVE  Inv'
  <1> USE DEF Inv, CommitMpWait, Goto
  <1>1. TypeOK'
    BY DEF TypeOK, shared, locals, Threads, ProducerLabels
  <1>2. /\ pc[t] = "mp_wait" /\ pc'[t] = "mp_store" /\ Wanting' = Wanting /\ Reserving' = Reserving
        /\ \A u \in Threads \ {t} : pc'[u] = pc[u]
    BY DEF TypeOK, Wanting, Reserving, Threads
  <1>3. Labels'
    BY <1>2, RingThreads DEF TypeOK, Labels, Threads, ProducerLabels
  <1>4. Order' /\ Contents' /\ Fifo'
    BY <1>2 DEF Order, Contents, Fifo, shared
  <1>5. Snapshots'
    BY <1>2 DEF Snapshots, Threads, shared, locals
  <1>6. Tickets'
    BY <1>2 DEF Tickets, Threads, Reserving, shared, locals
  <1>7. Copies'
    BY <1>2, RingThreads DEF Copies, Threads, shared, locals
  <1> QED
    BY <1>1, <1>3, <1>4, <1>5, <1>6, <1>7

\* Storing p_tail publishes the entry of the oldest ticket.
LEMMA CommitInv ==
  ASSUME Inv, NEW t \in Producers, CommitMpStore(t) \/ CommitSp(t)
  PROVE  Inv'
  <1> USE DEF Inv
  <1>0. /\ pc[t] \in {"mp_store", "sp_store"} /\ up /\ todo[t] = {}
        /\ pc' = [pc EXCEPT ![t] = "idle"]
        /\ producer' = [producer EXCEPT ![t] = Base]
        /\ consumer' = [consumer EXCEPT ![t] = Base]
        /\ entry' = [entry EXCEPT ![t] = Uninit]
        /\ wasFull' = [wasFull EXCEPT ![t] = FALSE]
        /\ p_tail' = Inc(producer[t]) \/ p_tail' = Inc(p_tail)
        /\ UNCHANGED <<mp, mc, c_head, p_head, buffer, data, todo, issued, enq, deq, dead, up, crashes>>
    BY DEF CommitMpStore, CommitSp, ReturnP, Return, Goto
  <1>1. /\ t \in Reserving /\ t \in Threads /\ producer[t] = p_tail /\ p_tail' = Inc(p_tail)
        /\ Reserving' = Reserving \ {t} /\ Wanting' = Wanting
    BY <1>0 DEF TypeOK, Tickets, Reserving, Wanting, Threads
  <1>2. Off(p_tail) < Len(enq)
    BY <1>1, Bounds DEF Tickets
  <1>3. p_tail' \in Counter /\ Off(p_tail') = Off(p_tail) + 1
    <2>1. Off(p_tail) + 1 < Mod
      BY <1>2, Bounds
    <2> QED
      BY <1>1, <2>1, OffInc DEF TypeOK
  <1>4. TypeOK'
    BY <1>0, <1>3, OffBase DEF TypeOK, Threads, ProducerLabels, Uninit
  <1>5. Labels'
    BY <1>0, <1>1, RingThreads DEF TypeOK, Labels, Reserving, Threads, ProducerLabels
  <1>6. Order'
    BY <1>0, <1>1, <1>2, <1>3, Bounds DEF Order
  <1>7. \A u \in Threads \ {t} : /\ pc'[u] = pc[u] /\ producer'[u] = producer[u]
                                 /\ consumer'[u] = consumer[u]
    BY <1>0 DEF TypeOK
  <1>8. \A u \in Producers \ {t} : entry'[u] = entry[u] /\ wasFull'[u] = wasFull[u]
    BY <1>0 DEF TypeOK
  <1>9. pc'[t] = "idle"
    BY <1>0, <1>1 DEF TypeOK
  <1>10. Snapshots'
    BY <1>0, <1>7, <1>8, <1>9 DEF Snapshots, Threads
  <1>11. Tickets'
    <2>1. ASSUME NEW u \in Reserving'
          PROVE  /\ u \in Reserving /\ u # t /\ producer'[u] = producer[u] /\ pc'[u] = pc[u]
                 /\ entry'[u] = entry[u] /\ pc[u] \notin {"mp_store", "sp_store"}
                 /\ Off(producer[u]) \in Off(p_tail) .. Len(enq) - 1
                 /\ Off(producer[u]) # Off(p_tail)
      <3>1. /\ u \in Reserving /\ u # t /\ producer'[u] = producer[u] /\ pc'[u] = pc[u]
            /\ entry'[u] = entry[u]
        BY <1>1, <1>7, <1>8 DEF Reserving, Threads
      <3>2. producer[u] # p_tail /\ Off(producer[u]) \in Off(p_tail) .. Len(enq) - 1
        BY <1>1, <3>1 DEF Tickets
      <3>3. Off(producer[u]) # Off(p_tail)
        BY <3>1, <3>2, OffInjective DEF TypeOK, Reserving, Threads
      <3> QED
        BY <3>1, <3>2, <3>3 DEF Tickets
    <2>2. \A u \in Reserving' : Off(producer'[u]) \in Off(p_tail') .. Len(enq') - 1
      BY <1>0, <1>3, <2>1, Bounds
    <2>3. ASSUME NEW i \in Off(p_tail') .. Len(enq') - 1
          PROVE  \E u \in Reserving' : Off(producer'[u]) = i
      <3>1. i \in Off(p_tail) .. Len(enq) - 1 /\ i # Off(p_tail)
        BY <1>0, <1>3, Bounds
      <3>2. PICK u \in Reserving : Off(producer[u]) = i
        BY <1>0, <3>1 DEF Tickets
      <3>3. u \in Reserving'
        BY <1>1, <3>1, <3>2
      <3> QED
        BY <2>1, <3>2, <3>3
    <2> QED
      BY <1>0, <2>1, <2>2, <2>3 DEF Tickets
  <1>12. Contents'
    <2>0. Off(c_head)' = Off(c_head) /\ buffer' = buffer /\ enq' = enq /\ dead' = dead
      BY <1>0 DEF Off, Sub
    <2>a. Off(p_tail)' = Off(p_tail')
      BY DEF Off, Sub
    <2> SUFFICES ASSUME NEW i \in Off(c_head) .. Off(p_tail') - 1, i + 1 \notin dead, NEW w \in Words
                 PROVE  buffer[Slot(Cnt(i))][w] = enq[i + 1]
      BY <2>0, <2>a, Zenon DEF Contents
    <2>1. CASE i = Off(p_tail)
      <3>1. Cnt(i) = producer[t]
        BY <1>1, <2>1, OffType DEF TypeOK
      <3> QED
        BY <1>0, <1>1, <2>1, <3>1 DEF Tickets
    <2>2. CASE i # Off(p_tail)
      <3>1. i \in Off(c_head) .. Off(p_tail) - 1
        BY <1>3, <2>2, Bounds
      <3> QED
        BY <3>1 DEF Contents
    <2> QED
      BY <2>1, <2>2
  <1>13. Copies'
    <2>1. \A u \in Consumers : u \in Threads \ {t}
      BY RingThreads DEF Threads
    <2>2. Off(c_head) < Off(p_tail) => Off(c_head) < Off(p_tail')
      BY <1>3, Bounds
    <2> QED
      BY <1>0, <1>7, <2>1, <2>2 DEF Copies
  <1>14. Fifo'
    BY <1>0 DEF Fifo
  <1> QED
    BY <1>4, <1>5, <1>6, <1>10, <1>11, <1>12, <1>13, <1>14

-----------------------------------------------------------------------------
(* Consumers. *)

\* A multi-consumer dequeue loads c_head.
LEMMA DequeueMcInv ==
  ASSUME Inv, NEW t \in Consumers, DequeueMc(t)
  PROVE  Inv'
  <1> USE DEF Inv, DequeueMc, Goto
  <1>1. TypeOK'
    BY OffBase DEF TypeOK, shared, Threads, ConsumerLabels, Uninit
  <1>2. Labels'
    BY RingThreads DEF TypeOK, Labels, Reserving, Threads, ConsumerLabels
  <1>3. Copies'
    BY Bounds DEF TypeOK, Copies, shared, Threads
  <1>4. Order' /\ Snapshots' /\ Tickets' /\ Contents' /\ Fifo'
    BY ConsumerLocal DEF TypeOK, Threads, shared
  <1> QED
    BY <1>1, <1>2, <1>3, <1>4

\* A consumer loads p_tail and finds an entry behind its c_head.
LEMMA DequeueMcTailInv ==
  ASSUME Inv, NEW t \in Consumers, DequeueMcTail(t)
  PROVE  Inv'
  <1> USE DEF Inv, DequeueMcTail, Goto
  <1>1. TypeOK'
    BY OffBase DEF TypeOK, shared, Threads, ConsumerLabels, Uninit
  <1>2. Labels'
    BY RingThreads DEF TypeOK, Labels, Reserving, Threads, ConsumerLabels
  <1>3. Copies'
    <2>1. consumer[t] = c_head => Off(c_head) < Off(p_tail)
      <3>1. Off(c_head) = Off(p_tail) => c_head = p_tail
        BY OffInjective DEF TypeOK
      <3> QED
        BY <3>1, Bounds DEF Order
    <2> QED
      BY <2>1 DEF TypeOK, Copies, shared, Threads
  <1>4. Order' /\ Snapshots' /\ Tickets' /\ Contents' /\ Fifo'
    BY ConsumerLocal DEF TypeOK, Threads, shared
  <1> QED
    BY <1>1, <1>2, <1>3, <1>4

\* A multi-consumer dequeue that returns false on an empty ring.
LEMMA DequeueMcEmptyInv ==
  ASSUME Inv, NEW t \in Consumers, DequeueMcEmpty(t)
  PROVE  Inv'
  <1> USE DEF Inv, DequeueMcEmpty, ReturnC, Return, Goto
  <1>1. TypeOK'
    BY OffBase DEF TypeOK, shared, Threads, ConsumerLabels, Uninit
  <1>2. Labels'
    BY RingThreads DEF TypeOK, Labels, Reserving, Threads, ConsumerLabels
  <1>3. Copies'
    BY Bounds DEF TypeOK, Copies, shared, Threads
  <1>4. Order' /\ Snapshots' /\ Tickets' /\ Contents' /\ Fifo'
    BY ConsumerLocal DEF TypeOK, Threads, shared
  <1> QED
    BY <1>1, <1>2, <1>3, <1>4

\* A consumer copies one word out of the slot it is after.
LEMMA ReadWordInv ==
  ASSUME Inv, NEW t \in Consumers, NEW w \in Words, ReadWord(t, w)
  PROVE  Inv'
  <1> USE DEF Inv, ReadWord
  <1>1. TypeOK'
    <2>1. consumer[t] \in Counter
      BY DEF TypeOK, Threads
    <2>2. buffer[Slot(consumer[t])][w] \in Nat
      BY <2>1, SlotType DEF TypeOK
    <2> QED
      BY <2>2 DEF TypeOK, shared, Threads
  <1>2. Labels'
    BY RingThreads DEF TypeOK, Labels, Reserving, Threads, ConsumerLabels
  <1>3. Copies'
    BY Bounds DEF TypeOK, Copies, shared, Threads
  <1>4. Order' /\ Snapshots' /\ Tickets' /\ Contents' /\ Fifo'
    BY ConsumerLocal DEF TypeOK, Threads, shared
  <1> QED
    BY <1>1, <1>2, <1>3, <1>4

\* A consumer loses the compare-and-swap of c_head and starts again.
LEMMA DequeueMcCasFailInv ==
  ASSUME Inv, NEW t \in Consumers, DequeueMcCasFail(t)
  PROVE  Inv'
  <1> USE DEF Inv, DequeueMcCasFail, Goto
  <1>1. TypeOK'
    BY OffBase DEF TypeOK, shared, Threads, ConsumerLabels, Uninit
  <1>2. Labels'
    BY RingThreads DEF TypeOK, Labels, Reserving, Threads, ConsumerLabels
  <1>3. Copies'
    BY Bounds DEF TypeOK, Copies, shared, Threads
  <1>4. Order' /\ Snapshots' /\ Tickets' /\ Contents' /\ Fifo'
    BY ConsumerLocal DEF TypeOK, Threads, shared
  <1> QED
    BY <1>1, <1>2, <1>3, <1>4

\* A trydequeue loses its compare-and-swap and returns false.
LEMMA TrydequeueMcFailInv ==
  ASSUME Inv, NEW t \in Consumers, TrydequeueMcFail(t)
  PROVE  Inv'
  <1> USE DEF Inv, TrydequeueMcFail, ReturnC, Return, Goto
  <1>1. TypeOK'
    BY OffBase DEF TypeOK, shared, Threads, ConsumerLabels, Uninit
  <1>2. Labels'
    BY RingThreads DEF TypeOK, Labels, Reserving, Threads, ConsumerLabels
  <1>3. Copies'
    BY Bounds DEF TypeOK, Copies, shared, Threads
  <1>4. Order' /\ Snapshots' /\ Tickets' /\ Contents' /\ Fifo'
    BY ConsumerLocal DEF TypeOK, Threads, shared
  <1> QED
    BY <1>1, <1>2, <1>3, <1>4

\* A single-consumer dequeue begins.
LEMMA DequeueScInv ==
  ASSUME Inv, NEW t \in Consumers, DequeueSc(t)
  PROVE  Inv'
  <1> USE DEF Inv, DequeueSc, Goto, Alone
  <1>1. TypeOK'
    BY OffBase DEF TypeOK, shared, Threads, ConsumerLabels, Uninit
  <1>2. Labels'
    BY RingThreads DEF TypeOK, Labels, Reserving, Threads, ConsumerLabels
  <1>3. Copies'
    <2>1. Off(c_head) < Off(p_tail)
      <3>1. Off(c_head) = Off(p_tail) => c_head = p_tail
        BY OffInjective DEF TypeOK
      <3> QED
        BY <3>1, Bounds DEF Order
    <2> QED
      BY <2>1, Bounds DEF TypeOK, Copies, shared, Threads
  <1>4. Order' /\ Snapshots' /\ Tickets' /\ Contents' /\ Fifo'
    BY ConsumerLocal DEF TypeOK, Threads, shared
  <1> QED
    BY <1>1, <1>2, <1>3, <1>4

\* A consumer moves c_head and returns its copy.
LEMMA TakeInv ==
  ASSUME Inv, NEW t \in Consumers, DequeueMcCas(t) \/ DequeueScStore(t)
  PROVE  Inv'
  <1> USE DEF Inv
  <1>0. /\ pc[t] \in {"mc_cas", "sc_store"} /\ up /\ todo[t] = {}
        /\ pc[t] = "mc_cas" => c_head = consumer[t]
        /\ pc' = [pc EXCEPT ![t] = "idle"]
        /\ producer' = [producer EXCEPT ![t] = Base]
        /\ consumer' = [consumer EXCEPT ![t] = Base]
        /\ data' = [data EXCEPT ![t] = [w \in Words |-> Uninit]]
        /\ c_head' = Inc(consumer[t]) /\ deq' = Append(deq, data[t])
        /\ UNCHANGED <<mp, mc, p_tail, p_head, buffer, entry, wasFull, todo, issued, enq, dead, up, crashes>>
    BY DEF DequeueMcCas, DequeueScStore, ReturnC, Return, Goto
  <1>1. /\ t \in Threads /\ consumer[t] = c_head /\ Off(c_head) < Off(p_tail)
        /\ \A w \in Words : data[t][w] = buffer[Slot(c_head)][w]
    BY <1>0 DEF Copies, Threads
  <1>2. Off(c_head) < Len(enq)
    BY <1>1, Bounds DEF Order
  <1>3. c_head' \in Counter /\ Off(c_head') = Off(c_head) + 1
    <2>1. Off(c_head) + 1 < Mod
      BY <1>2, Bounds
    <2> QED
      BY <1>0, <1>1, <2>1, OffInc DEF TypeOK
  <1>4. TypeOK'
    BY <1>0, <1>3, OffBase DEF TypeOK, Threads, ConsumerLabels, Uninit
  <1>5. \A u \in Threads \ {t} : /\ pc'[u] = pc[u] /\ producer'[u] = producer[u]
                                 /\ consumer'[u] = consumer[u]
    BY <1>0 DEF TypeOK
  <1>6. \A u \in Producers : u \in Threads \ {t}
    BY RingThreads DEF Threads
  <1>7. Reserving' = Reserving /\ Wanting' = Wanting
    BY <1>5, <1>6 DEF Reserving, Wanting
  <1>8. Labels'
    BY <1>0, <1>1, <1>7, RingThreads DEF TypeOK, Labels, Threads, ConsumerLabels
  <1>9. Order'
    BY <1>0, <1>1, <1>3, <1>7, Bounds DEF Order
  <1>10. Snapshots'
    <2> SUFFICES ASSUME NEW u \in Producers
                 PROVE  Snapshots!(u)'
      BY DEF Snapshots
    <2>1. consumer[u] \in Counter
      BY <1>6 DEF TypeOK
    <2>2. Off(consumer[u]) \in Nat
      BY <2>1, OffType DEF Counter
    <2>3. Off(consumer[u]) <= Off(c_head) => Off(consumer[u]) <= Off(c_head')
      BY <1>3, <2>2, Bounds
    <2> QED
      BY <1>0, <1>5, <1>6, <2>3 DEF Snapshots
  <1>11. Tickets'
    BY <1>0, <1>5, <1>6, <1>7 DEF Tickets, Reserving
  <1>12. Contents'
    <2>1. \A i \in Off(c_head') .. Off(p_tail) - 1 : i \in Off(c_head) .. Off(p_tail) - 1
      BY <1>3, Bounds
    <2> QED
      BY <1>0, <2>1 DEF Contents
  <1>13. Copies'
    <2> SUFFICES ASSUME NEW u \in Consumers
                 PROVE  Copies!(u)'
      BY DEF Copies
    <2>1. CASE u = t
      BY <1>0, <1>1, <2>1 DEF TypeOK
    <2>2. CASE u # t
      <3>1. pc'[u] = pc[u] /\ consumer'[u] = consumer[u] /\ consumer[u] \in Counter /\ u \in Threads
        BY <1>5, <2>2 DEF TypeOK, Threads
      <3>2. Off(consumer[u]) \in Nat
        BY <3>1, OffType DEF Counter
      <3>3. pc[u] # "idle" => Off(consumer[u]) <= Off(c_head') /\ consumer[u] # c_head'
        BY <1>3, <3>2, Bounds DEF Copies
      <3>4. pc[u] # "sc_store"
        BY <1>0, <2>2 DEF Labels
      <3> QED
        BY <3>1, <3>3, <3>4
    <2> QED
      BY <2>1, <2>2
  <1>14. Fifo'
    <2>1. /\ Len(deq) = Off(c_head) /\ Len(deq) \in Nat /\ DOMAIN deq = 1 .. Len(deq)
          /\ DOMAIN deq' = 1 .. Len(deq) + 1 /\ Len(deq') = Len(deq) + 1
          /\ deq'[Len(deq) + 1] = data[t] /\ \A i \in 1 .. Len(deq) : deq'[i] = deq[i]
      BY <1>0 DEF Fifo, TypeOK
    <2>2. ASSUME NEW i \in DOMAIN deq', i \notin dead
          PROVE  deq'[i] = [w \in Words |-> enq[i]]
      <3>1. CASE i = Len(deq) + 1
        <4>1. Cnt(Off(c_head)) = c_head
          BY OffType DEF TypeOK
        <4>2. Off(c_head) \in Off(c_head) .. Off(p_tail) - 1
          BY <1>1, Bounds
        <4>3. \A w \in Words : buffer[Slot(c_head)][w] = enq[i]
          BY <2>1, <2>2, <3>1, <4>1, <4>2 DEF Contents
        <4>4. data[t] \in [Words -> Nat]
          BY DEF TypeOK
        <4>5. data[t] = [w \in Words |-> enq[i]]
          BY <1>1, <4>3, <4>4
        <4> QED
          BY <2>1, <3>1, <4>5
      <3>2. CASE i \in 1 .. Len(deq)
        BY <2>1, <2>2, <3>2 DEF Fifo
      <3> QED
        BY <2>1, <3>1, <3>2
    <2>3. \A i \in DOMAIN deq' : i \notin dead' => deq'[i] = [w \in Words |-> enq'[i]]
      BY <1>0, <2>2
    <2> QED
      BY <1>3, <2>1, <2>3 DEF Fifo
  <1> QED
    BY <1>4, <1>8, <1>9, <1>10, <1>11, <1>12, <1>13, <1>14

-----------------------------------------------------------------------------
(* The process dies and the ring is repaired. *)

\* All threads die; the tickets they had reserved remain.
LEMMA CrashInv ==
  ASSUME Inv, Crash
  PROVE  Inv'
  <1> USE DEF Inv, Crash
  <1>0. Off(p_head) = Len(enq) /\ Len(enq) \in Nat /\ Off(p_tail) \in Nat
    BY Bounds DEF Order
  <1>1. dead' = dead \cup (Off(p_tail) + 1 .. Len(enq)) /\ dead \subseteq 1 .. Len(enq)
    BY <1>0 DEF Order
  <1>2. Reserving' = {} /\ Wanting' = {} /\ Cardinality(Wanting') = 0
    BY FS_EmptySet DEF Reserving, Wanting, Threads
  <1>3. Labels'
    BY <1>2 DEF Labels, ProducerLabels, ConsumerLabels, Threads
  <1>4. dead' \subseteq 1 .. Len(enq) /\ dead \subseteq dead'
    <2>1. Off(p_tail) + 1 .. Len(enq) \subseteq 1 .. Len(enq)
      BY <1>0
    <2> QED
      BY <1>1, <2>1
  <1>5. Order'
    BY <1>2, <1>4, WantingFinite, Bounds DEF Order, shared, TypeOK
  <1>6. Snapshots'
    BY DEF Snapshots, Threads
  <1>7. Tickets'
    <2>1. \A i \in Off(p_tail) .. Len(enq) - 1 : i + 1 \in dead'
      BY <1>0
    <2> QED
      BY <1>2, <2>1 DEF Tickets, shared
  <1>8. Contents'
    BY <1>4 DEF Contents, shared
  <1>9. Copies'
    BY DEF Copies, Threads
  <1>10. Fifo'
    BY <1>4 DEF Fifo, shared
  <1>11. TypeOK'
    <2>1. dead' \subseteq Nat
      BY <1>0, <1>4
    <2>2. /\ pc' \in [Threads -> ProducerLabels \cup ConsumerLabels]
          /\ producer' \in [Threads -> Counter] /\ consumer' \in [Threads -> Counter]
      BY OffBase DEF ProducerLabels
    <2>3. entry' \in [Producers -> Nat] /\ wasFull' \in [Producers -> BOOLEAN]
      BY DEF Uninit
    <2>4. todo' \in [Threads -> SUBSET Words] /\ data' \in [Consumers -> [Words -> Nat]]
      BY DEF Uninit
    <2>5. crashes' \in 0 .. MaxCrashes
      BY RingSizes DEF TypeOK
    <2> QED
      BY <2>1, <2>2, <2>3, <2>4, <2>5 DEF TypeOK, shared
  <1> QED
    BY <1>3, <1>5, <1>6, <1>7, <1>8, <1>9, <1>10, <1>11

\* ck_ring_repair publishes what the dead producers had reserved.
LEMMA RepairInv ==
  ASSUME Inv, Repair
  PROVE  Inv'
  <1> USE DEF Inv, Repair
  <1>0. /\ mp /\ \A t \in Threads : pc[t] = "idle"
        /\ Off(p_tail') = Len(enq) /\ Len(enq) \in Nat /\ Off(p_tail) \in Nat
    BY Bounds DEF Order, Labels
  <1>1. TypeOK'
    BY DEF TypeOK, locals
  <1>2. Reserving = {} /\ Reserving' = {} /\ Wanting' = Wanting
    BY <1>0 DEF Reserving, Wanting, Threads
  <1>3. Labels'
    BY <1>0, <1>2 DEF Labels
  <1>4. Order'
    BY <1>0, <1>2, Bounds DEF Order
  <1>5. Snapshots'
    BY DEF Snapshots, locals
  <1>6. Tickets'
    BY <1>0, <1>2 DEF Tickets
  <1>7. Contents'
    <2> SUFFICES ASSUME NEW i \in Off(c_head) .. Len(enq) - 1, i + 1 \notin dead, NEW w \in Words
                 PROVE  buffer[Slot(Cnt(i))][w] = enq[i + 1]
      BY <1>0 DEF Contents
    <2>1. ~ (i \in Off(p_tail) .. Len(enq) - 1)
      BY DEF Tickets
    <2>2. i \in Off(c_head) .. Off(p_tail) - 1
      BY <2>1, Bounds
    <2> QED
      BY <2>2 DEF Contents
  <1>8. Copies'
    BY <1>0 DEF Copies, Threads
  <1>9. Fifo'
    BY DEF Fifo
  <1> QED
    BY <1>1, <1>3, <1>4, <1>5, <1>6, <1>7, <1>8, <1>9

-----------------------------------------------------------------------------
\* Nothing changes.
LEMMA StutterInv ==
  ASSUME Inv, UNCHANGED vars
  PROVE  Inv'
  <1> USE DEF Inv, vars, shared, locals
  <1>1. Reserving' = Reserving /\ Wanting' = Wanting
    BY DEF Reserving, Wanting
  <1>2. TypeOK' /\ Labels' /\ Order' /\ Snapshots'
    BY <1>1 DEF TypeOK, Labels, Order, Snapshots
  <1>3. Tickets' /\ Contents' /\ Copies' /\ Fifo'
    BY <1>1 DEF Tickets, Contents, Copies, Fifo
  <1> QED
    BY <1>2, <1>3

\* Every step preserves the invariant.
LEMMA NextInv ==
  ASSUME Inv, [Next]_vars
  PROVE  Inv'
  <1>1. ASSUME NEW t \in Producers, Produce(t) PROVE Inv'
    <2>1. CASE EnqueueMp(t)
      BY <2>1, EnqueueMpInv
    <2>2. CASE ReserveMpLoad(t)
      BY <2>2, ReserveMpLoadInv
    <2>3. CASE ReserveMpCas(t)
      BY <2>3, ReserveMpCasInv
    <2>4. CASE ReserveMpCasFail(t) \/ ReserveMpRetry(t)
      BY <2>4, ReserveMpAgainInv
    <2>5. CASE ReserveMpFull(t)
      BY <2>5, ReserveMpFullInv
    <2>6. CASE CommitMpWait(t)
      BY <2>6, CommitMpWaitInv
    <2>7. CASE CommitMpStore(t) \/ CommitSp(t)
      BY <2>7, CommitInv
    <2>8. CASE EnqueueSp(t)
      BY <2>8, EnqueueSpInv
    <2>9. CASE EnqueueSpFull(t)
      BY <2>9, EnqueueSpFullInv
    <2>10. CASE \E w \in Words : WriteWord(t, w)
      BY <2>10, WriteWordInv
    <2> QED
      BY <1>1, <2>1, <2>2, <2>3, <2>4, <2>5, <2>6, <2>7, <2>8, <2>9, <2>10 DEF Produce
  <1>2. ASSUME NEW t \in Consumers, Consume(t) PROVE Inv'
    <2>1. CASE DequeueMc(t)
      BY <2>1, DequeueMcInv
    <2>2. CASE DequeueMcTail(t)
      BY <2>2, DequeueMcTailInv
    <2>3. CASE DequeueMcEmpty(t)
      BY <2>3, DequeueMcEmptyInv
    <2>4. CASE DequeueMcCasFail(t)
      BY <2>4, DequeueMcCasFailInv
    <2>5. CASE TrydequeueMcFail(t)
      BY <2>5, TrydequeueMcFailInv
    <2>6. CASE DequeueSc(t)
      BY <2>6, DequeueScInv
    <2>7. CASE DequeueScEmpty(t)
      BY <2>7, StutterInv DEF DequeueScEmpty
    <2>8. CASE DequeueMcCas(t) \/ DequeueScStore(t)
      BY <2>8, TakeInv
    <2>9. CASE \E w \in Words : ReadWord(t, w)
      BY <2>9, ReadWordInv
    <2> QED
      BY <1>2, <2>1, <2>2, <2>3, <2>4, <2>5, <2>6, <2>7, <2>8, <2>9 DEF Consume
  <1> QED
    BY <1>1, <1>2, CrashInv, RepairInv, StutterInv DEF Next

\* The invariant holds in every state of every ring: whatever the sizes, the
\* threads, the interleavings, the crashes and the repairs.
THEOREM Invariance == Spec => []Inv
  BY InitInv, NextInv, PTL DEF Spec

\* What the dequeues of a ring return, with any interface, is what was
\* enqueued, whole, once and in the order of the tickets.
THEOREM RingIsFifo == Spec => []Fifo
  <1>1. Inv => Fifo
    BY DEF Inv
  <1> QED
    BY <1>1, Invariance, PTL

\* A ring that several producers use has no reserved slot that nobody will
\* publish, before and after any number of crashes and repairs.
THEOREM RingHasNoOrphans == Spec => []NoOrphanTicket
  <1>1. ASSUME Inv PROVE NoOrphanTicket
    <2> SUFFICES ASSUME mp, up, Reserving = {}
                 PROVE  p_tail = p_head /\ Valid
      BY DEF NoOrphanTicket
    <2>1. Off(p_head) = Len(enq)
      BY <1>1 DEF Inv, Order
    <2>2. ~ (Off(p_tail) \in Off(p_tail) .. Len(enq) - 1)
      BY <1>1 DEF Inv, Tickets
    <2>3. Off(p_tail) = Len(enq)
      BY <1>1, <2>2, Bounds DEF Inv, Order
    <2>4. p_tail = p_head
      BY <1>1, <2>1, <2>3, OffInjective DEF Inv, TypeOK
    <2>5. Sub(p_head, c_head) = Off(p_head) - Off(c_head)
      BY <1>1, <2>1, <2>3, OffSub, Bounds DEF Inv, TypeOK, Order
    <2> QED
      BY <1>1, <2>1, <2>4, <2>5, Bounds DEF Inv, Order, Valid
  <1> QED
    BY <1>1, Invariance, PTL

-----------------------------------------------------------------------------
\* Steps of a thread move that thread only.
LEMMA OthersStay ==
  ASSUME Inv, NEW t \in Threads, NEW u \in Threads, t # u, Produce(u) \/ Consume(u)
  PROVE  pc'[t] = pc[t]
  <1>1. CASE Produce(u)
    BY <1>1 DEF Inv, TypeOK, Produce, EnqueueMp, ReserveMpLoad, ReserveMpCas, ReserveMpCasFail,
                ReserveMpRetry, ReserveMpFull, CommitMpWait, CommitMpStore, EnqueueSp,
                EnqueueSpFull, CommitSp, WriteWord, ReturnP, Return, Goto
  <1>2. CASE Consume(u)
    BY <1>2 DEF Inv, TypeOK, Consume, DequeueMc, DequeueMcTail, DequeueMcEmpty, DequeueMcCas,
                DequeueMcCasFail, TrydequeueMcFail, DequeueSc, DequeueScEmpty, DequeueScStore,
                ReadWord, ReturnC, Return, Goto, vars
  <1> QED
    BY <1>1, <1>2

\* A dequeue that fails does so on a ring that is empty at that instant.
THEOREM RingEmptyIsReal == Spec => EmptyIsReal
  <1>1. ASSUME Inv, Next, NEW t \in Consumers, pc[t] = "mc_tail", pc'[t] = "idle", up'
        PROVE  c_head = p_tail
    <2>1. t \in Threads /\ \A u \in Producers : u # t /\ u \in Threads
      BY RingThreads DEF Threads
    <2>2. ~ Crash /\ ~ Repair
      BY <1>1 DEF Crash, Repair
    <2>3. Consume(t)
      BY <1>1, <2>1, <2>2, OthersStay DEF Next, Threads
    <2>4. DequeueMcEmpty(t)
      BY <1>1, <2>1, <2>3 DEF Inv, TypeOK, Consume, DequeueMc, DequeueMcTail, DequeueMcCas,
           DequeueMcCasFail, TrydequeueMcFail, DequeueSc, DequeueScEmpty, DequeueScStore,
           ReadWord, ReturnC, Return, Goto, vars
    <2>5. consumer[t] = p_tail /\ Off(consumer[t]) <= Off(c_head)
      BY <1>1, <2>4 DEF DequeueMcEmpty, Inv, Copies
    <2>6. Off(p_tail) = Off(c_head)
      BY <1>1, <2>5, Bounds DEF Inv, Order
    <2> QED
      BY <1>1, <2>6, OffInjective DEF Inv, TypeOK
  <1>2. ASSUME Inv, [Next]_vars
        PROVE  [\A t \in Consumers :
                  pc[t] = "mc_tail" /\ pc'[t] = "idle" /\ up' => c_head = p_tail]_vars
    BY <1>1, <1>2
  <1> QED
    BY <1>2, Invariance, PTL DEF Spec, EmptyIsReal

\* An enqueue that fails does so on a ring that was full during the call.
THEOREM RingFullIsReal == Spec => FullIsReal
  <1>1. ASSUME Inv, Next, NEW t \in Producers, pc[t] = "mp_full", pc'[t] = "idle", up'
        PROVE  wasFull[t]
    <2>1. t \in Threads /\ \A u \in Consumers : u # t /\ u \in Threads
      BY RingThreads DEF Threads
    <2>2. ~ Crash /\ ~ Repair
      BY <1>1 DEF Crash, Repair
    <2>3. Produce(t)
      BY <1>1, <2>1, <2>2, OthersStay DEF Next, Threads
    <2>4. ReserveMpFull(t)
      BY <1>1, <2>1, <2>3 DEF Inv, TypeOK, Produce, EnqueueMp, ReserveMpLoad, ReserveMpCas,
           ReserveMpCasFail, ReserveMpRetry, CommitMpWait, CommitMpStore, EnqueueSp,
           EnqueueSpFull, CommitSp, WriteWord, ReturnP, Return, Goto
    <2> QED
      BY <1>1, <2>4 DEF ReserveMpFull, Inv, Snapshots
  <1>2. ASSUME Inv, [Next]_vars
        PROVE  [\A t \in Producers :
                  pc[t] = "mp_full" /\ pc'[t] = "idle" /\ up' => wasFull[t]]_vars
    BY <1>1, <1>2
  <1> QED
    BY <1>2, Invariance, PTL DEF Spec, FullIsReal

-----------------------------------------------------------------------------
(* Refinement of the bounded queue. *)

\* The images of the queue's variables.
Items == [i \in 1 .. Sub(p_tail, c_head) |-> buffer[Slot(c_head + i - 1)]]
Reserved == IF mp THEN Sub(p_head, p_tail) ELSE Cardinality(Reserving)

\* A reservation in the ring is one of the bounded queue.
LEMMA QueueReserve ==
  ASSUME up, Len(Items) + Reserved < mask, Reserved' = Reserved + 1, UNCHANGED <<Items, deq, up>>
  PROVE  Queue!Next
  BY DEF Items, Reserved, Queue!Next, Queue!Reserve

\* Filling the oldest reservation is a put of the bounded queue.
LEMMA QueuePut ==
  ASSUME up, Reserved > 0, NEW e \in 1 .. MaxOps, Items' = Append(Items, [w \in Words |-> e]),
         Reserved' = Reserved - 1, UNCHANGED <<deq, up>>
  PROVE  Queue!Next
  BY DEF Items, Reserved, Queue!Next, Queue!Put

\* Removing the oldest item is a take of the bounded queue.
LEMMA QueueTake ==
  ASSUME up, Items # <<>>, deq' = Append(deq, Head(Items)), Items' = Tail(Items),
         UNCHANGED <<Reserved, up>>
  PROVE  Queue!Next
  BY DEF Items, Reserved, Queue!Next, Queue!Take

\* A repair is the recovery of the bounded queue.
LEMMA QueueRecover ==
  ASSUME ~up, up', Len(Items') = Len(Items) + Reserved,
         \A i \in DOMAIN Items : Items'[i] = Items[i], Reserved' = 0, UNCHANGED deq
  PROVE  Queue!Next
  BY DEF Items, Reserved, Queue!Next, Queue!Recover

\* A crash is the death of the bounded queue.
LEMMA QueueDie ==
  ASSUME up, ~up', UNCHANGED <<Items, Reserved, deq>>
  PROVE  Queue!Next
  BY DEF Items, Reserved, Queue!Next, Queue!Die

\* A step that changes nothing the queue shows is a stutter of it.
LEMMA QueueStutter ==
  ASSUME UNCHANGED <<Items, Reserved, deq, up>>
  PROVE  UNCHANGED Queue!vars
  BY DEF Items, Reserved, Queue!vars

ItemsImage ==
  /\ Items \in Seq([Words -> Nat]) /\ Len(Items) = Off(p_tail) - Off(c_head)
  /\ \A i \in 1 .. Off(p_tail) - Off(c_head) : Items[i] = buffer[Slot(Cnt(Off(c_head) + i - 1))]
ReservedImage == Reserved = Len(enq) - Off(p_tail) /\ Reserved \in Nat

\* The items are the slots of the published tickets ...
LEMMA ItemsFacts == Inv => ItemsImage
  <1> SUFFICES ASSUME Inv PROVE ItemsImage
    OBVIOUS
  <1> DEFINE n == Off(p_tail) - Off(c_head)
  <1>1. n \in Nat /\ Sub(p_tail, c_head) = n
    BY OffSub, Bounds, SMTT(20) DEF Inv, TypeOK, Order
  <1>2. ASSUME NEW i \in 1 .. n
        PROVE  /\ Slot(c_head + i - 1) = Slot(Cnt(Off(c_head) + i - 1))
               /\ Slot(c_head + i - 1) \in 0 .. Size - 1
    <2>0. /\ Off(p_tail) <= Len(enq) /\ Off(p_tail) \in Nat /\ Off(c_head) \in Nat /\ Len(enq) \in Nat
          /\ Len(enq) <= Mod /\ Mod \in Nat
      BY Bounds DEF Inv, Order
    <2>1. Off(c_head) + i - 1 \in Counter
      BY <1>1, <1>2, <2>0 DEF Counter
    <2>a. /\ Mod \in Nat /\ Base \in Nat /\ Base < Mod /\ c_head \in Nat /\ c_head < Mod
          /\ i \in Nat /\ i >= 1
      BY <1>1, <1>2, RingSizes DEF Inv, TypeOK, Counter
    <2>2. Cnt(Off(c_head) + i - 1) = c_head + i - 1 \/ Cnt(Off(c_head) + i - 1) + Mod = c_head + i - 1
      BY <2>a DEF Cnt, Off, Sub
    <2>3. Cnt(Off(c_head) + i - 1) \in Counter
      BY <2>1, CntType
    <2>4. Cnt(Off(c_head) + i - 1) \in Nat
      BY <2>3 DEF Counter
    <2>5. (Cnt(Off(c_head) + i - 1) + Mod) % Size = Cnt(Off(c_head) + i - 1) % Size
      BY <2>4, ModAdd
    <2>6. Slot(c_head + i - 1) = Slot(Cnt(Off(c_head) + i - 1))
      BY <2>2, <2>5 DEF Slot
    <2> QED
      BY <2>3, <2>6, SlotType
  <1>3. Items = [i \in 1 .. n |-> buffer[Slot(c_head + i - 1)]]
    BY <1>1 DEF Items
  <1>4. \A i \in 1 .. n : buffer[Slot(c_head + i - 1)] \in [Words -> Nat]
    BY <1>2 DEF Inv, TypeOK
  <1> HIDE DEF n
  <1>5. Items \in Seq([Words -> Nat]) /\ Len(Items) = n
    BY <1>1, <1>3, <1>4
  <1>6. \A i \in 1 .. n : Items[i] = buffer[Slot(Cnt(Off(c_head) + i - 1))]
    BY <1>2, <1>3
  <1> QED
    BY <1>5, <1>6 DEF n, ItemsImage

\* ... and the reservations are the tickets that are not yet published, with
\* one producer as with several.
LEMMA ReservedFacts == Inv => ReservedImage
  <1> SUFFICES ASSUME Inv PROVE Reserved = Len(enq) - Off(p_tail) /\ Reserved \in Nat
    BY DEF ReservedImage
  <1> USE DEF Inv
  <1>1. CASE mp
    <2>1. Sub(p_head, p_tail) = Off(p_head) - Off(p_tail)
      BY <1>1, OffSub, Bounds DEF TypeOK, Order
    <2> QED
      BY <1>1, <2>1, Bounds DEF Order, Reserved
  <1>2. CASE ~mp /\ Reserving = {}
    <2>1. ~ (Off(p_tail) \in Off(p_tail) .. Len(enq) - 1)
      BY <1>2 DEF Tickets, Labels
    <2> QED
      BY <1>2, <2>1, FS_EmptySet, Bounds DEF Order, Reserved
  <1>3. CASE ~mp /\ Reserving # {}
    <2>1. PICK t \in Reserving : TRUE
      BY <1>3
    <2>2. \A u \in Reserving : producer[u] = p_tail
      BY <1>3 DEF Reserving, Labels, Tickets
    <2>3. Reserving = {t}
      BY <2>1, <2>2 DEF Tickets
    <2>4. Cardinality(Reserving) = 1
      BY <2>3, FS_Singleton
    <2>5. Off(p_tail) \in Off(p_tail) .. Len(enq) - 1
      BY <2>1, <2>2 DEF Tickets
    <2>6. ~ (Off(p_tail) + 1 \in Off(p_tail) .. Len(enq) - 1)
      <3> SUFFICES ASSUME Off(p_tail) + 1 \in Off(p_tail) .. Len(enq) - 1 PROVE FALSE
        OBVIOUS
      <3>1. PICK u \in Reserving : Off(producer[u]) = Off(p_tail) + 1
        BY <1>3 DEF Tickets, Labels
      <3> QED
        BY <2>2, <3>1, Bounds
    <2>7. Len(enq) = Off(p_tail) + 1
      BY <2>5, <2>6, Bounds
    <2> QED
      BY <1>3, <2>4, <2>7, Bounds DEF Reserved
  <1> QED
    BY <1>1, <1>2, <1>3

\* The two image facts hold after a step as well.
LEMMA ImagesPrime == Inv' => ItemsImage' /\ ReservedImage'
  BY ItemsFacts, ReservedFacts, PTL

\* Sequences of one length with the same elements are equal.
LEMMA SameSequence ==
  ASSUME NEW S, NEW s \in Seq(S), NEW u \in Seq(S), Len(s) = Len(u),
         \A i \in 1 .. Len(s) : s[i] = u[i]
  PROVE  s = u
  OBVIOUS

\* Nothing the queue shows changes while its counters, its tickets and its
\* published slots stay as they are.
LEMMA QueueUnchanged ==
  ASSUME Inv, Inv', UNCHANGED <<c_head, p_tail, enq, deq, up>>,
         \A i \in Off(c_head) .. Off(p_tail) - 1 : buffer'[Slot(Cnt(i))] = buffer[Slot(Cnt(i))]
  PROVE  UNCHANGED Queue!vars
  <1>0. ItemsImage /\ ItemsImage' /\ ReservedImage /\ ReservedImage'
    BY ItemsFacts, ReservedFacts, ImagesPrime
  <1>1. Reserved' = Reserved
    BY <1>0 DEF ReservedImage
  <1>2. Items' = Items
    <2>1. Len(Items) = Off(p_tail) - Off(c_head) /\ Len(Items') = Len(Items)
      BY <1>0 DEF ItemsImage
    <2>2. ASSUME NEW i \in 1 .. Len(Items)
          PROVE  Items'[i] = Items[i]
      <3>1. i \in 1 .. Off(p_tail') - Off(c_head') /\ i \in 1 .. Off(p_tail) - Off(c_head)
        BY <2>1
      <3>2. Off(c_head) + i - 1 \in Off(c_head) .. Off(p_tail) - 1
        BY <3>1, Bounds
      <3>3. Items[i] = buffer[Slot(Cnt(Off(c_head) + i - 1))]
        BY <1>0, <3>1 DEF ItemsImage
      <3>4. Items'[i] = buffer'[Slot(Cnt(Off(c_head') + i - 1))]
        BY <1>0, <3>1 DEF ItemsImage
      <3> QED
        BY <3>2, <3>3, <3>4
    <2>3. Items \in Seq([Words -> Nat]) /\ Items' \in Seq([Words -> Nat])
      BY <1>0 DEF ItemsImage
    <2> QED
      BY <2>1, <2>2, <2>3, SameSequence
  <1> QED
    BY <1>1, <1>2, QueueStutter

\* A word written to a reserved slot does not show in the queue.
LEMMA WriteWordRefines ==
  ASSUME Inv, Inv', NEW t \in Producers, NEW w \in Words, WriteWord(t, w)
  PROVE  UNCHANGED Queue!vars
  <1> USE DEF Inv, WriteWord
  <1>1. t \in Reserving /\ producer[t] \in Counter
    BY DEF TypeOK, Labels, Threads
  <1>2. Off(producer[t]) \in Off(p_tail) .. Len(enq) - 1
    BY <1>1 DEF Tickets
  <1>3. ASSUME NEW i \in Off(c_head) .. Off(p_tail) - 1
        PROVE  buffer'[Slot(Cnt(i))] = buffer[Slot(Cnt(i))]
    <2>1. /\ i \in Counter /\ i \in Off(c_head) .. Len(enq) - 1 /\ i # Off(producer[t])
          /\ Off(producer[t]) \in Off(c_head) .. Len(enq) - 1
      BY <1>2, Bounds DEF Order, Counter
    <2>2. Cnt(i) \in Counter /\ Off(Cnt(i)) = i
      BY <2>1, CntType
    <2>3. Slot(Cnt(i)) # Slot(producer[t]) /\ Slot(Cnt(i)) \in 0 .. Size - 1
      BY <1>1, <2>1, <2>2, OwnSlots, SlotType
    <2> QED
      BY <2>3 DEF TypeOK
  <1> QED
    BY <1>3, QueueUnchanged DEF shared

\* Taking a ticket is a reservation.
LEMMA ReserveRefines ==
  ASSUME Inv, Inv', NEW t \in Producers, ReserveMpCas(t) \/ EnqueueSp(t)
  PROVE  Queue!Next
  <1>0. /\ up /\ UNCHANGED <<c_head, p_tail, buffer, deq, up>>
        /\ enq' = Append(enq, entry[t]) \/ enq' = Append(enq, issued + 1)
    BY DEF ReserveMpCas, EnqueueSp, Goto, shared
  <1>1. Len(enq') = Len(enq) + 1 /\ Len(enq) \in Nat
    BY <1>0 DEF Inv, TypeOK
  <1>2. ItemsImage /\ ReservedImage /\ ReservedImage'
    BY ItemsFacts, ReservedFacts, ImagesPrime
  <1>3. Reserved' = Reserved + 1 /\ Len(Items) + Reserved = Len(enq) - Off(c_head)
    BY <1>0, <1>1, <1>2, Bounds DEF ItemsImage, ReservedImage
  <1>4. Len(enq') - Off(c_head) <= mask
    BY <1>0 DEF Inv, Order
  <1>5. Len(Items) + Reserved < mask
    BY <1>1, <1>3, <1>4, Bounds
  <1>6. Items' = Items
    BY <1>0 DEF Items
  <1> QED
    BY <1>0, <1>3, <1>5, <1>6, QueueReserve

\* Publishing the oldest ticket puts its entry into the queue.
LEMMA CommitRefines ==
  ASSUME Inv, Inv', NEW t \in Producers, CommitMpStore(t) \/ CommitSp(t)
  PROVE  Queue!Next
  <1>0. /\ pc[t] \in {"mp_store", "sp_store"} /\ up /\ todo[t] = {}
        /\ p_tail' = Inc(producer[t]) \/ p_tail' = Inc(p_tail)
        /\ UNCHANGED <<c_head, buffer, enq, deq, up>>
    BY DEF CommitMpStore, CommitSp, ReturnP, Return, Goto
  <1>1. t \in Reserving /\ producer[t] = p_tail /\ p_tail' = Inc(p_tail) /\ Off(p_tail) < Len(enq)
    BY <1>0, Bounds DEF Inv, TypeOK, Tickets, Reserving
  <1>2. Off(p_tail') = Off(p_tail) + 1
    <2>1. p_tail \in Counter
      BY DEF Inv, TypeOK
    <2>2. Off(p_tail) + 1 < Mod
      BY <1>1, Bounds
    <2> QED
      BY <1>1, <2>1, <2>2, OffInc
  <1>3. ItemsImage /\ ItemsImage' /\ ReservedImage /\ ReservedImage'
    BY ItemsFacts, ReservedFacts, ImagesPrime
  <1>4. Reserved' = Reserved - 1 /\ Reserved > 0
    BY <1>0, <1>1, <1>2, <1>3, Bounds DEF ReservedImage
  <1>5. /\ Len(Items) = Off(p_tail) - Off(c_head) /\ Len(Items) \in Nat
        /\ Len(Items') = Len(Items) + 1
    BY <1>0, <1>2, <1>3, Bounds DEF ItemsImage, Inv, Order
  <1>6. ASSUME NEW i \in 1 .. Len(Items)
        PROVE  Items'[i] = Items[i]
    <2>1. i \in 1 .. Off(p_tail') - Off(c_head') /\ i \in 1 .. Off(p_tail) - Off(c_head)
      BY <1>0, <1>2, <1>5, Bounds
    <2> QED
      BY <1>0, <1>3, <2>1 DEF ItemsImage
  <1>7. Items'[Len(Items) + 1] = buffer[Slot(producer[t])]
    <2>1. Len(Items) + 1 \in 1 .. Off(p_tail') - Off(c_head')
      BY <1>0, <1>2, <1>5, Bounds
    <2>2. Off(c_head') + (Len(Items) + 1) - 1 = Off(p_tail)
      BY <1>0, <1>5, Bounds
    <2>3. Cnt(Off(p_tail)) = producer[t]
      BY <1>1, OffType DEF Inv, TypeOK
    <2> QED
      BY <1>0, <1>3, <2>1, <2>2, <2>3 DEF ItemsImage
  <1>8. buffer[Slot(producer[t])] = [w \in Words |-> entry[t]]
    <2>1. \A w \in Words : buffer[Slot(producer[t])][w] = entry[t]
      BY <1>0, <1>1 DEF Inv, Tickets
    <2>2. buffer[Slot(producer[t])] \in [Words -> Nat]
      BY <1>1, SlotType DEF Inv, TypeOK
    <2> QED
      BY <2>1, <2>2
  <1>9. entry[t] \in 1 .. MaxOps /\ [w \in Words |-> entry[t]] \in [Words -> Nat]
    BY <1>0, RingSizes DEF Inv, Snapshots, TypeOK
  <1>10. Items' = Append(Items, [w \in Words |-> entry[t]])
    <2> DEFINE e == [w \in Words |-> entry[t]]
    <2>1. e \in [Words -> Nat] /\ Items'[Len(Items) + 1] = e
      BY <1>7, <1>8, <1>9
    <2>2. Items \in Seq([Words -> Nat]) /\ Items' \in Seq([Words -> Nat])
      BY <1>3 DEF ItemsImage
    <2> HIDE DEF e
    <2>3. /\ Append(Items, e) \in Seq([Words -> Nat]) /\ Len(Append(Items, e)) = Len(Items) + 1
          /\ Append(Items, e)[Len(Items) + 1] = e
          /\ \A i \in 1 .. Len(Items) : Append(Items, e)[i] = Items[i]
      BY <2>1, <2>2
    <2>4. \A i \in 1 .. Len(Items') : Items'[i] = Append(Items, e)[i]
      BY <1>5, <1>6, <2>1, <2>3
    <2>5. Items' = Append(Items, e)
      BY <1>5, <2>2, <2>3, <2>4, SameSequence
    <2> QED
      BY <2>5 DEF e
  <1> QED
    BY <1>0, <1>4, <1>9, <1>10, QueuePut

\* Advancing c_head takes the oldest entry out of the queue.
LEMMA TakeRefines ==
  ASSUME Inv, Inv', NEW t \in Consumers, DequeueMcCas(t) \/ DequeueScStore(t)
  PROVE  Queue!Next
  <1>0. /\ pc[t] \in {"mc_cas", "sc_store"} /\ up /\ todo[t] = {}
        /\ pc[t] = "mc_cas" => c_head = consumer[t]
        /\ c_head' = Inc(consumer[t]) /\ deq' = Append(deq, data[t])
        /\ UNCHANGED <<p_tail, buffer, enq, up>>
    BY DEF DequeueMcCas, DequeueScStore, ReturnC, Return, Goto
  <1>1. /\ consumer[t] = c_head /\ Off(c_head) < Off(p_tail)
        /\ \A w \in Words : data[t][w] = buffer[Slot(c_head)][w]
    BY <1>0 DEF Inv, Copies
  <1>2. Off(c_head') = Off(c_head) + 1
    <2>1. Off(c_head) + 1 < Mod
      BY <1>1, Bounds DEF Inv, Order
    <2> QED
      BY <1>0, <1>1, <2>1, OffInc DEF Inv, TypeOK
  <1>3. ItemsImage /\ ItemsImage' /\ ReservedImage /\ ReservedImage'
    BY ItemsFacts, ReservedFacts, ImagesPrime
  <1>4. Reserved' = Reserved
    BY <1>0, <1>3 DEF ReservedImage
  <1>5. /\ Len(Items) = Off(p_tail) - Off(c_head) /\ Len(Items) \in Nat /\ Len(Items) > 0
        /\ Len(Items') = Len(Items) - 1
    BY <1>0, <1>1, <1>2, <1>3, Bounds DEF ItemsImage
  <1>6. Items \in Seq([Words -> Nat]) /\ Items' \in Seq([Words -> Nat])
    BY <1>3 DEF ItemsImage
  <1>7. Items # <<>> /\ Head(Items) = Items[1]
    BY <1>5, <1>6
  <1>8. Items[1] = data[t]
    <2>1. 1 \in 1 .. Off(p_tail) - Off(c_head) /\ Off(c_head) + 1 - 1 = Off(c_head)
      BY <1>1, Bounds
    <2>2. Cnt(Off(c_head)) = c_head
      BY OffType DEF Inv, TypeOK
    <2>3. Items[1] = buffer[Slot(c_head)]
      BY <1>3, <2>1, <2>2 DEF ItemsImage
    <2>4. buffer[Slot(c_head)] \in [Words -> Nat] /\ data[t] \in [Words -> Nat]
      BY SlotType DEF Inv, TypeOK
    <2> QED
      BY <1>1, <2>3, <2>4
  <1>9. Items' = Tail(Items)
    <2>1. /\ Tail(Items) \in Seq([Words -> Nat]) /\ Len(Tail(Items)) = Len(Items) - 1
          /\ \A i \in 1 .. Len(Items) - 1 : Tail(Items)[i] = Items[i + 1]
      BY <1>5, <1>6
    <2>2. ASSUME NEW i \in 1 .. Len(Items')
          PROVE  Items'[i] = Tail(Items)[i]
      <3>1. Off(p_tail) \in Int /\ Off(c_head) \in Int /\ i \in Int
        <4>1. Off(p_tail) \in Int /\ Off(c_head) \in Int
          BY Bounds
        <4>2. i \in Int
          BY <1>5
        <4> QED
          BY <4>1, <4>2
      <3>2. i \in 1 .. Off(p_tail) - Off(c_head) - 1
        BY <1>5
      <3>3. i + 1 \in 1 .. Off(p_tail) - Off(c_head)
        BY <3>1, <3>2
      <3>4. Off(p_tail') = Off(p_tail)
        BY <1>0
      <3>5. i \in 1 .. Off(p_tail') - Off(c_head')
        BY <3>1, <3>2, <3>4, <1>2
      <3>6. Off(c_head') + i - 1 = Off(c_head) + (i + 1) - 1
        BY <3>1, <1>2
      <3>7. /\ i \in 1 .. Off(p_tail') - Off(c_head') /\ i + 1 \in 1 .. Off(p_tail) - Off(c_head)
            /\ Off(c_head') + i - 1 = Off(c_head) + (i + 1) - 1
        BY <3>3, <3>5, <3>6
      <3>8. Items'[i] = buffer[Slot(Cnt(Off(c_head') + i - 1))]
        BY <1>0, <1>3, <3>7 DEF ItemsImage
      <3>9. Items[i + 1] = buffer[Slot(Cnt(Off(c_head) + (i + 1) - 1))]
        BY <1>3, <3>7 DEF ItemsImage
      <3>10. Tail(Items)[i] = Items[i + 1]
        BY <1>5, <2>1, <2>2
      <3> QED
        BY <3>7, <3>8, <3>9, <3>10
    <2> QED
      BY <1>5, <1>6, <2>1, <2>2, SameSequence
  <1> QED
    BY <1>0, <1>4, <1>7, <1>8, <1>9, QueueTake

\* A crash stops the queue and loses nothing of it.
LEMMA CrashRefines ==
  ASSUME Inv, Inv', Crash
  PROVE  Queue!Next
  <1>1. up /\ ~up' /\ UNCHANGED <<mp, shared, buffer, enq, deq>>
    BY DEF Crash
  <1>2. ReservedImage /\ ReservedImage'
    BY ReservedFacts, ImagesPrime
  <1>3. Reserved' = Reserved
    BY <1>1, <1>2 DEF ReservedImage, shared
  <1>4. Items' = Items
    BY <1>1 DEF Items, shared
  <1> QED
    BY <1>1, <1>3, <1>4, QueueDie

\* ck_ring_repair turns the reservations into items.
LEMMA RepairRefines ==
  ASSUME Inv, Inv', Repair
  PROVE  Queue!Next
  <1>0. ~up /\ up' /\ p_tail' = p_head /\ UNCHANGED <<c_head, buffer, enq, deq>>
    BY DEF Repair
  <1>1. ItemsImage /\ ItemsImage' /\ ReservedImage /\ ReservedImage'
    BY ItemsFacts, ReservedFacts, ImagesPrime
  <1>2. Off(p_tail') = Len(enq)
    BY <1>0 DEF Inv, Order, Labels
  <1>3. Reserved' = 0
    BY <1>0, <1>1, <1>2, Bounds DEF ReservedImage
  <1>4. Len(Items') = Len(Items) + Reserved
    BY <1>0, <1>1, <1>2, Bounds DEF ItemsImage, ReservedImage
  <1>5. ASSUME NEW i \in DOMAIN Items
        PROVE  Items'[i] = Items[i]
    <2>1. i \in 1 .. Off(p_tail) - Off(c_head)
      BY <1>1 DEF ItemsImage
    <2>2. i \in 1 .. Off(p_tail') - Off(c_head')
      BY <1>0, <1>2, <2>1, Bounds DEF Inv, Order
    <2> QED
      BY <1>0, <1>1, <2>1, <2>2 DEF ItemsImage
  <1> QED
    BY <1>0, <1>3, <1>4, <1>5, QueueRecover

\* The initial ring is the initial queue.
LEMMA InitRefines == Init => Queue!Init
  <1> SUFFICES ASSUME Init PROVE Queue!Init
    OBVIOUS
  <1>1. Inv
    BY InitInv
  <1>2. ItemsImage /\ ReservedImage
    BY <1>1, ItemsFacts, ReservedFacts
  <1>3. Off(p_tail) = 0 /\ Off(c_head) = 0 /\ Len(enq) = 0 /\ deq = <<>> /\ up = TRUE
    BY OffBase DEF Init
  <1>4. Items = <<>> /\ Reserved = 0
    BY <1>2, <1>3 DEF ItemsImage, ReservedImage
  <1> QED
    BY <1>3, <1>4 DEF Queue!Init, Items, Reserved

\* Every step of the ring is a step of the queue or a stutter.
LEMMA NextRefines ==
  ASSUME Inv, Inv', [Next]_vars
  PROVE  [Queue!Next]_(Queue!vars)
  <1>0. ASSUME UNCHANGED <<c_head, p_tail, buffer, enq, deq, up>>
        PROVE  UNCHANGED Queue!vars
    BY <1>0, QueueUnchanged
  <1>1. ASSUME NEW t \in Producers, Produce(t)
        PROVE  [Queue!Next]_(Queue!vars)
    <2>1. CASE EnqueueMp(t) \/ ReserveMpLoad(t) \/ ReserveMpCasFail(t) \/ ReserveMpRetry(t)
               \/ ReserveMpFull(t) \/ CommitMpWait(t) \/ EnqueueSpFull(t)
      BY <1>0, <2>1 DEF EnqueueMp, ReserveMpLoad, ReserveMpCasFail, ReserveMpRetry, ReserveMpFull,
                        CommitMpWait, EnqueueSpFull, shared
    <2>2. CASE ReserveMpCas(t) \/ EnqueueSp(t)
      BY <2>2, ReserveRefines
    <2>3. CASE CommitMpStore(t) \/ CommitSp(t)
      BY <2>3, CommitRefines
    <2>4. CASE \E w \in Words : WriteWord(t, w)
      BY <2>4, WriteWordRefines
    <2> QED
      BY <1>1, <2>1, <2>2, <2>3, <2>4 DEF Produce
  <1>2. ASSUME NEW t \in Consumers, Consume(t)
        PROVE  [Queue!Next]_(Queue!vars)
    <2>1. CASE DequeueMc(t) \/ DequeueMcTail(t) \/ DequeueMcEmpty(t) \/ DequeueMcCasFail(t)
               \/ TrydequeueMcFail(t) \/ DequeueSc(t) \/ DequeueScEmpty(t)
               \/ \E w \in Words : ReadWord(t, w)
      BY <1>0, <2>1 DEF DequeueMc, DequeueMcTail, DequeueMcEmpty, DequeueMcCasFail,
                        TrydequeueMcFail, DequeueSc, DequeueScEmpty, ReadWord, shared, vars
    <2>2. CASE DequeueMcCas(t) \/ DequeueScStore(t)
      BY <2>2, TakeRefines
    <2> QED
      BY <1>2, <2>1, <2>2 DEF Consume
  <1>3. CASE UNCHANGED vars
    BY <1>0, <1>3 DEF vars, shared
  <1> QED
    BY <1>1, <1>2, <1>3, CrashRefines, RepairRefines DEF Next

\* The ring implements a bounded first-in first-out queue: every step of every
\* interface, of a crash and of a repair is one step of that queue or none.
THEOREM RingImplementsFifo == Spec => ImplementsFifo
  <1>1. Inv /\ Inv' /\ [Next]_vars => [Queue!Next]_(Queue!vars)
    BY NextRefines
  <1> QED
    BY <1>1, InitRefines, Invariance, PTL DEF Spec, ImplementsFifo, Queue!Spec
=============================================================================
