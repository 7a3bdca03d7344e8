-------------------------------- MODULE Ring --------------------------------
(***************************************************************************)
(* The bounded ring buffer of include/ck_ring.h.                           *)
(*                                                                         *)
(* A ring is used through one of four interfaces (spsc, spmc, mpsc, mpmc); *)
(* each is a pair of one of two producer sides (_ck_ring_enqueue_sp,       *)
(* _ck_ring_enqueue_mp) and one of two consumer sides                      *)
(* (_ck_ring_dequeue_sc, _ck_ring_dequeue_mc/_trydequeue_mc), chosen here  *)
(* by mp and mc for a whole behaviour.  The reserve/commit calls are the   *)
(* two halves of an enqueue around the caller's own copy.                  *)
(*                                                                         *)
(* Every load, store and compare-and-swap of shared memory is one action.  *)
(* The memcpy of an entry is an unordered set of word accesses (todo is    *)
(* what is outstanding of it); a fence is the condition that nothing       *)
(* before it is outstanding.  The counters are free-running unsigned       *)
(* integers of Mod values and start at Base, which ck_ring_init followed   *)
(* by Base enqueues and dequeues reaches.                                  *)
(***************************************************************************)
EXTENDS Integers, Sequences, FiniteSets, TLC

CONSTANTS
  Producers,      \* threads that call the enqueue side
  Consumers,      \* threads that call the dequeue side
  Sides,          \* the interfaces in use: pairs <<mp, mc>>
  Size,           \* ring->size
  Mod,            \* 2^width of unsigned int
  Base,           \* value of the counters when the model starts
  Words,          \* the words of one entry (ts bytes)
  MaxOps,         \* bound: enqueue calls made in one behaviour
  MaxCrashes      \* bound: crashes of the process that maps the ring

ASSUME RingThreads ==
  /\ IsFiniteSet(Producers) /\ Producers \cap Consumers = {}
  /\ Sides \subseteq BOOLEAN \X BOOLEAN

ASSUME RingSizes ==
  /\ Size \in Nat \ {0, 1} /\ Mod \in Nat /\ Base \in 0 .. Mod - 1
  /\ Mod % Size = 0
  /\ MaxOps \in Nat /\ MaxOps + Size <= Mod
  /\ MaxCrashes \in Nat

VARIABLES
  mp, mc,                   \* several producers, several consumers at a time
  c_head, p_tail, p_head,   \* the counters of struct ck_ring
  buffer,                   \* slot -> word -> value
  pc,                       \* thread -> label
  producer, consumer,       \* thread -> its snapshots of the counters
  entry,                    \* producer -> value being enqueued
  todo,                     \* thread -> words of its memcpy outstanding
  data,                     \* consumer -> its target buffer
  issued,                   \* enqueue calls made so far; numbers the entries
  enq,                      \* history: values in the order of their tickets
  deq,                      \* history: what the dequeues returned, in order
  wasFull,                  \* history: producer -> ring full at its c_head load
  dead,                     \* history: tickets whose producer crashed
  up, crashes               \* the process is running; crashes so far

shared == <<c_head, p_tail, p_head>>
locals == <<producer, consumer, entry, data, wasFull>>
vars == <<mp, mc, shared, buffer, pc, locals, todo, issued, enq, deq, dead, up, crashes>>

Threads == Producers \cup Consumers
mask == Size - 1

\* Unsigned arithmetic on the counters.
Inc(a) == IF a + 1 = Mod THEN 0 ELSE a + 1
Sub(a, b) == IF a >= b THEN a - b ELSE a - b + Mod
Slot(a) == a % Size

\* How far a counter has advanced since the model started.
Off(a) == Sub(a, Base)

Uninit == 0   \* what a slot holds before its first write

Init ==
  /\ \E s \in Sides : mp = s[1] /\ mc = s[2]
  /\ c_head = Base /\ p_tail = Base /\ p_head = Base
  /\ buffer = [s \in 0 .. Size - 1 |-> [w \in Words |-> Uninit]]
  /\ pc = [t \in Threads |-> "idle"]
  /\ producer = [t \in Threads |-> Base]
  /\ consumer = [t \in Threads |-> Base]
  /\ entry = [t \in Producers |-> Uninit]
  /\ todo = [t \in Threads |-> {}]
  /\ data = [t \in Consumers |-> [w \in Words |-> Uninit]]
  /\ wasFull = [t \in Producers |-> FALSE]
  /\ issued = 0 /\ enq = <<>> /\ deq = <<>>
  /\ dead = {} /\ up = TRUE /\ crashes = 0

Goto(t, from, to) ==
  /\ up /\ pc[t] = from
  /\ pc' = [pc EXCEPT ![t] = to]
  /\ UNCHANGED <<mp, mc>>

\* A call returns, and its locals are gone.
Return(t, from) ==
  /\ Goto(t, from, "idle")
  /\ producer' = [producer EXCEPT ![t] = Base]
  /\ consumer' = [consumer EXCEPT ![t] = Base]

ReturnP(t, from) ==
  /\ Return(t, from)
  /\ entry' = [entry EXCEPT ![t] = Uninit]
  /\ wasFull' = [wasFull EXCEPT ![t] = FALSE]
  /\ UNCHANGED data

ReturnC(t, from) ==
  /\ Return(t, from)
  /\ data' = [data EXCEPT ![t] = [w \in Words |-> Uninit]]
  /\ UNCHANGED <<entry, wasFull>>

\* Nobody else of the threads in S is in a call: the caller's part of the
\* single-producer and single-consumer interfaces.
Alone(S) == \A t \in S : pc[t] = "idle"

\* A call is made with the next entry number.
Call(t) ==
  /\ issued < MaxOps
  /\ issued' = issued + 1
  /\ entry' = [entry EXCEPT ![t] = issued + 1]

-----------------------------------------------------------------------------
(* Multiple producers.                                                     *)

\* The first load of p_head.
EnqueueMp(t) ==
  /\ mp
  /\ Goto(t, "idle", "mp_load")
  /\ Call(t)
  /\ producer' = [producer EXCEPT ![t] = p_head]
  /\ UNCHANGED <<shared, buffer, consumer, data, wasFull, todo, enq, deq, dead, up, crashes>>

\* The load of c_head and the test for room.
ReserveMpLoad(t) ==
  /\ Goto(t, "mp_load", IF Sub(producer[t], c_head) < mask THEN "mp_cas" ELSE "mp_full")
  /\ consumer' = [consumer EXCEPT ![t] = c_head]
  /\ wasFull' = [wasFull EXCEPT ![t] = Sub(p_head, c_head) >= mask]
  /\ UNCHANGED <<shared, buffer, producer, entry, data, todo, issued, enq, deq, dead, up, crashes>>

\* The compare-and-swap of p_head succeeds: the slot is reserved.
ReserveMpCas(t) ==
  /\ Goto(t, "mp_cas", "mp_wait")
  /\ p_head = producer[t]
  /\ p_head' = Inc(producer[t])
  /\ todo' = [todo EXCEPT ![t] = Words]
  /\ enq' = Append(enq, entry[t])
  /\ UNCHANGED <<c_head, p_tail, buffer, locals, issued, deq, dead, up, crashes>>

\* It fails and leaves the current p_head in producer.
ReserveMpCasFail(t) ==
  /\ Goto(t, "mp_cas", "mp_load")
  /\ p_head # producer[t]
  /\ producer' = [producer EXCEPT ![t] = p_head]
  /\ UNCHANGED <<shared, buffer, consumer, entry, data, wasFull, todo, issued, enq, deq, dead, up, crashes>>

\* The slow path: p_head is loaded again; if it moved, try again with it.
ReserveMpRetry(t) ==
  /\ Goto(t, "mp_full", "mp_load")
  /\ p_head # producer[t]
  /\ producer' = [producer EXCEPT ![t] = p_head]
  /\ UNCHANGED <<shared, buffer, consumer, entry, data, wasFull, todo, issued, enq, deq, dead, up, crashes>>

\* Mutant: false is returned without the second load of p_head.
ReserveMpFull_Stale(t) ==
  /\ ReturnP(t, "mp_full")
  /\ UNCHANGED <<shared, buffer, todo, issued, enq, deq, dead, up, crashes>>

\* If it did not, the enqueue returns false.
ReserveMpFull(t) ==
  /\ ReturnP(t, "mp_full")
  /\ p_head = producer[t]
  /\ UNCHANGED <<shared, buffer, todo, issued, enq, deq, dead, up, crashes>>

\* memcpy (or, after a reserve, the caller) writes one word of the slot.
WriteWord(t, w) ==
  /\ up /\ t \in Producers /\ w \in todo[t]
  /\ buffer' = [buffer EXCEPT ![Slot(producer[t])][w] = entry[t]]
  /\ todo' = [todo EXCEPT ![t] = @ \ {w}]
  /\ UNCHANGED <<mp, mc, shared, pc, locals, issued, enq, deq, dead, up, crashes>>

\* Mutant: a producer publishes without waiting for the earlier tickets.
CommitMpWait_NoSpin(t) ==
  /\ Goto(t, "mp_wait", "mp_store")
  /\ UNCHANGED <<shared, buffer, locals, todo, issued, enq, deq, dead, up, crashes>>

\* The spin on p_tail sees this producer's ticket.
CommitMpWait(t) ==
  /\ Goto(t, "mp_wait", "mp_store")
  /\ p_tail = producer[t]
  /\ UNCHANGED <<shared, buffer, locals, todo, issued, enq, deq, dead, up, crashes>>

\* Mutant: the store fence is missing.
CommitMpStore_NoFence(t) ==
  /\ ReturnP(t, "mp_store")
  /\ p_tail' = Inc(producer[t])
  /\ UNCHANGED <<c_head, p_head, buffer, todo, issued, enq, deq, dead, up, crashes>>

\* Mutant: the store publishes the ticket itself, not its successor.
CommitMpStore_Lost(t) ==
  /\ ReturnP(t, "mp_store")
  /\ todo[t] = {}
  /\ p_tail' = producer[t]
  /\ UNCHANGED <<c_head, p_head, buffer, todo, issued, enq, deq, dead, up, crashes>>

\* The store fence and the store of p_tail.
CommitMpStore(t) ==
  /\ ReturnP(t, "mp_store")
  /\ todo[t] = {}
  /\ p_tail' = Inc(producer[t])
  /\ UNCHANGED <<c_head, p_head, buffer, todo, issued, enq, deq, dead, up, crashes>>

-----------------------------------------------------------------------------
(* A single producer: p_tail is its own, p_head is not used.               *)

\* The load of c_head and the test for room succeed.
EnqueueSp(t) ==
  /\ ~mp /\ Alone(Producers)
  /\ Goto(t, "idle", "sp_store")
  /\ Slot(Inc(p_tail)) # Slot(c_head)
  /\ Call(t)
  /\ producer' = [producer EXCEPT ![t] = p_tail]
  /\ consumer' = [consumer EXCEPT ![t] = c_head]
  /\ todo' = [todo EXCEPT ![t] = Words]
  /\ enq' = Append(enq, issued + 1)
  /\ UNCHANGED <<shared, buffer, data, wasFull, deq, dead, up, crashes>>

\* They find the ring full: false is returned.
EnqueueSpFull(t) ==
  /\ ~mp /\ Alone(Producers) /\ up /\ pc[t] = "idle"
  /\ Slot(Inc(p_tail)) = Slot(c_head)
  /\ issued < MaxOps /\ issued' = issued + 1
  /\ UNCHANGED <<mp, mc, shared, buffer, pc, locals, todo, enq, deq, dead, up, crashes>>

\* The store fence and the store of p_tail.
CommitSp(t) ==
  /\ ReturnP(t, "sp_store")
  /\ todo[t] = {}
  /\ p_tail' = Inc(p_tail)
  /\ UNCHANGED <<c_head, p_head, buffer, todo, issued, enq, deq, dead, up, crashes>>

-----------------------------------------------------------------------------
(* Multiple consumers.                                                     *)

\* The first load of c_head.
DequeueMc(t) ==
  /\ mc
  /\ Goto(t, "idle", "mc_tail")
  /\ consumer' = [consumer EXCEPT ![t] = c_head]
  /\ UNCHANGED <<shared, buffer, producer, entry, data, wasFull, todo, issued, enq, deq, dead, up, crashes>>

\* The load of p_tail finds an entry; the copy may start.
DequeueMcTail(t) ==
  /\ Goto(t, "mc_tail", "mc_cas")
  /\ consumer[t] # p_tail
  /\ producer' = [producer EXCEPT ![t] = p_tail]
  /\ todo' = [todo EXCEPT ![t] = Words]
  /\ UNCHANGED <<shared, buffer, consumer, entry, data, wasFull, issued, enq, deq, dead, up, crashes>>

\* Mutant: the test for empty compares slots, not counters.
DequeueMcEmpty_Masked(t) ==
  /\ ReturnC(t, "mc_tail")
  /\ Slot(consumer[t]) = Slot(p_tail)
  /\ UNCHANGED <<shared, buffer, todo, issued, enq, deq, dead, up, crashes>>

\* It finds none: false is returned.
DequeueMcEmpty(t) ==
  /\ ReturnC(t, "mc_tail")
  /\ consumer[t] = p_tail
  /\ UNCHANGED <<shared, buffer, todo, issued, enq, deq, dead, up, crashes>>

\* memcpy reads one word of the slot.
ReadWord(t, w) ==
  /\ up /\ t \in Consumers /\ w \in todo[t]
  /\ data' = [data EXCEPT ![t][w] = buffer[Slot(consumer[t])][w]]
  /\ todo' = [todo EXCEPT ![t] = @ \ {w}]
  /\ UNCHANGED <<mp, mc, shared, buffer, pc, producer, consumer, entry, wasFull, issued, enq, deq, dead, up, crashes>>

\* The load-store fence and a successful compare-and-swap of c_head.
DequeueMcCas(t) ==
  /\ ReturnC(t, "mc_cas")
  /\ todo[t] = {}
  /\ c_head = consumer[t]
  /\ c_head' = Inc(consumer[t])
  /\ deq' = Append(deq, data[t])
  /\ UNCHANGED <<p_tail, p_head, buffer, todo, issued, enq, dead, up, crashes>>

\* A failed one: dequeue goes round with the current c_head ...
DequeueMcCasFail(t) ==
  /\ Goto(t, "mc_cas", "mc_tail")
  /\ todo[t] = {}
  /\ c_head # consumer[t]
  /\ consumer' = [consumer EXCEPT ![t] = c_head]
  /\ UNCHANGED <<shared, buffer, producer, entry, data, wasFull, todo, issued, enq, deq, dead, up, crashes>>

\* ... trydequeue returns false.
TrydequeueMcFail(t) ==
  /\ ReturnC(t, "mc_cas")
  /\ todo[t] = {}
  /\ c_head # consumer[t]
  /\ UNCHANGED <<shared, buffer, todo, issued, enq, deq, dead, up, crashes>>

-----------------------------------------------------------------------------
(* A single consumer: c_head is its own.                                   *)

DequeueSc(t) ==
  /\ ~mc /\ Alone(Consumers)
  /\ Goto(t, "idle", "sc_store")
  /\ c_head # p_tail
  /\ consumer' = [consumer EXCEPT ![t] = c_head]
  /\ producer' = [producer EXCEPT ![t] = p_tail]
  /\ todo' = [todo EXCEPT ![t] = Words]
  /\ UNCHANGED <<shared, buffer, entry, data, wasFull, issued, enq, deq, dead, up, crashes>>

DequeueScEmpty(t) ==
  /\ ~mc /\ Alone(Consumers) /\ up /\ pc[t] = "idle"
  /\ c_head = p_tail
  /\ UNCHANGED vars

\* The load-store fence and the store of c_head.
DequeueScStore(t) ==
  /\ ReturnC(t, "sc_store")
  /\ todo[t] = {}
  /\ c_head' = Inc(consumer[t])
  /\ deq' = Append(deq, data[t])
  /\ UNCHANGED <<p_tail, p_head, buffer, todo, issued, enq, dead, up, crashes>>

-----------------------------------------------------------------------------
(* Persistent rings: the process dies, the ring survives in its memory and *)
(* ck_ring_repair is called before it is used again.  It relies on p_head, *)
(* which only the multi-producer side maintains.                           *)

Crash ==
  /\ mp /\ up /\ crashes < MaxCrashes
  /\ up' = FALSE /\ crashes' = crashes + 1
  /\ pc' = [t \in Threads |-> "idle"]
  /\ producer' = [t \in Threads |-> Base]
  /\ consumer' = [t \in Threads |-> Base]
  /\ entry' = [t \in Producers |-> Uninit]
  /\ todo' = [t \in Threads |-> {}]
  /\ data' = [t \in Consumers |-> [w \in Words |-> Uninit]]
  /\ wasFull' = [t \in Producers |-> FALSE]
  /\ dead' = dead \cup Off(p_tail) + 1 .. Off(p_head)
  /\ UNCHANGED <<mp, mc, shared, buffer, issued, enq, deq>>

\* Mutant: the repair rolls back nothing.
Repair_Nothing ==
  /\ ~up
  /\ up' = TRUE
  /\ UNCHANGED <<mp, mc, shared, buffer, pc, locals, todo, issued, enq, deq, dead, crashes>>

Repair ==
  /\ ~up
  /\ up' = TRUE
  /\ p_tail' = p_head
  /\ UNCHANGED <<mp, mc, c_head, p_head, buffer, pc, locals, todo, issued, enq, deq, dead, crashes>>

\* ck_ring_valid; the test that size is a power of 2 is on a constant.
Valid == Sub(p_head, c_head) < Size

-----------------------------------------------------------------------------

Produce(t) ==
  \/ EnqueueMp(t) \/ ReserveMpLoad(t) \/ ReserveMpCas(t) \/ ReserveMpCasFail(t)
  \/ ReserveMpRetry(t) \/ ReserveMpFull(t) \/ CommitMpWait(t) \/ CommitMpStore(t)
  \/ EnqueueSp(t) \/ EnqueueSpFull(t) \/ CommitSp(t)
  \/ \E w \in Words : WriteWord(t, w)

Consume(t) ==
  \/ DequeueMc(t) \/ DequeueMcTail(t) \/ DequeueMcEmpty(t) \/ DequeueMcCas(t)
  \/ DequeueMcCasFail(t) \/ TrydequeueMcFail(t)
  \/ DequeueSc(t) \/ DequeueScEmpty(t) \/ DequeueScStore(t)
  \/ \E w \in Words : ReadWord(t, w)

Next ==
  \/ \E t \in Producers : Produce(t)
  \/ \E t \in Consumers : Consume(t)
  \/ Crash
  \/ Repair

Spec == Init /\ [][Next]_vars

\* A thread inside a call keeps running; nobody is obliged to make a call.
InCall(t) == pc[t] # "idle" /\ (Produce(t) \/ Consume(t))
FairSpec == Spec /\ \A t \in Threads : WF_vars(InCall(t))

-----------------------------------------------------------------------------
(* Properties.                                                             *)

Reserving == {t \in Producers : pc[t] \in {"mp_wait", "mp_store", "sp_store"}}

\* The i-th successful dequeue returns the entry of the i-th ticket, all of
\* its words written by the same enqueue: nothing is lost, duplicated,
\* reordered or torn (a slot whose producer crashed holds what it holds).
Fifo ==
  /\ Len(deq) = Off(c_head)
  /\ \A i \in DOMAIN deq : i \notin dead => deq[i] = [w \in Words |-> enq[i]]

\* A dequeue returns false only if the ring was empty when p_tail was loaded,
\* although c_head was loaded before it.
EmptyIsReal ==
  [][\A t \in Consumers :
       pc[t] = "mc_tail" /\ pc'[t] = "idle" /\ up' => c_head = p_tail]_vars

\* An enqueue returns false only if the ring was full at its last load of
\* c_head, although its snapshot of p_head was taken before that.
FullIsReal ==
  [][\A t \in Producers :
       pc[t] = "mp_full" /\ pc'[t] = "idle" /\ up' => wasFull[t]]_vars

\* While no producer is in a call every reserved slot is published; a crash
\* between the two leaves it to ck_ring_repair to restore this, and without it
\* the next producer would wait for a ticket nobody holds.  ck_ring_valid then
\* finds a ring of that interface consistent, repaired or not.
NoOrphanTicket ==
  mp /\ up /\ Reserving = {} => p_tail = p_head /\ Valid

\* Every call returns: no producer waits forever for an earlier ticket and no
\* retry loop runs forever once the other threads' operations end.
CallsReturn == \A t \in Threads : pc[t] # "idle" ~> pc[t] = "idle"

\* "If this functions returns false, the ring is in an inconsistent state":
\* a ring nobody operates on, holding what was put into it, is valid.
QuiescentIsValid == (\A t \in Threads : pc[t] = "idle") => Valid

\* The ring implements the bounded queue: its items are the contents of the
\* slots between c_head and p_tail, which no step other than a publication
\* or a successful dequeue may change.
Queue == INSTANCE BoundedFifo WITH
  Entry <- {[w \in Words |-> e] : e \in 1 .. MaxOps},
  Capacity <- mask,
  items <- [i \in 1 .. Sub(p_tail, c_head) |->
              buffer[Slot(c_head + i - 1)]],
  reserved <- IF mp THEN Sub(p_head, p_tail) ELSE Cardinality(Reserving),
  taken <- deq,
  alive <- up
ImplementsFifo == Queue!Spec

-----------------------------------------------------------------------------
(* Small instances for TLC. *)

AllSides == BOOLEAN \X BOOLEAN
Spsc == {<<FALSE, FALSE>>}
Symmetry ==
  Permutations(Producers) \cup Permutations(Consumers) \cup Permutations(Words)
=============================================================================
