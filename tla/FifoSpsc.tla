------------------------------ MODULE FifoSpsc ------------------------------
(***************************************************************************)
(* ck_fifo_spsc of include/ck_fifo.h: a linked queue with one producer and *)
(* one consumer at a time, each side behind a spinlock of its own, whose   *)
(* producer takes the entries that the consumer has left behind.  abs, the *)
(* entries from garbage to tail, enq and deq are histories.                *)
(***************************************************************************)
EXTENDS Threaded

CONSTANTS Stub, Entries, MaxEnqueue, MaxDequeue

\* ck_fifo_spsc_init; new holds the entries never enqueued.
Init ==
  /\ m = [head |-> Stub, tail |-> Stub, snapshot |-> Stub, garbage |-> Stub,
          next |-> [e \in Entries \cup {Stub} |-> NULL], value |-> [e \in Entries \cup {Stub} |-> 0],
          m_head |-> NULL, m_tail |-> NULL, new |-> Entries,
          deqs |-> 0, abs |-> <<Stub>>, enq |-> <<>>, deq |-> <<>>, sawEmpty |-> {}]
  /\ pc = [t \in Threads |-> "idle"]
  /\ r = [t \in Threads |-> [e |-> NULL, v |-> 0]]

-----------------------------------------------------------------------------
(* The producer: enqueue_lock, recycle or a new entry, enqueue, unlock.      *)

\* Nothing happens when a trylock fails.
EnqueueLock(t) ==
  /\ Step(t, "idle", "recycle")
  /\ Len(m.enq) < MaxEnqueue /\ m.m_tail = NULL
  /\ m' = [m EXCEPT !.m_tail = t]
  /\ UNCHANGED r

\* The head is looked at again only when the last look is used up.
Recycle(t) ==
  LET snapshot == IF m.snapshot = m.garbage THEN m.head ELSE m.snapshot
      none == snapshot = m.garbage
  IN  /\ Step(t, "recycle", "link")
      /\ IF none
         THEN \E e \in m.new : /\ m' = [m EXCEPT !.new = @ \ {e}, !.snapshot = snapshot]
                               /\ Put(t, [e |-> e])
         ELSE /\ m' = [m EXCEPT !.snapshot = snapshot, !.garbage = m.next[@], !.abs = Tail(@)]
              /\ Put(t, [e |-> m.garbage])

\* There is no entry to enqueue: the producer gives up.
NoEntry(t) ==
  /\ Step(t, "recycle", "idle")
  /\ m.snapshot = m.garbage /\ m.head = m.garbage /\ m.new = {}
  /\ m' = [m EXCEPT !.m_tail = NULL]
  /\ UNCHANGED r

\* The entry is written, and then published by the store to tail->next.
Write(t) ==
  /\ Step(t, "link", "publish")
  /\ m' = [m EXCEPT !.value[r[t].e] = Len(m.enq) + 1, !.next[r[t].e] = NULL]
  /\ UNCHANGED r

Publish(t) ==
  /\ Step(t, "publish", "unlock_tail")
  /\ m' = [m EXCEPT !.next[m.tail] = r[t].e, !.tail = r[t].e, !.abs = Append(@, r[t].e),
                    !.enq = Append(@, Len(@) + 1)]
  /\ UNCHANGED r

EnqueueUnlock(t) ==
  Step(t, "unlock_tail", "idle") /\ m' = [m EXCEPT !.m_tail = NULL] /\ Put(t, [e |-> NULL])

-----------------------------------------------------------------------------
(* The consumer: dequeue_lock, dequeue, unlock; and isempty, by any thread.  *)

DequeueLock(t) ==
  /\ Step(t, "idle", "first")
  /\ m.deqs < MaxDequeue /\ m.m_head = NULL
  /\ m' = [m EXCEPT !.m_head = t, !.deqs = @ + 1,
                    !.sawEmpty = IF m.enq = m.deq THEN @ \cup {t} ELSE @ \ {t}]
  /\ UNCHANGED r

First(t) ==
  LET e == m.next[m.head]
  IN  /\ At(t, "first") /\ Put(t, [e |-> e]) /\ Local
      /\ Go(t, IF e = NULL THEN "empty" ELSE "value")

Value(t) == Step(t, "value", "advance") /\ Put(t, [v |-> m.value[r[t].e]]) /\ Local

Advance(t) ==
  /\ Step(t, "advance", "unlock_head")
  /\ m' = [m EXCEPT !.head = r[t].e, !.deq = Append(@, r[t].v)]
  /\ UNCHANGED r

ReturnEmpty(t) == Step(t, "empty", "unlock_head") /\ Local /\ UNCHANGED r
DequeueUnlock(t) ==
  /\ Step(t, "unlock_head", "idle")
  /\ m' = [m EXCEPT !.m_head = NULL]
  /\ Put(t, [e |-> NULL, v |-> 0])

Produce(t) ==
  \/ EnqueueLock(t) \/ Recycle(t) \/ NoEntry(t) \/ Write(t) \/ Publish(t) \/ EnqueueUnlock(t)
Consume(t) ==
  \/ DequeueLock(t) \/ First(t) \/ Value(t) \/ Advance(t) \/ ReturnEmpty(t) \/ DequeueUnlock(t)

Next == \E t \in Threads : Produce(t) \/ Consume(t)

-----------------------------------------------------------------------------
\* Values leave in the order in which they entered, each once: no entry is
\* recycled while it is in the queue or the consumer reads it.
FifoOrder == Len(m.deq) <= Len(m.enq) /\ m.deq = SubSeq(m.enq, 1, Len(m.deq))

\* A dequeue that finds the queue empty ran while it was empty.
EmptyIsEmpty == \A t \in Threads : At(t, "empty") => t \in m.sawEmpty
=============================================================================
