------------------------------ MODULE FifoMpmc ------------------------------
(***************************************************************************)
(* ck_fifo_mpmc of include/ck_fifo.h: a queue of entries linked from a     *)
(* stub, with a generation beside every pointer that changes with it.      *)
(* Pointer and generation are read one after the other, and written by one *)
(* double-word compare-and-swap.  An entry that dequeue returns may be     *)
(* enqueued again at once.                                                 *)
(*                                                                         *)
(* Histories: abs are the entries from the head on, enq and deq the values *)
(* in the order in which they entered and left, sawEmpty the threads that  *)
(* dequeue and have been running while the queue was empty.                *)
(***************************************************************************)
EXTENDS Threaded

CONSTANTS
  Stub, Entries,   \* the first stub, and the other entries
  MaxEnqueue, MaxDequeue, MaxCalls   \* how many calls are made

Ptr(p, g) == [p |-> p, g |-> g]

Scratch == [try |-> FALSE, e |-> NULL, v |-> 0, head |-> Ptr(NULL, 0),
            tail |-> Ptr(NULL, 0), next |-> Ptr(NULL, 0)]

\* ck_fifo_mpmc_init; one thread has all the other entries to begin with.
Init ==
  /\ \E first \in Threads :
       m = [head |-> Ptr(Stub, 0), tail |-> Ptr(Stub, 0),
            next |-> [e \in Entries \cup {Stub} |-> Ptr(NULL, 0)],
            value |-> [e \in Entries \cup {Stub} |-> 0],
            own |-> [t \in Threads |-> IF t = first THEN Entries ELSE {}],
            enqs |-> 0, deqs |-> 0, abs |-> <<Stub>>, enq |-> <<>>, deq |-> <<>>, sawEmpty |-> {}]
  /\ pc = [t \in Threads |-> "idle"]
  /\ r = [t \in Threads |-> Scratch]

\* A try returns where the other operations start again.
Return(t) == Go(t, "idle") /\ Put(t, Scratch)
Again(t, start) == IF r[t].try THEN Return(t) ELSE Go(t, start) /\ UNCHANGED r
Swap(cell, old, new) == IF cell = old THEN new ELSE cell

-----------------------------------------------------------------------------
(* ck_fifo_mpmc_enqueue and ck_fifo_mpmc_tryenqueue, which differ in what    *)
(* they do when another thread is in the way.                                *)

EnqueueCall(t) ==
  /\ Step(t, "idle", "prepare")
  /\ m.enqs < MaxEnqueue /\ m.enqs + m.deqs < MaxCalls
  /\ \E e \in m.own[t], try \in BOOLEAN :
       /\ Put(t, [e |-> e, try |-> try])
       /\ m' = [m EXCEPT !.own[t] = @ \ {e}, !.enqs = @ + 1, !.value[e] = m.enqs + 1,
                         !.next[e].p = NULL]

Prepare(t) ==
  /\ Step(t, "prepare", "tail_gen")
  /\ m' = [m EXCEPT !.next[r[t].e].g = m.tail.g]
  /\ UNCHANGED r

TailGeneration(t) == Step(t, "tail_gen", "tail_ptr") /\ Put(t, [tail |-> Ptr(NULL, m.tail.g)]) /\ Local
TailPointer(t) ==
  Step(t, "tail_ptr", "next_gen") /\ Put(t, [tail |-> Ptr(m.tail.p, r[t].tail.g)]) /\ Local
NextGeneration(t) ==
  Step(t, "next_gen", "next_ptr") /\ Put(t, [next |-> Ptr(NULL, m.next[r[t].tail.p].g)]) /\ Local
NextPointer(t) ==
  /\ Step(t, "next_ptr", "same_tail")
  /\ Put(t, [next |-> Ptr(m.next[r[t].tail.p].p, r[t].next.g)])
  /\ Local

\* The caller of a failed tryenqueue keeps the entry.
SameTail(t) ==
  /\ At(t, "same_tail")
  /\ IF m.tail.g = r[t].tail.g THEN Go(t, "link") /\ UNCHANGED <<m, r>>
     ELSE /\ Again(t, "tail_gen")
          /\ m' = IF r[t].try THEN [m EXCEPT !.own[t] = @ \cup {r[t].e}] ELSE m

\* Forward a tail that has a successor, or link the entry after it.
Link(t) ==
  LET l == r[t]
      linked == l.next.p = NULL /\ m.next[l.tail.p] = l.next
      kept == IF l.try /\ ~linked THEN {l.e} ELSE {}
  IN  /\ At(t, "link")
      /\ m' = IF l.next.p # NULL
              THEN [m EXCEPT !.tail = Swap(@, l.tail, Ptr(l.next.p, l.tail.g + 1)),
                             !.own[t] = @ \cup kept]
              ELSE IF linked
              THEN [m EXCEPT !.next[l.tail.p] = Ptr(l.e, l.next.g + 1), !.abs = Append(@, l.e),
                             !.enq = Append(@, m.value[l.e])]
              ELSE [m EXCEPT !.own[t] = @ \cup kept]
      /\ IF linked THEN Go(t, "forward") /\ UNCHANGED r ELSE Again(t, "tail_gen")

Forward(t) ==
  /\ At(t, "forward") /\ Return(t)
  /\ m' = [m EXCEPT !.tail = Swap(@, r[t].tail, Ptr(r[t].e, r[t].tail.g + 1))]

-----------------------------------------------------------------------------
(* ck_fifo_mpmc_dequeue and ck_fifo_mpmc_trydequeue.                         *)

DequeueCall(t) ==
  /\ Step(t, "idle", "head_gen")
  /\ m.deqs < MaxDequeue /\ m.enqs + m.deqs < MaxCalls
  /\ \E try \in BOOLEAN : Put(t, [try |-> try])
  /\ m' = [m EXCEPT !.deqs = @ + 1,
                    !.sawEmpty = IF m.deq = m.enq THEN @ \cup {t} ELSE @ \ {t}]

HeadGeneration(t) == Step(t, "head_gen", "head_ptr") /\ Put(t, [head |-> Ptr(NULL, m.head.g)]) /\ Local
HeadPointer(t) ==
  Step(t, "head_ptr", "dtail_gen") /\ Put(t, [head |-> Ptr(m.head.p, r[t].head.g)]) /\ Local
DequeueTailGeneration(t) ==
  Step(t, "dtail_gen", "dtail_ptr") /\ Put(t, [tail |-> Ptr(NULL, m.tail.g)]) /\ Local
DequeueTailPointer(t) ==
  Step(t, "dtail_ptr", "dnext") /\ Put(t, [tail |-> Ptr(m.tail.p, r[t].tail.g)]) /\ Local
\* next.generation is loaded too, and never used.
DequeueNext(t) ==
  Step(t, "dnext", "compare") /\ Put(t, [next |-> Ptr(m.next[r[t].head.p].p, 0)]) /\ Local

\* One entry only: the queue is empty, or the tail has to be forwarded.
\* trydequeue does not look at the head again.
OnlyStub(t) ==
  LET l == r[t]
  IN  /\ At(t, "compare")
      /\ l.head.p = l.tail.p
      /\ IF l.next.p = NULL THEN Local /\ Again(t, "same_head")
         ELSE /\ m' = [m EXCEPT !.tail = Swap(@, l.tail, Ptr(l.next.p, l.tail.g + 1))]
              /\ Again(t, "head_gen")

\* Mutant: the queue is taken for empty without another look at the head.
SameHeadUnchecked(t) == Step(t, "same_head", "empty") /\ Local /\ UNCHANGED r
SameHead(t) ==
  /\ At(t, "same_head")
  /\ Go(t, IF m.head.g = r[t].head.g THEN "empty" ELSE "head_gen")
  /\ Local /\ UNCHANGED r

ReturnEmpty(t) == At(t, "empty") /\ Return(t) /\ Local

\* A snapshot of a head that was re-used has no successor.
ReadValue(t) ==
  LET l == r[t]
  IN  /\ At(t, "compare")
      /\ l.head.p # l.tail.p
      /\ IF l.next.p = NULL THEN Again(t, "head_gen")
         ELSE Go(t, "commit") /\ Put(t, [v |-> m.value[l.next.p]])
      /\ Local

\* Mutant: only the pointer of the head is compared.
CommitPointer(t) ==
  LET l == r[t]
      gone == Append(m.deq, l.v)
  IN  /\ At(t, "commit")
      /\ IF m.head.p = l.head.p
         THEN /\ m' = [m EXCEPT !.head = Ptr(l.next.p, l.head.g + 1), !.own[t] = @ \cup {l.head.p},
                                !.abs = Tail(@), !.deq = gone, !.sawEmpty = IF gone = m.enq THEN Threads ELSE @]
              /\ Return(t)
         ELSE Local /\ Again(t, "head_gen")

Commit(t) ==
  LET l == r[t]
      gone == Append(m.deq, l.v)
  IN  /\ At(t, "commit")
      /\ IF m.head = l.head
         THEN /\ m' = [m EXCEPT !.head = Ptr(l.next.p, l.head.g + 1), !.own[t] = @ \cup {l.head.p},
                                !.abs = Tail(@), !.deq = gone, !.sawEmpty = IF gone = m.enq THEN Threads ELSE @]
              /\ Return(t)
         ELSE Local /\ Again(t, "head_gen")

Enqueue(t) ==
  \/ EnqueueCall(t) \/ Prepare(t) \/ TailGeneration(t) \/ TailPointer(t) \/ NextGeneration(t)
  \/ NextPointer(t) \/ SameTail(t) \/ Link(t) \/ Forward(t)
Dequeue(t) ==
  \/ DequeueCall(t) \/ HeadGeneration(t) \/ HeadPointer(t) \/ DequeueTailGeneration(t)
  \/ DequeueTailPointer(t) \/ DequeueNext(t) \/ OnlyStub(t)
  \/ SameHead(t) \/ ReturnEmpty(t) \/ ReadValue(t) \/ Commit(t)

Next == \E t \in Threads : Enqueue(t) \/ Dequeue(t)

-----------------------------------------------------------------------------
\* Values leave in the order in which they entered, each once.
FifoOrder == Len(m.deq) <= Len(m.enq) /\ m.deq = SubSeq(m.enq, 1, Len(m.deq))

\* A dequeue that finds the queue empty ran while it was empty.
EmptyIsEmpty == \A t \in Threads : At(t, "empty") => t \in m.sawEmpty
=============================================================================
