------------------------------- MODULE HpFifo -------------------------------
(***************************************************************************)
(* include/ck_hp_fifo.h: a queue linked from a stub, whose nodes are       *)
(* protected by two hazard slots and freed through ck_hp_free when they    *)
(* have left.  A destroyed node may be enqueued again.                     *)
(*                                                                         *)
(* Histories: abs are the nodes from the head on, enq the values in the    *)
(* order of their links, left is the number of nodes that have left.       *)
(***************************************************************************)
EXTENDS Hp

CONSTANTS
  Stub, Nodes,            \* the first stub, and the other nodes
  MaxJoins, MaxEnqueue, MaxDequeue, \* how many calls are made
  Trys, Reuses            \* whether the try operations are called, and
                          \* whether destroyed nodes are enqueued again

Scratch == [try |-> FALSE, e |-> NULL, head |-> NULL, tail |-> NULL, next |-> NULL,
            nth |-> 0, v |-> 0]

\* ck_hp_fifo_init.  The threads hold registered records or none.
Init ==
  /\ \E n \in Thresholds, try \in Trys, reuse \in Reuses :
       /\ try /\ reuse => Trys = {TRUE}
       /\ m = Both(HpMem(2, n, MaxJoins),
                   [try |-> try, reuse |-> reuse, head |-> Stub, tail |-> Stub,
                    next |-> [x \in Nodes \cup {Stub} |-> NULL],
                    value |-> [x \in Nodes \cup {Stub} |-> 0],
                    new |-> Nodes, enqs |-> 0, deqs |-> 0,
                    abs |-> <<Stub>>, enq |-> <<>>, left |-> 0])
  /\ pc = [t \in Threads |-> "out"]
  /\ r = [t \in Threads |-> Both(HpLocals, Scratch)]

Tries == IF m.try THEN BOOLEAN ELSE {FALSE}
Spare == m.new \cup (IF m.reuse THEN m.dead ELSE {})
\* A try returns where the other operations start again.
Return(t) == Go(t, "idle") /\ Put(t, Scratch)
Again(t, start) == IF r[t].try THEN Return(t) ELSE Go(t, start) /\ UNCHANGED r
\* What a failed try leaves with its caller is spare again.
GiveBack(t) == IF r[t].try THEN [m EXCEPT !.new = @ \cup {r[t].e}] ELSE m

-----------------------------------------------------------------------------
(* ck_hp_fifo_enqueue_mpmc and ck_hp_fifo_tryenqueue_mpmc.                   *)

EnqueueCall(t) ==
  /\ Step(t, "idle", "e_tail")
  /\ m.enqs < MaxEnqueue
  /\ \E x \in Spare, try \in Tries :
       /\ Put(t, [e |-> x, try |-> try])
       /\ m' = [m EXCEPT !.new = @ \ {x}, !.dead = @ \ {x}, !.enqs = @ + 1,
                         !.value[x] = m.enqs + 1, !.next[x] = NULL]

EnqueueTail(t) == Step(t, "e_tail", "e_set") /\ Put(t, [tail |-> m.tail]) /\ Local
EnqueueSet(t) == Step(t, "e_set", "e_same") /\ Publish(t, 0, r[t].tail) /\ UNCHANGED r

EnqueueSame(t) ==
  /\ At(t, "e_same")
  /\ IF m.tail = r[t].tail THEN Go(t, "e_next") /\ UNCHANGED <<m, r>>
     ELSE Again(t, "e_tail") /\ m' = GiveBack(t)

\* tryenqueue does not look at the tail a third time.
EnqueueNext(t) ==
  /\ At(t, "e_next")
  /\ Put(t, [next |-> m.next[r[t].tail]])
  /\ Go(t, IF r[t].try THEN "e_link" ELSE "e_again")
  /\ Local
EnqueueAgain(t) ==
  /\ At(t, "e_again")
  /\ Go(t, IF m.tail = r[t].tail THEN "e_link" ELSE "e_tail")
  /\ Local /\ UNCHANGED r

\* Forward the tail, or link the node after it.
EnqueueLink(t) ==
  LET l == r[t]
  IN  /\ At(t, "e_link")
      /\ IF l.next # NULL
         THEN /\ m' = [GiveBack(t) EXCEPT !.tail = IF @ = l.tail THEN l.next ELSE @]
              /\ Again(t, "e_tail")
         ELSE IF m.next[l.tail] = NULL
         THEN /\ m' = [m EXCEPT !.next[l.tail] = l.e, !.abs = Append(@, l.e),
                               !.enq = Append(@, m.value[l.e])]
              /\ Go(t, "e_forward") /\ UNCHANGED r
         ELSE m' = GiveBack(t) /\ Again(t, "e_tail")

EnqueueForward(t) ==
  /\ At(t, "e_forward") /\ Return(t)
  /\ m' = [m EXCEPT !.tail = IF @ = r[t].tail THEN r[t].e ELSE @]

-----------------------------------------------------------------------------
(* ck_hp_fifo_dequeue_mpmc and ck_hp_fifo_trydequeue_mpmc.  The latter reads *)
(* the tail before it protects the head.                                     *)

DequeueCall(t) ==
  /\ Step(t, "idle", "d_head")
  /\ m.deqs < MaxDequeue
  /\ m' = [m EXCEPT !.deqs = @ + 1]
  /\ \E try \in Tries : Put(t, [try |-> try])

DequeueHead(t) ==
  /\ At(t, "d_head")
  /\ Put(t, [head |-> m.head])
  /\ Go(t, IF r[t].try THEN "d_tail" ELSE "d_set")
  /\ Local
DequeueSet(t) == Step(t, "d_set", "d_same") /\ Publish(t, 0, r[t].head) /\ UNCHANGED r

DequeueSame(t) ==
  /\ At(t, "d_same")
  /\ IF m.head # r[t].head THEN Again(t, "d_head")
     ELSE Go(t, IF r[t].try THEN "d_next" ELSE "d_tail") /\ UNCHANGED r
  /\ Local

DequeueTail(t) ==
  /\ At(t, "d_tail")
  /\ Put(t, [tail |-> m.tail])
  /\ Go(t, IF r[t].try THEN "d_set" ELSE "d_next")
  /\ Local
DequeueNext(t) == Step(t, "d_next", "d_set1") /\ Put(t, [next |-> m.next[r[t].head]]) /\ Local
DequeueSetNext(t) == Step(t, "d_set1", "d_again") /\ Publish(t, 1, r[t].next) /\ UNCHANGED r

\* Empty, which dequeue decides by next alone: it clears its slots.
DequeueEmpty(t) ==
  LET l == r[t]
  IN  /\ At(t, "d_again") /\ Return(t)
      /\ m.head = l.head /\ l.next = NULL /\ (l.try => l.head = l.tail)
      /\ IF l.try THEN Local ELSE m' = [m EXCEPT !.ptr[Mine(t)] = Empty(m.degree)]

DequeueAgain(t) ==
  LET l == r[t]
  IN  /\ At(t, "d_again")
      /\ IF m.head # l.head THEN Again(t, "d_head")
         ELSE /\ l.next # NULL \/ (l.try /\ l.head # l.tail)
              /\ Go(t, IF l.head = l.tail THEN "d_forward" ELSE "d_commit") /\ UNCHANGED r
      /\ Local

DequeueForward(t) ==
  /\ At(t, "d_forward") /\ Again(t, "d_head")
  /\ m' = [m EXCEPT !.tail = IF @ = r[t].tail THEN r[t].next ELSE @]

DequeueCommit(t) ==
  LET l == r[t]
  IN  /\ At(t, "d_commit")
      /\ IF m.head = l.head
         THEN /\ m' = [m EXCEPT !.head = l.next, !.abs = Tail(@), !.left = @ + 1]
              /\ Put(t, [nth |-> m.left + 1])
              /\ Go(t, "d_value")
         ELSE Again(t, "d_head") /\ Local

DequeueValue(t) == Step(t, "d_value", "d_free") /\ Put(t, [v |-> m.value[r[t].next]]) /\ Local

\* The caller frees the head that dequeue returns.
DequeueFree(t) == At(t, "d_free") /\ AfterFree(t) /\ Retire(t, r[t].head) /\ Put(t, Scratch)

Enqueue(t) ==
  \/ EnqueueCall(t) \/ EnqueueTail(t) \/ EnqueueSet(t) \/ EnqueueSame(t) \/ EnqueueNext(t)
  \/ EnqueueAgain(t) \/ EnqueueLink(t) \/ EnqueueForward(t)
Dequeue(t) ==
  \/ DequeueCall(t) \/ DequeueHead(t) \/ DequeueSet(t) \/ DequeueSame(t) \/ DequeueTail(t)
  \/ DequeueNext(t) \/ DequeueSetNext(t) \/ DequeueEmpty(t) \/ DequeueAgain(t)
  \/ DequeueForward(t) \/ DequeueCommit(t) \/ DequeueValue(t) \/ DequeueFree(t)

Next == SetThreshold \/ \E t \in Threads : HpStep(t) \/ Enqueue(t) \/ Dequeue(t)

-----------------------------------------------------------------------------
\* The node that t is about to follow.
Followed(t) ==
  CASE pc[t] \in {"e_next", "e_link"} -> {r[t].tail}
    [] pc[t] = "d_next" -> {r[t].head}
    [] pc[t] = "d_value" -> {r[t].next}
    [] OTHER -> {}

\* No thread follows a pointer to a destroyed node, or a null pointer.
NoUseAfterFree == \A t \in Threads : Followed(t) \cap (m.dead \cup {NULL}) = {}

\* The nth value to leave is the nth to have entered.
FifoOrder == \A t \in Threads : At(t, "d_free") => r[t].v = m.enq[r[t].nth]
=============================================================================
