---------------------------- MODULE SpinlockHclh ----------------------------
(***************************************************************************)
(* The hierarchical queue lock of include/spinlock/hclh.h.  The threads of *)
(* a cluster queue up locally; the first of them splices the local queue,  *)
(* as long as it is at that moment, into the global one, where it waits    *)
(* for the others of its batch too.  A thread leaves with the node of its  *)
(* local predecessor.                                                      *)
(***************************************************************************)
EXTENDS Integers, FiniteSetsExt

CONSTANTS Threads, Clusters, globalNode, NULL

\* The initial nodes of the local queues are named after their clusters, a
\* thread's first node after the thread.
Node == Threads \cup Clusters \cup {globalNode}

VARIABLES
  home,                      \* thread -> the cluster whose queue it passes
  glob, local,               \* tails of the queues
  wait, splice, id, prevOf,  \* node -> its fields
  pc,
  thread,                    \* thread -> the node it will use or is using
  previous, tail,            \* thread -> the locals previous and local_tail
  place,                     \* history: thread -> its place in the local queue,
                             \* among those not spliced yet; 0 outside of it
  turn                       \* history: and in the global queue

fields == <<wait, splice, id, prevOf>>
vars == <<home, glob, local, fields, pc, thread, previous, tail, place, turn>>

Init ==
  /\ home \in [Threads -> Clusters]
  /\ glob = globalNode /\ local = [c \in Clusters |-> c]
  /\ wait = [n \in Node |-> FALSE]
  /\ splice = [n \in Node |-> FALSE]
  /\ id = [n \in Node |-> IF n \in Clusters THEN n ELSE NULL]
  /\ prevOf = [n \in Node |-> NULL]
  /\ pc = [t \in Threads |-> "idle"]
  /\ thread = [t \in Threads |-> t]
  /\ previous = [t \in Threads |-> NULL]
  /\ tail = [t \in Threads |-> NULL]
  /\ place = [t \in Threads |-> 0]
  /\ turn = [t \in Threads |-> 0]

\* How long the queues are, and how much of the local one t will splice.
LastPlace(c) == Max({0} \cup {place[s] : s \in {u \in Threads : home[u] = c}})
LastTurn == Max({0} \cup {turn[s] : s \in Threads})
Batch(t) == Max({0} \cup {place[s] : s \in {u \in Threads : thread[u] = tail[t]}})

Goto(t, from, to) == pc[t] = from /\ pc' = [pc EXCEPT ![t] = to]

\* The node is made ready before it is published.
Prepare(t) ==
  LET n == thread[t]  last == local[home[t]] IN
  /\ Goto(t, "idle", "swap")
  /\ wait' = [wait EXCEPT ![n] = TRUE]
  /\ splice' = [splice EXCEPT ![n] = FALSE]
  /\ id' = [id EXCEPT ![n] = id[last]]
  /\ prevOf' = [prevOf EXCEPT ![n] = last]
  /\ UNCHANGED <<home, glob, local, thread, previous, tail, place, turn>>

Swap(t) ==
  /\ Goto(t, "swap", "store")
  /\ previous' = [previous EXCEPT ![t] = local[home[t]]]
  /\ local' = [local EXCEPT ![home[t]] = thread[t]]
  /\ place' = [place EXCEPT ![t] = LastPlace(home[t]) + 1]
  /\ UNCHANGED <<home, glob, fields, thread, tail, turn>>

StorePrevious(t) ==
  /\ Goto(t, "store", "check")
  /\ prevOf' = [prevOf EXCEPT ![thread[t]] = previous[t]]
  /\ UNCHANGED <<home, glob, local, wait, splice, id, thread, previous, tail, place, turn>>

\* Is the predecessor the node the local queue was initialised with?
Check(t) ==
  /\ Goto(t, "check", IF prevOf[previous[t]] = NULL THEN "tail" ELSE "spin")
  /\ UNCHANGED <<home, glob, local, fields, thread, previous, tail, place, turn>>

SameBatch(t) == id[previous[t]] = id[thread[t]] /\ ~splice[previous[t]]

\* The predecessor is done with the lock, or in an earlier batch.
Spin(t) ==
  /\ Goto(t, "spin", "test")
  /\ ~(wait[previous[t]] /\ SameBatch(t))
  /\ UNCHANGED <<home, glob, local, fields, thread, previous, tail, place, turn>>

\* Mutant: a thread whose predecessor closed a batch does not splice.
Test_Always(t) ==
  /\ Goto(t, "test", "cs")
  /\ UNCHANGED <<home, glob, local, fields, thread, previous, tail, place, turn>>

\* Done, if it was in the same batch.
Test(t) ==
  /\ Goto(t, "test", IF SameBatch(t) THEN "cs" ELSE "tail")
  /\ UNCHANGED <<home, glob, local, fields, thread, previous, tail, place, turn>>

\* Splice the local queue, up to its current tail, into the global one.
LoadTail(t) ==
  /\ Goto(t, "tail", "fas")
  /\ tail' = [tail EXCEPT ![t] = local[home[t]]]
  /\ UNCHANGED <<home, glob, local, fields, thread, previous, place, turn>>

SwapGlobal(t) ==
  /\ Goto(t, "fas", "mark")
  /\ previous' = [previous EXCEPT ![t] = glob]
  /\ glob' = tail[t]
  /\ turn' = [s \in Threads |->
       IF home[s] = home[t] /\ place[s] \in 1 .. Batch(t) THEN LastTurn + place[s] ELSE turn[s]]
  /\ place' = [s \in Threads |->
       IF home[s] # home[t] THEN place[s]
       ELSE IF place[s] > Batch(t) THEN place[s] - Batch(t) ELSE 0]
  /\ UNCHANGED <<home, local, fields, thread, tail>>

\* Tell the thread after the batch that it has to splice again.
MarkSplice(t) ==
  /\ Goto(t, "mark", "gspin")
  /\ splice' = [splice EXCEPT ![tail[t]] = TRUE]
  /\ UNCHANGED <<home, glob, local, wait, id, prevOf, thread, previous, tail, place, turn>>

SpinGlobal(t) ==
  /\ Goto(t, "gspin", "cs")
  /\ ~wait[previous[t]]
  /\ UNCHANGED <<home, glob, local, fields, thread, previous, tail, place, turn>>

UnlockLoad(t) ==
  /\ Goto(t, "cs", "u_clear")
  /\ previous' = [previous EXCEPT ![t] = prevOf[thread[t]]]
  /\ UNCHANGED <<home, glob, local, fields, thread, tail, place, turn>>

UnlockClear(t) ==
  /\ Goto(t, "u_clear", "u_take")
  /\ wait' = [wait EXCEPT ![thread[t]] = FALSE]
  /\ turn' = [s \in Threads |-> IF turn[s] > 0 THEN turn[s] - 1 ELSE 0]
  /\ UNCHANGED <<home, glob, local, splice, id, prevOf, thread, previous, tail, place>>

UnlockTake(t) ==
  /\ Goto(t, "u_take", "idle")
  /\ thread' = [thread EXCEPT ![t] = previous[t]]
  /\ previous' = [previous EXCEPT ![t] = NULL]
  /\ tail' = [tail EXCEPT ![t] = NULL]
  /\ UNCHANGED <<home, glob, local, fields, place, turn>>

Step(t) ==
  \/ Prepare(t) \/ Swap(t) \/ StorePrevious(t) \/ Check(t) \/ Spin(t) \/ Test(t)
  \/ LoadTail(t) \/ SwapGlobal(t) \/ MarkSplice(t) \/ SpinGlobal(t)
  \/ UnlockLoad(t) \/ UnlockClear(t) \/ UnlockTake(t)
Next == \E t \in Threads : Step(t)
Spec == Init /\ [][Next]_vars

-----------------------------------------------------------------------------

Holders == {t \in Threads : pc[t] \in {"cs", "u_clear"}}

\* Node recycling: a node that is about to be prepared is the tail of no
\* queue, and nobody waits on it or is about to mark it; nodes stay in their
\* cluster.
OwnNode ==
  \A t \in Threads :
    /\ pc[t] \in {"idle", "swap"} =>
         /\ glob # thread[t] /\ local[home[t]] # thread[t]
         /\ \A s \in Threads \ {t} :
              /\ pc[s] # "u_take" => thread[s] # thread[t]
              /\ pc[s] \notin {"idle", "swap"} => previous[s] # thread[t]
    /\ pc[t] \notin {"idle", "u_take"} => id[thread[t]] = home[t]

\* The splice mark goes to a request that has not been granted yet: its node
\* cannot have been released, let alone recycled, in the meantime.
MarkInTime == \A t \in Threads : pc[t] = "mark" => wait[tail[t]]

\* hclh_locked, of the global queue.
Locked == wait[glob]
=============================================================================
