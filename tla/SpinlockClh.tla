---------------------------- MODULE SpinlockClh ----------------------------
(***************************************************************************)
(* The queue lock of include/spinlock/clh.h.  There is one node more than  *)
(* there are threads: the unowned node the lock is initialised with.  A    *)
(* thread enters with its node and leaves with its predecessor's, which is *)
(* what the tests call "lifetime requirements".                            *)
(***************************************************************************)
EXTENDS Naturals, Sequences

CONSTANTS Threads, unowned, NULL

VARIABLES
  queue,      \* the node of the last request
  wait,       \* node -> its wait flag
  prevOf,     \* node -> its previous field
  pc,
  thread,     \* thread -> the node it will use or is using
  previous,   \* thread -> the local variable of lock and of unlock
  arrivals    \* history: threads in the order of their swaps

vars == <<queue, wait, prevOf, pc, thread, previous, arrivals>>

Node == Threads \cup {unowned}   \* a thread's first node is named after it

Init ==
  /\ queue = unowned
  /\ wait = [n \in Node |-> FALSE]
  /\ prevOf = [n \in Node |-> NULL]
  /\ pc = [t \in Threads |-> "idle"]
  /\ thread = [t \in Threads |-> t]
  /\ previous = [t \in Threads |-> NULL]
  /\ arrivals = <<>>

Goto(t, from, to) == pc[t] = from /\ pc' = [pc EXCEPT ![t] = to]

\* Indicate to the next thread on the queue that it will have to block.
Prepare(t) ==
  /\ Goto(t, "idle", "swap")
  /\ wait' = [wait EXCEPT ![thread[t]] = TRUE]
  /\ UNCHANGED <<queue, prevOf, thread, previous, arrivals>>

\* Mark the request as the last one; remember the one before it ...
Swap(t) ==
  /\ Goto(t, "swap", "store")
  /\ queue' = thread[t]
  /\ previous' = [previous EXCEPT ![t] = queue]
  /\ arrivals' = Append(arrivals, t)
  /\ UNCHANGED <<wait, prevOf, thread>>

\* ... in the node too.
StorePrevious(t) ==
  /\ Goto(t, "store", "spin")
  /\ prevOf' = [prevOf EXCEPT ![thread[t]] = previous[t]]
  /\ UNCHANGED <<queue, wait, thread, previous, arrivals>>

\* The previous request is done with the lock.
Spin(t) ==
  /\ Goto(t, "spin", "cs")
  /\ ~wait[previous[t]]
  /\ UNCHANGED <<queue, wait, prevOf, thread, previous, arrivals>>

\* unlock saves the predecessor before it clears the flag ...
UnlockLoad(t) ==
  /\ Goto(t, "cs", "u_clear")
  /\ previous' = [previous EXCEPT ![t] = prevOf[thread[t]]]
  /\ UNCHANGED <<queue, wait, prevOf, thread, arrivals>>

UnlockClear(t) ==
  /\ Goto(t, "u_clear", "u_take")
  /\ wait' = [wait EXCEPT ![thread[t]] = FALSE]
  /\ arrivals' = Tail(arrivals)
  /\ UNCHANGED <<queue, prevOf, thread, previous>>

\* Mutant: the previous field is read after the flag has been cleared.
UnlockTake_Late(t) ==
  /\ Goto(t, "u_take", "idle")
  /\ thread' = [thread EXCEPT ![t] = prevOf[thread[t]]]
  /\ previous' = [previous EXCEPT ![t] = NULL]
  /\ UNCHANGED <<queue, wait, prevOf, arrivals>>

\* ... and takes the predecessor's node for its next request.
UnlockTake(t) ==
  /\ Goto(t, "u_take", "idle")
  /\ thread' = [thread EXCEPT ![t] = previous[t]]
  /\ previous' = [previous EXCEPT ![t] = NULL]
  /\ UNCHANGED <<queue, wait, prevOf, arrivals>>

Step(t) ==
  \/ Prepare(t) \/ Swap(t) \/ StorePrevious(t) \/ Spin(t)
  \/ UnlockLoad(t) \/ UnlockClear(t) \/ UnlockTake(t)
Next == \E t \in Threads : Step(t)
Spec == Init /\ [][Next]_vars

-----------------------------------------------------------------------------

Holders == {t \in Threads : pc[t] \in {"cs", "u_clear"}}

\* Node recycling: the node a thread is about to prepare belongs to nobody
\* else, is not the tail of the queue and is not one that a waiter still reads
\* or that a late unlock will still hand out.
OwnNode ==
  \A t \in Threads : pc[t] \in {"idle", "swap"} =>
    /\ queue # thread[t]
    /\ \A s \in Threads \ {t} :
         /\ pc[s] # "u_take" => thread[s] # thread[t]
         /\ pc[s] \notin {"idle", "swap"} => previous[s] # thread[t]

\* clh_locked.
Locked == wait[queue]
=============================================================================
