---------------------------- MODULE SpinlockMcs ----------------------------
(***************************************************************************)
(* The queue lock of include/spinlock/mcs.h.  A thread's node is the       *)
(* thread itself: the caller passes a context that is typically on its     *)
(* stack and is gone once unlock (or a failed trylock) returns.            *)
(***************************************************************************)
EXTENDS Naturals, Sequences

CONSTANTS Threads, NULL

VARIABLES
  queue,      \* the last node of the queue, or NULL
  locked,     \* node -> its locked flag
  next,       \* node -> its successor, or NULL
  pc,
  previous,   \* thread -> the node its swap returned
  successor,  \* thread -> the next its unlock loaded
  arrivals    \* history: threads in the order of their swaps

vars == <<queue, locked, next, pc, previous, successor, arrivals>>

Init ==
  /\ queue = NULL
  /\ locked = [t \in Threads |-> FALSE]
  /\ next = [t \in Threads |-> NULL]
  /\ pc = [t \in Threads |-> "idle"]
  /\ previous = [t \in Threads |-> NULL]
  /\ successor = [t \in Threads |-> NULL]
  /\ arrivals = <<>>

Goto(t, from, to) == pc[t] = from /\ pc' = [pc EXCEPT ![t] = to]

\* lock and trylock prepare the node before they publish it.
Prepare(t) ==
  /\ Goto(t, "idle", "swap") \/ Goto(t, "idle", "try")
  /\ locked' = [locked EXCEPT ![t] = TRUE]
  /\ next' = [next EXCEPT ![t] = NULL]
  /\ UNCHANGED <<queue, previous, successor, arrivals>>

\* trylock takes the lock only if the queue is empty.
TryCas(t) ==
  /\ Goto(t, "try", "cs")
  /\ queue = NULL
  /\ queue' = t
  /\ arrivals' = Append(arrivals, t)
  /\ UNCHANGED <<locked, next, previous, successor>>

TryCasFail(t) ==
  /\ Goto(t, "try", "idle")
  /\ queue # NULL
  /\ UNCHANGED <<queue, locked, next, previous, successor, arrivals>>

\* lock swaps itself in as the last request.
Swap(t) ==
  /\ Goto(t, "swap", IF queue = NULL THEN "cs" ELSE "link")
  /\ queue' = t
  /\ previous' = [previous EXCEPT ![t] = queue]
  /\ arrivals' = Append(arrivals, t)
  /\ UNCHANGED <<locked, next, successor>>

\* Let the previous request know about this one.
Link(t) ==
  /\ Goto(t, "link", "spin")
  /\ next' = [next EXCEPT ![previous[t]] = t]
  /\ UNCHANGED <<queue, locked, previous, successor, arrivals>>

Spin(t) ==
  /\ Goto(t, "spin", "cs")
  /\ ~locked[t]
  /\ UNCHANGED <<queue, locked, next, previous, successor, arrivals>>

\* unlock loads the successor.
UnlockNext(t) ==
  /\ Goto(t, "cs", IF next[t] = NULL THEN "u_tail" ELSE "u_pass")
  /\ successor' = [successor EXCEPT ![t] = next[t]]
  /\ UNCHANGED <<queue, locked, next, previous, arrivals>>

\* There is none: is this node the tail?
UnlockTail(t) ==
  /\ Goto(t, "u_tail", IF queue = t THEN "u_cas" ELSE "u_wait")
  /\ UNCHANGED <<queue, locked, next, previous, successor, arrivals>>

\* Mutant: the queue is emptied with a store, not a compare-and-swap.
UnlockCas_Blind(t) ==
  /\ Goto(t, "u_cas", "idle")
  /\ queue' = NULL
  /\ arrivals' = Tail(arrivals)
  /\ UNCHANGED <<locked, next, previous, successor>>

\* It was: empty the queue.
UnlockCas(t) ==
  /\ Goto(t, "u_cas", "idle")
  /\ queue = t
  /\ queue' = NULL
  /\ arrivals' = Tail(arrivals)
  /\ UNCHANGED <<locked, next, previous, successor>>

\* A request came in meanwhile.
UnlockCasFail(t) ==
  /\ Goto(t, "u_cas", "u_wait")
  /\ queue # t
  /\ UNCHANGED <<queue, locked, next, previous, successor, arrivals>>

\* Wait until the request in progress has linked itself.
UnlockWait(t) ==
  /\ Goto(t, "u_wait", "u_pass")
  /\ next[t] # NULL
  /\ successor' = [successor EXCEPT ![t] = next[t]]
  /\ UNCHANGED <<queue, locked, next, previous, arrivals>>

\* Allow the next lock operation to complete.
UnlockPass(t) ==
  /\ Goto(t, "u_pass", "idle")
  /\ locked' = [locked EXCEPT ![successor[t]] = FALSE]
  /\ arrivals' = Tail(arrivals)
  /\ UNCHANGED <<queue, next, previous, successor>>

Step(t) ==
  \/ Prepare(t) \/ TryCas(t) \/ TryCasFail(t) \/ Swap(t) \/ Link(t) \/ Spin(t)
  \/ UnlockNext(t) \/ UnlockTail(t) \/ UnlockCas(t) \/ UnlockCasFail(t)
  \/ UnlockWait(t) \/ UnlockPass(t)
Next == \E t \in Threads : Step(t)
Spec == Init /\ [][Next]_vars

-----------------------------------------------------------------------------

Holders == {t \in Threads : pc[t] \in {"cs", "u_tail", "u_cas", "u_wait", "u_pass"}}

\* A node is written by another thread only while its owner is inside a call
\* that waits for that very write, so a context on the stack of the caller of
\* unlock is never touched after unlock has returned.
NodeLifetime ==
  \A t \in Threads :
    /\ pc[t] = "link" =>
         \E p \in Threads : /\ p = previous[t]
                            /\ pc[p] \in {"link", "spin", "cs", "u_tail", "u_cas", "u_wait"}
    /\ pc[t] = "u_pass" =>
         \E s \in Threads : s = successor[t] /\ pc[s] = "spin" /\ locked[s]

\* mcs_locked.
Locked == queue # NULL
=============================================================================
