------------------------------ MODULE Threaded ------------------------------
(***************************************************************************)
(* What the models of the concurrent components have in common: threads    *)
(* that take steps, each at most one access to shared memory.              *)
(***************************************************************************)
EXTENDS Integers, Sequences, FiniteSets, TLC

CONSTANTS
  Threads,    \* the threads
  NULL        \* the null pointer

VARIABLES
  m,          \* the shared memory, a record
  pc,         \* thread -> the label of its next step
  r           \* thread -> its local variables, a record

tvars == <<m, pc, r>>

At(t, l) == pc[t] = l
Go(t, l) == pc' = [pc EXCEPT ![t] = l]
Step(t, from, to) == At(t, from) /\ Go(t, to)
\* The record old, with new values for the fields of the record new.
With(old, new) == [f \in DOMAIN old |-> IF f \in DOMAIN new THEN new[f] ELSE old[f]]
\* Give local variables of t new values: those in the record new.
Put(t, new) == r' = [r EXCEPT ![t] = With(@, new)]
Local == UNCHANGED m
\* Go to l and, where an operation ends, forget its local variables.
GoForget(t, l, ends, none) ==
  Go(t, l) /\ r' = IF l \in ends THEN [r EXCEPT ![t] = none] ELSE r
-----------------------------------------------------------------------------
(* A writer that changes a container and readers that go through it          *)
(* meanwhile.  What a reader is owed is history: must, what has been there   *)
(* ever since it started, may, what has been there at any time since, and    *)
(* seen, what it was given.                                                  *)

NoHistory == [must |-> {}, may |-> {}, seen |-> <<>>, changes |-> 0]
\* A reader starts: must is there for all to see, may is there in some way.
Owed(must, may) == [must |-> must, may |-> may]
See(t, x) == [seen |-> Append(r[t].seen, x)]
\* A reader that may be under way, when the container has changed.
Watched(t, must, may) ==
  IF At(t, "idle") \/ At(t, "done") THEN r[t]
  ELSE [r[t] EXCEPT !.must = @ \cap must, !.may = @ \cup may, !.changes = @ + 1]

\* After max stores during an iteration none is begun.
MayChange(readers, max) == \A t \in readers : r[t].changes < max

\* At its end an iteration was given once, and not twice, everything that was
\* there throughout, and nothing that was not there at some time.
Iterates(t) ==
  At(t, "done") =>
    /\ \A x \in r[t].must : Cardinality({i \in DOMAIN r[t].seen : r[t].seen[i] = x}) = 1
    /\ {r[t].seen[i] : i \in DOMAIN r[t].seen} \subseteq r[t].may
=============================================================================
