------------------------------ MODULE Sequence ------------------------------
(***************************************************************************)
(* include/ck_sequence.h: readers copy two words and try again when the    *)
(* sequence number is odd or has changed; writers, which exclude each      *)
(* other by a mutex of the caller, make it odd and even again.             *)
(***************************************************************************)
EXTENDS Threaded

CONSTANTS
  Wrap,          \* the sequence is modulo Wrap, an even number
  MaxLag         \* how many writes may begin during one read

\* ck_sequence_init.  Every write stores its number, modulo Wrap / 2, in
\* both words.  lag is the number of writes that began since the reader began.
Init ==
  /\ m = [sequence |-> 0, mutex |-> NULL, x |-> 0, y |-> 0]
  /\ pc = [t \in Threads |-> "idle"]
  /\ r = [t \in Threads |-> [version |-> 0, x |-> 0, y |-> 0, lag |-> 0]]

Reading(t) == pc[t] \in {"r_x", "r_y", "r_retry"}
Clear(t) == Put(t, [version |-> 0, x |-> 0, y |-> 0, lag |-> 0])

WriteBegin(t) ==
  /\ Step(t, "idle", "w_x") /\ m.mutex = NULL
  /\ \A u \in Threads : Reading(u) => r[u].lag < MaxLag
  /\ m' = [m EXCEPT !.mutex = t, !.sequence = (@ + 1) % Wrap]
  /\ r' = [u \in Threads |-> IF Reading(u) THEN [r[u] EXCEPT !.lag = @ + 1] ELSE r[u]]
WriteX(t) == Step(t, "w_x", "w_y") /\ m' = [m EXCEPT !.x = (@ + 1) % (Wrap \div 2)] /\ UNCHANGED r
WriteY(t) == Step(t, "w_y", "w_end") /\ m' = [m EXCEPT !.y = (@ + 1) % (Wrap \div 2)] /\ UNCHANGED r
WriteEnd(t) ==
  /\ Step(t, "w_end", "idle")
  /\ m' = [m EXCEPT !.mutex = NULL, !.sequence = (@ + 1) % Wrap]
  /\ UNCHANGED r

ReadCall(t) == Step(t, "idle", "r_begin") /\ Local /\ UNCHANGED r
\* Mutant: an odd version is taken.
ReadBeginAny(t) == Step(t, "r_begin", "r_x") /\ Put(t, [version |-> m.sequence, lag |-> 0]) /\ Local
ReadBegin(t) ==
  /\ Step(t, "r_begin", "r_x") /\ m.sequence % 2 = 0
  /\ Put(t, [version |-> m.sequence, lag |-> 0])
  /\ Local
ReadX(t) == Step(t, "r_x", "r_y") /\ Put(t, [x |-> m.x]) /\ Local
ReadY(t) == Step(t, "r_y", "r_retry") /\ Put(t, [y |-> m.y]) /\ Local
ReadRetry(t) ==
  /\ At(t, "r_retry") /\ Local
  /\ IF m.sequence = r[t].version THEN Go(t, "r_done") /\ UNCHANGED r
     ELSE Go(t, "r_begin") /\ Clear(t)
ReadDone(t) == Step(t, "r_done", "idle") /\ Clear(t) /\ Local

Calls(t) == WriteBegin(t) \/ ReadCall(t)
Steps(t) ==
  \/ WriteX(t) \/ WriteY(t) \/ WriteEnd(t)
  \/ ReadBegin(t) \/ ReadX(t) \/ ReadY(t) \/ ReadRetry(t) \/ ReadDone(t)

\* What a reader keeps was written by one writer.
ConsistentRead == \A t \in Threads : At(t, "r_done") => r[t].x = r[t].y
=============================================================================
