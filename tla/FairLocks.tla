------------------------------ MODULE FairLocks ------------------------------
(***************************************************************************)
(* The two reader-writer locks that are fair by tickets, one section each: *)
(* include/ck_tflock.h, the task-fair lock, and include/ck_pflock.h, the   *)
(* phase-fair lock.                                                        *)
(***************************************************************************)
EXTENDS Threaded

CONSTANTS
  Top,       \* the value of the highest bit of a ck_tflock counter, 0x8000
  Wrap       \* the counters of ck_pflock are modulo Wrap, a power of two

-----------------------------------------------------------------------------
(* include/ck_tflock.h: request and completion are words of two counters,  *)
(* for readers and for writers.                                            *)

\* ck_tflock_ticket_init.
TfInit ==
  /\ m = [request |-> [rc |-> 0, wc |-> 0], completion |-> [rc |-> 0, wc |-> 0]]
  /\ pc = [t \in Threads |-> "idle"]
  /\ r = [t \in Threads |-> [previous |-> [rc |-> 0, wc |-> 0]]]

\* ck_tflock_ticket_fca_32 of one counter: its highest bit is cleared and 1
\* added.  The compare-and-swap loop makes it one atomic step.
TfFca32(word, counter) == [word EXCEPT ![counter] = (@ % Top) + 1]
TfClear(t) == Put(t, [previous |-> [rc |-> 0, wc |-> 0]])

TfWriteLock(t) ==
  /\ Step(t, "idle", "w_wait")
  /\ m' = [m EXCEPT !.request = TfFca32(@, "wc")]
  /\ Put(t, [previous |-> m.request])
TfWriteWait(t) ==
  /\ Step(t, "w_wait", "wr")
  /\ m.completion = r[t].previous
  /\ Local /\ UNCHANGED r
TfWriteUnlock(t) ==
  Step(t, "wr", "idle") /\ m' = [m EXCEPT !.completion = TfFca32(@, "wc")] /\ TfClear(t)

TfReadLock(t) ==
  /\ Step(t, "idle", "r_wait")
  /\ m' = [m EXCEPT !.request = TfFca32(@, "rc")]
  /\ Put(t, [previous |-> m.request])
TfReadWait(t) ==
  /\ Step(t, "r_wait", "rd")
  /\ m.completion.wc = r[t].previous.wc
  /\ Local /\ UNCHANGED r
TfReadUnlock(t) ==
  Step(t, "rd", "idle") /\ m' = [m EXCEPT !.completion = TfFca32(@, "rc")] /\ TfClear(t)

TfCalls(t) == TfWriteLock(t) \/ TfReadLock(t)
TfSteps(t) == TfWriteWait(t) \/ TfWriteUnlock(t) \/ TfReadWait(t) \/ TfReadUnlock(t)

-----------------------------------------------------------------------------
(* include/ck_pflock.h: rin holds the readers that arrived, whether a      *)
(* writer is present and the parity of its ticket; rout the readers that   *)
(* left; win and wout the writers.                                         *)

\* ck_pflock_init.  passed is history: the writers that began and ended to
\* write since the reader arrived.
PfInit ==
  /\ m = [rin |-> 0, pres |-> FALSE, phid |-> 0, rout |-> 0, win |-> 0, wout |-> 0]
  /\ pc = [t \in Threads |-> "idle"]
  /\ r = [t \in Threads |-> [ticket |-> 0, phid |-> 0, passed |-> 0]]

PfInc(n) == (n + 1) % Wrap
PfClear(t) == Put(t, [ticket |-> 0, phid |-> 0, passed |-> 0])

PfWriteLock(t) ==
  /\ Step(t, "idle", "w_turn")
  /\ m' = [m EXCEPT !.win = PfInc(@)]
  /\ Put(t, [ticket |-> m.win])
PfWriteTurn(t) == Step(t, "w_turn", "w_phase") /\ m.wout = r[t].ticket /\ Local /\ UNCHANGED r
\* One fetch-and-add announces the writer and returns the readers before it.
PfWritePhase(t) ==
  /\ Step(t, "w_phase", "w_drain")
  /\ m' = [m EXCEPT !.pres = TRUE, !.phid = r[t].ticket % 2]
  /\ Put(t, [ticket |-> m.rin])
PfWriteDrain(t) == Step(t, "w_drain", "wr") /\ m.rout = r[t].ticket /\ Local /\ UNCHANGED r

PfWriteUnlock(t) ==
  /\ Step(t, "wr", "w_next")
  /\ m' = [m EXCEPT !.pres = FALSE, !.phid = 0]
  /\ r' = [u \in Threads |-> IF At(u, "r_phase") THEN [r[u] EXCEPT !.passed = @ + 1] ELSE r[u]]
PfWriteNext(t) == Step(t, "w_next", "idle") /\ m' = [m EXCEPT !.wout = PfInc(@)] /\ PfClear(t)

PfReadLock(t) ==
  /\ At(t, "idle") /\ Go(t, IF m.pres THEN "r_phase" ELSE "rd")
  /\ m' = [m EXCEPT !.rin = PfInc(@)]
  /\ Put(t, [phid |-> m.phid])
PfReadPhase(t) ==
  /\ Step(t, "r_phase", "rd")
  /\ ~m.pres \/ m.phid # r[t].phid
  /\ Local /\ UNCHANGED r
PfReadUnlock(t) == Step(t, "rd", "idle") /\ m' = [m EXCEPT !.rout = PfInc(@)] /\ PfClear(t)

PfCalls(t) == PfWriteLock(t) \/ PfReadLock(t)
PfSteps(t) ==
  \/ PfWriteTurn(t) \/ PfWritePhase(t) \/ PfWriteDrain(t) \/ PfWriteUnlock(t) \/ PfWriteNext(t)
  \/ PfReadPhase(t) \/ PfReadUnlock(t)

\* A reader waits for one writer at most.
PfPhaseFair == \A t \in Threads : r[t].passed <= 1
=============================================================================
