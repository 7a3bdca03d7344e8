------------------------------- MODULE Rwlock -------------------------------
(***************************************************************************)
(* Two reader-writer locks, one section each: include/ck_rwlock.h, with    *)
(* ck_rwlock and ck_rwlock_recursive, which a writer may take again, and   *)
(* include/ck_swlock.h, for one writer.  In every model of a reader-writer *)
(* lock a thread is at "idle" when it has no lock, "wr" when it writes and *)
(* "rd" when it reads; spinning is waiting for the condition.              *)
(***************************************************************************)
EXTENDS Threaded

CONSTANTS
  MaxDepth,    \* how often a writer takes the recursive lock
  Writer       \* the thread that may write to ck_swlock

\* ck_rwlock_init.
Init ==
  /\ \E rec \in BOOLEAN : m = [recursive |-> rec, writer |-> NULL, n_readers |-> 0, wc |-> 0]
  /\ pc = [t \in Threads |-> "idle"]
  /\ r = [t \in Threads |-> [try |-> FALSE]]

Call(t, l) == Step(t, "idle", l) /\ (\E try \in BOOLEAN : Put(t, [try |-> try])) /\ Local
Goes(t, l) == GoForget(t, l, {"idle", "wr", "rd"}, [try |-> FALSE])
\* Wait, or return from a try.
Unless(t, cond, l, otherwise) ==
  /\ cond \/ r[t].try
  /\ Goes(t, IF cond THEN l ELSE otherwise)

-----------------------------------------------------------------------------
(* ck_rwlock_write_lock, write_trylock and their recursive forms, which      *)
(* first look whether the caller is the writer.                              *)

WriteLock(t) == Call(t, "w_writer")
\* ck_rwlock swaps in 1, ck_rwlock_recursive compares and swaps its id.
WriteWriter(t) ==
  /\ At(t, "w_writer")
  /\ Unless(t, m.writer = NULL, "w_drain", "idle")
  /\ m' = IF m.writer = NULL THEN [m EXCEPT !.writer = t] ELSE m

\* Mutant: the writer does not wait for the readers.
WriteDrainNot(t) ==
  /\ At(t, "w_drain") /\ Goes(t, "wr")
  /\ m' = [m EXCEPT !.wc = IF m.recursive THEN @ + 1 ELSE @]
WriteDrain(t) ==
  /\ At(t, "w_drain")
  /\ Unless(t, m.n_readers = 0, "wr", "w_undo")
  /\ m' = [m EXCEPT !.wc = IF m.recursive /\ m.n_readers = 0 THEN @ + 1 ELSE @]

WriteUndo(t) == At(t, "w_undo") /\ Goes(t, "idle") /\ m' = [m EXCEPT !.writer = NULL]

WriteLockAgain(t) ==
  /\ At(t, "wr") /\ m.recursive /\ m.writer = t /\ m.wc < MaxDepth
  /\ m' = [m EXCEPT !.wc = @ + 1]
  /\ UNCHANGED <<pc, r>>

\* ck_rwlock_write_unlock and ck_rwlock_recursive_write_unlock.
WriteUnlock(t) ==
  LET last == ~m.recursive \/ m.wc = 1
  IN  /\ At(t, "wr") /\ Go(t, IF last THEN "idle" ELSE "wr")
      /\ m' = [m EXCEPT !.wc = IF m.recursive THEN @ - 1 ELSE @,
                        !.writer = IF last THEN NULL ELSE @]
      /\ UNCHANGED r

\* ck_rwlock_write_downgrade.
Downgrade(t) ==
  /\ Step(t, "wr", "w_down") /\ ~m.recursive
  /\ m' = [m EXCEPT !.n_readers = @ + 1]
  /\ UNCHANGED r
DowngradeUnlock(t) == Step(t, "w_down", "rd") /\ m' = [m EXCEPT !.writer = NULL] /\ UNCHANGED r

-----------------------------------------------------------------------------
(* ck_rwlock_read_lock and read_trylock: the reader counts itself, and looks *)
(* for a writer once more.                                                   *)

ReadLock(t) == Call(t, "r_writer")
ReadWriter(t) == At(t, "r_writer") /\ Unless(t, m.writer = NULL, "r_count", "idle") /\ Local
ReadCount(t) == Step(t, "r_count", "r_check") /\ m' = [m EXCEPT !.n_readers = @ + 1] /\ UNCHANGED r
ReadCheck(t) ==
  /\ At(t, "r_check") /\ Goes(t, IF m.writer = NULL THEN "rd" ELSE "r_back")
  /\ Local
ReadBack(t) ==
  /\ At(t, "r_back") /\ Goes(t, IF r[t].try THEN "idle" ELSE "r_writer")
  /\ m' = [m EXCEPT !.n_readers = @ - 1]
ReadUnlock(t) == Step(t, "rd", "idle") /\ m' = [m EXCEPT !.n_readers = @ - 1] /\ UNCHANGED r

Calls(t) == WriteLock(t) \/ ReadLock(t) \/ WriteLockAgain(t) \/ Downgrade(t)
Steps(t) ==
  \/ WriteWriter(t) \/ WriteDrain(t) \/ WriteUndo(t) \/ WriteUnlock(t) \/ DowngradeUnlock(t)
  \/ ReadWriter(t) \/ ReadCount(t) \/ ReadCheck(t) \/ ReadBack(t) \/ ReadUnlock(t)

-----------------------------------------------------------------------------
(* include/ck_swlock.h: one word, of the writer bit, the latch bit and the   *)
(* number of readers.                                                        *)

\* ck_swlock_init.  A latched writer knows that it is.
SwInit ==
  /\ m = [w |-> FALSE, latch |-> FALSE, n |-> 0]
  /\ pc = [t \in Threads |-> "idle"]
  /\ r = [t \in Threads |-> [try |-> FALSE, latched |-> FALSE]]

SwGoes(t, l) == GoForget(t, l, {"idle", "rd"}, [try |-> FALSE, latched |-> FALSE])

-----------------------------------------------------------------------------
(* The writer of ck_swlock.                                                  *)

\* ck_swlock_write_trylock; nothing happens when it fails.
SwWriteTrylock(t) ==
  /\ Step(t, "idle", "wr") /\ t = Writer
  /\ m = [w |-> FALSE, latch |-> FALSE, n |-> 0]
  /\ m' = [m EXCEPT !.w = TRUE]
  /\ Put(t, [latched |-> FALSE])

\* ck_swlock_write_lock waits for the readers, ck_swlock_write_latch for the
\* word to be the writer bit alone, and then locks readers out for good.
SwWriteLock(t) ==
  /\ At(t, "idle") /\ t = Writer
  /\ m' = [m EXCEPT !.w = TRUE]
  /\ Go(t, "w_drain")
  /\ \E latch \in BOOLEAN : Put(t, [latched |-> latch])
SwWriteDrain(t) ==
  /\ Step(t, "w_drain", "wr")
  /\ m.n = 0
  /\ m' = [m EXCEPT !.latch = r[t].latched]
  /\ UNCHANGED r

\* ck_swlock_write_unlock, and ck_swlock_write_unlatch, which also forgets
\* the readers that counted themselves meanwhile.
SwWriteUnlock(t) ==
  /\ At(t, "wr") /\ SwGoes(t, "idle")
  /\ m' = [m EXCEPT !.w = FALSE, !.latch = FALSE, !.n = IF r[t].latched THEN 0 ELSE @]

\* ck_swlock_write_downgrade.
SwDowngrade(t) ==
  /\ Step(t, "wr", "w_down") /\ ~r[t].latched
  /\ m' = [m EXCEPT !.n = @ + 1]
  /\ UNCHANGED r
SwDowngradeUnlock(t) ==
  Step(t, "w_down", "rd") /\ m' = [m EXCEPT !.w = FALSE, !.latch = FALSE] /\ UNCHANGED r

-----------------------------------------------------------------------------
(* ck_swlock_read_lock and read_trylock.                                     *)

SwReadLock(t) ==
  /\ Step(t, "idle", "r_writer")
  /\ \E try \in BOOLEAN : Put(t, [try |-> try])
  /\ Local

SwReadWriter(t) ==
  /\ At(t, "r_writer")
  /\ ~m.w \/ r[t].try
  /\ SwGoes(t, IF m.w THEN "idle" ELSE "r_count")
  /\ Local

\* Under the latch the count is left for unlatch to forget.
SwReadCount(t) ==
  /\ At(t, "r_count")
  /\ m' = [m EXCEPT !.n = @ + 1]
  /\ SwGoes(t, IF ~m.w /\ ~m.latch THEN "rd"
               ELSE IF ~m.latch THEN "r_back" ELSE IF r[t].try THEN "idle" ELSE "r_writer")

SwReadBack(t) ==
  /\ At(t, "r_back") /\ SwGoes(t, IF r[t].try THEN "idle" ELSE "r_writer")
  /\ m' = [m EXCEPT !.n = @ - 1]

SwReadUnlock(t) == Step(t, "rd", "idle") /\ m' = [m EXCEPT !.n = @ - 1] /\ UNCHANGED r

SwCalls(t) == SwWriteTrylock(t) \/ SwWriteLock(t) \/ SwReadLock(t) \/ SwDowngrade(t)
SwSteps(t) ==
  \/ SwWriteDrain(t) \/ SwWriteUnlock(t) \/ SwDowngradeUnlock(t)
  \/ SwReadWriter(t) \/ SwReadCount(t) \/ SwReadBack(t) \/ SwReadUnlock(t)
=============================================================================
