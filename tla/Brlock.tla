------------------------------- MODULE Brlock -------------------------------
(***************************************************************************)
(* include/ck_brlock.h: the big-reader lock.  Every reader counts in an    *)
(* object of its own, which it registers; the writer looks at all of them. *)
(* A reader may take the lock again.  A try gives up after factor steps,   *)
(* which is any time at which it would have waited.                        *)
(***************************************************************************)
EXTENDS Threaded

CONSTANTS
  MaxDepth,      \* how often a reader takes the lock
  Readers        \* the threads that register

Nothing == [try |-> FALSE, then |-> "wr", cursor |-> 1]
\* ck_brlock_init.  readers is the list; then says what a writer does
\* with the lock: write, register or unregister.
Init ==
  /\ m = [readers |-> <<>>, writer |-> FALSE, n_readers |-> [t \in Threads |-> 0]]
  /\ pc = [t \in Threads |-> "idle"]
  /\ r = [t \in Threads |-> Nothing]

Registered(t) == \E i \in DOMAIN m.readers : m.readers[i] = t
Goes(t, l) == GoForget(t, l, {"idle", "wr", "rd", "w_unlock"}, Nothing)
\* Wait, or give up.
Unless(t, cond, l, otherwise) ==
  \/ cond /\ Goes(t, l)
  \/ ~cond /\ r[t].try /\ Goes(t, otherwise)

-----------------------------------------------------------------------------
(* ck_brlock_write_lock, write_trylock, read_register and read_unregister.   *)

WriteLock(t) ==
  /\ Step(t, "idle", "w_writer")
  /\ \E try \in BOOLEAN : Put(t, [try |-> try, then |-> "wr", cursor |-> 1])
  /\ Local
Register(t) ==
  /\ Step(t, "idle", "w_writer") /\ t \in Readers /\ ~Registered(t)
  /\ Put(t, [try |-> FALSE, then |-> "register", cursor |-> 1])
  /\ m' = [m EXCEPT !.n_readers[t] = 0]
Unregister(t) ==
  /\ Step(t, "idle", "w_writer") /\ Registered(t)
  /\ Put(t, [try |-> FALSE, then |-> "unregister", cursor |-> 1])
  /\ Local

WriteWriter(t) ==
  /\ At(t, "w_writer")
  /\ Unless(t, ~m.writer, "w_readers", "idle")
  /\ m' = [m EXCEPT !.writer = TRUE]

WriteReaders(t) ==
  LET i == r[t].cursor
      zero == m.n_readers[m.readers[i]] = 0
  IN  /\ At(t, "w_readers")
      /\ \/ i > Len(m.readers) /\ Go(t, r[t].then) /\ Put(t, Nothing)
         \/ i <= Len(m.readers) /\ zero /\ UNCHANGED pc /\ Put(t, [cursor |-> i + 1])
         \/ i <= Len(m.readers) /\ ~zero /\ r[t].try /\ Goes(t, "w_unlock")
      /\ Local

\* The list is changed under the lock.
Link(t) ==
  /\ Step(t, "register", "w_unlock")
  /\ m' = [m EXCEPT !.readers = <<t>> \o @]
  /\ UNCHANGED r
Unlink(t) ==
  /\ Step(t, "unregister", "w_unlock")
  /\ \E i \in DOMAIN m.readers :
       /\ m.readers[i] = t
       /\ m' = [m EXCEPT !.readers = [j \in 1 .. Len(@) - 1 |-> IF j < i THEN @[j] ELSE @[j + 1]]]
  /\ UNCHANGED r

WriteUnlock(t) ==
  /\ pc[t] \in {"wr", "w_unlock"} /\ Go(t, "idle")
  /\ m' = [m EXCEPT !.writer = FALSE]
  /\ UNCHANGED r

-----------------------------------------------------------------------------
(* ck_brlock_read_lock and read_trylock. *)

ReadLock(t) ==
  /\ Step(t, "idle", "r_writer") /\ Registered(t)
  /\ \E try \in BOOLEAN : Put(t, [try |-> try])
  /\ Local
ReadLockAgain(t) ==
  /\ At(t, "rd") /\ m.n_readers[t] < MaxDepth
  /\ m' = [m EXCEPT !.n_readers[t] = @ + 1]
  /\ UNCHANGED <<pc, r>>

ReadWriter(t) == At(t, "r_writer") /\ Unless(t, ~m.writer, "r_count", "idle") /\ Local
ReadCount(t) == Step(t, "r_count", "r_check") /\ m' = [m EXCEPT !.n_readers[t] = 1] /\ UNCHANGED r
ReadCheck(t) ==
  /\ At(t, "r_check") /\ Goes(t, IF m.writer THEN "r_back" ELSE "rd")
  /\ Local
ReadBack(t) ==
  /\ At(t, "r_back")
  /\ Goes(t, "r_writer") \/ (r[t].try /\ Goes(t, "idle"))
  /\ m' = [m EXCEPT !.n_readers[t] = 0]
ReadUnlock(t) ==
  /\ At(t, "rd") /\ Go(t, IF m.n_readers[t] = 1 THEN "idle" ELSE "rd")
  /\ m' = [m EXCEPT !.n_readers[t] = @ - 1]
  /\ UNCHANGED r

Calls(t) == WriteLock(t) \/ Register(t) \/ Unregister(t) \/ ReadLock(t) \/ ReadLockAgain(t)
Steps(t) ==
  \/ WriteWriter(t) \/ WriteReaders(t) \/ Link(t) \/ Unlink(t) \/ WriteUnlock(t)
  \/ ReadWriter(t) \/ ReadCount(t) \/ ReadCheck(t) \/ ReadBack(t) \/ ReadUnlock(t)
=============================================================================
