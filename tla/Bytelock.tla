------------------------------ MODULE Bytelock ------------------------------
(***************************************************************************)
(* include/ck_bytelock.h: a lock with one byte for every slotted reader    *)
(* and a counter for the others.  A slotted reader may become the writer,  *)
(* and the writer a reader, by taking the lock the other way.              *)
(***************************************************************************)
EXTENDS Threaded

CONSTANTS
  SlottedSets,  \* which threads have a slot: one of these sets
  Uses,         \* how the other threads use the lock
  UNSLOTTED     \* CK_BYTELOCK_UNSLOTTED

\* A thread without a slot passes a number of its own that is above the slots
\* (use is "own"), or UNSLOTTED as all of them do, and then only reads
\* ("reads"), only writes ("writes"), or calls what it likes ("any").

\* ck_bytelock_init.  A reader that becomes the writer waits for ever when
\* another thread has announced that it will write: a thread may upgrade only
\* when it is the one writer.
Init ==
  /\ \E slotted \in SlottedSets, use \in Uses : \E u \in slotted \cup {NULL} :
       m = [slotted |-> slotted, use |-> use, owner |-> NULL, n_readers |-> 0,
            readers |-> [t \in slotted |-> FALSE], upgrader |-> u]
  /\ pc = [t \in Threads |-> "idle"]
  /\ r = [t \in Threads |-> [words |-> {}]]

\* The number that t passes as its slot.
Number(t) == IF t \in m.slotted \/ m.use = "own" THEN t ELSE UNSLOTTED

-----------------------------------------------------------------------------
(* ck_bytelock_write_lock. *)

WriteLock(t) ==
  /\ Step(t, "idle", "w_owner") /\ (t \in m.slotted \/ m.use # "reads")
  /\ m.upgrader \in {t, NULL} /\ Local /\ UNCHANGED r
Upgrade(t) == Step(t, "rd", "w_owner") /\ m.upgrader = t /\ Local /\ UNCHANGED r

WriteOwner(t) ==
  /\ At(t, "w_owner") /\ m.owner = NULL
  /\ m' = [m EXCEPT !.owner = Number(t)]
  /\ Go(t, IF t \in m.slotted THEN "w_slot" ELSE "w_slotted")
  /\ Put(t, [words |-> m.slotted])
WriteSlot(t) == Step(t, "w_slot", "w_slotted") /\ m' = [m EXCEPT !.readers[t] = FALSE] /\ UNCHANGED r

\* The bytes are read a word at a time, in order; here each is a word.
WriteSlotted(t) ==
  /\ At(t, "w_slotted")
  /\ \/ /\ r[t].words = {} /\ Go(t, "w_unslotted") /\ UNCHANGED r
     \/ LET u == CHOOSE x \in r[t].words : TRUE
        IN  /\ r[t].words # {} /\ ~m.readers[u]
            /\ Put(t, [words |-> r[t].words \ {u}]) /\ UNCHANGED pc
  /\ Local
WriteUnslotted(t) == Step(t, "w_unslotted", "wr") /\ m.n_readers = 0 /\ Local /\ UNCHANGED r
WriteUnlock(t) == Step(t, "wr", "idle") /\ m' = [m EXCEPT !.owner = NULL] /\ UNCHANGED r

-----------------------------------------------------------------------------
(* ck_bytelock_read_lock.  Who finds its own number is taken for the writer. *)

ReadLock(t) ==
  Step(t, "idle", "r_owner") /\ (t \in m.slotted \/ m.use # "writes") /\ Local /\ UNCHANGED r
Downgrade(t) ==
  Step(t, "wr", "r_owner") /\ (t \in m.slotted \/ m.use = "any") /\ Local /\ UNCHANGED r

ReadOwner(t) ==
  /\ At(t, "r_owner")
  /\ Go(t, IF m.owner = Number(t) THEN "r_down" ELSE "r_count")
  /\ Local /\ UNCHANGED r
\* Without a slot the store is to a byte outside of readers, and the reader is
\* not counted.
ReadDown(t) ==
  /\ Step(t, "r_down", "r_release")
  /\ m' = IF t \in m.slotted THEN [m EXCEPT !.readers[t] = TRUE] ELSE m
  /\ UNCHANGED r
ReadRelease(t) == Step(t, "r_release", "rd") /\ m' = [m EXCEPT !.owner = NULL] /\ UNCHANGED r

Counted(t, d) ==
  IF t \in m.slotted THEN [m EXCEPT !.readers[t] = (d = 1)] ELSE [m EXCEPT !.n_readers = @ + d]
ReadCount(t) == Step(t, "r_count", "r_check") /\ m' = Counted(t, 1) /\ UNCHANGED r
ReadCheck(t) ==
  /\ At(t, "r_check") /\ Go(t, IF m.owner = NULL THEN "rd" ELSE "r_back")
  /\ Local /\ UNCHANGED r
ReadBack(t) == Step(t, "r_back", "r_wait") /\ m' = Counted(t, -1) /\ UNCHANGED r
ReadWait(t) == Step(t, "r_wait", "r_count") /\ m.owner = NULL /\ Local /\ UNCHANGED r
ReadUnlock(t) == Step(t, "rd", "idle") /\ m' = Counted(t, -1) /\ UNCHANGED r

Calls(t) == WriteLock(t) \/ Upgrade(t) \/ ReadLock(t) \/ Downgrade(t)
Steps(t) ==
  \/ WriteOwner(t) \/ WriteSlot(t) \/ WriteSlotted(t) \/ WriteUnslotted(t) \/ WriteUnlock(t)
  \/ ReadOwner(t) \/ ReadDown(t) \/ ReadRelease(t) \/ ReadCount(t) \/ ReadCheck(t)
  \/ ReadBack(t) \/ ReadWait(t) \/ ReadUnlock(t)
=============================================================================
