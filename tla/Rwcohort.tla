------------------------------ MODULE Rwcohort ------------------------------
(***************************************************************************)
(* include/ck_cohort.h and include/ck_rwcohort.h: a lock per cohort of     *)
(* threads and one for all, passed on within a cohort while threads wait   *)
(* there, with its trylock (policy "cohort"); and the reader-writer locks  *)
(* made with it, preferring writers (wp), readers (rp) or neither.         *)
(*                                                                         *)
(* The two locks are parameters of the macros: any mutual exclusion.  The  *)
(* number of polls before a barrier is raised is any number above the      *)
(* limit.                                                                  *)
(***************************************************************************)
EXTENDS Threaded

CONSTANTS
  Cohorts,       \* the cohorts
  CohortOf,      \* thread -> its cohort
  PassLimit      \* local_pass_limit

\* ck_cohort_init and ck_rwcohort_*_init.
Init ==
  /\ \E policy \in {"cohort", "wp", "rp", "neutral"} :
       m = [policy |-> policy, global |-> NULL, local |-> [c \in Cohorts |-> NULL],
            release |-> [c \in Cohorts |-> "global"], waiting |-> [c \in Cohorts |-> 0],
            acquired |-> [c \in Cohorts |-> 0], readers |-> 0, barrier |-> 0]
  /\ pc = [t \in Threads |-> "idle"]
  /\ r = [t \in Threads |-> [then |-> "wr", raised |-> FALSE]]

C(t) == CohortOf[t]

-----------------------------------------------------------------------------
(* The cohort lock; then says where its caller goes on.  The lock is passed  *)
(* on by its owner, so that global is the cohort that has it.                *)

CohortLock(t) ==
  Step(t, "c_lock", "c_local") /\ m' = [m EXCEPT !.waiting[C(t)] = @ + 1] /\ UNCHANGED r
CohortLocal(t) ==
  /\ Step(t, "c_local", "c_got") /\ m.local[C(t)] = NULL
  /\ m' = [m EXCEPT !.local[C(t)] = t]
  /\ UNCHANGED r
CohortGot(t) ==
  /\ At(t, "c_got")
  /\ m' = [m EXCEPT !.waiting[C(t)] = @ - 1]
  /\ Go(t, IF m.release[C(t)] = "global" THEN "c_global" ELSE "c_count")
  /\ UNCHANGED r
CohortGlobal(t) ==
  /\ Step(t, "c_global", "c_count") /\ m.global = NULL
  /\ m' = [m EXCEPT !.global = C(t)]
  /\ UNCHANGED r
CohortCount(t) ==
  /\ At(t, "c_count") /\ Go(t, r[t].then)
  /\ m' = [m EXCEPT !.acquired[C(t)] = @ + 1]
  /\ UNCHANGED r

\* Pass the lock on, or release it for all; then release the local lock.
\* Mutant: the limit is not looked at.
CohortUnlockPass(t) ==
  LET pass == m.waiting[C(t)] > 0
  IN  /\ At(t, "c_unlock")
      /\ Go(t, IF pass THEN "c_release" ELSE "c_all")
      /\ m' = IF pass THEN [m EXCEPT !.release[C(t)] = "local"] ELSE m
      /\ UNCHANGED r
CohortUnlock(t) ==
  LET pass == m.waiting[C(t)] > 0 /\ m.acquired[C(t)] < PassLimit
  IN  /\ At(t, "c_unlock")
      /\ Go(t, IF pass THEN "c_release" ELSE "c_all")
      /\ m' = IF pass THEN [m EXCEPT !.release[C(t)] = "local"] ELSE m
      /\ UNCHANGED r
CohortUnlockAll(t) ==
  /\ Step(t, "c_all", "c_release")
  /\ m' = [m EXCEPT !.global = NULL, !.release[C(t)] = "global", !.acquired[C(t)] = 0]
  /\ UNCHANGED r
CohortRelease(t) ==
  /\ At(t, "c_release")
  /\ m' = [m EXCEPT !.local[C(t)] = NULL]
  /\ Go(t, IF r[t].then = "w_readers" THEN "w_poll"
           ELSE IF r[t].then = "r_locked" THEN "rd" ELSE "idle")
  /\ UNCHANGED r

\* ck_cohort_trylock counts as waiting during the attempt.
Trylock(t) ==
  /\ Step(t, "idle", "t_local") /\ m.policy = "cohort"
  /\ m' = [m EXCEPT !.waiting[C(t)] = @ + 1]
  /\ Put(t, [then |-> "wr"])
TryLocal(t) ==
  /\ At(t, "t_local")
  /\ Go(t, IF m.local[C(t)] = NULL THEN "t_got" ELSE "t_failed")
  /\ m' = [m EXCEPT !.local[C(t)] = IF @ = NULL THEN t ELSE @]
  /\ UNCHANGED r
TryGot(t) ==
  /\ pc[t] \in {"t_got", "t_failed"}
  /\ m' = [m EXCEPT !.waiting[C(t)] = @ - 1]
  /\ Go(t, IF At(t, "t_failed") THEN "idle"
           ELSE IF m.release[C(t)] = "global" THEN "t_global" ELSE "t_count")
  /\ UNCHANGED r
TryGlobal(t) ==
  /\ At(t, "t_global")
  /\ Go(t, IF m.global = NULL THEN "t_count" ELSE "t_undo")
  /\ m' = [m EXCEPT !.global = IF @ = NULL THEN C(t) ELSE @]
  /\ UNCHANGED r
TryUndo(t) == Step(t, "t_undo", "idle") /\ m' = [m EXCEPT !.local[C(t)] = NULL] /\ UNCHANGED r
TryCount(t) ==
  /\ Step(t, "t_count", "wr")
  /\ m' = [m EXCEPT !.acquired[C(t)] = @ + 1]
  /\ UNCHANGED r

\* ck_cohort_locked looks at the lock for all, and then at the local lock:
\* at lg it has found the first free.
Looks(t, l, lg) == Step(t, l, lg) /\ m.global = NULL /\ UNCHANGED <<m, r>>
Finds(t, l, lg, locked) ==
  \/ At(t, l) /\ m.global # NULL /\ locked
  \/ At(t, lg) /\ (locked <=> m.local[C(t)] # NULL)

-----------------------------------------------------------------------------
(* Writers.  A writer that prefers readers releases the lock to wait.        *)

WriteLock(t) ==
  /\ At(t, "idle")
  /\ Go(t, IF m.policy = "wp" THEN "w_barrier" ELSE "c_lock")
  /\ Put(t, [then |-> IF m.policy = "cohort" THEN "wr"
                      ELSE IF m.policy = "rp" THEN "w_readers" ELSE "w_drain",
             raised |-> FALSE])
  /\ Local
WriteBarrier(t) == Step(t, "w_barrier", "c_lock") /\ m.barrier = 0 /\ Local /\ UNCHANGED r
WriteDrain(t) == Step(t, "w_drain", "wr") /\ m.readers = 0 /\ Local /\ UNCHANGED r

WriteReaders(t) ==
  /\ At(t, "w_readers")
  /\ Go(t, IF m.readers # 0 THEN "c_unlock" ELSE IF r[t].raised THEN "w_lower" ELSE "wr")
  /\ Local /\ UNCHANGED r
WritePoll(t) == Step(t, "w_poll", "c_lock") /\ m.readers = 0 /\ Local /\ UNCHANGED r
WriteRaise(t) ==
  /\ At(t, "w_poll") /\ m.readers # 0 /\ ~r[t].raised
  /\ m' = [m EXCEPT !.barrier = @ + 1]
  /\ Put(t, [raised |-> TRUE])
  /\ UNCHANGED pc
WriteLower(t) == Step(t, "w_lower", "wr") /\ m' = [m EXCEPT !.barrier = @ - 1] /\ UNCHANGED r

WriteUnlock(t) == Step(t, "wr", "c_unlock") /\ Put(t, [then |-> "idle"]) /\ Local

-----------------------------------------------------------------------------
(* Readers. *)

ReadLock(t) ==
  /\ At(t, "idle") /\ m.policy # "cohort"
  /\ Go(t, IF m.policy = "wp" THEN "r_count" ELSE IF m.policy = "rp" THEN "r_barrier" ELSE "c_lock")
  /\ Put(t, [then |-> IF m.policy = "neutral" THEN "r_locked" ELSE "rd", raised |-> FALSE])
  /\ Local
ReadBarrier(t) == Step(t, "r_barrier", "r_count") /\ m.barrier = 0 /\ Local /\ UNCHANGED r
ReadCount(t) ==
  /\ pc[t] \in {"r_count", "r_locked"}
  /\ Go(t, IF At(t, "r_count") THEN "r_check" ELSE "c_unlock")
  /\ m' = [m EXCEPT !.readers = @ + 1]
  /\ UNCHANGED r
\* wp backs off while the lock is taken, rp waits for it.
ReadCheck(t) ==
  \/ Looks(t, "r_check", "r_check_local")
  \/ \E locked \in BOOLEAN :
       /\ Finds(t, "r_check", "r_check_local", locked)
       /\ Go(t, IF ~locked THEN IF r[t].raised THEN "r_lower" ELSE "rd"
                ELSE IF m.policy = "wp" THEN "r_back" ELSE "r_check")
       /\ Local /\ UNCHANGED r
ReadBack(t) == Step(t, "r_back", "r_poll") /\ m' = [m EXCEPT !.readers = @ - 1] /\ UNCHANGED r
\* A poll that finds the lock taken may be the one beyond the limit.
ReadPoll(t) ==
  \/ Looks(t, "r_poll", "r_poll_local")
  \/ \E locked \in BOOLEAN :
       /\ Finds(t, "r_poll", "r_poll_local", locked)
       /\ Go(t, IF locked THEN IF r[t].raised THEN "r_poll" ELSE "r_poll_or_raise" ELSE "r_count")
       /\ Local /\ UNCHANGED r
ReadRaise(t) ==
  /\ Step(t, "r_poll_or_raise", "r_poll")
  /\ \/ UNCHANGED <<m, r>>
     \/ m' = [m EXCEPT !.barrier = @ + 1] /\ Put(t, [raised |-> TRUE])
ReadLower(t) == Step(t, "r_lower", "rd") /\ m' = [m EXCEPT !.barrier = @ - 1] /\ UNCHANGED r
ReadUnlock(t) == Step(t, "rd", "idle") /\ m' = [m EXCEPT !.readers = @ - 1] /\ UNCHANGED r

Calls(t) == Trylock(t) \/ WriteLock(t) \/ ReadLock(t)
Steps(t) ==
  \/ CohortLock(t) \/ CohortLocal(t) \/ CohortGot(t) \/ CohortGlobal(t) \/ CohortCount(t)
  \/ CohortUnlock(t) \/ CohortUnlockAll(t) \/ CohortRelease(t)
  \/ TryLocal(t) \/ TryGot(t) \/ TryGlobal(t) \/ TryUndo(t) \/ TryCount(t)
  \/ WriteBarrier(t) \/ WriteDrain(t) \/ WriteReaders(t) \/ WritePoll(t) \/ WriteRaise(t)
  \/ WriteLower(t) \/ WriteUnlock(t)
  \/ ReadBarrier(t) \/ ReadCount(t) \/ ReadCheck(t) \/ ReadBack(t) \/ ReadPoll(t)
  \/ ReadRaise(t) \/ ReadLower(t) \/ ReadUnlock(t)

-----------------------------------------------------------------------------
\* Passing the lock on never goes beyond the limit, and whoever finds it
\* passed on has the lock for all.
CohortPasses ==
  \A c \in Cohorts :
    /\ m.acquired[c] <= PassLimit
    /\ m.release[c] = "local" => m.global = c
=============================================================================
