---------------------------- MODULE SpinlockWord ----------------------------
(***************************************************************************)
(* The three centralized spinlocks of include/spinlock: cas.h, fas.h       *)
(* (which is also ck_spinlock_t) and dec.h.  They differ in the atomic     *)
(* operation an attempt makes on the lock word and in the word's free      *)
(* value, chosen by the constant Kind.  The word is an unsigned integer of *)
(* Mod values: every failed attempt decrements a dec lock further, and it  *)
(* is assumed that fewer than Mod threads use the lock ("No more than      *)
(* UINT_MAX lock requests can happen while the lock is held").             *)
(***************************************************************************)
EXTENDS Integers

CONSTANTS Threads, Kind, Mod

VARIABLES value, pc

vars == <<value, pc>>

\* false, or 1 for the dec lock.
Free == IF Kind = "dec" THEN 1 ELSE 0
Taken == IF Kind = "dec" THEN 0 ELSE 1

Init ==
  /\ value = Free
  /\ pc = [t \in Threads |-> "idle"]

Goto(t, from, to) == pc[t] = from /\ pc' = [pc EXCEPT ![t] = to]

\* The call of lock or of lock_eb, which waits in another loop.
Lock(t) == Goto(t, "idle", "try") /\ UNCHANGED value
LockEb(t) == Goto(t, "idle", "try_eb") /\ UNCHANGED value

\* What one atomic attempt leaves in the word: a compare-and-swap, a
\* fetch-and-store or a decrement.
Attempted ==
  IF Kind = "dec" THEN (IF value = 0 THEN Mod - 1 ELSE value - 1)
  ELSE IF Kind = "cas" /\ value # Free THEN value ELSE Taken

\* An attempt gets the lock exactly if the word was free.
Attempt(t) ==
  /\ value' = Attempted
  /\ \/ Goto(t, "try", "cs") /\ value = Free
     \/ Goto(t, "try", "spin") /\ value # Free
     \/ Goto(t, "try_eb", "cs") /\ value = Free
     \/ Goto(t, "try_eb", "backoff") /\ value # Free

\* lock spins on a load until the word looks free ...
Spin(t) == Goto(t, "spin", "try") /\ value = Free /\ UNCHANGED value

\* ... and so does lock_eb of the dec lock; the others just try again later.
Backoff(t) ==
  /\ Goto(t, "backoff", "try_eb")
  /\ Kind = "dec" => value = Free
  /\ UNCHANGED value

\* Mutant: a trylock of the dec lock accepts any word that is not zero.
Trylock_NotZero(t) ==
  /\ value' = Taken
  /\ \/ Goto(t, "idle", "cs") /\ value # Taken
     \/ pc[t] = "idle" /\ value = Taken /\ UNCHANGED pc

\* trylock is a fetch-and-store in all three: it overwrites the word whether
\* or not it gets the lock.
Trylock(t) ==
  /\ value' = Taken
  /\ \/ Goto(t, "idle", "cs") /\ value = Free
     \/ pc[t] = "idle" /\ value # Free /\ UNCHANGED pc

\* Mutant: the store of the free value is lost.
Unlock_Lost(t) == Goto(t, "cs", "idle") /\ value' = Taken

Unlock(t) == Goto(t, "cs", "idle") /\ value' = Free

Step(t) ==
  \/ Lock(t) \/ LockEb(t) \/ Attempt(t) \/ Spin(t) \/ Backoff(t)
  \/ Trylock(t) \/ Unlock(t)
Next == \E t \in Threads : Step(t)
Spec == Init /\ [][Next]_vars

-----------------------------------------------------------------------------

Holders == {t \in Threads : pc[t] = "cs"}

\* cas_locked, fas_locked and dec_locked.
Locked == value # Free
=============================================================================
