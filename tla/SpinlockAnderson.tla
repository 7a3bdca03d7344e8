-------------------------- MODULE SpinlockAnderson --------------------------
(***************************************************************************)
(* The array queue lock of include/spinlock/anderson.h, for a number of    *)
(* slots that is a power of two (one fetch-and-add) and for any other      *)
(* number (a compare-and-swap loop that skips values at the overflow of    *)
(* next, so that consecutive requests keep getting consecutive slots).     *)
(* next is an unsigned integer of Mod values and starts at Base, as after  *)
(* Base uncontended acquisitions.                                          *)
(***************************************************************************)
EXTENDS Integers, Sequences

CONSTANTS
  Threads,
  Counts,     \* the numbers of slots a caller may provide
  Mod, Base

VARIABLES
  count,      \* the number of slots, fixed by init
  next,
  slots,      \* slot -> its locked flag
  pc,
  position,   \* thread -> its position, then its slot
  arrivals    \* history: threads in the order of their requests

vars == <<count, next, slots, pc, position, arrivals>>

\* Mutant: the value that follows the largest one is off by one.
wrap_OffByOne == IF Mod % count = 0 THEN 0 ELSE (Mod - 1) % count

\* 0 if count is a power of two (divides Mod), else the value of next that
\* follows the largest one.
wrap == IF Mod % count = 0 THEN 0 ELSE ((Mod - 1) % count) + 1

Init ==
  /\ count \in Counts
  /\ next = Base
  /\ slots = [i \in 0 .. count - 1 |-> i # Base % count]
  /\ pc = [t \in Threads |-> "idle"]
  /\ position = [t \in Threads |-> 0]
  /\ arrivals = <<>>

Goto(t, from, to) == pc[t] = from /\ pc' = [pc EXCEPT ![t] = to]

Incremented(p) == IF p = Mod - 1 THEN wrap ELSE p + 1

\* count is a power of two: fetch-and-add.
Faa(t) ==
  /\ wrap = 0
  /\ Goto(t, "idle", "spin")
  /\ next' = (next + 1) % Mod
  /\ position' = [position EXCEPT ![t] = next % count]
  /\ arrivals' = Append(arrivals, t)
  /\ UNCHANGED <<count, slots>>

\* It is not: load next ...
Load(t) ==
  /\ wrap # 0
  /\ Goto(t, "idle", "cas")
  /\ position' = [position EXCEPT ![t] = next]
  /\ UNCHANGED <<count, next, slots, arrivals>>

\* ... and advance it with a compare-and-swap.
Cas(t) ==
  /\ Goto(t, "cas", "spin")
  /\ next = position[t]
  /\ next' = Incremented(position[t])
  /\ position' = [position EXCEPT ![t] = @ % count]
  /\ arrivals' = Append(arrivals, t)
  /\ UNCHANGED <<count, slots>>

CasFail(t) ==
  /\ pc[t] = "cas"
  /\ next # position[t]
  /\ position' = [position EXCEPT ![t] = next]
  /\ UNCHANGED <<count, next, slots, pc, arrivals>>

\* Spin until the slot is marked as unlocked.
Spin(t) ==
  /\ Goto(t, "spin", "mark")
  /\ ~slots[position[t]]
  /\ UNCHANGED <<count, next, slots, position, arrivals>>

\* Prepare the slot for potential re-use by another thread.
Mark(t) ==
  /\ Goto(t, "mark", "cs")
  /\ slots' = [slots EXCEPT ![position[t]] = TRUE]
  /\ UNCHANGED <<count, next, position, arrivals>>

\* Mark the next slot as available.
Unlock(t) ==
  /\ Goto(t, "cs", "idle")
  /\ slots' = [slots EXCEPT ![(position[t] + 1) % count] = FALSE]
  /\ arrivals' = Tail(arrivals)
  /\ UNCHANGED <<count, next, position>>

Step(t) ==
  Faa(t) \/ Load(t) \/ Cas(t) \/ CasFail(t) \/ Spin(t) \/ Mark(t) \/ Unlock(t)
Next == \E t \in Threads : Step(t)
Spec == Init /\ [][Next]_vars

-----------------------------------------------------------------------------

Holders == {t \in Threads : pc[t] \in {"mark", "cs"}}

\* c = a & b, bit by bit; b is below 2^b.
IsAnd(c, a, b) ==
  \A k \in 0 .. b : (c \div 2^k) % 2 = ((a \div 2^k) % 2) * ((b \div 2^k) % 2)

\* anderson_locked looks at the slot next & (count - 1).  This is no mask when
\* count is not a power of two: then it may be some other slot than the next.
Locked == \A i \in 0 .. count - 1 : IsAnd(i, next, count - 1) => slots[i]
=============================================================================
