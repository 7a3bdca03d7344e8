--------------------------- MODULE SpinlockTicket ---------------------------
(***************************************************************************)
(* The ticket lock of include/spinlock/ticket.h, in both of its forms: the *)
(* two counters packed into one word, with a trylock (x86), and the two    *)
(* separate counters of every other target, without one.                   *)
(*                                                                         *)
(* The counters are unsigned integers of Mod values and start at Base, as  *)
(* they do after Base uncontended acquisitions.  Every atomic access is a  *)
(* step.  Fewer than Mod threads use the lock ("it is only an issue if     *)
(* there are 2^32 pending lock requests").                                 *)
(***************************************************************************)
EXTENDS Integers, Sequences, FiniteSets

CONSTANTS Threads, Mod, Base

ASSUME TicketAssumption ==
  /\ IsFiniteSet(Threads) /\ Threads # {}
  /\ Mod \in Nat /\ Base \in 0 .. Mod - 1
  /\ Cardinality(Threads) < Mod

VARIABLES
  packed,           \* which form; fixed when ck is configured
  next, position,   \* the two counters, or the two halves of value
  pc,
  request,          \* thread -> its ticket
  snapshot,         \* thread -> what its trylock or unlock loaded
  arrivals          \* history: threads in the order of their tickets

vars == <<packed, next, position, pc, request, snapshot, arrivals>>

\* Mutant: the increment does not wrap.
Inc_NoWrap(a) == a + 1

Inc(a) == IF a + 1 = Mod THEN 0 ELSE a + 1
Sub(a, b) == IF a >= b THEN a - b ELSE a - b + Mod

Init ==
  /\ packed \in BOOLEAN
  /\ next = Base /\ position = Base
  /\ pc = [t \in Threads |-> "idle"]
  /\ request = [t \in Threads |-> Base]
  /\ snapshot = [t \in Threads |-> Base]
  /\ arrivals = <<>>

Goto(t, from, to) == pc[t] = from /\ pc' = [pc EXCEPT ![t] = to]

\* Mutant: the increment of the next ticket is a load and a store.
Faa_NotAtomic(t) ==
  /\ Goto(t, "idle", "spin")
  /\ request' = [request EXCEPT ![t] = next]
  /\ next' \in {next, Inc(next)}
  /\ arrivals' = Append(arrivals, t)
  /\ UNCHANGED <<packed, position, snapshot>>

\* Get a ticket: the fetch-and-add.
Faa(t) ==
  /\ Goto(t, "idle", "spin")
  /\ request' = [request EXCEPT ![t] = next]
  /\ next' = Inc(next)
  /\ arrivals' = Append(arrivals, t)
  /\ UNCHANGED <<packed, position, snapshot>>

\* The load of position sees the ticket (lock and lock_pb alike).
Spin(t) ==
  /\ Goto(t, "spin", "cs")
  /\ position = request[t]
  /\ UNCHANGED <<packed, next, position, request, snapshot, arrivals>>

\* The load of a trylock: it finds the lock taken and returns false ...
TryTaken(t) ==
  /\ packed /\ pc[t] = "idle"
  /\ position # next
  /\ UNCHANGED vars

\* ... or free, and the compare-and-swap of the whole word follows.
TryLoad(t) ==
  /\ packed /\ Goto(t, "idle", "try")
  /\ position = next
  /\ snapshot' = [snapshot EXCEPT ![t] = next]
  /\ UNCHANGED <<packed, next, position, request, arrivals>>

\* Mutant: the trylock swaps the next half of the word alone.
TryCas_HalfWord(t) ==
  /\ Goto(t, "try", "cs")
  /\ next = snapshot[t]
  /\ next' = Inc(next)
  /\ request' = [request EXCEPT ![t] = next]
  /\ arrivals' = Append(arrivals, t)
  /\ UNCHANGED <<packed, position, snapshot>>

TryCas(t) ==
  /\ Goto(t, "try", "cs")
  /\ next = snapshot[t] /\ position = snapshot[t]
  /\ next' = Inc(next)
  /\ request' = [request EXCEPT ![t] = next]
  /\ arrivals' = Append(arrivals, t)
  /\ UNCHANGED <<packed, position, snapshot>>

TryCasFail(t) ==
  /\ Goto(t, "try", "idle")
  /\ ~(next = snapshot[t] /\ position = snapshot[t])
  /\ UNCHANGED <<packed, next, position, request, snapshot, arrivals>>

\* Unlock of the packed form: one atomic increment of the low half.
UnlockPacked(t) ==
  /\ packed /\ Goto(t, "cs", "idle")
  /\ position' = Inc(position)
  /\ arrivals' = Tail(arrivals)
  /\ UNCHANGED <<packed, next, request, snapshot>>

\* Unlock of the other form: a load and a store.
UnlockLoad(t) ==
  /\ ~packed /\ Goto(t, "cs", "unlock")
  /\ snapshot' = [snapshot EXCEPT ![t] = position]
  /\ UNCHANGED <<packed, next, position, request, arrivals>>

\* Mutant: the store does not advance the position.
UnlockStore_Lost(t) ==
  /\ Goto(t, "unlock", "idle")
  /\ position' = snapshot[t]
  /\ arrivals' = Tail(arrivals)
  /\ UNCHANGED <<packed, next, request, snapshot>>

UnlockStore(t) ==
  /\ Goto(t, "unlock", "idle")
  /\ position' = Inc(snapshot[t])
  /\ arrivals' = Tail(arrivals)
  /\ UNCHANGED <<packed, next, request, snapshot>>

Acquire(t) == Faa(t) \/ Spin(t) \/ TryTaken(t) \/ TryLoad(t) \/ TryCas(t) \/ TryCasFail(t)
Release(t) == UnlockPacked(t) \/ UnlockLoad(t) \/ UnlockStore(t)
Next == \E t \in Threads : Acquire(t) \/ Release(t)
Spec == Init /\ [][Next]_vars

\* A thread that has called lock, or holds the lock, keeps running.
FairSpec ==
  Spec /\ \A t \in Threads : WF_vars(pc[t] # "idle" /\ (Acquire(t) \/ Release(t)))

-----------------------------------------------------------------------------

TypeOK ==
  /\ packed \in BOOLEAN
  /\ next \in 0 .. Mod - 1 /\ position \in 0 .. Mod - 1
  /\ pc \in [Threads -> {"idle", "spin", "try", "cs", "unlock"}]
  /\ request \in [Threads -> 0 .. Mod - 1]
  /\ snapshot \in [Threads -> 0 .. Mod - 1]
  /\ arrivals \in Seq(Threads)

Holders == {t \in Threads : pc[t] \in {"cs", "unlock"}}

\* At most one thread is between its acquisition and its release, however the
\* counters wrap and whatever mixture of lock and trylock is used.
MutualExclusion == \A s, t \in Holders : s = t

Active == {t \in Threads : pc[t] \in {"spin", "cs", "unlock"}}

\* Why the lock is safe although tickets wrap around: the tickets given out
\* and not yet served are exactly the interval from position to next, which
\* never closes on itself; every thread in a call has a ticket of its own in
\* it, in the order of arrival, and a holder has the first one.
Tickets ==
  /\ Cardinality(Active) = Sub(next, position)
  /\ Len(arrivals) = Sub(next, position)
  /\ \A t \in Active : Sub(request[t], position) < Sub(next, position)
  /\ \A s, t \in Active : request[s] = request[t] => s = t
  /\ \A i \in 1 .. Len(arrivals) :
       arrivals[i] \in Active /\ Sub(request[arrivals[i]], position) = i - 1
  /\ \A t \in Holders : request[t] = position
  /\ \A t \in Threads : pc[t] = "unlock" => snapshot[t] = position

\* The lock is granted in the order of the fetch-and-adds, and to a trylock
\* only when nobody holds or awaits it.
Fifo == INSTANCE FifoLock WITH queue <- arrivals, holders <- Holders
ImplementsFifoLock == Fifo!Spec

\* Starvation freedom: a thread that has a ticket gets the lock.
NoStarvation == \A t \in Threads : pc[t] = "spin" ~> pc[t] = "cs"
=============================================================================
