------------------------------ MODULE FifoLock ------------------------------
(***************************************************************************)
(* What the table of doc/ck_spinlock calls a fair lock: requests are       *)
(* queued in the order of one atomic step each and the lock is granted to  *)
(* the head of the queue only, one thread at a time.  A trylock is granted *)
(* only when nobody holds or awaits the lock.                              *)
(***************************************************************************)
EXTENDS Naturals, Sequences

CONSTANT Threads

VARIABLES
  queue,     \* requests in order; the holder, if any, is its head
  holders    \* the threads that hold the lock

vars == <<queue, holders>>

Init == queue = <<>> /\ holders = {}

Request(t) ==
  /\ \A i \in DOMAIN queue : queue[i] # t
  /\ queue' = Append(queue, t)
  /\ UNCHANGED holders

Grant ==
  /\ queue # <<>> /\ holders = {}
  /\ holders' = {Head(queue)}
  /\ UNCHANGED queue

TryGrant(t) ==
  /\ queue = <<>> /\ holders = {}
  /\ queue' = <<t>> /\ holders' = {t}

Release ==
  /\ holders # {}
  /\ holders' = {}
  /\ queue' = Tail(queue)

Next == (\E t \in Threads : Request(t) \/ TryGrant(t)) \/ Grant \/ Release

Spec == Init /\ [][Next]_vars
=============================================================================
