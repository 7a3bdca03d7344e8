----------------------------- MODULE Spinlocks -----------------------------
(***************************************************************************)
(* The spinlocks of ck_spinlock.h share one interface and one test driver, *)
(* regressions/ck_spinlock/validate/validate.h, which is compiled once for *)
(* every lock.  This module does the same: a behaviour is one of the locks *)
(* in use by Threads, and the properties are stated once for all of them.  *)
(* The ticket lock has a module and proofs of its own, SpinlockTicket.     *)
(***************************************************************************)
EXTENDS Integers, Sequences, FiniteSets, TLC

CONSTANTS
  Threads, NULL,
  WordMod,              \* values of the word of a centralized lock
  Counts,               \* Anderson: numbers of slots
  NextMod, Base,        \* Anderson: values of next, and its first one
  unowned,              \* CLH: the initial node
  Clusters, globalNode  \* hierarchical CLH: clusters, and the initial node

\* No lock has more users than its word can count or than it has slots; nodes
\* of different origin are different.
ASSUME SpinlocksAssumption ==
  /\ IsFiniteSet(Threads)
  /\ WordMod \in Nat \ {0, 1} /\ Cardinality(Threads) < WordMod
  /\ NextMod \in Nat /\ Base \in 0 .. NextMod - 1
  /\ Counts \subseteq 1 .. NextMod - 1 /\ \A n \in Counts : Cardinality(Threads) <= n
  /\ Threads \cap Clusters = {}
  /\ NULL \notin Threads \cup Clusters \cup {unowned, globalNode}
  /\ unowned \notin Threads /\ globalNode \notin Threads \cup Clusters

VARIABLES
  lock,                                   \* which lock this behaviour is about
  pc, value,
  queue, locked, next, previous, successor, arrivals,
  wait, prevOf, thread,
  count, slots, position,
  home, glob, local, splice, id, tail, place, turn

mcsOnly == <<locked, successor>>
clhNodes == <<wait, prevOf, thread>>
andersonOnly == <<count, slots, position>>
hclhOnly == <<home, glob, local, splice, id, tail, place, turn>>
vars == <<lock, pc, value, queue, next, previous, arrivals,
          mcsOnly, clhNodes, andersonOnly, hclhOnly>>

Cas == INSTANCE SpinlockWord WITH Kind <- "cas", Mod <- WordMod
Fas == INSTANCE SpinlockWord WITH Kind <- "fas", Mod <- WordMod
Dec == INSTANCE SpinlockWord WITH Kind <- "dec", Mod <- WordMod
Mcs == INSTANCE SpinlockMcs
Clh == INSTANCE SpinlockClh
Hclh == INSTANCE SpinlockHclh
Anderson == INSTANCE SpinlockAnderson WITH Mod <- NextMod

-----------------------------------------------------------------------------

NoMcs == locked = NULL /\ successor = NULL
NoClh == wait = NULL /\ prevOf = NULL /\ thread = NULL
NoAnderson == count = NULL /\ slots = NULL /\ position = NULL
NoHclh ==
  /\ home = NULL /\ glob = NULL /\ local = NULL /\ splice = NULL
  /\ id = NULL /\ tail = NULL /\ place = NULL /\ turn = NULL

\* One lock is initialised; the variables of the others are not used.
Init ==
  \/ /\ \/ lock = "cas" /\ Cas!Init
        \/ lock = "fas" /\ Fas!Init
        \/ lock = "dec" /\ Dec!Init
     /\ queue = NULL /\ next = NULL /\ previous = NULL /\ arrivals = <<>>
     /\ NoMcs /\ NoClh /\ NoAnderson /\ NoHclh
  \/ /\ lock = "mcs" /\ Mcs!Init
     /\ value = NULL /\ NoClh /\ NoAnderson /\ NoHclh
  \/ /\ lock = "clh" /\ Clh!Init
     /\ value = NULL /\ next = NULL /\ NoMcs /\ NoAnderson /\ NoHclh
  \/ /\ lock = "anderson" /\ Anderson!Init
     /\ value = NULL /\ queue = NULL /\ previous = NULL /\ NoMcs /\ NoClh /\ NoHclh
  \/ /\ lock = "hclh" /\ Hclh!Init
     /\ value = NULL /\ queue = NULL /\ next = NULL /\ arrivals = <<>>
     /\ NoMcs /\ NoAnderson

\* A step of thread t on the lock.
Step(t) ==
  /\ UNCHANGED lock
  /\ \/ /\ \/ lock = "cas" /\ Cas!Step(t)
           \/ lock = "fas" /\ Fas!Step(t)
           \/ lock = "dec" /\ Dec!Step(t)
        /\ UNCHANGED <<queue, next, previous, arrivals,
                       mcsOnly, clhNodes, andersonOnly, hclhOnly>>
     \/ /\ lock = "mcs" /\ Mcs!Step(t)
        /\ UNCHANGED <<value, clhNodes, andersonOnly, hclhOnly>>
     \/ /\ lock = "clh" /\ Clh!Step(t)
        /\ UNCHANGED <<value, next, mcsOnly, andersonOnly, hclhOnly>>
     \/ /\ lock = "anderson" /\ Anderson!Step(t)
        /\ UNCHANGED <<value, queue, previous, mcsOnly, clhNodes, hclhOnly>>
     \/ /\ lock = "hclh" /\ Hclh!Step(t)
        /\ UNCHANGED <<value, queue, next, arrivals, mcsOnly, andersonOnly>>

Next == \E t \in Threads : Step(t)
Spec == Init /\ [][Next]_vars

\* A thread that has called lock or holds the lock keeps running; nobody has
\* to call lock.
FairSpec == Spec /\ \A t \in Threads : WF_vars(pc[t] # "idle" /\ Step(t))

-----------------------------------------------------------------------------

Holders ==
  IF lock = "mcs" THEN Mcs!Holders ELSE IF lock = "clh" THEN Clh!Holders
  ELSE IF lock = "anderson" THEN Anderson!Holders ELSE IF lock = "hclh" THEN Hclh!Holders
  ELSE Cas!Holders

Locked ==
  IF lock = "mcs" THEN Mcs!Locked ELSE IF lock = "clh" THEN Clh!Locked
  ELSE IF lock = "anderson" THEN Anderson!Locked ELSE IF lock = "hclh" THEN Hclh!Locked
  ELSE IF lock = "dec" THEN Dec!Locked ELSE Cas!Locked

\* At most one thread is between its acquisition and its release, whatever
\* mixture of lock, lock_eb and trylock the threads use, while failing
\* attempts keep changing the word and counters wrap.
MutualExclusion == Cardinality(Holders) <= 1

\* *_locked, called by a thread that holds the lock, returns true, as the test
\* driver requires (validate.h: "is_locked operation failed."), although
\* waiters, failing attempts and the mask of the Anderson lock decide what it
\* looks at.
HolderSeesLocked == (\E t \in Threads : pc[t] = "cs") => Locked

\* The locks that keep nodes on the callers' stacks or pass them around never
\* touch a node that its owner may already be using for something else.
NodeReuse ==
  /\ lock = "mcs" => Mcs!NodeLifetime
  /\ lock = "clh" => Clh!OwnNode
  /\ lock = "hclh" => Hclh!OwnNode /\ Hclh!MarkInTime

\* The queue locks grant the lock in the order of the atomic operation by
\* which a request joined the queue, and to a trylock only when nobody holds
\* or awaits it.
Fifo == INSTANCE FifoLock WITH
  queue <- arrivals,
  holders <- IF lock \in {"mcs", "clh", "anderson"} THEN Holders ELSE {}
ImplementsFifoLock == Fifo!Spec

\* Starvation freedom of the queue locks: a thread that has announced its
\* request gets the lock, however the others behave.
NoStarvation ==
  \A t \in Threads :
    (/\ lock \in {"mcs", "clh", "anderson", "hclh"}
     /\ pc[t] \in {"swap", "link", "store", "spin"}) ~> pc[t] = "cs"

\* The centralized locks promise no more than that the lock does not stand
\* idle while threads want it.
Progress ==
  (/\ lock \in {"cas", "fas", "dec"}
   /\ \E t \in Threads : pc[t] \notin {"idle", "cs"}) ~> Holders # {}

-----------------------------------------------------------------------------
\* For TLC: threads can be exchanged, and so can clusters.
Symmetry == Permutations(Threads) \cup Permutations(Clusters)
=============================================================================
