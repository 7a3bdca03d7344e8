-------------------------- MODULE SpinlocksProofs --------------------------
(***************************************************************************)
(* Every spinlock of include/spinlock but the ticket lock: the             *)
(* centralized locks (cas, fas, dec), the queue locks (mcs, clh, anderson) *)
(* and the hierarchical queue lock (hclh).                                 *)
(*                                                                         *)
(* The invariant is one per lock.  For the centralized locks it ties the   *)
(* word to the holder.  For mcs, clh and anderson it says what memory      *)
(* looks like along arrivals, the queue of those who have asked for the    *)
(* lock: which node points to which, whose flag is set, which slot is      *)
(* free.  For hclh it describes a queue per cluster (place) and the global *)
(* one (turn), and where a thread stands between the two.                  *)
(***************************************************************************)
EXTENDS Spinlocks, FiniteSetTheorems, TLAPS

-----------------------------------------------------------------------------
(* The centralized locks: ck_spinlock_cas, ck_spinlock_fas, ck_spinlock_dec. *)

\* The locks that are one word.
Words == {"cas", "fas", "dec"}
\* The threads whose attempts may have decremented the word of a dec lock.
WordWaiting == {t \in Threads : pc[t] \in {"spin", "backoff"}}

\* A word is free exactly when nobody is in the critical section; the word of
\* a dec lock is below 1 by no more than the attempts that failed.
WordInv ==
  /\ pc \in [Threads -> {"idle", "try", "try_eb", "spin", "backoff", "cs"}]
  /\ \A t, u \in Threads : pc[t] = "cs" /\ pc[u] = "cs" => t = u
  /\ lock # "dec" => value \in {0, 1} /\ (value = 0 <=> \A t \in Threads : pc[t] # "cs")
  /\ lock = "dec" => /\ value \in 0 .. WordMod - 1
                     /\ value = 1 <=> \A t \in Threads : pc[t] # "cs"
                     /\ value > 1 => WordMod - value <= Cardinality(WordWaiting)

\* A new lock is free.
LEMMA WordInit ==
  ASSUME Init, lock \in Words
  PROVE  WordInv
  <1>1. CASE lock = "cas"
    BY <1>1, SpinlocksAssumption DEF Init, WordInv, Words, Cas!Init, Cas!Free
  <1>2. CASE lock = "fas"
    BY <1>2, SpinlocksAssumption DEF Init, WordInv, Words, Fas!Init, Fas!Free
  <1>3. CASE lock = "dec"
    BY <1>3, SpinlocksAssumption DEF Init, WordInv, Words, Dec!Init, Dec!Free
  <1> QED BY <1>1, <1>2, <1>3 DEF Words

\* Every step of ck_spinlock_cas preserves the invariant.
LEMMA CasStep ==
  ASSUME WordInv, lock = "cas", NEW t \in Threads, Cas!Step(t), lock' = lock
  PROVE  WordInv'
  <1> USE DEF WordInv, Cas!Goto, Cas!Free, Cas!Taken
  <1>1. CASE Cas!Lock(t) \/ Cas!LockEb(t) \/ Cas!Spin(t) \/ Cas!Backoff(t)
    BY <1>1 DEF Cas!Lock, Cas!LockEb, Cas!Spin, Cas!Backoff
  <1>2. CASE Cas!Attempt(t)
    BY <1>2 DEF Cas!Attempt, Cas!Attempted
  <1>3. CASE Cas!Trylock(t)
    BY <1>3 DEF Cas!Trylock
  <1>4. CASE Cas!Unlock(t)
    BY <1>4 DEF Cas!Unlock
  <1> QED BY <1>1, <1>2, <1>3, <1>4 DEF Cas!Step

\* Every step of ck_spinlock_fas preserves the invariant.
LEMMA FasStep ==
  ASSUME WordInv, lock = "fas", NEW t \in Threads, Fas!Step(t), lock' = lock
  PROVE  WordInv'
  <1> USE DEF WordInv, Fas!Goto, Fas!Free, Fas!Taken
  <1>1. CASE Fas!Lock(t) \/ Fas!LockEb(t) \/ Fas!Spin(t) \/ Fas!Backoff(t)
    BY <1>1 DEF Fas!Lock, Fas!LockEb, Fas!Spin, Fas!Backoff
  <1>2. CASE Fas!Attempt(t)
    BY <1>2 DEF Fas!Attempt, Fas!Attempted
  <1>3. CASE Fas!Trylock(t)
    BY <1>3 DEF Fas!Trylock
  <1>4. CASE Fas!Unlock(t)
    BY <1>4 DEF Fas!Unlock
  <1> QED BY <1>1, <1>2, <1>3, <1>4 DEF Fas!Step

\* Failed attempts cannot bring the word of a dec lock back to 1.
LEMMA DecStep ==
  ASSUME WordInv, lock = "dec", NEW t \in Threads, Dec!Step(t), lock' = lock
  PROVE  WordInv'
  <1> USE DEF WordInv, Dec!Goto, Dec!Free, Dec!Taken
  <1>0. WordMod \in Nat /\ WordMod > 1 /\ IsFiniteSet(Threads)
        /\ Cardinality(Threads) < WordMod /\ Cardinality(Threads) \in Nat
    BY SpinlocksAssumption, FS_CardinalityType
  <1>1. CASE Dec!Lock(t) \/ Dec!LockEb(t)
    <2>1. WordWaiting' = WordWaiting /\ value' = value
      BY <1>1 DEF Dec!Lock, Dec!LockEb, WordWaiting
    <2> QED BY <1>1, <2>1 DEF Dec!Lock, Dec!LockEb
  <1>2. CASE Dec!Spin(t) \/ Dec!Backoff(t)
    BY <1>2, <1>0 DEF Dec!Spin, Dec!Backoff
  <1>3. CASE Dec!Attempt(t) /\ value = 1
    BY <1>3, <1>0 DEF Dec!Attempt, Dec!Attempted
  <1>4. CASE Dec!Attempt(t) /\ value # 1
    <2>1. t \notin WordWaiting /\ WordWaiting' = WordWaiting \cup {t} /\ IsFiniteSet(WordWaiting)
      BY <1>0, <1>4, FS_Subset DEF Dec!Attempt, WordWaiting
    <2>2. Cardinality(WordWaiting') = Cardinality(WordWaiting) + 1
            /\ Cardinality(WordWaiting) \in Nat
      BY <2>1, FS_AddElement, FS_CardinalityType
    <2>3. PICK h \in Threads : pc[h] = "cs"
      BY <1>4
    <2>4. h # t /\ h \notin WordWaiting'
      BY <1>4, <2>1, <2>3 DEF Dec!Attempt, WordWaiting
    <2>5. /\ IsFiniteSet(WordWaiting' \cup {h}) /\ WordWaiting' \cup {h} \subseteq Threads
          /\ Cardinality(WordWaiting' \cup {h}) = Cardinality(WordWaiting') + 1
      <3>1. IsFiniteSet(WordWaiting')
        BY <2>1, FS_AddElement
      <3> QED BY <3>1, <2>4, <2>3, FS_AddElement DEF WordWaiting
    <2>6. Cardinality(WordWaiting) + 2 <= Cardinality(Threads)
      BY <2>5, <2>2, <1>0, FS_Subset
    <2>7. value # 2
      BY <2>6, <2>2, <1>0
    <2>8. value' = (IF value = 0 THEN WordMod - 1 ELSE value - 1)
      BY <1>4 DEF Dec!Attempt, Dec!Attempted
    <2>9. /\ pc' \in [Threads -> {"idle", "try", "try_eb", "spin", "backoff", "cs"}]
          /\ \A u \in Threads : pc'[u] = "cs" <=> pc[u] = "cs"
      BY <1>4 DEF Dec!Attempt
    <2>10. value' \in 0 .. WordMod - 1 /\ value' # 1
      BY <2>6, <2>2, <2>7, <2>8, <1>4, <1>0
    <2>11. WordMod - value' <= Cardinality(WordWaiting')
      BY <2>2, <2>8, <1>4, <1>0
    <2> QED BY <2>3, <2>9, <2>10, <2>11
  <1>5. CASE Dec!Trylock(t)
    BY <1>5, <1>0 DEF Dec!Trylock
  <1>6. CASE Dec!Unlock(t)
    BY <1>6, <1>0 DEF Dec!Unlock
  <1> QED BY <1>1, <1>2, <1>3, <1>4, <1>5, <1>6 DEF Dec!Step

\* What the invariant of the centralized locks says.
LEMMA WordSafe ==
  ASSUME WordInv, lock \in Words
  PROVE  /\ \A t, u \in Holders : t = u /\ Holders \subseteq Threads
         /\ HolderSeesLocked
  <1>1. Holders = {t \in Threads : pc[t] = "cs"}
    BY DEF Holders, Words, Cas!Holders
  <1>2. HolderSeesLocked
    <2>1. CASE lock = "dec"
      BY <2>1 DEF HolderSeesLocked, Locked, WordInv, Dec!Locked, Dec!Free
    <2>2. CASE lock # "dec"
      BY <2>2 DEF HolderSeesLocked, Locked, WordInv, Cas!Locked, Cas!Free, Words
    <2> QED BY <2>1, <2>2
  <1> QED BY <1>1, <1>2 DEF WordInv

-----------------------------------------------------------------------------
(* What the queue locks have in common.                                    *)

\* The locks that hand the lock over in the order of the requests.
QueueLocks == {"mcs", "clh", "anderson"}

\* The labels of the threads in the queue, and of those that hold the lock.
HolderLabels ==
  IF lock = "mcs" THEN {"cs", "u_tail", "u_cas", "u_wait", "u_pass"}
  ELSE IF lock = "clh" THEN {"cs", "u_clear"} ELSE {"mark", "cs"}
QueueLabels ==
  HolderLabels \cup (IF lock = "mcs" THEN {"link", "spin"}
                     ELSE IF lock = "clh" THEN {"store", "spin"} ELSE {"spin"})

\* All labels of the queue locks.
Labels ==
  {"idle", "try", "swap", "link", "cas", "store", "spin", "mark", "cs",
   "u_tail", "u_cas", "u_wait", "u_pass", "u_clear", "u_take"}

\* A thread has asked for the lock.
InQueue(t) == \E i \in 1 .. Len(arrivals) : arrivals[i] = t
\* The queue holds the threads that have asked, once each, and only its head
\* may hold the lock.
Queued ==
  /\ arrivals \in Seq(Threads)
  /\ \A i, j \in 1 .. Len(arrivals) : arrivals[i] = arrivals[j] => i = j
  /\ \A t \in Threads : pc[t] \in QueueLabels <=> InQueue(t)
  /\ \A i \in 1 .. Len(arrivals) : pc[arrivals[i]] \in HolderLabels => i = 1

\* The holders of a queue lock, by their labels.
LEMMA QueueHolders ==
  ASSUME lock \in QueueLocks
  PROVE  Holders = {t \in Threads : pc[t] \in HolderLabels}
  <1>1. CASE lock = "mcs"
    BY <1>1 DEF Holders, HolderLabels, Mcs!Holders
  <1>2. CASE lock = "clh"
    BY <1>2 DEF Holders, HolderLabels, Clh!Holders
  <1>3. CASE lock = "anderson"
    BY <1>3 DEF Holders, HolderLabels, Anderson!Holders
  <1> QED BY <1>1, <1>2, <1>3 DEF QueueLocks

\* Only the head of the queue holds the lock.
LEMMA QueueExclusive ==
  ASSUME lock \in QueueLocks, Queued
  PROVE  /\ Holders \subseteq Threads /\ \A t, u \in Holders : t = u
         /\ \A t \in Holders : Len(arrivals) > 0 /\ t = arrivals[1]
         /\ Len(arrivals) > 0 /\ pc[arrivals[1]] \in HolderLabels => Holders = {arrivals[1]}
         /\ Len(arrivals) > 0 => arrivals[1] \in Threads
  <1>1. \A t \in Holders : t \in Threads /\ Len(arrivals) > 0 /\ t = arrivals[1]
    BY QueueHolders DEF Queued, InQueue, QueueLabels
  <1>2. Len(arrivals) > 0 => arrivals[1] \in Threads
    BY DEF Queued
  <1>3. Len(arrivals) > 0 /\ pc[arrivals[1]] \in HolderLabels => arrivals[1] \in Holders
    BY <1>2, QueueHolders
  <1> QED BY <1>1, <1>2, <1>3

\* A step of a thread that neither joins nor leaves the queue.
LEMMA QueueStay ==
  ASSUME lock \in QueueLocks, lock' = lock, Queued, pc \in [Threads -> Labels],
         NEW t \in Threads, NEW to, pc' = [pc EXCEPT ![t] = to], arrivals' = arrivals,
         pc[t] \in QueueLabels <=> to \in QueueLabels,
         pc[t] \in HolderLabels => to \in HolderLabels,
         to \in HolderLabels => t = arrivals[1]
  PROVE  Queued' /\ [Fifo!Next]_(Fifo!vars)
  <1>0. HolderLabels' = HolderLabels /\ QueueLabels' = QueueLabels
    BY DEF HolderLabels, QueueLabels
  <1>1. Queued'
    <2>1. \A u \in Threads : pc'[u] \in QueueLabels <=> pc[u] \in QueueLabels
      OBVIOUS
    <2>2. \A u \in Threads : pc'[u] \in HolderLabels => pc[u] \in HolderLabels \/ u = arrivals[1]
      OBVIOUS
    <2>3. \A u \in Threads : InQueue(u)' <=> InQueue(u)
      BY DEF InQueue
    <2>4. \A i \in 1 .. Len(arrivals) : pc'[arrivals[i]] \in HolderLabels => i = 1
      <3> SUFFICES ASSUME NEW i \in 1 .. Len(arrivals), pc'[arrivals[i]] \in HolderLabels
                   PROVE  i = 1
        OBVIOUS
      <3>1. arrivals[i] \in Threads /\ 1 \in 1 .. Len(arrivals)
        BY DEF Queued
      <3> QED BY <2>2, <3>1 DEF Queued
    <2> QED BY <1>0, <2>1, <2>3, <2>4 DEF Queued
  <1>2. Holders = {u \in Threads : pc[u] \in HolderLabels}
    BY QueueHolders
  <1>3. Holders' = {u \in Threads : pc'[u] \in HolderLabels}
    BY QueueHolders, <1>0
       DEF QueueLocks, Holders, HolderLabels, Mcs!Holders, Clh!Holders, Anderson!Holders
  <1>4. CASE pc[t] \in HolderLabels \/ to \notin HolderLabels
    <2>1. Holders' = Holders
      BY <1>2, <1>3, <1>4
    <2> QED BY <1>1, <2>1 DEF Fifo!vars
  <1>5. CASE pc[t] \notin HolderLabels /\ to \in HolderLabels
    <2>1. t = arrivals[1] /\ arrivals # <<>>
      <3>1. InQueue(t)
        BY <1>5 DEF Queued, QueueLabels
      <3> QED BY <1>5, <3>1 DEF InQueue, Queued
    <2>2. Holders = {}
      BY <1>2, <1>5, <2>1, QueueExclusive
    <2>3. Holders' = {t}
      BY <1>2, <1>3, <1>5, <2>2
    <2> QED BY <1>1, <2>1, <2>2, <2>3 DEF Fifo!Next, Fifo!Grant, QueueLocks, Queued
  <1> QED BY <1>4, <1>5

\* The atomic operation by which a thread joins the queue.
LEMMA QueueJoin ==
  ASSUME lock \in QueueLocks, lock' = lock, Queued, pc \in [Threads -> Labels],
         NEW t \in Threads, NEW to, pc' = [pc EXCEPT ![t] = to],
         arrivals' = Append(arrivals, t),
         pc[t] \notin QueueLabels, to \in QueueLabels,
         to \in HolderLabels => arrivals = <<>>
  PROVE  /\ Queued' /\ [Fifo!Next]_(Fifo!vars)
         /\ Len(arrivals') = Len(arrivals) + 1 /\ Len(arrivals) \in Nat
         /\ arrivals'[Len(arrivals) + 1] = t
         /\ \A i \in 1 .. Len(arrivals) : /\ arrivals'[i] = arrivals[i] /\ arrivals[i] \in Threads
                                          /\ arrivals[i] # t
  <1>0. HolderLabels' = HolderLabels /\ QueueLabels' = QueueLabels
    BY DEF HolderLabels, QueueLabels
  <1>1. /\ arrivals' \in Seq(Threads) /\ Len(arrivals') = Len(arrivals) + 1 /\ Len(arrivals) \in Nat
        /\ arrivals'[Len(arrivals) + 1] = t
        /\ \A i \in 1 .. Len(arrivals) : /\ arrivals'[i] = arrivals[i] /\ arrivals[i] \in Threads
    BY DEF Queued
  <1>2. \A i \in 1 .. Len(arrivals) : arrivals[i] # t
    BY DEF Queued, InQueue
  <1>3. \A u \in Threads : InQueue(u)' <=> InQueue(u) \/ u = t
    BY <1>1 DEF InQueue
  <1>4. Queued'
    <2>1. \A i, j \in 1 .. Len(arrivals') : arrivals'[i] = arrivals'[j] => i = j
      BY <1>1, <1>2 DEF Queued
    <2>2. \A u \in Threads : pc'[u] \in QueueLabels <=> InQueue(u)'
      BY <1>3 DEF Queued
    <2>3. \A i \in 1 .. Len(arrivals') : pc'[arrivals'[i]] \in HolderLabels => i = 1
      <3> SUFFICES ASSUME NEW i \in 1 .. Len(arrivals'), pc'[arrivals'[i]] \in HolderLabels
                   PROVE  i = 1
        OBVIOUS
      <3>1. CASE i \in 1 .. Len(arrivals)
        BY <3>1, <1>1, <1>2 DEF Queued
      <3>2. CASE i = Len(arrivals) + 1
        BY <3>2, <1>1
      <3> QED BY <3>1, <3>2, <1>1
    <2> QED BY <1>0, <1>1, <2>1, <2>2, <2>3 DEF Queued
  <1>5. Holders = {u \in Threads : pc[u] \in HolderLabels}
    BY QueueHolders
  <1>6. Holders' = {u \in Threads : pc'[u] \in HolderLabels}
    BY QueueHolders, <1>0
       DEF QueueLocks, Holders, HolderLabels, Mcs!Holders, Clh!Holders, Anderson!Holders
  <1>6a. pc[t] \notin HolderLabels
    BY DEF QueueLabels
  <1>7. CASE to \notin HolderLabels
    <2>1. Holders' = Holders
      BY <1>5, <1>6, <1>6a, <1>7
    <2>2. DOMAIN arrivals = 1 .. Len(arrivals)
      BY DEF Queued
    <2> QED BY <1>1, <1>2, <1>4, <2>1, <2>2 DEF Fifo!Next, Fifo!Request, QueueLocks
  <1>8. CASE to \in HolderLabels
    <2>1. arrivals = <<>> /\ arrivals' = <<t>>
      BY <1>8
    <2>2. Holders = {}
      BY <2>1, QueueExclusive
    <2>3. Holders' = {t}
      BY <1>5, <1>6, <1>8, <2>2
    <2> QED BY <1>1, <1>2, <1>4, <2>1, <2>2, <2>3 DEF Fifo!Next, Fifo!TryGrant, QueueLocks
  <1> QED BY <1>7, <1>8

\* The release.
LEMMA QueueLeave ==
  ASSUME lock \in QueueLocks, lock' = lock, Queued, pc \in [Threads -> Labels],
         NEW t \in Threads, NEW to, pc' = [pc EXCEPT ![t] = to],
         arrivals' = Tail(arrivals),
         pc[t] \in HolderLabels, to \notin QueueLabels
  PROVE  /\ Queued' /\ [Fifo!Next]_(Fifo!vars)
         /\ Len(arrivals) > 0 /\ arrivals[1] = t
         /\ Len(arrivals') = Len(arrivals) - 1 /\ Len(arrivals') \in Nat /\ Len(arrivals) \in Nat
         /\ \A i \in 1 .. Len(arrivals') :
               /\ arrivals'[i] = arrivals[i + 1] /\ arrivals[i + 1] \in Threads
               /\ arrivals[i + 1] # t
  <1>0. HolderLabels' = HolderLabels /\ QueueLabels' = QueueLabels
    BY DEF HolderLabels, QueueLabels
  <1>1. t \in Holders /\ Holders = {u \in Threads : pc[u] \in HolderLabels}
    BY QueueHolders
  <1>2. Len(arrivals) > 0 /\ arrivals[1] = t /\ Holders = {t}
    BY <1>1, QueueExclusive
  <1>3. /\ arrivals' \in Seq(Threads)
        /\ Len(arrivals') = Len(arrivals) - 1 /\ Len(arrivals') \in Nat /\ Len(arrivals) \in Nat
        /\ \A i \in 1 .. Len(arrivals') :
               /\ arrivals'[i] = arrivals[i + 1] /\ arrivals[i + 1] \in Threads
    BY <1>2 DEF Queued
  <1>4. \A i \in 1 .. Len(arrivals') : arrivals[i + 1] # t
    BY <1>2, <1>3 DEF Queued
  <1>5. Holders' = {u \in Threads : pc'[u] \in HolderLabels}
    BY QueueHolders, <1>0
       DEF QueueLocks, Holders, HolderLabels, Mcs!Holders, Clh!Holders, Anderson!Holders
  <1>6. Holders' = {}
    <2>1. to \notin HolderLabels
      BY DEF QueueLabels
    <2> QED BY <1>1, <1>2, <1>5, <2>1
  <1>7. Queued'
    <2>1. \A i, j \in 1 .. Len(arrivals') : arrivals'[i] = arrivals'[j] => i = j
      BY <1>3 DEF Queued
    <2>2. \A u \in Threads : InQueue(u)' <=> InQueue(u) /\ u # t
      <3> SUFFICES ASSUME NEW u \in Threads PROVE InQueue(u)' <=> InQueue(u) /\ u # t
        OBVIOUS
      <3>1. ASSUME InQueue(u)' PROVE InQueue(u) /\ u # t
        BY <3>1, <1>3, <1>4 DEF InQueue
      <3>2. ASSUME InQueue(u), u # t PROVE InQueue(u)'
        <4>1. PICK i \in 1 .. Len(arrivals) : arrivals[i] = u
          BY <3>2 DEF InQueue
        <4>2. i - 1 \in 1 .. Len(arrivals') /\ arrivals'[i - 1] = u
          BY <4>1, <3>2, <1>2, <1>3
        <4> QED BY <4>2 DEF InQueue
      <3> QED BY <3>1, <3>2
    <2>3. \A u \in Threads : pc'[u] \in QueueLabels <=> InQueue(u)'
      BY <2>2 DEF Queued
    <2>4. \A i \in 1 .. Len(arrivals') : pc'[arrivals'[i]] \notin HolderLabels
      <3> SUFFICES ASSUME NEW i \in 1 .. Len(arrivals') PROVE pc'[arrivals'[i]] \notin HolderLabels
        OBVIOUS
      <3>1. arrivals'[i] \in Threads
        BY <1>3
      <3> QED BY <3>1, <1>5, <1>6
    <2> QED BY <1>0, <1>3, <2>1, <2>3, <2>4 DEF Queued
  <1> QED BY <1>2, <1>3, <1>4, <1>6, <1>7 DEF Fifo!Next, Fifo!Release, QueueLocks

-----------------------------------------------------------------------------
(* ck_spinlock_mcs: a list of nodes, each on the stack of its thread.      *)

\* Where a thread can be in ck_spinlock_mcs.
McsLabels == {"idle", "try", "swap", "link", "spin", "cs", "u_tail", "u_cas", "u_wait", "u_pass"}
\* What the lock word points to.
McsTail == IF Len(arrivals) = 0 THEN NULL ELSE arrivals[Len(arrivals)]
\* What the i-th node of the queue points to.
McsNext(i) ==
  IF i < Len(arrivals) /\ pc[arrivals[i + 1]] = "spin" THEN arrivals[i + 1] ELSE NULL

\* The nodes form the queue, but for links that are not stored yet; the flag of
\* a node is set unless the lock was passed to it.
McsInv ==
  /\ pc \in [Threads -> McsLabels] /\ locked \in [Threads -> BOOLEAN]
  /\ next \in [Threads -> Threads \cup {NULL}]
  /\ previous \in [Threads -> Threads \cup {NULL}]
  /\ successor \in [Threads -> Threads \cup {NULL}]
  /\ Queued
  /\ queue = McsTail
  \* The lock is passed to the head only.
  /\ Len(arrivals) > 0 => \/ pc[arrivals[1]] \in HolderLabels
                          \/ pc[arrivals[1]] = "spin" /\ ~locked[arrivals[1]]
  /\ \A i \in 2 .. Len(arrivals) : locked[arrivals[i]] /\ previous[arrivals[i]] = arrivals[i - 1]
  /\ \A i \in 1 .. Len(arrivals) : next[arrivals[i]] = McsNext(i)
  /\ \A t \in Threads :
       /\ pc[t] \in {"swap", "try"} => locked[t] /\ next[t] = NULL
       /\ pc[t] = "u_wait" => queue # t
       /\ pc[t] = "u_pass" => successor[t] = next[t] /\ next[t] # NULL

\* The labels of ck_spinlock_mcs.
LEMMA McsQueueLabels ==
  ASSUME lock = "mcs"
  PROVE  /\ lock \in QueueLocks
         /\ HolderLabels = {"cs", "u_tail", "u_cas", "u_wait", "u_pass"}
         /\ QueueLabels = {"link", "spin", "cs", "u_tail", "u_cas", "u_wait", "u_pass"}
  BY DEF QueueLocks, HolderLabels, QueueLabels

\* A new lock has no queue.
LEMMA McsInit ==
  ASSUME Init, lock = "mcs"
  PROVE  McsInv
  <1>1. Mcs!Init
    BY DEF Init
  <1>2. Queued /\ Len(arrivals) = 0
    BY <1>1, McsQueueLabels DEF Queued, InQueue, Mcs!Init
  <1> QED BY <1>1, <1>2 DEF McsInv, Mcs!Init, McsLabels, McsTail

\* The place of a thread in the queue.
LEMMA McsPlace ==
  ASSUME lock = "mcs", McsInv
  PROVE  /\ Len(arrivals) \in Nat /\ \A i \in 1 .. Len(arrivals) : arrivals[i] \in Threads
         /\ \A i \in 1 .. Len(arrivals) : pc[arrivals[i]] \in QueueLabels
         /\ \A i \in 2 .. Len(arrivals) : pc[arrivals[i]] \in {"link", "spin"}
         /\ \A t \in Threads : pc[t] \in QueueLabels
              => \E i \in 1 .. Len(arrivals) : arrivals[i] = t
         /\ \A t \in Threads : pc[t] \in HolderLabels => Len(arrivals) > 0 /\ arrivals[1] = t
         /\ \A t \in Threads : pc[t] = "link" => \E i \in 2 .. Len(arrivals) : arrivals[i] = t
         /\ \A t \in Threads : pc[t] = "spin" /\ ~locked[t] => Len(arrivals) > 0 /\ arrivals[1] = t
         /\ NULL \notin Threads
  <1> USE McsQueueLabels
  <1>1. Len(arrivals) \in Nat /\ \A i \in 1 .. Len(arrivals) : arrivals[i] \in Threads
    BY DEF McsInv, Queued
  <1>2. \A i \in 1 .. Len(arrivals) : pc[arrivals[i]] \in QueueLabels
    BY <1>1 DEF McsInv, Queued, InQueue
  <1>3. \A i \in 2 .. Len(arrivals) : pc[arrivals[i]] \in {"link", "spin"}
    BY <1>1, <1>2 DEF McsInv, Queued
  <1>4. \A t \in Threads : pc[t] \in QueueLabels => \E i \in 1 .. Len(arrivals) : arrivals[i] = t
    BY DEF McsInv, Queued, InQueue
  <1>5. \A t \in Threads : pc[t] \in HolderLabels => Len(arrivals) > 0 /\ arrivals[1] = t
    BY <1>1, <1>4 DEF McsInv, Queued
  <1>6. \A t \in Threads : pc[t] = "link" => \E i \in 2 .. Len(arrivals) : arrivals[i] = t
    <2> SUFFICES ASSUME NEW t \in Threads, pc[t] = "link"
                 PROVE  \E i \in 2 .. Len(arrivals) : arrivals[i] = t
      OBVIOUS
    <2>1. PICK i \in 1 .. Len(arrivals) : arrivals[i] = t
      BY <1>4
    <2>2. i # 1
      BY <1>1, <2>1 DEF McsInv
    <2> QED BY <1>1, <2>1, <2>2
  <1>7. \A t \in Threads : pc[t] = "spin" /\ ~locked[t] => Len(arrivals) > 0 /\ arrivals[1] = t
    <2> SUFFICES ASSUME NEW t \in Threads, pc[t] = "spin", ~locked[t]
                 PROVE  Len(arrivals) > 0 /\ arrivals[1] = t
      OBVIOUS
    <2>1. PICK i \in 1 .. Len(arrivals) : arrivals[i] = t
      BY <1>4
    <2>2. i = 1
      BY <1>1, <2>1 DEF McsInv
    <2> QED BY <1>1, <2>1, <2>2
  <1> QED BY <1>1, <1>2, <1>3, <1>4, <1>5, <1>6, <1>7, SpinlocksAssumption

\* A step that writes no node, on the way through the queue.
LEMMA McsStay ==
  ASSUME lock = "mcs", lock' = lock, McsInv, NEW t \in Threads, NEW to,
         pc' = [pc EXCEPT ![t] = to], to \in McsLabels, arrivals' = arrivals, queue' = queue,
         locked' = locked, next' = next, previous' = previous,
         pc[t] \in QueueLabels <=> to \in QueueLabels,
         pc[t] \in HolderLabels => to \in HolderLabels,
         to \in HolderLabels => t = arrivals[1],
         to # "spin", pc[t] # "spin" \/ t = arrivals[1], to \notin {"swap", "try"},
         to = "u_wait" => queue # t,
         to = "u_pass" => next[t] # NULL,
         \/ to # "u_pass" /\ successor' = successor
         \/ successor' = [successor EXCEPT ![t] = next[t]],
         pc[t] # "link", to # "link"
  PROVE  McsInv' /\ [Fifo!Next]_(Fifo!vars)
  <1> USE McsQueueLabels
  <1>1. pc \in [Threads -> Labels] /\ Queued
    BY DEF McsInv, McsLabels, Labels
  <1>2. Queued' /\ [Fifo!Next]_(Fifo!vars)
    BY <1>1, QueueStay
  <1>3. Len(arrivals) \in Nat /\ \A i \in 1 .. Len(arrivals) : arrivals[i] \in Threads
    BY McsPlace
  <1>4. \A i \in 1 .. Len(arrivals) : McsNext(i)' = McsNext(i)
    <2> SUFFICES ASSUME NEW i \in 1 .. Len(arrivals), i < Len(arrivals)
                 PROVE  pc'[arrivals[i + 1]] = "spin" <=> pc[arrivals[i + 1]] = "spin"
      BY DEF McsNext
    <2>1. i + 1 \in 1 .. Len(arrivals) /\ 1 \in 1 .. Len(arrivals) /\ i + 1 # 1
      BY <1>3
    <2>2. arrivals[i + 1] \in Threads /\ arrivals[i + 1] # arrivals[1]
      BY <1>3, <2>1 DEF McsInv, Queued
    <2> QED BY <2>2 DEF McsInv
  <1>5. McsTail' = McsTail
    BY DEF McsTail
  <1>6. HolderLabels' = HolderLabels
    BY DEF HolderLabels
  <1>7. Len(arrivals) > 0 => \/ pc'[arrivals[1]] \in HolderLabels
                             \/ pc'[arrivals[1]] = "spin" /\ ~locked[arrivals[1]]
    <2> HAVE Len(arrivals) > 0
    <2>1. arrivals[1] \in Threads
      BY <1>3
    <2>2. CASE arrivals[1] = t
      <3>1. pc[t] \in QueueLabels
        BY McsPlace, <2>2, <1>3
      <3>2. to \in QueueLabels /\ to # "link" => to \in HolderLabels
        OBVIOUS
      <3> QED BY <2>1, <2>2, <3>1, <3>2 DEF McsInv
    <2>3. CASE arrivals[1] # t
      BY <2>1, <2>3 DEF McsInv
    <2> QED BY <2>2, <2>3
  <1>8. \A u \in Threads :
         /\ pc'[u] \in {"swap", "try"} => locked[u] /\ next[u] = NULL
         /\ pc'[u] = "u_wait" => queue # u
         /\ pc'[u] = "u_pass" => successor'[u] = next[u] /\ next[u] # NULL
    BY DEF McsInv
  <1>9. pc' \in [Threads -> McsLabels] /\ successor' \in [Threads -> Threads \cup {NULL}]
    BY DEF McsInv
  <1> QED BY <1>2, <1>4, <1>5, <1>6, <1>7, <1>8, <1>9 DEF McsInv

\* A request that joins the queue.
LEMMA McsJoin ==
  ASSUME lock = "mcs", lock' = lock, McsInv, NEW t \in Threads,
         pc[t] = "swap" \/ pc[t] = "try",
         pc' = [pc EXCEPT ![t] = IF queue = NULL THEN "cs" ELSE "link"],
         queue' = t, arrivals' = Append(arrivals, t),
         previous' = [previous EXCEPT ![t] = queue] \/ (queue = NULL /\ previous' = previous),
         UNCHANGED <<locked, next, successor>>
  PROVE  McsInv' /\ [Fifo!Next]_(Fifo!vars)
  <1> DEFINE to == IF queue = NULL THEN "cs" ELSE "link"
  <1> USE McsQueueLabels
  <1>0. pc \in [Threads -> Labels] /\ Queued
    BY DEF McsInv, McsLabels, Labels
  <1>00. /\ Len(arrivals) \in Nat /\ \A i \in 1 .. Len(arrivals) : arrivals[i] \in Threads
         /\ NULL \notin Threads /\ HolderLabels' = HolderLabels
    BY McsPlace DEF HolderLabels
  <1>1. queue = NULL <=> arrivals = <<>>
    BY <1>0, <1>00 DEF McsInv, McsTail, Queued
  <1>2. /\ Queued' /\ [Fifo!Next]_(Fifo!vars)
        /\ Len(arrivals') = Len(arrivals) + 1 /\ Len(arrivals) \in Nat
        /\ arrivals'[Len(arrivals) + 1] = t
        /\ \A i \in 1 .. Len(arrivals) : /\ arrivals'[i] = arrivals[i] /\ arrivals[i] \in Threads
                                         /\ arrivals[i] # t
    <2>1. lock \in QueueLocks /\ pc[t] \notin QueueLabels /\ to \in QueueLabels
          /\ (to \in HolderLabels => arrivals = <<>>)
      BY <1>1
    <2> QED BY <1>0, <2>1, QueueJoin
  <1>3. queue' = McsTail'
    BY <1>2 DEF McsTail
  <1>4. \A i \in 1 .. Len(arrivals') : next[arrivals'[i]] = McsNext(i)'
    <2> SUFFICES ASSUME NEW i \in 1 .. Len(arrivals')
                 PROVE  next[arrivals'[i]] = McsNext(i)'
      OBVIOUS
    <2>1. CASE i < Len(arrivals)
      <3>1. i \in 1 .. Len(arrivals) /\ i + 1 \in 1 .. Len(arrivals)
        BY <1>2, <2>1
      <3>2. arrivals'[i] = arrivals[i] /\ arrivals'[i + 1] = arrivals[i + 1]
            /\ pc'[arrivals[i + 1]] = pc[arrivals[i + 1]]
        BY <1>2, <3>1 DEF McsInv
      <3>3. next[arrivals[i]] = McsNext(i)
        BY <3>1 DEF McsInv
      <3> QED BY <2>1, <1>2, <3>2, <3>3 DEF McsNext
    <2>2. CASE i = Len(arrivals)
      <3>1. i \in 1 .. Len(arrivals) /\ arrivals'[i + 1] = t /\ arrivals'[i] = arrivals[i]
        BY <1>2, <2>2
      <3>2. pc'[t] # "spin"
        BY DEF McsInv
      <3>3. next[arrivals[i]] = NULL
        BY <3>1, <2>2 DEF McsInv, McsNext
      <3> QED BY <2>2, <3>1, <3>2, <3>3 DEF McsNext
    <2>3. CASE i = Len(arrivals) + 1
      <3>1. arrivals'[i] = t /\ next[t] = NULL
        BY <1>2, <2>3 DEF McsInv
      <3> QED BY <3>1, <2>3, <1>2 DEF McsNext
    <2> QED BY <1>2, <2>1, <2>2, <2>3
  <1>5. \A i \in 2 .. Len(arrivals') :
           locked[arrivals'[i]] /\ previous'[arrivals'[i]] = arrivals'[i - 1]
    <2> SUFFICES ASSUME NEW i \in 2 .. Len(arrivals')
                 PROVE  locked[arrivals'[i]] /\ previous'[arrivals'[i]] = arrivals'[i - 1]
      OBVIOUS
    <2>1. CASE i <= Len(arrivals)
      <3>1. i \in 1 .. Len(arrivals) /\ i - 1 \in 1 .. Len(arrivals) /\ i \in 2 .. Len(arrivals)
        BY <1>2, <2>1
      <3>2. arrivals'[i] = arrivals[i] /\ arrivals'[i - 1] = arrivals[i - 1]
            /\ previous'[arrivals[i]] = previous[arrivals[i]]
        BY <1>2, <3>1 DEF McsInv
      <3> QED BY <3>1, <3>2 DEF McsInv
    <2>2. CASE i = Len(arrivals) + 1
      <3>1. Len(arrivals) > 0 /\ queue # NULL /\ i - 1 = Len(arrivals)
            /\ arrivals'[Len(arrivals)] = arrivals[Len(arrivals)]
        BY <1>2, <2>2, <1>1
      <3>2. arrivals'[i] = t /\ locked[t] /\ previous'[t] = queue
        BY <1>2, <2>2, <3>1 DEF McsInv
      <3> QED BY <3>1, <3>2 DEF McsInv, McsTail
    <2> QED BY <1>2, <2>1, <2>2
  <1>6. Len(arrivals') > 0 => \/ pc'[arrivals'[1]] \in HolderLabels
                              \/ pc'[arrivals'[1]] = "spin" /\ ~locked[arrivals'[1]]
    <2>1. CASE Len(arrivals) = 0
      <3>1. arrivals'[1] = t /\ queue = NULL
        BY <1>2, <2>1 DEF McsInv, McsTail
      <3> QED BY <3>1 DEF McsInv
    <2>2. CASE Len(arrivals) > 0
      <3>1. 1 \in 1 .. Len(arrivals)
        BY <1>2, <2>2
      <3>2. arrivals'[1] = arrivals[1] /\ pc'[arrivals[1]] = pc[arrivals[1]]
        BY <1>2, <3>1 DEF McsInv
      <3> QED BY <2>2, <3>2 DEF McsInv
    <2> QED BY <2>1, <2>2, <1>2
  <1>7. \A u \in Threads :
         /\ pc'[u] \in {"swap", "try"} => locked[u] /\ next[u] = NULL
         /\ pc'[u] = "u_wait" => queue' # u
         /\ pc'[u] = "u_pass" => successor'[u] = next[u] /\ next[u] # NULL
    BY DEF McsInv
  <1>8. pc' \in [Threads -> McsLabels] /\ previous' \in [Threads -> Threads \cup {NULL}]
    <2>1. queue \in Threads \cup {NULL}
      BY <1>00 DEF McsInv, McsTail
    <2> QED BY <2>1 DEF McsInv, McsLabels
  <1> QED BY <1>2, <1>3, <1>4, <1>5, <1>6, <1>7, <1>8, <1>00 DEF McsInv

\* The release, with or without a successor.
LEMMA McsLeave ==
  ASSUME lock = "mcs", lock' = lock, McsInv, NEW t \in Threads,
         pc[t] \in {"u_cas", "u_pass"}, pc' = [pc EXCEPT ![t] = "idle"],
         arrivals' = Tail(arrivals),
         \/ pc[t] = "u_cas" /\ queue = t /\ queue' = NULL /\ locked' = locked
         \/ pc[t] = "u_pass" /\ queue' = queue /\ locked' = [locked EXCEPT ![successor[t]] = FALSE],
         UNCHANGED <<next, previous, successor>>
  PROVE  McsInv' /\ [Fifo!Next]_(Fifo!vars)
  <1> USE McsQueueLabels
  <1>0. pc \in [Threads -> Labels] /\ Queued
    BY DEF McsInv, McsLabels, Labels
  <1>00. /\ Len(arrivals) \in Nat /\ \A i \in 1 .. Len(arrivals) : arrivals[i] \in Threads
         /\ NULL \notin Threads /\ HolderLabels' = HolderLabels
    BY McsPlace DEF HolderLabels
  <1>1. /\ Queued' /\ [Fifo!Next]_(Fifo!vars)
        /\ Len(arrivals) > 0 /\ arrivals[1] = t
        /\ Len(arrivals') = Len(arrivals) - 1 /\ Len(arrivals') \in Nat /\ Len(arrivals) \in Nat
        /\ \A i \in 1 .. Len(arrivals') :
              /\ arrivals'[i] = arrivals[i + 1] /\ arrivals[i + 1] \in Threads
              /\ arrivals[i + 1] # t
    <2>1. lock \in QueueLocks /\ pc[t] \in HolderLabels /\ "idle" \notin QueueLabels
      OBVIOUS
    <2> QED BY <1>0, <2>1, QueueLeave
  <1>2. queue = t => Len(arrivals) = 1
    BY <1>1 DEF McsInv, McsTail, Queued
  <1>3. pc[t] = "u_pass" => /\ Len(arrivals) > 1 /\ successor[t] = arrivals[2]
                            /\ pc[arrivals[2]] = "spin" /\ next[t] = arrivals[2]
    <2> HAVE pc[t] = "u_pass"
    <2>1. successor[t] = next[t] /\ next[t] # NULL
      BY DEF McsInv
    <2>2. next[t] = McsNext(1)
      BY <1>1 DEF McsInv
    <2> QED BY <2>1, <2>2, <1>1 DEF McsNext
  <1>4. \A i \in 1 .. Len(arrivals') : pc'[arrivals'[i]] = pc[arrivals[i + 1]]
    BY <1>1 DEF McsInv
  <1>5. queue' = McsTail'
    <2>1. CASE pc[t] = "u_cas"
      BY <2>1, <1>1, <1>2 DEF McsTail
    <2>2. CASE pc[t] = "u_pass"
      <3>1. Len(arrivals') \in 1 .. Len(arrivals')
        BY <2>2, <1>1, <1>3
      <3>2. arrivals'[Len(arrivals')] = arrivals[Len(arrivals)]
        BY <3>1, <1>1
      <3> QED BY <2>2, <3>1, <3>2, <1>1 DEF McsTail, McsInv
    <2> QED BY <2>1, <2>2
  <1>6. Len(arrivals') > 0 => pc[t] = "u_pass" /\ arrivals'[1] = arrivals[2]
    BY <1>1, <1>2
  <1>7. Len(arrivals') > 0 => pc'[arrivals'[1]] = "spin" /\ ~locked'[arrivals'[1]]
    <2> HAVE Len(arrivals') > 0
    <2>1. 1 \in 1 .. Len(arrivals') /\ arrivals[2] \in Threads
      BY <1>1, <1>00
    <2>2. locked'[arrivals[2]] = FALSE
      BY <2>1, <1>3, <1>6 DEF McsInv
    <2> QED BY <1>3, <1>4, <1>6, <2>1, <2>2
  <1>8. \A i \in 2 .. Len(arrivals') :
           locked'[arrivals'[i]] /\ previous[arrivals'[i]] = arrivals'[i - 1]
    <2> SUFFICES ASSUME NEW i \in 2 .. Len(arrivals')
                 PROVE  locked'[arrivals'[i]] /\ previous[arrivals'[i]] = arrivals'[i - 1]
      OBVIOUS
    <2>1. i + 1 \in 2 .. Len(arrivals) /\ (i - 1) + 1 = i /\ i - 1 \in 1 .. Len(arrivals')
          /\ i \in 1 .. Len(arrivals') /\ 2 \in 1 .. Len(arrivals) /\ i + 1 # 2
      BY <1>1
    <2>2. arrivals'[i] = arrivals[i + 1] /\ arrivals'[i - 1] = arrivals[i]
      BY <1>1, <2>1
    <2>3. locked[arrivals[i + 1]] /\ previous[arrivals[i + 1]] = arrivals[i]
      BY <2>1 DEF McsInv
    <2>4. arrivals[i + 1] # arrivals[2]
      BY <2>1, <1>1 DEF McsInv, Queued
    <2>5. locked'[arrivals[i + 1]] = locked[arrivals[i + 1]]
      <3>1. arrivals[i + 1] \in Threads
        BY <2>1, <1>00
      <3>2. CASE pc[t] = "u_cas"
        BY <3>2
      <3>3. CASE pc[t] = "u_pass"
        BY <3>1, <3>3, <2>4, <1>3 DEF McsInv
      <3> QED BY <3>2, <3>3
    <2> QED BY <2>2, <2>3, <2>5
  <1>9. \A i \in 1 .. Len(arrivals') : next[arrivals'[i]] = McsNext(i)'
    <2> SUFFICES ASSUME NEW i \in 1 .. Len(arrivals') PROVE next[arrivals'[i]] = McsNext(i)'
      OBVIOUS
    <2>1. i + 1 \in 1 .. Len(arrivals)
      BY <1>1
    <2>2. next[arrivals'[i]] = McsNext(i + 1)
      BY <2>1, <1>1 DEF McsInv
    <2>3. CASE i < Len(arrivals')
      <3>1. i + 1 \in 1 .. Len(arrivals')
        BY <2>3, <1>1
      <3>2. arrivals'[i + 1] = arrivals[i + 1 + 1]
              /\ pc'[arrivals'[i + 1]] = pc[arrivals[i + 1 + 1]]
        BY <3>1, <1>1, <1>4
      <3> QED BY <2>2, <2>3, <3>1, <3>2, <1>1 DEF McsNext
    <2>4. CASE i = Len(arrivals')
      BY <2>2, <2>4, <1>1 DEF McsNext
    <2> QED BY <2>3, <2>4, <1>1
  <1>10. \A u \in Threads :
         /\ pc'[u] \in {"swap", "try"} => locked'[u] /\ next[u] = NULL
         /\ pc'[u] = "u_wait" => queue' # u
         /\ pc'[u] = "u_pass" => successor[u] = next[u] /\ next[u] # NULL
    <2> SUFFICES ASSUME NEW u \in Threads, u # t
                 PROVE /\ pc[u] \in {"swap", "try"} => locked'[u] /\ next[u] = NULL
                       /\ pc[u] \notin {"u_wait", "u_pass"}
      BY DEF McsInv
    <2>1. pc[u] \notin {"u_wait", "u_pass"}
      BY McsPlace, <1>1
    <2>2. pc[u] \in {"swap", "try"} => locked'[u] = locked[u]
      BY <1>3 DEF McsInv
    <2> QED BY <2>1, <2>2 DEF McsInv
  <1>11. pc' \in [Threads -> McsLabels] /\ locked' \in [Threads -> BOOLEAN]
    BY DEF McsInv, McsLabels
  <1> QED BY <1>1, <1>5, <1>7, <1>8, <1>9, <1>10, <1>11 DEF McsInv

\* Every step of ck_spinlock_mcs preserves the invariant, and is a step of the
\* queue or a stutter.
LEMMA McsStep ==
  ASSUME McsInv, lock = "mcs", NEW t \in Threads, Mcs!Step(t), lock' = lock
  PROVE  McsInv' /\ [Fifo!Next]_(Fifo!vars)
  <1> USE McsQueueLabels
  <1>0. pc \in [Threads -> Labels] /\ Queued
    BY DEF McsInv, McsLabels, Labels
  <1>00. /\ Len(arrivals) \in Nat /\ \A i \in 1 .. Len(arrivals) : arrivals[i] \in Threads
         /\ NULL \notin Threads /\ HolderLabels' = HolderLabels
    BY McsPlace DEF HolderLabels
  <1>1. CASE Mcs!Prepare(t)
    <2> USE <1>1 DEF Mcs!Prepare, Mcs!Goto
    <2>1. Queued' /\ [Fifo!Next]_(Fifo!vars)
      <3>1. PICK to \in {"swap", "try"} : pc[t] = "idle" /\ pc' = [pc EXCEPT ![t] = to]
        OBVIOUS
      <3>2. lock \in QueueLocks /\ pc[t] \notin QueueLabels /\ to \notin QueueLabels
            /\ pc[t] \notin HolderLabels /\ to \notin HolderLabels /\ arrivals' = arrivals
        BY <3>1
      <3> QED BY <1>0, <3>1, <3>2, QueueStay
    <2>2. \A i \in 1 .. Len(arrivals) : arrivals[i] # t
      BY <1>0 DEF Queued, InQueue
    <2>3. \A i \in 1 .. Len(arrivals) : /\ pc'[arrivals[i]] = pc[arrivals[i]]
             /\ locked'[arrivals[i]] = locked[arrivals[i]] /\ next'[arrivals[i]] = next[arrivals[i]]
      BY <2>2, <1>00 DEF McsInv
    <2>4. \A i \in 1 .. Len(arrivals) : McsNext(i)' = McsNext(i)
      <3> SUFFICES ASSUME NEW i \in 1 .. Len(arrivals), i < Len(arrivals)
                   PROVE  pc'[arrivals[i + 1]] = pc[arrivals[i + 1]]
        BY DEF McsNext
      <3>1. i + 1 \in 1 .. Len(arrivals)
        BY <1>00
      <3> QED BY <2>3, <3>1
    <2>5. McsTail' = McsTail
      BY DEF McsTail
    <2>6. \A u \in Threads :
         /\ pc'[u] \in {"swap", "try"} => locked'[u] /\ next'[u] = NULL
         /\ pc'[u] = "u_wait" => queue # u
         /\ pc'[u] = "u_pass" => successor[u] = next'[u] /\ next'[u] # NULL
      BY DEF McsInv
    <2>7. /\ pc' \in [Threads -> McsLabels] /\ locked' \in [Threads -> BOOLEAN]
          /\ next' \in [Threads -> Threads \cup {NULL}]
      BY DEF McsInv, McsLabels
    <2>8. Len(arrivals) > 0 => \/ pc'[arrivals[1]] \in HolderLabels
                               \/ pc'[arrivals[1]] = "spin" /\ ~locked'[arrivals[1]]
      BY <2>3, <1>00 DEF McsInv
    <2>9. \A i \in 2 .. Len(arrivals) : locked'[arrivals[i]]
      BY <2>3, <1>00 DEF McsInv
    <2>10. \A i \in 1 .. Len(arrivals) : next'[arrivals[i]] = McsNext(i)'
      <3> SUFFICES ASSUME NEW i \in 1 .. Len(arrivals) PROVE next'[arrivals[i]] = McsNext(i)'
        OBVIOUS
      <3>1. next[arrivals[i]] = McsNext(i)
        BY DEF McsInv
      <3> QED BY <2>3, <2>4, <3>1
    <2>11. UNCHANGED <<queue, previous, successor, arrivals>>
      OBVIOUS
    <2> QED BY <2>1, <2>5, <2>6, <2>7, <2>8, <2>9, <2>10, <2>11, <1>00 DEF McsInv
  <1>2. CASE Mcs!TryCas(t)
    <2>1. /\ pc[t] = "try" /\ queue' = t /\ arrivals' = Append(arrivals, t)
          /\ pc' = [pc EXCEPT ![t] = IF queue = NULL THEN "cs" ELSE "link"]
          /\ previous' = [previous EXCEPT ![t] = queue] \/ (queue = NULL /\ previous' = previous)
          /\ UNCHANGED <<locked, next, successor>>
      BY <1>2 DEF Mcs!TryCas, Mcs!Goto
    <2> QED BY <2>1, McsJoin
  <1>3. CASE Mcs!TryCasFail(t)
    <2>1. PICK to \in McsLabels : to = "idle" /\ pc' = [pc EXCEPT ![t] = to]
      BY <1>3 DEF Mcs!TryCasFail, Mcs!Goto, McsLabels
    <2>2. pc[t] = "try" /\ pc[t] \notin QueueLabels /\ to \notin QueueLabels
          /\ pc[t] \notin HolderLabels /\ to \notin HolderLabels
      BY <1>3, <2>1 DEF Mcs!TryCasFail, Mcs!Goto
    <2>3. UNCHANGED <<arrivals, queue, locked, next, previous>>
          /\ \/ to # "u_pass" /\ successor' = successor
             \/ successor' = [successor EXCEPT ![t] = next[t]]
      BY <1>3, <2>1 DEF Mcs!TryCasFail, Mcs!Goto
    <2>4. /\ pc[t] \in QueueLabels <=> to \in QueueLabels
          /\ pc[t] \in HolderLabels => to \in HolderLabels
          /\ to \in HolderLabels => t = arrivals[1]
          /\ to # "spin" /\ to # "link" /\ to \notin {"swap", "try"}
          /\ to # "u_wait" /\ to # "u_pass" /\ pc[t] # "spin" /\ pc[t] # "link"
      BY <2>1, <2>2
    <2> QED BY <2>1, <2>3, <2>4, McsStay
  <1>4. CASE Mcs!Swap(t)
    <2>1. /\ pc[t] = "swap" /\ queue' = t /\ arrivals' = Append(arrivals, t)
          /\ pc' = [pc EXCEPT ![t] = IF queue = NULL THEN "cs" ELSE "link"]
          /\ previous' = [previous EXCEPT ![t] = queue] \/ (queue = NULL /\ previous' = previous)
          /\ UNCHANGED <<locked, next, successor>>
      BY <1>4 DEF Mcs!Swap, Mcs!Goto
    <2> QED BY <2>1, McsJoin
  <1>5. CASE Mcs!Link(t)
    <2> USE <1>5 DEF Mcs!Link, Mcs!Goto
    <2>1. Queued' /\ [Fifo!Next]_(Fifo!vars)
      BY <1>0, QueueStay
    <2>2. PICK k \in 2 .. Len(arrivals) : arrivals[k] = t
      BY McsPlace
    <2>3. /\ k - 1 \in 1 .. Len(arrivals) /\ k \in 1 .. Len(arrivals) /\ (k - 1) + 1 = k
          /\ previous[t] = arrivals[k - 1]
      BY <2>2, <1>00 DEF McsInv
    <2>4. \A i \in 1 .. Len(arrivals) : next'[arrivals[i]] = McsNext(i)'
      <3> SUFFICES ASSUME NEW i \in 1 .. Len(arrivals) PROVE next'[arrivals[i]] = McsNext(i)'
        OBVIOUS
      <3>1. CASE i = k - 1
        <4>1. next'[arrivals[i]] = t
          BY <3>1, <2>3, <1>00 DEF McsInv
        <4>2. pc'[t] = "spin" /\ i < Len(arrivals) /\ arrivals[i + 1] = t
          BY <3>1, <2>2, <2>3, <1>00 DEF McsInv
        <4> QED BY <4>1, <4>2 DEF McsNext
      <3>2. CASE i # k - 1
        <4>1. next'[arrivals[i]] = next[arrivals[i]]
          BY <3>2, <2>3, <1>00 DEF McsInv, Queued
        <4>2. i < Len(arrivals) => arrivals[i + 1] # t /\ arrivals[i + 1] \in Threads
          BY <3>2, <2>2, <2>3, <1>00 DEF McsInv, Queued
        <4>3. McsNext(i)' = McsNext(i)
          BY <4>2 DEF McsNext, McsInv
        <4> QED BY <4>1, <4>3 DEF McsInv
      <3> QED BY <3>1, <3>2
    <2>5. McsTail' = McsTail
      BY DEF McsTail
    <2>6. previous[t] \in Threads /\ pc[previous[t]] \in QueueLabels
      BY <2>3, <1>00, McsPlace
    <2>6a. pc[previous[t]] # "u_pass"
      <3>1. next[arrivals[k - 1]] = McsNext(k - 1)
        BY <2>3 DEF McsInv
      <3>2. McsNext(k - 1) = NULL
        BY <2>2, <2>3 DEF McsNext
      <3> QED BY <3>1, <3>2, <2>3, <2>6 DEF McsInv
    <2>7. \A u \in Threads :
         /\ pc'[u] \in {"swap", "try"} => locked[u] /\ next'[u] = NULL
         /\ pc'[u] = "u_wait" => queue # u
         /\ pc'[u] = "u_pass" => successor[u] = next'[u] /\ next'[u] # NULL
      BY <2>6, <2>6a DEF McsInv
    <2>8. /\ pc' \in [Threads -> McsLabels]
          /\ next' \in [Threads -> Threads \cup {NULL}]
      BY DEF McsInv, McsLabels
    <2>9. Len(arrivals) > 0 => \/ pc'[arrivals[1]] \in HolderLabels
                               \/ pc'[arrivals[1]] = "spin" /\ ~locked[arrivals[1]]
      <3> HAVE Len(arrivals) > 0
      <3>1. arrivals[1] # t /\ arrivals[1] \in Threads
        BY <2>2, <2>3, <1>00 DEF McsInv, Queued
      <3> QED BY <3>1 DEF McsInv
    <2> QED BY <2>1, <2>4, <2>5, <2>7, <2>8, <2>9, <1>00 DEF McsInv
  <1>6. CASE Mcs!Spin(t)
    <2>1. PICK to \in McsLabels : to = "cs" /\ pc' = [pc EXCEPT ![t] = to]
      BY <1>6 DEF Mcs!Spin, Mcs!Goto, McsLabels
    <2>2. pc[t] = "spin" /\ t = arrivals[1]
      BY <1>6, <2>1, McsPlace DEF Mcs!Spin, Mcs!Goto
    <2>3. UNCHANGED <<arrivals, queue, locked, next, previous>>
          /\ \/ to # "u_pass" /\ successor' = successor
             \/ successor' = [successor EXCEPT ![t] = next[t]]
      BY <1>6, <2>1 DEF Mcs!Spin, Mcs!Goto
    <2> QED BY <2>1, <2>2, <2>3, McsStay
  <1>7. CASE Mcs!UnlockNext(t)
    <2>1. PICK to \in McsLabels : to = (IF next[t] = NULL THEN "u_tail" ELSE "u_pass")
                                   /\ pc' = [pc EXCEPT ![t] = to]
      BY <1>7 DEF Mcs!UnlockNext, Mcs!Goto, McsLabels
    <2>2. pc[t] = "cs" /\ t = arrivals[1] /\ to \in HolderLabels
            /\ (to = "u_pass" => next[t] # NULL) /\ to # "u_wait"
      BY <1>7, <2>1, McsPlace DEF Mcs!UnlockNext, Mcs!Goto
    <2>3. UNCHANGED <<arrivals, queue, locked, next, previous>>
          /\ \/ to # "u_pass" /\ successor' = successor
             \/ successor' = [successor EXCEPT ![t] = next[t]]
      BY <1>7, <2>1 DEF Mcs!UnlockNext, Mcs!Goto
    <2> QED BY <2>1, <2>2, <2>3, McsStay
  <1>8. CASE Mcs!UnlockTail(t)
    <2>1. PICK to \in McsLabels : to = (IF queue = t THEN "u_cas" ELSE "u_wait")
                                   /\ pc' = [pc EXCEPT ![t] = to]
      BY <1>8 DEF Mcs!UnlockTail, Mcs!Goto, McsLabels
    <2>2. pc[t] = "u_tail" /\ t = arrivals[1] /\ to \in HolderLabels
            /\ (to = "u_wait" => queue # t) /\ to # "u_pass"
      BY <1>8, <2>1, McsPlace DEF Mcs!UnlockTail, Mcs!Goto
    <2>3. UNCHANGED <<arrivals, queue, locked, next, previous>>
          /\ \/ to # "u_pass" /\ successor' = successor
             \/ successor' = [successor EXCEPT ![t] = next[t]]
      BY <1>8, <2>1 DEF Mcs!UnlockTail, Mcs!Goto
    <2> QED BY <2>1, <2>2, <2>3, McsStay
  <1>9. CASE Mcs!UnlockCas(t)
    BY <1>9, McsLeave DEF Mcs!UnlockCas, Mcs!Goto
  <1>10. CASE Mcs!UnlockCasFail(t)
    <2>1. PICK to \in McsLabels : to = "u_wait" /\ pc' = [pc EXCEPT ![t] = to]
      BY <1>10 DEF Mcs!UnlockCasFail, Mcs!Goto, McsLabels
    <2>2. pc[t] = "u_cas" /\ t = arrivals[1] /\ to \in HolderLabels /\ queue # t
      BY <1>10, <2>1, McsPlace DEF Mcs!UnlockCasFail, Mcs!Goto
    <2>3. UNCHANGED <<arrivals, queue, locked, next, previous>>
          /\ \/ to # "u_pass" /\ successor' = successor
             \/ successor' = [successor EXCEPT ![t] = next[t]]
      BY <1>10, <2>1 DEF Mcs!UnlockCasFail, Mcs!Goto
    <2> QED BY <2>1, <2>2, <2>3, McsStay
  <1>11. CASE Mcs!UnlockWait(t)
    <2>1. PICK to \in McsLabels : to = "u_pass" /\ pc' = [pc EXCEPT ![t] = to]
      BY <1>11 DEF Mcs!UnlockWait, Mcs!Goto, McsLabels
    <2>2. pc[t] = "u_wait" /\ t = arrivals[1] /\ to \in HolderLabels /\ next[t] # NULL
      BY <1>11, <2>1, McsPlace DEF Mcs!UnlockWait, Mcs!Goto
    <2>3. UNCHANGED <<arrivals, queue, locked, next, previous>>
          /\ \/ to # "u_pass" /\ successor' = successor
             \/ successor' = [successor EXCEPT ![t] = next[t]]
      BY <1>11, <2>1 DEF Mcs!UnlockWait, Mcs!Goto
    <2> QED BY <2>1, <2>2, <2>3, McsStay
  <1>12. CASE Mcs!UnlockPass(t)
    BY <1>12, McsLeave DEF Mcs!UnlockPass, Mcs!Goto
  <1> QED BY <1>1, <1>2, <1>3, <1>4, <1>5, <1>6, <1>7, <1>8, <1>9, <1>10, <1>11, <1>12
          DEF Mcs!Step

\* What the invariant says of ck_spinlock_mcs_locked and of the nodes.
LEMMA McsSafe ==
  ASSUME McsInv, lock = "mcs"
  PROVE  HolderSeesLocked /\ Mcs!NodeLifetime
  <1> USE McsQueueLabels
  <1>00. /\ Len(arrivals) \in Nat /\ \A i \in 1 .. Len(arrivals) : arrivals[i] \in Threads
         /\ NULL \notin Threads
    BY McsPlace
  <1>1. HolderSeesLocked
    <2>1. ASSUME NEW t \in Threads, pc[t] = "cs" PROVE queue # NULL
      <3>1. Len(arrivals) > 0
        BY <2>1, McsPlace
      <3>2. queue \in Threads
        BY <3>1, <1>00 DEF McsInv, McsTail
      <3> QED BY <3>2, <1>00
    <2> QED BY <2>1 DEF HolderSeesLocked, Locked, Mcs!Locked
  <1>2. ASSUME NEW t \in Threads, pc[t] = "link"
        PROVE  /\ previous[t] \in Threads
               /\ pc[previous[t]] \in {"link", "spin", "cs", "u_tail", "u_cas", "u_wait"}
    <2>1. PICK i \in 2 .. Len(arrivals) : arrivals[i] = t
      BY <1>2, McsPlace
    <2>2. /\ i - 1 \in 1 .. Len(arrivals) /\ (i - 1) + 1 = i
          /\ previous[t] = arrivals[i - 1]
      BY <2>1, <1>00 DEF McsInv
    <2>3. previous[t] \in Threads /\ pc[previous[t]] \in QueueLabels
      BY <2>2, <1>00, McsPlace
    <2>4. next[previous[t]] = NULL
      BY <2>1, <2>2, <1>2 DEF McsInv, McsNext
    <2> QED BY <2>3, <2>4 DEF McsInv
  <1>3. ASSUME NEW t \in Threads, pc[t] = "u_pass"
        PROVE  successor[t] \in Threads /\ pc[successor[t]] = "spin" /\ locked[successor[t]]
    <2>1. Len(arrivals) > 0 /\ arrivals[1] = t
      BY <1>3, McsPlace
    <2>2. successor[t] = McsNext(1) /\ McsNext(1) # NULL
      BY <1>3, <2>1, <1>00 DEF McsInv
    <2>3. Len(arrivals) > 1 /\ successor[t] = arrivals[2] /\ pc[arrivals[2]] = "spin"
      BY <2>2, <1>00 DEF McsNext
    <2> QED BY <2>3, <1>00 DEF McsInv
  <1> QED BY <1>1, <1>2, <1>3 DEF Mcs!NodeLifetime

-----------------------------------------------------------------------------
(* ck_spinlock_clh: each thread waits on the node of the one before it.    *)

\* The node with which a thread will make its next request, and the one that
\* is nobody's.
ClhOwn(t) == IF pc[t] = "u_take" THEN previous[t] ELSE thread[t]
ClhFree == IF arrivals = <<>> THEN queue ELSE previous[arrivals[1]]
\* Where a thread can be in ck_spinlock_clh.
ClhLabels == {"idle", "swap", "store", "spin", "cs", "u_clear", "u_take"}

\* Each request waits on the node of the one before it; all nodes but one are
\* owned, by one thread each.
ClhInv ==
  /\ pc \in [Threads -> ClhLabels] /\ queue \in Clh!Node
  /\ wait \in [Clh!Node -> BOOLEAN] /\ prevOf \in [Clh!Node -> Clh!Node \cup {NULL}]
  /\ thread \in [Threads -> Clh!Node] /\ previous \in [Threads -> Clh!Node \cup {NULL}]
  /\ Queued
  \* Every node has one owner, but for one that is free.
  /\ \A t \in Threads : ClhOwn(t) \in Clh!Node /\ ClhOwn(t) # ClhFree
  /\ \A t, u \in Threads : ClhOwn(t) = ClhOwn(u) => t = u
  /\ ClhFree \in Clh!Node /\ ~wait[ClhFree]
  /\ \A t \in Threads : pc[t] \notin {"idle", "u_take"} => wait[thread[t]]
  \* The queue is a chain of nodes.
  /\ \A i \in 2 .. Len(arrivals) : previous[arrivals[i]] = thread[arrivals[i - 1]]
  /\ Len(arrivals) > 0 => queue = thread[arrivals[Len(arrivals)]]
  /\ \A t \in Threads : pc[t] \in {"spin", "cs", "u_clear"} => prevOf[thread[t]] = previous[t]

\* The labels of ck_spinlock_clh.
LEMMA ClhQueueLabels ==
  ASSUME lock = "clh"
  PROVE  /\ lock \in QueueLocks
         /\ HolderLabels = {"cs", "u_clear"}
         /\ QueueLabels = {"store", "spin", "cs", "u_clear"}
  BY DEF QueueLocks, HolderLabels, QueueLabels

\* A new lock has one node, which nobody waits on.
LEMMA ClhInit ==
  ASSUME Init, lock = "clh"
  PROVE  ClhInv
  <1>1. Clh!Init
    BY DEF Init
  <1>2. Queued
    BY <1>1, ClhQueueLabels DEF Queued, InQueue, Clh!Init
  <1> QED BY <1>1, <1>2, SpinlocksAssumption
          DEF ClhInv, Clh!Init, Clh!Node, ClhOwn, ClhFree, ClhLabels

\* The place of a thread in the queue.
LEMMA ClhPlace ==
  ASSUME lock = "clh", ClhInv, NEW t \in Threads, pc[t] \in {"store", "spin", "cs", "u_clear"}
  PROVE  \E i \in 1 .. Len(arrivals) : arrivals[i] = t
  BY ClhQueueLabels DEF ClhInv, Queued, InQueue

\* A thread that is not the head finds the flag of its predecessor set.
LEMMA ClhHead ==
  ASSUME lock = "clh", ClhInv, NEW t \in Threads, pc[t] = "spin", ~wait[previous[t]]
  PROVE  t = arrivals[1]
  <1>1. PICK i \in 1 .. Len(arrivals) : arrivals[i] = t
    BY ClhPlace
  <1>2. ASSUME i # 1 PROVE FALSE
    <2>0. Len(arrivals) \in Nat /\ i - 1 \in 1 .. Len(arrivals) /\ i \in 2 .. Len(arrivals)
      BY <1>2 DEF ClhInv, Queued
    <2>1. previous[t] = thread[arrivals[i - 1]] /\ arrivals[i - 1] \in Threads
      BY <1>1, <2>0 DEF ClhInv, Queued
    <2>2. pc[arrivals[i - 1]] \in {"store", "spin", "cs", "u_clear"}
      BY <2>0, <2>1, ClhQueueLabels DEF ClhInv, Queued, InQueue
    <2> QED BY <2>1, <2>2 DEF ClhInv
  <1> QED BY <1>1, <1>2

\* Every step of ck_spinlock_clh preserves the invariant, and is a step of the
\* queue or a stutter.
LEMMA ClhStep ==
  ASSUME ClhInv, lock = "clh", NEW t \in Threads, Clh!Step(t), lock' = lock
  PROVE  ClhInv' /\ [Fifo!Next]_(Fifo!vars)
  <1>0. pc \in [Threads -> Labels] /\ Queued
    BY DEF ClhInv, ClhLabels, Labels
  <1>00. Len(arrivals) \in Nat /\ \A i \in 1 .. Len(arrivals) : arrivals[i] \in Threads
    BY <1>0 DEF Queued
  <1> USE ClhQueueLabels
  <1>1. CASE Clh!Prepare(t)
    <2> USE <1>1 DEF Clh!Prepare, Clh!Goto
    <2>1. Queued' /\ [Fifo!Next]_(Fifo!vars)
      BY <1>0, QueueStay
    <2>2. ClhFree' = ClhFree /\ \A u \in Threads : ClhOwn(u)' = ClhOwn(u)
      BY DEF ClhFree, ClhOwn, ClhInv
    <2> QED BY <2>1, <2>2, <1>00 DEF ClhInv, ClhLabels, ClhOwn
  <1>2. CASE Clh!Swap(t)
    <2> USE <1>2 DEF Clh!Swap, Clh!Goto
    <2>1. /\ Queued' /\ [Fifo!Next]_(Fifo!vars)
          /\ Len(arrivals') = Len(arrivals) + 1 /\ Len(arrivals) \in Nat
          /\ arrivals'[Len(arrivals) + 1] = t
          /\ \A i \in 1 .. Len(arrivals) : /\ arrivals'[i] = arrivals[i] /\ arrivals[i] \in Threads
                                           /\ arrivals[i] # t
      BY <1>0, QueueJoin
    <2>2. ClhFree' = ClhFree
      <3>1. CASE arrivals = <<>>
        BY <2>1, <3>1, <1>0 DEF ClhFree, ClhInv
      <3>2. CASE arrivals # <<>>
        <4>1. Len(arrivals) > 0 /\ arrivals' # <<>>
          BY <2>1, <3>2, <1>0 DEF Queued
        <4> QED BY <2>1, <3>2, <4>1, <1>0 DEF ClhFree, ClhInv
      <3> QED BY <3>1, <3>2
    <2>3. \A u \in Threads : ClhOwn(u)' = ClhOwn(u)
      BY DEF ClhOwn, ClhInv
    <2>4. \A i \in 2 .. Len(arrivals') : previous'[arrivals'[i]] = thread[arrivals'[i - 1]]
      <3> SUFFICES ASSUME NEW i \in 2 .. Len(arrivals')
                   PROVE  previous'[arrivals'[i]] = thread[arrivals'[i - 1]]
        OBVIOUS
      <3>1. CASE i <= Len(arrivals)
        BY <2>1, <3>1 DEF ClhInv
      <3>2. CASE i = Len(arrivals) + 1
        BY <2>1, <3>2 DEF ClhInv
      <3> QED BY <2>1, <3>1, <3>2
    <2> QED BY <2>1, <2>2, <2>3, <2>4 DEF ClhInv, ClhLabels
  <1>3. CASE Clh!StorePrevious(t)
    <2> USE <1>3 DEF Clh!StorePrevious, Clh!Goto
    <2>1. Queued' /\ [Fifo!Next]_(Fifo!vars)
      BY <1>0, QueueStay
    <2>2. ClhFree' = ClhFree /\ \A u \in Threads : ClhOwn(u)' = ClhOwn(u)
      BY DEF ClhFree, ClhOwn, ClhInv
    <2> QED BY <2>1, <2>2, <1>00 DEF ClhInv, ClhLabels, ClhOwn
  <1>4. CASE Clh!Spin(t)
    <2> USE <1>4 DEF Clh!Spin, Clh!Goto
    <2>0. t = arrivals[1]
      BY ClhHead
    <2>1. Queued' /\ [Fifo!Next]_(Fifo!vars)
      BY <1>0, <2>0, QueueStay
    <2>2. ClhFree' = ClhFree /\ \A u \in Threads : ClhOwn(u)' = ClhOwn(u)
      BY DEF ClhFree, ClhOwn, ClhInv
    <2> QED BY <2>1, <2>2, <1>00 DEF ClhInv, ClhLabels
  <1>5. CASE Clh!UnlockLoad(t)
    <2> USE <1>5 DEF Clh!UnlockLoad, Clh!Goto
    <2>0. t = arrivals[1] /\ previous' = previous
      BY <1>0, QueueExclusive, QueueHolders DEF ClhInv
    <2>1. Queued' /\ [Fifo!Next]_(Fifo!vars)
      BY <1>0, <2>0, QueueStay
    <2>2. ClhFree' = ClhFree /\ \A u \in Threads : ClhOwn(u)' = ClhOwn(u)
      BY <2>0 DEF ClhFree, ClhOwn, ClhInv
    <2> QED BY <2>0, <2>1, <2>2, <1>00 DEF ClhInv, ClhLabels
  <1>6. CASE Clh!UnlockClear(t)
    <2>0. /\ lock \in QueueLocks /\ pc[t] \in HolderLabels /\ "u_take" \notin QueueLabels
          /\ pc' = [pc EXCEPT ![t] = "u_take"] /\ arrivals' = Tail(arrivals)
      BY <1>6 DEF Clh!UnlockClear, Clh!Goto
    <2>1. /\ Queued' /\ [Fifo!Next]_(Fifo!vars)
          /\ Len(arrivals) > 0 /\ arrivals[1] = t
          /\ Len(arrivals') = Len(arrivals) - 1 /\ Len(arrivals') \in Nat /\ Len(arrivals) \in Nat
          /\ \A i \in 1 .. Len(arrivals') :
                /\ arrivals'[i] = arrivals[i + 1] /\ arrivals[i + 1] \in Threads
                /\ arrivals[i + 1] # t
      BY <1>0, <2>0, QueueLeave
    <2>1a. arrivals' = <<>> => Len(arrivals') = 0
      OBVIOUS
    <2> USE <1>6 DEF Clh!UnlockClear, Clh!Goto
    <2>2. ClhFree' = thread[t]
      <3>1. CASE arrivals' = <<>>
        <4>2. Len(arrivals) = 1
          BY <2>1, <3>1, <2>1a
        <4> QED BY <2>1, <3>1, <4>2 DEF ClhFree, ClhInv
      <3>2. CASE arrivals' # <<>>
        <4>1. Len(arrivals') > 0
          BY <2>1, <3>2 DEF Queued
        <4>2. 2 \in 2 .. Len(arrivals) /\ arrivals'[1] = arrivals[2]
          BY <2>1, <4>1
        <4> QED BY <2>1, <3>2, <4>2 DEF ClhFree, ClhInv
      <3> QED BY <3>1, <3>2
    <2>3. ClhOwn(t)' = ClhFree /\ \A u \in Threads \ {t} : ClhOwn(u)' = ClhOwn(u)
      BY <2>1 DEF ClhOwn, ClhInv, ClhFree
    <2>4. ClhOwn(t) = thread[t] /\ \A u \in Threads : pc'[u] \notin {"idle", "u_take"} =>
                  ClhOwn(u) = thread[u] /\ u # t
      BY DEF ClhOwn, ClhInv
    <2>5. \A i \in 2 .. Len(arrivals') : previous'[arrivals'[i]] = thread'[arrivals'[i - 1]]
      <3> SUFFICES ASSUME NEW i \in 2 .. Len(arrivals')
                   PROVE  previous[arrivals'[i]] = thread[arrivals'[i - 1]]
        OBVIOUS
      <3>1. i + 1 \in 2 .. Len(arrivals) /\ (i - 1) + 1 = i
        BY <2>1
      <3>2. arrivals'[i] = arrivals[i + 1] /\ arrivals'[i - 1] = arrivals[i]
        BY <2>1, <3>1
      <3> QED BY <3>1, <3>2 DEF ClhInv
    <2>6. Len(arrivals') > 0 => queue' = thread'[arrivals'[Len(arrivals')]]
      BY <2>1 DEF ClhInv
    <2>7. /\ \A u \in Threads : ClhOwn(u)' \in Clh!Node /\ ClhOwn(u)' # ClhFree'
          /\ \A u, v \in Threads : ClhOwn(u)' = ClhOwn(v)' => u = v
          /\ ClhFree' \in Clh!Node /\ ~wait'[ClhFree']
      BY <2>2, <2>3, <2>4 DEF ClhInv
    <2>8. \A u \in Threads : pc'[u] \notin {"idle", "u_take"} => wait'[thread'[u]]
      BY <2>4 DEF ClhInv
    <2> QED BY <2>1, <2>5, <2>6, <2>7, <2>8 DEF ClhInv, ClhLabels
  <1>7. CASE Clh!UnlockTake(t)
    <2> USE <1>7 DEF Clh!UnlockTake, Clh!Goto
    <2>1. Queued' /\ [Fifo!Next]_(Fifo!vars)
      BY <1>0, QueueStay
    <2>2. \A i \in 1 .. Len(arrivals) : arrivals[i] # t
      BY <1>0 DEF Queued, InQueue
    <2>3. ClhFree' = ClhFree /\ \A u \in Threads : ClhOwn(u)' = ClhOwn(u)
      <3>1. arrivals # <<>> => arrivals[1] # t /\ arrivals[1] \in Threads
        BY <2>2, <1>0 DEF Queued
      <3> QED BY <3>1 DEF ClhFree, ClhOwn, ClhInv
    <2>4. previous[t] \in Clh!Node
      BY DEF ClhInv, ClhOwn
    <2>5. \A i \in 2 .. Len(arrivals) : previous'[arrivals[i]] = thread'[arrivals[i - 1]]
      <3> SUFFICES ASSUME NEW i \in 2 .. Len(arrivals)
                   PROVE  previous'[arrivals[i]] = thread'[arrivals[i - 1]]
        OBVIOUS
      <3>1. i \in 1 .. Len(arrivals) /\ i - 1 \in 1 .. Len(arrivals)
        BY <1>00
      <3> QED BY <3>1, <2>2, <1>00 DEF ClhInv
    <2>6. Len(arrivals) > 0 => queue = thread'[arrivals[Len(arrivals)]]
      <3>1. Len(arrivals) > 0 => Len(arrivals) \in 1 .. Len(arrivals)
        BY <1>00
      <3> QED BY <3>1, <2>2, <1>00 DEF ClhInv
    <2> QED BY <2>1, <2>3, <2>4, <2>5, <2>6 DEF ClhInv, ClhLabels
  <1> QED BY <1>1, <1>2, <1>3, <1>4, <1>5, <1>6, <1>7 DEF Clh!Step

\* What the invariant says of ck_spinlock_clh_locked and of the nodes.
LEMMA ClhSafe ==
  ASSUME ClhInv, lock = "clh"
  PROVE  HolderSeesLocked /\ Clh!OwnNode
  <1>0. Len(arrivals) \in Nat /\ \A i \in 1 .. Len(arrivals) : arrivals[i] \in Threads
    BY DEF Queued, ClhInv
  <1>1. ASSUME NEW t \in Threads, pc[t] = "cs" PROVE wait[queue]
    <2>1. Len(arrivals) > 0
      BY <1>1, ClhPlace, <1>0
    <2>2. arrivals[Len(arrivals)] \in Threads /\ InQueue(arrivals[Len(arrivals)])
      BY <2>1, <1>0 DEF InQueue
    <2>3. pc[arrivals[Len(arrivals)]] \notin {"idle", "u_take"}
      BY <2>2, ClhQueueLabels DEF ClhInv, Queued
    <2> QED BY <2>1, <2>2, <2>3 DEF ClhInv
  <1>2. ASSUME NEW t \in Threads, pc[t] \in {"idle", "swap"}, NEW s \in Threads, s # t
        PROVE  /\ pc[s] # "u_take" => thread[s] # thread[t]
               /\ pc[s] \notin {"idle", "swap"} => previous[s] # thread[t]
    <2>1. ClhOwn(t) = thread[t] /\ ClhOwn(s) # ClhOwn(t)
      BY <1>2 DEF ClhOwn, ClhInv
    <2>2. CASE pc[s] \in {"store", "spin", "cs", "u_clear"}
      <3>1. PICK i \in 1 .. Len(arrivals) : arrivals[i] = s
        BY <2>2, ClhPlace
      <3>2. CASE i = 1
        <4>1. arrivals # <<>>
          BY <3>1, <3>2
        <4>2. previous[s] = ClhFree
          BY <3>1, <3>2, <4>1 DEF ClhFree
        <4> QED BY <2>1, <2>2, <4>2 DEF ClhInv, ClhOwn
      <3>3. CASE i > 1
        <4>1. i - 1 \in 1 .. Len(arrivals) /\ i \in 2 .. Len(arrivals)
          BY <3>3, <1>0
        <4>2. arrivals[i - 1] \in Threads /\ pc[arrivals[i - 1]] \in QueueLabels
          BY <4>1, <1>0 DEF ClhInv, Queued, InQueue
        <4>3. previous[s] = ClhOwn(arrivals[i - 1]) /\ arrivals[i - 1] # t
          BY <3>1, <4>1, <4>2, <1>2, ClhQueueLabels DEF ClhInv, ClhOwn
        <4> QED BY <2>1, <2>2, <4>2, <4>3 DEF ClhInv, ClhOwn
      <3> QED BY <3>2, <3>3, <1>0
    <2>3. CASE pc[s] \in {"idle", "swap", "u_take"}
      BY <2>1, <2>3 DEF ClhOwn
    <2> QED BY <2>2, <2>3 DEF ClhInv, ClhLabels
  <1>3. ASSUME NEW t \in Threads, pc[t] \in {"idle", "swap"} PROVE queue # thread[t]
    <2>1. ClhOwn(t) = thread[t]
      BY <1>3 DEF ClhOwn
    <2>2. CASE arrivals = <<>>
      BY <2>1, <2>2 DEF ClhInv, ClhFree
    <2>3. CASE arrivals # <<>>
      <3>1. Len(arrivals) \in 1 .. Len(arrivals) /\ Len(arrivals) > 0
        BY <2>3 DEF ClhInv, Queued
      <3>2. arrivals[Len(arrivals)] \in Threads /\ pc[arrivals[Len(arrivals)]] \in QueueLabels
        BY <3>1, <1>0 DEF ClhInv, Queued, InQueue
      <3>3. queue = ClhOwn(arrivals[Len(arrivals)]) /\ arrivals[Len(arrivals)] # t
        BY <3>1, <3>2, <1>3, ClhQueueLabels DEF ClhInv, ClhOwn
      <3> QED BY <2>1, <3>2, <3>3 DEF ClhInv
    <2> QED BY <2>2, <2>3
  <1> QED BY <1>1, <1>2, <1>3 DEF HolderSeesLocked, Locked, Clh!Locked, Clh!OwnNode

-----------------------------------------------------------------------------
(* ck_spinlock_anderson: a slot per request, in an array that wraps around. *)

\* Where a thread can be in ck_spinlock_anderson.
AndersonLabels == {"idle", "cas", "spin", "mark", "cs"}
\* The slot of the head of the queue, or of the next request if it is empty.
FirstSlot == IF Len(arrivals) = 0 THEN next % count ELSE position[arrivals[1]]
\* Slots are counted around the array.
Wrapped(k, c) == IF k < c THEN k ELSE k - c

\* The requests have consecutive slots, beginning with the first; no slot but
\* that one is available.
AndersonInv ==
  /\ count \in Counts /\ next \in 0 .. NextMod - 1
  /\ pc \in [Threads -> AndersonLabels] /\ position \in [Threads -> 0 .. NextMod - 1]
  /\ slots \in [0 .. count - 1 -> BOOLEAN]
  /\ Queued
  /\ FirstSlot \in 0 .. count - 1
  \* Requests have consecutive slots, and so has the one to come.
  /\ \A i \in 1 .. Len(arrivals) : position[arrivals[i]] = Wrapped(FirstSlot + i - 1, count)
  /\ next % count = Wrapped(FirstSlot + Len(arrivals), count)
  /\ Anderson!wrap = 0 => \A t \in Threads : pc[t] # "cas"
  \* One slot is available, until the head of the queue has taken it.
  /\ \A k \in 0 .. count - 1 : slots[k] <=>
        ~(k = FirstSlot /\ (Len(arrivals) > 0 => pc[arrivals[1]] \in {"spin", "mark"}))

\* The remainder of a division is unique.
LEMMA RemainderUnique ==
  ASSUME NEW c \in Nat \ {0}, NEW q \in Int, NEW p \in Int, NEW r \in 0 .. c - 1,
           NEW s \in 0 .. c - 1,
         c * q + r = c * p + s
  PROVE  r = s
  <1>1. CASE q = p
    BY <1>1
  <1>2. CASE q > p
    <2>1. q - p >= 1 /\ q - p \in Nat
      BY <1>2
    <2>2. c * (q - p) >= c
      BY <2>1
    <2>3. c * (q - p) = c * q - c * p
      OBVIOUS
    <2> QED BY <2>2, <2>3
  <1>3. CASE p > q
    <2>1. p - q >= 1 /\ p - q \in Nat
      BY <1>3
    <2>2. c * (p - q) >= c
      BY <2>1
    <2>3. c * (p - q) = c * p - c * q
      OBVIOUS
    <2> QED BY <2>2, <2>3
  <1> QED BY <1>1, <1>2, <1>3

\* The remainder of the successor.
LEMMA RemainderSucc ==
  ASSUME NEW c \in Nat \ {0}, NEW n \in Nat
  PROVE  /\ n % c \in 0 .. c - 1
         /\ (n + 1) % c = IF (n % c) + 1 < c THEN (n % c) + 1 ELSE 0
  <1>1. /\ n \div c \in Int /\ n % c \in 0 .. c - 1 /\ n = c * (n \div c) + (n % c)
        /\ (n + 1) \div c \in Int /\ (n + 1) % c \in 0 .. c - 1
        /\ n + 1 = c * ((n + 1) \div c) + ((n + 1) % c)
    OBVIOUS
  <1> DEFINE q == n \div c  r == n % c  p == (n + 1) \div c  s == (n + 1) % c
  <1>2. /\ q \in Int /\ r \in 0 .. c - 1 /\ p \in Int /\ s \in 0 .. c - 1
        /\ c * p + s = c * q + r + 1
    BY <1>1
  <1> HIDE DEF q, r, p, s
  <1>3. ASSUME r + 1 < c PROVE s = r + 1
    <2>1. c * p + s = c * q + (r + 1) /\ r + 1 \in 0 .. c - 1
      BY <1>2, <1>3
    <2> QED BY <1>2, <2>1, RemainderUnique
  <1>4. ASSUME ~(r + 1 < c) PROVE s = 0
    <2>1. r + 1 = c
      BY <1>2, <1>4
    <2>2. c * (q + 1) = c * q + c
      BY <1>2
    <2>3. c * p + s = c * (q + 1) + 0 /\ q + 1 \in Int /\ 0 \in 0 .. c - 1
      BY <1>2, <2>1, <2>2
    <2> QED BY <1>2, <2>3, RemainderUnique
  <1>5. s = IF r + 1 < c THEN r + 1 ELSE 0
    BY <1>3, <1>4
  <1> QED BY <1>2, <1>5 DEF r, s

\* The increment of next, at its overflow too, advances the slot by one.
LEMMA NextSlot ==
  ASSUME count \in Counts, next \in 0 .. NextMod - 1
  PROVE  /\ count \in Nat \ {0} /\ count < NextMod /\ NextMod \in Nat
         /\ next % count \in 0 .. count - 1
         /\ Anderson!wrap = 0 =>
              /\ (next + 1) % NextMod \in 0 .. NextMod - 1
              /\ ((next + 1) % NextMod) % count =
                   IF (next % count) + 1 < count THEN (next % count) + 1 ELSE 0
         /\ Anderson!wrap # 0 =>
              /\ Anderson!Incremented(next) \in 0 .. NextMod - 1
              /\ Anderson!Incremented(next) % count =
                   IF (next % count) + 1 < count THEN (next % count) + 1 ELSE 0
  <1>1. count \in Nat \ {0} /\ count < NextMod /\ NextMod \in Nat \ {0} /\ next \in Nat
    BY SpinlocksAssumption
  <1>2. /\ next % count \in 0 .. count - 1
        /\ (next + 1) % count = IF (next % count) + 1 < count THEN (next % count) + 1 ELSE 0
    BY <1>1, RemainderSucc
  <1>3. /\ NextMod - 1 \in Nat /\ (NextMod - 1) % count \in 0 .. count - 1
        /\ NextMod % count
             = IF ((NextMod - 1) % count) + 1 < count THEN ((NextMod - 1) % count) + 1 ELSE 0
    <2>1. NextMod - 1 \in Nat /\ (NextMod - 1) + 1 = NextMod
      BY <1>1
    <2>2. /\ (NextMod - 1) % count \in 0 .. count - 1
          /\ ((NextMod - 1) + 1) % count =
               IF ((NextMod - 1) % count) + 1 < count THEN ((NextMod - 1) % count) + 1 ELSE 0
      BY <1>1, <2>1, RemainderSucc
    <2> QED BY <2>1, <2>2
  <1>4. 0 % count = 0
    BY <1>1
  <1>5. \A m \in 0 .. count - 1 : m % count = m
    <2> SUFFICES ASSUME NEW m \in 0 .. count - 1 PROVE m % count = m
      OBVIOUS
    <2>1. m \div count \in Int /\ m % count \in 0 .. count - 1
            /\ m = count * (m \div count) + (m % count)
      BY <1>1
    <2>2. count * (m \div count) + (m % count) = count * 0 + m
      BY <1>1, <2>1
    <2> QED BY <1>1, <2>1, <2>2, RemainderUnique
  <1>6. count % count = 0
    <2>1. count - 1 \in Nat /\ (count - 1) + 1 = count /\ (count - 1) % count = count - 1
      BY <1>1, <1>5
    <2>2. ((count - 1) + 1) % count =
            IF ((count - 1) % count) + 1 < count THEN ((count - 1) % count) + 1 ELSE 0
      BY <1>1, <2>1, RemainderSucc
    <2> QED BY <1>1, <2>1, <2>2
  <1>7. Anderson!wrap = 0 <=> NextMod % count = 0
    BY <1>3 DEF Anderson!wrap
  <1>8. ASSUME Anderson!wrap = 0
        PROVE  /\ (next + 1) % NextMod \in 0 .. NextMod - 1
               /\ ((next + 1) % NextMod) % count =
                   IF (next % count) + 1 < count THEN (next % count) + 1 ELSE 0
    <2>1. (NextMod - 1) % count = count - 1
      BY <1>1, <1>3, <1>7, <1>8
    <2>2. CASE next = NextMod - 1
      <3>1. next + 1 = NextMod /\ NextMod % NextMod = 0
        <4>1. (NextMod - 1) % NextMod = NextMod - 1
          <5>1. /\ (NextMod - 1) \div NextMod \in Int
                /\ (NextMod - 1) % NextMod \in 0 .. NextMod - 1
                /\ NextMod - 1 = NextMod * ((NextMod - 1) \div NextMod) + ((NextMod - 1) % NextMod)
            BY <1>1
          <5>2. NextMod * ((NextMod - 1) \div NextMod) + ((NextMod - 1) % NextMod)
                  = NextMod * 0 + (NextMod - 1)
            BY <1>1, <5>1
          <5> QED BY <1>1, <1>3, <5>1, <5>2, RemainderUnique
        <4>2. ((NextMod - 1) + 1) % NextMod =
                 IF ((NextMod - 1) % NextMod) + 1 < NextMod
                 THEN ((NextMod - 1) % NextMod) + 1 ELSE 0
          BY <1>1, <1>3, RemainderSucc
        <4>3. (NextMod - 1) + 1 = NextMod
          BY <1>1
        <4> QED BY <1>1, <2>2, <4>1, <4>2, <4>3
      <3> QED BY <1>1, <1>4, <2>1, <2>2, <3>1
    <2>3. CASE next # NextMod - 1
      <3>1. next + 1 \in 0 .. NextMod - 1
        BY <1>1, <2>3
      <3>2. (next + 1) % NextMod = next + 1
        <4>1. /\ (next + 1) \div NextMod \in Int /\ (next + 1) % NextMod \in 0 .. NextMod - 1
              /\ next + 1 = NextMod * ((next + 1) \div NextMod) + ((next + 1) % NextMod)
          BY <1>1, <3>1
        <4>2. NextMod * ((next + 1) \div NextMod) + ((next + 1) % NextMod)
                = NextMod * 0 + (next + 1)
          BY <1>1, <4>1
        <4> QED BY <1>1, <3>1, <4>1, <4>2, RemainderUnique
      <3> QED BY <1>2, <3>1, <3>2
    <2> QED BY <2>2, <2>3
  <1>9. ASSUME Anderson!wrap # 0
        PROVE  /\ Anderson!Incremented(next) \in 0 .. NextMod - 1
               /\ Anderson!Incremented(next) % count =
                    IF (next % count) + 1 < count THEN (next % count) + 1 ELSE 0
    <2>1. NextMod % count # 0 /\ Anderson!wrap = ((NextMod - 1) % count) + 1
      BY <1>7, <1>9 DEF Anderson!wrap
    <2>2. CASE next = NextMod - 1
      <3>1. Anderson!Incremented(next) = (next % count) + 1
        BY <2>1, <2>2 DEF Anderson!Incremented
      <3>2. (next % count) + 1 \in 0 .. count
        BY <1>1, <1>2
      <3>3. ((next % count) + 1) % count =
              IF (next % count) + 1 < count THEN (next % count) + 1 ELSE 0
        <4>1. CASE (next % count) + 1 < count
          BY <4>1, <1>1, <1>2, <1>5
        <4>2. CASE ~((next % count) + 1 < count)
          <5>1. (next % count) + 1 = count
            BY <4>2, <1>1, <1>2
          <5> QED BY <5>1, <1>6, <1>1
        <4> QED BY <4>1, <4>2
      <3> QED BY <1>1, <3>1, <3>2, <3>3
    <2>3. CASE next # NextMod - 1
      <3>1. Anderson!Incremented(next) = next + 1
        BY <2>3 DEF Anderson!Incremented
      <3> QED BY <1>1, <1>2, <2>3, <3>1
    <2> QED BY <2>2, <2>3
  <1> QED BY <1>1, <1>2, <1>8, <1>9

\* The labels of ck_spinlock_anderson.
LEMMA AndersonQueueLabels ==
  ASSUME lock = "anderson"
  PROVE  /\ lock \in QueueLocks
         /\ HolderLabels = {"mark", "cs"}
         /\ QueueLabels = {"spin", "mark", "cs"}
  BY DEF QueueLocks, HolderLabels, QueueLabels

\* There are no more requests than threads.
LEMMA QueueBound ==
  ASSUME NEW s \in Seq(Threads), \A i, j \in 1 .. Len(s) : s[i] = s[j] => i = j
  PROVE  Len(s) <= Cardinality(Threads)
  <1> DEFINE f == [i \in 1 .. Len(s) |-> s[i]]
  <1>1. f \in [1 .. Len(s) -> Threads] /\ Len(s) \in Nat
    OBVIOUS
  <1>2. \A i, j \in 1 .. Len(s) : f[i] = f[j] => i = j
    OBVIOUS
  <1>3. IsFiniteSet(1 .. Len(s)) /\ Cardinality(1 .. Len(s)) = Len(s)
    BY <1>1, FS_Interval
  <1>4. IsFiniteSet(Threads) /\ Cardinality(Threads) \in Nat
    BY SpinlocksAssumption, FS_CardinalityType
  <1> HIDE DEF f
  <1>5. ~(Cardinality(Threads) < Cardinality(1 .. Len(s)))
    BY <1>1, <1>2, <1>3, <1>4, FS_PigeonHole
  <1> QED BY <1>1, <1>3, <1>4, <1>5

\* A new lock has its first slot available.
LEMMA AndersonInit ==
  ASSUME Init, lock = "anderson"
  PROVE  AndersonInv
  <1>1. Anderson!Init
    BY DEF Init
  <1>2. Queued /\ Len(arrivals) = 0
    BY <1>1, AndersonQueueLabels DEF Queued, InQueue, Anderson!Init
  <1>3. count \in Counts /\ next \in 0 .. NextMod - 1 /\ 0 \in 0 .. NextMod - 1
    BY <1>1, SpinlocksAssumption DEF Anderson!Init
  <1>4. count \in Nat \ {0} /\ FirstSlot \in 0 .. count - 1 /\ FirstSlot = next % count
    BY <1>2, <1>3, NextSlot DEF FirstSlot
  <1>5. next % count = Wrapped(FirstSlot + Len(arrivals), count)
    BY <1>2, <1>4 DEF Wrapped
  <1>6. /\ pc \in [Threads -> AndersonLabels] /\ \A t \in Threads : pc[t] # "cas"
        /\ position \in [Threads -> 0 .. NextMod - 1]
        /\ slots = [i \in 0 .. count - 1 |-> i # next % count]
    BY <1>1, <1>3 DEF Anderson!Init, AndersonLabels
  <1>7. slots \in [0 .. count - 1 -> BOOLEAN]
          /\ \A k \in 0 .. count - 1 : slots[k] <=> k # FirstSlot
    BY <1>4, <1>6
  <1> QED BY <1>2, <1>3, <1>4, <1>5, <1>6, <1>7 DEF AndersonInv

\* Facts about the queue in any state of the lock.
LEMMA AndersonPlace ==
  ASSUME lock = "anderson", AndersonInv
  PROVE  /\ Len(arrivals) \in Nat /\ Len(arrivals) <= count
         /\ \A i \in 1 .. Len(arrivals) : arrivals[i] \in Threads
         /\ count \in Nat \ {0}
         /\ \A t \in Threads : pc[t] \in QueueLabels
              => \E i \in 1 .. Len(arrivals) : arrivals[i] = t
         /\ \A t \in Threads : pc[t] \in HolderLabels => Len(arrivals) > 0 /\ arrivals[1] = t
         /\ \A t \in Threads : pc[t] \notin QueueLabels
              => \A i \in 1 .. Len(arrivals) : arrivals[i] # t
         /\ pc \in [Threads -> Labels] /\ Queued
  <1> USE AndersonQueueLabels
  <1>1. Len(arrivals) \in Nat /\ \A i \in 1 .. Len(arrivals) : arrivals[i] \in Threads
    BY DEF AndersonInv, Queued
  <1>2. count \in Nat \ {0} /\ Len(arrivals) <= count
    <2>1. Len(arrivals) <= Cardinality(Threads) /\ Cardinality(Threads) \in Nat
      BY QueueBound, SpinlocksAssumption, FS_CardinalityType DEF AndersonInv, Queued
    <2>2. Cardinality(Threads) <= count /\ count \in Nat \ {0}
      BY SpinlocksAssumption DEF AndersonInv
    <2> QED BY <1>1, <2>1, <2>2
  <1>3. \A t \in Threads : pc[t] \in QueueLabels <=> \E i \in 1 .. Len(arrivals) : arrivals[i] = t
    BY DEF AndersonInv, Queued, InQueue
  <1>4. \A t \in Threads : pc[t] \in HolderLabels => Len(arrivals) > 0 /\ arrivals[1] = t
    BY <1>1, <1>3 DEF AndersonInv, Queued
  <1>5. pc \in [Threads -> Labels] /\ Queued
    BY DEF AndersonInv, AndersonLabels, Labels
  <1> QED BY <1>1, <1>2, <1>3, <1>4, <1>5

\* A thread that is not in the queue loads next.
LEMMA AndersonLoad ==
  ASSUME lock = "anderson", lock' = lock, AndersonInv, NEW t \in Threads,
         pc[t] = "idle" \/ pc[t] = "cas", Anderson!wrap # 0,
         pc' = [pc EXCEPT ![t] = "cas"], position' = [position EXCEPT ![t] = next],
         UNCHANGED <<count, next, slots, arrivals>>
  PROVE  AndersonInv' /\ [Fifo!Next]_(Fifo!vars)
  <1> USE AndersonQueueLabels
  <1>1. Queued' /\ [Fifo!Next]_(Fifo!vars)
    <2>1. lock \in QueueLocks /\ pc[t] \notin QueueLabels /\ "cas" \notin QueueLabels
          /\ pc[t] \notin HolderLabels /\ "cas" \notin HolderLabels /\ arrivals' = arrivals
      OBVIOUS
    <2> QED BY <2>1, AndersonPlace, QueueStay
  <1>2. Len(arrivals) \in Nat /\ count \in Nat \ {0} /\ \A i \in 1 .. Len(arrivals) :
          /\ arrivals[i] # t /\ arrivals[i] \in Threads
          /\ pc'[arrivals[i]] = pc[arrivals[i]] /\ position'[arrivals[i]] = position[arrivals[i]]
    <2>1. pc[t] \notin QueueLabels
      OBVIOUS
    <2> QED BY <2>1, AndersonPlace DEF AndersonInv
  <1>3. FirstSlot' = FirstSlot
    BY <1>2 DEF FirstSlot
  <1>4. /\ pc' \in [Threads -> AndersonLabels] /\ position' \in [Threads -> 0 .. NextMod - 1]
    BY DEF AndersonInv, AndersonLabels
  <1>5. Anderson!wrap' = Anderson!wrap
    BY DEF Anderson!wrap
  <1>6. \A i \in 1 .. Len(arrivals) : position'[arrivals[i]] = Wrapped(FirstSlot + i - 1, count)
    BY <1>2 DEF AndersonInv
  <1>7. Len(arrivals) > 0 => pc'[arrivals[1]] = pc[arrivals[1]]
    BY <1>2
  <1> QED BY <1>1, <1>3, <1>4, <1>5, <1>6, <1>7 DEF AndersonInv

\* The atomic operation by which a request gets its slot.
LEMMA AndersonJoin ==
  ASSUME lock = "anderson", lock' = lock, AndersonInv, NEW t \in Threads,
         pc[t] = "idle" \/ pc[t] = "cas", pc' = [pc EXCEPT ![t] = "spin"],
         position' = [position EXCEPT ![t] = next % count],
         arrivals' = Append(arrivals, t), UNCHANGED <<count, slots>>,
         next' \in 0 .. NextMod - 1,
         next' % count = IF (next % count) + 1 < count THEN (next % count) + 1 ELSE 0
  PROVE  AndersonInv' /\ [Fifo!Next]_(Fifo!vars)
  <1> USE AndersonQueueLabels
  <1>1. /\ Queued' /\ [Fifo!Next]_(Fifo!vars)
        /\ Len(arrivals') = Len(arrivals) + 1 /\ Len(arrivals) \in Nat
        /\ arrivals'[Len(arrivals) + 1] = t
        /\ \A i \in 1 .. Len(arrivals) : /\ arrivals'[i] = arrivals[i] /\ arrivals[i] \in Threads
                                         /\ arrivals[i] # t
    <2>1. lock \in QueueLocks /\ pc[t] \notin QueueLabels /\ "spin" \in QueueLabels
          /\ "spin" \notin HolderLabels
      OBVIOUS
    <2> QED BY <2>1, AndersonPlace, QueueJoin
  <1>2. Len(arrivals') <= count /\ count \in Nat \ {0}
    <2>1. Len(arrivals') <= Cardinality(Threads) /\ Cardinality(Threads) \in Nat
      BY <1>1, QueueBound, SpinlocksAssumption, FS_CardinalityType DEF Queued
    <2>2. Cardinality(Threads) <= count /\ count \in Nat \ {0}
      BY SpinlocksAssumption DEF AndersonInv
    <2> QED BY <1>1, <2>1, <2>2
  <1>3. next % count \in 0 .. count - 1 /\ count < NextMod /\ NextMod \in Nat
    BY NextSlot DEF AndersonInv
  <1>4. FirstSlot' = FirstSlot /\ FirstSlot \in 0 .. count - 1
    <2>1. CASE Len(arrivals) = 0
      BY <1>1, <2>1 DEF FirstSlot, AndersonInv
    <2>2. CASE Len(arrivals) > 0
      <3>1. arrivals'[1] = arrivals[1] /\ arrivals[1] # t /\ arrivals[1] \in Threads
        BY <1>1, <2>2
      <3> QED BY <1>1, <2>2, <3>1 DEF FirstSlot, AndersonInv
    <2> QED BY <1>1, <2>1, <2>2
  <1>6. next % count = Wrapped(FirstSlot + Len(arrivals), count)
    BY DEF AndersonInv
  <1>7. \A i \in 1 .. Len(arrivals') : position'[arrivals'[i]] = Wrapped(FirstSlot + i - 1, count)
    <2> SUFFICES ASSUME NEW i \in 1 .. Len(arrivals')
                 PROVE  position'[arrivals'[i]] = Wrapped(FirstSlot + i - 1, count)
      OBVIOUS
    <2>1. CASE i \in 1 .. Len(arrivals)
      BY <1>1, <2>1 DEF AndersonInv
    <2>2. CASE i = Len(arrivals) + 1
      <3>1. position'[arrivals'[i]] = next % count
        BY <1>1, <2>2 DEF AndersonInv
      <3>2. FirstSlot + i - 1 = FirstSlot + Len(arrivals)
        BY <1>1, <1>4, <2>2
      <3> QED BY <3>1, <3>2, <1>6
    <2> QED BY <1>1, <2>1, <2>2
  <1>8. next' % count = Wrapped(FirstSlot + Len(arrivals'), count)
    <2>1. FirstSlot \in Nat /\ FirstSlot < count /\ Len(arrivals) + 1 <= count /\ count \in Nat
      BY <1>1, <1>2, <1>4
    <2> HIDE DEF FirstSlot
    <2> QED BY <2>1, <1>1, <1>6 DEF Wrapped
  <1>9. pc' \in [Threads -> AndersonLabels] /\ position' \in [Threads -> 0 .. NextMod - 1]
    BY <1>2, <1>3 DEF AndersonInv, AndersonLabels
  <1>10. (Len(arrivals') > 0 => pc'[arrivals'[1]] \in {"spin", "mark"}) <=>
         (Len(arrivals) > 0 => pc[arrivals[1]] \in {"spin", "mark"})
    <2>1. CASE Len(arrivals) = 0
      BY <1>1, <2>1 DEF AndersonInv
    <2>2. CASE Len(arrivals) > 0
      <3>1. arrivals'[1] = arrivals[1] /\ arrivals[1] # t /\ arrivals[1] \in Threads
        BY <1>1, <2>2
      <3> QED BY <1>1, <2>2, <3>1 DEF AndersonInv
    <2> QED BY <1>1, <2>1, <2>2
  <1>11. Anderson!wrap' = Anderson!wrap /\ (Anderson!wrap = 0 => \A u \in Threads : pc'[u] # "cas")
    BY DEF Anderson!wrap, AndersonInv
  <1>12. \A k \in 0 .. count - 1 : slots[k] <=>
           ~(k = FirstSlot' /\ (Len(arrivals') > 0 => pc'[arrivals'[1]] \in {"spin", "mark"}))
    <2> HIDE DEF FirstSlot
    <2> QED BY <1>4, <1>10 DEF AndersonInv
  <1>13. /\ count' = count /\ slots' = slots /\ count \in Counts
         /\ slots \in [0 .. count - 1 -> BOOLEAN]
    BY DEF AndersonInv
  <1> HIDE DEF FirstSlot
  <1> QED BY <1>1, <1>4, <1>7, <1>8, <1>9, <1>11, <1>12, <1>13 DEF AndersonInv

\* A thread finds its slot available only at the head of the queue.
LEMMA AndersonHead ==
  ASSUME lock = "anderson", AndersonInv, NEW t \in Threads, pc[t] = "spin", ~slots[position[t]]
  PROVE  t = arrivals[1] /\ Len(arrivals) > 0
  <1> USE AndersonQueueLabels
  <1>1. PICK i \in 1 .. Len(arrivals) : arrivals[i] = t
    BY AndersonPlace
  <1>2. Len(arrivals) \in Nat /\ Len(arrivals) <= count /\ count \in Nat
    BY AndersonPlace
  <1>3. position[t] = Wrapped(FirstSlot + i - 1, count) /\ FirstSlot \in 0 .. count - 1
    BY <1>1 DEF AndersonInv
  <1>4. position[t] \in 0 .. count - 1
    BY <1>2, <1>3 DEF Wrapped
  <1>5. position[t] = FirstSlot
    BY <1>4 DEF AndersonInv
  <1>6. i = 1
    BY <1>2, <1>3, <1>5 DEF Wrapped
  <1> QED BY <1>1, <1>2, <1>6

\* Every step of ck_spinlock_anderson preserves the invariant, and is a step of
\* the queue or a stutter.
LEMMA AndersonStep ==
  ASSUME AndersonInv, lock = "anderson", NEW t \in Threads, Anderson!Step(t), lock' = lock
  PROVE  AndersonInv' /\ [Fifo!Next]_(Fifo!vars)
  <1> USE AndersonQueueLabels
  <1>0. pc \in [Threads -> Labels] /\ Queued
    BY AndersonPlace
  <1>00. /\ Len(arrivals) \in Nat /\ \A i \in 1 .. Len(arrivals) : arrivals[i] \in Threads
         /\ count \in Nat \ {0} /\ Len(arrivals) <= count
         /\ FirstSlot \in 0 .. count - 1
    BY AndersonPlace DEF AndersonInv
  <1>1. CASE Anderson!Faa(t)
    <2>1. /\ pc[t] = "idle" /\ pc' = [pc EXCEPT ![t] = "spin"]
          /\ position' = [position EXCEPT ![t] = next % count]
          /\ arrivals' = Append(arrivals, t) /\ UNCHANGED <<count, slots>>
          /\ next' = (next + 1) % NextMod /\ Anderson!wrap = 0
      BY <1>1 DEF Anderson!Faa, Anderson!Goto
    <2>2. /\ next' \in 0 .. NextMod - 1
          /\ next' % count = IF (next % count) + 1 < count THEN (next % count) + 1 ELSE 0
      BY <2>1, NextSlot DEF AndersonInv
    <2> QED BY <2>1, <2>2, AndersonJoin
  <1>2. CASE Anderson!Load(t)
    BY <1>2, AndersonLoad DEF Anderson!Load, Anderson!Goto
  <1>3. CASE Anderson!Cas(t)
    <2>1. /\ pc[t] = "cas" /\ pc' = [pc EXCEPT ![t] = "spin"]
          /\ position' = [position EXCEPT ![t] = next % count]
          /\ arrivals' = Append(arrivals, t) /\ UNCHANGED <<count, slots>>
          /\ next' = Anderson!Incremented(next)
      BY <1>3 DEF Anderson!Cas, Anderson!Goto, AndersonInv
    <2>2. Anderson!wrap # 0
      BY <2>1 DEF AndersonInv
    <2>3. /\ next' \in 0 .. NextMod - 1
          /\ next' % count = IF (next % count) + 1 < count THEN (next % count) + 1 ELSE 0
      BY <2>1, <2>2, NextSlot DEF AndersonInv
    <2> QED BY <2>1, <2>3, AndersonJoin
  <1>4. CASE Anderson!CasFail(t)
    <2>1. pc' = [pc EXCEPT ![t] = "cas"] /\ Anderson!wrap # 0
      BY <1>4 DEF Anderson!CasFail, AndersonInv
    <2> QED BY <1>4, <2>1, AndersonLoad DEF Anderson!CasFail
  <1>5. CASE Anderson!Spin(t)
    <2>1. /\ pc[t] = "spin" /\ pc' = [pc EXCEPT ![t] = "mark"] /\ ~slots[position[t]]
          /\ UNCHANGED <<count, next, slots, position, arrivals>>
      BY <1>5 DEF Anderson!Spin, Anderson!Goto
    <2>2. t = arrivals[1] /\ Len(arrivals) > 0
      BY <2>1, AndersonHead
    <2>3. Queued' /\ [Fifo!Next]_(Fifo!vars)
      BY <1>0, <2>1, <2>2, QueueStay
    <2>4. FirstSlot' = FirstSlot
      BY <2>1 DEF FirstSlot
    <2>5. Anderson!wrap' = Anderson!wrap /\ (Anderson!wrap = 0 => \A u \in Threads : pc'[u] # "cas")
      BY <2>1 DEF Anderson!wrap, AndersonInv
    <2>6. pc'[arrivals'[1]] = "mark" /\ pc[arrivals[1]] = "spin"
      BY <2>1, <2>2 DEF AndersonInv
    <2>7. pc' \in [Threads -> AndersonLabels]
      BY <2>1 DEF AndersonInv, AndersonLabels
    <2> QED BY <2>1, <2>2, <2>3, <2>4, <2>5, <2>6, <2>7 DEF AndersonInv
  <1>6. CASE Anderson!Mark(t)
    <2>1. /\ pc[t] = "mark" /\ pc' = [pc EXCEPT ![t] = "cs"]
          /\ slots' = [slots EXCEPT ![position[t]] = TRUE]
          /\ UNCHANGED <<count, next, position, arrivals>>
      BY <1>6 DEF Anderson!Mark, Anderson!Goto
    <2>2. t = arrivals[1] /\ Len(arrivals) > 0 /\ position[t] = FirstSlot
      BY <2>1, AndersonPlace DEF FirstSlot
    <2>3. Queued' /\ [Fifo!Next]_(Fifo!vars)
      BY <1>0, <2>1, <2>2, QueueStay
    <2>4. FirstSlot' = FirstSlot
      BY <2>1 DEF FirstSlot
    <2>5. Anderson!wrap' = Anderson!wrap /\ (Anderson!wrap = 0 => \A u \in Threads : pc'[u] # "cas")
      BY <2>1 DEF Anderson!wrap, AndersonInv
    <2>6. pc'[arrivals'[1]] = "cs"
      BY <2>1, <2>2 DEF AndersonInv
    <2>7. pc' \in [Threads -> AndersonLabels] /\ slots' \in [0 .. count - 1 -> BOOLEAN]
      BY <2>1 DEF AndersonInv, AndersonLabels
    <2>8. \A k \in 0 .. count - 1 : slots'[k]
      BY <2>1, <2>2 DEF AndersonInv
    <2> QED BY <2>1, <2>2, <2>3, <2>4, <2>5, <2>6, <2>7, <2>8 DEF AndersonInv
  <1>7. CASE Anderson!Unlock(t)
    <2>1. /\ pc[t] = "cs" /\ pc' = [pc EXCEPT ![t] = "idle"]
          /\ slots' = [slots EXCEPT ![(position[t] + 1) % count] = FALSE]
          /\ arrivals' = Tail(arrivals) /\ UNCHANGED <<count, next, position>>
      BY <1>7 DEF Anderson!Unlock, Anderson!Goto
    <2>2. /\ Queued' /\ [Fifo!Next]_(Fifo!vars)
          /\ Len(arrivals) > 0 /\ arrivals[1] = t
          /\ Len(arrivals') = Len(arrivals) - 1 /\ Len(arrivals') \in Nat /\ Len(arrivals) \in Nat
          /\ \A i \in 1 .. Len(arrivals') :
                /\ arrivals'[i] = arrivals[i + 1] /\ arrivals[i + 1] \in Threads
                /\ arrivals[i + 1] # t
      <3>1. lock \in QueueLocks /\ pc[t] \in HolderLabels /\ "idle" \notin QueueLabels
        BY <2>1
      <3> QED BY <1>0, <2>1, <3>1, QueueLeave
    <2>3. position[t] = FirstSlot
      BY <2>2 DEF FirstSlot
    <2> DEFINE second == IF FirstSlot + 1 < count THEN FirstSlot + 1 ELSE 0
    <2>4. (position[t] + 1) % count = second /\ second \in 0 .. count - 1
      <3>1. FirstSlot % count = FirstSlot
        <4>1. /\ FirstSlot \div count \in Int /\ FirstSlot % count \in 0 .. count - 1
              /\ FirstSlot = count * (FirstSlot \div count) + (FirstSlot % count)
          BY <1>00
        <4>2. count * (FirstSlot \div count) + (FirstSlot % count) = count * 0 + FirstSlot
          BY <1>00, <4>1
        <4> QED BY <1>00, <4>1, <4>2, RemainderUnique
      <3>2. FirstSlot \in Nat
        BY <1>00
      <3>3. (FirstSlot + 1) % count =
              IF (FirstSlot % count) + 1 < count THEN (FirstSlot % count) + 1 ELSE 0
        BY <1>00, <3>2, RemainderSucc
      <3> QED BY <2>3, <3>1, <3>3, <1>00
    <2>4a. FirstSlot + 1 <= count /\ FirstSlot \in Nat /\ Len(arrivals) <= count
             /\ count \in Nat \ {0}
      BY <1>00
    <2>5. FirstSlot' = second
      <3>1. CASE Len(arrivals) = 1
        <4>1. Len(arrivals') = 0
          BY <3>1, <2>2
        <4>2. FirstSlot' = next % count
          BY <4>1, <2>1 DEF FirstSlot
        <4>3. next % count = Wrapped(FirstSlot + 1, count)
          BY <3>1 DEF AndersonInv
        <4> QED BY <4>2, <4>3, <2>4a DEF Wrapped
      <3>2. CASE Len(arrivals) > 1
        <4>1. Len(arrivals') # 0 /\ arrivals'[1] = arrivals[2] /\ 2 \in 1 .. Len(arrivals)
          BY <3>2, <2>2
        <4>2. position[arrivals[2]] = Wrapped(FirstSlot + 2 - 1, count)
          BY <4>1 DEF AndersonInv
        <4>3. FirstSlot' = position[arrivals[2]]
          BY <4>1, <2>1 DEF FirstSlot
        <4> QED BY <4>2, <4>3, <2>4a DEF Wrapped
      <3> QED BY <3>1, <3>2, <2>2
    <2>6. \A i \in 1 .. Len(arrivals) : Wrapped(second + i - 1, count)
            = Wrapped(FirstSlot + i, count)
      <3> HIDE DEF FirstSlot
      <3> SUFFICES ASSUME NEW i \in 1 .. Len(arrivals)
                   PROVE  Wrapped(second + i - 1, count) = Wrapped(FirstSlot + i, count)
        OBVIOUS
      <3>1. i \in Nat /\ i >= 1 /\ i <= count
        BY <2>2, <2>4a
      <3>2. CASE FirstSlot + 1 < count
        BY <2>4a, <3>1, <3>2 DEF Wrapped
      <3>3. CASE FirstSlot + 1 = count
        BY <2>4a, <3>1, <3>3 DEF Wrapped
      <3> QED BY <2>4a, <3>2, <3>3
    <2>7. \A i \in 1 .. Len(arrivals') : position[arrivals'[i]] = Wrapped(second + i - 1, count)
      <3> SUFFICES ASSUME NEW i \in 1 .. Len(arrivals')
                   PROVE  position[arrivals'[i]] = Wrapped(second + i - 1, count)
        OBVIOUS
      <3>1. i + 1 \in 1 .. Len(arrivals) /\ i \in 1 .. Len(arrivals)
              /\ arrivals'[i] = arrivals[i + 1]
        BY <2>2
      <3>2. position[arrivals[i + 1]] = Wrapped(FirstSlot + (i + 1) - 1, count)
        BY <3>1 DEF AndersonInv
      <3>3. FirstSlot + (i + 1) - 1 = FirstSlot + i
        BY <2>4a
      <3> QED BY <3>1, <3>2, <3>3, <2>6
    <2>8. next % count = Wrapped(second + Len(arrivals'), count)
      <3>1. second + Len(arrivals') = second + Len(arrivals) - 1
              /\ Len(arrivals) \in 1 .. Len(arrivals)
        BY <2>2, <2>4
      <3>2. next % count = Wrapped(FirstSlot + Len(arrivals), count)
        BY DEF AndersonInv
      <3> QED BY <3>1, <3>2, <2>6
    <2>8a. Anderson!wrap' = Anderson!wrap
             /\ (Anderson!wrap = 0 => \A u \in Threads : pc'[u] # "cas")
      BY <2>1 DEF Anderson!wrap, AndersonInv
    <2>9. Len(arrivals') > 0 => pc'[arrivals'[1]] \in {"spin", "mark"}
      <3> HAVE Len(arrivals') > 0
      <3>1. arrivals'[1] = arrivals[2] /\ arrivals[2] \in Threads /\ arrivals[2] # t
              /\ 2 \in 1 .. Len(arrivals)
        BY <2>2
      <3>2. pc[arrivals[2]] \in QueueLabels /\ pc[arrivals[2]] \notin HolderLabels
        BY <3>1, <1>0 DEF Queued, InQueue
      <3> QED BY <2>1, <3>1, <3>2 DEF AndersonInv
    <2>10. pc' \in [Threads -> AndersonLabels] /\ slots' \in [0 .. count - 1 -> BOOLEAN]
      BY <2>1 DEF AndersonInv, AndersonLabels
    <2>11. \A k \in 0 .. count - 1 : slots[k]
      BY <2>1, <2>2 DEF AndersonInv
    <2>12. \A k \in 0 .. count - 1 : slots'[k] <=> k # FirstSlot'
      <3>1. slots \in [0 .. count - 1 -> BOOLEAN]
        BY DEF AndersonInv
      <3> QED BY <2>1, <2>4, <2>5, <2>11, <3>1
    <2> HIDE DEF second
    <2> QED BY <2>1, <2>2, <2>4, <2>5, <2>7, <2>8, <2>8a, <2>9, <2>10, <2>12 DEF AndersonInv
  <1> QED BY <1>1, <1>2, <1>3, <1>4, <1>5, <1>6, <1>7 DEF Anderson!Step

\* What the invariant says of ck_spinlock_anderson_locked.
LEMMA AndersonSafe ==
  ASSUME AndersonInv, lock = "anderson"
  PROVE  HolderSeesLocked
  <1> SUFFICES ASSUME NEW t \in Threads, pc[t] = "cs" PROVE Anderson!Locked
    BY DEF HolderSeesLocked, Locked
  <1>1. Len(arrivals) > 0 /\ arrivals[1] = t
    BY AndersonPlace, AndersonQueueLabels
  <1>2. \A k \in 0 .. count - 1 : slots[k]
    BY <1>1 DEF AndersonInv
  <1> QED BY <1>2 DEF Anderson!Locked

-----------------------------------------------------------------------------
(* ck_spinlock_hclh: a queue per cluster, spliced into a global one.       *)

\* Where a thread can be in ck_spinlock_hclh.
HclhLabels ==
  {"idle", "swap", "store", "check", "spin", "test", "tail", "fas", "mark", "gspin", "cs",
   "u_clear", "u_take"}
\* Queued threads that have not spliced.
Member == {"store", "check", "spin", "test"}

\* A thread has made a request.
Queues(t) == place[t] > 0 \/ turn[t] > 0
\* The node with which a thread will make its next request; nodes of nobody.
HclhOwn(t) == IF pc[t] = "u_take" THEN previous[t] ELSE thread[t]
HclhFree(n) == \A t \in Threads : HclhOwn(t) # n
\* The node of the local predecessor, which unlock will take.
Pred(t) == IF pc[t] = "store" THEN previous[t] ELSE prevOf[thread[t]]
\* The node is, or is about to be, marked as the last one of its batch.
Closed(n) == splice[n] \/ (wait[n] /\ \E v \in Threads : pc[v] = "mark" /\ tail[v] = n)
\* Who finds n before itself leads a batch.
Starts(n) == prevOf[n] = NULL \/ Closed(n)
\* n belongs to a thread in the global queue, or to nobody.
Spliced(n) == HclhFree(n) \/ \E u \in Threads : turn[u] > 0 /\ n = thread[u]

\* The types of the variables.
HclhTypes ==
  /\ home \in [Threads -> Clusters] /\ pc \in [Threads -> HclhLabels]
  /\ glob \in Hclh!Node /\ local \in [Clusters -> Hclh!Node]
  /\ wait \in [Hclh!Node -> BOOLEAN] /\ splice \in [Hclh!Node -> BOOLEAN]
  /\ id \in [Hclh!Node -> Clusters \cup {NULL}]
  /\ prevOf \in [Hclh!Node -> Hclh!Node \cup {NULL}]
  /\ thread \in [Threads -> Hclh!Node] /\ previous \in [Threads -> Hclh!Node \cup {NULL}]
  /\ tail \in [Threads -> Hclh!Node \cup {NULL}]
  /\ place \in [Threads -> Nat] /\ turn \in [Threads -> Nat]

\* A thread is in one of the queues, at a place of its own, and is where such a
\* thread can be; only the first of a queue goes on.
HclhPlaces ==
  /\ \A t \in Threads :
       /\ pc[t] \in {"idle", "swap", "u_take"} <=> ~Queues(t)
       /\ place[t] > 0 => turn[t] = 0
       /\ place[t] > 0 => pc[t] \in Member \cup {"tail", "fas"}
       /\ place[t] > 1 => pc[t] \in Member \ {"test"}
       /\ turn[t] > 0 => pc[t] \in Member \cup {"mark", "gspin", "cs", "u_clear"}
       /\ turn[t] > 1 => pc[t] \in (Member \ {"test"}) \cup {"mark", "gspin"}
  /\ \A t, u \in Threads : turn[t] > 0 /\ turn[t] = turn[u] => t = u
  /\ \A t, u \in Threads : place[t] > 0 /\ place[t] = place[u] /\ home[t] = home[u] => t = u

\* Every node has one owner or none, and one thread that will take it over.
HclhNodes ==
  /\ \A t \in Threads : HclhOwn(t) \in Hclh!Node
  /\ \A t, u \in Threads : HclhOwn(t) = HclhOwn(u) => t = u
  /\ \A t \in Threads : Queues(t) => Pred(t) \in Hclh!Node
  /\ \A t, u \in Threads : Queues(t) /\ Queues(u) /\ Pred(t) = Pred(u) => t = u
  /\ \A t \in Threads, c \in Clusters : Queues(t) => Pred(t) # local[c]
  /\ \A c, d \in Clusters : local[c] = local[d] => c = d

\* What the fields of nodes in use contain.
HclhFields ==
  /\ \A t \in Threads :
       /\ pc[t] \in {"check", "spin", "test", "tail", "fas", "u_clear"} =>
            previous[t] = prevOf[thread[t]]
       /\ pc[t] \notin {"idle", "u_take"} =>
            wait[thread[t]] /\ id[thread[t]] = home[t] /\ prevOf[thread[t]] # NULL
       /\ pc[t] = "swap" \/ place[t] > 0 => ~splice[thread[t]]
       /\ Queues(t) => id[Pred(t)] = home[t]
  /\ \A c \in Clusters : id[local[c]] = c

\* The local queues.
HclhLocal ==
  /\ \A t \in Threads :
       /\ place[t] > 1 => \E u \in Threads : /\ home[u] = home[t] /\ place[u] = place[t] - 1
                                             /\ Pred(t) = thread[u]
       /\ place[t] = 1 => /\ Spliced(Pred(t)) /\ Starts(Pred(t))
                          /\ pc[t] \in {"spin", "test"} => Closed(Pred(t))
                          /\ pc[t] = "test" => splice[Pred(t)]
       /\ pc[t] \in {"tail", "fas"} => place[t] = 1
       /\ pc[t] = "fas" => \E w \in Threads : /\ home[w] = home[t] /\ place[w] > 0
                                              /\ tail[t] = thread[w]
  /\ \A c \in Clusters :
       \/ /\ \A u \in Threads : home[u] = c => place[u] = 0
          /\ Spliced(local[c]) /\ Starts(local[c])
       \/ \E w \in Threads : /\ home[w] = c /\ place[w] > 0 /\ local[c] = thread[w]
                             /\ \A u \in Threads : home[u] = c => place[u] <= place[w]

\* The global queue.
HclhGlobal ==
  /\ \A t \in Threads :
       /\ turn[t] > 0 => \/ HclhFree(Pred(t))
                         \/ \E u \in Threads : /\ turn[u] > 0 /\ turn[u] < turn[t]
                                               /\ Pred(t) = thread[u]
       /\ turn[t] > 0 /\ pc[t] \in Member =>
            /\ ~splice[Pred(t)] /\ prevOf[Pred(t)] # NULL
            /\ turn[t] > 1 =>
                 \E u \in Threads : turn[u] = turn[t] - 1 /\ Pred(t) = thread[u]
       /\ pc[t] \in {"mark", "gspin"} =>
            \/ turn[t] = 1 /\ HclhFree(previous[t])
            \/ \E u \in Threads : /\ turn[u] > 0 /\ turn[u] = turn[t] - 1
                                  /\ previous[t] = thread[u]
       /\ pc[t] = "mark" =>
            \E w \in Threads : /\ turn[w] >= turn[t] /\ tail[t] = thread[w]
                               /\ \A x \in Threads : turn[x] = turn[w] + 1 => pc[x] \notin Member
  /\ \/ HclhFree(glob) /\ \A u \in Threads : turn[u] = 0
     \/ \E w \in Threads : /\ turn[w] > 0 /\ glob = thread[w]
                           /\ \A u \in Threads : turn[u] <= turn[w]

\* The two kinds of queue, in memory.
HclhChain == HclhTypes /\ HclhPlaces /\ HclhNodes /\ HclhFields /\ HclhLocal /\ HclhGlobal

\* A thread in the critical section still holds the address of a node that it
\* waited on: nobody has taken the node over since.
HclhHeld == \A t \in Threads : pc[t] = "cs" => HclhFree(previous[t])

\* The invariant of ck_spinlock_hclh.
HclhInv == HclhChain /\ HclhHeld

\* A new lock has a node per cluster and one for the global queue.
LEMMA HclhInit ==
  ASSUME Init, lock = "hclh"
  PROVE  HclhInv
  <1>1. Hclh!Init
    BY DEF Init
  <1> USE <1>1 DEF Hclh!Init
  <1>2. /\ Threads \cap Clusters = {} /\ NULL \notin Hclh!Node
        /\ globalNode \notin Threads \cup Clusters
    BY SpinlocksAssumption DEF Hclh!Node
  <1>3. \A t \in Threads : ~Queues(t) /\ HclhOwn(t) = t /\ place[t] = 0 /\ turn[t] = 0
    BY DEF Queues, HclhOwn
  <1>4. HclhTypes
    BY <1>2 DEF HclhTypes, HclhLabels, Hclh!Node
  <1>5. HclhPlaces
    BY <1>3 DEF HclhPlaces
  <1>6. HclhNodes
    BY <1>3 DEF HclhNodes, Hclh!Node
  <1>7. HclhFields
    BY <1>3 DEF HclhFields, Hclh!Node
  <1>8. HclhFree(glob) /\ \A c \in Clusters : HclhFree(local[c]) /\ prevOf[local[c]] = NULL
    BY <1>2, <1>3 DEF HclhFree, Hclh!Node
  <1>9. HclhLocal
    BY <1>3, <1>8 DEF HclhLocal, Spliced, Starts
  <1>10. HclhGlobal
    BY <1>3, <1>8 DEF HclhGlobal
  <1> QED BY <1>4, <1>5, <1>6, <1>7, <1>9, <1>10 DEF HclhInv, HclhHeld, HclhChain

\* A step of a thread on its way through the queues that writes no node.
LEMMA HclhMove ==
  ASSUME HclhChain, NEW t \in Threads, NEW to \in {"spin", "test", "tail", "fas", "cs", "u_clear"},
         pc' = [pc EXCEPT ![t] = to],
         pc[t] \in {"check", "spin", "test", "tail", "gspin", "cs"},
         UNCHANGED <<home, glob, local, wait, splice, id, prevOf, thread, place, turn>>,
         \/ previous' = previous /\ pc[t] # "cs"
         \/ previous' = [previous EXCEPT ![t] = prevOf[thread[t]]] /\ to = "u_clear",
         \/ tail' = tail /\ to # "fas"
         \/ tail' = [tail EXCEPT ![t] = local[home[t]]],
         pc[t] = "gspin" => to = "cs", pc[t] = "cs" => to = "u_clear",
         place[t] > 0 => to \in {"spin", "test", "tail", "fas"},
         place[t] > 1 => to = "spin",
         turn[t] > 0 => to \in {"spin", "test", "cs", "u_clear"},
         turn[t] > 1 => to = "spin",
         place[t] = 1 /\ to \in {"spin", "test"} => Closed(Pred(t)),
         place[t] = 1 /\ to = "test" => splice[Pred(t)],
         turn[t] > 0 /\ to \in Member => pc[t] \in Member
  PROVE  HclhChain'
  <1>0. HclhTypes
    BY DEF HclhChain
  <1>1. \A u \in Threads : /\ Queues(u)' <=> Queues(u)
                           /\ HclhOwn(u)' = HclhOwn(u) /\ Pred(u)' = Pred(u)
    BY <1>0 DEF Queues, HclhOwn, Pred, HclhTypes
  <1>2. \A n : HclhFree(n)' <=> HclhFree(n)
    BY <1>1 DEF HclhFree
  <1>3. \A n : Spliced(n)' <=> Spliced(n)
    BY <1>2 DEF Spliced
  <1>4. \A n : Closed(n)' <=> Closed(n)
    <2>1. \A v \in Threads : /\ pc'[v] = "mark" <=> pc[v] = "mark"
                             /\ pc'[v] = "mark" => tail'[v] = tail[v]
      BY <1>0 DEF HclhTypes
    <2> QED BY <2>1 DEF Closed
  <1>5. \A n : Starts(n)' <=> Starts(n)
    BY <1>4 DEF Starts
  <1>6. HclhTypes'
    <2>1. pc' \in [Threads -> HclhLabels]
      BY <1>0 DEF HclhTypes, HclhLabels
    <2>2. previous' \in [Threads -> Hclh!Node \cup {NULL}]
      BY <1>0 DEF HclhTypes
    <2>3. tail' \in [Threads -> Hclh!Node \cup {NULL}]
      BY <1>0 DEF HclhTypes
    <2> QED BY <1>0, <2>1, <2>2, <2>3 DEF HclhTypes
  <1>7. \A u \in Threads : u # t => pc'[u] = pc[u] /\ previous'[u] = previous[u]
          /\ tail'[u] = tail[u]
    BY <1>0 DEF HclhTypes
  <1>8. pc'[t] = to
    BY <1>0 DEF HclhTypes
  <1>9. HclhPlaces'
    <2>0. HclhPlaces
      BY DEF HclhChain
    <2>1. ASSUME NEW u \in Threads
          PROVE  /\ pc'[u] \in {"idle", "swap", "u_take"} <=> ~Queues(u)
                 /\ place[u] > 0 => turn[u] = 0
                 /\ place[u] > 0 => pc'[u] \in Member \cup {"tail", "fas"}
                 /\ place[u] > 1 => pc'[u] \in Member \ {"test"}
                 /\ turn[u] > 0 => pc'[u] \in Member \cup {"mark", "gspin", "cs", "u_clear"}
                 /\ turn[u] > 1 => pc'[u] \in (Member \ {"test"}) \cup {"mark", "gspin"}
      <3>1. CASE u = t
        BY <2>0, <3>1, <1>8 DEF HclhPlaces, Member, Queues
      <3>2. CASE u # t
        BY <2>0, <3>2, <1>7 DEF HclhPlaces
      <3> QED BY <3>1, <3>2
    <2> QED BY <2>0, <2>1, <1>1 DEF HclhPlaces
  <1>10. HclhNodes'
    BY <1>1 DEF HclhChain, HclhNodes
  <1>11. HclhFields'
    <2>1. ASSUME NEW u \in Threads
          PROVE  /\ pc'[u] \in {"check", "spin", "test", "tail", "fas", "u_clear"} =>
                      previous'[u] = prevOf[thread[u]]
                 /\ pc'[u] \notin {"idle", "u_take"} =>
                      wait[thread[u]] /\ id[thread[u]] = home[u] /\ prevOf[thread[u]] # NULL
                 /\ pc'[u] = "swap" \/ place[u] > 0 => ~splice[thread[u]]
      <3>1. CASE u = t
        BY <3>1, <1>8, <1>0 DEF HclhChain, HclhFields, HclhTypes
      <3>2. CASE u # t
        BY <3>2, <1>7 DEF HclhChain, HclhFields
      <3> QED BY <3>1, <3>2
    <2> QED BY <2>1, <1>1 DEF HclhChain, HclhFields
  <1>12. HclhLocal'
    <2>0. HclhLocal
      BY DEF HclhChain
    <2>1. ASSUME NEW u \in Threads
          PROVE  /\ place[u] = 1 => /\ pc'[u] \in {"spin", "test"} => Closed(Pred(u))
                                    /\ pc'[u] = "test" => splice[Pred(u)]
                 /\ pc'[u] \in {"tail", "fas"} => place[u] = 1
      <3>1. CASE u = t
        BY <3>1, <1>8, <1>0 DEF HclhChain, HclhPlaces, HclhTypes, Queues
      <3>2. CASE u # t
        BY <3>2, <1>7, <2>0 DEF HclhLocal
      <3> QED BY <3>1, <3>2
    <2>2. ASSUME NEW u \in Threads, pc'[u] = "fas"
          PROVE  \E w \in Threads : /\ home[w] = home[u] /\ place[w] > 0
                                    /\ tail'[u] = thread[w]
      <3>1. CASE u = t
        <4>1. tail'[t] = local[home[t]] /\ home[t] \in Clusters
          BY <2>2, <3>1, <1>8, <1>0 DEF HclhTypes
        <4>2. place[t] = 1
          BY <2>1, <2>2, <3>1
        <4> QED BY <4>1, <4>2, <3>1, <2>0 DEF HclhLocal
      <3>2. CASE u # t
        BY <3>2, <1>7, <2>0, <2>2 DEF HclhLocal
      <3> QED BY <3>1, <3>2
    <2> QED BY <2>0, <2>1, <2>2, <1>1, <1>3, <1>4, <1>5 DEF HclhLocal
  <1>13. HclhGlobal'
    <2>0. HclhGlobal
      BY DEF HclhChain
    <2>1. \A u \in Threads : turn[u] > 0 /\ pc'[u] \in Member => pc[u] \in Member
      BY <1>7, <1>8
    <2>2. \A u \in Threads : pc'[u] \in {"mark", "gspin"} =>
                                u # t /\ pc[u] = pc'[u] /\ previous'[u] = previous[u]
      BY <1>7, <1>8
    <2>3. \A u \in Threads : pc'[u] = "mark" => pc[u] = "mark" /\ tail'[u] = tail[u]
      BY <1>7, <1>8
    <2>4. ASSUME NEW u \in Threads, pc'[u] = "mark"
          PROVE  \E w \in Threads : /\ turn[w] >= turn[u] /\ tail'[u] = thread[w]
                        /\ \A x \in Threads : turn[x] = turn[w] + 1 => pc'[x] \notin Member
      <3>1. PICK w \in Threads : /\ turn[w] >= turn[u] /\ tail[u] = thread[w]
                        /\ \A x \in Threads : turn[x] = turn[w] + 1 => pc[x] \notin Member
        BY <2>0, <2>3, <2>4 DEF HclhGlobal
      <3>2. turn[w] + 1 > 0
        BY <1>0 DEF HclhTypes
      <3> QED BY <2>1, <2>3, <2>4, <3>1, <3>2
    <2>5. ASSUME NEW u \in Threads, pc'[u] \in {"mark", "gspin"}
          PROVE  \/ turn[u] = 1 /\ HclhFree(previous'[u])
                 \/ \E x \in Threads : /\ turn[x] > 0 /\ turn[x] = turn[u] - 1
                                       /\ previous'[u] = thread[x]
      BY <2>0, <2>2, <2>5 DEF HclhGlobal
    <2>6. ASSUME NEW u \in Threads, turn[u] > 0, pc'[u] \in Member
          PROVE  /\ ~splice[Pred(u)] /\ prevOf[Pred(u)] # NULL
                 /\ turn[u] > 1 => \E x \in Threads : turn[x] = turn[u] - 1 /\ Pred(u) = thread[x]
      BY <2>0, <2>1, <2>6 DEF HclhGlobal
    <2> QED BY <2>0, <2>4, <2>5, <2>6, <1>1, <1>2 DEF HclhGlobal
  <1> QED BY <1>6, <1>9, <1>10, <1>11, <1>12, <1>13 DEF HclhChain

\* What a thread that waits for its local predecessor can see.
LEMMA HclhSees ==
  ASSUME HclhChain, NEW t \in Threads, pc[t] \in {"check", "spin", "test"}
  PROVE  /\ previous[t] = Pred(t) /\ Pred(t) \in Hclh!Node /\ id[previous[t]] = id[thread[t]]
         /\ place[t] > 1 => wait[Pred(t)] /\ ~splice[Pred(t)] /\ prevOf[Pred(t)] # NULL
         /\ turn[t] > 1 => wait[Pred(t)]
         /\ turn[t] > 0 => ~splice[Pred(t)] /\ prevOf[Pred(t)] # NULL
         /\ (place[t] > 0 /\ turn[t] = 0) \/ (place[t] = 0 /\ turn[t] > 0)
         /\ place[t] \in Nat /\ turn[t] \in Nat
  <1>0. HclhTypes /\ HclhPlaces /\ HclhNodes /\ HclhFields /\ HclhLocal /\ HclhGlobal
    BY DEF HclhChain
  <1>1. Queues(t) /\ place[t] \in Nat /\ turn[t] \in Nat
    BY <1>0 DEF HclhPlaces, HclhTypes
  <1>2. previous[t] = Pred(t) /\ Pred(t) \in Hclh!Node /\ id[previous[t]] = id[thread[t]]
    BY <1>0, <1>1 DEF HclhFields, HclhNodes, Pred
  <1>3. (place[t] > 0 /\ turn[t] = 0) \/ (place[t] = 0 /\ turn[t] > 0)
    BY <1>0, <1>1 DEF HclhPlaces, Queues
  <1>4. ASSUME place[t] > 1
        PROVE  wait[Pred(t)] /\ ~splice[Pred(t)] /\ prevOf[Pred(t)] # NULL
    <2>1. PICK u \in Threads : home[u] = home[t] /\ place[u] = place[t] - 1 /\ Pred(t) = thread[u]
      BY <1>0, <1>4 DEF HclhLocal
    <2>2. place[u] > 0
      BY <1>1, <1>4, <2>1
    <2>3. pc[u] \notin {"idle", "u_take"}
      BY <1>0, <2>2 DEF HclhPlaces, Member
    <2> QED BY <1>0, <2>1, <2>2, <2>3 DEF HclhFields
  <1>5. turn[t] > 0 => ~splice[Pred(t)] /\ prevOf[Pred(t)] # NULL
    BY <1>0 DEF HclhGlobal, Member
  <1>6. ASSUME turn[t] > 1 PROVE wait[Pred(t)]
    <2>1. PICK u \in Threads : turn[u] = turn[t] - 1 /\ Pred(t) = thread[u]
      BY <1>0, <1>1, <1>6 DEF HclhGlobal, Member
    <2>2. turn[u] > 0
      BY <1>1, <1>6, <2>1
    <2>3. pc[u] \notin {"idle", "u_take"}
      BY <1>0, <2>2 DEF HclhPlaces, Member
    <2> QED BY <1>0, <2>1, <2>2, <2>3 DEF HclhFields
  <1> QED BY <1>1, <1>2, <1>3, <1>4, <1>5, <1>6

\* A thread that found a predecessor looks whether it leads its batch.
LEMMA HclhCheck ==
  ASSUME HclhChain, NEW t \in Threads, Hclh!Check(t)
  PROVE  HclhChain'
  <1>0. PICK to \in {"tail", "spin"} : to = IF prevOf[previous[t]] = NULL THEN "tail" ELSE "spin"
    OBVIOUS
  <1>1. /\ pc[t] = "check" /\ pc' = [pc EXCEPT ![t] = to] /\ previous' = previous /\ tail' = tail
        /\ UNCHANGED <<home, glob, local, wait, splice, id, prevOf, thread, place, turn>>
    BY <1>0 DEF Hclh!Check, Hclh!Goto, Hclh!fields
  <1>2. /\ place[t] > 1 => to = "spin"
        /\ turn[t] > 0 => to = "spin"
        /\ turn[t] > 1 => to = "spin"
    BY <1>0, <1>1, HclhSees
  <1>3. place[t] = 1 /\ to = "spin" => Closed(Pred(t))
    <2>1. place[t] = 1 => Starts(Pred(t))
      BY DEF HclhChain, HclhLocal
    <2> QED BY <2>1, <1>0, <1>1, HclhSees DEF Starts
  <1>4. pc[t] \in Member
    BY <1>1 DEF Member
  <1> QED BY <1>1, <1>2, <1>3, <1>4, HclhMove

\* A thread waits until its predecessor has left or was spliced.
LEMMA HclhSpin ==
  ASSUME HclhChain, NEW t \in Threads, Hclh!Spin(t)
  PROVE  HclhChain'
  <1>1. /\ pc[t] = "spin" /\ pc' = [pc EXCEPT ![t] = "test"] /\ previous' = previous /\ tail' = tail
        /\ UNCHANGED <<home, glob, local, wait, splice, id, prevOf, thread, place, turn>>
        /\ ~wait[previous[t]] \/ splice[previous[t]] \/ id[previous[t]] # id[thread[t]]
    BY DEF Hclh!Spin, Hclh!Goto, Hclh!fields, Hclh!SameBatch
  <1>2. ~wait[Pred(t)] \/ splice[Pred(t)]
    BY <1>1, HclhSees
  <1>3. ~(place[t] > 1) /\ ~(turn[t] > 1)
    BY <1>1, <1>2, HclhSees
  <1>4. place[t] = 1 => Closed(Pred(t)) /\ splice[Pred(t)]
    <2>1. place[t] = 1 => Closed(Pred(t))
      BY <1>1 DEF HclhChain, HclhLocal
    <2> QED BY <2>1, <1>2 DEF Closed
  <1>5. pc[t] \in Member
    BY <1>1 DEF Member
  <1> QED BY <1>1, <1>3, <1>4, <1>5, HclhMove

\* A thread that waited finds out whether it holds the lock or leads a batch.
LEMMA HclhTest ==
  ASSUME HclhChain, NEW t \in Threads, Hclh!Test(t)
  PROVE  HclhChain'
  <1>0. PICK to \in {"tail", "cs"} : to = IF Hclh!SameBatch(t) THEN "cs" ELSE "tail"
    OBVIOUS
  <1>1. /\ pc[t] = "test" /\ pc' = [pc EXCEPT ![t] = to] /\ previous' = previous /\ tail' = tail
        /\ UNCHANGED <<home, glob, local, wait, splice, id, prevOf, thread, place, turn>>
    BY <1>0 DEF Hclh!Test, Hclh!Goto, Hclh!fields
  <1>2. ~(place[t] > 1) /\ ~(turn[t] > 1)
    BY <1>1 DEF HclhChain, HclhPlaces, Member
  <1>3. /\ place[t] > 0 => to = "tail"
        /\ turn[t] > 0 => to = "cs"
    <2>1. place[t] > 0 => splice[previous[t]]
      <3>1. place[t] > 0 => place[t] = 1
        BY <1>1, <1>2, HclhSees
      <3> QED BY <3>1, <1>1, HclhSees DEF HclhChain, HclhLocal
    <2>2. turn[t] > 0 => ~splice[previous[t]] /\ id[previous[t]] = id[thread[t]]
      BY <1>1, HclhSees
    <2> QED BY <1>0, <2>1, <2>2 DEF Hclh!SameBatch
  <1>4. "tail" \notin Member /\ "cs" \notin Member
    BY DEF Member
  <1>5. CASE to = "tail"
    <2>1. ~(turn[t] > 0)
      BY <1>3, <1>5
    <2> QED BY <1>1, <1>2, <1>4, <1>5, <2>1, HclhMove
  <1>6. CASE to = "cs"
    <2>1. ~(place[t] > 0) /\ place[t] # 1
      BY <1>3, <1>6
    <2> QED BY <1>1, <1>2, <1>4, <1>6, <2>1, HclhMove
  <1> QED BY <1>5, <1>6

\* The leader of a batch loads the end of the local queue.
LEMMA HclhLoadTail ==
  ASSUME HclhChain, NEW t \in Threads, Hclh!LoadTail(t)
  PROVE  HclhChain'
  <1>1. /\ pc[t] = "tail" /\ pc' = [pc EXCEPT ![t] = "fas"] /\ previous' = previous
        /\ tail' = [tail EXCEPT ![t] = local[home[t]]]
        /\ UNCHANGED <<home, glob, local, wait, splice, id, prevOf, thread, place, turn>>
    BY DEF Hclh!LoadTail, Hclh!Goto, Hclh!fields
  <1>2. place[t] = 1 /\ turn[t] = 0
    BY <1>1 DEF HclhChain, HclhLocal, HclhPlaces
  <1>3. "fas" \notin Member /\ ~(turn[t] > 0) /\ ~(turn[t] > 1) /\ ~(place[t] > 1)
    BY <1>2 DEF Member
  <1> QED BY <1>1, <1>3, HclhMove

\* The leader of a batch waits for its predecessor in the global queue.
LEMMA HclhSpinGlobal ==
  ASSUME HclhChain, NEW t \in Threads, Hclh!SpinGlobal(t)
  PROVE  HclhChain'
  <1>1. /\ pc[t] = "gspin" /\ pc' = [pc EXCEPT ![t] = "cs"] /\ previous' = previous /\ tail' = tail
        /\ UNCHANGED <<home, glob, local, wait, splice, id, prevOf, thread, place, turn>>
        /\ ~wait[previous[t]]
    BY DEF Hclh!SpinGlobal, Hclh!Goto, Hclh!fields
  <1>2. ~(place[t] > 0)
    BY <1>1 DEF HclhChain, HclhPlaces, Member
  <1>3. turn[t] = 1
    <2>1. ASSUME turn[t] # 1 PROVE FALSE
      <3>1. PICK u \in Threads : turn[u] > 0 /\ previous[t] = thread[u]
        BY <1>1, <2>1 DEF HclhChain, HclhGlobal
      <3>2. pc[u] \notin {"idle", "u_take"}
        BY <3>1 DEF HclhChain, HclhPlaces, Member
      <3> QED BY <1>1, <3>1, <3>2 DEF HclhChain, HclhFields
    <2> QED BY <2>1
  <1>4. "cs" \notin Member /\ ~(turn[t] > 1) /\ ~(place[t] > 1) /\ place[t] # 1
    BY <1>2, <1>3 DEF Member, HclhChain, HclhTypes
  <1> QED BY <1>1, <1>2, <1>4, HclhMove

\* A release loads the node of the predecessor.
LEMMA HclhUnlockLoad ==
  ASSUME HclhChain, NEW t \in Threads, Hclh!UnlockLoad(t)
  PROVE  HclhChain'
  <1>1. /\ pc[t] = "cs" /\ pc' = [pc EXCEPT ![t] = "u_clear"]
        /\ previous' = [previous EXCEPT ![t] = prevOf[thread[t]]] /\ tail' = tail
        /\ UNCHANGED <<home, glob, local, wait, splice, id, prevOf, thread, place, turn>>
    BY DEF Hclh!UnlockLoad, Hclh!Goto, Hclh!fields
  <1>2. ~(place[t] > 0) /\ ~(turn[t] > 1)
    BY <1>1 DEF HclhChain, HclhPlaces, Member
  <1>3. "u_clear" \notin Member /\ ~(place[t] > 1) /\ place[t] # 1
    BY <1>2 DEF Member, HclhChain, HclhTypes
  <1> QED BY <1>1, <1>2, <1>3, HclhMove

\* The node of a queued thread is its own.
LEMMA HclhQueued ==
  ASSUME HclhChain, NEW u \in Threads, Queues(u)
  PROVE  /\ pc[u] \notin {"idle", "swap", "u_take"} /\ HclhOwn(u) = thread[u]
         /\ ~HclhFree(thread[u])
         /\ wait[thread[u]] /\ prevOf[thread[u]] # NULL /\ id[thread[u]] = home[u]
         /\ Pred(u) \in Hclh!Node /\ thread[u] \in Hclh!Node
  <1>1. pc[u] \notin {"idle", "swap", "u_take"}
    BY DEF HclhChain, HclhPlaces
  <1>2. HclhOwn(u) = thread[u] /\ ~HclhFree(thread[u])
    BY <1>1 DEF HclhOwn, HclhFree
  <1> QED BY <1>1, <1>2 DEF HclhChain, HclhFields, HclhNodes, HclhTypes

\* The node of a thread that is in no queue is referred to by nobody else.
LEMMA HclhApart ==
  ASSUME HclhChain, NEW t \in Threads, ~Queues(t)
  PROVE  /\ \A u \in Threads : Queues(u) => Pred(u) # HclhOwn(t) /\ thread[u] # HclhOwn(t)
         /\ \A c \in Clusters : local[c] # HclhOwn(t)
         /\ glob # HclhOwn(t)
         /\ \A u \in Threads : pc[u] \in {"mark", "gspin"} => previous[u] # HclhOwn(t)
         /\ \A u \in Threads : pc[u] \in {"fas", "mark"} => tail[u] # HclhOwn(t)
  <1>0. HclhTypes /\ HclhPlaces /\ HclhNodes /\ HclhFields /\ HclhLocal /\ HclhGlobal
    BY DEF HclhChain
  <1>1. \A u \in Threads : Queues(u) => thread[u] # HclhOwn(t)
    BY <1>0, HclhQueued DEF HclhNodes
  <1>2. \A u \in Threads : place[u] > 0 \/ turn[u] > 0 => thread[u] # HclhOwn(t)
    BY <1>1 DEF Queues
  <1>3. \A n : HclhFree(n) => n # HclhOwn(t)
    BY DEF HclhFree
  <1>4. \A n : Spliced(n) => n # HclhOwn(t)
    BY <1>2, <1>3 DEF Spliced
  <1>5. ASSUME NEW u \in Threads, Queues(u) PROVE Pred(u) # HclhOwn(t)
    <2>1. CASE place[u] > 1
      <3>1. PICK x \in Threads : place[x] = place[u] - 1 /\ Pred(u) = thread[x]
        BY <2>1, <1>0 DEF HclhLocal
      <3>2. place[x] > 0
        BY <2>1, <3>1, <1>0 DEF HclhTypes
      <3> QED BY <3>1, <3>2, <1>2
    <2>2. CASE place[u] = 1
      BY <2>2, <1>0, <1>4 DEF HclhLocal
    <2>3. CASE turn[u] > 0
      BY <2>3, <1>0, <1>2, <1>3 DEF HclhGlobal
    <2>4. place[u] \in Nat /\ turn[u] \in Nat
      BY <1>0 DEF HclhTypes
    <2> QED BY <1>5, <2>1, <2>2, <2>3, <2>4 DEF Queues
  <1>6. \A c \in Clusters : local[c] # HclhOwn(t)
    BY <1>0, <1>2, <1>4 DEF HclhLocal
  <1>7. glob # HclhOwn(t)
    BY <1>0, <1>2, <1>3 DEF HclhGlobal
  <1>8. \A u \in Threads : pc[u] \in {"mark", "gspin"} => previous[u] # HclhOwn(t)
    BY <1>0, <1>2, <1>3 DEF HclhGlobal
  <1>9. ASSUME NEW u \in Threads, pc[u] \in {"fas", "mark"} PROVE tail[u] # HclhOwn(t)
    <2>1. CASE pc[u] = "fas"
      BY <2>1, <1>0, <1>2 DEF HclhLocal
    <2>2. CASE pc[u] = "mark"
      <3>1. turn[u] > 0
        BY <2>2, <1>0 DEF HclhPlaces, Queues, Member
      <3>2. PICK w \in Threads : turn[w] >= turn[u] /\ tail[u] = thread[w]
        BY <2>2, <1>0 DEF HclhGlobal
      <3>3. turn[w] > 0
        BY <3>1, <3>2, <1>0 DEF HclhTypes
      <3> QED BY <3>2, <3>3, <1>2
    <2> QED BY <1>9, <2>1, <2>2
  <1> QED BY <1>1, <1>5, <1>6, <1>7, <1>8, <1>9

\* A thread fills in its node.
LEMMA HclhPrepare ==
  ASSUME HclhChain, NEW t \in Threads, Hclh!Prepare(t)
  PROVE  HclhChain'
  <1>0. HclhTypes /\ HclhPlaces /\ HclhNodes /\ HclhFields /\ HclhLocal /\ HclhGlobal
    BY DEF HclhChain
  <1> DEFINE n == thread[t]
             last == local[home[t]]
  <1>1. /\ pc[t] = "idle" /\ pc' = [pc EXCEPT ![t] = "swap"]
        /\ wait' = [wait EXCEPT ![n] = TRUE] /\ splice' = [splice EXCEPT ![n] = FALSE]
        /\ id' = [id EXCEPT ![n] = id[last]] /\ prevOf' = [prevOf EXCEPT ![n] = last]
        /\ UNCHANGED <<home, glob, local, thread, previous, tail, place, turn>>
    BY DEF Hclh!Prepare, Hclh!Goto
  <1>2. /\ n \in Hclh!Node /\ last \in Hclh!Node /\ home[t] \in Clusters /\ id[last] = home[t]
        /\ NULL \notin Hclh!Node /\ HclhOwn(t) = n /\ ~Queues(t)
    BY <1>0, <1>1, SpinlocksAssumption DEF HclhTypes, HclhPlaces, HclhFields, HclhOwn, Hclh!Node
  <1> HIDE DEF n, last
  <1>3. /\ \A u \in Threads : Queues(u) => Pred(u) # n /\ thread[u] # n
        /\ \A c \in Clusters : local[c] # n
    BY <1>2, HclhApart
  <1>4. \A m \in Hclh!Node : m # n => /\ wait'[m] = wait[m] /\ splice'[m] = splice[m]
                                      /\ id'[m] = id[m] /\ prevOf'[m] = prevOf[m]
    BY <1>0, <1>1 DEF HclhTypes
  <1>5. wait'[n] /\ ~splice'[n] /\ id'[n] = home[t] /\ prevOf'[n] # NULL
    BY <1>0, <1>1, <1>2 DEF HclhTypes
  <1>6. pc'[t] = "swap" /\ \A u \in Threads : u # t => pc'[u] = pc[u]
    BY <1>0, <1>1 DEF HclhTypes
  <1>7. HclhTypes'
    <2>1. pc' \in [Threads -> HclhLabels]
      BY <1>0, <1>1 DEF HclhTypes, HclhLabels
    <2>2. wait' \in [Hclh!Node -> BOOLEAN] /\ splice' \in [Hclh!Node -> BOOLEAN]
      BY <1>0, <1>1 DEF HclhTypes
    <2>3. id' \in [Hclh!Node -> Clusters \cup {NULL}]
      BY <1>0, <1>1, <1>2 DEF HclhTypes
    <2>4. prevOf' \in [Hclh!Node -> Hclh!Node \cup {NULL}]
      BY <1>0, <1>1, <1>2 DEF HclhTypes
    <2> QED BY <1>0, <1>1, <2>1, <2>2, <2>3, <2>4 DEF HclhTypes
  <1>8. \A u \in Threads : Queues(u)' <=> Queues(u)
    BY <1>1 DEF Queues
  <1>9. \A u \in Threads : HclhOwn(u)' = HclhOwn(u)
    BY <1>1, <1>6 DEF HclhOwn
  <1>10. ASSUME NEW u \in Threads, Queues(u)
         PROVE  /\ Pred(u)' = Pred(u) /\ u # t /\ pc'[u] = pc[u] /\ thread[u] \in Hclh!Node
                /\ Pred(u) \in Hclh!Node
    BY <1>10, <1>0, <1>1, <1>2, <1>3, <1>4, <1>6, HclhQueued DEF Pred
  <1>11. \A m : HclhFree(m)' <=> HclhFree(m)
    BY <1>9 DEF HclhFree
  <1>12. \A m : Spliced(m)' <=> Spliced(m)
    BY <1>1, <1>11 DEF Spliced
  <1>13. \A m \in Hclh!Node : m # n => (Closed(m)' <=> Closed(m)) /\ (Starts(m)' <=> Starts(m))
    <2>1. \A v \in Threads : pc'[v] = "mark" <=> pc[v] = "mark"
      BY <1>1, <1>6
    <2> QED BY <1>1, <1>4, <2>1 DEF Closed, Starts
  <1>14. HclhPlaces'
    BY <1>0, <1>1, <1>2, <1>6, <1>8 DEF HclhPlaces, Queues, Member
  <1>15. HclhNodes'
    BY <1>0, <1>1, <1>8, <1>9, <1>10 DEF HclhNodes
  <1>16. HclhFields'
    <2>1. ASSUME NEW u \in Threads
          PROVE  /\ pc'[u] \in {"check", "spin", "test", "tail", "fas", "u_clear"} =>
                      previous[u] = prevOf'[thread[u]]
                 /\ pc'[u] \notin {"idle", "u_take"} =>
                      wait'[thread[u]] /\ id'[thread[u]] = home[u] /\ prevOf'[thread[u]] # NULL
                 /\ pc'[u] = "swap" \/ place[u] > 0 => ~splice'[thread[u]]
                 /\ Queues(u) => id'[Pred(u)] = home[u]
      <3>1. CASE u = t
        BY <3>1, <1>2, <1>5, <1>6 DEF n, Queues
      <3>2. CASE u # t /\ pc[u] \notin {"idle", "u_take"}
        <4>1. thread[u] # n /\ thread[u] \in Hclh!Node
          BY <3>2, <1>0, <1>2 DEF HclhNodes, HclhOwn, HclhTypes
        <4>2. Queues(u) => Pred(u) # n /\ Pred(u) \in Hclh!Node
          BY <1>3, <1>10
        <4> QED BY <3>2, <4>1, <4>2, <1>0, <1>4, <1>6 DEF HclhFields
      <3>3. CASE u # t /\ pc[u] \in {"idle", "u_take"}
        <4>1. ~Queues(u) /\ pc'[u] = pc[u]
          BY <3>3, <1>0, <1>6 DEF HclhPlaces
        <4> QED BY <3>3, <4>1 DEF Queues
      <3> QED BY <3>1, <3>2, <3>3
    <2>2. \A c \in Clusters : id'[local[c]] = c
      BY <1>0, <1>3, <1>4 DEF HclhFields, HclhTypes
    <2> QED BY <1>1, <1>8, <1>10, <2>1, <2>2 DEF HclhFields
  <1>17. HclhLocal'
    <2>1. ASSUME NEW u \in Threads, place[u] > 1
          PROVE  \E x \in Threads : home[x] = home[u] /\ place[x] = place[u] - 1
                   /\ Pred(u)' = thread[x]
      <3>1. Queues(u)
        BY <2>1, <1>0 DEF Queues, HclhTypes
      <3> QED BY <2>1, <3>1, <1>0, <1>10 DEF HclhLocal
    <2>2. ASSUME NEW u \in Threads, place[u] = 1
          PROVE  /\ Spliced(Pred(u))' /\ Starts(Pred(u))'
                 /\ pc'[u] \in {"spin", "test"} => Closed(Pred(u))'
                 /\ pc'[u] = "test" => splice'[Pred(u)']
      <3>1. Queues(u)
        BY <2>2 DEF Queues
      <3>2. Pred(u)' = Pred(u) /\ pc'[u] = pc[u] /\ Pred(u) \in Hclh!Node /\ Pred(u) # n
        BY <3>1, <1>3, <1>10
      <3>3. /\ Spliced(Pred(u)) /\ Starts(Pred(u))
            /\ pc[u] \in {"spin", "test"} => Closed(Pred(u))
            /\ pc[u] = "test" => splice[Pred(u)]
        BY <2>2, <1>0 DEF HclhLocal
      <3> QED BY <3>2, <3>3, <1>4, <1>12, <1>13
    <2>3. \A u \in Threads : pc'[u] \in {"tail", "fas"} => pc[u] = pc'[u]
      BY <1>6
    <2>4. ASSUME NEW c \in Clusters
          PROVE (Spliced(local[c])' <=> Spliced(local[c]))
                  /\ (Starts(local[c])' <=> Starts(local[c]))
      BY <1>0, <1>1, <1>3, <1>12, <1>13 DEF HclhTypes
    <2> QED BY <1>0, <1>1, <2>1, <2>2, <2>3, <2>4 DEF HclhLocal
  <1>18. HclhGlobal'
    <2>1. ASSUME NEW u \in Threads, turn[u] > 0
          PROVE  /\ Pred(u)' = Pred(u) /\ pc'[u] = pc[u] /\ Pred(u) \in Hclh!Node /\ Pred(u) # n
                 /\ splice'[Pred(u)'] = splice[Pred(u)] /\ prevOf'[Pred(u)'] = prevOf[Pred(u)]
      <3>1. Queues(u)
        BY <2>1 DEF Queues
      <3> QED BY <3>1, <1>3, <1>4, <1>10
    <2>2. \A u \in Threads : pc'[u] \in {"mark", "gspin"} => pc[u] = pc'[u]
      BY <1>6
    <2>3. ASSUME NEW u \in Threads, pc'[u] = "mark"
          PROVE  \E w \in Threads : /\ turn[w] >= turn[u] /\ tail[u] = thread[w]
                        /\ \A x \in Threads : turn[x] = turn[w] + 1 => pc'[x] \notin Member
      <3>1. PICK w \in Threads : /\ turn[w] >= turn[u] /\ tail[u] = thread[w]
                        /\ \A x \in Threads : turn[x] = turn[w] + 1 => pc[x] \notin Member
        BY <1>0, <2>2, <2>3 DEF HclhGlobal
      <3>2. turn[w] + 1 > 0
        BY <1>0 DEF HclhTypes
      <3> QED BY <2>1, <3>1, <3>2
    <2>4. ASSUME NEW u \in Threads, pc'[u] \in {"mark", "gspin"}
          PROVE  \/ turn[u] = 1 /\ HclhFree(previous[u])'
                 \/ \E x \in Threads : /\ turn[x] > 0 /\ turn[x] = turn[u] - 1
                                       /\ previous[u] = thread[x]
      BY <1>0, <1>1, <1>11, <2>2, <2>4 DEF HclhGlobal
    <2>5. ASSUME NEW u \in Threads, turn[u] > 0, pc'[u] \in Member
          PROVE  /\ ~splice'[Pred(u)'] /\ prevOf'[Pred(u)'] # NULL
                 /\ turn[u] > 1 => \E x \in Threads : turn[x] = turn[u] - 1 /\ Pred(u)' = thread[x]
      BY <1>0, <2>1, <2>5 DEF HclhGlobal
    <2>6. ASSUME NEW u \in Threads, turn[u] > 0
          PROVE  \/ HclhFree(Pred(u))'
                 \/ \E x \in Threads : turn[x] > 0 /\ turn[x] < turn[u] /\ Pred(u)' = thread[x]
      BY <1>0, <1>11, <2>1, <2>6 DEF HclhGlobal
    <2>7. HclhFree(glob)' <=> HclhFree(glob)
      BY <1>1, <1>11
    <2> QED BY <1>0, <1>1, <2>3, <2>4, <2>5, <2>6, <2>7 DEF HclhGlobal
  <1> QED BY <1>7, <1>14, <1>15, <1>16, <1>17, <1>18 DEF HclhChain

\* A thread stores its predecessor in its node.
LEMMA HclhStorePrevious ==
  ASSUME HclhChain, NEW t \in Threads, Hclh!StorePrevious(t)
  PROVE  HclhChain'
  <1>0. HclhTypes /\ HclhPlaces /\ HclhNodes /\ HclhFields /\ HclhLocal /\ HclhGlobal
    BY DEF HclhChain
  <1>1. /\ pc[t] = "store" /\ pc' = [pc EXCEPT ![t] = "check"]
        /\ prevOf' = [prevOf EXCEPT ![thread[t]] = previous[t]]
        /\ UNCHANGED <<home, glob, local, wait, splice, id, thread, previous, tail, place, turn>>
    BY DEF Hclh!StorePrevious, Hclh!Goto
  <1>2. Queues(t)
    BY <1>0, <1>1 DEF HclhPlaces
  <1>3. /\ previous[t] \in Hclh!Node /\ previous[t] # NULL /\ previous[t] = Pred(t)
        /\ thread[t] \in Hclh!Node /\ prevOf[thread[t]] # NULL
    BY <1>1, <1>2, HclhQueued, SpinlocksAssumption DEF Pred, Hclh!Node
  <1>4. /\ prevOf'[thread[t]] = previous[t]
        /\ \A m \in Hclh!Node : m # thread[t] => prevOf'[m] = prevOf[m]
    BY <1>0, <1>1, <1>3 DEF HclhTypes
  <1>5. \A m \in Hclh!Node : prevOf'[m] = NULL <=> prevOf[m] = NULL
    BY <1>3, <1>4
  <1>6. pc'[t] = "check" /\ \A u \in Threads : u # t => pc'[u] = pc[u]
    BY <1>0, <1>1 DEF HclhTypes
  <1>7. HclhTypes'
    <2>1. pc' \in [Threads -> HclhLabels]
      BY <1>0, <1>1 DEF HclhTypes, HclhLabels
    <2>2. prevOf' \in [Hclh!Node -> Hclh!Node \cup {NULL}]
      BY <1>0, <1>1, <1>3 DEF HclhTypes
    <2> QED BY <1>0, <1>1, <2>1, <2>2 DEF HclhTypes
  <1>8. \A u \in Threads : Queues(u)' <=> Queues(u)
    BY <1>1 DEF Queues
  <1>9. \A u \in Threads : HclhOwn(u)' = HclhOwn(u)
    BY <1>1, <1>6 DEF HclhOwn
  <1>10. \A u \in Threads : u # t /\ pc[u] \notin {"u_take"} => thread[u] # thread[t]
    BY <1>0, <1>1 DEF HclhNodes, HclhOwn
  <1>11. ASSUME NEW u \in Threads, Queues(u)
         PROVE  Pred(u)' = Pred(u) /\ Pred(u) \in Hclh!Node
    <2>1. CASE u = t
      BY <2>1, <1>1, <1>3, <1>4, <1>6 DEF Pred
    <2>2. CASE u # t
      <3>1. thread[u] # thread[t] /\ thread[u] \in Hclh!Node /\ Pred(u) \in Hclh!Node
        BY <2>2, <1>10, <1>11, HclhQueued
      <3> QED BY <2>2, <3>1, <1>1, <1>4, <1>6 DEF Pred
    <2> QED BY <2>1, <2>2
  <1>12. \A m : (HclhFree(m)' <=> HclhFree(m)) /\ (Spliced(m)' <=> Spliced(m))
    BY <1>1, <1>9 DEF HclhFree, Spliced
  <1>13. \A m \in Hclh!Node : (Closed(m)' <=> Closed(m)) /\ (Starts(m)' <=> Starts(m))
    <2>1. \A v \in Threads : pc'[v] = "mark" <=> pc[v] = "mark"
      BY <1>1, <1>6
    <2> QED BY <1>1, <1>5, <2>1 DEF Closed, Starts
  <1>14. HclhPlaces'
    <2>1. ASSUME NEW u \in Threads
          PROVE  /\ pc'[u] \in {"idle", "swap", "u_take"} <=> ~Queues(u)
                 /\ place[u] > 0 => turn[u] = 0
                 /\ place[u] > 0 => pc'[u] \in Member \cup {"tail", "fas"}
                 /\ place[u] > 1 => pc'[u] \in Member \ {"test"}
                 /\ turn[u] > 0 => pc'[u] \in Member \cup {"mark", "gspin", "cs", "u_clear"}
                 /\ turn[u] > 1 => pc'[u] \in (Member \ {"test"}) \cup {"mark", "gspin"}
      <3>1. CASE u = t
        BY <3>1, <1>0, <1>2, <1>6 DEF HclhPlaces, Member
      <3>2. CASE u # t
        BY <3>2, <1>0, <1>6 DEF HclhPlaces
      <3> QED BY <3>1, <3>2
    <2> QED BY <2>1, <1>0, <1>1, <1>8 DEF HclhPlaces
  <1>15. HclhNodes'
    BY <1>0, <1>1, <1>8, <1>9, <1>11 DEF HclhNodes
  <1>16. HclhFields'
    <2>1. ASSUME NEW u \in Threads
          PROVE  /\ pc'[u] \in {"check", "spin", "test", "tail", "fas", "u_clear"} =>
                      previous[u] = prevOf'[thread[u]]
                 /\ pc'[u] \notin {"idle", "u_take"} =>
                      wait[thread[u]] /\ id[thread[u]] = home[u] /\ prevOf'[thread[u]] # NULL
                 /\ pc'[u] = "swap" \/ place[u] > 0 => ~splice[thread[u]]
      <3>1. CASE u = t
        BY <3>1, <1>0, <1>1, <1>3, <1>4, <1>6 DEF HclhFields
      <3>2. CASE u # t
        <4>1. thread[u] \in Hclh!Node
          BY <1>0 DEF HclhTypes
        <4> QED BY <3>2, <4>1, <1>0, <1>4, <1>5, <1>6, <1>10 DEF HclhFields
      <3> QED BY <3>1, <3>2
    <2> QED BY <1>0, <1>1, <1>8, <1>11, <2>1 DEF HclhFields
  <1>17. HclhLocal'
    <2>1. ASSUME NEW u \in Threads, place[u] > 1
          PROVE  \E x \in Threads : home[x] = home[u] /\ place[x] = place[u] - 1
                   /\ Pred(u)' = thread[x]
      <3>1. Queues(u)
        BY <2>1, <1>0 DEF Queues, HclhTypes
      <3> QED BY <2>1, <3>1, <1>0, <1>11 DEF HclhLocal
    <2>2. ASSUME NEW u \in Threads, place[u] = 1
          PROVE  /\ Spliced(Pred(u))' /\ Starts(Pred(u))'
                 /\ pc'[u] \in {"spin", "test"} => Closed(Pred(u))'
                 /\ pc'[u] = "test" => splice[Pred(u)']
      <3>1. Queues(u)
        BY <2>2 DEF Queues
      <3>2. Pred(u)' = Pred(u) /\ Pred(u) \in Hclh!Node
        BY <3>1, <1>11
      <3>3. /\ Spliced(Pred(u)) /\ Starts(Pred(u))
            /\ pc[u] \in {"spin", "test"} => Closed(Pred(u))
            /\ pc[u] = "test" => splice[Pred(u)]
        BY <2>2, <1>0 DEF HclhLocal
      <3>4. pc'[u] \in {"spin", "test"} => pc[u] = pc'[u]
        BY <1>6
      <3> QED BY <3>2, <3>3, <3>4, <1>12, <1>13
    <2>3. \A u \in Threads : pc'[u] \in {"tail", "fas"} => pc[u] = pc'[u]
      BY <1>6
    <2>4. ASSUME NEW c \in Clusters
          PROVE (Spliced(local[c])' <=> Spliced(local[c]))
                  /\ (Starts(local[c])' <=> Starts(local[c]))
      BY <1>0, <1>1, <1>12, <1>13 DEF HclhTypes
    <2> QED BY <1>0, <1>1, <2>1, <2>2, <2>3, <2>4 DEF HclhLocal
  <1>18. HclhGlobal'
    <2>1. ASSUME NEW u \in Threads, turn[u] > 0
          PROVE  /\ Pred(u)' = Pred(u) /\ Pred(u) \in Hclh!Node
                 /\ pc'[u] \in Member <=> pc[u] \in Member
                 /\ prevOf'[Pred(u)'] = NULL <=> prevOf[Pred(u)] = NULL
      <3>1. Queues(u)
        BY <2>1 DEF Queues
      <3>2. pc'[u] \in Member <=> pc[u] \in Member
        BY <1>1, <1>6 DEF Member
      <3> QED BY <3>1, <3>2, <1>5, <1>11
    <2>2. \A u \in Threads : pc'[u] \in {"mark", "gspin"} => pc[u] = pc'[u]
      BY <1>6
    <2>3. ASSUME NEW u \in Threads, pc'[u] = "mark"
          PROVE  \E w \in Threads : /\ turn[w] >= turn[u] /\ tail[u] = thread[w]
                        /\ \A x \in Threads : turn[x] = turn[w] + 1 => pc'[x] \notin Member
      <3>1. PICK w \in Threads : /\ turn[w] >= turn[u] /\ tail[u] = thread[w]
                        /\ \A x \in Threads : turn[x] = turn[w] + 1 => pc[x] \notin Member
        BY <1>0, <2>2, <2>3 DEF HclhGlobal
      <3>2. turn[w] + 1 > 0
        BY <1>0 DEF HclhTypes
      <3> QED BY <2>1, <3>1, <3>2
    <2>4. ASSUME NEW u \in Threads, pc'[u] \in {"mark", "gspin"}
          PROVE  \/ turn[u] = 1 /\ HclhFree(previous[u])'
                 \/ \E x \in Threads : /\ turn[x] > 0 /\ turn[x] = turn[u] - 1
                                       /\ previous[u] = thread[x]
      BY <1>0, <1>1, <1>12, <2>2, <2>4 DEF HclhGlobal
    <2>5. ASSUME NEW u \in Threads, turn[u] > 0, pc'[u] \in Member
          PROVE  /\ ~splice[Pred(u)'] /\ prevOf'[Pred(u)'] # NULL
                 /\ turn[u] > 1 => \E x \in Threads : turn[x] = turn[u] - 1 /\ Pred(u)' = thread[x]
      BY <1>0, <2>1, <2>5 DEF HclhGlobal
    <2>6. ASSUME NEW u \in Threads, turn[u] > 0
          PROVE  \/ HclhFree(Pred(u))'
                 \/ \E x \in Threads : turn[x] > 0 /\ turn[x] < turn[u] /\ Pred(u)' = thread[x]
      BY <1>0, <1>12, <2>1, <2>6 DEF HclhGlobal
    <2>7. HclhFree(glob)' <=> HclhFree(glob)
      BY <1>1, <1>12
    <2> QED BY <1>0, <1>1, <2>3, <2>4, <2>5, <2>6, <2>7 DEF HclhGlobal
  <1> QED BY <1>7, <1>14, <1>15, <1>16, <1>17, <1>18 DEF HclhChain

\* The leader of a batch marks the last node of it.
LEMMA HclhMarkSplice ==
  ASSUME HclhChain, NEW t \in Threads, Hclh!MarkSplice(t)
  PROVE  HclhChain'
  <1>0. HclhTypes /\ HclhPlaces /\ HclhNodes /\ HclhFields /\ HclhLocal /\ HclhGlobal
    BY DEF HclhChain
  <1>1. /\ pc[t] = "mark" /\ pc' = [pc EXCEPT ![t] = "gspin"]
        /\ splice' = [splice EXCEPT ![tail[t]] = TRUE]
        /\ UNCHANGED <<home, glob, local, wait, id, prevOf, thread, previous, tail, place, turn>>
    BY DEF Hclh!MarkSplice, Hclh!Goto
  <1>2. Queues(t) /\ turn[t] > 0
    BY <1>0, <1>1 DEF HclhPlaces, Queues, Member
  <1>3. PICK w \in Threads : /\ turn[w] >= turn[t] /\ tail[t] = thread[w]
                             /\ \A x \in Threads : turn[x] = turn[w] + 1 => pc[x] \notin Member
    BY <1>0, <1>1 DEF HclhGlobal
  <1>4. turn[w] > 0 /\ Queues(w)
    BY <1>0, <1>2, <1>3 DEF HclhTypes, Queues
  <1>5. /\ HclhOwn(w) = thread[w] /\ ~HclhFree(thread[w]) /\ wait[thread[w]]
        /\ thread[w] \in Hclh!Node
    BY <1>4, HclhQueued
  <1>6. splice'[thread[w]] /\ \A m \in Hclh!Node : m # thread[w] => splice'[m] = splice[m]
    BY <1>0, <1>1, <1>3, <1>5 DEF HclhTypes
  <1>7. \A u \in Threads : u # w /\ pc[u] # "u_take" => thread[u] # thread[w]
    BY <1>0, <1>5 DEF HclhNodes, HclhOwn
  <1>8. pc'[t] = "gspin" /\ \A u \in Threads : u # t => pc'[u] = pc[u]
    BY <1>0, <1>1 DEF HclhTypes
  <1>9. HclhTypes'
    <2>1. pc' \in [Threads -> HclhLabels]
      BY <1>0, <1>1 DEF HclhTypes, HclhLabels
    <2>2. splice' \in [Hclh!Node -> BOOLEAN]
      BY <1>0, <1>1 DEF HclhTypes
    <2> QED BY <1>0, <1>1, <2>1, <2>2 DEF HclhTypes
  <1>10. \A u \in Threads : Queues(u)' <=> Queues(u)
    BY <1>1 DEF Queues
  <1>11. \A u \in Threads : HclhOwn(u)' = HclhOwn(u) /\ Pred(u)' = Pred(u)
    BY <1>1, <1>8 DEF HclhOwn, Pred
  <1>12. \A m : (HclhFree(m)' <=> HclhFree(m)) /\ (Spliced(m)' <=> Spliced(m))
    BY <1>1, <1>11 DEF HclhFree, Spliced
  <1>13. \A m \in Hclh!Node : (Closed(m)' <=> Closed(m)) /\ (Starts(m)' <=> Starts(m))
    <2>1. ASSUME NEW m \in Hclh!Node PROVE Closed(m)' <=> Closed(m)
      <3>1. CASE m = thread[w]
        BY <3>1, <1>1, <1>3, <1>5, <1>6 DEF Closed
      <3>2. CASE m # thread[w]
        <4>1. \A v \in Threads : pc'[v] = "mark" /\ tail[v] = m <=> pc[v] = "mark" /\ tail[v] = m
          BY <3>2, <1>1, <1>3, <1>8
        <4> QED BY <3>2, <4>1, <1>1, <1>6 DEF Closed
      <3> QED BY <3>1, <3>2
    <2> QED BY <2>1, <1>1 DEF Starts
  <1>14. HclhPlaces'
    <2>1. ASSUME NEW u \in Threads
          PROVE  /\ pc'[u] \in {"idle", "swap", "u_take"} <=> ~Queues(u)
                 /\ place[u] > 0 => turn[u] = 0
                 /\ place[u] > 0 => pc'[u] \in Member \cup {"tail", "fas"}
                 /\ place[u] > 1 => pc'[u] \in Member \ {"test"}
                 /\ turn[u] > 0 => pc'[u] \in Member \cup {"mark", "gspin", "cs", "u_clear"}
                 /\ turn[u] > 1 => pc'[u] \in (Member \ {"test"}) \cup {"mark", "gspin"}
      <3>1. CASE u = t
        BY <3>1, <1>0, <1>1, <1>2, <1>8 DEF HclhPlaces, Member
      <3>2. CASE u # t
        BY <3>2, <1>0, <1>8 DEF HclhPlaces
      <3> QED BY <3>1, <3>2
    <2> QED BY <2>1, <1>0, <1>1, <1>10 DEF HclhPlaces
  <1>15. HclhNodes'
    BY <1>0, <1>1, <1>10, <1>11 DEF HclhNodes
  <1>16. HclhFields'
    <2>1. ASSUME NEW u \in Threads
          PROVE  /\ pc'[u] \in {"check", "spin", "test", "tail", "fas", "u_clear"} =>
                      previous[u] = prevOf[thread[u]]
                 /\ pc'[u] \notin {"idle", "u_take"} =>
                      wait[thread[u]] /\ id[thread[u]] = home[u] /\ prevOf[thread[u]] # NULL
      BY <1>0, <1>1, <1>8 DEF HclhFields
    <2>2. ASSUME NEW u \in Threads, pc'[u] = "swap" \/ place[u] > 0
          PROVE  ~splice'[thread[u]]
      <3>1. pc[u] = "swap" \/ place[u] > 0
        BY <2>2, <1>8
      <3>2. u # w /\ pc[u] # "u_take"
        <4>1. CASE pc[u] = "swap"
          BY <4>1, <1>0, <1>4 DEF HclhPlaces
        <4>2. CASE place[u] > 0
          BY <4>2, <1>0, <1>4 DEF HclhPlaces, Member
        <4> QED BY <3>1, <4>1, <4>2
      <3> QED BY <3>1, <3>2, <1>0, <1>6, <1>7 DEF HclhFields, HclhTypes
    <2> QED BY <1>0, <1>1, <1>10, <1>11, <2>1, <2>2 DEF HclhFields
  <1>17. HclhLocal'
    <2>2. ASSUME NEW u \in Threads, place[u] = 1
          PROVE  /\ Spliced(Pred(u))' /\ Starts(Pred(u))'
                 /\ pc'[u] \in {"spin", "test"} => Closed(Pred(u))'
                 /\ pc'[u] = "test" => splice'[Pred(u)']
      <3>1. Queues(u)
        BY <2>2 DEF Queues
      <3>2. Pred(u)' = Pred(u) /\ Pred(u) \in Hclh!Node
        BY <3>1, <1>0, <1>11 DEF HclhNodes
      <3>3. /\ Spliced(Pred(u)) /\ Starts(Pred(u))
            /\ pc[u] \in {"spin", "test"} => Closed(Pred(u))
            /\ pc[u] = "test" => splice[Pred(u)]
        BY <2>2, <1>0 DEF HclhLocal
      <3>4. pc'[u] \in {"spin", "test"} => pc[u] = pc'[u]
        BY <1>8
      <3> QED BY <3>2, <3>3, <3>4, <1>6, <1>12, <1>13
    <2>3. \A u \in Threads : pc'[u] \in {"tail", "fas"} => pc[u] = pc'[u]
      BY <1>8
    <2>4. ASSUME NEW c \in Clusters
          PROVE (Spliced(local[c])' <=> Spliced(local[c]))
                  /\ (Starts(local[c])' <=> Starts(local[c]))
      BY <1>0, <1>1, <1>12, <1>13 DEF HclhTypes
    <2> QED BY <1>0, <1>1, <1>11, <2>2, <2>3, <2>4 DEF HclhLocal
  <1>18. HclhGlobal'
    <2>1. \A u \in Threads : pc'[u] \in Member <=> pc[u] \in Member
      BY <1>1, <1>8 DEF Member
    <2>2. \A u \in Threads : pc'[u] \in {"mark", "gspin"} => pc[u] \in {"mark", "gspin"}
      BY <1>1, <1>8
    <2>2a. \A u \in Threads : pc'[u] = "mark" => pc[u] = "mark"
      BY <1>1, <1>8
    <2>3. ASSUME NEW u \in Threads, pc'[u] = "mark"
          PROVE  \E y \in Threads : /\ turn[y] >= turn[u] /\ tail[u] = thread[y]
                        /\ \A x \in Threads : turn[x] = turn[y] + 1 => pc'[x] \notin Member
      BY <1>0, <2>1, <2>2a, <2>3 DEF HclhGlobal
    <2>4. ASSUME NEW u \in Threads, pc'[u] \in {"mark", "gspin"}
          PROVE  \/ turn[u] = 1 /\ HclhFree(previous[u])'
                 \/ \E x \in Threads : /\ turn[x] > 0 /\ turn[x] = turn[u] - 1
                                       /\ previous[u] = thread[x]
      BY <1>0, <1>1, <1>12, <2>2, <2>4 DEF HclhGlobal
    <2>5. ASSUME NEW u \in Threads, turn[u] > 0, pc'[u] \in Member
          PROVE  /\ ~splice'[Pred(u)] /\ prevOf[Pred(u)] # NULL
                 /\ turn[u] > 1 => \E x \in Threads : turn[x] = turn[u] - 1 /\ Pred(u) = thread[x]
      <3>1. /\ ~splice[Pred(u)] /\ prevOf[Pred(u)] # NULL
            /\ turn[u] > 1 => \E x \in Threads : turn[x] = turn[u] - 1 /\ Pred(u) = thread[x]
        BY <1>0, <2>1, <2>5 DEF HclhGlobal
      <3>2. Pred(u) # thread[w]
        <4>1. CASE turn[u] > 1
          <5>1. PICK x \in Threads : turn[x] = turn[u] - 1 /\ Pred(u) = thread[x]
            BY <3>1, <4>1
          <5>2. turn[x] > 0 /\ turn[u] = turn[x] + 1
            BY <5>1, <4>1, <1>0 DEF HclhTypes
          <5>3. pc[x] # "u_take"
            BY <5>2, <1>0 DEF HclhPlaces, Member
          <5> QED BY <5>1, <5>2, <5>3, <1>3, <1>7, <2>1, <2>5
        <4>2. CASE ~(turn[u] > 1)
          <5>1. turn[u] = 1
            BY <4>2, <2>5, <1>0 DEF HclhTypes
          <5>2. ~\E x \in Threads : turn[x] > 0 /\ turn[x] < turn[u]
            BY <5>1, <1>0 DEF HclhTypes
          <5>3. HclhFree(Pred(u))
            BY <5>2, <2>5, <1>0 DEF HclhGlobal
          <5> QED BY <5>3, <1>5
        <4> QED BY <4>1, <4>2
      <3>3. Pred(u) \in Hclh!Node
        BY <2>5, <1>0 DEF HclhNodes, Queues
      <3> QED BY <3>1, <3>2, <3>3, <1>6
    <2>6. ASSUME NEW u \in Threads, turn[u] > 0
          PROVE  \/ HclhFree(Pred(u))'
                 \/ \E x \in Threads : turn[x] > 0 /\ turn[x] < turn[u] /\ Pred(u) = thread[x]
      BY <1>0, <1>11, <1>12, <2>6 DEF HclhGlobal
    <2>7. HclhFree(glob)' <=> HclhFree(glob)
      BY <1>1, <1>12
    <2> QED BY <1>0, <1>1, <1>11, <2>3, <2>4, <2>5, <2>6, <2>7 DEF HclhGlobal
  <1> QED BY <1>9, <1>14, <1>15, <1>16, <1>17, <1>18 DEF HclhChain

\* A thread takes over the node of its predecessor.
LEMMA HclhUnlockTake ==
  ASSUME HclhChain, NEW t \in Threads, Hclh!UnlockTake(t)
  PROVE  HclhChain'
  <1>0. HclhTypes /\ HclhPlaces /\ HclhNodes /\ HclhFields /\ HclhLocal /\ HclhGlobal
    BY DEF HclhChain
  <1>1. /\ pc[t] = "u_take" /\ pc' = [pc EXCEPT ![t] = "idle"]
        /\ thread' = [thread EXCEPT ![t] = previous[t]]
        /\ previous' = [previous EXCEPT ![t] = NULL]
        /\ tail' = [tail EXCEPT ![t] = NULL]
        /\ UNCHANGED <<home, glob, local, wait, splice, id, prevOf, place, turn>>
    BY DEF Hclh!UnlockTake, Hclh!Goto, Hclh!fields
  <1>2. ~Queues(t) /\ place[t] = 0 /\ turn[t] = 0 /\ previous[t] = HclhOwn(t)
    BY <1>0, <1>1 DEF HclhPlaces, Queues, HclhTypes, HclhOwn
  <1>3. previous[t] \in Hclh!Node
    BY <1>0, <1>2 DEF HclhNodes
  <1>4. /\ pc'[t] = "idle" /\ thread'[t] = previous[t]
        /\ \A u \in Threads : u # t => /\ pc'[u] = pc[u] /\ thread'[u] = thread[u]
                                       /\ previous'[u] = previous[u] /\ tail'[u] = tail[u]
    BY <1>0, <1>1 DEF HclhTypes
  <1>5. HclhTypes'
    <2>1. pc' \in [Threads -> HclhLabels]
      BY <1>0, <1>1 DEF HclhTypes, HclhLabels
    <2>2. thread' \in [Threads -> Hclh!Node]
      BY <1>0, <1>1, <1>3 DEF HclhTypes
    <2>3. previous' \in [Threads -> Hclh!Node \cup {NULL}]
      BY <1>0, <1>1 DEF HclhTypes
    <2>4. tail' \in [Threads -> Hclh!Node \cup {NULL}]
      BY <1>0, <1>1 DEF HclhTypes
    <2> QED BY <1>0, <1>1, <2>1, <2>2, <2>3, <2>4 DEF HclhTypes
  <1>6. \A u \in Threads : Queues(u)' <=> Queues(u)
    BY <1>1 DEF Queues
  <1>7. \A u \in Threads : HclhOwn(u)' = HclhOwn(u)
    BY <1>1, <1>2, <1>4 DEF HclhOwn
  <1>8. \A u \in Threads : Queues(u) => /\ u # t /\ Pred(u)' = Pred(u) /\ thread'[u] = thread[u]
                                        /\ pc'[u] = pc[u] /\ previous'[u] = previous[u]
                                        /\ tail'[u] = tail[u]
    BY <1>1, <1>2, <1>4 DEF Pred
  <1>8a. \A u \in Threads : place[u] > 0 \/ turn[u] > 0 => Queues(u)
    BY DEF Queues
  <1>9. \A m : HclhFree(m)' <=> HclhFree(m)
    BY <1>7 DEF HclhFree
  <1>10. \A m : Spliced(m)' <=> Spliced(m)
    BY <1>1, <1>8, <1>8a, <1>9 DEF Spliced
  <1>11. \A m : (Closed(m)' <=> Closed(m)) /\ (Starts(m)' <=> Starts(m))
    <2>1. \A v \in Threads : /\ pc'[v] = "mark" <=> pc[v] = "mark"
                             /\ pc[v] = "mark" => tail'[v] = tail[v]
      BY <1>1, <1>4
    <2> QED BY <2>1, <1>1 DEF Closed, Starts
  <1>14. HclhPlaces'
    <2>1. ASSUME NEW u \in Threads
          PROVE  /\ pc'[u] \in {"idle", "swap", "u_take"} <=> ~Queues(u)
                 /\ place[u] > 0 => turn[u] = 0
                 /\ place[u] > 0 => pc'[u] \in Member \cup {"tail", "fas"}
                 /\ place[u] > 1 => pc'[u] \in Member \ {"test"}
                 /\ turn[u] > 0 => pc'[u] \in Member \cup {"mark", "gspin", "cs", "u_clear"}
                 /\ turn[u] > 1 => pc'[u] \in (Member \ {"test"}) \cup {"mark", "gspin"}
      <3>1. CASE u = t
        BY <3>1, <1>2, <1>4
      <3>2. CASE u # t
        BY <3>2, <1>0, <1>4 DEF HclhPlaces
      <3> QED BY <3>1, <3>2
    <2> QED BY <2>1, <1>0, <1>1, <1>6 DEF HclhPlaces
  <1>15. HclhNodes'
    BY <1>0, <1>1, <1>6, <1>7, <1>8 DEF HclhNodes
  <1>16. HclhFields'
    <2>1. ASSUME NEW u \in Threads
          PROVE  /\ pc'[u] \in {"check", "spin", "test", "tail", "fas", "u_clear"} =>
                      previous'[u] = prevOf[thread'[u]]
                 /\ pc'[u] \notin {"idle", "u_take"} =>
                      wait[thread'[u]] /\ id[thread'[u]] = home[u] /\ prevOf[thread'[u]] # NULL
                 /\ pc'[u] = "swap" \/ place[u] > 0 => ~splice[thread'[u]]
                 /\ Queues(u) => id[Pred(u)] = home[u]
      <3>1. CASE u = t
        BY <3>1, <1>2, <1>4
      <3>2. CASE u # t
        BY <3>2, <1>0, <1>4 DEF HclhFields
      <3> QED BY <3>1, <3>2
    <2> QED BY <1>0, <1>1, <1>6, <1>8, <2>1 DEF HclhFields
  <1>17. HclhLocal'
    <2>1. ASSUME NEW u \in Threads, place[u] > 1
          PROVE  \E x \in Threads : /\ home[x] = home[u] /\ place[x] = place[u] - 1
                                    /\ Pred(u)' = thread'[x]
      <3>1. PICK x \in Threads : home[x] = home[u] /\ place[x] = place[u] - 1 /\ Pred(u) = thread[x]
        BY <2>1, <1>0 DEF HclhLocal
      <3>2. place[x] > 0 /\ place[u] > 0
        BY <2>1, <3>1, <1>0 DEF HclhTypes
      <3> QED BY <3>1, <3>2, <1>8, <1>8a
    <2>2. ASSUME NEW u \in Threads, place[u] = 1
          PROVE  /\ Spliced(Pred(u))' /\ Starts(Pred(u))'
                 /\ pc'[u] \in {"spin", "test"} => Closed(Pred(u))'
                 /\ pc'[u] = "test" => splice[Pred(u)']
      <3>1. Queues(u)
        BY <2>2 DEF Queues
      <3>2. Pred(u)' = Pred(u) /\ pc'[u] = pc[u]
        BY <3>1, <1>8
      <3>3. /\ Spliced(Pred(u)) /\ Starts(Pred(u))
            /\ pc[u] \in {"spin", "test"} => Closed(Pred(u))
            /\ pc[u] = "test" => splice[Pred(u)]
        BY <2>2, <1>0 DEF HclhLocal
      <3> QED BY <3>2, <3>3, <1>10, <1>11
    <2>3. \A u \in Threads : pc'[u] \in {"tail", "fas"} => place[u] = 1
      BY <1>0, <1>4 DEF HclhLocal
    <2>4. ASSUME NEW u \in Threads, pc'[u] = "fas"
          PROVE  \E w \in Threads : home[w] = home[u] /\ place[w] > 0 /\ tail'[u] = thread'[w]
      <3>1. u # t /\ pc[u] = "fas" /\ tail'[u] = tail[u]
        BY <2>4, <1>4
      <3> QED BY <3>1, <1>0, <1>8, <1>8a DEF HclhLocal
    <2>5. ASSUME NEW c \in Clusters
          PROVE  \/ /\ \A u \in Threads : home[u] = c => place[u] = 0
                    /\ Spliced(local[c])' /\ Starts(local[c])'
                 \/ \E w \in Threads : /\ home[w] = c /\ place[w] > 0 /\ local[c] = thread'[w]
                                       /\ \A u \in Threads : home[u] = c => place[u] <= place[w]
      <3>1. (Spliced(local[c])' <=> Spliced(local[c])) /\ (Starts(local[c])' <=> Starts(local[c]))
        BY <1>1, <1>10, <1>11
      <3> QED BY <3>1, <1>0, <1>8, <1>8a DEF HclhLocal
    <2> QED BY <1>1, <2>1, <2>2, <2>3, <2>4, <2>5 DEF HclhLocal
  <1>18. HclhGlobal'
    <2>1. \A u \in Threads : turn[u] > 0 => /\ Pred(u)' = Pred(u) /\ thread'[u] = thread[u]
                                            /\ pc'[u] = pc[u]
      BY <1>8, <1>8a
    <2>2. \A u \in Threads : pc'[u] \in {"mark", "gspin"} =>
             u # t /\ pc[u] = pc'[u] /\ previous'[u] = previous[u] /\ tail'[u] = tail[u]
      BY <1>4
    <2>3. ASSUME NEW u \in Threads, pc'[u] = "mark"
          PROVE  \E y \in Threads : /\ turn[y] >= turn[u] /\ tail'[u] = thread'[y]
                        /\ \A x \in Threads : turn[x] = turn[y] + 1 => pc'[x] \notin Member
      <3>1. PICK y \in Threads : /\ turn[y] >= turn[u] /\ tail[u] = thread[y]
                        /\ \A x \in Threads : turn[x] = turn[y] + 1 => pc[x] \notin Member
        BY <1>0, <2>2, <2>3 DEF HclhGlobal
      <3>2. turn[u] > 0
        BY <1>0, <2>2, <2>3 DEF HclhPlaces, Queues, Member
      <3>3. turn[y] > 0 /\ turn[y] + 1 > 0
        BY <3>1, <3>2, <1>0 DEF HclhTypes
      <3> QED BY <2>1, <2>2, <2>3, <3>1, <3>3
    <2>4. ASSUME NEW u \in Threads, pc'[u] \in {"mark", "gspin"}
          PROVE  \/ turn[u] = 1 /\ HclhFree(previous[u])'
                 \/ \E x \in Threads : /\ turn[x] > 0 /\ turn[x] = turn[u] - 1
                                       /\ previous'[u] = thread'[x]
      <3>1. \/ turn[u] = 1 /\ HclhFree(previous[u])
            \/ \E x \in Threads : /\ turn[x] > 0 /\ turn[x] = turn[u] - 1
                                  /\ previous[u] = thread[x]
        BY <1>0, <2>2, <2>4 DEF HclhGlobal
      <3>2. HclhFree(previous[u]) => HclhFree(previous[u])'
        BY <1>9, <2>2, <2>4
      <3> QED BY <3>1, <3>2, <2>1, <2>2, <2>4
    <2>5. ASSUME NEW u \in Threads, turn[u] > 0, pc'[u] \in Member
          PROVE  /\ ~splice[Pred(u)'] /\ prevOf[Pred(u)'] # NULL
                 /\ turn[u] > 1 => \E x \in Threads : turn[x] = turn[u] - 1 /\ Pred(u)' = thread'[x]
      <3>1. /\ ~splice[Pred(u)] /\ prevOf[Pred(u)] # NULL
            /\ turn[u] > 1 => \E x \in Threads : turn[x] = turn[u] - 1 /\ Pred(u) = thread[x]
        BY <1>0, <2>1, <2>5 DEF HclhGlobal
      <3>2. \A x \in Threads : turn[u] > 1 /\ turn[x] = turn[u] - 1 => turn[x] > 0
        BY <1>0 DEF HclhTypes
      <3> QED BY <3>1, <3>2, <2>1, <2>5
    <2>6. ASSUME NEW u \in Threads, turn[u] > 0
          PROVE  \/ HclhFree(Pred(u))'
                 \/ \E x \in Threads : turn[x] > 0 /\ turn[x] < turn[u] /\ Pred(u)' = thread'[x]
      BY <1>0, <1>9, <2>1, <2>6 DEF HclhGlobal
    <2>7. \/ HclhFree(glob)' /\ \A u \in Threads : turn[u] = 0
          \/ \E w \in Threads : /\ turn[w] > 0 /\ glob = thread'[w]
                                /\ \A u \in Threads : turn[u] <= turn[w]
      <3>1. HclhFree(glob)' <=> HclhFree(glob)
        BY <1>1, <1>9
      <3> QED BY <3>1, <1>0, <2>1 DEF HclhGlobal
    <2> QED BY <1>1, <2>3, <2>4, <2>5, <2>6, <2>7 DEF HclhGlobal
  <1> QED BY <1>5, <1>14, <1>15, <1>16, <1>17, <1>18 DEF HclhChain

\* The greatest element.
LEMMA HclhMax ==
  ASSUME NEW S, S \subseteq Nat, NEW m \in S, \A x \in S : x <= m
  PROVE  Hclh!Max(S) = m
  <1>1. m \in S /\ \A y \in S : m >= y
    OBVIOUS
  <1>2. ASSUME NEW x \in S, \A y \in S : x >= y PROVE x = m
    BY <1>2
  <1> QED BY <1>1, <1>2 DEF Hclh!Max

\* The end of a local queue.
LEMMA HclhLast ==
  ASSUME HclhChain, NEW c \in Clusters
  PROVE  /\ Hclh!LastPlace(c) \in Nat
         /\ \A u \in Threads : home[u] = c => place[u] <= Hclh!LastPlace(c)
         /\ \/ /\ Hclh!LastPlace(c) = 0 /\ Spliced(local[c]) /\ Starts(local[c])
            \/ \E w \in Threads : /\ home[w] = c /\ place[w] = Hclh!LastPlace(c)
                                  /\ place[w] > 0 /\ local[c] = thread[w]
  <1> DEFINE S == {0} \cup {place[s] : s \in {u \in Threads : home[u] = c}}
  <1>0. HclhTypes /\ HclhLocal
    BY DEF HclhChain
  <1>1. S \subseteq Nat
    BY <1>0 DEF HclhTypes
  <1>2. CASE /\ \A u \in Threads : home[u] = c => place[u] = 0
             /\ Spliced(local[c]) /\ Starts(local[c])
    <2>1. Hclh!Max(S) = 0
      BY <1>1, <1>2, HclhMax
    <2> QED BY <2>1, <1>2 DEF Hclh!LastPlace
  <1>3. ASSUME NEW w \in Threads, home[w] = c, place[w] > 0, local[c] = thread[w],
               \A u \in Threads : home[u] = c => place[u] <= place[w]
        PROVE  Hclh!LastPlace(c) = place[w] /\ place[w] \in Nat
    <2>1. place[w] \in S /\ place[w] \in Nat
      BY <1>0, <1>3 DEF HclhTypes
    <2>2. \A x \in S : x <= place[w]
      BY <1>3, <2>1
    <2>3. Hclh!Max(S) = place[w]
      BY <1>1, <2>1, <2>2, HclhMax
    <2> QED BY <2>1, <2>3 DEF Hclh!LastPlace
  <1> QED BY <1>0, <1>2, <1>3 DEF HclhLocal

\* A thread joins the queue of its cluster.
LEMMA HclhSwap ==
  ASSUME HclhChain, NEW t \in Threads, Hclh!Swap(t)
  PROVE  HclhChain'
  <1>0. HclhTypes /\ HclhPlaces /\ HclhNodes /\ HclhFields /\ HclhLocal /\ HclhGlobal
    BY DEF HclhChain
  <1>0a. PICK c0 \in Clusters : c0 = home[t]
    BY <1>0 DEF HclhTypes
  <1>0b. PICK L \in Nat : L = Hclh!LastPlace(c0)
    BY HclhLast
  <1>0c. PICK last \in Hclh!Node : last = local[c0]
    BY <1>0 DEF HclhTypes
  <1>0d. PICK n \in Hclh!Node : n = thread[t]
    BY <1>0 DEF HclhTypes
  <1>1. /\ pc[t] = "swap" /\ pc' = [pc EXCEPT ![t] = "store"]
        /\ previous' = [previous EXCEPT ![t] = last]
        /\ local' = [local EXCEPT ![c0] = n]
        /\ place' = [place EXCEPT ![t] = L + 1]
        /\ UNCHANGED <<home, glob, wait, splice, id, prevOf, thread, tail, turn>>
    BY <1>0a, <1>0b, <1>0c, <1>0d DEF Hclh!Swap, Hclh!Goto, Hclh!fields
  <1>2. ~Queues(t) /\ place[t] = 0 /\ turn[t] = 0 /\ n = HclhOwn(t)
    BY <1>0, <1>0d, <1>1 DEF HclhPlaces, Queues, HclhTypes, HclhOwn
  <1>3. /\ \A u \in Threads : Queues(u) => Pred(u) # n /\ thread[u] # n
        /\ \A c \in Clusters : local[c] # n
    BY <1>2, HclhApart
  <1>4. /\ pc'[t] = "store" /\ previous'[t] = last /\ place'[t] = L + 1
        /\ \A u \in Threads : u # t => /\ pc'[u] = pc[u] /\ previous'[u] = previous[u]
                                       /\ place'[u] = place[u]
        /\ local'[c0] = n /\ \A c \in Clusters : c # c0 => local'[c] = local[c]
    BY <1>0, <1>1 DEF HclhTypes
  <1>5. HclhTypes'
    <2>1. pc' \in [Threads -> HclhLabels]
      BY <1>0, <1>1 DEF HclhTypes, HclhLabels
    <2>2. local' \in [Clusters -> Hclh!Node]
      BY <1>0, <1>1 DEF HclhTypes
    <2>3. previous' \in [Threads -> Hclh!Node \cup {NULL}]
      BY <1>0, <1>1 DEF HclhTypes
    <2>4. place' \in [Threads -> Nat]
      BY <1>0, <1>1 DEF HclhTypes
    <2> QED BY <1>0, <1>1, <2>1, <2>2, <2>3, <2>4 DEF HclhTypes
  <1>6. Queues(t)' /\ \A u \in Threads : u # t => (Queues(u)' <=> Queues(u))
    BY <1>1, <1>4 DEF Queues
  <1>7. \A u \in Threads : HclhOwn(u)' = HclhOwn(u)
    BY <1>1, <1>4 DEF HclhOwn
  <1>8. Pred(t)' = last /\ \A u \in Threads : u # t => Pred(u)' = Pred(u)
    BY <1>1, <1>4 DEF Pred
  <1>8a. \A u \in Threads : place[u] > 0 \/ turn[u] > 0 => Queues(u) /\ u # t
    BY <1>2 DEF Queues
  <1>9. \A m : (HclhFree(m)' <=> HclhFree(m)) /\ (Spliced(m)' <=> Spliced(m))
    BY <1>1, <1>7 DEF HclhFree, Spliced
  <1>11. \A m : (Closed(m)' <=> Closed(m)) /\ (Starts(m)' <=> Starts(m))
    <2>1. \A v \in Threads : pc'[v] = "mark" <=> pc[v] = "mark"
      BY <1>1, <1>4
    <2> QED BY <2>1, <1>1 DEF Closed, Starts
  <1>12. \A u \in Threads : home[u] = c0 => place[u] <= L /\ place[u] \in Nat
    BY <1>0, <1>0b, HclhLast DEF HclhTypes
  <1>13. \/ L = 0 /\ Spliced(last) /\ Starts(last)
         \/ \E w \in Threads : home[w] = c0 /\ place[w] = L /\ place[w] > 0 /\ last = thread[w]
    BY <1>0b, <1>0c, HclhLast
  <1>14. HclhPlaces'
    <2>1. ASSUME NEW u \in Threads
          PROVE  /\ pc'[u] \in {"idle", "swap", "u_take"} <=> ~Queues(u)'
                 /\ place'[u] > 0 => turn[u] = 0
                 /\ place'[u] > 0 => pc'[u] \in Member \cup {"tail", "fas"}
                 /\ place'[u] > 1 => pc'[u] \in Member \ {"test"}
                 /\ turn[u] > 0 => pc'[u] \in Member \cup {"mark", "gspin", "cs", "u_clear"}
                 /\ turn[u] > 1 => pc'[u] \in (Member \ {"test"}) \cup {"mark", "gspin"}
      <3>1. CASE u = t
        BY <3>1, <1>2, <1>4, <1>6 DEF Member
      <3>2. CASE u # t
        BY <3>2, <1>0, <1>4, <1>6 DEF HclhPlaces
      <3> QED BY <3>1, <3>2
    <2>2. \A u \in Threads : u # t /\ home[u] = home[t] => place'[u] # place'[t]
      BY <1>0a, <1>4, <1>12
    <2>3. ASSUME NEW u \in Threads, NEW x \in Threads, place'[u] > 0, place'[u] = place'[x],
                 home[u] = home[x]
          PROVE  u = x
      <3>1. CASE u # t /\ x # t
        BY <2>3, <3>1, <1>0, <1>4 DEF HclhPlaces
      <3> QED BY <2>2, <2>3, <3>1
    <2> QED BY <2>1, <2>3, <1>0, <1>1 DEF HclhPlaces
  <1>15. HclhNodes'
    <2>1. \A u \in Threads : HclhOwn(u) \in Hclh!Node
      BY <1>0 DEF HclhNodes
    <2>2. \A u, x \in Threads : HclhOwn(u) = HclhOwn(x) => u = x
      BY <1>0 DEF HclhNodes
    <2>3. \A u \in Threads : Queues(u)' => Pred(u)' \in Hclh!Node
      BY <1>0, <1>6, <1>8 DEF HclhNodes
    <2>4. \A u \in Threads : u # t /\ Queues(u)' => Pred(u)' # last
      BY <1>0, <1>0c, <1>6, <1>8 DEF HclhNodes
    <2>5. \A u, x \in Threads : Queues(u)' /\ Queues(x)' /\ Pred(u)' = Pred(x)' => u = x
      BY <2>4, <1>0, <1>6, <1>8 DEF HclhNodes
    <2>6. \A u \in Threads, c \in Clusters : Queues(u)' => Pred(u)' # local'[c]
      <3> SUFFICES ASSUME NEW u \in Threads, NEW c \in Clusters, Queues(u)'
                   PROVE  Pred(u)' # local'[c]
        OBVIOUS
      <3>1. CASE u = t
        BY <3>1, <1>0, <1>0c, <1>3, <1>4, <1>8 DEF HclhNodes
      <3>2. CASE u # t
        BY <3>2, <1>0, <1>3, <1>4, <1>6, <1>8 DEF HclhNodes
      <3> QED BY <3>1, <3>2
    <2>7. \A c, d \in Clusters : local'[c] = local'[d] => c = d
      BY <1>0, <1>3, <1>4 DEF HclhNodes
    <2> QED BY <1>7, <2>1, <2>2, <2>3, <2>5, <2>6, <2>7 DEF HclhNodes
  <1>16. HclhFields'
    <2>1. ASSUME NEW u \in Threads
          PROVE  /\ pc'[u] \in {"check", "spin", "test", "tail", "fas", "u_clear"} =>
                      previous'[u] = prevOf[thread[u]]
                 /\ pc'[u] \notin {"idle", "u_take"} =>
                      wait[thread[u]] /\ id[thread[u]] = home[u] /\ prevOf[thread[u]] # NULL
                 /\ pc'[u] = "swap" \/ place'[u] > 0 => ~splice[thread[u]]
                 /\ Queues(u)' => id[Pred(u)'] = home[u]
      <3>1. CASE u = t
        BY <3>1, <1>0, <1>0a, <1>0c, <1>1, <1>4, <1>8 DEF HclhFields
      <3>2. CASE u # t
        BY <3>2, <1>0, <1>4, <1>6, <1>8 DEF HclhFields
      <3> QED BY <3>1, <3>2
    <2>2. \A c \in Clusters : id[local'[c]] = c
      BY <1>0, <1>0a, <1>0d, <1>1, <1>4 DEF HclhFields
    <2> QED BY <1>1, <2>1, <2>2 DEF HclhFields
  <1>17. HclhLocal'
    <2>1. ASSUME NEW u \in Threads, place'[u] > 1
          PROVE  \E x \in Threads : /\ home[x] = home[u] /\ place'[x] = place'[u] - 1
                                    /\ Pred(u)' = thread[x]
      <3>1. CASE u = t
        <4>1. L # 0
          BY <2>1, <3>1, <1>4
        <4>2. PICK w \in Threads : home[w] = c0 /\ place[w] = L /\ place[w] > 0 /\ last = thread[w]
          BY <4>1, <1>13
        <4>3. w # t /\ place'[w] = place'[t] - 1
          BY <4>2, <1>2, <1>4
        <4> QED BY <3>1, <4>2, <4>3, <1>0a, <1>8
      <3>2. CASE u # t
        <4>1. PICK x \in Threads : home[x] = home[u] /\ place[x] = place[u] - 1
                     /\ Pred(u) = thread[x]
          BY <2>1, <3>2, <1>0, <1>4 DEF HclhLocal
        <4>2. place[x] > 0 /\ place[u] > 0
          BY <2>1, <3>2, <4>1, <1>0, <1>4 DEF HclhTypes
        <4> QED BY <3>2, <4>1, <4>2, <1>4, <1>8, <1>8a
      <3> QED BY <3>1, <3>2
    <2>2. ASSUME NEW u \in Threads, place'[u] = 1
          PROVE  /\ Spliced(Pred(u))' /\ Starts(Pred(u))'
                 /\ pc'[u] \in {"spin", "test"} => Closed(Pred(u))'
                 /\ pc'[u] = "test" => splice[Pred(u)']
      <3>1. CASE u = t
        <4>1. L = 0
          BY <2>2, <3>1, <1>4
        <4>2. Spliced(last) /\ Starts(last)
          BY <4>1, <1>13
        <4>3. Spliced(Pred(t)') /\ Starts(Pred(t)')
          BY <4>2, <1>8
        <4> QED BY <3>1, <4>2, <4>3, <1>4, <1>8, <1>9, <1>11
      <3>2. CASE u # t
        <4>1. Pred(u)' = Pred(u) /\ pc'[u] = pc[u] /\ place[u] = 1
          BY <2>2, <3>2, <1>4, <1>8
        <4>2. /\ Spliced(Pred(u)) /\ Starts(Pred(u))
              /\ pc[u] \in {"spin", "test"} => Closed(Pred(u))
              /\ pc[u] = "test" => splice[Pred(u)]
          BY <4>1, <1>0 DEF HclhLocal
        <4> QED BY <4>1, <4>2, <1>9, <1>11
      <3> QED BY <3>1, <3>2
    <2>3. \A u \in Threads : pc'[u] \in {"tail", "fas"} => place'[u] = 1
      BY <1>0, <1>4 DEF HclhLocal
    <2>4. ASSUME NEW u \in Threads, pc'[u] = "fas"
          PROVE  \E w \in Threads : home[w] = home[u] /\ place'[w] > 0 /\ tail[u] = thread[w]
      <3>1. u # t /\ pc[u] = "fas"
        BY <2>4, <1>4
      <3> QED BY <3>1, <1>0, <1>4, <1>8a DEF HclhLocal
    <2>5. ASSUME NEW c \in Clusters
          PROVE  \/ /\ \A u \in Threads : home[u] = c => place'[u] = 0
                    /\ Spliced(local[c])' /\ Starts(local[c])'
                 \/ \E w \in Threads : /\ home[w] = c /\ place'[w] > 0 /\ local'[c] = thread[w]
                                       /\ \A u \in Threads : home[u] = c => place'[u] <= place'[w]
      <3>1. CASE c = c0
        <4>1. \A u \in Threads : home[u] = c => place'[u] <= place'[t]
          BY <3>1, <1>4, <1>12
        <4>2. place'[t] > 0
          BY <1>4
        <4> QED BY <3>1, <4>1, <4>2, <1>0a, <1>0d, <1>4
      <3>2. CASE c # c0
        <4>1. local'[c] = local[c] /\ \A u \in Threads : home[u] = c => place'[u] = place[u]
          BY <3>2, <1>0a, <1>4
        <4>2. (Spliced(local[c])' <=> Spliced(local[c])) /\ (Starts(local[c])' <=> Starts(local[c]))
          BY <4>1, <1>9, <1>11
        <4> QED BY <4>1, <4>2, <1>0 DEF HclhLocal
      <3> QED BY <3>1, <3>2
    <2> QED BY <1>1, <2>1, <2>2, <2>3, <2>4, <2>5 DEF HclhLocal
  <1>18. HclhGlobal'
    <2>1. \A u \in Threads : turn[u] > 0 => Pred(u)' = Pred(u) /\ pc'[u] = pc[u]
      BY <1>4, <1>8, <1>8a
    <2>2. \A u \in Threads : pc'[u] \in {"mark", "gspin"} =>
             u # t /\ pc[u] = pc'[u] /\ previous'[u] = previous[u]
      BY <1>4
    <2>3. ASSUME NEW u \in Threads, pc'[u] = "mark"
          PROVE  \E y \in Threads : /\ turn[y] >= turn[u] /\ tail[u] = thread[y]
                        /\ \A x \in Threads : turn[x] = turn[y] + 1 => pc'[x] \notin Member
      <3>1. PICK y \in Threads : /\ turn[y] >= turn[u] /\ tail[u] = thread[y]
                        /\ \A x \in Threads : turn[x] = turn[y] + 1 => pc[x] \notin Member
        BY <1>0, <2>2, <2>3 DEF HclhGlobal
      <3>2. turn[y] + 1 > 0
        BY <1>0 DEF HclhTypes
      <3> QED BY <2>1, <3>1, <3>2
    <2>4. ASSUME NEW u \in Threads, pc'[u] \in {"mark", "gspin"}
          PROVE  \/ turn[u] = 1 /\ HclhFree(previous[u])'
                 \/ \E x \in Threads : /\ turn[x] > 0 /\ turn[x] = turn[u] - 1
                                       /\ previous'[u] = thread[x]
      <3>1. \/ turn[u] = 1 /\ HclhFree(previous[u])
            \/ \E x \in Threads : /\ turn[x] > 0 /\ turn[x] = turn[u] - 1
                                  /\ previous[u] = thread[x]
        BY <1>0, <2>2, <2>4 DEF HclhGlobal
      <3>2. HclhFree(previous[u]) => HclhFree(previous[u])'
        BY <1>9, <2>2, <2>4
      <3> QED BY <3>1, <3>2, <2>2, <2>4
    <2>5. ASSUME NEW u \in Threads, turn[u] > 0, pc'[u] \in Member
          PROVE  /\ ~splice[Pred(u)'] /\ prevOf[Pred(u)'] # NULL
                 /\ turn[u] > 1 => \E x \in Threads : turn[x] = turn[u] - 1 /\ Pred(u)' = thread[x]
      BY <1>0, <2>1, <2>5 DEF HclhGlobal
    <2>6. ASSUME NEW u \in Threads, turn[u] > 0
          PROVE  \/ HclhFree(Pred(u))'
                 \/ \E x \in Threads : turn[x] > 0 /\ turn[x] < turn[u] /\ Pred(u)' = thread[x]
      BY <1>0, <1>9, <2>1, <2>6 DEF HclhGlobal
    <2>7. HclhFree(glob)' <=> HclhFree(glob)
      BY <1>1, <1>9
    <2> QED BY <1>0, <1>1, <2>3, <2>4, <2>5, <2>6, <2>7 DEF HclhGlobal
  <1> QED BY <1>5, <1>14, <1>15, <1>16, <1>17, <1>18 DEF HclhChain

\* The release lets the next thread of the global queue in.
LEMMA HclhUnlockClear ==
  ASSUME HclhChain, NEW t \in Threads, Hclh!UnlockClear(t)
  PROVE  HclhChain'
  <1>0. HclhTypes /\ HclhPlaces /\ HclhNodes /\ HclhFields /\ HclhLocal /\ HclhGlobal
    BY DEF HclhChain
  <1>0a. PICK n \in Hclh!Node : n = thread[t]
    BY <1>0 DEF HclhTypes
  <1>1. /\ pc[t] = "u_clear" /\ pc' = [pc EXCEPT ![t] = "u_take"]
        /\ wait' = [wait EXCEPT ![n] = FALSE]
        /\ turn' = [s \in Threads |-> IF turn[s] > 0 THEN turn[s] - 1 ELSE 0]
        /\ UNCHANGED <<home, glob, local, splice, id, prevOf, thread, previous, tail, place>>
    BY <1>0a DEF Hclh!UnlockClear, Hclh!Goto
  <1>2. turn[t] = 1 /\ place[t] = 0 /\ Queues(t)
    <2>1. Queues(t)
      BY <1>0, <1>1 DEF HclhPlaces
    <2>2. place[t] \in Nat /\ turn[t] \in Nat
      BY <1>0 DEF HclhTypes
    <2>3. ~(place[t] > 0) /\ ~(turn[t] > 1)
      BY <1>0, <1>1 DEF HclhPlaces, Member
    <2> QED BY <2>1, <2>2, <2>3 DEF Queues
  <1>3. PICK p \in Hclh!Node : p = Pred(t) /\ p = previous[t]
    BY <1>0, <1>1, <1>2, HclhQueued DEF HclhFields, Pred
  <1>4. HclhFree(p) /\ HclhOwn(t) = n /\ ~HclhFree(n)
    <2>1. ~\E x \in Threads : turn[x] > 0 /\ turn[x] < turn[t]
      BY <1>0, <1>2 DEF HclhTypes
    <2>2. HclhFree(p)
      <3>1. turn[t] > 0
        BY <1>2
      <3>2. HclhFree(Pred(t))
        BY <2>1, <3>1, <1>0 DEF HclhGlobal
      <3> QED BY <3>2, <1>3
    <2> QED BY <2>2, <1>0a, <1>2, HclhQueued
  <1>5. /\ pc'[t] = "u_take" /\ \A u \in Threads : u # t => pc'[u] = pc[u]
        /\ \A m \in Hclh!Node : m # n => wait'[m] = wait[m]
    BY <1>0, <1>1 DEF HclhTypes
  <1>6. turn'[t] = 0 /\ \A u \in Threads : u # t => \/ turn[u] = 0 /\ turn'[u] = 0
                                                    \/ turn[u] > 1 /\ turn'[u] = turn[u] - 1
    <2>1. \A u \in Threads : turn[u] \in Nat /\ turn'[u] = IF turn[u] > 0 THEN turn[u] - 1 ELSE 0
      BY <1>0, <1>1 DEF HclhTypes
    <2>2. \A u \in Threads : u # t => turn[u] # 1
      BY <1>0, <1>2 DEF HclhPlaces
    <2> QED BY <1>2, <2>1, <2>2
  <1>6a. \A u \in Threads : turn[u] \in Nat
    BY <1>0 DEF HclhTypes
  <1>7. HclhTypes'
    <2>1. pc' \in [Threads -> HclhLabels]
      BY <1>0, <1>1 DEF HclhTypes, HclhLabels
    <2>2. wait' \in [Hclh!Node -> BOOLEAN]
      BY <1>0, <1>1 DEF HclhTypes
    <2>3. turn' \in [Threads -> Nat]
      BY <1>0, <1>1 DEF HclhTypes
    <2> QED BY <1>0, <1>1, <2>1, <2>2, <2>3 DEF HclhTypes
  <1>8. ~Queues(t)' /\ \A u \in Threads : u # t => (Queues(u)' <=> Queues(u))
    BY <1>1, <1>2, <1>6, <1>6a DEF Queues
  <1>9. HclhOwn(t)' = p /\ \A u \in Threads : u # t => HclhOwn(u)' = HclhOwn(u)
    BY <1>1, <1>3, <1>5 DEF HclhOwn
  <1>9a. \A u \in Threads : HclhOwn(u) # p
    BY <1>4 DEF HclhFree
  <1>10. \A u \in Threads : u # t => Pred(u)' = Pred(u)
    BY <1>1, <1>5 DEF Pred
  <1>11. \A u \in Threads : u # t => HclhOwn(u) # n
    BY <1>0, <1>4 DEF HclhNodes
  <1>12. \A m : HclhFree(m) /\ m # p => HclhFree(m)'
    BY <1>9 DEF HclhFree
  <1>13. HclhFree(n)'
    BY <1>4, <1>9, <1>11 DEF HclhFree
  <1>14. ASSUME NEW m, Spliced(m), m # p PROVE Spliced(m)'
    <2>1. CASE HclhFree(m)
      BY <2>1, <1>12, <1>14 DEF Spliced
    <2>2. ASSUME NEW u \in Threads, turn[u] > 0, m = thread[u] PROVE Spliced(m)'
      <3>1. CASE u = t
        BY <2>2, <3>1, <1>0a, <1>13 DEF Spliced
      <3>2. CASE u # t
        <4>1. turn'[u] > 0 /\ thread' = thread
          BY <2>2, <3>2, <1>1, <1>6, <1>6a
        <4> QED BY <2>2, <4>1 DEF Spliced
      <3> QED BY <3>1, <3>2
    <2> QED BY <2>1, <2>2, <1>14 DEF Spliced
  <1>15. \A m \in Hclh!Node : (Closed(m)' <=> Closed(m)) /\ (Starts(m)' <=> Starts(m))
    <2>1. \A v \in Threads : pc'[v] = "mark" <=> pc[v] = "mark"
      BY <1>1, <1>5
    <2>2. ASSUME NEW v \in Threads, pc[v] = "mark", tail[v] = n PROVE FALSE
      <3>1. v # t /\ turn[v] > 0
        BY <2>2, <1>0, <1>1 DEF HclhPlaces, Queues, Member
      <3>2. PICK w \in Threads : turn[w] >= turn[v] /\ n = thread[w]
        BY <2>2, <1>0 DEF HclhGlobal
      <3>3. turn[v] > 1 /\ turn[w] > 1
        BY <3>1, <3>2, <1>6, <1>6a
      <3>3a. Queues(w)
        BY <3>3, <1>6a DEF Queues
      <3>4. HclhOwn(w) = n
        BY <3>2, <3>3a, HclhQueued
      <3> QED BY <3>3, <3>4, <1>2, <1>11
    <2>3. ASSUME NEW m \in Hclh!Node PROVE Closed(m)' <=> Closed(m)
      <3>1. CASE m = n
        BY <3>1, <2>1, <2>2, <1>1 DEF Closed
      <3>2. CASE m # n
        BY <3>2, <2>1, <1>1, <1>5 DEF Closed
      <3> QED BY <3>1, <3>2
    <2> QED BY <2>3, <1>1 DEF Starts
  <1>16. HclhPlaces'
    <2>1. ASSUME NEW u \in Threads
          PROVE  /\ pc'[u] \in {"idle", "swap", "u_take"} <=> ~Queues(u)'
                 /\ place[u] > 0 => turn'[u] = 0
                 /\ place[u] > 0 => pc'[u] \in Member \cup {"tail", "fas"}
                 /\ place[u] > 1 => pc'[u] \in Member \ {"test"}
                 /\ turn'[u] > 0 => pc'[u] \in Member \cup {"mark", "gspin", "cs", "u_clear"}
                 /\ turn'[u] > 1 => pc'[u] \in (Member \ {"test"}) \cup {"mark", "gspin"}
      <3>1. CASE u = t
        BY <3>1, <1>2, <1>5, <1>6, <1>8
      <3>2. CASE u # t
        <4>1. /\ pc'[u] = pc[u] /\ (Queues(u)' <=> Queues(u)) /\ (turn[u] = 0 => turn'[u] = 0)
              /\ (turn'[u] > 0 => turn[u] > 0) /\ (turn'[u] > 1 => turn[u] > 1)
          BY <3>2, <1>5, <1>6, <1>6a, <1>8
        <4> QED BY <4>1, <1>0 DEF HclhPlaces
      <3> QED BY <3>1, <3>2
    <2>2. \A u, x \in Threads : turn'[u] > 0 /\ turn'[u] = turn'[x] => u = x
      <3> SUFFICES ASSUME NEW u \in Threads, NEW x \in Threads, turn'[u] > 0, turn'[u] = turn'[x]
                   PROVE  u = x
        OBVIOUS
      <3>1. turn[u] > 0 /\ turn[u] = turn[x]
        BY <1>6, <1>6a
      <3> QED BY <3>1, <1>0 DEF HclhPlaces
    <2> QED BY <2>1, <2>2, <1>0, <1>1 DEF HclhPlaces
  <1>17. HclhNodes'
    <2>1. \A u \in Threads : HclhOwn(u)' \in Hclh!Node
      BY <1>0, <1>9 DEF HclhNodes
    <2>2. \A u, x \in Threads : HclhOwn(u)' = HclhOwn(x)' => u = x
      BY <1>0, <1>9, <1>9a DEF HclhNodes
    <2>3. \A u \in Threads : Queues(u)' => u # t /\ Queues(u) /\ Pred(u)' = Pred(u)
      BY <1>8, <1>10
    <2> QED BY <2>1, <2>2, <2>3, <1>0, <1>1 DEF HclhNodes
  <1>18. HclhFields'
    <2>1. ASSUME NEW u \in Threads
          PROVE  /\ pc'[u] \in {"check", "spin", "test", "tail", "fas", "u_clear"} =>
                      previous[u] = prevOf[thread[u]]
                 /\ pc'[u] \notin {"idle", "u_take"} =>
                      wait'[thread[u]] /\ id[thread[u]] = home[u] /\ prevOf[thread[u]] # NULL
                 /\ pc'[u] = "swap" \/ place[u] > 0 => ~splice[thread[u]]
                 /\ Queues(u)' => id[Pred(u)'] = home[u]
      <3>1. CASE u = t
        BY <3>1, <1>2, <1>5, <1>8
      <3>2. CASE u # t
        <4>1. pc[u] # "u_take" => thread[u] # n
          BY <3>2, <1>11 DEF HclhOwn
        <4>2. thread[u] \in Hclh!Node
          BY <1>0 DEF HclhTypes
        <4> QED BY <3>2, <4>1, <4>2, <1>0, <1>5, <1>8, <1>10 DEF HclhFields
      <3> QED BY <3>1, <3>2
    <2> QED BY <1>0, <1>1, <2>1 DEF HclhFields
  <1>19. HclhLocal'
    <2>0. \A u \in Threads : place[u] > 0 => u # t /\ Queues(u)
      BY <1>2 DEF Queues
    <2>1. ASSUME NEW u \in Threads, place[u] > 1
          PROVE  \E x \in Threads : /\ home[x] = home[u] /\ place[x] = place[u] - 1
                                    /\ Pred(u)' = thread[x]
      <3>1. u # t
        BY <2>1, <1>2
      <3> QED BY <2>1, <3>1, <1>0, <1>10 DEF HclhLocal
    <2>2. ASSUME NEW u \in Threads, place[u] = 1
          PROVE  /\ Spliced(Pred(u))' /\ Starts(Pred(u))'
                 /\ pc'[u] \in {"spin", "test"} => Closed(Pred(u))'
                 /\ pc'[u] = "test" => splice[Pred(u)']
      <3>1. u # t /\ Queues(u)
        BY <2>2, <2>0
      <3>2. Pred(u)' = Pred(u) /\ pc'[u] = pc[u] /\ Pred(u) \in Hclh!Node /\ Pred(u) # p
        BY <3>1, <1>0, <1>2, <1>3, <1>5, <1>10 DEF HclhNodes
      <3>3. /\ Spliced(Pred(u)) /\ Starts(Pred(u))
            /\ pc[u] \in {"spin", "test"} => Closed(Pred(u))
            /\ pc[u] = "test" => splice[Pred(u)]
        BY <2>2, <1>0 DEF HclhLocal
      <3>4. Spliced(Pred(u))'
        <4>1. Spliced(Pred(u)) => \A m : m = Pred(u) => Spliced(m)'
          BY <3>2, <1>14
        <4> QED BY <4>1, <3>2, <3>3
      <3>5. (Closed(Pred(u))' <=> Closed(Pred(u))) /\ (Starts(Pred(u))' <=> Starts(Pred(u)))
        BY <3>2, <1>15
      <3> QED BY <3>2, <3>3, <3>4, <3>5
    <2>3. \A u \in Threads : pc'[u] \in {"tail", "fas"} => u # t /\ pc[u] = pc'[u]
      BY <1>5
    <2>5. ASSUME NEW c \in Clusters
          PROVE  \/ /\ \A u \in Threads : home[u] = c => place[u] = 0
                    /\ Spliced(local[c])' /\ Starts(local[c])'
                 \/ \E w \in Threads : /\ home[w] = c /\ place[w] > 0 /\ local[c] = thread[w]
                                       /\ \A u \in Threads : home[u] = c => place[u] <= place[w]
      <3>1. local[c] # p /\ local[c] \in Hclh!Node /\ local' = local
        BY <1>0, <1>1, <1>2, <1>3 DEF HclhNodes, HclhTypes
      <3>2. Spliced(local[c]) => Spliced(local[c])'
        <4>1. Spliced(local[c]) => \A m : m = local[c] => Spliced(m)'
          BY <3>1, <1>14
        <4> QED BY <4>1, <3>1
      <3>3. Starts(local[c])' <=> Starts(local[c])
        BY <3>1, <1>15
      <3> QED BY <3>2, <3>3, <1>0 DEF HclhLocal
    <2> QED BY <1>0, <1>1, <2>1, <2>2, <2>3, <2>5 DEF HclhLocal
  <1>20. HclhGlobal'
    <2>0. ASSUME NEW u \in Threads, turn'[u] > 0
          PROVE  /\ u # t /\ turn[u] > 1 /\ turn'[u] = turn[u] - 1 /\ pc'[u] = pc[u]
                 /\ Pred(u)' = Pred(u) /\ Queues(u) /\ Pred(u) # p
      <3>1. u # t /\ turn[u] > 1 /\ turn'[u] = turn[u] - 1
        BY <2>0, <1>6, <1>6a
      <3>2. Queues(u)
        BY <3>1, <1>6a DEF Queues
      <3> QED BY <3>1, <3>2, <1>0, <1>2, <1>3, <1>5, <1>10 DEF HclhNodes
    <2>2. \A u \in Threads : pc'[u] \in {"mark", "gspin"} => u # t /\ pc[u] = pc'[u]
      BY <1>5
    <2>2a. \A u \in Threads : pc[u] \in {"mark", "gspin"} => u # t /\ turn[u] > 1
             /\ turn'[u] = turn[u] - 1
      <3>1. \A u \in Threads : pc[u] \in {"mark", "gspin"} => u # t /\ turn[u] > 0
        BY <1>0, <1>1 DEF HclhPlaces, Queues, Member
      <3> QED BY <3>1, <1>6, <1>6a
    <2>3. ASSUME NEW u \in Threads, pc'[u] = "mark"
          PROVE  \E y \in Threads : /\ turn'[y] >= turn'[u] /\ tail[u] = thread[y]
                        /\ \A x \in Threads : turn'[x] = turn'[y] + 1 => pc'[x] \notin Member
      <3>1. PICK y \in Threads : /\ turn[y] >= turn[u] /\ tail[u] = thread[y]
                        /\ \A x \in Threads : turn[x] = turn[y] + 1 => pc[x] \notin Member
        BY <1>0, <2>2, <2>3 DEF HclhGlobal
      <3>2. turn[u] > 1 /\ turn'[u] = turn[u] - 1
        BY <2>2, <2>2a, <2>3
      <3>3. y # t /\ turn'[y] = turn[y] - 1 /\ turn'[y] >= turn'[u] /\ turn[y] > 1
        BY <3>1, <3>2, <1>2, <1>6, <1>6a
      <3>4. ASSUME NEW x \in Threads, turn'[x] = turn'[y] + 1 PROVE pc'[x] \notin Member
        <4>1. x # t /\ turn[x] = turn[y] + 1
          BY <3>3, <3>4, <1>6, <1>6a
        <4> QED BY <4>1, <3>1, <1>5
      <3> QED BY <3>1, <3>3, <3>4
    <2>4. ASSUME NEW u \in Threads, pc'[u] \in {"mark", "gspin"}
          PROVE  \/ turn'[u] = 1 /\ HclhFree(previous[u])'
                 \/ \E x \in Threads : /\ turn'[x] > 0 /\ turn'[x] = turn'[u] - 1
                                       /\ previous[u] = thread[x]
      <3>1. turn[u] > 1 /\ turn'[u] = turn[u] - 1 /\ pc[u] \in {"mark", "gspin"}
        BY <2>2, <2>2a, <2>4
      <3>2. PICK x \in Threads : turn[x] > 0 /\ turn[x] = turn[u] - 1 /\ previous[u] = thread[x]
        BY <3>1, <1>0 DEF HclhGlobal
      <3>3. CASE x = t
        <4>1. turn'[u] = 1 /\ previous'[u] = n
          BY <3>1, <3>2, <3>3, <1>0a, <1>1, <1>2
        <4> QED BY <4>1, <1>13
      <3>4. CASE x # t
        <4>1. turn'[x] > 0 /\ turn'[x] = turn'[u] - 1
          BY <3>1, <3>2, <3>4, <1>6, <1>6a
        <4> QED BY <4>1, <3>2
      <3> QED BY <3>3, <3>4
    <2>5. ASSUME NEW u \in Threads, turn'[u] > 0, pc'[u] \in Member
          PROVE  /\ ~splice[Pred(u)'] /\ prevOf[Pred(u)'] # NULL
                 /\ turn'[u] > 1 => \E x \in Threads : turn'[x] = turn'[u] - 1
                      /\ Pred(u)' = thread[x]
      <3>0. /\ u # t /\ turn[u] > 1 /\ turn[u] > 0 /\ turn'[u] = turn[u] - 1 /\ pc[u] \in Member
            /\ Pred(u)' = Pred(u)
        BY <2>0, <2>5, <1>6a
      <3>1. ~splice[Pred(u)] /\ prevOf[Pred(u)] # NULL
        BY <3>0, <1>0 DEF HclhGlobal
      <3>2. PICK x \in Threads : turn[x] = turn[u] - 1 /\ Pred(u) = thread[x]
        BY <3>0, <1>0 DEF HclhGlobal
      <3>3. turn'[u] > 1 => turn'[x] = turn'[u] - 1
        BY <3>0, <3>2, <1>2, <1>6, <1>6a
      <3> QED BY <3>0, <3>1, <3>2, <3>3
    <2>6. ASSUME NEW u \in Threads, turn'[u] > 0
          PROVE  \/ HclhFree(Pred(u))'
                 \/ \E x \in Threads : turn'[x] > 0 /\ turn'[x] < turn'[u] /\ Pred(u)' = thread[x]
      <3>0. /\ u # t /\ turn[u] > 0 /\ turn'[u] = turn[u] - 1
            /\ Pred(u)' = Pred(u) /\ Pred(u) # p
        BY <2>0, <2>6, <1>6a
      <3>1. CASE HclhFree(Pred(u))
        <4>1. \A m : m = Pred(u) => HclhFree(m)'
          BY <3>0, <3>1, <1>12
        <4> QED BY <4>1, <3>0
      <3>2. ASSUME NEW x \in Threads, turn[x] > 0, turn[x] < turn[u], Pred(u) = thread[x]
            PROVE  \/ HclhFree(Pred(u))'
                   \/ turn'[x] > 0 /\ turn'[x] < turn'[u] /\ Pred(u)' = thread[x]
        <4>1. CASE x = t
          BY <3>0, <3>2, <4>1, <1>0a, <1>13
        <4>2. CASE x # t
          BY <3>0, <3>2, <4>2, <1>6, <1>6a
        <4> QED BY <4>1, <4>2
      <3> QED BY <3>0, <3>1, <3>2, <1>0 DEF HclhGlobal
    <2>7. \/ HclhFree(glob)' /\ \A u \in Threads : turn'[u] = 0
          \/ \E w \in Threads : /\ turn'[w] > 0 /\ glob = thread[w]
                                /\ \A u \in Threads : turn'[u] <= turn'[w]
      <3>1. PICK w \in Threads : /\ turn[w] > 0 /\ glob = thread[w]
                                 /\ \A u \in Threads : turn[u] <= turn[w]
        BY <1>0, <1>2 DEF HclhGlobal
      <3>2. CASE w = t
        <4>1. \A u \in Threads : turn'[u] = 0
          BY <3>1, <3>2, <1>2, <1>6, <1>6a
        <4>2. glob' = n
          BY <3>1, <3>2, <1>0a, <1>1
        <4> QED BY <4>1, <4>2, <1>13
      <3>3. CASE w # t
        <4>1. turn'[w] > 0 /\ \A u \in Threads : turn'[u] <= turn'[w]
          BY <3>1, <3>3, <1>6, <1>6a
        <4> QED BY <3>1, <4>1
      <3> QED BY <3>2, <3>3
    <2> QED BY <1>1, <2>3, <2>4, <2>5, <2>6, <2>7 DEF HclhGlobal
  <1> QED BY <1>7, <1>16, <1>17, <1>18, <1>19, <1>20 DEF HclhChain

\* The end of the global queue.
LEMMA HclhLastTurn ==
  ASSUME HclhChain
  PROVE  /\ Hclh!LastTurn \in Nat
         /\ \A u \in Threads : turn[u] <= Hclh!LastTurn
         /\ \/ Hclh!LastTurn = 0 /\ HclhFree(glob)
            \/ \E w \in Threads : turn[w] = Hclh!LastTurn /\ turn[w] > 0 /\ glob = thread[w]
  <1> DEFINE S == {0} \cup {turn[s] : s \in Threads}
  <1>0. HclhTypes /\ HclhGlobal
    BY DEF HclhChain
  <1>1. S \subseteq Nat
    BY <1>0 DEF HclhTypes
  <1>2. CASE HclhFree(glob) /\ \A u \in Threads : turn[u] = 0
    <2>1. Hclh!Max(S) = 0
      BY <1>1, <1>2, HclhMax
    <2> QED BY <2>1, <1>2 DEF Hclh!LastTurn
  <1>3. ASSUME NEW w \in Threads, turn[w] > 0, glob = thread[w],
               \A u \in Threads : turn[u] <= turn[w]
        PROVE  Hclh!LastTurn = turn[w] /\ turn[w] \in Nat
    <2>1. turn[w] \in S /\ turn[w] \in Nat
      BY <1>0, <1>3 DEF HclhTypes
    <2>2. \A x \in S : x <= turn[w]
      BY <1>3, <2>1
    <2>3. Hclh!Max(S) = turn[w]
      BY <1>1, <2>1, <2>2, HclhMax
    <2> QED BY <2>1, <2>3 DEF Hclh!LastTurn
  <1> QED BY <1>0, <1>2, <1>3 DEF HclhGlobal

\* The batch ends with the thread whose node the leader read.
LEMMA HclhBatch ==
  ASSUME HclhChain, NEW t \in Threads, NEW w \in Threads, place[w] > 0, tail[t] = thread[w]
  PROVE  Hclh!Batch(t) = place[w]
  <1> DEFINE S == {0} \cup {place[s] : s \in {u \in Threads : thread[u] = tail[t]}}
  <1>0. HclhTypes /\ HclhNodes
    BY DEF HclhChain
  <1>1. S \subseteq Nat /\ place[w] \in S /\ place[w] \in Nat
    BY <1>0 DEF HclhTypes
  <1>2. ASSUME NEW u \in Threads, thread[u] = tail[t] PROVE place[u] <= place[w]
    <2>1. place[u] \in Nat
      BY <1>0 DEF HclhTypes
    <2>2. CASE place[u] > 0
      <3>1. HclhOwn(u) = thread[u] /\ HclhOwn(w) = thread[w]
        BY <2>2, HclhQueued DEF Queues
      <3>2. u = w
        BY <3>1, <1>2, <1>0 DEF HclhNodes
      <3> QED BY <3>2, <1>1
    <2> QED BY <2>1, <2>2, <1>1
  <1>3. \A x \in S : x <= place[w]
    BY <1>1, <1>2
  <1>4. Hclh!Max(S) = place[w]
    BY <1>1, <1>3, HclhMax
  <1> QED BY <1>4 DEF Hclh!Batch

\* The leader of a batch joins all of it to the global queue.
LEMMA HclhSwapGlobal ==
  ASSUME HclhChain, NEW t \in Threads, Hclh!SwapGlobal(t)
  PROVE  HclhChain'
  <1>0. HclhTypes /\ HclhPlaces /\ HclhNodes /\ HclhFields /\ HclhLocal /\ HclhGlobal
    BY DEF HclhChain
  <1>0a. PICK c0 \in Clusters : c0 = home[t]
    BY <1>0 DEF HclhTypes
  <1>0b. PICK T \in Nat : T = Hclh!LastTurn
    BY HclhLastTurn
  <1>0c. pc[t] = "fas" /\ place[t] = 1 /\ turn[t] = 0
    BY <1>0 DEF Hclh!SwapGlobal, Hclh!Goto, HclhLocal, HclhPlaces
  <1>0d. PICK w \in Threads : home[w] = c0 /\ place[w] > 0 /\ tail[t] = thread[w]
    BY <1>0, <1>0a, <1>0c DEF HclhLocal
  <1>0e. PICK B \in Nat : B = place[w] /\ B = Hclh!Batch(t) /\ B > 0
    BY <1>0, <1>0d, HclhBatch DEF HclhTypes
  <1>1. /\ pc' = [pc EXCEPT ![t] = "mark"] /\ previous' = [previous EXCEPT ![t] = glob]
        /\ glob' = thread[w]
        /\ turn' = [s \in Threads |->
             IF home[s] = c0 /\ place[s] \in 1 .. B THEN T + place[s] ELSE turn[s]]
        /\ place' = [s \in Threads |->
             IF home[s] # c0 THEN place[s] ELSE IF place[s] > B THEN place[s] - B ELSE 0]
        /\ UNCHANGED <<home, local, wait, splice, id, prevOf, thread, tail>>
    BY <1>0a, <1>0b, <1>0d, <1>0e DEF Hclh!SwapGlobal, Hclh!Goto, Hclh!fields
  <1>2. /\ pc'[t] = "mark" /\ previous'[t] = glob
        /\ \A u \in Threads : u # t => pc'[u] = pc[u] /\ previous'[u] = previous[u]
    BY <1>0, <1>1 DEF HclhTypes
  <1>3. \A s \in Threads : place[s] \in Nat /\ turn[s] \in Nat /\ turn[s] <= T
    BY <1>0, <1>0b, HclhLastTurn DEF HclhTypes
  <1>4. ASSUME NEW s \in Threads
        PROVE  \/ /\ home[s] = c0 /\ place[s] > 0 /\ place[s] <= B
                  /\ place'[s] = 0 /\ turn[s] = 0 /\ turn'[s] = T + place[s]
               \/ /\ home[s] = c0 /\ place[s] > B
                  /\ place'[s] = place[s] - B /\ turn[s] = 0 /\ turn'[s] = 0
               \/ /\ home[s] # c0 \/ place[s] = 0
                  /\ place'[s] = place[s] /\ turn'[s] = turn[s]
    <2>1. place[s] > 0 => turn[s] = 0
      BY <1>0 DEF HclhPlaces
    <2>2. /\ turn'[s] = IF home[s] = c0 /\ place[s] \in 1 .. B THEN T + place[s] ELSE turn[s]
          /\ place'[s] = IF home[s] # c0 THEN place[s]
                         ELSE IF place[s] > B THEN place[s] - B ELSE 0
      BY <1>1
    <2> QED BY <2>1, <2>2, <1>3, <1>0e
  \* The threads of the batch, those of the cluster behind it, and the others.
  <1>5. \A s \in Threads : /\ place'[s] \in Nat /\ turn'[s] \in Nat /\ turn'[s] <= T + B
                           /\ place'[s] > 0 => place[s] > 0
                           /\ place'[s] > 1 => place[s] > 1
                           /\ turn[s] > 0 => turn'[s] = turn[s]
    BY <1>0e, <1>3, <1>4
  <1>5a. turn'[t] = T + 1 /\ place'[t] = 0 /\ turn'[w] = T + B /\ place'[w] = 0
    <2>1. turn'[t] = T + 1 /\ place'[t] = 0
      <3>1. home[t] = c0 /\ place[t] = 1 /\ 1 <= B /\ ~(1 > B)
        BY <1>0a, <1>0c, <1>0e
      <3> QED BY <3>1, <1>4
    <2>2. turn'[w] = T + B /\ place'[w] = 0
      <3>1. home[w] = c0 /\ place[w] = B /\ ~(B > B) /\ B # 0
        BY <1>0d, <1>0e
      <3> QED BY <3>1, <1>4
    <2> QED BY <2>1, <2>2
  <1>5b. \A s \in Threads : home[s] = c0 /\ place[s] = 1 => s = t
    BY <1>0, <1>0a, <1>0c DEF HclhPlaces
  <1>6. HclhTypes'
    <2>1. pc' \in [Threads -> HclhLabels]
      BY <1>0, <1>1 DEF HclhTypes, HclhLabels
    <2>2. previous' \in [Threads -> Hclh!Node \cup {NULL}]
      BY <1>0, <1>1 DEF HclhTypes
    <2>3. glob' \in Hclh!Node
      BY <1>0, <1>1 DEF HclhTypes
    <2>4. turn' \in [Threads -> Nat]
      BY <1>1, <1>5
    <2>5. place' \in [Threads -> Nat]
      BY <1>1, <1>5
    <2> QED BY <1>0, <1>1, <2>1, <2>2, <2>3, <2>4, <2>5 DEF HclhTypes
  <1>7. \A u \in Threads : Queues(u)' <=> Queues(u)
    BY <1>0e, <1>3, <1>4 DEF Queues
  <1>8. \A u \in Threads : HclhOwn(u)' = HclhOwn(u) /\ Pred(u)' = Pred(u)
    BY <1>0c, <1>1, <1>2 DEF HclhOwn, Pred
  <1>9. \A m : HclhFree(m)' <=> HclhFree(m)
    BY <1>8 DEF HclhFree
  <1>10. \A m : Spliced(m) => Spliced(m)'
    BY <1>1, <1>5, <1>9 DEF Spliced
  <1>11. \A m : (Closed(m) => Closed(m)') /\ (Starts(m) => Starts(m)')
    <2>1. \A v \in Threads : pc[v] = "mark" => pc'[v] = "mark"
      BY <1>2
    <2> QED BY <2>1, <1>1 DEF Closed, Starts
  <1>12. Spliced(thread[w])' /\ Closed(thread[w])' /\ Starts(thread[w])'
    <2>1. turn'[w] > 0
      BY <1>0e, <1>5a
    <2>2. wait[thread[w]]
      BY <1>0d, HclhQueued DEF Queues
    <2> QED BY <2>1, <2>2, <1>0d, <1>1, <1>2 DEF Spliced, Closed, Starts
  <1>14. HclhPlaces'
    <2>1. ASSUME NEW u \in Threads
          PROVE  /\ pc'[u] \in {"idle", "swap", "u_take"} <=> ~Queues(u)'
                 /\ place'[u] > 0 => turn'[u] = 0
                 /\ place'[u] > 0 => pc'[u] \in Member \cup {"tail", "fas"}
                 /\ place'[u] > 1 => pc'[u] \in Member \ {"test"}
                 /\ turn'[u] > 0 => pc'[u] \in Member \cup {"mark", "gspin", "cs", "u_clear"}
                 /\ turn'[u] > 1 => pc'[u] \in (Member \ {"test"}) \cup {"mark", "gspin"}
      <3>1. CASE u = t
        <4>1. Queues(u)'
          BY <3>1, <1>0c, <1>7 DEF Queues
        <4> QED BY <3>1, <4>1, <1>2, <1>5a
      <3>2. CASE u # t
        <4>1. /\ pc[u] \in {"idle", "swap", "u_take"} <=> ~Queues(u)
              /\ place[u] > 0 => turn[u] = 0
              /\ place[u] > 0 => pc[u] \in Member \cup {"tail", "fas"}
              /\ place[u] > 1 => pc[u] \in Member \ {"test"}
              /\ turn[u] > 0 => pc[u] \in Member \cup {"mark", "gspin", "cs", "u_clear"}
              /\ turn[u] > 1 => pc[u] \in (Member \ {"test"}) \cup {"mark", "gspin"}
          BY <1>0 DEF HclhPlaces
        <4>2. place'[u] > 0 => turn'[u] = 0
          BY <4>1, <1>3, <1>4
        <4>3. turn'[u] > 0 => turn[u] = turn'[u] \/ place[u] > 1
          BY <3>2, <1>3, <1>4, <1>5b
        <4>4. turn'[u] > 0 /\ place[u] > 1 => pc[u] \in Member \ {"test"}
          BY <4>1
        <4>4a. turn'[u] > 1 => turn'[u] > 0
          BY <1>5
        <4>5. pc'[u] = pc[u] /\ (Queues(u)' <=> Queues(u))
          BY <3>2, <1>2, <1>7
        <4>6. /\ turn'[u] > 0 => pc'[u] \in Member \cup {"mark", "gspin", "cs", "u_clear"}
              /\ turn'[u] > 1 => pc'[u] \in (Member \ {"test"}) \cup {"mark", "gspin"}
          BY <4>1, <4>3, <4>4, <4>4a, <4>5
        <4> QED BY <4>1, <4>2, <4>5, <4>6, <1>5
      <3> QED BY <3>1, <3>2
    <2>2. ASSUME NEW u \in Threads, NEW x \in Threads, turn'[u] > 0, turn'[u] = turn'[x]
          PROVE  u = x
      <3>1. \/ turn[u] > 0 /\ turn[u] = turn[x]
            \/ place[u] > 0 /\ home[u] = home[x] /\ place[u] = place[x]
        <4>1. turn'[u] > T => home[u] = c0 /\ place[u] > 0 /\ turn'[u] = T + place[u]
          BY <1>3, <1>4
        <4>2. turn'[x] > T => home[x] = c0 /\ place[x] > 0 /\ turn'[x] = T + place[x]
          BY <1>3, <1>4
        <4>3. ~(turn'[u] > T) => turn'[u] = turn[u]
          BY <2>2, <1>3, <1>4
        <4>4. ~(turn'[x] > T) => turn'[x] = turn[x]
          BY <2>2, <1>3, <1>4
        <4> QED BY <2>2, <4>1, <4>2, <4>3, <4>4, <1>3
      <3> QED BY <3>1, <1>0 DEF HclhPlaces
    <2>3. ASSUME NEW u \in Threads, NEW x \in Threads, place'[u] > 0, place'[u] = place'[x],
                 home[u] = home[x]
          PROVE  u = x
      <3>1. place[u] > 0 /\ place[u] = place[x]
        BY <2>3, <1>3, <1>4
      <3> QED BY <2>3, <3>1, <1>0 DEF HclhPlaces
    <2> QED BY <2>1, <2>2, <2>3, <1>1 DEF HclhPlaces
  <1>15. HclhNodes'
    BY <1>0, <1>1, <1>7, <1>8 DEF HclhNodes
  <1>16. HclhFields'
    <2>1. ASSUME NEW u \in Threads
          PROVE  /\ pc'[u] \in {"check", "spin", "test", "tail", "fas", "u_clear"} =>
                      previous'[u] = prevOf[thread[u]]
                 /\ pc'[u] \notin {"idle", "u_take"} =>
                      wait[thread[u]] /\ id[thread[u]] = home[u] /\ prevOf[thread[u]] # NULL
                 /\ pc'[u] = "swap" \/ place'[u] > 0 => ~splice[thread[u]]
      <3>1. CASE u = t
        BY <3>1, <1>0, <1>0c, <1>2, <1>5 DEF HclhFields
      <3>2. CASE u # t
        BY <3>2, <1>0, <1>2, <1>5 DEF HclhFields
      <3> QED BY <3>1, <3>2
    <2> QED BY <1>0, <1>1, <1>7, <1>8, <2>1 DEF HclhFields
  <1>17. HclhLocal'
    <2>1. ASSUME NEW u \in Threads, place'[u] > 1
          PROVE  \E x \in Threads : /\ home[x] = home[u] /\ place'[x] = place'[u] - 1
                                    /\ Pred(u)' = thread[x]
      <3>1. place[u] > 1
        BY <2>1, <1>5
      <3>2. PICK x \in Threads : home[x] = home[u] /\ place[x] = place[u] - 1 /\ Pred(u) = thread[x]
        BY <3>1, <1>0 DEF HclhLocal
      <3>3. place'[x] = place'[u] - 1
        BY <2>1, <3>1, <3>2, <1>3, <1>4, <1>0e
      <3> QED BY <3>2, <3>3, <1>8
    <2>2. ASSUME NEW u \in Threads, place'[u] = 1
          PROVE  /\ Spliced(Pred(u))' /\ Starts(Pred(u))'
                 /\ pc'[u] \in {"spin", "test"} => Closed(Pred(u))'
                 /\ pc'[u] = "test" => splice[Pred(u)']
      <3>0. u # t /\ pc'[u] = pc[u] /\ Pred(u)' = Pred(u)
        BY <2>2, <1>2, <1>5a, <1>8
      <3>1. CASE home[u] = c0
        <4>1. place[u] = B + 1
          BY <2>2, <3>1, <1>3, <1>4, <1>0e
        <4>2. PICK x \in Threads : home[x] = home[u] /\ place[x] = place[u] - 1
                     /\ Pred(u) = thread[x]
          BY <4>1, <1>0, <1>0e DEF HclhLocal
        <4>3. x = w
          <5>1. place[x] = place[w] /\ home[x] = home[w] /\ place[w] > 0
            BY <3>1, <4>1, <4>2, <1>0d, <1>0e
          <5> QED BY <5>1, <1>0 DEF HclhPlaces
        <4>4. pc[u] # "test"
          BY <4>1, <1>0, <1>0e DEF HclhPlaces
        <4>5. Pred(u)' = thread[w] /\ thread[w] = thread'[w]
          BY <3>0, <4>2, <4>3, <1>1
        <4> QED BY <3>0, <4>4, <4>5, <1>12
      <3>2. CASE home[u] # c0
        <4>1. place[u] = 1
          BY <2>2, <3>2, <1>4
        <4>2. /\ Spliced(Pred(u)) /\ Starts(Pred(u))
              /\ pc[u] \in {"spin", "test"} => Closed(Pred(u))
              /\ pc[u] = "test" => splice[Pred(u)]
          BY <4>1, <1>0 DEF HclhLocal
        <4> QED BY <3>0, <4>2, <1>10, <1>11
      <3> QED BY <3>1, <3>2
    <2>3. ASSUME NEW u \in Threads, pc'[u] \in {"tail", "fas"}
          PROVE  place'[u] = 1 /\ home[u] # c0 /\ pc[u] = pc'[u]
      <3>1. u # t /\ pc[u] = pc'[u]
        BY <2>3, <1>2
      <3>2. place[u] = 1
        BY <2>3, <3>1, <1>0 DEF HclhLocal
      <3>3. home[u] # c0
        BY <3>1, <3>2, <1>5b
      <3> QED BY <3>1, <3>2, <3>3, <1>4
    <2>4. ASSUME NEW u \in Threads, pc'[u] = "fas"
          PROVE  \E x \in Threads : home[x] = home[u] /\ place'[x] > 0 /\ tail[u] = thread[x]
      <3>1. pc[u] = "fas" /\ home[u] # c0
        BY <2>3, <2>4
      <3>2. PICK x \in Threads : home[x] = home[u] /\ place[x] > 0 /\ tail[u] = thread[x]
        BY <3>1, <1>0 DEF HclhLocal
      <3>3. place'[x] = place[x]
        BY <3>1, <3>2, <1>4
      <3> QED BY <3>2, <3>3
    <2>5. ASSUME NEW c \in Clusters
          PROVE  \/ /\ \A u \in Threads : home[u] = c => place'[u] = 0
                    /\ Spliced(local[c])' /\ Starts(local[c])'
                 \/ \E x \in Threads : /\ home[x] = c /\ place'[x] > 0 /\ local[c] = thread[x]
                                       /\ \A u \in Threads : home[u] = c => place'[u] <= place'[x]
      <3>1. CASE c = c0
        <4>1. PICK z \in Threads : /\ home[z] = c0 /\ place[z] > 0 /\ local[c0] = thread[z]
                                   /\ \A u \in Threads : home[u] = c0 => place[u] <= place[z]
          BY <1>0, <1>0a, <1>0c DEF HclhLocal
        <4>2. CASE place[z] > B
          <5>1. place'[z] = place[z] - B
            BY <4>1, <4>2, <1>3, <1>4, <1>0e
          <5>2. \A u \in Threads : home[u] = c0 => place'[u] <= place'[z]
            BY <4>1, <4>2, <5>1, <1>3, <1>4, <1>0e
          <5>3. place'[z] > 0
            BY <4>2, <5>1, <1>3, <1>0e
          <5> QED BY <3>1, <4>1, <5>2, <5>3
        <4>3. CASE ~(place[z] > B)
          <5>1. \A u \in Threads : home[u] = c0 => place'[u] = 0
            BY <4>1, <4>3, <1>3, <1>4, <1>0e
          <5>2. place[z] = place[w]
            <6>1. place[w] <= place[z] /\ place[w] \in Nat /\ place[z] \in Nat
              BY <4>1, <1>0d, <1>3
            <6> QED BY <6>1, <4>3, <1>0e
          <5>3. z = w
            BY <4>1, <5>2, <1>0, <1>0d DEF HclhPlaces
          <5>4. local'[c0] = thread'[w]
            BY <4>1, <5>3, <1>1
          <5> QED BY <3>1, <5>1, <5>4, <1>12
        <4> QED BY <4>2, <4>3
      <3>2. CASE c # c0
        <4>1. local' = local /\ \A u \in Threads : home[u] = c => place'[u] = place[u]
          BY <3>2, <1>1, <1>4
        <4>2. (Spliced(local[c]) => Spliced(local[c])') /\ (Starts(local[c]) => Starts(local[c])')
          BY <4>1, <1>10, <1>11
        <4> QED BY <4>1, <4>2, <1>0 DEF HclhLocal
      <3> QED BY <3>1, <3>2
    <2> QED BY <1>1, <2>1, <2>2, <2>3, <2>4, <2>5 DEF HclhLocal
  <1>18. HclhGlobal'
    <2>1. ASSUME NEW u \in Threads, turn'[u] > 0, ~(turn[u] > 0)
          PROVE  home[u] = c0 /\ place[u] > 0 /\ place[u] <= B /\ turn'[u] = T + place[u]
      BY <2>1, <1>3, <1>4
    <2>1a. ASSUME NEW u \in Threads, turn'[u] > 0, ~(turn[u] > 0), u # t
           PROVE  /\ place[u] > 1
                  /\ \E x \in Threads : /\ place[x] > 0 /\ turn'[x] = turn'[u] - 1 /\ turn'[x] > 0
                                        /\ Pred(u) = thread[x]
      <3>1. home[u] = c0 /\ place[u] > 1 /\ place[u] <= B /\ turn'[u] = T + place[u]
        BY <2>1, <2>1a, <1>3, <1>5b
      <3>2. PICK x \in Threads : home[x] = home[u] /\ place[x] = place[u] - 1 /\ Pred(u) = thread[x]
        BY <3>1, <1>0 DEF HclhLocal
      <3>3. place[x] > 0 /\ turn'[x] = turn'[u] - 1 /\ turn'[x] > 0
        BY <3>1, <3>2, <1>3, <1>4, <1>0e
      <3> QED BY <3>1, <3>2, <3>3
    <2>2. \A u \in Threads : pc'[u] \in {"mark", "gspin"} /\ u # t =>
             pc[u] = pc'[u] /\ previous'[u] = previous[u] /\ turn[u] > 0 /\ turn'[u] = turn[u]
      BY <1>0, <1>2, <1>5 DEF HclhPlaces, Queues, Member
    <2>3. ASSUME NEW u \in Threads, pc'[u] = "mark"
          PROVE  \E y \in Threads : /\ turn'[y] >= turn'[u] /\ tail[u] = thread[y]
                        /\ \A x \in Threads : turn'[x] = turn'[y] + 1 => pc'[x] \notin Member
      <3>1. CASE u = t
        <4>1. turn'[w] >= turn'[t] /\ \A x \in Threads : turn'[x] # turn'[w] + 1
          BY <1>0e, <1>5, <1>5a
        <4> QED BY <3>1, <4>1, <1>0d
      <3>2. CASE u # t
        <4>1. PICK y \in Threads : /\ turn[y] >= turn[u] /\ tail[u] = thread[y]
                          /\ \A x \in Threads : turn[x] = turn[y] + 1 => pc[x] \notin Member
          BY <1>0, <2>2, <2>3, <3>2 DEF HclhGlobal
        <4>2. turn[u] > 0 /\ turn'[u] = turn[u]
          BY <2>2, <2>3, <3>2
        <4>3. turn[y] > 0 /\ turn'[y] = turn[y]
          BY <4>1, <4>2, <1>3, <1>5
        <4>4. ASSUME NEW x \in Threads, turn'[x] = turn'[y] + 1 PROVE pc'[x] \notin Member
          <5>1. CASE turn[x] > 0
            <6>1. x # t /\ turn[x] = turn[y] + 1
              BY <4>3, <4>4, <5>1, <1>0c, <1>5
            <6> QED BY <6>1, <4>1, <1>2
          <5>2. CASE ~(turn[x] > 0)
            <6>1. turn'[x] > 0
              BY <4>3, <4>4, <1>3
            <6>2. home[x] = c0 /\ place[x] > 0 /\ turn'[x] = T + place[x]
              BY <2>1, <5>2, <6>1
            <6>3. place[x] = 1
              BY <6>2, <4>3, <4>4, <1>3
            <6>4. x = t
              BY <6>2, <6>3, <1>5b
            <6> QED BY <6>4, <1>2 DEF Member
          <5> QED BY <5>1, <5>2
        <4> QED BY <4>1, <4>2, <4>3, <4>4
      <3> QED BY <3>1, <3>2
    <2>4. ASSUME NEW u \in Threads, pc'[u] \in {"mark", "gspin"}
          PROVE  \/ turn'[u] = 1 /\ HclhFree(previous[u])'
                 \/ \E x \in Threads : /\ turn'[x] > 0 /\ turn'[x] = turn'[u] - 1
                                       /\ previous'[u] = thread[x]
      <3>1. CASE u = t
        <4>1. \/ T = 0 /\ HclhFree(glob)
              \/ \E x \in Threads : turn[x] = T /\ turn[x] > 0 /\ glob = thread[x]
          BY <1>0b, HclhLastTurn
        <4>2. CASE T = 0 /\ HclhFree(glob)
          <5>1. previous'[t] = glob /\ turn'[t] = 1
            BY <4>2, <1>2, <1>5a
          <5> QED BY <3>1, <4>2, <5>1, <1>9
        <4>3. ASSUME NEW x \in Threads, turn[x] = T, turn[x] > 0, glob = thread[x]
              PROVE  turn'[x] > 0 /\ turn'[x] = turn'[t] - 1 /\ previous'[t] = thread[x]
          BY <4>3, <1>2, <1>5, <1>5a
        <4> QED BY <3>1, <4>1, <4>2, <4>3
      <3>2. CASE u # t
        <4>0. /\ pc[u] \in {"mark", "gspin"} /\ previous'[u] = previous[u] /\ turn'[u] = turn[u]
          BY <2>2, <2>4, <3>2
        <4>1. \/ turn[u] = 1 /\ HclhFree(previous[u])
              \/ \E x \in Threads : /\ turn[x] > 0 /\ turn[x] = turn[u] - 1
                                    /\ previous[u] = thread[x]
          BY <4>0, <1>0 DEF HclhGlobal
        <4>2. HclhFree(previous[u]) => HclhFree(previous[u])'
          BY <4>0, <1>9
        <4> QED BY <4>0, <4>1, <4>2, <1>5
      <3> QED BY <3>1, <3>2
    <2>5. ASSUME NEW u \in Threads, turn'[u] > 0, pc'[u] \in Member
          PROVE  /\ ~splice[Pred(u)] /\ prevOf[Pred(u)] # NULL
                 /\ turn'[u] > 1 => \E x \in Threads : turn'[x] = turn'[u] - 1
                      /\ Pred(u) = thread[x]
      <3>0. u # t /\ pc[u] \in Member
        BY <2>5, <1>2 DEF Member
      <3>1. CASE turn[u] > 0
        <4>1. /\ ~splice[Pred(u)] /\ prevOf[Pred(u)] # NULL /\ turn'[u] = turn[u]
              /\ turn[u] > 1 => \E x \in Threads : turn[x] = turn[u] - 1 /\ Pred(u) = thread[x]
          BY <3>0, <3>1, <1>0, <1>5 DEF HclhGlobal
        <4>2. \A x \in Threads : turn[u] > 1 /\ turn[x] = turn[u] - 1 => turn'[x] = turn[x]
          BY <1>3, <1>5
        <4> QED BY <4>1, <4>2
      <3>2. CASE ~(turn[u] > 0)
        <4>1. PICK x \in Threads : place[x] > 0 /\ turn'[x] = turn'[u] - 1 /\ Pred(u) = thread[x]
          BY <2>1a, <2>5, <3>0, <3>2
        <4>2. ~splice[thread[x]] /\ prevOf[thread[x]] # NULL
          BY <4>1, <1>0, HclhQueued DEF HclhFields, Queues
        <4> QED BY <4>1, <4>2
      <3> QED BY <3>1, <3>2
    <2>6. ASSUME NEW u \in Threads, turn'[u] > 0
          PROVE  \/ HclhFree(Pred(u))'
                 \/ \E x \in Threads : turn'[x] > 0 /\ turn'[x] < turn'[u] /\ Pred(u) = thread[x]
      <3>0. HclhFree(Pred(u)) => HclhFree(Pred(u))'
        BY <1>8, <1>9
      <3>1. CASE turn[u] > 0
        BY <3>0, <3>1, <1>0, <1>5 DEF HclhGlobal
      <3>2. CASE u = t
        <4>1. Spliced(Pred(t))
          BY <1>0, <1>0c DEF HclhLocal
        <4>2. \A x \in Threads : turn[x] > 0 => turn'[x] > 0 /\ turn'[x] < turn'[t]
          BY <1>3, <1>5, <1>5a
        <4> QED BY <3>0, <3>2, <4>1, <4>2 DEF Spliced
      <3>3. CASE ~(turn[u] > 0) /\ u # t
        <4>1. PICK x \in Threads : turn'[x] = turn'[u] - 1 /\ turn'[x] > 0 /\ Pred(u) = thread[x]
          BY <2>1a, <2>6, <3>3
        <4>2. turn'[x] < turn'[u]
          BY <4>1, <1>5
        <4> QED BY <4>1, <4>2
      <3> QED BY <3>1, <3>2, <3>3
    <2>7. turn'[w] > 0 /\ \A u \in Threads : turn'[u] <= turn'[w]
      BY <1>0e, <1>5, <1>5a
    <2> QED BY <1>1, <1>8, <2>3, <2>4, <2>5, <2>6, <2>7 DEF HclhGlobal
  <1> QED BY <1>6, <1>14, <1>15, <1>16, <1>17, <1>18 DEF HclhChain

\* Nodes change hands when the lock is released, and only then.
LEMMA HclhOwnStays ==
  ASSUME HclhChain, NEW t \in Threads, Hclh!Step(t), pc[t] # "u_clear"
  PROVE  \A u \in Threads : HclhOwn(u)' = HclhOwn(u)
  <1>0. HclhTypes
    BY DEF HclhChain
  <1> USE DEF Hclh!Goto, Hclh!fields, HclhOwn, HclhTypes
  <1>1. CASE Hclh!Prepare(t)
    BY <1>0, <1>1 DEF Hclh!Prepare
  <1>2. CASE Hclh!Swap(t)
    BY <1>0, <1>2 DEF Hclh!Swap
  <1>3. CASE Hclh!StorePrevious(t)
    BY <1>0, <1>3 DEF Hclh!StorePrevious
  <1>4. CASE Hclh!Check(t)
    BY <1>0, <1>4 DEF Hclh!Check
  <1>5. CASE Hclh!Spin(t)
    BY <1>0, <1>5 DEF Hclh!Spin
  <1>6. CASE Hclh!Test(t)
    BY <1>0, <1>6 DEF Hclh!Test
  <1>7. CASE Hclh!LoadTail(t)
    BY <1>0, <1>7 DEF Hclh!LoadTail
  <1>8. CASE Hclh!SwapGlobal(t)
    BY <1>0, <1>8 DEF Hclh!SwapGlobal
  <1>9. CASE Hclh!MarkSplice(t)
    BY <1>0, <1>9 DEF Hclh!MarkSplice
  <1>10. CASE Hclh!SpinGlobal(t)
    BY <1>0, <1>10 DEF Hclh!SpinGlobal
  <1>11. CASE Hclh!UnlockLoad(t)
    BY <1>0, <1>11 DEF Hclh!UnlockLoad
  <1>12. CASE Hclh!UnlockTake(t)
    BY <1>0, <1>12 DEF Hclh!UnlockTake
  <1>13. CASE Hclh!UnlockClear(t)
    BY <1>13 DEF Hclh!UnlockClear
  <1> QED BY <1>1, <1>2, <1>3, <1>4, <1>5, <1>6, <1>7, <1>8, <1>9, <1>10, <1>11, <1>12, <1>13
          DEF Hclh!Step

\* A thread that holds the lock is the first of the global queue.
LEMMA HclhHolder ==
  ASSUME HclhChain, NEW t \in Threads, pc[t] \in {"cs", "u_clear"}
  PROVE  turn[t] = 1
  <1>1. Queues(t) /\ ~(place[t] > 0) /\ ~(turn[t] > 1)
    BY DEF HclhChain, HclhPlaces, Member
  <1>2. place[t] \in Nat /\ turn[t] \in Nat
    BY DEF HclhChain, HclhTypes
  <1> QED BY <1>1, <1>2 DEF Queues

\* Every step of ck_spinlock_hclh preserves the invariant.
LEMMA HclhStep ==
  ASSUME HclhInv, lock = "hclh", NEW t \in Threads, Hclh!Step(t)
  PROVE  HclhInv'
  <1>0. HclhChain /\ HclhTypes /\ HclhGlobal
    BY DEF HclhInv, HclhChain
  <1>1. HclhChain'
    BY <1>0, HclhPrepare, HclhSwap, HclhStorePrevious, HclhCheck, HclhSpin, HclhTest, HclhLoadTail,
       HclhSwapGlobal, HclhMarkSplice, HclhSpinGlobal, HclhUnlockLoad, HclhUnlockClear,
       HclhUnlockTake DEF Hclh!Step
  <1>2. ASSUME NEW u \in Threads, pc'[u] = "cs" PROVE HclhFree(previous[u])'
    <2>1. CASE u # t
      <3>1. pc[u] = "cs" /\ previous'[u] = previous[u]
        BY <2>1, <1>0, <1>2 DEF HclhTypes, Hclh!Step, Hclh!Goto, Hclh!Prepare, Hclh!Swap,
           Hclh!StorePrevious, Hclh!Check, Hclh!Spin, Hclh!Test, Hclh!LoadTail, Hclh!SwapGlobal,
           Hclh!MarkSplice, Hclh!SpinGlobal, Hclh!UnlockLoad, Hclh!UnlockClear, Hclh!UnlockTake
      <3>2. pc[t] # "u_clear"
        <4>1. pc[t] = "u_clear" => turn[t] = 1 /\ turn[u] = 1
          BY <3>1, <1>0, HclhHolder
        <4> QED BY <4>1, <2>1, <1>0 DEF HclhChain, HclhPlaces
      <3>3. \A m : HclhFree(m)' <=> HclhFree(m)
        BY <3>2, <1>0, HclhOwnStays DEF HclhFree
      <3>4. HclhFree(previous[u])
        BY <3>1 DEF HclhInv, HclhHeld
      <3> QED BY <3>1, <3>3, <3>4
    <2>2. CASE u = t
      <3>1. /\ pc[t] \in {"test", "gspin"} /\ previous' = previous /\ turn' = turn
            /\ pc[t] = "gspin" => ~wait[previous[t]]
        BY <2>2, <1>0, <1>2 DEF HclhTypes, Hclh!Step, Hclh!Goto, Hclh!Prepare, Hclh!Swap,
           Hclh!StorePrevious, Hclh!Check, Hclh!Spin, Hclh!Test, Hclh!LoadTail, Hclh!SwapGlobal,
           Hclh!MarkSplice, Hclh!SpinGlobal, Hclh!UnlockLoad, Hclh!UnlockClear, Hclh!UnlockTake
      <3>2. \A m : HclhFree(m)' <=> HclhFree(m)
        BY <3>1, <1>0, HclhOwnStays DEF HclhFree
      <3>3. turn[t] = 1
        <4>1. turn'[t] = 1
          BY <1>1, <1>2, <2>2, HclhHolder DEF HclhChain, HclhPlaces, HclhTypes, Queues, Member
        <4> QED BY <3>1, <4>1
      <3>4. ~\E x \in Threads : turn[x] > 0 /\ turn[x] < turn[t]
        BY <3>3, <1>0 DEF HclhTypes
      <3>5. HclhFree(previous[t])
        <4>1. CASE pc[t] = "test"
          <5>1. previous[t] = Pred(t)
            BY <4>1, <1>0, HclhSees
          <5>2. HclhFree(Pred(t))
            <6>1. turn[t] > 0
              BY <3>3
            <6> QED BY <3>4, <6>1, <1>0 DEF HclhGlobal
          <5> QED BY <5>1, <5>2
        <4>2. CASE pc[t] = "gspin"
          <5>1. \/ turn[t] = 1 /\ HclhFree(previous[t])
                \/ \E x \in Threads : /\ turn[x] > 0 /\ turn[x] = turn[t] - 1
                                      /\ previous[t] = thread[x]
            BY <4>2, <1>0 DEF HclhGlobal
          <5>2. ~\E x \in Threads : turn[x] > 0 /\ turn[x] = turn[t] - 1
            BY <3>3
          <5> QED BY <5>1, <5>2
        <4> QED BY <3>1, <4>1, <4>2
      <3> QED BY <2>2, <3>1, <3>2, <3>5
    <2> QED BY <2>1, <2>2
  <1> QED BY <1>1, <1>2 DEF HclhInv, HclhHeld

\* What the invariant of the hierarchical lock says.
LEMMA HclhSafe ==
  ASSUME HclhInv, lock = "hclh"
  PROVE  /\ \A t, u \in Holders : t = u /\ Holders \subseteq Threads
         /\ HolderSeesLocked /\ Hclh!OwnNode /\ Hclh!MarkInTime
  <1>0. HclhChain /\ HclhTypes /\ HclhPlaces /\ HclhNodes /\ HclhFields /\ HclhGlobal
    BY DEF HclhInv, HclhChain
  <1>1. \A t, u \in Holders : t = u /\ Holders \subseteq Threads
    <2>1. Holders = {t \in Threads : pc[t] \in {"cs", "u_clear"}}
      BY DEF Holders, Hclh!Holders
    <2>2. \A t \in Holders : turn[t] = 1
      BY <2>1, <1>0, HclhHolder
    <2> QED BY <2>1, <2>2, <1>0 DEF HclhPlaces
  <1>2. HolderSeesLocked
    <2>1. ASSUME NEW t \in Threads, pc[t] = "cs" PROVE wait[glob]
      <3>1. turn[t] = 1
        BY <2>1, <1>0, HclhHolder
      <3>2. PICK w \in Threads : turn[w] > 0 /\ glob = thread[w]
        BY <3>1, <1>0 DEF HclhGlobal
      <3>3. Queues(w)
        BY <3>2 DEF Queues
      <3> QED BY <3>2, <3>3, <1>0, HclhQueued
    <2> QED BY <2>1 DEF HolderSeesLocked, Locked, Hclh!Locked
  <1>3. Hclh!OwnNode
    <2>1. ASSUME NEW t \in Threads, pc[t] \in {"idle", "swap"}
          PROVE  /\ glob # thread[t] /\ local[home[t]] # thread[t]
                 /\ \A s \in Threads \ {t} :
                      /\ pc[s] # "u_take" => thread[s] # thread[t]
                      /\ pc[s] \notin {"idle", "swap"} => previous[s] # thread[t]
      <3>1. ~Queues(t) /\ HclhOwn(t) = thread[t] /\ home[t] \in Clusters
        BY <2>1, <1>0 DEF HclhPlaces, HclhOwn, HclhTypes
      <3>2. /\ \A u \in Threads : Queues(u) => Pred(u) # thread[t]
            /\ \A c \in Clusters : local[c] # thread[t]
            /\ glob # thread[t]
            /\ \A u \in Threads : pc[u] \in {"mark", "gspin"} => previous[u] # thread[t]
        BY <3>1, <1>0, HclhApart
      <3>3. ASSUME NEW s \in Threads \ {t}
            PROVE  /\ pc[s] # "u_take" => thread[s] # thread[t]
                   /\ pc[s] \notin {"idle", "swap"} => previous[s] # thread[t]
        <4>1. HclhOwn(s) # thread[t]
          BY <3>1, <3>3, <1>0 DEF HclhNodes
        <4>2. CASE pc[s] \in {"idle", "swap", "u_take"}
          BY <4>1, <4>2 DEF HclhOwn
        <4>3. CASE pc[s] \in {"store", "check", "spin", "test", "tail", "fas", "u_clear"}
          <5>1. Queues(s)
            BY <4>3, <1>0 DEF HclhPlaces
          <5>2. previous[s] = Pred(s)
            BY <4>3, <1>0 DEF HclhFields, Pred
          <5> QED BY <4>1, <4>3, <5>1, <5>2, <3>2 DEF HclhOwn
        <4>4. CASE pc[s] \in {"mark", "gspin"}
          BY <4>1, <4>4, <3>2 DEF HclhOwn
        <4>5. CASE pc[s] = "cs"
          <5>1. HclhFree(previous[s])
            BY <4>5 DEF HclhInv, HclhHeld
          <5>2. previous[s] # thread[t]
            BY <5>1, <3>1 DEF HclhFree
          <5> QED BY <4>1, <4>5, <5>2 DEF HclhOwn
        <4>6. pc[s] \in HclhLabels
          BY <1>0 DEF HclhTypes
        <4> QED BY <4>2, <4>3, <4>4, <4>5, <4>6 DEF HclhLabels
      <3> QED BY <3>1, <3>2, <3>3
    <2>2. \A t \in Threads : pc[t] \notin {"idle", "u_take"} => id[thread[t]] = home[t]
      BY <1>0 DEF HclhFields
    <2> QED BY <2>1, <2>2 DEF Hclh!OwnNode
  <1>4. Hclh!MarkInTime
    <2>1. ASSUME NEW t \in Threads, pc[t] = "mark" PROVE wait[tail[t]]
      <3>1. PICK w \in Threads : turn[w] >= turn[t] /\ tail[t] = thread[w]
        BY <2>1, <1>0 DEF HclhGlobal
      <3>2. turn[t] > 0
        BY <2>1, <1>0 DEF HclhPlaces, Queues, Member
      <3>3. turn[w] > 0
        BY <3>1, <3>2, <1>0 DEF HclhTypes
      <3>4. Queues(w)
        BY <3>3 DEF Queues
      <3> QED BY <3>1, <3>4, <1>0, HclhQueued
    <2> QED BY <2>1 DEF Hclh!MarkInTime
  <1> QED BY <1>1, <1>2, <1>3, <1>4

-----------------------------------------------------------------------------
(* All spinlocks.                                                          *)

\* The invariant of the lock that the behaviour is about.
SpinlocksInv ==
  /\ lock \in Words \cup QueueLocks \cup {"hclh"}
  /\ lock \in Words => WordInv
  /\ lock = "mcs" => McsInv
  /\ lock = "clh" => ClhInv
  /\ lock = "anderson" => AndersonInv
  /\ lock = "hclh" => HclhInv
  /\ lock \notin QueueLocks => arrivals = <<>>

\* The initial states satisfy the invariant.
LEMMA SpinlocksInit ==
  ASSUME Init
  PROVE  SpinlocksInv /\ Fifo!Init
  <1>1. lock \in Words \cup QueueLocks \cup {"hclh"} /\ arrivals = <<>>
    BY DEF Init, Words, QueueLocks, Mcs!Init, Clh!Init, Anderson!Init
  <1>2. SpinlocksInv
    BY <1>1, WordInit, McsInit, ClhInit, AndersonInit, HclhInit DEF SpinlocksInv
  <1>3. lock \in QueueLocks => Holders = {}
    <2>1. CASE lock = "mcs"
      BY <2>1 DEF Init, Holders, Mcs!Init, Mcs!Holders
    <2>2. CASE lock = "clh"
      BY <2>2 DEF Init, Holders, Clh!Init, Clh!Holders
    <2>3. CASE lock = "anderson"
      BY <2>3 DEF Init, Holders, Anderson!Init, Anderson!Holders
    <2> QED BY <2>1, <2>2, <2>3 DEF QueueLocks
  <1> QED BY <1>1, <1>2, <1>3 DEF Fifo!Init, QueueLocks

\* Nothing changes.
LEMMA SpinlocksStutter ==
  ASSUME SpinlocksInv, UNCHANGED vars
  PROVE  SpinlocksInv' /\ UNCHANGED Fifo!vars
  <1> USE DEF vars, mcsOnly, clhNodes, andersonOnly, hclhOnly
  <1>1. lock \in Words /\ WordInv => WordInv'
    BY DEF WordInv, WordWaiting
  <1>2. Queued' <=> Queued
    BY DEF Queued, InQueue, HolderLabels, QueueLabels
  <1>3. McsInv => McsInv'
    BY <1>2 DEF McsInv, McsTail, McsNext, HolderLabels
  <1>4. ClhInv => ClhInv'
    BY <1>2 DEF ClhInv, ClhOwn, ClhFree
  <1>5. AndersonInv => AndersonInv'
    BY <1>2 DEF AndersonInv, FirstSlot, Wrapped, Anderson!wrap
  <1>6. HclhInv => HclhInv'
    <2>1. \A t \in Threads : /\ Queues(t)' <=> Queues(t)
                             /\ HclhOwn(t)' = HclhOwn(t) /\ Pred(t)' = Pred(t)
      BY DEF Queues, HclhOwn, Pred
    <2>2. \A n : HclhFree(n)' <=> HclhFree(n)
      BY <2>1 DEF HclhFree
    <2>3. \A n : (Spliced(n)' <=> Spliced(n)) /\ (Starts(n)' <=> Starts(n))
            /\ (Closed(n)' <=> Closed(n))
      BY <2>2 DEF Spliced, Starts, Closed
    <2>4. HclhTypes => HclhTypes'
      BY DEF HclhTypes
    <2>5. HclhPlaces => HclhPlaces'
      BY <2>1 DEF HclhPlaces
    <2>6. HclhNodes => HclhNodes'
      BY <2>1 DEF HclhNodes
    <2>7. HclhFields => HclhFields'
      BY <2>1 DEF HclhFields
    <2>8. HclhLocal => HclhLocal'
      BY <2>1, <2>3 DEF HclhLocal
    <2>9. HclhGlobal => HclhGlobal'
      BY <2>1, <2>2 DEF HclhGlobal
    <2>10. HclhHeld => HclhHeld'
      BY <2>2 DEF HclhHeld
    <2> QED BY <2>4, <2>5, <2>6, <2>7, <2>8, <2>9, <2>10 DEF HclhInv, HclhChain
  <1>7. lock \in QueueLocks => Holders' = Holders
    BY DEF QueueLocks, Holders, Mcs!Holders, Clh!Holders, Anderson!Holders
  <1>8. SpinlocksInv'
    BY <1>1, <1>3, <1>4, <1>5, <1>6 DEF SpinlocksInv
  <1> QED BY <1>7, <1>8 DEF Fifo!vars, QueueLocks

\* Every step preserves the invariant and implements the queue.
LEMMA SpinlocksStep ==
  ASSUME SpinlocksInv, [Next]_vars
  PROVE  SpinlocksInv' /\ [Fifo!Next]_(Fifo!vars)
  <1>1. CASE UNCHANGED vars
    BY <1>1, SpinlocksStutter
  <1>2. ASSUME NEW t \in Threads, Step(t)
        PROVE  SpinlocksInv' /\ [Fifo!Next]_(Fifo!vars)
    <2>0. lock' = lock
      BY <1>2 DEF Step
    <2>1. CASE lock \in Words
      <3>1. arrivals' = arrivals /\ arrivals = <<>> /\ lock \notin QueueLocks /\ lock # "hclh"
        BY <1>2, <2>1 DEF Step, Words, QueueLocks, SpinlocksInv
      <3>2. WordInv'
        <4>1. WordInv
          BY <2>1 DEF SpinlocksInv
        <4>2. CASE lock = "cas"
          BY <1>2, <2>0, <4>1, <4>2, CasStep DEF Step
        <4>3. CASE lock = "fas"
          BY <1>2, <2>0, <4>1, <4>3, FasStep DEF Step
        <4>4. CASE lock = "dec"
          BY <1>2, <2>0, <4>1, <4>4, DecStep DEF Step
        <4> QED BY <2>1, <4>2, <4>3, <4>4 DEF Words
      <3> QED BY <2>0, <2>1, <3>1, <3>2 DEF SpinlocksInv, Words, QueueLocks, Fifo!vars
    <2>2. CASE lock = "mcs"
      <3>1. McsInv' /\ [Fifo!Next]_(Fifo!vars)
        BY <1>2, <2>0, <2>2, McsStep DEF Step, SpinlocksInv
      <3> QED BY <2>0, <2>2, <3>1 DEF SpinlocksInv, Words, QueueLocks
    <2>3. CASE lock = "clh"
      <3>1. ClhInv' /\ [Fifo!Next]_(Fifo!vars)
        BY <1>2, <2>0, <2>3, ClhStep DEF Step, SpinlocksInv
      <3> QED BY <2>0, <2>3, <3>1 DEF SpinlocksInv, Words, QueueLocks
    <2>4. CASE lock = "anderson"
      <3>1. AndersonInv' /\ [Fifo!Next]_(Fifo!vars)
        BY <1>2, <2>0, <2>4, AndersonStep DEF Step, SpinlocksInv
      <3> QED BY <2>0, <2>4, <3>1 DEF SpinlocksInv, Words, QueueLocks
    <2>5. CASE lock = "hclh"
      <3>1. HclhInv' /\ arrivals' = arrivals /\ arrivals = <<>>
        BY <1>2, <2>5, HclhStep DEF Step, SpinlocksInv, QueueLocks
      <3> QED BY <2>0, <2>5, <3>1 DEF SpinlocksInv, Words, QueueLocks, Fifo!vars
    <2> QED BY <2>1, <2>2, <2>3, <2>4, <2>5 DEF SpinlocksInv, QueueLocks
  <1> QED BY <1>1, <1>2 DEF Next

\* What the invariant says of the locks.
LEMMA SpinlocksSafe ==
  ASSUME SpinlocksInv
  PROVE  MutualExclusion /\ HolderSeesLocked /\ NodeReuse
  <1>1. \A t, u \in Holders : t = u
    <2>1. CASE lock \in QueueLocks
      BY <2>1, QueueExclusive
         DEF SpinlocksInv, QueueLocks, McsInv, ClhInv, AndersonInv
    <2> QED BY <2>1, WordSafe, HclhSafe DEF SpinlocksInv
  <1>2. MutualExclusion
    <2>1. CASE Holders = {}
      <3>1. Cardinality(Holders) = 0
        BY <2>1, FS_EmptySet
      <3> QED BY <3>1 DEF MutualExclusion
    <2>2. CASE Holders # {}
      <3>1. PICK t : Holders = {t}
        BY <1>1, <2>2
      <3>2. Cardinality(Holders) = 1
        BY <3>1, FS_Singleton
      <3> QED BY <3>2 DEF MutualExclusion
    <2> QED BY <2>1, <2>2
  <1>3. HolderSeesLocked
    BY WordSafe, McsSafe, ClhSafe, AndersonSafe, HclhSafe DEF SpinlocksInv, QueueLocks
  <1>4. NodeReuse
    BY McsSafe, ClhSafe, HclhSafe DEF SpinlocksInv, NodeReuse
  <1> QED BY <1>2, <1>3, <1>4

\* The lock functions of include/spinlock let one thread at a time into the
\* critical section, for any number of threads and clusters, any array of slots
\* that has one for each thread, and whatever overflows: the word that
\* ck_spinlock_dec decrements, and the counter of ck_spinlock_anderson.
THEOREM SpinlocksExclusion == Spec => []MutualExclusion
  <1>1. Init => SpinlocksInv
    BY SpinlocksInit
  <1>2. SpinlocksInv /\ [Next]_vars => SpinlocksInv'
    BY SpinlocksStep
  <1>3. SpinlocksInv => MutualExclusion
    BY SpinlocksSafe
  <1> QED BY <1>1, <1>2, <1>3, PTL DEF Spec

\* A thread that holds a lock is told so by the lock's _locked function, which
\* reads the word, the queue or the slots without any synchronization.
THEOREM SpinlocksHolderSeesLocked == Spec => []HolderSeesLocked
  <1>1. Init => SpinlocksInv
    BY SpinlocksInit
  <1>2. SpinlocksInv /\ [Next]_vars => SpinlocksInv'
    BY SpinlocksStep
  <1>3. SpinlocksInv => HolderSeesLocked
    BY SpinlocksSafe
  <1> QED BY <1>1, <1>2, <1>3, PTL DEF Spec

\* A queue node is used by one thread at a time: ck_spinlock_mcs leaves no
\* pointer to the node on the stack of a thread that has released the lock, and
\* ck_spinlock_clh and ck_spinlock_hclh hand a node of the predecessor on only
\* when nobody else can still read or write it.
THEOREM SpinlocksNodeReuse == Spec => []NodeReuse
  <1>1. Init => SpinlocksInv
    BY SpinlocksInit
  <1>2. SpinlocksInv /\ [Next]_vars => SpinlocksInv'
    BY SpinlocksStep
  <1>3. SpinlocksInv => NodeReuse
    BY SpinlocksSafe
  <1> QED BY <1>1, <1>2, <1>3, PTL DEF Spec

\* ck_spinlock_mcs, ck_spinlock_clh and ck_spinlock_anderson serve the requests
\* in the order of the atomic operation that made them.
THEOREM SpinlocksAreFifo == Spec => ImplementsFifoLock
  <1>1. Init => SpinlocksInv /\ Fifo!Init
    BY SpinlocksInit
  <1>2. SpinlocksInv /\ [Next]_vars => SpinlocksInv' /\ [Fifo!Next]_(Fifo!vars)
    BY SpinlocksStep
  <1> QED BY <1>1, <1>2, PTL DEF Spec, ImplementsFifoLock, Fifo!Spec
=============================================================================
