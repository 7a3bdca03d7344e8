# A TLA+ verification project for Concurrency Kit

Concurrency Kit is a C library of concurrency primitives, locks, lock-free data
structures and safe memory reclamation schemes. Nearly all of it is code that runs
in many threads at once against shared memory, so its correctness is a matter of
interleavings, memory ordering and counters that wrap, which tests reach by luck.
This directory holds TLA+ models of its components, translated from the source, the
TLC configurations that check them, and TLAPS proofs about them.

## 1. Inventory

| Component | State | Operations | What is hard about it |
|---|---|---|---|
| `ck_ring.h` | counters `c_head`, `p_tail`, `p_head`, the slot buffer | enqueue, reserve/commit, dequeue, trydequeue for spsc, spmc, mpsc, mpmc; `size`, `repair`, `valid` | stale snapshots, slot reuse, wrap-around, torn entries, a crash between reserve and commit |
| `ck_stack.h` | `head`, `generation`, the entries' `next` | push, trypush, pop, trypop, batch_pop for upmc, mpmc, mpnc, spnc, npsc | ABA on `head`, a pop reading an entry another thread already took |
| `ck_epoch.h/.c` | global epoch, list of records; per record epoch, active, buckets, pending list of 4 epochs, `n_pending` | begin, end, call, call_strict, poll, synchronize, barrier, reclaim, register, unregister, recycle | grace periods: an object is dispatched while a section still holds it; a reader with a stale epoch snapshot |
| `ck_hp.h/.c`, `ck_hp_stack.h`, `ck_hp_fifo.h` | hazard pointer slots, subscriber list, pending stacks | set, register, unregister, retire, free, reclaim, purge | the publish/validate race with a concurrent scan |
| `ck_fifo.h` | `head`, `tail` (with generations), nodes | spsc and mpmc enqueue, tryenqueue, dequeue, trydequeue | lagging tail, ABA, node recycling |
| `spinlock/ticket.h` | `next`, `position` (packed or separate) | lock, lock_pb, trylock, unlock, locked | wrap-around, stale trylock, fairness |
| `spinlock/cas.h`, `fas.h`, `dec.h` | one word | lock, lock_eb, trylock, unlock, locked | a trylock that overwrites the word while it is held; the decrement's wrap |
| `spinlock/mcs.h` | tail pointer, one node per thread | lock, trylock, unlock, locked | the window between swapping the tail and linking the predecessor |
| `spinlock/clh.h` | tail pointer, one node per thread plus one | lock, unlock, locked | node recycling while a successor may still read the node |
| `spinlock/hclh.h` | local and global tails, nodes with `splice` | lock, unlock, locked | splicing a local queue into the global one while it grows |
| `spinlock/anderson.h` | `next`, slot flags | lock, unlock, locked | slot reuse at the overflow of `next` when the count is no power of two |
| `ck_rwlock.h`, `ck_pflock.h`, `ck_tflock.h`, `ck_swlock.h`, `ck_bytelock.h`, `ck_brlock.h` | counters, bits or flags of readers and writers | read/write lock, trylock, unlock, downgrade, recursive | reader/writer handshake (store-load), downgrade, fairness phases |
| `ck_cohort.h`, `ck_rwcohort.h` | global and local lock, pass counters | lock, trylock, unlock | lock passed between cohort members without release |
| `ck_elide.h` | transaction state | lock elision wrappers | transactional memory |
| `ck_sequence.h` | sequence counter | read_begin, read_retry, write_begin, write_end | torn reads |
| `ck_barrier_*.c` | sense flags, trees | subscribe, wait | reuse of the barrier by fast threads |
| `ck_ec.h/.c` | counter with waiter bit | inc, add, wait, wait_slow | lost wake-ups, flag and counter in one word |
| `ck_array.c` | active/transaction copies | put, remove, commit, iterate | publication of a new copy and deferred free |
| `ck_bitmap.h` | bit words | set, reset, test, bts, union, iterate | last partial word |
| `ck_queue.h` | list links | insert, remove, traverse under one writer | order of link stores against a traversal |
| `ck_hs.c`, `ck_ht.c`, `ck_rhs.c` | maps with tombstones, probe bounds, generations | put, get, fas, set, remove, grow, rebuild, gc, iterate | single writer with concurrent readers through a growing map |
| `ck_backoff.h` | back-off counter | `ck_backoff_eb` | only delays |
| `ck_pr.h` and `gcc/*` | none | atomic loads, stores, read-modify-writes, fences | the semantics every other component assumes |

Components interact through calls only: `ck_epoch` keeps its records in a `ck_stack`
and its deferred callbacks in `ck_stack`s, `ck_hp` uses `ck_stack` for its pending
lists, cohort locks are parameterised by two other locks, `ck_spinlock_t` is the
fetch-and-store lock, and everything is written on `ck_pr`.

## 2. Conventions

*One step per access.* Every load, store and atomic read-modify-write of shared memory
is an action of its own, in the order of the code; accesses to thread-private data are
part of the neighbouring action. Where two accesses are one step the module says so.

*Memory ordering.* The fences of the code keep the modelled accesses in program order,
so a behaviour is an interleaving of these steps. Where the code relies on a fence
between accesses that are *not* single words, or leaves one out, the reordering is
modelled: the words of a ring entry are copied in any order and a fence is the condition
that none is outstanding (`Ring`); the load of the fence-free `ck_epoch_call` may come
before the removal it belongs to (`Epoch.CallEarly`); the single producer of an event
count on x86 increments its counter with an ordinary instruction, so it has a store
buffer (`Ec`). What the fences themselves order, on which platform, is checked by
`Pr`. Other effects of weak memory (store buffers inside a lock, load speculation)
are not modelled.

*Two styles.* The modules of the first group (`Ring`, `Stack`, `Epoch`, the spinlocks)
have one variable per field of the code. The others extend `Threaded`: `m` is the shared
memory, a record with one field per field of the code; `r[t]` are the local variables of
thread `t` and `pc[t]` the label of its next step; `Calls(t)` are the operations a thread
may begin and `Steps(t)` what it does inside one. A single writer whose readers see every
store (`Lists`, `Array`, `HashTable`) first computes, from what only it changes, the
sequence of stores of its operation, and then makes them one at a time.

*Families.* Components with one interface are checked by one run, in which a behaviour
begins by the choice of one of them (`lock` in `Spinlocks`, `kind` in `MCQueues`,
`MCSync` and `MCContainers`), and a property is stated once for all of them.

*Counters* are unsigned integers of few values that wrap. They start close to the wrap,
a state an execution reaches after enough uncontended operations.

*Histories* (`arrivals`, `place`, `turn`, `contents`, `enq`, `deq`, `held`, `status`,
`calls`, `seen`, `dict`) are not in the code; no guard of a modelled operation reads them, except where a
client's obligation is expressed with them (an entry is pushed again only when its caller
owns it, an object is unlinked once).

*Mutants* are definitions named after the `X` they distort (`X_Why` or `XWhy`) and stand
in front of it; no behaviour of the specifications uses them. Each shows that a property
would notice a plausible bug.

*Fairness.* Where a liveness property is checked, a thread inside a call keeps taking
steps (weak fairness per thread, restricted to its steps inside a call or a critical
section). Nobody is obliged to make a call. This is the scheduling any busy-waiting code
relies on. `Stack` assumes less, as befits lock-freedom: *some* thread that is in a call
takes a step. Spurious wake-ups are possible
but never relied on (`Ec`).

## 3. Modules and their code

| Module | Models | State | Actions |
|---|---|---|---|
| `Ring` | `ck_ring.h`, all four interfaces, `ck_ring_repair`, `ck_ring_valid` | `c_head`, `p_tail`, `p_head`, `buffer` (slot -> word -> tag); per thread `pc`, its counter snapshots and the words still to copy | `EnqueueMp`, `ReserveMp*`, `WriteWord`, `CommitMp*`, `EnqueueSp*`, `CommitSp`, `DequeueMc*`, `ReadWord`, `TrydequeueMcFail`, `DequeueSc*`, `Crash`, `Repair` |
| `BoundedFifo` | what a ring promises | `items`, `reserved`, `taken`, `alive` | `Reserve`, `Put`, `Take`, crash and repair |
| `SpinlockTicket` | `spinlock/ticket.h`, packed and separate | `next`, `position`; per thread `request`, `snapshot` | `Faa`, `Spin`, `TryTaken`, `TryLoad`, `TryCas`, `TryCasFail`, `UnlockPacked`, `UnlockLoad`, `UnlockStore` |
| `FifoLock` | what a fair lock promises | `queue`, `holders` | `Request`, `Grant`, `TryGrant`, `Release` |
| `SpinlockWord` | `spinlock/cas.h`, `fas.h`, `dec.h` | the word | lock, back-off lock, trylock, unlock |
| `SpinlockMcs` | `spinlock/mcs.h` | `queue` (tail), `locked`, `next` of each context | prepare, swap, link, spin, trylock, unlock |
| `SpinlockClh` | `spinlock/clh.h` | tail, `wait`, `prevOf`, which node each thread has | prepare, swap, store, spin, unlock |
| `SpinlockAnderson` | `spinlock/anderson.h` | `count`, `next` with and without `wrap`, slot flags | load, compare-and-swap, spin, mark, unlock |
| `SpinlockHclh` | `spinlock/hclh.h` | local and global tails, `wait`, `splice`, clusters; history: the `place` of a thread in its local queue and its `turn` in the global one | as CLH, plus the splice |
| `Spinlocks` | `ck_spinlock.h`: the common interface | the union of the above | `Step` of the lock in use |
| `Stack` | `ck_stack.h` | `head`, `generation`, `next`; per thread its snapshot | `Push*`, `PopUpmc*`, `BatchPopUpmc`, `PopMpmc*`, `BatchPop*`, `BatchPopWf*`, `PushMpnc*`, `PushSpnc`, `PopNpsc`, `BatchPopNpsc`, `IsEmpty` |
| `Epoch` | `ck_epoch.h`, `ck_epoch.c` and clients | global `epoch`, `n_free`, `records`; per record `state`, `active`, `repoch`, `bucket`, `pending`; per thread its sections and the scan in progress | `Begin*`, `Addref`, `End`, `Delref`, `Observe*`, `Call*`, `Scan*`, `Synchronize`, `SyncBlocked`, `SyncDone`, `ReclaimSlot`, `Poll*`, `Register`, `Unregister*`, `Recycle*`; the clients' `Dereference` and `Unlink` |
| `Threaded` | the frame of the modules below, and what a traversal beside a writer must return | `m`, `pc`, `r` | |
| `FifoSpsc`, `FifoMpmc` | `ck_fifo.h` | `head` and `tail` (with generations), `next` and value of each entry, the two locks | enqueue, dequeue, recycle, the locks; every step of the tail's advance and of the double-word compare-and-swaps |
| `Hp` | `ck_hp.c`, `ck_hp.h` | the list of records, their states, slots and pending objects | set, clear, register, unregister, recycle, retire, free, purge, reclaim with its sorted cache and the scan that stands in when the cache is full |
| `HpFifo`, `HpStack` | `ck_hp_fifo.h`, `ck_hp_stack.h`, clients of `Hp` | `head`, `tail`, `next` | enqueue, dequeue and their try forms, push, pop and theirs |
| `Lists` | `ck_queue.h`: slist, stailq, list | links, tails, previous pointers | every macro that writes, one store at a time; `_FOREACH`, `_FOREACH_SAFE` |
| `Array` | `ck_array.c`, `ck_array.h` | active and transaction copy, lengths | put, put_unique, remove, commit, iteration |
| `Rwlock`, `FairLocks`, `Brlock`, `Bytelock` | `ck_rwlock.h` and `ck_swlock.h`, `ck_tflock.h` and `ck_pflock.h`, and the headers of these names | words of readers and writers | every lock, trylock, unlock, upgrade, downgrade, latch, registration |
| `Rwcohort` | `ck_cohort.h`, `ck_rwcohort.h` | the two levels of locks, `release_global`, `local_pass_count`, `read_counter`, barriers | lock, trylock, unlock; read and write lock of the writer-preference, reader-preference and neutral locks |
| `Sequence` | `ck_sequence.h` | the sequence number, the protected words | read begin and retry, write begin and end |
| `Barriers` | `ck_barrier_centralized.c`, `_combining.c`, `_dissemination.c`, `_tournament.c`, `_mcs.c` | flags, counters and trees | initialization, group initialization, subscription, every access of the wait |
| `Ec` | `ck_ec.h`, `ck_ec.c`, `ck_ec_timeutil.h`; the futex is external | the word with its flag, the store buffer of a single producer, who sleeps; the time, a deadline, the time of the next attempt | increment, add, wake, wait with and without deadline, sleep; exponential back-off with saturating time arithmetic |
| `HashTable` | what `ck_hs.c`, `ck_ht.c` and `ck_rhs.c` share | the map, its bounds; the writer's stores to come; the reader's probe | store, return, growth, collection, the reader's loads |
| `Hs` | `ck_hs.c` | entries, tombstones | put, put_unique, set, apply, fas, remove, reset, grow, rebuild, gc, get |
| `Ht` | `ck_ht.c` | keys and values of entries, deletions | put, set, remove, reset, grow, gc, get |
| `Rhs` | `ck_rhs.c` | objects, with the probes each took, how many wanted its slot, and the bound of every offset | put, put_unique, set, apply, fas, remove, reset, grow, rebuild, set_load_factor, gc, get; chains of displaced objects and the backward shift of a deletion |
| `Dictionary` | what a table promises | `dict`, `call`, `reads` | an operation takes effect; a read sees a value |
| `Pr` | `gcc/*/ck_pr.h`, `gcc/*/ck_f_pr.h`, the fallbacks and fences of `ck_pr.h`; the constants of its run | the word, reservations, registers; the accesses performed between fences. Tables say what every operation is made of on every platform | one action per access: instruction, load-linked, store-conditional, load, compare-and-swap; an access is performed in an order the machine allows |
| `AtomicWord` | what `ck_pr(3)` promises | the word, calls, results | a call takes effect |
| `MCQueues`, `MCSync`, `MCContainers` | the families and their constants; `MCContainers` also has the probe sequences of the tables | | |
| `SpinlockTicketProofs`, `RingProofs`, `StackProofs`, `EpochProofs`, `SpinlocksProofs`, `SyncProofs`, `FifoProofs`, `HpProofs` | theorems about the modules of these names (`SyncProofs`: `MCSync` and what it composes; `FifoProofs`, `HpProofs`: `MCQueues` with `FifoSpsc` and `FifoMpmc`, and with `Hp`, `HpFifo` and `HpStack`), see 5 | | |

`PROJECT.json` maps every definition to its lines. The names of variables and actions
follow the fields and functions of the code.

Composition: the stacks in which `Epoch` and `Hp` keep records and deferred objects are
sequences there, changed in one step at the compare-and-swap, which `Stack` shows them to
be; `HpFifo` and `HpStack` extend `Hp`, so that the dequeues, the retirements and the scans of several
threads interleave; `Rwcohort` puts the reader-writer locks on the cohort lock. `MCSync`
leaves the two locks inside a cohort lock abstract: any mutual exclusion lock will do,
which is what `ck_cohort.h` asks of them and `Spinlocks` shows of those of the library.

## 4. Runs

| Run | Checks | Bounds | Result |
|---|---|---|---|
| `Ring` | the i-th dequeue returns the whole i-th entry (`Fifo`), "empty" and "full" are reported only when true at a load of the call (`EmptyIsReal`, `FullIsReal`) | 2 producers, 2 consumers, 4 slots, 2 words per entry, 4 enqueues, counters start two before their wrap | holds |
| `RingPersistent` | the ring implements `BoundedFifo` also across a crash and repair (`ImplementsFifo`), no reservation is orphaned and a multi-producer ring at rest is accepted by `ck_ring_valid` (`NoOrphanTicket`), every call returns (`CallsReturn`) | 3 enqueues, 1 crash, 1 word | holds |
| `Ticket` | the inductive invariant (`TypeOK`, `Tickets`), refinement of `FifoLock`, `NoStarvation` | 3 threads, counters modulo 4 starting at 2 | holds |
| `Spinlocks` | `MutualExclusion`, `HolderSeesLocked`, `NodeReuse`, refinement of `FifoLock` for MCS, CLH and Anderson | 3 threads, 2 clusters, word modulo 4, Anderson with 3 and with 4 slots (`Counts`) and `next` modulo 8 starting at 6 | holds |
| `SpinlocksLive` | `NoStarvation` of the queue locks, `Progress` of the others | 2 threads | holds |
| `Stack` | `Represents` (linearizability), `LockFree` | 2 threads, 2 entries, 4 generations, three disciplines | holds |
| `Epoch` | `NoUseAfterFree`, `EpochLag`, `RecordsExclusive`, `SynchronizeReturns` | 2 threads in six starts, 1 object, 2 section objects, 3 ticks, epochs modulo 8 starting at 1 and just before the wrap | holds |
| `Primitives` | every operation takes effect at one instant and returns what its manual says (`ImplementsAtomicWord`), retry loops end (`CallsReturn`), fences order what their manual pages say (`FenceOrders`) | 2 threads, one call each, an int of 2 bits, a char of 1 and a long of 3, 11 platforms, without what is known to be wrong (`WithDefects`, see 6) | holds |
| `Queues` | what leaves a queue or a stack is what entered, in order (`LeavesInOrder`), empty is reported truly (`EmptyIsEmpty`), hazard pointers protect (`NoUseAfterFree`), records have one user (`HpRecordsExclusive`), traversals see what was there throughout once and nothing that never was (`IterationSees`), lists are whole between operations (`Linked`) | 2 threads; 2 entries and a stub, 3 enqueues and 3 dequeues; 2 hazard slots for the queue and 1 for the stack, cache of 1, thresholds 1 and 2; 3 elements in 2 list heads and at most 2 stores during a traversal; arrays of up to 4 with at most 3 changes | holds |
| `HpTryDequeue` | `NoUseAfterFree` of `ck_hp_fifo_trydequeue_mpmc` with nodes that are used again | as above, 2 enqueues | violated, see 6 |
| `Sync` | a writer is alone (`Exclusion`); phase fairness and the limit of passes (`FairPasses`); no torn read (`ConsistentRead`); nobody leaves a barrier early (`Together`); no lost wake-up (`NoLostWakeup`); back-off sleeps into the future only and within its limit (`SleepAhead`); an operation in which all threads are stuck ends (`Progress`) | 3 threads (barriers 3, 4, 5 and 6), counters that wrap at 2 to 4, cohorts of 1 and 2 threads with pass limit 2, byte locks with 2 slots and with 1 and every use of the other threads but `"any"` (below), times and counts of 2 and 3 bits, a wait that doubles, calls without end | holds |
| `Containers` | the tables implement `Dictionary` (`ImplementsDictionary`), counters agree with slots (`Counted`) | 1 writer, 1 reader, 3 keys, capacities 2 and 4, 2 slots per bucket, 2 probes, bounds of one bit, allocation may fail; one operation of the writer may begin during a read. `Rhs`: capacities 4 and 8, 2 and 3 probes, bounds of two bits, 2 generations; and once more without a reader, with 4 keys, 4 probes and load factors of 25, 50 and 100 percent, where a replaced object moves too | holds |

*Why the bounds are enough for the interesting cases.* Every failure these algorithms
guard against involves a stale snapshot in one thread and a sequence of complete
operations of another. Two threads on each side, four slots and as many enqueues as
slots let a ring fill, empty, lap a delayed producer or consumer and wrap its counters.
Two entries and four generations let an entry be popped, pushed, popped and pushed again
within one delayed pop. Three ticks take an epoch once around the grace period of
`ck_epoch_synchronize`, and eight epochs exceed `CK_EPOCH_LENGTH`, so that slots are
re-used. Three lock threads make a queue with a holder, a waiter and an arrival;
liveness needs only two. Five and six barrier threads are the smallest numbers with a bye
in a tournament, with a dissemination that is no power of two and three rounds, and with
a second level in the tree of `ck_barrier_mcs`. A hazard cache of one slot overflows with
two threads. Two entries that meet in every map and a third make tombstones, moved
entries, probe bounds that saturate and maps that must grow. The mutants, one per
property, all show within these bounds.

*The threads without a slot of a byte lock.* `ck_bytelock.h` has a number for them,
`CK_BYTELOCK_UNSLOTTED`, and takes any other number above the slots as well; its regression
test uses one such number, for one thread. A behaviour of `Bytelock` fixes who has a slot
(`SlottedSets`) and what the others do (`Uses`): each has a number of its own (`"own"`), or
all pass `CK_BYTELOCK_UNSLOTTED` and only read (`"reads"`), only write (`"writes"`), or call
what they like (`"any"`). `Sync` has the first three, and with one slot and three threads
two threads share the number. The fourth is a finding (section 6).

*Deadlock* is checked in every run but `Primitives`, `Queues` and `HpTryDequeue`, in
which the number of calls is bounded and threads are done in the end.

*What SynchronizeReturns assumes.* Each record is outside of sections infinitely often,
not all at once, and threads stop registering and unregistering at some time: a thread
that recycles its record for ever resets its epoch each time and can hold up a scan for
good, which TLC shows when the assumption is dropped.

## 5. Proofs

The theorems hold for every value of the constants that the `ASSUME`s admit; TLC
evaluates these on the instances of the runs. All are safety properties of `Spec`, without
fairness. Each is derived from an inductive invariant, which TLC checked on the bounds of
the run before it was proved. There is one lemma per action or kind of action.

**`SpinlockTicketProofs`** proves, for every finite set of threads, every `Mod` greater than
their number and every `Base`:

* `TicketTypeCorrect`, `TicketInterval`: `TypeOK` and `Tickets` are invariants;
* `TicketMutualExclusion`;
* `TicketImplementsFifoLock`: the lock implements `FifoLock` with the queue of arrivals
  and the set of holders as refinement mapping.

Mutual exclusion is not inductive by itself: nothing in it says that a spinning thread's
ticket is not also somebody else's, or that `position` cannot come round to it. The
inductive invariant `Inv` is `TypeOK /\ Tickets`. `Tickets` says that the outstanding
tickets are exactly the interval from `position` to `next` *modulo* `Mod`: as many active
threads as the distance, no two with the same ticket, `arrivals` listing them in order,
the holder's ticket equal to `position`. That the distance never reaches `Mod` is where
the assumption `Cardinality(Threads) < Mod` enters. The arithmetic of the wrap is in four
lemmas on `Inc` and `Sub`; two lemmas say what taking a ticket (`Faa`, `TryCas`) and
serving the next one (`UnlockPacked`, `UnlockStore`) do to `Inv`, a third covers the
steps that change neither counter. For the refinement, `HeadIsNext` shows that a waiter
that sees its ticket in `position` is the head of the queue and that nobody holds the
lock; the rest maps each step to a step of `FifoLock` or to a stutter.

**`RingProofs`** proves, for any sets of producers and consumers (`RingThreads`), any size,
counter width and start of the counters, any number of enqueues below the width and any
number of words per entry (`RingSizes`), crashes and repairs included:

* `RingIsFifo`: what is dequeued is what was enqueued, whole, once, in the order of the
  reservations, except for entries of producers that died (`Fifo`);
* `RingHasNoOrphans`: `NoOrphanTicket`;
* `RingEmptyIsReal`, `RingFullIsReal`: the action properties of a refusal;
* `RingImplementsFifo`: the ring implements `BoundedFifo`.

`Fifo` speaks of complete dequeues only. What makes it hold is spread over the slots and
over the calls in progress, and this is what `Inv` adds: the three counters are in order
and no more than `mask` apart; every ticket between `p_tail` and `p_head` belongs to
exactly one producer, or to one that died; a published slot holds the entry of its ticket;
and a consumer that has copied words out of a slot has those of the entry that was there
when it loaded `c_head`, unless `c_head` has moved, in which case its compare-and-swap
will fail. Distances are taken from the start of the counters (`Off`), so that the wrap is
in the lemmas on `Off`, `Cnt` and `Inc` only. For the refinement, the items of the queue
are the published slots and its reservations the distance from `p_tail` to `p_head`.

**`StackProofs`** proves, for any threads and entries and any number of generations
(`StackAssumption`), in each of the disciplines `mpmc`, `grace` (upmc with deferred
re-use), `nc` (mpnc, spnc and npsc):

* `StackRepresents`: the chain from `head` is the list that the operations define, and no
  entry of it belongs to a caller (`Represents`).

The theorem's hypothesis `mode # "wf"` leaves out `ck_stack_batch_pop_mpmc_wf` with entries
that are used again at once, for which the property is false (see 6). The chain alone is not
inductive: a pop installs a `next` it read some steps ago. `Inv` adds that a pop whose
head is still the one it saw, in `mpmc` with the same generation too, has the entry below
the head in its hand; that in `grace` no entry is with a caller while a pop may still come
to it; and where the chain may be cut, at an entry which `push_mpnc` has swapped in and not
linked yet.

**`EpochProofs`** proves, for any finite sets of threads, records and section objects, any objects, any epoch at which a behaviour starts, and any number of
ticks that does not bring the epoch round to one still in use (`EpochAssumption`,
`StartAssumption`):

* `EpochLagBounded`: the epoch an active record advertises is at most one behind the
  global one (`EpochLag`);
* `EpochRecordsExclusive`: a record has one user at most and `n_free` counts the free
  records but for the calls that have yet to count (`RecordsExclusive`);
* `EpochSafe`: nothing is destroyed under a reference (`NoUseAfterFree`), whether it was
  waited for, deferred and reclaimed by a barrier, or dispatched by a poll.

`EpochLag` rests on `LagInv`. A tick is a compare-and-swap from the epoch that a scan
worked with, so every record has to be shown to advertise that epoch when the last one
has been passed, although records that were passed may enter sections meanwhile. `Passed`
says so at every point of the scan: a record already passed is inactive, or the epoch it
advertises (or is about to store, `Effective`) is no older than that of the scan. That it
survives the window of `ck_epoch_begin` between the load of the epoch and the store is the
heart of the proof. Since epochs wrap, old and new are ages, distances back from the
global epoch; `Horizon` and `TickBound` keep them from coming round. `StartAssumption` is
that bound, and where records are registered also that the epoch does not wrap to 0, the
value a fresh record advertises: with it `EpochLag` is false, as 6 says. `Directory`,
`Place`, `FreeCount`, `Own`, `Quiet` and `Buckets` say who has which record, what calls in
progress know of it, and that the buckets count the sections.

`EpochSafe` adds `Holders` (references are held in sections only), `Gone` (what is on its
way to destruction cannot be found any more), `Grace` (a section that refers to an object
which a call in progress will destroy began before the call, and the call has still to come
to its record, or has met an active one, unless the epoch has ticked twice) and `Deferred`
(an object that a section refers to is in the slot of an epoch at most one newer than the
section, so that the slot a poll selects, two epochs back, is not it). The hypothesis
`~shared` leaves out deferral onto a record that its owner is reclaiming at that time, for
which the property is false (see 6).

**`SpinlocksProofs`** proves of every other spinlock (`cas`, `fas`, `dec`, MCS, CLH, Anderson,
hierarchical CLH), for any finite set of threads, any clusters, any number of slots and any
widths:

* `SpinlocksExclusion`: `MutualExclusion`;
* `SpinlocksHolderSeesLocked`: `HolderSeesLocked`;
* `SpinlocksNodeReuse`: `NodeReuse`;
* `SpinlocksAreFifo`: MCS, CLH and Anderson implement `FifoLock`.

`SpinlocksAssumption` is what the code asks of its callers: a `dec` lock has fewer users
than its word has values, an Anderson lock a slot for each thread and fewer slots than
`next` has values; model values that stand for different nodes differ. The inductive
invariant `SpinlocksInv` is that of the lock in use.

* `WordInv` ties the word to the holder. For `dec` it bounds how far failed attempts have
  decremented it by the number of threads that wait, which is why it cannot come round to 1
  while the lock is held.
* `Queued` is common to the queue locks: `arrivals` lists the threads between the atomic
  operation of a request and the one of a release, once each, and only its head may hold
  the lock. `QueueStay`, `QueueJoin` and `QueueLeave` say which changes of `pc` and
  `arrivals` preserve it and map them to the steps of `FifoLock`. What remains for each
  lock is that a thread which leaves its loop is the head.
* `McsInv`: the nodes are linked along `arrivals` except where a request has yet to store
  its link, and only the head's flag may be clear. The context of a thread outside of the
  queue is then in no link and is not the tail.
* `ClhInv`: every node has one owner, except for one that is free and whose flag is clear:
  that of the head's predecessor, or of the tail of an empty queue. A thread that takes its
  predecessor's node takes the free one, and leaves its own in its place.
* `AndersonInv`: requests have consecutive slots around the array, and one slot at most is
  available, the head's. `NextSlot` shows that the increment of `next` advances the slot by
  one at its overflow too, which is what `wrap` is for; `QueueBound` that the slots do not
  run out.
* `HclhInv` describes the two levels by the histories `place` and `turn`. A thread has a
  place in the queue of its cluster until the leader of a batch swaps the tail of the local
  queue it read earlier into the global one, which gives a turn to every thread up to that
  tail and moves the others up. `HclhLocal` and `HclhGlobal` say which node each thread waits
  for, `Closed` which nodes are, or are about to be, marked as the last of their batch, and
  `HclhNodes` that no two threads own a node or will take the same one. The delicate steps
  are `HclhTest` (a thread behind a batch must not take the predecessor's release for its
  own turn), `HclhMarkSplice` (the mark is stored after the batch became visible, into a node
  that has not been handed on yet) and `HclhUnlockClear` (every turn is one less, and the
  node of the release becomes the one its successor waited for).

**`SyncProofs`** proves of every lock, sequence lock and event count of `MCSync`, and of
the back-off, for any finite set of threads, any cohorts and any widths of the counters
(`SyncAssumption`):

* `WritersAlone`: a writer is alone, whichever the lock, and whichever way it was acquired:
  lock, try, upgrade or downgrade (`Exclusion`). Its hypothesis `"any" \notin Uses` leaves
  out threads that pass `CK_BYTELOCK_UNSLOTTED` to a byte lock and both read and write, for
  which the statement is false (section 6); the other theorems do without;
* `PassesFairly`: a reader of a phase-fair lock waits for one writer at most, and a cohort
  passes its global lock on no more often than its limit (`FairPasses`);
* `ReadsConsistently`: no accepted read is torn (`ConsistentRead`);
* `SleepsAhead`: a back-off sleeps until a later time, not beyond the deadline or the limit
  (`SleepAhead`);
* `InvAlways`: the inductive invariant `Inv` from which the four follow.

`SyncAssumption` is what the code asks of its callers: fewer threads than the tickets of
`ck_tflock` and `ck_pflock` have values, the tickets and the sequence number of even width
(the lowest bit is the phase), fewer writes during one read than bring a sequence number
round, a limit of passes above zero. Of byte locks it asks nothing but that
`CK_BYTELOCK_UNSLOTTED` is neither a slot's number nor 0.

None of these properties is inductive: `Exclusion` names the labels of those inside, and
what keeps the others out is in the words of the lock. `Inv` is, by the lock in use:

* `RwInv`, `SwInv`: the word of readers counts the threads that have announced themselves
  and not left, those that will find a writer and back out included, and the writer's bit is
  set exactly while some thread owns it.
* `TfInv`: the distances from the completions to the requests, of readers and of writers,
  are the numbers of threads in between, and each holds a different ticket; modulo `Top`
  they would be ambiguous with as many threads as tickets.
* `PfInv`: as `TfInv` for the writers' tickets. A reader that saw a writer present waits for
  the phase to change; `Free` says which readers the present phase lets through, and that
  the writer waits for exactly the others.
* `BrInv`: a reader that is inside is registered, and the cursor of the writer's scan has
  passed no reader that is inside.
* `ByInv`: its types, and in every use but `"any"` the rest: one thread owns the lock, the
  number in `owner` is that thread's, and nobody who reads the lock passes it but the owner
  (`ByOwned`); the bytes of slotted readers and the count of the others tell who is inside,
  and the cursor of the owner has passed none of them (`ByCounted`). That two threads may
  have one number is why it has to say what each of them can be doing.
* `CoInv`: the invariant of the cohort lock, and of the reader-writer locks on it.
  `CoLocks` and `CoGlobals` say who has the local and the global lock, by label and by
  `release_global`: a cohort that was passed the global lock has it without any of its
  threads having taken it. `CoAcquired` ties this to `acquired` and the number of
  passes, `CoReaders` the read counters of the three disciplines to the threads between
  announcement and departure. `CoPreserves` reduces each action to what it changes.
* `SqInv`: the distance from the version that a read began with to the present one is the
  number of writes begun and ended since, and each word is that of the last write that
  came to it, so that an unchanged version means unchanged words.
* `BoInv`: the time of the next attempt is ahead, and saturation loses nothing.
* `OtherInv`: barriers and event counts never take a label that the properties speak of.

**`FifoProofs`** proves of `ck_fifo_spsc` and `ck_fifo_mpmc`, for any threads and entries
and any number of calls (`QueuesAssumption`: null is no entry, no thread and no record, the
stub is no entry):

* `ReportsEmpty`: a dequeue that reports an empty queue found it empty at some moment of the
  call (`EmptyIsEmpty`);
* `FifoOrderAlways`: what leaves the two queues is what entered, in that order (their part of
  `LeavesInOrder`);
* `FifoInvAlways`: the inductive invariant `FifoInv` from which they follow.

The properties speak of completed calls. `FifoInv` has the history `abs`, the linked entries
in order, and says that their values are those enqueued and not dequeued. `SpInv` is that of
the single producer and consumer: `garbage`, `snapshot`, `head` and `tail` are in this order
along the chain, so that what a producer recycles is behind the consumer. In `MpInv` entries
are used again at once, and pointers are compared together with generations:

* `MpChain`: the tail is the last entry or the one before it;
* `MpGenerations`: the generation of a successor is no newer than that of the tail, which is
  why a compare-and-swap of a successor that succeeds is one of the last entry;
* `MpPlaces`: an entry is linked, with one caller, or in one call;
* `MpEnqueues`, `MpDequeues`: what a call has read through `tail` or `head` is true while the
  generation beside the pointer is the one it read. `MpTailChange` and `MpHeadChange` show
  that the steps which move the pointers keep this, `MpKeeps` that the others do.

**`HpProofs`** proves of `ck_hp` with `ck_hp_fifo` and `ck_hp_stack`, for any threads, records
and nodes, any thresholds and any limit of the cache of `ck_hp_reclaim`, threads that come
and go included:

* `FollowsLive`: no call follows a pointer to a destroyed node, or a null one (`NoUseAfterFree`);
* `OwnRecords`: a hazard record has one user (`HpRecordsExclusive`);
* `InOrder`: `LeavesInOrder`, with the two queues of `FifoProofs`;
* `HpUsersInvAlways`: the inductive invariant `HpUsersInv`.

Their hypothesis `Trys # {TRUE} \/ TRUE \notin Reuses` leaves out callers of
`ck_hp_fifo_trydequeue_mpmc` that enqueue nodes again: the initial states combine these two
only with the constants of `HpTryDequeue`, which shows the property false there (see 6).
`HpInv` is about `ck_hp` and is the same for both clients.

* `Guarded`: a slot protects an object from the moment in which the client, having published
  it, finds it to be linked still. `HpGuards` says that the slot then holds the pointer, and
  that the object has not been destroyed.
* `HpScan`: a call of `ck_hp_reclaim` that has a protected object among those still to look
  at has it in its cache, or the slot is ahead of the place it has come to, both while the
  cache is being filled and in the scan of the records the cache had no room for (`Covers`).
  An object is linked when protection begins and no call has it then; it comes to a call
  afterwards, with the whole list of records ahead.
* `HpPending`, `HpPlaces`: an object is pending once, and no object that is protected can be
  linked again, so that what was read of it stays true.
* `HpRecords`: who has which record, and which records a call in progress knows.

`HpPreserves` reduces the steps of `ck_hp` to what they change. `StInv` and `FfInv` add the
chains of the clients. In `FfInv` the head that a dequeue compares again cannot have become
the head for a second time (`Settled`); this is what fails where a try is combined with
nodes that are used again.

Only model-checked:

* liveness (`NoStarvation`, `Progress`, `LockFree`, `CallsReturn`, `SynchronizeReturns`,
  `NoLostWakeup`), which needs fairness and is outside of the prover's reach;
* `FenceOrders`, a statement about finite tables of which TLC checks every entry;
* `Together`: what a thread knows after round *k* of a dissemination or a tournament, or at
  a node of a combining or an MCS tree, concerns the 2^*k* threads before it or the subtree
  below it. That is an induction over the rounds or the tree, and the trees are themselves
  built by folds;
* `IterationSees` and `Linked`: what a traversal has yet to see is what can be reached from
  its cursor in a list that changes, and the operations move whole parts of a list at once.
  That is an induction along the chain;
* `Counted` and the refinement of `Dictionary`: a writer computes its stores by recursion
  over the probe sequence, about which nothing can be proved by induction here;
* the refinement of `AtomicWord`, which is a matter of the tables of `Pr` again.

## 6. Findings

`HpTryDequeue` is kept as a run. `ck_hp_fifo_trydequeue_mpmc` reads `head` and `tail`
before it publishes `head` in its hazard slot. The head may leave, be destroyed, be
enqueued again and become the stub of the queue again in between; the comparison with
the head then succeeds, the stale tail differs from it, and the null `next` of an empty
queue is swapped into the head and followed. `ck_hp_fifo_dequeue_mpmc` reads the tail
after the head is protected. The passing run calls the try form only with nodes that are
not used again.

The models also contain the following, which the passing runs stay clear of. Each is
shown by changing the constants of a run as said.

* `Ring` with `Sides <- Spsc` and the invariant `QuiescentIsValid`: `ck_ring_valid`
  compares `c_head` with `p_head`, which only the multi-producer interfaces advance. A
  ring in regular use through a single-producer interface is rejected, while the comment
  says that only an inconsistent ring is.
* `Stack` with `Modes = {"wf"}`: `ck_stack_batch_pop_mpmc_wf` advances the generation and
  swaps the head in two steps. A `ck_stack_pop_mpmc` that takes its snapshot in between is
  not invalidated, and puts an entry back on the stack that belongs to the batch's caller.
* `Epoch` with `Starts <- StartsSections` and the property `SectionsLetProgress`:
  `_ck_epoch_addref` observes the global epoch a second time. A tick between the two
  observations counts an outermost section under an epoch newer than the record's. If the
  following sections overlap, the record's epoch is never updated, and
  `ck_epoch_synchronize` does not return although every section ends. The reader of
  `regressions/ck_epoch/validate/ck_epoch_section_2.c` keeps a section open until the next
  tick, and would in that case wait for a tick that waits for it.
* `Epoch` with `Starts <- StartsShared`, three threads, three records and `Mod = 16`
  (three threads may tick more often, see `StartAssumption`): what is deferred
  with `ck_epoch_call_strict` onto a record that another thread is reclaiming may be
  dispatched without any grace period.
* `Primitives` with `WithDefects = TRUE`. The operations in `WrongResult`: `ck_pr_sub_ptr`
  of ppc and ppc64 subtracts the word from the argument; the pair compare-and-swap of
  aarch64 with LSE returns its result negated; `ck_pr_inc_ptr_zero`, where it is a
  fallback, compares a pointer with `UINT_MAX`. And those in `LostUpdate`: not and neg of
  s390x load the word twice, and compare with the second value what was computed from the
  first. And a fence: `doc/ck_pr_fence_unlock:44-46` says that on SPARCv9 `ck_pr_fence_unlock`
  "enforces ordering on load-store and store-load", `gcc/sparcv9/ck_pr.h:84` emits `membar
  #LoadStore | #StoreStore`, and a later load overtakes the store (`FenceOrders`). The code
  orders what the release of a lock needs, as `doc/ck_pr_fence_release` says it; the page is
  wrong. The passing run has the rest of what the page says.
* `Sync` with `Uses = {"any"}` violates `Exclusion`. `ck_bytelock.h:53` gives all threads
  without a slot the number `CK_BYTELOCK_UNSLOTTED`, and `ck_bytelock_read_lock` (131-135)
  takes whoever finds its number in `owner` for the writer that downgrades. A thread without
  a slot that reads while another one writes clears `owner`, is counted nowhere and enters
  beside the writer, as may everybody after it. The comment at line 138 says "Unslotted
  threads will have to use the readers counter.", and
  `regressions/ck_bytelock/validate/validate.c` checks that a reader never sees a writer's
  update, with a single thread without a slot. Nothing says that the number may be
  passed only by readers, or only by writers, which is what makes `Exclusion` hold. The same
  branch is wrong for a writer without a slot that downgrades, whatever its number: the store
  to `readers[slot - 1]` is outside of the array, the thread is not counted, and its unlock
  takes `n_readers` below 0, where writers do not get past it.
* `Sync` with `Scale = 1` violates `Progress`. The loop of `exponential_backoff`
  (`ck_ec.c:169-176`) goes on until a time is in the future and relies on the wait to grow;
  with a `wait_scale_factor` of 1, or a `wait_shift_count` that takes back what the factor
  adds, it does not, and the loop does not end. `ck_ec.h:345-357` allows any factor. The
  passing run doubles the wait, and the default is eightfold.
* `Containers` with `Generations = 16`: `ck_rhs_put_robin_hood` and
  `ck_rhs_do_backward_shift_delete` raise the generation of an object's first offset, which
  is below the capacity, and `ck_rhs_get` watches the one of the whole hash. Where the
  capacity is below the number of generations (1024) the two differ, and a reader misses
  an object that moves meanwhile. The passing run has no more generations than slots.
* `Containers` with `ApplyDeletes = TRUE`: `ck_rhs_apply` deletes an object and leaves
  `n_entries` as it was (`Counted`).

`ck_rhs_grow` counts who wants a slot without the limit that `ck_rhs_add_wanted` has: the
65536th makes the count 0, and a deletion then finds no successor. `WideOps` with
`MaxWanted <- 2` shows an object that is lost this way; a slot of a real table is hardly
wanted that often.

`doc/ck_rhs_fas:68`, as `doc/ck_hs_fas:68`, says that the function "is guaranteed to be stable
with respect to memory usage", and `Refuse` of `Dictionary` allows no fetch-and-store to
report that there is no memory. `ck_rhs_fas` has a path on which it may: where the probe
finds an earlier place for the object, `ck_rhs_put_robin_hood` moves what is there, may have
to grow the table for it and may fail to. `Fas` has this path. In no behaviour of `Containers`
is the chain of moves stuck when the object is already in the table; that it never is in a
larger one is not shown.

Also noted: an unregistered record's epoch of 0 becomes a valid epoch
after 2^32 ticks (`EpochLag` then fails by one epoch, `NoUseAfterFree` does not), and
`ck_epoch_end` with a section reports less than its comment says.

## 7. Not modelled, and the plan

`PROJECT.json` lists every component. Not modelled for good: `ck_elide.h` and `ck_pr_rtm.h`
(hardware transactions, whose aborts the program cannot observe), `ck_backoff.h` (a delay
is any interleaving), and the portability headers. `ck_bitmap.h` is sequential but for
single atomic bit operations.

Left out of modelled components: the `*size` results and `ck_ring_size` (loads without
consequence), the statistics, context pointer, wait callback and `pending`/`dispatched`
snapshots of `ck_epoch`, the statistics of `ck_hp`, the iteration macros of `ck_stack.h`
and `ck_fifo.h`, the deinitializers, the `*_locked` predicates of reader-writer locks
(one load), the iterators of the tables, `ck_hs_move` and `ck_rhs_move`, the byte strings of `ck_ht` (the
comparison of keys is one step), and the floating point operations of `ck_pr`. `Array` puts
no value twice, since `IterationSees` tells entries by their values; an allocation that fails
in `ck_array_put` changes nothing, and is a step that stutters.

Proofs that come next: `Together` for the barriers whose rounds are numbered (centralized,
dissemination), where the argument is about counters and not about trees, and the operations
of `Lists` and `Array` one by one.
