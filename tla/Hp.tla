--------------------------------- MODULE Hp ---------------------------------
(***************************************************************************)
(* Hazard pointers, src/ck_hp.c and include/ck_hp.h: records that threads  *)
(* register, recycle and unregister, in whose slots they publish the       *)
(* pointers they are about to follow, and the lists of retired objects     *)
(* that are destroyed once no slot holds them.                             *)
(*                                                                         *)
(* Clients extend this module and add their fields to m and r.  dead holds *)
(* the objects destroyed, to be used again; joins bounds how often a       *)
(* thread registers or recycles.  n_subscribers, n_peak and n_reclamations *)
(* are only counted and left out.                                          *)
(***************************************************************************)
EXTENDS Threaded

CONSTANTS
  Records,       \* the records
  CacheLimit,    \* CK_HP_CACHE
  Thresholds     \* the values ck_hp_init and ck_hp_set_threshold may set

\* The fields of two records.
Both(f, g) == [x \in DOMAIN f \cup DOMAIN g |-> IF x \in DOMAIN f THEN f[x] ELSE g[x]]

\* The slots of a record, when it has degree of them.
Empty(degree) == [i \in 0 .. degree - 1 |-> NULL]

\* ck_hp_init.
HpMem(degree, threshold, joins) ==
  [subs |-> <<>>, state |-> [x \in Records |-> "new"], n_free |-> 0,
   ptr |-> [x \in Records |-> Empty(degree)], pending |-> [x \in Records |-> <<>>],
   dead |-> {}, degree |-> degree, threshold |-> threshold, joins |-> joins]
HpScratch ==
  [list |-> <<>>, pos |-> 1, i |-> 0, cache |-> {}, n |-> 0, marker |-> 0,
   todo |-> <<>>, kept |-> <<>>, purge |-> FALSE]
HpLocals == Both([rec |-> NULL, joins |-> 0], HpScratch)

Mine(t) == r[t].rec
\* ck_hp_set and ck_hp_set_fence: one store, visible before what follows.
Publish(t, i, p) == m' = [m EXCEPT !.ptr[Mine(t)][i] = p]
\* ck_hp_clear, between operations; one step, as its stores are not ordered.
Clear(t) ==
  /\ At(t, "idle")
  /\ m.ptr[Mine(t)] # Empty(m.degree)
  /\ m' = [m EXCEPT !.ptr[Mine(t)] = Empty(m.degree)]
  /\ UNCHANGED <<pc, r>>

-----------------------------------------------------------------------------
(* Records. *)

\* ck_hp_register: the record is pushed in front of the subscribers.
Register(t) ==
  /\ At(t, "out") /\ Go(t, "idle")
  /\ r[t].joins < m.joins
  /\ \E x \in {y \in Records : m.state[y] = "new"} :
       /\ m' = [m EXCEPT !.state[x] = "used", !.subs = <<x>> \o @,
                         !.ptr[x] = Empty(m.degree), !.pending[x] = <<>>]
       /\ Put(t, [rec |-> x, joins |-> r[t].joins + 1])

\* ck_hp_recycle: look for a free record, and take it by fetch-and-store.
RecycleCall(t) ==
  /\ At(t, "out")
  /\ r[t].joins < m.joins /\ m.n_free > 0
  /\ Go(t, "look")
  /\ Put(t, [list |-> m.subs, pos |-> 1, joins |-> r[t].joins + 1])
  /\ Local

RecycleLook(t) ==
  LET l == r[t]
  IN  /\ At(t, "look")
      /\ IF l.pos > Len(l.list) THEN Go(t, "out") /\ Put(t, HpScratch)
         ELSE IF m.state[l.list[l.pos]] = "free" THEN Go(t, "take") /\ UNCHANGED r
         ELSE Put(t, [pos |-> l.pos + 1]) /\ UNCHANGED pc
      /\ Local

\* Mutant: what the record's state was is not looked at.
RecycleTakeBlind(t) ==
  /\ Step(t, "take", "taken")
  /\ m' = [m EXCEPT !.state[r[t].list[r[t].pos]] = "used"]
  /\ Put(t, [rec |-> r[t].list[r[t].pos]])
RecycleTake(t) ==
  LET l == r[t]
      x == l.list[l.pos]
  IN  /\ At(t, "take")
      /\ m' = [m EXCEPT !.state[x] = "used"]
      /\ IF m.state[x] = "free" THEN Go(t, "taken") /\ Put(t, [rec |-> x])
         ELSE Go(t, "look") /\ Put(t, [pos |-> l.pos + 1])

RecycleCount(t) ==
  Step(t, "taken", "idle") /\ m' = [m EXCEPT !.n_free = @ - 1] /\ Put(t, HpScratch)

\* ck_hp_unregister forgets what is pending: the callers purge before.
Unregister(t) ==
  /\ Step(t, "idle", "left")
  /\ m.pending[Mine(t)] = <<>>
  /\ m' = [m EXCEPT !.state[Mine(t)] = "free"]
  /\ UNCHANGED r
UnregisterCount(t) ==
  /\ Step(t, "left", "out")
  /\ m' = [m EXCEPT !.n_free = @ + 1]
  /\ Put(t, [rec |-> NULL])

-----------------------------------------------------------------------------
(* Retirement. *)

\* ck_hp_retire, and ck_hp_free, which reclaims at the threshold.
Retire(t, x) == m' = [m EXCEPT !.pending[Mine(t)] = <<x>> \o @]
AfterFree(t) ==
  IF Len(m.pending[Mine(t)]) + 1 >= m.threshold THEN Go(t, "reclaim") ELSE Go(t, "idle")

\* ck_hp_purge reclaims until nothing is pending.
Purge(t) ==
  /\ Step(t, "idle", "reclaim")
  /\ m.pending[Mine(t)] # <<>>
  /\ Put(t, [purge |-> TRUE])
  /\ Local

\* ck_hp_reclaim starts with a snapshot of the list of records.
Reclaim(t) ==
  /\ Step(t, "reclaim", "cache_record")
  /\ Put(t, [list |-> m.subs, pos |-> 1, cache |-> {}, n |-> 0, marker |-> 0,
             todo |-> m.pending[Mine(t)], kept |-> <<>>])
  /\ Local

\* ck_hp_member_cache: the pointers of the records in use, as many as fit.
\* marker is the record at which the cache was full, 0 if it never was.
CacheRecord(t) ==
  LET l == r[t]
  IN  /\ At(t, "cache_record")
      /\ IF l.pos > Len(l.list) THEN Go(t, "sweep") /\ UNCHANGED r
         ELSE IF m.state[l.list[l.pos]] = "free"
         THEN Put(t, [pos |-> l.pos + 1]) /\ UNCHANGED pc
         ELSE Go(t, "cache_slot") /\ Put(t, [i |-> 0])
      /\ Local

\* Mutant: the record at which the cache was full is taken for cached.
CacheSlotSkip(t) ==
  LET l == r[t]
      p == m.ptr[l.list[l.pos]][l.i]
      more == l.i + 1 < m.degree
  IN  /\ At(t, "cache_slot")
      /\ IF l.n >= CacheLimit
         THEN /\ Go(t, "sweep")
              /\ Put(t, [marker |-> IF l.pos = Len(l.list) THEN 0 ELSE l.pos + 1])
         ELSE /\ Put(t, [i |-> IF more THEN l.i + 1 ELSE 0, pos |-> IF more THEN l.pos ELSE l.pos + 1,
                         cache |-> l.cache \cup ({p} \ {NULL}), n |-> IF p = NULL THEN l.n ELSE l.n + 1])
              /\ Go(t, IF more THEN "cache_slot" ELSE "cache_record")
      /\ Local

CacheSlot(t) ==
  LET l == r[t]
      p == m.ptr[l.list[l.pos]][l.i]
      more == l.i + 1 < m.degree
  IN  /\ At(t, "cache_slot")
      /\ IF l.n >= CacheLimit THEN Go(t, "sweep") /\ Put(t, [marker |-> l.pos])
         ELSE /\ Put(t, [i |-> IF more THEN l.i + 1 ELSE 0, pos |-> IF more THEN l.pos ELSE l.pos + 1,
                         cache |-> l.cache \cup ({p} \ {NULL}), n |-> IF p = NULL THEN l.n ELSE l.n + 1])
              /\ Go(t, IF more THEN "cache_slot" ELSE "cache_record")
      /\ Local

\* Every pending object is kept when it is cached, looked for in the records
\* from the marker on when there is one, and destroyed otherwise.
Keep(l) == [todo |-> Tail(l.todo), kept |-> Append(l.kept, Head(l.todo))]
Destroyed(t, l) ==
  [m EXCEPT !.dead = @ \cup {Head(l.todo)}, !.pending[Mine(t)] = l.kept \o Tail(l.todo)]

Sweep(t) ==
  LET l == r[t]
  IN  /\ At(t, "sweep")
      /\ l.todo # <<>>
      /\ \/ /\ Head(l.todo) \in l.cache
            /\ Put(t, Keep(l)) /\ UNCHANGED <<m, pc>>
         \/ /\ Head(l.todo) \notin l.cache /\ l.marker # 0
            /\ Go(t, "scan_record") /\ Put(t, [pos |-> l.marker]) /\ Local
         \/ /\ Head(l.todo) \notin l.cache /\ l.marker = 0
            /\ m' = Destroyed(t, l) /\ Put(t, [todo |-> Tail(l.todo)]) /\ UNCHANGED pc

SweepDone(t) ==
  /\ At(t, "sweep")
  /\ r[t].todo = <<>>
  /\ IF r[t].purge /\ r[t].kept # <<>> THEN Go(t, "reclaim") /\ UNCHANGED r
     ELSE Go(t, "idle") /\ Put(t, HpScratch)
  /\ Local

\* ck_hp_member_scan.
ScanRecord(t) ==
  LET l == r[t]
  IN  /\ At(t, "scan_record")
      /\ IF l.pos > Len(l.list)
         THEN Go(t, "sweep") /\ m' = Destroyed(t, l) /\ Put(t, [todo |-> Tail(l.todo)])
         ELSE /\ IF m.state[l.list[l.pos]] = "free"
                 THEN Put(t, [pos |-> l.pos + 1]) /\ UNCHANGED pc
                 ELSE Go(t, "scan_slot") /\ Put(t, [i |-> 0])
              /\ Local

ScanSlot(t) ==
  LET l == r[t]
  IN  /\ At(t, "scan_slot")
      /\ IF m.ptr[l.list[l.pos]][l.i] = Head(l.todo) THEN Go(t, "sweep") /\ Put(t, Keep(l))
         ELSE IF l.i + 1 < m.degree THEN Put(t, [i |-> l.i + 1]) /\ UNCHANGED pc
         ELSE Go(t, "scan_record") /\ Put(t, [pos |-> l.pos + 1])
      /\ Local

\* ck_hp_set_threshold, by anyone at any time.
SetThreshold ==
  /\ \E n \in Thresholds \ {m.threshold} : m' = [m EXCEPT !.threshold = n]
  /\ UNCHANGED <<pc, r>>

HpStep(t) ==
  \/ Clear(t) \/ Register(t) \/ RecycleCall(t) \/ RecycleLook(t) \/ RecycleTake(t) \/ RecycleCount(t)
  \/ Unregister(t) \/ UnregisterCount(t)
  \/ Purge(t) \/ Reclaim(t) \/ CacheRecord(t) \/ CacheSlot(t)
  \/ Sweep(t) \/ SweepDone(t) \/ ScanRecord(t) \/ ScanSlot(t)

-----------------------------------------------------------------------------
\* A record that a thread has registered or recycled, and not released, is
\* its own.
Holds(t) == pc[t] # "left" /\ Mine(t) # NULL
RecordsExclusive ==
  \A t, u \in Threads : t # u /\ Holds(t) /\ Holds(u) => Mine(t) # Mine(u)
=============================================================================
