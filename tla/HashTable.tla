----------------------------- MODULE HashTable ------------------------------
(***************************************************************************)
(* What ck_hs, ck_ht and ck_rhs have in common: one writer, readers beside *)
(* it, a map with open addressing whose probe sequences are bounded, and a *)
(* new map that is published when the old one is too small.                *)
(*                                                                         *)
(* The writer alone changes the map, so what an operation finds and what   *)
(* it will store is settled when it probes.  The stores follow one by one, *)
(* in program order: todo is a sequence of records, each with the fields   *)
(* that one store gives new values.                                        *)
(*                                                                         *)
(* A map that was replaced is not freed before its readers are done (the   *)
(* allocator defers it) and never changes again: a reader keeps a copy.    *)
(***************************************************************************)
EXTENDS Threaded, FiniteSetsExt

CONSTANTS
  Keys, Vals, Hash,   \* Hash[k] is the hash of key k
  ReadKeys,           \* the keys that readers look for
  OpsOn,              \* OpsOn[k] are the operations that the writer calls on k
  Writer,             \* the thread that writes; the others read
  Tombstone,          \* the mark of a slot whose entry was deleted
  BucketLength,       \* slots of a cache line
  ProbeLimit,         \* the most probes of an insertion
  WordMax,            \* the largest value of a probe bound
  Slot,               \* Slot[c][k] is the probe sequence of k in capacity c (in Rhs: of an offset)
  DeleteModes,        \* whether the map has bounds: for each bucket, TRUE
  MaxOverlap,         \* how many operations of the writer begin during a read
  Pending, NoMemory   \* of the abstract dictionary

Readers == Threads \ {Writer}
W == r[Writer]

-----------------------------------------------------------------------------
(* Bounds of probes, and growth.                                             *)

\* bound_set: raise the maximum, and the bound of the bucket as far as it goes.
BoundSet(map, h, n) ==
  LET b == h % map.cap
      word == IF n > WordMax THEN WordMax ELSE n
  IN  (IF n > map.max THEN <<[max |-> n]>> ELSE <<>>)
      \o (IF map.delete /\ map.bound[b] < n
          THEN <<[bound |-> [map.bound EXCEPT ![b] = word]]>> ELSE <<>>)

\* bound_get, for the writer and for the state as a whole.
Saturated(map, h) == ~map.delete \/ map.bound[h % map.cap] = WordMax
BoundGet(map, h) == IF Saturated(map, h) THEN map.max ELSE map.bound[h % map.cap]

\* The map after all stores of a sequence.
After(map, stores) ==
  LET f[i \in 0 .. Len(stores)] == IF i = 0 THEN map ELSE stores[i] @@ f[i - 1]
  IN  f[Len(stores)]

\* Growth doubles the capacity until every entry fits; rebuilt has the map of
\* each capacity.  malloc fails unless ok, and for capacities that Slot does
\* not have.
Grown(rebuilt, cap, ok) ==
  LET fit == {c \in DOMAIN Slot : c >= cap /\ rebuilt[c] # NULL}
  IN  IF ~ok \/ fit = {} THEN NULL ELSE rebuilt[Min(fit)]
\* The store of a map that could be built.
Publish(map) == IF map = NULL THEN <<>> ELSE <<[publish |-> map]>>

-----------------------------------------------------------------------------
(* The writer: call, probe, store, return.                                   *)

WriterIdle ==
  [op |-> NULL, key |-> NULL, val |-> NULL, old |-> Pending, want |-> NULL, todo |-> <<>>,
   then |-> NULL, i |-> 0, left |-> 0, max |-> 0, bounds |-> NULL]

\* An operation begins, with stores to make if it has no probe.
Begin(label, locals) ==
  /\ Step(Writer, "idle", label)
  /\ \A t \in Readers : r[t].overlap < MaxOverlap
  /\ r' = [t \in Threads |-> IF t = Writer THEN locals @@ W
                            ELSE [r[t] EXCEPT !.overlap = IF At(t, "idle") THEN 0 ELSE @ + 1]]
  /\ Local
Call(op, k, v) == Begin("probe", [op |-> op, key |-> k, val |-> v])

\* The operation makes the stores and then goes to label then.
Make(stores, then, locals) ==
  /\ Go(Writer, IF stores = <<>> THEN then ELSE "store")
  /\ Put(Writer, [todo |-> stores, then |-> then] @@ locals)
  /\ Local
\* It has found old, and leaves want, which it then returns.
Finish(stores, old, want) == Make(stores, "return", [old |-> old, want |-> want])
\* It probes again in the map that has grown, or returns false; it has made
\* stores meanwhile.
GrowAndRestart(stores, map, old) ==
  IF map = NULL THEN Finish(stores, NoMemory, old)
  ELSE Make(stores \o Publish(map), "probe", [old |-> Pending])

Holds(t) == pc[t] \notin {"idle", "g_map", "got"}
\* The map after a store; to increment a generation changes nothing else.
Stored(s) ==
  IF "publish" \in DOMAIN s THEN s.publish ELSE IF "signal" \in DOMAIN s THEN m ELSE s @@ m

\* dict is what the map then has for every key; dict and seen are history.
\* The writer's numbers in a map that was replaced are of no use to its readers.
Store(dict) ==
  LET s == Head(W.todo)
      watch(t) ==
        [r[t] EXCEPT
           !.seen = IF r[t].key = NULL THEN {} ELSE @ \cup {dict[r[t].key]},
           !.old = IF "publish" \in DOMAIN s /\ Holds(t) /\ @ = NULL
                   THEN [n |-> 0, probes |-> NULL, wanted |-> NULL] @@ m ELSE @,
           !.g = IF "signal" \in DOMAIN s /\ r[t].old = NULL /\ @ = s.signal THEN NULL ELSE @]
  IN  /\ At(Writer, "store")
      /\ Go(Writer, IF Len(W.todo) = 1 THEN W.then ELSE "store")
      /\ m' = Stored(s)
      /\ r' = [t \in Threads |-> IF t = Writer THEN [W EXCEPT !.todo = Tail(@), !.dict = dict]
                                ELSE watch(t)]

Return == Step(Writer, "return", "idle") /\ Put(Writer, WriterIdle) /\ Local

-----------------------------------------------------------------------------
(* Collection: every entry, or the first that is found from a seed on, is     *)
(* moved to an earlier tombstone; after all entries the bounds are set again. *)
(* The stores to the bounds are one: a reader looks at one of them.           *)

GcCall ==
  LET zeros == [i \in DOMAIN m.bound |-> 0]
  IN  IF m.n = 0
      THEN Begin("store", [op |-> "gc", todo |-> <<[max |-> 0], [bound |-> zeros]>>, then |-> "return"])
      ELSE \E all \in BOOLEAN, seed \in DOMAIN m.bound :
             /\ all => seed = 0
             /\ Begin("gc", [op |-> "gc", i |-> seed, left |-> m.cap, max |-> IF all THEN 0 ELSE m.max,
                             bounds |-> IF all THEN zeros ELSE NULL])

\* The maximum and the bounds, when an entry of k takes n probes.
Longest(k, n) ==
  LET word == IF n > WordMax THEN WordMax ELSE n
  IN  [max |-> IF n > W.max THEN n ELSE W.max,
       bounds |-> [W.bounds EXCEPT ![Hash[k] % m.cap] = IF word > @ THEN word ELSE @]]

GcBounds ==
  /\ At(Writer, "gc") /\ W.left = 0
  /\ Make((IF W.max # m.max THEN <<[max |-> W.max]>> ELSE <<>>)
          \o (IF W.bounds # NULL /\ m.delete THEN <<[bound |-> W.bounds]>> ELSE <<>>),
          "return", [i |-> 0, max |-> 0, bounds |-> NULL])

-----------------------------------------------------------------------------
(* A reader: get.                                                            *)

ReaderIdle ==
  [key |-> NULL, seen |-> {}, got |-> Pending, old |-> NULL, g |-> NULL,
   bound |-> 0, n |-> 0, obj |-> NULL, overlap |-> 0]

Map(t) == IF r[t].old # NULL THEN r[t].old ELSE m

Read(t) ==
  /\ Step(t, "idle", "g_gen") /\ Local
  /\ \E k \in ReadKeys : Put(t, [key |-> k, seen |-> {W.dict[k]}])
Reload(t) == Step(t, "g_map", "g_gen") /\ Local /\ UNCHANGED r
\* What is kept of a generation is which one was loaded, and whether it has
\* changed since: it does not wrap around during a read.
LoadGeneration(t, b) == Step(t, "g_gen", "g_bound") /\ Put(t, [g |-> b]) /\ Local
\* A bound that is saturated, or none, makes it read the maximum.
LoadBound(t) ==
  LET h == Hash[r[t].key]
  IN  /\ At(t, "g_bound") /\ Local
      /\ IF Saturated(Map(t), h) THEN Go(t, "g_max") /\ UNCHANGED r
         ELSE Go(t, "g_probe") /\ Put(t, [bound |-> Map(t).bound[h % Map(t).cap], n |-> 1])
LoadMaximum(t) == Step(t, "g_max", "g_probe") /\ Put(t, [bound |-> Map(t).max, n |-> 1]) /\ Local
\* The probe has ended with obj.
Found(t, obj) == Go(t, "g_check") /\ Put(t, [obj |-> obj, n |-> 0, bound |-> 0])
Check(t) ==
  /\ At(t, "g_check") /\ Local
  /\ IF r[t].g # NULL
     THEN Go(t, "got") /\ Put(t, [got |-> r[t].obj, g |-> NULL, old |-> NULL, obj |-> NULL])
     ELSE Go(t, "g_map") /\ Put(t, [obj |-> NULL, g |-> NULL, old |-> NULL])
GetReturn(t) == Step(t, "got", "idle") /\ Put(t, ReaderIdle) /\ Local

-----------------------------------------------------------------------------
(* The dictionary that the table implements.                                 *)

\* The call is settled once the map has what the operation leaves.
AbstractCall ==
  LET keys == IF W.op = "reset" THEN Keys ELSE {W.key}
      settled == W.old = NoMemory \/ (W.old # Pending /\ \A k \in keys : W.dict[k] = W.want)
  IN  IF W.op \in {NULL, "gc", "grow"} THEN NULL
      ELSE [op |-> W.op, key |-> W.key, val |-> W.val,
            old |-> IF settled THEN W.old ELSE Pending]
AbstractReads ==
  [t \in Readers |-> IF r[t].key = NULL THEN NULL
                     ELSE [key |-> r[t].key, seen |-> r[t].seen, got |-> r[t].got]]
=============================================================================
