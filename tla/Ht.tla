--------------------------------- MODULE Ht ---------------------------------
(***************************************************************************)
(* The hash table, src/ck_ht.c, in its single-writer form.  A slot has two *)
(* words, its key and its value, which a reader loads one after the other. *)
(* deletions changes before a slot is used again and before an entry that  *)
(* was moved is deleted; a reader that sees it change starts again.        *)
(*                                                                         *)
(* Keys are compared by value, and packed pointers are assumed: the length *)
(* of a key and the bits of its hash share the words.                      *)
(***************************************************************************)
EXTENDS HashTable

\* What HashTable calls the generation that a reader watches.
Deletions == "deletions"
IsKey(x) == x \notin {NULL, Tombstone}

Create(cap, delete) ==
  [cap |-> cap, delete |-> delete, key |-> [i \in 0 .. cap - 1 |-> NULL],
   val |-> [i \in 0 .. cap - 1 |-> NULL], max |-> 0, bound |-> [i \in 0 .. cap - 1 |-> 0], n |-> 0]

Init ==
  /\ \E delete \in DeleteModes : m = Create(BucketLength, delete)
  /\ pc = [t \in Threads |-> "idle"]
  /\ r = [t \in Threads |-> IF t = Writer THEN [dict |-> [k \in Keys |-> NULL]] @@ WriterIdle
                            ELSE ReaderIdle]

-----------------------------------------------------------------------------
(* Probes by the writer.                                                     *)

\* ck_ht_map_probe_wr, for at most limit slots: the slot of k or the empty
\* one, and the first tombstone, with the number of probes to each.
ProbeWr(map, k, limit) ==
  LET at(n) == map.key[Slot[map.cap][k][n]]
      stops == {n \in 1 .. limit : at(n) \in {NULL, k}}
      stop == IF stops = {} THEN limit + 1 ELSE Min(stops)
      tombs == {n \in 1 .. stop - 1 : at(n) = Tombstone}
  IN  [slot |-> IF stops = {} THEN NULL ELSE Slot[map.cap][k][stop],
       there |-> stops # {} /\ at(stop) = k,
       first |-> IF tombs = {} THEN NULL ELSE Slot[map.cap][k][Min(tombs)],
       n |-> IF tombs = {} THEN stop ELSE Min(tombs)]

\* A probe for an entry goes one slot beyond the bound.
Reach(map, k) == Min({ProbeLimit, BoundGet(map, Hash[k]) + 1})
ProbeRd(map, k) == ProbeWr(map, k, Reach(map, k))
Value(map, k) == LET p == ProbeRd(map, k) IN IF p.there THEN map.val[p.slot] ELSE NULL

-----------------------------------------------------------------------------
(* Stores. *)

Signal == <<[signal |-> Deletions]>>
\* The value of an entry is stored before its key.
Fill(map, at, k, v) ==
  <<[val |-> [map.val EXCEPT ![at] = v]], [key |-> [map.key EXCEPT ![at] = k]]>>
\* The entry moves to the tombstone: it is there before the old one goes.
Move(map, k, v, p) ==
  LET fill == Fill(map, p.first, k, v)
  IN  Signal \o fill \o Signal
      \o <<[key |-> [After(map, fill).key EXCEPT ![p.slot] = Tombstone]]>>
\* An entry that is new goes to the tombstone, or to the slot where the probe
\* ended, which may be its own.
Into(p) == IF p.first # NULL THEN p.first ELSE p.slot
\* Readers are told before a tombstone is used again.
Announce(p) == IF p.first # NULL THEN Signal ELSE <<>>

\* ck_ht_grow_spmc, into a new map of capacity cap.
Rebuilt(map, cap) ==
  LET insert(new, k, v) ==
        LET slots == Slot[cap][k]
            free == {n \in 1 .. ProbeLimit : new.key[slots[n]] = NULL}
            n == Min(free)
            placed == [new EXCEPT !.key[slots[n]] = k, !.val[slots[n]] = v, !.n = @ + 1]
        IN  IF free = {} THEN NULL ELSE After(placed, BoundSet(placed, Hash[k], n))
      f[i \in 0 .. map.cap] ==
        IF i = 0 THEN Create(cap, map.delete)
        ELSE IF f[i - 1] = NULL \/ ~IsKey(map.key[i - 1]) THEN f[i - 1]
        ELSE insert(f[i - 1], map.key[i - 1], map.val[i - 1])
  IN  f[map.cap]
Grow(map, cap, ok) == Grown([c \in DOMAIN Slot |-> Rebuilt(map, c)], cap, ok)
\* The load factor is one half.
Relieve(map, ok) == IF 2 * map.n > map.cap THEN Publish(Grow(map, 2 * map.cap, ok)) ELSE <<>>

-----------------------------------------------------------------------------
(* The writer's operations.                                                  *)

Full(p) == p.slot = NULL /\ p.first = NULL

\* The bound is raised before the entry is there.
PutSpmc ==
  LET k == W.key
      p == ProbeWr(m, k, ProbeLimit)
      old == IF p.there THEN m.val[p.slot] ELSE NULL
      stores == Announce(p) \o BoundSet(m, Hash[k], p.n) \o Fill(m, Into(p), k, W.val)
                \o <<[n |-> m.n + 1]>>
  IN  /\ At(Writer, "probe") /\ W.op = "put"
      /\ \E ok \in BOOLEAN :
         IF Full(p) THEN GrowAndRestart(<<>>, Grow(m, 2 * m.cap, ok), old)
         ELSE IF p.there THEN Finish(<<>>, old, old)
         ELSE Finish(stores \o Relieve(After(m, stores), ok), old, W.val)

\* The bound is raised after the entry is there.
SetSpmc ==
  LET k == W.key
      p == ProbeWr(m, k, ProbeLimit)
      old == IF p.there THEN m.val[p.slot] ELSE NULL
      placed == (IF p.there /\ p.first # NULL THEN Move(m, k, W.val, p)
                 ELSE Announce(p) \o Fill(m, Into(p), k, W.val))
                \o (IF p.there THEN <<>> ELSE <<[n |-> m.n + 1]>>)
      stores == placed \o BoundSet(m, Hash[k], p.n)
  IN  /\ At(Writer, "probe") /\ W.op = "set"
      /\ \E ok \in BOOLEAN :
         IF Full(p) THEN GrowAndRestart(<<>>, Grow(m, 2 * m.cap, ok), old)
         ELSE Finish(stores \o Relieve(After(m, stores), ok), old, W.val)

RemoveSpmc ==
  LET p == ProbeRd(m, W.key)
      old == IF p.there THEN m.val[p.slot] ELSE NULL
  IN  /\ At(Writer, "probe") /\ W.op = "remove"
      /\ Finish(IF p.there THEN <<[key |-> [m.key EXCEPT ![p.slot] = Tombstone]], [n |-> m.n - 1]>>
                ELSE <<>>, old, NULL)

ResetSpmc ==
  /\ At(Writer, "probe") /\ W.op = "reset"
  /\ \/ Finish(Publish(Create(m.cap, m.delete)), NULL, NULL)
     \/ Finish(<<>>, NoMemory, NULL)

Calls ==
  \E k \in Keys : \E op \in OpsOn[k] :
    \E v \in IF op \in {"remove", "reset"} THEN {NULL} ELSE Vals[k] : Call(op, k, v)

\* ck_ht_grow_spmc, called with a larger capacity.
GrowSpmc ==
  LET map == Grow(m, 2 * m.cap, TRUE)
  IN  /\ At(Writer, "idle") /\ map # NULL
      /\ Begin("store", [op |-> "grow", todo |-> Publish(map), then |-> "return"])

GcEntry ==
  LET k == m.key[W.i]
      p == ProbeRd(m, k)
      stores == IF p.first # NULL THEN Move(m, k, m.val[p.slot], p) ELSE <<>>
      next == [i |-> (W.i + 1) % m.cap, left |-> W.left - 1]
  IN  /\ At(Writer, "gc") /\ W.left > 0
      /\ IF ~IsKey(k) THEN Make(<<>>, "gc", next)
         ELSE IF W.bounds = NULL THEN Make(stores, "gc", [left |-> 0])
         ELSE Make(stores, "gc", Longest(k, p.n) @@ next)

Write ==
  \/ Calls \/ PutSpmc \/ SetSpmc \/ RemoveSpmc \/ ResetSpmc
  \/ GrowSpmc \/ GcCall \/ GcEntry \/ GcBounds
  \/ Store([k \in Keys |-> Value(Stored(Head(W.todo)), k)]) \/ Return

-----------------------------------------------------------------------------
(* ck_ht_get_spmc.                                                           *)

\* Load the key of a slot, and where it is the one, the value.
ProbeKey(t) ==
  LET l == r[t]
      x == Map(t).key[Slot[Map(t).cap][l.key][l.n]]
  IN  /\ At(t, "g_probe") /\ Local
      /\ IF l.n > Min({ProbeLimit, l.bound + 1}) \/ x = NULL THEN Found(t, NULL)
         ELSE IF x = l.key THEN Go(t, "g_value") /\ UNCHANGED r
         ELSE Put(t, [n |-> l.n + 1]) /\ UNCHANGED pc
ProbeValue(t) ==
  /\ At(t, "g_value") /\ Local
  /\ Found(t, Map(t).val[Slot[Map(t).cap][r[t].key][r[t].n]])

Get(t) ==
  \/ Read(t) \/ Reload(t) \/ LoadGeneration(t, Deletions) \/ LoadBound(t) \/ LoadMaximum(t)
  \/ ProbeKey(t) \/ ProbeValue(t) \/ Check(t) \/ GetReturn(t)

Next == Write \/ \E t \in Readers : Get(t)
-----------------------------------------------------------------------------
\* ck_ht_count: entries are counted right between operations.
Counted == At(Writer, "idle") => m.n = Cardinality({i \in DOMAIN m.key : IsKey(m.key[i])})
=============================================================================
