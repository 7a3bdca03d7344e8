--------------------------------- MODULE Hs ---------------------------------
(***************************************************************************)
(* The hash set, src/ck_hs.c.  A slot holds a pointer to an object, here   *)
(* <<key, value>>: two objects with the same key are equal to the compare  *)
(* callback.  An entry that is moved to an earlier tombstone is in two     *)
(* slots for a while; the generations of the map, one for each value of    *)
(* the lowest bit of the hash, make readers probe again.                   *)
(*                                                                         *)
(* The hash bits packed into a pointer only save comparisons: left out.    *)
(***************************************************************************)
EXTENDS HashTable

Object(k, v) == <<k, v>>
IsObject(x) == x \notin {NULL, Tombstone}
ValueOf(x) == IF x = NULL THEN NULL ELSE x[2]
\* The generation that entries with the key's hash share.
G(k) == IF Hash[k] % 2 = 0 THEN "even" ELSE "odd"

Create(cap, delete) ==
  [cap |-> cap, delete |-> delete, ent |-> [i \in 0 .. cap - 1 |-> NULL],
   max |-> 0, bound |-> [i \in 0 .. cap - 1 |-> 0],
   n |-> 0, tombstones |-> 0]

Init ==
  /\ \E delete \in DeleteModes : m = Create(BucketLength, delete)
  /\ pc = [t \in Threads |-> "idle"]
  /\ r = [t \in Threads |-> IF t # Writer THEN ReaderIdle
                           ELSE [dict |-> [k \in Keys |-> NULL]] @@ WriterIdle]

-----------------------------------------------------------------------------
(* ck_hs_map_probe by the writer.                                            *)

\* The probe for k, behaviour how, with probe limit opl.  An insertion goes
\* on beyond the bound of the bucket unless it has found a tombstone, and
\* beyond it is content with one.  The result has the slot where it stopped,
\* the first tombstone, the object, and the number of probes.
Probe(map, k, opl, how) ==
  LET at(n) == map.ent[Slot[map.cap][k][n]]
      bound == IF how = "insert" THEN BoundGet(map, Hash[k]) ELSE opl
      tombs(n) == {p \in 1 .. n : at(p) = Tombstone}
      beyond(n) == n > opl \/ (n = bound + 1 /\ tombs(bound) # {})
      stops(n) ==
        \/ beyond(n)
        \/ at(n) = NULL
        \/ IsObject(at(n)) /\ at(n)[1] = k
        \/ at(n) = Tombstone /\ (how = "tombstone" \/ n > bound)
      stop == Min({n \in 1 .. opl + 1 : stops(n)})
      passed == tombs(IF beyond(stop) THEN stop - 1 ELSE stop)
      found == ~beyond(stop) /\ at(stop) # Tombstone
  IN  [slot |-> IF found THEN Slot[map.cap][k][stop] ELSE NULL,
       first |-> IF passed = {} THEN NULL ELSE Slot[map.cap][k][Min(passed)],
       object |-> IF found THEN at(stop) ELSE NULL,
       n |-> IF passed = {} THEN stop ELSE Min(passed)]

\* The probe for an entry that is or is not there: up to its bound.
ProbeFor(map, k) == Probe(map, k, BoundGet(map, Hash[k]), "probe")
\* What a reader finds that is not disturbed.
Value(map, k) == ValueOf(ProbeFor(map, k).object)

-----------------------------------------------------------------------------
(* Stores. *)

\* Mutant: readers are told before the new copy is there.
MoveSignalFirst(map, k, p, o) ==
  LET new == [map.ent EXCEPT ![p.first] = o]
  IN  <<[signal |-> G(k)], [ent |-> new], [ent |-> [new EXCEPT ![p.slot] = Tombstone]]>>
\* The new copy, ck_hs_map_signal, and the old copy.
Move(map, k, p, o) ==
  LET new == [map.ent EXCEPT ![p.first] = o]
  IN  <<[ent |-> new], [signal |-> G(k)], [ent |-> [new EXCEPT ![p.slot] = Tombstone]]>>

\* Store o in the first tombstone, where an object found later moves to, or
\* in the slot where the probe ended.
Place(map, k, p, o) ==
  IF p.first # NULL
  THEN IF p.object # NULL THEN Move(map, k, p, o)
       ELSE <<[ent |-> [map.ent EXCEPT ![p.first] = o], tombstones |-> map.tombstones - 1]>>
  ELSE <<[ent |-> [map.ent EXCEPT ![p.slot] = o]]>>

\* ck_hs_grow, into a new map of capacity cap; NULL if an entry does not fit.
Rebuilt(map, cap) ==
  LET insert(new, o) ==
        LET slots == Slot[cap][o[1]]
            free == {n \in 1 .. ProbeLimit : new.ent[slots[n]] = NULL}
            n == Min(free)
            placed == [new EXCEPT !.ent[slots[n]] = o, !.n = @ + 1]
        IN  IF free = {} THEN NULL ELSE After(placed, BoundSet(placed, Hash[o[1]], n))
      f[i \in 0 .. map.cap] ==
        IF i = 0 THEN Create(cap, map.delete)
        ELSE IF f[i - 1] = NULL \/ ~IsObject(map.ent[i - 1]) THEN f[i - 1]
        ELSE insert(f[i - 1], map.ent[i - 1])
  IN  f[map.cap]
Grow(map, cap, ok) == Grown([c \in DOMAIN Slot |-> Rebuilt(map, c)], cap, ok)

\* ck_hs_map_postinsert.
PostInsert(map, ok) ==
  LET more == [map EXCEPT !.n = @ + 1]
  IN  <<[n |-> more.n]>>
      \o (IF 2 * more.n > more.cap THEN Publish(Grow(more, 2 * more.cap, ok)) ELSE <<>>)

\* bound_set, the stores, and for a new key postinsert.
Insert(k, p, o, ok) ==
  LET stores == BoundSet(m, Hash[k], p.n) \o Place(m, k, p, o)
  IN  IF p.object # NULL THEN stores ELSE stores \o PostInsert(After(m, stores), ok)

\* Mutant: the slot counts as free again.
DeleteUncounted(p) ==
  <<[ent |-> [m.ent EXCEPT ![p.slot] = Tombstone], n |-> m.n - 1, tombstones |-> m.tombstones]>>
Delete(p) ==
  <<[ent |-> [m.ent EXCEPT ![p.slot] = Tombstone], n |-> m.n - 1, tombstones |-> m.tombstones + 1]>>

-----------------------------------------------------------------------------
(* The writer's operations, after their probe.                               *)

\* There is no slot for the key: the map must grow first.
Full(p) == p.slot = NULL /\ p.first = NULL

Puts ==
  LET k == W.key
      p == Probe(m, k, ProbeLimit, IF W.op = "put" THEN "insert" ELSE "tombstone")
      old == ValueOf(p.object)
  IN  /\ At(Writer, "probe") /\ W.op \in {"put", "put_unique"}
      /\ \E ok \in BOOLEAN :
         IF Full(p) THEN GrowAndRestart(<<>>, Grow(m, 2 * m.cap, ok), old)
         ELSE IF p.object # NULL THEN Finish(<<>>, old, old)
         ELSE Finish(Insert(k, p, Object(k, W.val), ok), old, W.val)

SetOrApply ==
  LET k == W.key
      p == Probe(m, k, ProbeLimit, "insert")
      old == ValueOf(p.object)
  IN  /\ At(Writer, "probe") /\ W.op \in {"set", "apply"}
      /\ \E ok \in BOOLEAN :
         IF Full(p) THEN GrowAndRestart(<<>>, Grow(m, 2 * m.cap, ok), old)
         ELSE IF W.op = "apply" /\ W.val = old THEN Finish(<<>>, old, old)
         ELSE IF W.val = NULL THEN Finish(Delete(p), old, NULL)
         ELSE Finish(Insert(k, p, Object(k, W.val), ok), old, W.val)

Fas ==
  LET k == W.key
      p == ProbeFor(m, k)
      old == ValueOf(p.object)
  IN  /\ At(Writer, "probe") /\ W.op = "fas"
      /\ IF p.object = NULL THEN Finish(<<>>, old, old)
         ELSE Finish(Place(m, k, p, Object(k, W.val)), old, W.val)

Remove ==
  LET p == ProbeFor(m, W.key)
      old == ValueOf(p.object)
  IN  /\ At(Writer, "probe") /\ W.op = "remove"
      /\ IF p.object = NULL THEN Finish(<<>>, old, old) ELSE Finish(Delete(p), old, NULL)

Reset ==
  /\ At(Writer, "probe") /\ W.op = "reset"
  /\ \/ Finish(Publish(Create(m.cap, m.delete)), NULL, NULL)
     \/ Finish(<<>>, NoMemory, NULL)

Calls ==
  \E k \in Keys : \E op \in OpsOn[k] :
    /\ op = "put_unique" => Value(m, k) = NULL
    /\ \E v \in CASE op \in {"remove", "reset"} -> {NULL}
                  [] op = "apply" -> Vals[k] \cup {NULL}
                  [] OTHER -> Vals[k] : Call(op, k, v)

\* ck_hs_grow and ck_hs_rebuild.
Resize ==
  \E cap \in {m.cap, 2 * m.cap} :
    LET map == Grow(m, cap, TRUE)
    IN  Begin(IF map = NULL THEN "return" ELSE "store",
              [op |-> "grow", todo |-> Publish(map), then |-> "return"])

-----------------------------------------------------------------------------
(* ck_hs_gc, for one entry.                                                 *)

GcEntry ==
  LET x == m.ent[W.i]
      k == x[1]
      p == ProbeFor(m, k)
      stores == IF p.first # NULL THEN Move(m, k, p, x) ELSE <<>>
      next == [i |-> (W.i + 1) % m.cap, left |-> W.left - 1]
  IN  /\ At(Writer, "gc") /\ W.left > 0
      /\ IF ~IsObject(x) THEN Make(<<>>, "gc", next)
         ELSE IF W.bounds = NULL THEN Make(stores, "gc", [left |-> 0])
         ELSE Make(stores, "gc", Longest(k, p.n) @@ next)

Write ==
  \/ Calls \/ Puts \/ SetOrApply \/ Fas \/ Remove \/ Reset
  \/ Resize \/ GcCall \/ GcEntry \/ GcBounds
  \/ Store([k \in Keys |-> Value(Stored(Head(W.todo)), k)]) \/ Return

-----------------------------------------------------------------------------
(* Readers: ck_hs_get.                                                       *)

\* One slot of the probe.
ProbeSlot(t) ==
  LET l == r[t]
      x == Map(t).ent[Slot[Map(t).cap][l.key][l.n]]
  IN  /\ At(t, "g_probe") /\ Local
      /\ IF l.n > l.bound \/ x = NULL THEN Found(t, NULL)
         ELSE IF x # Tombstone /\ x[1] = l.key THEN Found(t, ValueOf(x))
         ELSE Put(t, [n |-> l.n + 1]) /\ UNCHANGED pc

Get(t) ==
  \/ Read(t) \/ Reload(t) \/ LoadGeneration(t, G(r[t].key)) \/ LoadBound(t) \/ LoadMaximum(t)
  \/ ProbeSlot(t) \/ Check(t) \/ GetReturn(t)

Next == Write \/ \E t \in Readers : Get(t)
-----------------------------------------------------------------------------
\* ck_hs_count and ck_hs_stat: entries and tombstones are counted right
\* between operations.
Counted ==
  At(Writer, "idle") =>
    /\ m.n = Cardinality({i \in DOMAIN m.ent : IsObject(m.ent[i])})
    /\ m.tombstones = Cardinality({i \in DOMAIN m.ent : m.ent[i] = Tombstone})
=============================================================================
