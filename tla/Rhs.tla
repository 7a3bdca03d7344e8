-------------------------------- MODULE Rhs ---------------------------------
(***************************************************************************)
(* The Robin Hood hash set, src/ck_rhs.c.  A slot has an object,           *)
(* <<key, value>>, and three numbers of the writer's: the probes that its  *)
(* object took, how many objects wanted the slot and went on, and (for the *)
(* slot as the first of a probe sequence) the bound.  An insertion may     *)
(* take the slot of an object that needed fewer probes, which then looks   *)
(* for another one; a deletion moves an object that wanted the slot back   *)
(* into it.  There are no tombstones.  A map without bounds is in          *)
(* read-mostly mode.                                                       *)
(*                                                                         *)
(* Slot[c][h] is the probe sequence from offset h on, as long as the probe *)
(* limit of a map of capacity c.  An operation is computed on a progress   *)
(* s: the map, and the stores that readers see.                            *)
(***************************************************************************)
EXTENDS HashTable

CONSTANTS
  Generations,    \* the number of generations, CK_RHS_G
  LoadFactors,    \* the load factors, in percent, that are set
  MaxWanted,      \* CK_RHS_MAX_WANTED
  MaxRh,          \* CK_RHS_MAX_RH: the most objects moved by an insertion
  ApplyDeletes    \* whether apply is called to delete

LOCAL Sequence == INSTANCE SequencesExt

Object(k, v) == <<k, v>>
ValueOf(x) == IF x = NULL THEN NULL ELSE x[2]
First(map, k) == Hash[k] % map.cap
Limit(map) == Len(Slot[map.cap][0])

Create(cap, delete, factor) ==
  LET all(x) == [i \in 0 .. cap - 1 |-> x]
  IN  [cap |-> cap, delete |-> delete, factor |-> factor, n |-> 0, max |-> 0,
       ent |-> all(NULL), probes |-> all(0), wanted |-> all(0), bound |-> all(0)]
MaxEntries(map) == (map.cap * map.factor) \div 100

Init ==
  /\ \E delete \in DeleteModes : m = Create(Min(DOMAIN Slot), delete, 50)
  /\ pc = [t \in Threads |-> "idle"]
  /\ r = [t \in Threads |-> IF t # Writer THEN ReaderIdle
                           ELSE [dict |-> [k \in Keys |-> NULL]] @@ WriterIdle]

-----------------------------------------------------------------------------
(* ck_rhs_map_probe and ck_rhs_map_probe_rm.                                 *)

\* The probe for k: "probe" notes the first slot it may take from an object
\* that needed fewer probes, "rh" stops there, "insert" stops at the bound of
\* the bucket if it has noted one, and "no_rh" notes none.
Probe(map, k, limit, how) ==
  LET path == Slot[map.cap][First(map, k)]
      at(n) == map.ent[path[n]]
      bound == IF how = "insert" /\ map.delete THEN BoundGet(map, Hash[k]) ELSE limit
      poor(n) == how # "no_rh" /\ at(n) # NULL /\ map.probes[path[n]] < n
      noted(n) == {p \in 1 .. n : poor(p)}
      beyond(n) == n > limit \/ (n = bound + 1 /\ noted(bound) # {})
      stops(n) ==
        \/ beyond(n)
        \/ at(n) = NULL
        \/ how = "rh" /\ poor(n)
        \/ at(n)[1] = k
      stop == Min({n \in 1 .. limit + 1 : stops(n)})
      rich == noted(IF beyond(stop) THEN stop - 1 ELSE stop)
      found == ~beyond(stop) /\ at(stop) # NULL /\ ~(how = "rh" /\ poor(stop))
  IN  [slot |-> IF beyond(stop) THEN NULL ELSE path[stop],
       first |-> IF rich = {} THEN NULL ELSE path[Min(rich)],
       object |-> IF found THEN at(stop) ELSE NULL,
       n |-> IF rich = {} THEN stop ELSE Min(rich)]

ProbeFor(map, k, how) == Probe(map, k, BoundGet(map, Hash[k]), how)
\* What a reader finds that is not disturbed.
Value(map, k) == ValueOf(ProbeFor(map, k, "no_rh").object)

-----------------------------------------------------------------------------
(* Progress of an operation of the writer.                                   *)

Start(map) == [map |-> map, log |-> <<>>]
\* A store that readers see, and what only the writer sees.
Do(s, store) == [map |-> store @@ s.map, log |-> Append(s.log, store)]
DoAll(s, stores) == [map |-> After(s.map, stores), log |-> s.log \o stores]
Note(s, fields) == [s EXCEPT !.map = fields @@ @]
Signal(s, h) == [s EXCEPT !.log = Append(@, [signal |-> h % Generations])]
SetEntry(s, i, o) == Do(s, [ent |-> [s.map.ent EXCEPT ![i] = o]])
SetProbes(s, i, n) == Note(s, [probes |-> [s.map.probes EXCEPT ![i] = n]])
Bounded(s, h, n) == DoAll(s, BoundSet(s.map, h, n))
\* A deletion lowers a bound, which nobody reads in read-mostly mode.
Lower(s, h, n) ==
  IF s.map.delete /\ n < WordMax THEN Do(s, [bound |-> [s.map.bound EXCEPT ![h] = n]]) ELSE s
\* The stores of an operation; the first takes the writer's numbers along.
Stores(s) ==
  IF s.log = <<>> THEN <<>>
  ELSE <<[probes |-> s.map.probes, wanted |-> s.map.wanted, n |-> s.map.n] @@ Head(s.log)>>
       \o Tail(s.log)

\* ck_rhs_get_first_offset of the object in slot i.
FirstOf(map, i) == CHOOSE h \in 0 .. map.cap - 1 : Slot[map.cap][h][map.probes[i]] = i
\* The number of probes from h to slot i.
ProbesTo(map, h, i) == Min({n \in 1 .. Limit(map) : Slot[map.cap][h][n] = i})
\* How often the probes from .. to from h look at slot i.
Visits(map, h, from, to, i) == Cardinality({n \in from .. to : Slot[map.cap][h][n] = i})

\* ck_rhs_add_wanted: an object of h is in slot end, and was in slot old.
AddWanted(s, h, old, end) ==
  LET from == IF old = NULL THEN 1 ELSE ProbesTo(s.map, h, old)
      more(i) == Visits(s.map, h, from, ProbesTo(s.map, h, end) - 1, i)
  IN  Note(s, [wanted |-> [i \in DOMAIN s.map.wanted |->
                             Min({MaxWanted, s.map.wanted[i] + more(i)})]])
\* ck_rhs_remove_wanted: the object in slot i leaves it, for slot limit.  The
\* count stays at its maximum, where it also gets from 0.
RemoveWanted(s, i, limit) ==
  LET h == FirstOf(s.map, i)
      from == Max({0} \cup {n \in 1 .. s.map.probes[i] - 1 : Slot[s.map.cap][h][n] = limit})
      less(j) == Visits(s.map, h, from + 1, s.map.probes[i] - 1, j)
  IN  Note(s, [wanted |-> [j \in DOMAIN s.map.wanted |->
                             IF s.map.wanted[j] = MaxWanted \/ less(j) > s.map.wanted[j]
                             THEN MaxWanted ELSE s.map.wanted[j] - less(j)]])

-----------------------------------------------------------------------------
(* ck_rhs_put_robin_hood.                                                    *)

RECURSIVE Hops(_, _, _, _)
\* The moves that free slot from: its object goes to the next slot of its
\* probe sequence that is empty, or whose object is neither moved yet nor
\* kept in place, needed fewer probes and must move in turn.  to is NULL
\* where there is no such slot.
Hops(map, from, moved, kept) ==
  LET h == FirstOf(map, from)
      path == Slot[map.cap][h]
      gives(n) ==
        /\ Cardinality(moved) < MaxRh
        /\ path[n] \notin moved \cup {from, kept}
        /\ map.probes[path[n]] < n
      free == {n \in map.probes[from] + 1 .. Limit(map) : map.ent[path[n]] = NULL \/ gives(n)}
      hop == [from |-> from, h |-> h, n |-> Min(free), to |-> path[Min(free)]]
  IN  IF free = {} THEN <<[from |-> from, to |-> NULL]>>
      ELSE IF map.ent[hop.to] = NULL THEN <<hop>>
      ELSE <<hop>> \o Hops(map, hop.to, moved \cup {from}, kept)

Stuck(hops) == hops # <<>> /\ Sequence!Last(hops).to = NULL
\* The bounds, while the chain is looked for.
Extend(s, hops) ==
  Sequence!FoldLeft(LAMBDA x, hop : IF hop.to = NULL THEN x ELSE Bounded(x, hop.h, hop.n), s, hops)
\* The moves, the last one first.
Displace(s, hops) ==
  LET move(hop, x) ==
        AddWanted(SetProbes(Signal(SetEntry(x, hop.to, x.map.ent[hop.from]), hop.h), hop.to, hop.n),
                  hop.h, hop.from, hop.to)
  IN  Sequence!FoldRight(move, hops, s)

-----------------------------------------------------------------------------
(* ck_rhs_do_backward_shift_delete.                                          *)

\* The objects that wanted slot i: <<w, n>> needed n probes, and i was probe w.
Successors(map, i) ==
  {<<w, n>> \in (1 .. map.max - 1) \X (2 .. map.max) :
     /\ w < n
     /\ \E h \in 0 .. map.cap - 1 :
          Slot[map.cap][h][w] = i /\ map.probes[Slot[map.cap][h][n]] = n}

\* Slot i is empty; its object was of h.
Emptied(s, i, h) ==
  LET gone == SetEntry(Note(s, [wanted |-> [s.map.wanted EXCEPT ![i] = 0]]), i, NULL)
  IN  SetProbes(Lower(gone, h, s.map.probes[i] - 1), i, 0)

\* The bound of h after an object moved from probe n to probe w.  The loop
\* that looks for another object of h compares the first offset of each slot,
\* which is h for all of them: it stops at once.
Lowered(s, h, w, n) ==
  LET b == s.map.bound[h]
      last == IF b = WordMax THEN s.map.max ELSE b - 1
  IN  IF s.map.wanted[h] = 1 \/ (b \in {WordMax, n} /\ n = last) THEN Lower(s, h, w) ELSE s

RECURSIVE Shift(_, _, _)
Shift(s, i, h) ==
  LET succ == Successors(s.map, i)
      w == Min({x[1] : x \in succ})
      n == Min({x[2] : x \in {y \in succ : y[1] = w}})
      g == CHOOSE x \in 0 .. s.map.cap - 1 : Slot[s.map.cap][x][w] = i
      j == Slot[s.map.cap][g][n]
      left == RemoveWanted(SetProbes(s, i, w), j, i)
      moved == Lowered(Signal(SetEntry(left, i, s.map.ent[j]), g), g, w, n)
      less == [moved.map.wanted EXCEPT ![i] = IF @ < MaxWanted THEN @ - 1 ELSE @]
  IN  IF s.map.wanted[i] = 0 \/ succ = {} THEN Emptied(s, i, h)
      ELSE Shift(Note(moved, [wanted |-> less]), j, g)
ShiftDelete(s, i) == Shift(RemoveWanted(s, i, NULL), i, FirstOf(s.map, i))

-----------------------------------------------------------------------------
(* ck_rhs_grow.                                                              *)

RECURSIVE Settle(_, _, _)
\* Object o at its n-th probe.
Settle(new, o, n) ==
  LET i == Slot[new.cap][First(new, o[1])][n]
      here == [new EXCEPT !.ent[i] = o, !.probes[i] = n]
      set == After(here, BoundSet(here, Hash[o[1]], n))
      passed(map) == [map EXCEPT !.wanted[i] = (@ + 1) % (MaxWanted + 1)]
  IN  IF n > Limit(new) THEN NULL
      ELSE IF new.ent[i] = NULL THEN [set EXCEPT !.n = @ + 1]
      ELSE IF new.probes[i] < n THEN Settle(passed(set), new.ent[i], new.probes[i] + 1)
      ELSE Settle(passed(new), o, n + 1)
Rebuilt(map, cap) ==
  LET f[i \in 0 .. map.cap] ==
        IF i = 0 THEN Create(cap, map.delete, map.factor)
        ELSE IF f[i - 1] = NULL \/ map.ent[i - 1] = NULL THEN f[i - 1]
        ELSE Settle(f[i - 1], map.ent[i - 1], 1)
  IN  f[map.cap]
Grow(map, cap, ok) == Grown([c \in DOMAIN Slot |-> Rebuilt(map, c)], cap, ok)

-----------------------------------------------------------------------------
(* The writer's operations, after their probe.                               *)

Full(p) == p.slot = NULL /\ p.first = NULL
Chain(p) == IF p.first = NULL THEN <<>> ELSE Hops(m, p.first, {}, p.slot)

\* Store o for k where probe p says, and delete the object that was found.
Place(s, k, p, o) ==
  LET i == IF p.first = NULL THEN p.slot ELSE p.first
      put == SetProbes(SetEntry(Displace(Extend(s, Chain(p)), Chain(p)), i, o), i, p.n)
      wanted == AddWanted(put, First(m, k), NULL, i)
  IN  IF p.object = NULL THEN wanted
      ELSE IF p.first = NULL THEN put
      ELSE ShiftDelete(Signal(wanted, Hash[k]), p.slot)

\* The map grows after the insertion, which does not fail if that does.
PostInsert(s) ==
  LET more == Note(s, [n |-> s.map.n + 1])
      grown(ok) == [more EXCEPT !.log = @ \o Publish(Grow(more.map, 2 * m.cap, ok))]
  IN  IF more.map.n <= MaxEntries(more.map) THEN Finish(Stores(more), NULL, W.val)
      ELSE \E ok \in BOOLEAN : Finish(Stores(grown(ok)), NULL, W.val)

\* The map has to grow first; stores raised bounds of the one there was.
Enlarge(stores, old) == \E ok \in BOOLEAN : GrowAndRestart(stores, Grow(m, 2 * m.cap, ok), old)

PlaceOrEnlarge(s, k, p, o) ==
  IF Stuck(Chain(p)) THEN Enlarge(Stores(Extend(s, Chain(p))), ValueOf(p.object))
  ELSE IF p.object = NULL THEN PostInsert(Place(s, k, p, o))
  ELSE Finish(Stores(Place(s, k, p, o)), ValueOf(p.object), W.val)

Puts ==
  LET k == W.key
      p == Probe(m, k, Limit(m), IF W.op = "put" THEN "insert" ELSE "rh")
      old == ValueOf(p.object)
  IN  /\ At(Writer, "probe") /\ W.op \in {"put", "put_unique"}
      /\ IF Full(p) THEN Enlarge(<<>>, old)
         ELSE IF p.object # NULL THEN Finish(<<>>, old, old)
         ELSE PlaceOrEnlarge(Bounded(Start(m), Hash[k], p.n), k, p, Object(k, W.val))

\* To delete by apply leaves n_entries as it is.
SetOrApply ==
  LET k == W.key
      p == Probe(m, k, Limit(m), "insert")
      old == ValueOf(p.object)
  IN  /\ At(Writer, "probe") /\ W.op \in {"set", "apply"}
      /\ IF Full(p) THEN Enlarge(<<>>, old)
         ELSE IF W.op = "apply" /\ W.val = old THEN Finish(<<>>, old, old)
         ELSE IF W.val = NULL THEN Finish(Stores(ShiftDelete(Start(m), p.slot)), old, NULL)
         ELSE PlaceOrEnlarge(Bounded(Start(m), Hash[k], p.n), k, p, Object(k, W.val))

Fas ==
  LET k == W.key
      p == ProbeFor(m, k, "probe")
  IN  /\ At(Writer, "probe") /\ W.op = "fas"
      /\ IF p.object = NULL THEN Finish(<<>>, NULL, NULL)
         ELSE PlaceOrEnlarge(Start(m), k, p, Object(k, W.val))

Remove ==
  LET p == ProbeFor(m, W.key, "no_rh")
      old == ValueOf(p.object)
  IN  /\ At(Writer, "probe") /\ W.op = "remove"
      /\ IF p.object = NULL THEN Finish(<<>>, old, old)
         ELSE Finish(Stores(ShiftDelete(Note(Start(m), [n |-> m.n - 1]), p.slot)), old, NULL)

Reset ==
  /\ At(Writer, "probe") /\ W.op = "reset"
  /\ \/ Finish(Publish(Create(m.cap, m.delete, m.factor)), NULL, NULL)
     \/ Finish(<<>>, NoMemory, NULL)

Calls ==
  /\ At(Writer, "idle")
  /\ \E k \in Keys : \E op \in OpsOn[k] :
    /\ op = "put_unique" => Value(m, k) = NULL
    /\ \E v \in CASE op \in {"remove", "reset"} -> {NULL}
                  [] op = "apply" /\ ApplyDeletes -> Vals[k] \cup {NULL}
                  [] OTHER -> Vals[k] : Call(op, k, v)

\* An operation that is about no key.
Maintain(stores) ==
  Begin(IF stores = <<>> THEN "return" ELSE "store",
        [op |-> "grow", todo |-> stores, then |-> "return"])
\* ck_rhs_grow and ck_rhs_rebuild.
Resize == \E cap \in {m.cap, 2 * m.cap} : Maintain(Publish(Grow(m, cap, TRUE)))
RECURSIVE Growths(_, _)
\* The map is published each time that it has grown.
Growths(map, ok) ==
  LET new == Grow(map, 2 * map.cap, ok)
  IN  IF map.n <= MaxEntries(map) \/ new = NULL THEN <<>>
      ELSE Publish(new) \o Growths(new, ok)
SetLoadFactor ==
  \E factor \in LoadFactors, ok \in BOOLEAN :
    Maintain(<<[factor |-> factor]>> \o Growths([m EXCEPT !.factor = factor], ok))
Gc == Maintain(<<[max |-> Max({m.probes[i] : i \in DOMAIN m.probes})]>>)

Write ==
  \/ Calls \/ Puts \/ SetOrApply \/ Fas \/ Remove \/ Reset \/ Resize \/ SetLoadFactor \/ Gc
  \/ Store([k \in Keys |-> Value(Stored(Head(W.todo)), k)]) \/ Return

-----------------------------------------------------------------------------
(* Readers: ck_rhs_get.                                                      *)

ProbeSlot(t) ==
  LET l == r[t]
      x == Map(t).ent[Slot[Map(t).cap][First(Map(t), l.key)][l.n]]
  IN  /\ At(t, "g_probe") /\ Local
      /\ IF l.n > l.bound \/ x = NULL THEN Found(t, NULL)
         ELSE IF x[1] = l.key THEN Found(t, ValueOf(x))
         ELSE Put(t, [n |-> l.n + 1]) /\ UNCHANGED pc

Get(t) ==
  \/ Read(t) \/ Reload(t) \/ LoadGeneration(t, Hash[r[t].key] % Generations)
  \/ LoadBound(t) \/ LoadMaximum(t) \/ ProbeSlot(t) \/ Check(t) \/ GetReturn(t)

Next == Write \/ \E t \in Readers : Get(t)
-----------------------------------------------------------------------------
\* Between operations ck_rhs_count is right, every object has the number of
\* probes it takes to reach it, and its probe bound lets readers go that far.
Counted ==
  At(Writer, "idle") =>
    /\ m.n = Cardinality({i \in DOMAIN m.ent : m.ent[i] # NULL})
    /\ \A i \in DOMAIN m.ent :
         IF m.ent[i] = NULL THEN m.probes[i] = 0
         ELSE LET k == m.ent[i][1]
              IN  Slot[m.cap][First(m, k)][m.probes[i]] = i /\ m.probes[i] <= BoundGet(m, Hash[k])
=============================================================================
