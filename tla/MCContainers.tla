---------------------------- MODULE MCContainers ----------------------------
(***************************************************************************)
(* The hash tables.  A behaviour is about one of them, kind: a writer that *)
(* calls every operation without end, and a reader beside it.              *)
(***************************************************************************)
EXTENDS Threaded

CONSTANTS
  Kinds,                  \* what is checked
  Writer,
  A, B, C, D,             \* the keys
  X, Y, Z,                \* the values: X and Y of A, Z of the others
  Generations,            \* generations of the Robin Hood hash set
  ApplyDeletes,           \* whether its apply is called to delete
  Tombstone, Pending, NoMemory

VARIABLE kind
vars == <<kind, tvars>>

(* The probe sequences of ck_hs and ck_ht: which slots of a map of capacity *)
(* cap are looked at for hash h, when a bucket has len slots.               *)

\* probe_next adds the distance to the next bucket, by more hash bits at each
\* level.
Stride(cap, len, h, level) ==
  LET x == (h \div (2 * cap)) \div 2 ^ level
  IN  2 * (x - (x % len)) + (x % len)

\* The first n slots, when the first bucket is left at level.  The slots of a
\* bucket are taken in turn, from the offset on.
ProbeSequence(cap, len, h, level, n) ==
  LET offset[i \in 0 .. n] ==
        IF i = 0 THEN h % cap
        ELSE (offset[i - 1] + i + Stride(cap, len, h, level + i - 1) + len) % cap
  IN  [p \in 1 .. n |->
         LET o == offset[(p - 1) \div len]
         IN  (o - (o % len)) + ((p - 1 + o) % len)]

\* The first n slots of ck_rhs from offset h on: the bucket in turn, and then
\* as many slots further as were probed.
RobinHoodSequence(cap, len, h, n) ==
  LET offset[p \in 1 .. n] ==
        IF p = 1 THEN h
        ELSE LET o == offset[p - 1]
             IN  IF (p - 1) % len # 0 THEN (o - (o % len)) + ((o + 1) % len) ELSE (o + p - 1) % cap
  IN  SubSeq(offset, 1, n)

-----------------------------------------------------------------------------
(* The instances. *)

Keys == {A, B, C, D}
Vals == [k \in Keys |-> IF k = A THEN {X, Y} ELSE {Z}]
\* A and B meet in every map, C meets them in the smallest; D is not used.
Hash == [k \in Keys |-> CASE k = A -> 0 [] k = B -> 4 [] k = C -> 3 [] k = D -> 5]
\* Two capacities, two slots in a bucket and two probes.
HsSlot == [cap \in {2, 4} |-> [k \in Keys |-> ProbeSequence(cap, 2, Hash[k], 0, 2)]]
HtSlot == [cap \in {2, 4} |-> [k \in Keys |-> ProbeSequence(cap, 2, Hash[k], 1, 2)]]
\* The others are in the way of A, which is looked for.
OpsFor(ops) == [k \in Keys |-> CASE k = A -> ops [] k = B -> {"put", "remove"} [] k = C -> {"put"} [] k = D -> {}]
HsOps == OpsFor({"put", "put_unique", "set", "fas", "apply", "remove", "reset"})
HtOps == OpsFor({"put", "set", "remove", "reset"})

Hs == INSTANCE Hs WITH BucketLength <- 2, ProbeLimit <- 2, WordMax <- 1, MaxOverlap <- 1,
                       DeleteModes <- BOOLEAN, ReadKeys <- {A}, OpsOn <- HsOps, Slot <- HsSlot
Ht == INSTANCE Ht WITH BucketLength <- 2, ProbeLimit <- 2, WordMax <- 1, MaxOverlap <- 1,
                       DeleteModes <- {TRUE}, ReadKeys <- {A}, OpsOn <- HtOps, Slot <- HtSlot

\* A Robin Hood set: two capacities, two slots in a bucket and two probes in
\* the smaller map; in the larger one, of n probes, objects can move.
RobinHoodSlot(n) ==
  [cap \in {4, 8} |->
     [h \in 0 .. cap - 1 |-> RobinHoodSequence(cap, 2, h, IF cap = 4 THEN 2 ELSE n)]]
RhsSlot == RobinHoodSlot(3)
WideSlot == RobinHoodSlot(4)
\* A and B meet in every map, and so do C and D.
RhsHash == [k \in Keys |-> CASE k = A -> 8 [] k = B -> 0 [] k = C -> 1 [] k = D -> 9]
RhsOps == [k \in Keys |-> CASE k = A -> {"set", "fas", "remove"}
                             [] k = B -> {"put", "remove"}
                             [] k = C -> {"put_unique", "apply", "reset"}
                             [] k = D -> {}]
\* With four keys, and nobody who reads meanwhile.
WideOps == [k \in Keys |-> CASE k = A -> {"set", "fas", "remove"}
                              [] k = B -> {"put", "remove"}
                              [] k = C -> {"apply", "remove"}
                              [] k = D -> {"put_unique", "remove"}]
Rhs == INSTANCE Rhs WITH BucketLength <- 2, ProbeLimit <- 3, WordMax <- 3, MaxOverlap <- 1,
                         DeleteModes <- BOOLEAN, ReadKeys <- {A}, OpsOn <- RhsOps,
                         Slot <- RhsSlot, Hash <- RhsHash,
                         LoadFactors <- {50}, MaxWanted <- 2, MaxRh <- 1
Wide == INSTANCE Rhs WITH BucketLength <- 2, ProbeLimit <- 4, WordMax <- 3, MaxOverlap <- 1,
                          DeleteModes <- BOOLEAN, ReadKeys <- {}, OpsOn <- WideOps,
                          Slot <- WideSlot, Hash <- RhsHash,
                          LoadFactors <- {25, 100}, MaxWanted <- 4, MaxRh <- 2

Init ==
  /\ kind \in Kinds
  /\ CASE kind = "hs" -> Hs!Init
       [] kind = "ht" -> Ht!Init
       [] kind = "rhs" -> Rhs!Init
       [] kind = "rhs_wide" -> Wide!Init

Next ==
  /\ UNCHANGED kind
  /\ \/ kind = "hs" /\ Hs!Next
     \/ kind = "ht" /\ Ht!Next
     \/ kind = "rhs" /\ Rhs!Next
     \/ kind = "rhs_wide" /\ Wide!Next

Spec == Init /\ [][Next]_vars

Symmetry == Permutations({X, Y})

-----------------------------------------------------------------------------
Table == INSTANCE Dictionary WITH
  Vals <- UNION {Vals[k] : k \in Keys}, Readers <- Hs!Readers,
  dict <- Hs!W.dict, call <- Hs!AbstractCall, reads <- Hs!AbstractReads
\* Every operation of the writer takes effect at one instant, reports what was
\* there then or that there is no memory, and leaves the rest alone; a get
\* that runs meanwhile returns what its key had at some time during the call,
\* although entries move, slots are used again and maps are replaced.
ImplementsDictionary == Table!Spec

\* Between operations the counters of a table agree with its slots.
Counted ==
  /\ kind = "hs" => Hs!Counted
  /\ kind = "ht" => Ht!Counted
  /\ kind = "rhs" => Rhs!Counted
  /\ kind = "rhs_wide" => Wide!Counted
=============================================================================
