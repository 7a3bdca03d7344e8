------------------------------- MODULE Array --------------------------------
(***************************************************************************)
(* The array, include/ck_array.h and src/ck_array.c: a writer puts and     *)
(* removes pointers and commits, readers iterate over what is committed.   *)
(*                                                                         *)
(* Additions are made in place, beyond n_committed.  So is the removal of  *)
(* an entry when there are additions to replace it; otherwise it is made   *)
(* in a copy, the transaction, which commit publishes.  An array that was  *)
(* replaced is freed after its readers are done: they keep a copy of it.   *)
(* Indices start at 1.                                                     *)
(***************************************************************************)
EXTENDS Threaded

CONSTANTS Values, MaxLength   \* what is stored, and the longest array
CONSTANTS
  Writer,           \* the thread that writes; the others read
  MaxChanges        \* after how many stores during an iteration none is begun
Readers == Threads \ {Writer}

Create(length) ==
  [n_committed |-> 0, length |-> length, values |-> [i \in 1 .. length |-> NULL]]

Nothing == [old |-> NULL, limit |-> 0, i |-> 0] @@ NoHistory
Init ==
  /\ m = [active |-> Create(1), n_entries |-> 0, transaction |-> NULL]
  /\ pc = [t \in Threads |-> "idle"]
  /\ r = [t \in Threads |-> IF t = Writer THEN [val |-> NULL] ELSE Nothing]

-----------------------------------------------------------------------------
(* The writer. *)

\* The array that the writer changes.
Target == IF m.transaction # NULL THEN "transaction" ELSE "active"
Elements(a, n) == {a.values[i] : i \in 1 .. n}
Stored == Elements(m[Target], m.n_entries)
Committed(a) == Elements(a, a.n_committed)

\* realloc: a copy of twice the length.
Realloc(a) ==
  [a EXCEPT !.length = 2 * @,
            !.values = [i \in 1 .. 2 * a.length |-> IF i <= a.length THEN a.values[i] ELSE NULL]]

Loading(t) == pc[t] \in {"limit", "values"}
\* Memory changes: values are added, or the ones in gone are on their way out,
\* and the writer has val still to store.
\* When another array becomes active, readers that have the old one keep it.
Change(new, replaced, added, gone, val) ==
  /\ m' = new
  /\ r' = [t \in Threads |->
             IF t = Writer THEN [val |-> val]
             ELSE [Watched(t, Values \ gone, added) EXCEPT
                     !.old = IF replaced /\ @ = NULL /\ Loading(t) THEN m.active ELSE @]]

\* The value goes after the last entry.
Store(v) ==
  Change([m EXCEPT ![Target].values[m.n_entries + 1] = v, !.n_entries = @ + 1],
         FALSE, {v}, {}, NULL)

\* ck_array_put, and ck_array_put_unique of a value that is not there: into a
\* longer array if this one is full.  When there is no memory, nothing changes:
\* a step that stutters.  Values stand for entries, so none is put twice.
ArrayPut(v) ==
  /\ At(Writer, "idle") /\ v \notin Stored
  /\ IF m.n_entries < m[Target].length THEN Store(v) /\ UNCHANGED pc
     ELSE /\ 2 * m[Target].length <= MaxLength
          /\ Go(Writer, "put")
          /\ Change([m EXCEPT ![Target] = Realloc(@)], Target = "active", {}, {}, v)
PutStore == Step(Writer, "put", "idle") /\ Store(r[Writer].val)

\* Array a without its entry v, whose place the last one takes.  What remains
\* in the slot of the last one must not be read any more.
Without(a, v) ==
  LET at == CHOOSE i \in 1 .. m.n_entries : a.values[i] = v
  IN  [a EXCEPT !.values = [@ EXCEPT ![at] = a.values[m.n_entries], ![m.n_entries] = NULL]]

\* Mutant: a removal is always made in place.
PendingAlways == TRUE
\* There are additions that were not committed.
Pending == m.active.n_committed # m.n_entries

Remove(v) ==
  LET copy == [n_committed |-> m.n_entries, length |-> m.n_entries,
               values |-> SubSeq(m.active.values, 1, m.n_entries)]
      fewer == m.n_entries - 1
  IN  /\ At(Writer, "idle") /\ v \in Stored /\ UNCHANGED pc
      /\ IF m.transaction # NULL \/ Pending
         THEN Change([m EXCEPT ![Target] = Without(@, v), !.n_entries = fewer],
                     FALSE, {}, {v}, NULL)
         ELSE Change([m EXCEPT !.transaction = Without(copy, v), !.n_entries = fewer],
                     FALSE, {}, {v}, NULL)

Commit ==
  /\ At(Writer, "idle") /\ UNCHANGED pc
  /\ IF m.transaction # NULL
     THEN Change([m EXCEPT !.active = [m.transaction EXCEPT !.n_committed = m.n_entries],
                           !.transaction = NULL], TRUE, {}, {}, NULL)
     ELSE Change([m EXCEPT !.active.n_committed = m.n_entries], FALSE, {}, {}, NULL)

-----------------------------------------------------------------------------
(* Readers: CK_ARRAY_FOREACH, of which ck_array_length and ck_array_buffer    *)
(* are the first two steps.                                                   *)

Snapshot(t) == IF r[t].old # NULL THEN r[t].old ELSE m.active

LoadActive(t) ==
  /\ Step(t, "idle", "limit") /\ Local
  /\ Put(t, Owed(Committed(m.active) \cap Stored, Committed(m.active) \cup Stored))
LoadLimit(t) ==
  Step(t, "limit", "values") /\ Put(t, [limit |-> Snapshot(t).n_committed, i |-> 1]) /\ Local
LoadValue(t) ==
  /\ At(t, "values") /\ r[t].i <= r[t].limit /\ Local /\ UNCHANGED pc
  /\ Put(t, [i |-> r[t].i + 1] @@ See(t, Snapshot(t).values[r[t].i]))
EndLoop(t) == At(t, "values") /\ r[t].i > r[t].limit /\ Go(t, "done") /\ Local
              /\ Put(t, [old |-> NULL, limit |-> 0, i |-> 0])
Leave(t) == Step(t, "done", "idle") /\ Put(t, Nothing) /\ Local

Foreach(t) == LoadActive(t) \/ LoadLimit(t) \/ LoadValue(t) \/ EndLoop(t) \/ Leave(t)

Next ==
  \/ MayChange(Readers, MaxChanges) /\ (PutStore \/ Commit \/ \E v \in Values : ArrayPut(v) \/ Remove(v))
  \/ \E t \in Readers : Foreach(t)
=============================================================================
