------------------------------- MODULE Lists --------------------------------
(***************************************************************************)
(* The linked lists of include/ck_queue.h: CK_SLIST, CK_STAILQ and         *)
(* CK_LIST, changed by one writer while readers traverse them.             *)
(*                                                                         *)
(* A cell is a pointer that can be followed: the first pointer of a head,  *)
(* named by the head, or the next pointer of an element, named by the      *)
(* element.  A macro is the sequence of its stores, which the writer makes *)
(* one by one; what they store is settled when it begins, since it alone   *)
(* writes.  An element that was removed is inserted again once no reader   *)
(* that was under way can have it: that is the caller's grace period.      *)
(***************************************************************************)
EXTENDS Threaded

CONSTANTS Flavours, Elements, Heads, ReadHead   \* readers traverse ReadHead
CONSTANTS
  Writer,           \* the thread that writes; the others read
  MaxChanges        \* after how many stores during an iteration none is begun
Readers == Threads \ {Writer}

SetNext(cell, e) == <<"next", cell, e>>
SetPrev(e, cell) == <<"prev", e, cell>>
SetLast(h, cell) == <<"last", h, cell>>
Only(condition, stores) == IF condition THEN stores ELSE <<>>

\* The elements that a traversal from cell c would meet.
Members(next, c) ==
  LET f[n \in 0 .. Cardinality(Elements)] ==
        IF n = 0 THEN {c} ELSE f[n - 1] \cup {next[x] : x \in f[n - 1] \ {NULL}}
  IN  f[Cardinality(Elements)] \ {c, NULL}
All(next) == UNION {Members(next, h) : h \in Heads}

Nothing == [safe |-> FALSE, var |-> NULL, tvar |-> NULL] @@ NoHistory
Init ==
  /\ \E flavour \in Flavours :
       m = [flavour |-> flavour, next |-> [c \in Heads \cup Elements |-> NULL],
            prev |-> [e \in Elements |-> NULL], last |-> [h \in Heads |-> h]]
  /\ pc = [t \in Threads |-> "idle"]
  /\ r = [t \in Threads |-> IF t = Writer THEN [todo |-> <<>>] ELSE Nothing]

-----------------------------------------------------------------------------
(* CK_SLIST.  The cell of a previous pointer is a head or an element, so that *)
(* the operations on the head are the ones after an element.                  *)

SlistInit(h) == <<SetNext(h, NULL)>>
SlistInsertAfter(a, e) == <<SetNext(e, m.next[a]), SetNext(a, e)>>
SlistInsertHead(h, e) == SlistInsertAfter(h, e)
SlistInsertPrevptr(prevp, x, e) == <<SetNext(e, x), SetNext(prevp, e)>>
SlistRemoveAfter(a) == <<SetNext(a, m.next[m.next[a]])>>
SlistRemoveHead(h) == SlistRemoveAfter(h)
SlistRemove(h, x) ==
  IF m.next[h] = x THEN SlistRemoveHead(h)
  ELSE SlistRemoveAfter(CHOOSE a \in Members(m.next, h) : m.next[a] = x)
SlistRemovePrevptr(prevp, x) == <<SetNext(prevp, m.next[x])>>
SlistMove(h1, h2) == <<SetNext(h1, m.next[h2])>>
SlistSwap(h1, h2) == <<SetNext(h1, m.next[h2]), SetNext(h2, m.next[h1])>>

-----------------------------------------------------------------------------
(* CK_STAILQ. *)

StailqInit(h) == <<SetNext(h, NULL), SetLast(h, h)>>
StailqConcat(h1, h2) ==
  Only(m.next[h2] # NULL,
       <<SetNext(m.last[h1], m.next[h2]), SetLast(h1, m.last[h2])>> \o StailqInit(h2))
\* Mutant: the last pointer is left where it was.
StailqInsertAfterSame(h, a, e) == <<SetNext(e, m.next[a]), SetNext(a, e)>>
StailqInsertAfter(h, a, e) ==
  <<SetNext(e, m.next[a]), SetNext(a, e)>> \o Only(m.next[a] = NULL, <<SetLast(h, e)>>)
StailqInsertHead(h, e) ==
  <<SetNext(e, m.next[h]), SetNext(h, e)>> \o Only(m.next[h] = NULL, <<SetLast(h, e)>>)
StailqInsertTail(h, e) == <<SetNext(e, NULL), SetNext(m.last[h], e), SetLast(h, e)>>
StailqRemoveAfter(h, a) ==
  LET next == m.next[m.next[a]] IN <<SetNext(a, next)>> \o Only(next = NULL, <<SetLast(h, a)>>)
StailqRemoveHead(h) ==
  LET next == m.next[m.next[h]] IN <<SetNext(h, next)>> \o Only(next = NULL, <<SetLast(h, h)>>)
StailqRemove(h, x) ==
  IF m.next[h] = x THEN StailqRemoveHead(h)
  ELSE StailqRemoveAfter(h, CHOOSE a \in Members(m.next, h) : m.next[a] = x)
StailqMove(h1, h2) ==
  <<SetNext(h1, m.next[h2]), SetLast(h1, m.last[h2])>> \o Only(m.last[h2] = h2, <<SetLast(h1, h1)>>)
StailqSwap(h1, h2) ==
  <<SetNext(h1, m.next[h2]), SetLast(h1, m.last[h2]),
    SetNext(h2, m.next[h1]), SetLast(h2, m.last[h1])>>
  \o Only(m.next[h2] = NULL, <<SetLast(h1, h1)>>)
  \o Only(m.next[h1] = NULL, <<SetLast(h2, h2)>>)

-----------------------------------------------------------------------------
(* CK_LIST. *)

ListInit(h) == <<SetNext(h, NULL)>>
ListInsertAfter(a, e) ==
  <<SetNext(e, m.next[a]), SetPrev(e, a)>>
  \o Only(m.next[a] # NULL, <<SetPrev(m.next[a], e)>>) \o <<SetNext(a, e)>>
ListInsertBefore(x, e) ==
  <<SetPrev(e, m.prev[x]), SetNext(e, x), SetNext(m.prev[x], e), SetPrev(x, e)>>
ListInsertHead(h, e) ==
  <<SetNext(e, m.next[h])>> \o Only(m.next[h] # NULL, <<SetPrev(m.next[h], e)>>)
  \o <<SetNext(h, e), SetPrev(e, h)>>
ListRemove(x) ==
  <<SetNext(m.prev[x], m.next[x])>> \o Only(m.next[x] # NULL, <<SetPrev(m.next[x], m.prev[x])>>)
ListMove(h1, h2) ==
  <<SetNext(h1, m.next[h2])>> \o Only(m.next[h2] # NULL, <<SetPrev(m.next[h2], h1)>>)
ListSwap(h1, h2) ==
  <<SetNext(h1, m.next[h2]), SetNext(h2, m.next[h1])>>
  \o Only(m.next[h2] # NULL, <<SetPrev(m.next[h2], h1)>>)
  \o Only(m.next[h1] # NULL, <<SetPrev(m.next[h1], h2)>>)

-----------------------------------------------------------------------------
(* The writer.  x is in the list of h, a is a cell of it, and e is free.      *)

Free(e) ==
  e \notin All(m.next) /\ \A t \in Readers : At(t, "idle") \/ e \notin r[t].may

\* Whoever moves a list initializes the head that it leaves.
OnHeads(h, g) ==
  CASE m.flavour = "slist" -> {SlistMove(h, g) \o SlistInit(g), SlistSwap(h, g), SlistInit(h)}
    [] m.flavour = "stailq" -> {StailqMove(h, g) \o StailqInit(g), StailqSwap(h, g),
                                StailqInit(h), StailqConcat(h, g)}
    [] m.flavour = "list" -> {ListMove(h, g) \o ListInit(g), ListSwap(h, g), ListInit(h)}
Insertions(h, a, e) ==
  CASE m.flavour = "slist" -> {SlistInsertHead(h, e), SlistInsertPrevptr(a, m.next[a], e)}
                              \cup (IF a = h THEN {} ELSE {SlistInsertAfter(a, e)})
    [] m.flavour = "stailq" -> {StailqInsertHead(h, e), StailqInsertTail(h, e)}
                              \cup (IF a = h THEN {} ELSE {StailqInsertAfter(h, a, e)})
    [] m.flavour = "list" -> {ListInsertHead(h, e)}
                              \cup (IF a = h THEN {}
                                    ELSE {ListInsertAfter(a, e), ListInsertBefore(a, e)})
\* The cell of the list of h that leads to x, which a writer has a pointer to.
Cells(h, x) == {c \in {h} \cup Members(m.next, h) : m.next[c] = x}
Removals(h, x) ==
  CASE m.flavour = "slist" -> {SlistRemove(h, x)}
                              \cup {SlistRemovePrevptr(a, x) : a \in Cells(h, x)}
    [] m.flavour = "stailq" -> {StailqRemove(h, x)}
    [] m.flavour = "list" -> {ListRemove(x)}

Begin ==
  /\ Step(Writer, "idle", "store") /\ Local /\ MayChange(Readers, MaxChanges)
  /\ \E h \in Heads : \E g \in Heads \ {h} :
     \E stores \in OnHeads(h, g)
                   \cup UNION {Insertions(h, a, e) : a \in {h} \cup Members(m.next, h),
                                                     e \in {e \in Elements : Free(e)}}
                   \cup UNION {Removals(h, x) : x \in Members(m.next, h)} :
       stores # <<>> /\ Put(Writer, [todo |-> stores])

Store ==
  LET s == Head(r[Writer].todo)
      new == [m EXCEPT ![s[1]][s[2]] = s[3]]
      rest == Tail(r[Writer].todo)
  IN  /\ At(Writer, "store") /\ Go(Writer, IF rest = <<>> THEN "idle" ELSE "store")
      /\ m' = new
      /\ r' = [t \in Threads |->
                 IF t = Writer THEN [todo |-> rest]
                 ELSE IF s[1] # "next" THEN r[t]
                 ELSE Watched(t, Members(new.next, ReadHead), All(new.next))]

-----------------------------------------------------------------------------
(* Readers: _FOREACH, and _FOREACH_SAFE, which loads the successor of an      *)
(* element before the body of the loop.                                       *)

\* The loop has come to e, or to its end.
Visit(t, e, safe, new) ==
  /\ Go(t, IF e = NULL THEN "done" ELSE IF safe THEN "peek" ELSE "next")
  /\ Put(t, (IF e = NULL THEN [var |-> NULL] ELSE [var |-> e, seen |-> Append(r[t].seen, e)])
            @@ [tvar |-> NULL, safe |-> e # NULL /\ safe] @@ new)
First(t) ==
  /\ At(t, "idle") /\ Local
  /\ \E safe \in BOOLEAN :
       Visit(t, m.next[ReadHead], safe, Owed(Members(m.next, ReadHead), All(m.next)))
LoadNext(t) == At(t, "next") /\ Visit(t, m.next[r[t].var], FALSE, <<>>) /\ Local
Peek(t) == Step(t, "peek", "advance") /\ Put(t, [tvar |-> m.next[r[t].var]]) /\ Local
Advance(t) == At(t, "advance") /\ Visit(t, r[t].tvar, TRUE, <<>>) /\ Local
Leave(t) == Step(t, "done", "idle") /\ Put(t, Nothing) /\ Local

Foreach(t) == First(t) \/ LoadNext(t) \/ Peek(t) \/ Advance(t) \/ Leave(t)

Next == Begin \/ Store \/ \E t \in Readers : Foreach(t)

-----------------------------------------------------------------------------
\* Between operations every list is whole: the last pointer of a tail queue is
\* the cell of its last element, the prev pointer of an element of a list is
\* the cell that leads to it, and no element is in two lists.
Linked ==
  At(Writer, "idle") =>
    /\ \A h, g \in Heads : h # g => Members(m.next, h) \cap Members(m.next, g) = {}
    /\ m.flavour = "stailq" =>
         \A h \in Heads : m.last[h] \in {h} \cup Members(m.next, h) /\ m.next[m.last[h]] = NULL
    /\ m.flavour = "list" => \A e \in All(m.next) : m.next[m.prev[e]] = e
=============================================================================
