------------------------------ MODULE HpStack -------------------------------
(***************************************************************************)
(* include/ck_hp_stack.h: a stack without generations, whose entries are   *)
(* protected by one hazard slot and freed through ck_hp_free when they     *)
(* have been popped.  A destroyed entry may be pushed again.               *)
(*                                                                         *)
(* new holds the entries that were never pushed or failed to be, pushes    *)
(* and pops the calls still to be made.  abs is the history: the stack as  *)
(* its successful compare-and-swaps left it.                               *)
(***************************************************************************)
EXTENDS Hp

CONSTANTS
  Nodes,
  Bounds    \* [nodes, joins, pushes, pops]: what the calls are made with

Scratch == [try |-> FALSE, e |-> NULL, next |-> NULL, update |-> NULL]

Init ==
  /\ \E n \in Thresholds, b \in Bounds :
       m = Both(HpMem(1, n, b.joins),
                [head |-> NULL, next |-> [x \in Nodes |-> NULL], new |-> b.nodes,
                 pushes |-> b.pushes, pops |-> b.pops, abs |-> <<>>])
  /\ pc = [t \in Threads |-> "out"]
  /\ r = [t \in Threads |-> Both(HpLocals, Scratch)]

Return(t) == Go(t, "idle") /\ Put(t, Scratch)

-----------------------------------------------------------------------------
(* ck_hp_stack_push_mpmc and trypush: ck_stack_push_upmc and its try.        *)

Push(t) ==
  /\ Step(t, "idle", "s_head")
  /\ m.pushes > 0
  /\ \E x \in m.new \cup m.dead, try \in BOOLEAN :
       /\ m' = [m EXCEPT !.new = @ \ {x}, !.dead = @ \ {x}, !.pushes = @ - 1]
       /\ Put(t, [e |-> x, try |-> try])

PushHead(t) ==
  /\ Step(t, "s_head", "s_cas")
  /\ m' = [m EXCEPT !.next[r[t].e] = m.head]
  /\ UNCHANGED r

PushSwap(t) ==
  LET e == r[t].e
  IN  /\ At(t, "s_cas")
      /\ IF m.head = m.next[e]
         THEN m' = [m EXCEPT !.head = e, !.abs = <<e>> \o @] /\ Return(t)
         ELSE IF r[t].try
         THEN m' = [m EXCEPT !.new = @ \cup {e}] /\ Return(t)
         ELSE m' = [m EXCEPT !.next[e] = m.head] /\ UNCHANGED <<pc, r>>

-----------------------------------------------------------------------------
(* ck_hp_stack_pop_mpmc and ck_hp_stack_trypop_mpmc.                         *)

Pop(t) ==
  /\ Step(t, "idle", "p_head")
  /\ m.pops > 0
  /\ m' = [m EXCEPT !.pops = @ - 1]
  /\ \E try \in BOOLEAN : Put(t, [try |-> try])

PopHead(t) ==
  /\ At(t, "p_head") /\ Local
  /\ IF m.head = NULL THEN Return(t) ELSE Go(t, "p_set") /\ Put(t, [e |-> m.head])

PopSet(t) == Step(t, "p_set", "p_same") /\ Publish(t, 0, r[t].e) /\ UNCHANGED r

\* A trypop that fails clears its slot.
PopSame(t) ==
  LET l == r[t]
  IN  /\ At(t, "p_same")
      /\ IF m.head = l.e THEN Go(t, "p_next") /\ UNCHANGED <<m, r>>
         ELSE IF l.try THEN Publish(t, 0, NULL) /\ Return(t)
         ELSE Go(t, "p_head") /\ UNCHANGED <<m, r>>

PopNext(t) == Step(t, "p_next", "p_cas") /\ Put(t, [next |-> m.next[r[t].e]]) /\ Local

\* The compare-and-swap that fails returns the head it found.
PopSwap(t) ==
  LET l == r[t]
  IN  /\ At(t, "p_cas")
      /\ IF m.head = l.e
         THEN /\ m' = [m EXCEPT !.head = l.next, !.abs = Tail(@)]
              /\ Go(t, "p_free") /\ UNCHANGED r
         ELSE IF l.try THEN Publish(t, 0, NULL) /\ Return(t)
         ELSE /\ Local
              /\ IF m.head = NULL THEN Return(t)
                 ELSE Go(t, "p_reset") /\ Put(t, [e |-> m.head])

\* The new head is published until it is found to be the head still.  The
\* inner loop looks for a null head only after it has published one.
PopReset(t) == Step(t, "p_reset", "p_update") /\ Publish(t, 0, r[t].e) /\ UNCHANGED r
PopUpdate(t) ==
  /\ At(t, "p_update")
  /\ Put(t, [update |-> m.head])
  /\ Go(t, IF m.head = r[t].e THEN "p_next" ELSE "p_reset2")
  /\ Local
PopResetUpdate(t) ==
  /\ Step(t, "p_reset2", "p_update2")
  /\ Publish(t, 0, r[t].update)
  /\ Put(t, [e |-> r[t].update])
PopUpdateAgain(t) ==
  /\ At(t, "p_update2") /\ Local
  /\ IF m.head = NULL THEN Return(t)
     ELSE /\ Put(t, [update |-> m.head])
          /\ Go(t, IF m.head = r[t].e THEN "p_next" ELSE "p_reset2")

\* The caller frees what it popped.
PopFree(t) == At(t, "p_free") /\ AfterFree(t) /\ Retire(t, r[t].e) /\ Put(t, Scratch)

Pushes(t) == Push(t) \/ PushHead(t) \/ PushSwap(t)
Pops(t) ==
  \/ Pop(t) \/ PopHead(t) \/ PopSet(t) \/ PopSame(t) \/ PopNext(t) \/ PopSwap(t)
  \/ PopReset(t) \/ PopUpdate(t) \/ PopResetUpdate(t) \/ PopUpdateAgain(t) \/ PopFree(t)

Next == SetThreshold \/ \E t \in Threads : HpStep(t) \/ Pushes(t) \/ Pops(t)

-----------------------------------------------------------------------------
\* No thread reads the next pointer of a destroyed entry.
NoUseAfterFree == \A t \in Threads : At(t, "p_next") => r[t].e \notin m.dead \cup {NULL}

\* The linked entries are the ones pushed and not popped, latest first: an
\* entry pushed again meanwhile never passes for the one that was read.
Represents ==
  /\ m.head = IF m.abs = <<>> THEN NULL ELSE Head(m.abs)
  /\ \A i \in DOMAIN m.abs : m.next[m.abs[i]] = IF i = Len(m.abs) THEN NULL ELSE m.abs[i + 1]
=============================================================================
