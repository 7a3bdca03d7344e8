----------------------------- MODULE BoundedFifo -----------------------------
(***************************************************************************)
(* What a ring promises its callers: a first-in first-out queue of at most *)
(* Capacity entries.  A producer first reserves room, then puts a whole    *)
(* entry at the end of the queue; a consumer takes the entry at its front. *)
(* If the process using the queue dies, its repair keeps every entry that  *)
(* had been put and turns the reservations into entries of any content.    *)
(***************************************************************************)
EXTENDS Naturals, Sequences

CONSTANTS
  Entry,      \* the entries a producer may put
  Capacity    \* entries that fit, reserved room included

VARIABLES
  items,      \* entries in the queue, oldest first
  reserved,   \* reservations not yet put
  taken,      \* every entry taken so far, in order
  alive       \* the process is running

vars == <<items, reserved, taken, alive>>

Init == items = <<>> /\ reserved = 0 /\ taken = <<>> /\ alive = TRUE

Reserve ==
  /\ alive /\ Len(items) + reserved < Capacity
  /\ reserved' = reserved + 1
  /\ UNCHANGED <<items, taken, alive>>

Put ==
  /\ alive /\ reserved > 0
  /\ \E e \in Entry : items' = Append(items, e)
  /\ reserved' = reserved - 1
  /\ UNCHANGED <<taken, alive>>

Take ==
  /\ alive /\ items # <<>>
  /\ taken' = Append(taken, Head(items))
  /\ items' = Tail(items)
  /\ UNCHANGED <<reserved, alive>>

Die == alive /\ alive' = FALSE /\ UNCHANGED <<items, reserved, taken>>

Recover ==
  /\ ~alive /\ alive' = TRUE
  /\ Len(items') = Len(items) + reserved
  /\ \A i \in DOMAIN items : items'[i] = items[i]
  /\ reserved' = 0
  /\ UNCHANGED taken

Next == Reserve \/ Put \/ Take \/ Die \/ Recover

Spec == Init /\ [][Next]_vars
=============================================================================
