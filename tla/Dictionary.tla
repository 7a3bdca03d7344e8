----------------------------- MODULE Dictionary -----------------------------
(***************************************************************************)
(* What the hash tables of ck promise to a writer and to readers that run  *)
(* beside it: every call of the writer takes effect at one instant and     *)
(* reports what the key had then, and every read returns something that    *)
(* its key had while the read was running.  Collection of garbage, growth  *)
(* and rebuilding change nothing.                                          *)
(***************************************************************************)
CONSTANTS
  Keys, Vals,
  Readers,
  NULL,           \* no value, no call
  Pending,        \* what a call or a read reports before it took effect
  NoMemory        \* what a call reports when the table could not grow

VARIABLES
  dict,           \* key -> its value, or NULL
  call,           \* the writer's call, or NULL
  reads           \* reader -> its read, or NULL

dvars == <<dict, call, reads>>

Init ==
  /\ dict = [k \in Keys |-> NULL]
  /\ call = NULL
  /\ reads = [t \in Readers |-> NULL]

Ops == {"put", "put_unique", "set", "fas", "apply", "remove", "reset"}

Begin ==
  /\ call = NULL
  /\ call' \in [op : Ops, key : Keys, val : Vals \cup {NULL}, old : {Pending}]
  /\ UNCHANGED <<dict, reads>>

\* The value that the operation leaves where it finds old.
Leaves(op, old, v) ==
  CASE op \in {"put", "put_unique"} -> IF old = NULL THEN v ELSE old
    [] op = "fas" -> IF old = NULL THEN NULL ELSE v
    [] op \in {"set", "apply"} -> v
    [] op = "remove" -> NULL

\* Every read that runs may return what is now there.
Seen(now) ==
  reads' = [t \in Readers |->
              IF reads[t] = NULL THEN NULL
              ELSE [reads[t] EXCEPT !.seen = @ \cup {now[reads[t].key]}]]

Effect ==
  /\ call # NULL /\ call.old = Pending
  /\ dict' = IF call.op = "reset" THEN [k \in Keys |-> NULL]
             ELSE [dict EXCEPT ![call.key] = Leaves(call.op, @, call.val)]
  /\ call' = [call EXCEPT !.old = IF call.op = "reset" THEN NULL ELSE dict[call.key]]
  /\ Seen(dict')

\* There is no memory for a larger table.  A removal needs none, nor, as
\* doc/ck_hs_fas and doc/ck_rhs_fas say, does fetch-and-store.
Refuse ==
  /\ call # NULL /\ call.old = Pending
  /\ call.op \notin {"remove", "fas"}
  /\ call' = [call EXCEPT !.old = NoMemory]
  /\ UNCHANGED <<dict, reads>>

End == call # NULL /\ call.old # Pending /\ call' = NULL /\ UNCHANGED <<dict, reads>>

BeginRead(t) ==
  /\ reads[t] = NULL
  /\ \E k \in Keys :
       reads' = [reads EXCEPT ![t] = [key |-> k, seen |-> {dict[k]}, got |-> Pending]]
  /\ UNCHANGED <<dict, call>>
Get(t) ==
  /\ reads[t] # NULL /\ reads[t].got = Pending
  /\ \E v \in reads[t].seen : reads' = [reads EXCEPT ![t].got = v]
  /\ UNCHANGED <<dict, call>>
EndRead(t) ==
  /\ reads[t] # NULL /\ reads[t].got # Pending
  /\ reads' = [reads EXCEPT ![t] = NULL] /\ UNCHANGED <<dict, call>>

Next ==
  \/ Begin \/ Effect \/ Refuse \/ End
  \/ \E t \in Readers : BeginRead(t) \/ Get(t) \/ EndRead(t)

Spec == Init /\ [][Next]_dvars
=============================================================================
