------------------------------- MODULE Stack -------------------------------
(***************************************************************************)
(* The lock-free stack of include/ck_stack.h.  Every access to head, to    *)
(* generation and to an entry's next is a step; the fences of the code     *)
(* keep these accesses in program order.                                   *)
(*                                                                         *)
(* The operations are safe only under the discipline their comments ask    *)
(* for, so a behaviour follows one of these:                               *)
(*   "mpmc"   any number of producers and consumers; entries that a pop or *)
(*            a batch pop has returned may be pushed again at once;        *)
(*   "grace"  pops that do not advance the generation are used as well,    *)
(*            and an entry is pushed again only when all pops that were in *)
(*            progress at its removal have completed;                      *)
(*   "wf"     "mpmc" with the wait-free batch pop in place of the          *)
(*            compare-and-swap one;                                        *)
(*   "nc"     producers only while there is no consumer, and one consumer  *)
(*            only while there is no producer.                             *)
(*                                                                         *)
(* MaxGen bounds the calls that may advance the generation.  The counter   *)
(* has the width of a pointer; that it does not come round within one pop  *)
(* is an assumption of the algorithm.                                      *)
(***************************************************************************)
EXTENDS Naturals, Sequences

CONSTANTS Threads, Entries, NULL, Modes, MaxGen

ASSUME StackAssumption ==
  /\ NULL \notin Entries
  /\ Modes \subseteq {"mpmc", "grace", "wf", "nc"}
  /\ MaxGen \in Nat

VARIABLES
  mode,            \* the discipline of this behaviour
  head, generation,
  next,            \* entry -> its next field
  pc,
  entry,           \* thread -> the entry it pushes
  orig, origGen,   \* thread -> its view of head and of generation
  upd,             \* thread -> the next it has read
  contents,        \* history: the entries on the stack, from the top
  free,            \* entries that are with the callers
  pending          \* entry -> pops to be waited for before it is pushed again

shared == <<head, generation, next, contents, free, pending>>
locals == <<entry, orig, origGen, upd>>
vars == <<mode, pc, shared, locals>>

Pops == {"u_next", "u_cas", "ut_next", "ut_cas", "m_head", "m_next", "m_cas",
         "mt_head", "mt_next", "mt_cas", "b_head", "b_cas", "w_swap"}

Init ==
  /\ mode \in Modes
  /\ head = NULL /\ generation = 0
  /\ next = [e \in Entries |-> NULL]
  /\ pc = [t \in Threads |-> "idle"]
  /\ entry = [t \in Threads |-> NULL]
  /\ orig = [t \in Threads |-> NULL]
  /\ origGen = [t \in Threads |-> 0]
  /\ upd = [t \in Threads |-> NULL]
  /\ contents = <<>>
  /\ free = Entries
  /\ pending = [e \in Entries |-> {}]

At(t, l) == pc[t] = l
Goto(t, l) == pc' = [pc EXCEPT ![t] = l]

\* Back to the caller: the locals are gone, and nobody waits for this pop any
\* more.
Return(t) ==
  /\ Goto(t, "idle")
  /\ entry' = [entry EXCEPT ![t] = NULL]
  /\ orig' = [orig EXCEPT ![t] = NULL]
  /\ origGen' = [origGen EXCEPT ![t] = 0]
  /\ upd' = [upd EXCEPT ![t] = NULL]

Completed(t, p) == [e \in Entries |-> p[e] \ {t}]
ReturnNothing(t) ==
  /\ Return(t)
  /\ pending' = Completed(t, pending)
  /\ UNCHANGED <<mode, head, generation, next, contents, free>>

\* The pops in progress when S is removed are waited for in "grace".
InProgress(t) == IF mode = "grace" THEN {s \in Threads \ {t} : pc[s] \in Pops} ELSE {}
Removed(t, S) ==
  /\ free' = free \cup S
  /\ pending' = [e \in Entries |->
                   IF e \in S THEN InProgress(t) ELSE pending[e] \ {t}]

AllOf(s) == {s[i] : i \in DOMAIN s}
Reusable == {e \in free : pending[e] = {}}
Quiet == \A s \in Threads : pc[s] = "idle"
Atomic == mode \in {"mpmc", "wf", "grace"}
BelowMaxGen == generation < MaxGen

-----------------------------------------------------------------------------
\* push_upmc, push_mpmc and their try variants: load the head ...
Push(t, e) ==
  /\ Atomic /\ At(t, "idle") /\ e \in Reusable
  /\ Goto(t, "p_next") \/ Goto(t, "pt_next")
  /\ entry' = [entry EXCEPT ![t] = e]
  /\ orig' = [orig EXCEPT ![t] = head]
  /\ free' = free \ {e}
  /\ UNCHANGED <<mode, head, generation, next, contents, pending, origGen, upd>>

\* ... link the entry to it ...
PushNext(t) ==
  /\ \/ At(t, "p_next") /\ Goto(t, "p_cas")
     \/ At(t, "pt_next") /\ Goto(t, "pt_cas")
  /\ next' = [next EXCEPT ![entry[t]] = orig[t]]
  /\ UNCHANGED <<mode, head, generation, contents, free, pending, locals>>

\* ... and publish it, unless the head has changed.
PushCas(t) ==
  /\ At(t, "p_cas") \/ At(t, "pt_cas")
  /\ head = orig[t]
  /\ head' = entry[t]
  /\ contents' = <<entry[t]>> \o contents
  /\ Return(t)
  /\ UNCHANGED <<mode, generation, next, free, pending>>

\* Mutant: the value that the failed compare-and-swap returned is not used.
PushRetry_Stale(t) ==
  /\ At(t, "p_cas") /\ Goto(t, "p_next")
  /\ head # orig[t]
  /\ UNCHANGED <<mode, shared, locals>>

\* push tries again from what the compare-and-swap saw.
PushRetry(t) ==
  /\ At(t, "p_cas") /\ Goto(t, "p_next")
  /\ head # orig[t]
  /\ orig' = [orig EXCEPT ![t] = head]
  /\ UNCHANGED <<mode, shared, entry, origGen, upd>>

\* trypush gives the entry back to its caller.
TryPushFail(t) ==
  /\ At(t, "pt_cas")
  /\ head # orig[t]
  /\ free' = free \cup {entry[t]}
  /\ Return(t)
  /\ UNCHANGED <<mode, head, generation, next, contents, pending>>

-----------------------------------------------------------------------------
\* pop_upmc and trypop_upmc: load the head ...
PopUpmc(t) ==
  /\ mode = "grace" /\ At(t, "idle") /\ head # NULL
  /\ Goto(t, "u_next") \/ Goto(t, "ut_next")
  /\ orig' = [orig EXCEPT ![t] = head]
  /\ UNCHANGED <<mode, shared, entry, origGen, upd>>

\* ... then its next ...
PopUpmcNext(t) ==
  /\ \/ At(t, "u_next") /\ Goto(t, "u_cas")
     \/ At(t, "ut_next") /\ Goto(t, "ut_cas")
  /\ upd' = [upd EXCEPT ![t] = next[orig[t]]]
  /\ UNCHANGED <<mode, shared, entry, orig, origGen>>

\* ... and swap the head alone.
PopUpmcCas(t) ==
  /\ At(t, "u_cas") \/ At(t, "ut_cas")
  /\ head = orig[t]
  /\ head' = upd[t]
  /\ contents' = Tail(contents)
  /\ Removed(t, {orig[t]})
  /\ Return(t)
  /\ UNCHANGED <<mode, generation, next>>

\* batch_pop_upmc: one swap.
BatchPopUpmc(t) ==
  /\ mode = "grace" /\ At(t, "idle")
  /\ head' = NULL
  /\ contents' = <<>>
  /\ Removed(t, AllOf(contents))
  /\ UNCHANGED <<mode, generation, next, pc, locals>>

-----------------------------------------------------------------------------
\* pop_mpmc and trypop_mpmc: load the generation before the head ...
PopMpmc(t) ==
  /\ Atomic /\ At(t, "idle") /\ BelowMaxGen
  /\ Goto(t, "m_head") \/ Goto(t, "mt_head")
  /\ origGen' = [origGen EXCEPT ![t] = generation]
  /\ UNCHANGED <<mode, shared, entry, orig, upd>>

PopMpmcHead(t) ==
  /\ head # NULL
  /\ \/ At(t, "m_head") /\ Goto(t, "m_next")
     \/ At(t, "mt_head") /\ Goto(t, "mt_next")
  /\ orig' = [orig EXCEPT ![t] = head]
  /\ UNCHANGED <<mode, shared, entry, origGen, upd>>

\* ... then the next of that entry, wherever it is by now ...
PopMpmcNext(t) ==
  /\ \/ At(t, "m_next") /\ Goto(t, "m_cas")
     \/ At(t, "mt_next") /\ Goto(t, "mt_cas")
  /\ upd' = [upd EXCEPT ![t] = next[orig[t]]]
  /\ UNCHANGED <<mode, shared, entry, orig, origGen>>

\* Mutant: the generation is not advanced.
PopMpmcCas_SameGeneration(t) ==
  /\ At(t, "m_cas") \/ At(t, "mt_cas")
  /\ head = orig[t] /\ generation = origGen[t]
  /\ head' = upd[t]
  /\ contents' = Tail(contents)
  /\ Removed(t, {orig[t]})
  /\ Return(t)
  /\ UNCHANGED <<mode, generation, next>>

\* ... and swap both words.
PopMpmcCas(t) ==
  /\ At(t, "m_cas") \/ At(t, "mt_cas")
  /\ head = orig[t] /\ generation = origGen[t]
  /\ head' = upd[t] /\ generation' = origGen[t] + 1
  /\ contents' = Tail(contents)
  /\ Removed(t, {orig[t]})
  /\ Return(t)
  /\ UNCHANGED <<mode, next>>

\* batch_pop_mpmc: the same with an empty stack for the next one.
BatchPop(t) ==
  /\ Atomic /\ mode # "wf" /\ At(t, "idle") /\ BelowMaxGen
  /\ Goto(t, "b_head")
  /\ origGen' = [origGen EXCEPT ![t] = generation]
  /\ UNCHANGED <<mode, shared, entry, orig, upd>>

BatchPopHead(t) ==
  /\ At(t, "b_head") /\ Goto(t, "b_cas")
  /\ head # NULL
  /\ orig' = [orig EXCEPT ![t] = head]
  /\ UNCHANGED <<mode, shared, entry, origGen, upd>>

BatchPopCas(t) ==
  /\ At(t, "b_cas")
  /\ head = orig[t] /\ generation = origGen[t]
  /\ head' = NULL /\ generation' = origGen[t] + 1
  /\ contents' = <<>>
  /\ Removed(t, AllOf(contents))
  /\ Return(t)
  /\ UNCHANGED <<mode, next>>

\* A failed compare-and-swap is retried from what it saw; the pop of one
\* entry reads that entry's next first.
PopRetry(t) ==
  /\ head # NULL
  /\ \/ At(t, "u_cas") /\ Goto(t, "u_next") /\ head # orig[t]
     \/ At(t, "m_cas") /\ Goto(t, "m_next") /\ <<head, generation>> # <<orig[t], origGen[t]>>
     \/ At(t, "b_cas") /\ Goto(t, "b_cas") /\ <<head, generation>> # <<orig[t], origGen[t]>>
  /\ orig' = [orig EXCEPT ![t] = head]
  /\ origGen' = [origGen EXCEPT ![t] = IF pc[t] = "u_cas" THEN @ ELSE generation]
  /\ UNCHANGED <<mode, shared, entry, upd>>

\* NULL for an empty stack, at the load of the head or at a failed
\* compare-and-swap; false of the try variants for a lost race.
PopNothing(t) ==
  /\ \/ /\ pc[t] \in {"m_head", "mt_head", "b_head"} /\ head = NULL
     \/ /\ pc[t] \in {"u_cas", "m_cas", "b_cas"} /\ head = NULL
     \/ /\ pc[t] = "ut_cas" /\ head # orig[t]
     \/ /\ pc[t] = "mt_cas" /\ <<head, generation>> # <<orig[t], origGen[t]>>
  /\ ReturnNothing(t)

\* batch_pop_mpmc_wf: advance the generation, then swap the head.
BatchPopWf(t) ==
  /\ mode \in {"wf", "grace"} /\ At(t, "idle") /\ BelowMaxGen
  /\ Goto(t, "w_swap")
  /\ generation' = generation + 1
  /\ UNCHANGED <<mode, head, next, contents, free, pending, locals>>

BatchPopWfSwap(t) ==
  /\ At(t, "w_swap")
  /\ head' = NULL
  /\ contents' = <<>>
  /\ Removed(t, AllOf(contents))
  /\ Return(t)
  /\ UNCHANGED <<mode, generation, next>>

-----------------------------------------------------------------------------
\* push_mpnc: prepare the entry, swap it in, and only then link it.
PushMpnc(t, e) ==
  /\ mode = "nc" /\ At(t, "idle") /\ e \in Reusable
  /\ Goto(t, "n_swap")
  /\ entry' = [entry EXCEPT ![t] = e]
  /\ next' = [next EXCEPT ![e] = NULL]
  /\ free' = free \ {e}
  /\ UNCHANGED <<mode, head, generation, contents, pending, orig, origGen, upd>>

PushMpncSwap(t) ==
  /\ At(t, "n_swap") /\ Goto(t, "n_link")
  /\ orig' = [orig EXCEPT ![t] = head]
  /\ head' = entry[t]
  /\ contents' = <<entry[t]>> \o contents
  /\ UNCHANGED <<mode, generation, next, free, pending, entry, origGen, upd>>

PushMpncLink(t) ==
  /\ At(t, "n_link")
  /\ next' = [next EXCEPT ![entry[t]] = orig[t]]
  /\ Return(t)
  /\ UNCHANGED <<mode, head, generation, contents, free, pending>>

\* The operations for a single caller, with nobody else in a call.
PushSpnc(t, e) ==
  /\ mode = "nc" /\ Quiet /\ e \in Reusable
  /\ next' = [next EXCEPT ![e] = head]
  /\ head' = e
  /\ contents' = <<e>> \o contents
  /\ free' = free \ {e}
  /\ UNCHANGED <<mode, generation, pc, pending, locals>>

PopNpsc(t) ==
  /\ mode = "nc" /\ Quiet /\ head # NULL
  /\ head' = next[head]
  /\ contents' = Tail(contents)
  /\ Removed(t, {head})
  /\ UNCHANGED <<mode, generation, next, pc, locals>>

BatchPopNpsc(t) ==
  /\ mode = "nc" /\ Quiet
  /\ head' = NULL
  /\ contents' = <<>>
  /\ Removed(t, AllOf(contents))
  /\ UNCHANGED <<mode, generation, next, pc, locals>>

\* CK_STACK_ISEMPTY, and pops that find an empty stack at once.
IsEmpty(t) == At(t, "idle") /\ UNCHANGED vars

Call(t) ==
  \/ \E e \in Entries : Push(t, e) \/ PushMpnc(t, e) \/ PushSpnc(t, e)
  \/ PopUpmc(t) \/ BatchPopUpmc(t) \/ PopMpmc(t) \/ BatchPop(t) \/ BatchPopWf(t)
  \/ PopNpsc(t) \/ BatchPopNpsc(t) \/ IsEmpty(t)
Step(t) ==
  \/ PushNext(t) \/ PushCas(t) \/ PushRetry(t) \/ TryPushFail(t)
  \/ PopUpmcNext(t) \/ PopUpmcCas(t)
  \/ PopMpmcHead(t) \/ PopMpmcNext(t) \/ PopMpmcCas(t)
  \/ BatchPopHead(t) \/ BatchPopCas(t) \/ PopRetry(t) \/ PopNothing(t)
  \/ BatchPopWfSwap(t) \/ PushMpncSwap(t) \/ PushMpncLink(t)
Next == \E t \in Threads : Call(t) \/ Step(t)

Spec == Init /\ [][Next]_vars

\* All that the scheduler owes a lock-free structure: some thread that is in a
\* call takes a step.
FairSpec == Spec /\ WF_vars(\E t \in Threads : Step(t))

-----------------------------------------------------------------------------

TypeOK ==
  /\ mode \in Modes
  /\ head \in Entries \cup {NULL} /\ generation \in Nat
  /\ next \in [Entries -> Entries \cup {NULL}]
  /\ pc \in [Threads -> Pops \cup {"idle", "p_next", "p_cas", "pt_next", "pt_cas",
                                   "n_swap", "n_link"}]
  /\ entry \in [Threads -> Entries \cup {NULL}]
  /\ orig \in [Threads -> Entries \cup {NULL}] /\ origGen \in [Threads -> Nat]
  /\ upd \in [Threads -> Entries \cup {NULL}]
  /\ contents \in Seq(Entries)
  /\ free \subseteq Entries /\ pending \in [Entries -> SUBSET Threads]

\* The entry is on the stack but its producer has not linked it yet.
Unlinked == {entry[t] : t \in {u \in Threads : pc[u] = "n_link"}}

\* Linearizability: the chain from head is exactly the list that results from
\* the operations in the order of their atomic steps, and none of its entries
\* is with a caller.  No pop ever installs a next that it read in an earlier
\* life of the entry, however entries are recycled.
Represents ==
  /\ head = IF contents = <<>> THEN NULL ELSE contents[1]
  /\ \A i \in DOMAIN contents :
       contents[i] \notin Unlinked =>
         next[contents[i]] = IF i = Len(contents) THEN NULL ELSE contents[i + 1]
  /\ AllOf(contents) \cap free = {}
  /\ \A i, j \in DOMAIN contents : contents[i] = contents[j] => i = j

\* Lock-freedom: when all threads are in calls, one of them returns, even if
\* the others never run again.
LockFree == (\A t \in Threads : pc[t] # "idle") ~> (\E t \in Threads : pc[t] = "idle")
=============================================================================
