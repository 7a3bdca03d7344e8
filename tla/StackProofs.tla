---------------------------- MODULE StackProofs ----------------------------
(***************************************************************************)
(* The stack for any numbers of threads and entries, and any bound on the  *)
(* generation.                                                             *)
(*                                                                         *)
(* At any time an entry is with the callers (free), on the stack, or with  *)
(* one producer.  A pop works with a snapshot of the head that may be old: *)
(* the proof is about what such a snapshot is still good for.              *)
(***************************************************************************)
EXTENDS Stack, TLAPS

\* Before the compare-and-swap, or the swap, of a producer; and after it.
Pushing == {"p_next", "p_cas", "pt_next", "pt_cas", "n_swap"}
Pushers == Pushing \cup {"n_link"}
\* Pops that have a snapshot of the head, and those that have read its next.
Snapping == {"u_next", "u_cas", "ut_next", "ut_cas", "m_next", "m_cas", "mt_next", "mt_cas", "b_cas"}
HasNext == {"u_cas", "ut_cas", "m_cas", "mt_cas"}

\* Which operations belong to which discipline.
Labels ==
  \A t \in Threads :
    /\ mode = "nc" => pc[t] \in {"idle", "n_swap", "n_link"}
    /\ mode # "nc" => pc[t] \notin {"n_swap", "n_link"}
    /\ mode = "mpmc" => pc[t] \notin {"u_next", "u_cas", "ut_next", "ut_cas", "w_swap"}

\* What follows the i-th entry of the stack.
Below(i) == IF i = Len(contents) THEN NULL ELSE contents[i + 1]

\* An entry that is being pushed is with its producer alone.
Owned ==
  /\ \A t \in Threads :
       /\ pc[t] \in Pushing =>
            entry[t] \in Entries /\ entry[t] \notin free /\ entry[t] \notin AllOf(contents)
       /\ pc[t] \in {"p_cas", "pt_cas"} => next[entry[t]] = orig[t]
       /\ pc[t] = "n_link" =>
            \E i \in DOMAIN contents : contents[i] = entry[t] /\ orig[t] = Below(i)
  /\ \A t, u \in Threads :
       pc[t] \in Pushers /\ pc[u] \in Pushers /\ entry[t] = entry[u] => t = u

\* A snapshot whose generation is the current one is of an entry that has been
\* on the stack ever since; without the generation, the entry is on the stack
\* or kept from being pushed again until this pop has completed.  In both cases
\* its next is still what was read.
Snapshot(t) ==
  /\ mode = "mpmc" /\ pc[t] \in Pops => origGen[t] <= generation
  /\ pc[t] \in Snapping =>
       /\ orig[t] \in Entries
       /\ mode = "mpmc" /\ origGen[t] = generation => orig[t] \in AllOf(contents)
       /\ mode = "grace" => \/ orig[t] \in AllOf(contents)
                            \/ orig[t] \in free /\ t \in pending[orig[t]]
  /\ /\ pc[t] \in HasNext /\ orig[t] \in AllOf(contents)
     /\ mode = "grace" \/ origGen[t] = generation
     => upd[t] = next[orig[t]]

Snapshots == \A t \in Threads : Snapshot(t)

Inv == mode # "wf" /\ TypeOK /\ Labels /\ Owned /\ Snapshots /\ Represents

-----------------------------------------------------------------------------
(* Sequences. *)

\* A sequence with one more element in front.
LEMMA PushedSequence ==
  ASSUME NEW S, NEW s \in Seq(S), NEW e \in S
  PROVE  /\ <<e>> \o s \in Seq(S) /\ Len(<<e>> \o s) = Len(s) + 1 /\ <<e>> \o s # <<>>
         /\ (<<e>> \o s)[1] = e
         /\ \A i \in 1 .. Len(s) : (<<e>> \o s)[i + 1] = s[i]
         /\ \A i \in 2 .. Len(s) + 1 : i - 1 \in 1 .. Len(s) /\ (<<e>> \o s)[i] = s[i - 1]
         /\ AllOf(<<e>> \o s) = AllOf(s) \cup {e}
  <1> DEFINE q == <<e>> \o s
  <1>1. q \in Seq(S) /\ Len(q) = Len(s) + 1 /\ Len(s) \in Nat
    OBVIOUS
  <1>2. q[1] = e /\ \A i \in 2 .. Len(s) + 1 : i - 1 \in 1 .. Len(s) /\ q[i] = s[i - 1]
    OBVIOUS
  <1>3. \A i \in 1 .. Len(s) : i + 1 \in 2 .. Len(s) + 1 /\ q[i + 1] = s[i]
    BY <1>1, <1>2
  <1>4. DOMAIN q = 1 .. Len(s) + 1 /\ DOMAIN s = 1 .. Len(s)
    BY <1>1
  <1>5. q # <<>>
    BY <1>1
  <1> HIDE DEF q
  <1>6. AllOf(q) \subseteq AllOf(s) \cup {e}
    BY <1>1, <1>2, <1>4 DEF AllOf
  <1>7. AllOf(s) \cup {e} \subseteq AllOf(q)
    BY <1>1, <1>2, <1>3, <1>4 DEF AllOf
  <1> QED
    BY <1>1, <1>2, <1>3, <1>5, <1>6, <1>7 DEF q

\* What is left of a sequence once its first element is taken.
LEMMA PoppedSequence ==
  ASSUME NEW S, NEW s \in Seq(S), s # <<>>
  PROVE  /\ Tail(s) \in Seq(S) /\ Len(s) \in Nat /\ Len(s) > 0 /\ Len(Tail(s)) = Len(s) - 1
         /\ \A i \in 1 .. Len(Tail(s)) : i + 1 \in 1 .. Len(s) /\ Tail(s)[i] = s[i + 1]
         /\ s[1] \in S
         /\ AllOf(s) = AllOf(Tail(s)) \cup {s[1]}
         /\ (\A i, j \in DOMAIN s : s[i] = s[j] => i = j) => s[1] \notin AllOf(Tail(s))
  <1> DEFINE q == Tail(s)
  <1>1. q \in Seq(S) /\ Len(q) = Len(s) - 1 /\ Len(s) \in Nat /\ Len(s) > 0
    OBVIOUS
  <1>2. \A i \in 1 .. Len(q) : i + 1 \in 1 .. Len(s) /\ q[i] = s[i + 1]
    OBVIOUS
  <1>3. DOMAIN q = 1 .. Len(s) - 1 /\ DOMAIN s = 1 .. Len(s) /\ s[1] \in S
    BY <1>1
  <1> HIDE DEF q
  <1>4. \A i \in 2 .. Len(s) : i - 1 \in 1 .. Len(q) /\ q[i - 1] = s[i]
    BY <1>1, <1>2
  <1>5. AllOf(q) \cup {s[1]} \subseteq AllOf(s)
    BY <1>1, <1>2, <1>3, SMTT(20) DEF AllOf
  <1>6. AllOf(s) \subseteq AllOf(q) \cup {s[1]}
    <2> SUFFICES ASSUME NEW i \in 1 .. Len(s), i # 1 PROVE s[i] \in AllOf(q)
      BY <1>3 DEF AllOf
    <2>1. i - 1 \in DOMAIN q /\ q[i - 1] = s[i]
      BY <1>1, <1>3, <1>4
    <2> QED
      BY <2>1 DEF AllOf
  <1>7. ASSUME \A i, j \in DOMAIN s : s[i] = s[j] => i = j
        PROVE  s[1] \notin AllOf(q)
    BY <1>1, <1>2, <1>3, <1>7 DEF AllOf
  <1> QED
    BY <1>1, <1>2, <1>3, <1>5, <1>6, <1>7 DEF q

\* An empty sequence has no elements.
LEMMA EmptySequence == AllOf(<<>>) = {}
  BY DEF AllOf

-----------------------------------------------------------------------------
\* The entries that a push_mpnc has swapped in and not yet linked.
LEMMA UnlinkedIs ==
  \A e : e \in Unlinked <=> \E t \in Threads : pc[t] = "n_link" /\ entry[t] = e
  BY DEF Unlinked

\* An empty stack satisfies the invariant.
LEMMA InitInv == Init /\ mode # "wf" => Inv
  <1> SUFFICES ASSUME Init, mode # "wf" PROVE Inv
    OBVIOUS
  <1>1. TypeOK
    BY StackAssumption DEF Init, TypeOK
  <1>2. Labels
    BY DEF Init, Labels
  <1>3. Owned
    BY DEF Init, Owned, Pushing, Pushers
  <1>4. Snapshots
    BY DEF Init, Snapshots, Snapshot, Snapping, HasNext, Pops
  <1>5. Represents
    BY EmptySequence DEF Init, Represents
  <1> QED
    BY <1>1, <1>2, <1>3, <1>4, <1>5 DEF Inv

\* Nothing of thread u changes.
Same(u) ==
  /\ pc'[u] = pc[u] /\ entry'[u] = entry[u] /\ orig'[u] = orig[u]
  /\ origGen'[u] = origGen[u] /\ upd'[u] = upd[u]

\* A step of a pop that leaves the stack alone.
LEMMA PopLocal ==
  ASSUME Inv, NEW t \in Threads, mode # "nc", TypeOK', Labels', Snapshot(t)',
         UNCHANGED <<mode, head, next, contents, free>>,
         \A u \in Threads \ {t} : Same(u),
         pc'[t] \notin Pushers,
         generation' = generation \/ mode = "grace",
         \A e \in Entries : pending[e] \ {t} \subseteq pending'[e]
  PROVE  Inv'
  <1>1. \A u \in Threads : pc[u] # "n_link" /\ pc'[u] # "n_link"
    BY DEF Inv, Labels, Same, Pushers
  <1>2. Owned'
    <2>1. \A u \in Threads \ {t} : pc'[u] \in Pushing => 
             entry'[u] \in Entries /\ entry'[u] \notin free' /\ entry'[u] \notin AllOf(contents')
      BY DEF Inv, Owned, Same
    <2>2. \A u \in Threads \ {t} : pc'[u] \in {"p_cas", "pt_cas"} => next'[entry'[u]] = orig'[u]
      BY DEF Inv, Owned, Same
    <2>3. \A u, v \in Threads : pc'[u] \in Pushers /\ pc'[v] \in Pushers /\ entry'[u] = entry'[v] => u = v
      BY DEF Inv, Owned, Same
    <2> QED
      BY <1>1, <2>1, <2>2, <2>3 DEF Owned, Pushing, Pushers
  <1>3. ASSUME NEW u \in Threads \ {t} PROVE Snapshot(u)'
    <2>1. Snapshot(u)
      BY DEF Inv, Snapshots
    <2>2. pc[u] \in Snapping => orig[u] \in Entries
      BY <2>1 DEF Snapshot
    <2>3. pc[u] \in Snapping => (u \in pending[orig[u]] => u \in pending'[orig[u]])
      BY <2>2
    <2> QED
      BY <2>1, <2>3 DEF Snapshot, Same
  <1>4. Represents'
    BY <1>1, UnlinkedIs DEF Inv, Represents, Unlinked
  <1> QED
    BY <1>2, <1>3, <1>4 DEF Inv, Snapshots

-----------------------------------------------------------------------------
(* Pops that leave the stack alone. *)

\* The head, when there is one, is the first entry of the list.
LEMMA HeadOnStack ==
  ASSUME Inv, head # NULL
  PROVE  /\ head \in AllOf(contents) /\ head \in Entries /\ contents # <<>> /\ head = contents[1]
  <1>1. contents # <<>> /\ head = contents[1] /\ contents \in Seq(Entries)
    BY DEF Inv, Represents, TypeOK
  <1>2. 1 \in DOMAIN contents /\ contents[1] \in Entries
    BY <1>1
  <1> QED
    BY <1>1, <1>2 DEF AllOf

\* A pop reads the head (and, for _mpmc, the generation) and begins.
LEMMA PopStartInv ==
  ASSUME Inv, NEW t \in Threads, PopUpmc(t) \/ PopMpmc(t) \/ BatchPop(t)
  PROVE  Inv'
  <1>0. UNCHANGED <<mode, shared, entry, upd>> /\ mode # "nc"
    BY DEF PopUpmc, PopMpmc, BatchPop, Atomic
  <1>1. TypeOK'
    BY ZenonT(40) DEF Inv, TypeOK, PopUpmc, PopMpmc, BatchPop, Goto, shared, Pops
  <1>2. Labels'
    <2>1. /\ pc' = [pc EXCEPT ![t] = pc'[t]]
          /\ pc'[t] \in {"u_next", "ut_next", "m_head", "mt_head", "b_head"}
          /\ pc'[t] \in {"u_next", "ut_next"} => mode = "grace"
      BY DEF PopUpmc, PopMpmc, BatchPop, Goto, Inv, TypeOK
    <2> QED
      BY <1>0, <2>1 DEF Inv, TypeOK, Labels
  <1>3. \A u \in Threads \ {t} : Same(u)
    BY DEF Inv, TypeOK, Same, PopUpmc, PopMpmc, BatchPop, Goto
  <1>4. pc'[t] \notin Pushers
    BY DEF Inv, TypeOK, PopUpmc, PopMpmc, BatchPop, Goto, Pushers, Pushing
  <1>5. Snapshot(t)'
    <2>1. CASE PopUpmc(t)
      BY <2>1, HeadOnStack DEF PopUpmc, Goto, Snapshot, Snapping, HasNext, Inv, TypeOK, shared
    <2>2. CASE PopMpmc(t) \/ BatchPop(t)
      BY <2>2 DEF PopMpmc, BatchPop, Goto, Snapshot, Snapping, HasNext, Inv, TypeOK, shared
    <2> QED
      BY <2>1, <2>2
  <1> QED
    BY <1>0, <1>1, <1>2, <1>3, <1>4, <1>5, PopLocal DEF shared

\* A pop_mpmc loads the head after the generation.
LEMMA PopHeadInv ==
  ASSUME Inv, NEW t \in Threads, PopMpmcHead(t) \/ BatchPopHead(t)
  PROVE  Inv'
  <1>0. UNCHANGED <<mode, shared, entry, upd, origGen>> /\ pc[t] \in {"m_head", "mt_head", "b_head"}
        /\ head # NULL /\ orig' = [orig EXCEPT ![t] = head] /\ pc' = [pc EXCEPT ![t] = pc'[t]]
        /\ pc'[t] \in {"m_next", "mt_next", "b_cas"}
    BY DEF PopMpmcHead, BatchPopHead, At, Goto, Inv, TypeOK
  <1>1. TypeOK'
    BY <1>0, HeadOnStack, ZenonT(40) DEF Inv, TypeOK, shared, Pops
  <1>2. Labels' /\ mode # "nc"
    BY <1>0 DEF Inv, TypeOK, Labels
  <1>3. \A u \in Threads \ {t} : Same(u)
    BY <1>0 DEF Inv, TypeOK, Same
  <1>4. pc'[t] \notin Pushers
    BY <1>0 DEF Pushers, Pushing
  <1>5. Snapshot(t)'
    BY <1>0, HeadOnStack DEF Snapshot, Snapshots, Snapping, HasNext, Inv, TypeOK, shared, Pops
  <1> QED
    BY <1>0, <1>1, <1>2, <1>3, <1>4, <1>5, PopLocal DEF shared

\* A pop loads the next pointer of the head it saw.
LEMMA PopNextInv ==
  ASSUME Inv, NEW t \in Threads, PopUpmcNext(t) \/ PopMpmcNext(t)
  PROVE  Inv'
  <1>0. UNCHANGED <<mode, shared, entry, orig, origGen>>
        /\ pc[t] \in {"u_next", "ut_next", "m_next", "mt_next"}
        /\ upd' = [upd EXCEPT ![t] = next[orig[t]]] /\ pc' = [pc EXCEPT ![t] = pc'[t]]
        /\ pc'[t] \in HasNext /\ (pc[t] \in {"m_next", "mt_next"} <=> pc'[t] \in {"m_cas", "mt_cas"})
    BY DEF PopUpmcNext, PopMpmcNext, At, Goto, Inv, TypeOK, HasNext
  <1>1. orig[t] \in Entries
    BY <1>0 DEF Inv, Snapshots, Snapshot, Snapping
  <1>2. TypeOK'
    BY <1>0, <1>1 DEF Inv, TypeOK, shared, Pops, HasNext
  <1>3. Labels' /\ mode # "nc"
    BY <1>0 DEF Inv, TypeOK, Labels, HasNext
  <1>4. \A u \in Threads \ {t} : Same(u)
    BY <1>0 DEF Inv, TypeOK, Same
  <1>5. pc'[t] \notin Pushers
    BY <1>0 DEF Pushers, Pushing, HasNext
  <1>6. Snapshot(t)'
    BY <1>0, <1>1 DEF Snapshot, Snapshots, Snapping, HasNext, Inv, TypeOK, shared, Pops
  <1> QED
    BY <1>0, <1>2, <1>3, <1>4, <1>5, <1>6, PopLocal DEF shared

\* A pop loses its compare-and-swap and takes the head it found instead.
LEMMA PopRetryInv ==
  ASSUME Inv, NEW t \in Threads, PopRetry(t)
  PROVE  Inv'
  <1>0. UNCHANGED <<mode, shared, entry, upd>> /\ head # NULL
        /\ pc[t] \in {"u_cas", "m_cas", "b_cas"} /\ pc' = [pc EXCEPT ![t] = pc'[t]]
        /\ pc'[t] \in {"u_next", "m_next", "b_cas"} /\ (pc[t] = "u_cas" <=> pc'[t] = "u_next")
        /\ orig' = [orig EXCEPT ![t] = head]
        /\ origGen' = [origGen EXCEPT ![t] = IF pc[t] = "u_cas" THEN origGen[t] ELSE generation]
    BY DEF PopRetry, At, Goto, Inv, TypeOK
  <1>1. TypeOK'
    BY <1>0, HeadOnStack DEF Inv, TypeOK, shared, Pops
  <1>2. Labels' /\ mode # "nc"
    BY <1>0 DEF Inv, TypeOK, Labels
  <1>3. \A u \in Threads \ {t} : Same(u)
    BY <1>0 DEF Inv, TypeOK, Same
  <1>4. pc'[t] \notin Pushers
    BY <1>0 DEF Pushers, Pushing
  <1>5. Snapshot(t)'
    BY <1>0, HeadOnStack DEF Snapshot, Snapshots, Snapping, HasNext, Inv, TypeOK, shared, Pops,
       Labels
  <1> QED
    BY <1>0, <1>1, <1>2, <1>3, <1>4, <1>5, PopLocal DEF shared

\* A pop that returns nothing ends its call.
LEMMA PopNothingInv ==
  ASSUME Inv, NEW t \in Threads, PopNothing(t)
  PROVE  Inv'
  <1>0. UNCHANGED <<mode, head, generation, next, contents, free>> /\ Return(t)
        /\ pc[t] \in Pops /\ pending' = [e \in Entries |-> pending[e] \ {t}]
    BY DEF PopNothing, ReturnNothing, Completed, Pops
  <1>1. TypeOK'
    BY <1>0 DEF Inv, TypeOK, Return, Goto, Pops
  <1>2. Labels' /\ mode # "nc"
    BY <1>0 DEF Inv, TypeOK, Labels, Return, Goto, Pops
  <1>3. \A u \in Threads \ {t} : Same(u)
    BY <1>0 DEF Inv, TypeOK, Same, Return, Goto
  <1>4. pc'[t] = "idle"
    BY <1>0 DEF Return, Goto, Inv, TypeOK
  <1>5. Snapshot(t)' /\ pc'[t] \notin Pushers
    BY <1>4 DEF Snapshot, Snapping, HasNext, Pops, Pushers, Pushing
  <1> QED
    BY <1>0, <1>1, <1>2, <1>3, <1>5, PopLocal

\* ck_stack_batch_pop_mpmc counts its generation before it swaps the head.
LEMMA BatchPopWfInv ==
  ASSUME Inv, NEW t \in Threads, BatchPopWf(t)
  PROVE  Inv'
  <1>0. UNCHANGED <<head, next, contents, free, pending, locals>> /\ mode = "grace" /\ mode' = mode
        /\ pc' = [pc EXCEPT ![t] = "w_swap"] /\ generation' = generation + 1
    BY DEF BatchPopWf, Goto, Inv
  <1>1. TypeOK'
    BY <1>0 DEF Inv, TypeOK, locals, Pops
  <1>2. Labels'
    BY <1>0 DEF Inv, TypeOK, Labels
  <1>3. \A u \in Threads \ {t} : Same(u)
    BY <1>0 DEF Inv, TypeOK, Same, locals
  <1>4. Snapshot(t)' /\ pc'[t] \notin Pushers
    BY <1>0 DEF Snapshot, Snapping, HasNext, Pops, Pushers, Pushing, Inv, TypeOK
  <1> QED
    BY <1>0, <1>1, <1>2, <1>3, <1>4, PopLocal

-----------------------------------------------------------------------------
(* Producers. *)

\* A step of a producer that leaves the stack alone: nobody else has a use for
\* its entry.
LEMMA PushLocal ==
  ASSUME Inv, NEW t \in Threads, TypeOK', Labels',
         UNCHANGED <<mode, head, generation, contents, pending>>,
         \A u \in Threads \ {t} : Same(u),
         pc'[t] \notin Pops, pc[t] # "n_link", pc'[t] # "n_link",
         NEW e \in Entries,
         \A x \in Entries \ {e} : next'[x] = next[x] /\ (x \in free' <=> x \in free),
         e \in free \/ (pc[t] \in Pushing /\ entry[t] = e),
         e \in free /\ e \notin free' => pending[e] = {},
         pc'[t] \in Pushing => entry'[t] = e /\ e \notin free',
         pc'[t] \in {"p_cas", "pt_cas"} => next'[e] = orig'[t]
  PROVE  Inv'
  <1>0. e \notin AllOf(contents)
    BY DEF Inv, Owned, Represents
  <1>1. \A u \in Threads \ {t} : pc[u] \in Pushers => entry[u] # e
    <2> SUFFICES ASSUME NEW u \in Threads \ {t}, pc[u] \in Pushers, entry[u] = e PROVE FALSE
      OBVIOUS
    <2>1. CASE pc[u] = "n_link"
      BY <1>0, <2>1 DEF Inv, Owned, AllOf
    <2>2. CASE pc[u] \in Pushing
      BY <2>2 DEF Inv, Owned, Pushers
    <2> QED
      BY <2>1, <2>2 DEF Pushers
  <1>2. \A u \in Threads \ {t} : pc[u] \in Pushing => entry[u] \in Entries \ {e}
    BY <1>1 DEF Inv, Owned, Pushers
  <1>3. Owned'
    <2>1. \A u \in Threads : pc'[u] \in Pushing =>
             entry'[u] \in Entries /\ entry'[u] \notin free' /\ entry'[u] \notin AllOf(contents')
      BY <1>0, <1>2 DEF Inv, Owned, Same
    <2>2. \A u \in Threads : pc'[u] \in {"p_cas", "pt_cas"} => next'[entry'[u]] = orig'[u]
      BY <1>2 DEF Inv, Owned, Same, Pushing
    <2>3. \A u \in Threads : pc'[u] = "n_link" =>
             \E i \in DOMAIN contents' : contents'[i] = entry'[u] /\ orig'[u] = Below(i)'
      BY DEF Inv, Owned, Same, Below
    <2>4. \A u, v \in Threads :
             pc'[u] \in Pushers /\ pc'[v] \in Pushers /\ entry'[u] = entry'[v] => u = v
      BY <1>1 DEF Inv, Owned, Same, Pushers
    <2> QED
      BY <2>1, <2>2, <2>3, <2>4 DEF Owned
  <1>4. ASSUME NEW u \in Threads \ {t} PROVE Snapshot(u)'
    <2>1. Snapshot(u)
      BY DEF Inv, Snapshots
    <2>2. orig[u] \in AllOf(contents) => next'[orig[u]] = next[orig[u]]
      BY <1>0 DEF Inv, TypeOK, AllOf
    <2>3. pc[u] \in Snapping /\ orig[u] \in free /\ u \in pending[orig[u]] => orig[u] \in free'
      BY <2>1 DEF Snapshot
    <2> QED
      BY <2>1, <2>2, <2>3 DEF Snapshot, Same
  <1>5. Snapshot(t)'
    BY DEF Snapshot, Snapping, HasNext, Pops
  <1>6. Represents'
    <2>1. Unlinked' = Unlinked
      BY DEF Unlinked, Same
    <2>2. \A i \in DOMAIN contents : contents[i] \in Entries \ {e}
      BY <1>0 DEF AllOf, Inv, TypeOK
    <2>3. AllOf(contents) \cap free' = {}
      BY <1>0, <2>2 DEF Inv, Represents, AllOf
    <2> QED
      BY <2>1, <2>2, <2>3 DEF Inv, Represents
  <1> QED
    BY <1>3, <1>4, <1>5, <1>6 DEF Inv, Snapshots

\* A push takes an entry nobody can still read.
LEMMA PushInv ==
  ASSUME Inv, NEW t \in Threads, NEW e \in Entries, Push(t, e) \/ PushMpnc(t, e)
  PROVE  Inv'
  <1>0. /\ UNCHANGED <<mode, head, generation, contents, pending>>
        /\ pc[t] = "idle" /\ pc' = [pc EXCEPT ![t] = pc'[t]]
        /\ pc'[t] \in {"p_next", "pt_next", "n_swap"} /\ (pc'[t] = "n_swap" <=> mode = "nc")
        /\ entry' = [entry EXCEPT ![t] = e] /\ e \in free /\ pending[e] = {} /\ free' = free \ {e}
    BY DEF Push, PushMpnc, At, Goto, Inv, TypeOK, Reusable, Atomic
  <1>1. /\ next' \in [Entries -> Entries \cup {NULL}] /\ \A x \in Entries \ {e} : next'[x] = next[x]
        /\ orig' \in [Threads -> Entries \cup {NULL}] /\ \A u \in Threads \ {t} : orig'[u] = orig[u]
        /\ UNCHANGED <<origGen, upd>>
    BY ZenonT(40) DEF Push, PushMpnc, Inv, TypeOK
  <1>2. TypeOK'
    BY <1>0, <1>1, ZenonT(40) DEF Inv, TypeOK
  <1>3. Labels'
    BY <1>0 DEF Inv, TypeOK, Labels
  <1>4. \A u \in Threads \ {t} : Same(u)
    BY <1>0, <1>1 DEF Inv, TypeOK, Same
  <1>5. pc'[t] \notin Pops /\ entry'[t] = e
    BY <1>0 DEF Pops, Inv, TypeOK
  <1> QED
    BY <1>0, <1>1, <1>2, <1>3, <1>4, <1>5, PushLocal

\* A push before its compare-and-swap, or one that loses it.
LEMMA PushStepInv ==
  ASSUME Inv, NEW t \in Threads, PushNext(t) \/ PushRetry(t) \/ TryPushFail(t)
  PROVE  Inv'
  <1> DEFINE e == entry[t]
  <1>0. /\ UNCHANGED <<mode, head, generation, contents, pending>>
        /\ pc[t] \in Pushing /\ pc[t] # "n_swap" /\ pc' = [pc EXCEPT ![t] = pc'[t]]
        /\ pc'[t] \in {"p_next", "p_cas", "pt_cas", "idle"}
    BY DEF PushNext, PushRetry, TryPushFail, Return, At, Goto, Inv, TypeOK, Pushing, shared
  <1>1. e \in Entries /\ e \notin free
    BY <1>0 DEF Inv, Owned
  <1>2. /\ next' \in [Entries -> Entries \cup {NULL}] /\ \A x \in Entries \ {e} : next'[x] = next[x]
        /\ pc'[t] \in {"p_cas", "pt_cas"} => next'[e] = orig'[t]
    BY <1>1, ZenonT(40) DEF PushNext, PushRetry, TryPushFail, Return, Goto, Inv, TypeOK, shared, locals
  <1>3. /\ orig' \in [Threads -> Entries \cup {NULL}] /\ upd' \in [Threads -> Entries \cup {NULL}]
        /\ origGen' \in [Threads -> Nat] /\ entry' \in [Threads -> Entries \cup {NULL}]
        /\ \A u \in Threads \ {t} : orig'[u] = orig[u] /\ upd'[u] = upd[u] /\ origGen'[u] = origGen[u]
                                    /\ entry'[u] = entry[u]
    <2>1. CASE PushNext(t)
      BY <2>1 DEF PushNext, Inv, TypeOK, locals
    <2>2. CASE PushRetry(t)
      BY <2>2 DEF PushRetry, Inv, TypeOK
    <2>3. CASE TryPushFail(t)
      BY <2>3 DEF TryPushFail, Return, Inv, TypeOK
    <2> QED
      BY <2>1, <2>2, <2>3
  <1>4. /\ free' \subseteq Entries /\ \A x \in Entries \ {e} : x \in free' <=> x \in free
        /\ pc'[t] \in Pushing => entry'[t] = e /\ free' = free
    BY <1>1 DEF PushNext, PushRetry, TryPushFail, Return, Goto, Inv, TypeOK, shared, locals, Pushing
  <1>5. TypeOK'
    <2>1. pc' \in [Threads -> Pops \cup {"idle", "p_next", "p_cas", "pt_next", "pt_cas",
                                         "n_swap", "n_link"}]
      BY <1>0 DEF Inv, TypeOK
    <2> QED
      BY <1>0, <1>2, <1>3, <1>4, <2>1 DEF Inv, TypeOK
  <1>6. Labels'
    BY <1>0 DEF Inv, TypeOK, Labels, Pushing
  <1>7. \A u \in Threads \ {t} : Same(u)
    BY <1>0, <1>3 DEF Inv, TypeOK, Same
  <1>8. pc'[t] \notin Pops /\ pc[t] # "n_link" /\ pc'[t] # "n_link"
    BY <1>0 DEF Pops, Pushing
  <1> QED
    BY <1>0, <1>1, <1>2, <1>4, <1>5, <1>6, <1>7, <1>8, PushLocal

\* push_mpnc stores the next pointer of the entry it swapped in.
LEMMA PushMpncLinkInv ==
  ASSUME Inv, NEW t \in Threads, PushMpncLink(t)
  PROVE  Inv'
  <1>0. UNCHANGED <<mode, head, generation, contents, free, pending>> /\ pc[t] = "n_link" /\ mode = "nc"
        /\ next' = [next EXCEPT ![entry[t]] = orig[t]] /\ pc' = [pc EXCEPT ![t] = "idle"]
    BY DEF PushMpncLink, At, Return, Goto, Inv, Labels
  <1>1. PICK k \in DOMAIN contents : contents[k] = entry[t] /\ orig[t] = Below(k)
    BY <1>0 DEF Inv, Owned
  <1>2. TypeOK'
    BY <1>0 DEF PushMpncLink, Return, Goto, Inv, TypeOK
  <1>3. Labels'
    BY <1>0 DEF Inv, TypeOK, Labels
  <1>4. \A u \in Threads \ {t} : Same(u)
    BY <1>0 DEF PushMpncLink, Return, Inv, TypeOK, Same
  <1>5. pc'[t] = "idle" /\ \A u \in Threads : pc'[u] \in {"idle", "n_swap", "n_link"}
    BY <1>0, <1>3 DEF Inv, TypeOK, Labels
  <1>6. Owned'
    BY <1>0, <1>4, <1>5 DEF Inv, Owned, Same, Below, Pushing, Pushers
  <1>7. Snapshots'
    BY <1>0, <1>5 DEF Snapshots, Snapshot, Snapping, HasNext, Pops
  <1>8. Represents'
    <2>1. \A i \in DOMAIN contents : contents[i] = entry[t] => i = k
      BY <1>1 DEF Inv, Represents
    <2>2. next'[entry[t]] = Below(k) /\ \A x \in Entries : x # entry[t] => next'[x] = next[x]
      BY <1>0, <1>1 DEF Inv, TypeOK
    <2>3. \A e : e \in Unlinked /\ e # entry[t] => e \in Unlinked'
      BY <1>4 DEF Unlinked, Same
    <2>4. ASSUME NEW i \in DOMAIN contents, contents[i] \notin Unlinked'
          PROVE  next'[contents[i]] = Below(i)
      <3>1. CASE contents[i] = entry[t]
        BY <2>1, <2>2, <3>1
      <3>2. CASE contents[i] # entry[t]
        <4>1. contents[i] \notin Unlinked /\ contents[i] \in Entries
          BY <2>3, <2>4, <3>2 DEF Inv, TypeOK
        <4> QED
          BY <2>2, <3>2, <4>1 DEF Inv, Represents, Below
      <3> QED
        BY <3>1, <3>2
    <2> QED
      BY <1>0, <2>4 DEF Inv, Represents, Below
  <1> QED
    BY <1>0, <1>2, <1>3, <1>6, <1>7, <1>8 DEF Inv

\* An entry that nobody else has becomes the head.
LEMMA PushTop ==
  ASSUME Inv, NEW e \in Entries, e \notin AllOf(contents), e \notin free', free' \subseteq free,
         head' = e, contents' = <<e>> \o contents,
         \A x \in Entries \ {e} : next'[x] = next[x],
         e \in Unlinked' \/ next'[e] = head,
         Unlinked \subseteq Unlinked'
  PROVE  /\ Represents' /\ contents' \in Seq(Entries) /\ AllOf(contents') = AllOf(contents) \cup {e}
         /\ \A i \in DOMAIN contents : i + 1 \in DOMAIN contents' /\ contents'[i + 1] = contents[i]
                                       /\ Below(i + 1)' = Below(i)
         /\ 1 \in DOMAIN contents' /\ contents'[1] = e /\ Below(1)' = head
  <1>0. contents \in Seq(Entries) /\ Len(contents) \in Nat /\ DOMAIN contents = 1 .. Len(contents)
        /\ contents' \in Seq(Entries) /\ Len(contents') = Len(contents) + 1
        /\ DOMAIN contents' = 1 .. Len(contents) + 1
    BY PushedSequence DEF Inv, TypeOK
  <1>1. /\ contents' # <<>> /\ contents'[1] = e
        /\ \A i \in 1 .. Len(contents) : contents'[i + 1] = contents[i]
        /\ \A i \in 2 .. Len(contents) + 1 : i - 1 \in 1 .. Len(contents) /\ contents'[i] = contents[i - 1]
        /\ AllOf(contents') = AllOf(contents) \cup {e}
    BY <1>0, PushedSequence
  <1>2. head = IF Len(contents) = 0 THEN NULL ELSE contents[1]
    BY <1>0 DEF Inv, Represents
  <1>3. ASSUME NEW i \in 1 .. Len(contents)
        PROVE  Below(i + 1)' = Below(i)
    <2>1. CASE i = Len(contents)
      BY <1>0, <2>1 DEF Below
    <2>2. CASE i # Len(contents)
      <3>0. Len(contents) \in Nat /\ Len(contents') = Len(contents) + 1
        BY <1>0
      <3>1. i + 1 \in 1 .. Len(contents)
        BY <2>2, <3>0
      <3>2. i + 1 # Len(contents')
        BY <2>2, <3>0
      <3> QED
        BY <1>1, <2>2, <3>1, <3>2 DEF Below
    <2> QED
      BY <2>1, <2>2
  <1>4. Below(1)' = head
    <2>1. CASE Len(contents) = 0
      BY <1>0, <1>2, <2>1 DEF Below
    <2>2. CASE Len(contents) # 0
      <3>1. 1 \in 1 .. Len(contents) /\ 1 # Len(contents')
        BY <1>0, <2>2
      <3> QED
        BY <1>1, <1>2, <2>2, <3>1 DEF Below
    <2> QED
      BY <2>1, <2>2
  <1>5. ASSUME NEW i \in DOMAIN contents', contents'[i] \notin Unlinked'
        PROVE  next'[contents'[i]] = Below(i)'
    <2>1. CASE i = 1
      BY <1>1, <1>4, <1>5, <2>1
    <2>2. CASE i # 1
      <3> DEFINE j == i - 1
      <3>1. i \in 2 .. Len(contents) + 1
        BY <1>0, <2>2
      <3>2. j \in 1 .. Len(contents) /\ contents'[i] = contents[j] /\ i = j + 1
        BY <1>0, <1>1, <3>1
      <3>3. contents[j] \in Entries /\ contents[j] # e
        BY <1>0, <3>2 DEF AllOf
      <3>4. next[contents[j]] = Below(j)
        BY <1>0, <1>5, <3>2 DEF Inv, Represents, Below
      <3> HIDE DEF j
      <3> QED
        BY <1>3, <3>2, <3>3, <3>4
    <2> QED
      BY <2>1, <2>2
  <1>6. ASSUME NEW i \in DOMAIN contents', NEW j \in DOMAIN contents', contents'[i] = contents'[j]
        PROVE  i = j
    <2>1. ASSUME NEW k \in 2 .. Len(contents) + 1 PROVE contents'[k] # e
      <3>1. k - 1 \in DOMAIN contents /\ contents'[k] = contents[k - 1]
        BY <1>0, <1>1
      <3> QED
        BY <3>1 DEF AllOf
    <2>2. CASE i = 1 \/ j = 1
      BY <1>0, <1>1, <1>6, <2>1, <2>2
    <2>3. CASE i # 1 /\ j # 1
      <3>1. i \in 2 .. Len(contents) + 1 /\ j \in 2 .. Len(contents) + 1
        BY <1>0, <2>3
      <3>2. i - 1 \in DOMAIN contents /\ j - 1 \in DOMAIN contents
            /\ contents[i - 1] = contents[j - 1]
        BY <1>0, <1>1, <1>6, <3>1
      <3>3. i - 1 = j - 1
        BY <3>2 DEF Inv, Represents
      <3> QED
        BY <3>1, <3>3
    <2> QED
      BY <2>2, <2>3
  <1>7. AllOf(contents') \cap free' = {}
    BY <1>1 DEF Inv, Represents
  <1>8. Represents'
    BY <1>1, <1>5, <1>6, <1>7 DEF Represents, Below
  <1>9. ASSUME NEW i \in DOMAIN contents
        PROVE  i + 1 \in DOMAIN contents' /\ contents'[i + 1] = contents[i] /\ Below(i + 1)' = Below(i)
    <2>1. i \in 1 .. Len(contents) /\ i + 1 \in 1 .. Len(contents) + 1
      BY <1>0
    <2> QED
      BY <1>0, <1>1, <1>3, <2>1
  <1>10. 1 \in DOMAIN contents'
    BY <1>0
  <1> QED
    BY <1>0, <1>1, <1>4, <1>8, <1>9, <1>10

\* A push wins its compare-and-swap.
LEMMA PushCasInv ==
  ASSUME Inv, NEW t \in Threads, PushCas(t)
  PROVE  Inv'
  <1> DEFINE e == entry[t]
  <1>0. /\ UNCHANGED <<mode, generation, next, free, pending>> /\ mode # "nc"
        /\ pc[t] \in {"p_cas", "pt_cas"} /\ pc' = [pc EXCEPT ![t] = "idle"]
        /\ head = orig[t] /\ head' = e /\ contents' = <<e>> \o contents
    BY DEF PushCas, At, Return, Goto, Inv, Labels
  <1>1. e \in Entries /\ e \notin free /\ e \notin AllOf(contents) /\ next[e] = head
    BY <1>0 DEF Inv, Owned, Pushing
  <1>2. \A u \in Threads \ {t} : Same(u)
    BY <1>0 DEF PushCas, Return, Inv, TypeOK, Same
  <1>3. Unlinked = {} /\ Unlinked' = {}
    BY <1>0 DEF Inv, Labels, Unlinked, TypeOK
  <1> HIDE DEF e
  <1>4. Represents' /\ contents' \in Seq(Entries) /\ AllOf(contents') = AllOf(contents) \cup {e}
    BY <1>0, <1>1, <1>3, PushTop
  <1>5. TypeOK'
    BY <1>0, <1>1, <1>4 DEF PushCas, Return, Goto, Inv, TypeOK
  <1>6. Labels'
    BY <1>0 DEF Inv, TypeOK, Labels
  <1>7. pc'[t] = "idle" /\ \A u \in Threads : pc'[u] # "n_link"
    BY <1>0 DEF Inv, TypeOK, Labels
  <1>8. \A u \in Threads \ {t} : pc[u] \in Pushing => entry[u] # e
    BY <1>0 DEF Inv, Owned, Pushing, Pushers, e
  <1>9. Owned'
    BY <1>0, <1>2, <1>4, <1>7, <1>8 DEF Inv, Owned, Same, Pushing, Pushers
  <1>10. ASSUME NEW u \in Threads \ {t} PROVE Snapshot(u)'
    <2>1. Snapshot(u)
      BY DEF Inv, Snapshots
    <2>2. pc[u] \in HasNext /\ (mode = "grace" \/ origGen[u] = generation) => orig[u] # e
      <3>1. mode \in {"mpmc", "grace"}
        BY <1>0, StackAssumption DEF Inv, TypeOK
      <3> QED
        BY <1>1, <2>1, <3>1 DEF Snapshot, Snapping, HasNext
    <2> QED
      BY <1>0, <1>2, <1>4, <2>1, <2>2 DEF Snapshot, Same
  <1>11. Snapshot(t)'
    BY <1>7 DEF Snapshot, Snapping, HasNext, Pops
  <1> QED
    BY <1>0, <1>4, <1>5, <1>6, <1>9, <1>10, <1>11 DEF Inv, Snapshots

\* push_mpnc swaps its entry in, and leaves the stack cut below it.
LEMMA PushMpncSwapInv ==
  ASSUME Inv, NEW t \in Threads, PushMpncSwap(t)
  PROVE  Inv'
  <1> DEFINE e == entry[t]
  <1>0. /\ UNCHANGED <<mode, generation, next, free, pending, entry, origGen, upd>> /\ mode = "nc"
        /\ pc[t] = "n_swap" /\ pc' = [pc EXCEPT ![t] = "n_link"]
        /\ orig' = [orig EXCEPT ![t] = head] /\ head' = e /\ contents' = <<e>> \o contents
    BY DEF PushMpncSwap, At, Goto, Inv, Labels
  <1>1. e \in Entries /\ e \notin free /\ e \notin AllOf(contents)
    BY <1>0 DEF Inv, Owned, Pushing
  <1>2. \A u \in Threads \ {t} : Same(u)
    BY <1>0 DEF Inv, TypeOK, Same
  <1>3. e \in Unlinked' /\ Unlinked \subseteq Unlinked'
    BY <1>0, <1>2 DEF Unlinked, Same, Inv, TypeOK
  <1> HIDE DEF e
  <1>4. /\ Represents' /\ contents' \in Seq(Entries) /\ AllOf(contents') = AllOf(contents) \cup {e}
        /\ \A i \in DOMAIN contents : i + 1 \in DOMAIN contents' /\ contents'[i + 1] = contents[i]
                                      /\ Below(i + 1)' = Below(i)
        /\ 1 \in DOMAIN contents' /\ contents'[1] = e /\ Below(1)' = head
    BY <1>0, <1>1, <1>3, PushTop
  <1>5. TypeOK'
    BY <1>0, <1>1, <1>4 DEF Inv, TypeOK
  <1>6. Labels'
    BY <1>0 DEF Inv, TypeOK, Labels
  <1>7. \A u \in Threads : pc'[u] \in {"idle", "n_swap", "n_link"}
    BY <1>0, <1>6 DEF Labels
  <1>8. Owned'
    <2>1. \A u \in Threads \ {t} : pc[u] \in Pushers => entry[u] # e
      BY <1>0 DEF Inv, Owned, Pushing, Pushers, e
    <2>2. \A u \in Threads : pc'[u] \in Pushing =>
             entry'[u] \in Entries /\ entry'[u] \notin free' /\ entry'[u] \notin AllOf(contents')
      <3> SUFFICES ASSUME NEW u \in Threads, pc'[u] \in Pushing
                   PROVE  entry'[u] \in Entries /\ entry'[u] \notin free' /\ entry'[u] \notin AllOf(contents')
        OBVIOUS
      <3>1. u # t /\ pc[u] = pc'[u]
        BY <1>0 DEF Inv, TypeOK, Pushing
      <3> QED
        BY <1>0, <1>4, <2>1, <3>1 DEF Inv, Owned, Pushers
    <2>3. ASSUME NEW u \in Threads, pc'[u] = "n_link"
          PROVE  \E i \in DOMAIN contents' : contents'[i] = entry'[u] /\ orig'[u] = Below(i)'
      <3>1. CASE u = t
        BY <1>0, <1>4, <3>1 DEF Inv, TypeOK, e
      <3>2. CASE u # t
        <4>1. PICK i \in DOMAIN contents : contents[i] = entry[u] /\ orig[u] = Below(i)
          BY <1>2, <2>3, <3>2 DEF Inv, Owned, Same
        <4> QED
          BY <1>2, <1>4, <3>2, <4>1 DEF Same
      <3> QED
        BY <3>1, <3>2
    <2>4. \A u, v \in Threads :
             pc'[u] \in Pushers /\ pc'[v] \in Pushers /\ entry'[u] = entry'[v] => u = v
      <3>1. \A u \in Threads : pc'[u] \in Pushers => pc[u] \in Pushers
        BY <1>0 DEF Inv, TypeOK, Pushers, Pushing
      <3> QED
        BY <1>0, <3>1 DEF Inv, Owned
    <2> QED
      BY <1>7, <2>2, <2>3, <2>4 DEF Owned
  <1>9. Snapshots'
    BY <1>0, <1>7 DEF Snapshots, Snapshot, Snapping, HasNext, Pops
  <1> QED
    BY <1>0, <1>4, <1>5, <1>6, <1>8, <1>9 DEF Inv

\* With nobody in a call, a thread that makes none has nothing to disturb.
LEMMA QuietStep ==
  ASSUME Inv, Quiet, UNCHANGED <<mode, generation, pc, locals>>, TypeOK', Represents'
  PROVE  Inv'
  <1>1. \A t \in Threads : pc'[t] = "idle" /\ pc[t] = "idle"
    BY DEF Quiet
  <1> QED
    BY <1>1 DEF Inv, Labels, Owned, Snapshots, Snapshot, Pushing, Pushers, Snapping, HasNext, Pops

\* A push by the only user of the stack.
LEMMA PushSpncInv ==
  ASSUME Inv, NEW t \in Threads, NEW e \in Entries, PushSpnc(t, e)
  PROVE  Inv'
  <1>0. /\ UNCHANGED <<mode, generation, pc, pending, locals>> /\ Quiet /\ e \in free
        /\ next' = [next EXCEPT ![e] = head] /\ head' = e /\ contents' = <<e>> \o contents
        /\ free' = free \ {e}
    BY DEF PushSpnc, Reusable
  <1>1. e \notin AllOf(contents) /\ head \in Entries \cup {NULL}
    BY <1>0 DEF Inv, Represents, TypeOK
  <1>2. Unlinked' = Unlinked
    BY <1>0 DEF Unlinked, locals
  <1>3. next'[e] = head /\ \A x \in Entries \ {e} : next'[x] = next[x]
    BY <1>0 DEF Inv, TypeOK
  <1>4. Represents' /\ contents' \in Seq(Entries)
    BY <1>0, <1>1, <1>2, <1>3, PushTop
  <1>5. TypeOK'
    BY <1>0, <1>1, <1>4 DEF Inv, TypeOK, locals
  <1> QED
    BY <1>0, <1>4, <1>5, QuietStep

-----------------------------------------------------------------------------
(* Removals. *)

\* The head is replaced by its next and handed to a caller.
LEMMA PopTop ==
  ASSUME Inv, head # NULL, Unlinked = {}, Unlinked' = {},
         head' = next[head], next' = next, contents' = Tail(contents), free' = free \cup {head}
  PROVE  /\ Represents' /\ contents' \in Seq(Entries) /\ head' \in Entries \cup {NULL}
         /\ AllOf(contents) = AllOf(contents') \cup {head} /\ head \in Entries
  <1>0. contents # <<>> /\ head = contents[1] /\ head \in Entries /\ contents \in Seq(Entries)
    BY HeadOnStack DEF Inv, TypeOK
  <1>1. /\ Len(contents) \in Nat /\ Len(contents) > 0 /\ Len(contents') = Len(contents) - 1
        /\ contents' \in Seq(Entries)
    BY <1>0, PoppedSequence
  <1>2. /\ \A i \in 1 .. Len(contents') : i + 1 \in 1 .. Len(contents) /\ contents'[i] = contents[i + 1]
        /\ AllOf(contents) = AllOf(contents') \cup {head}
    BY <1>0, PoppedSequence
  <1>3. head \notin AllOf(contents')
    BY <1>0, PoppedSequence DEF Inv, Represents
  <1>4. DOMAIN contents = 1 .. Len(contents) /\ DOMAIN contents' = 1 .. Len(contents')
    BY <1>0, <1>1
  <1>5. \A i \in 1 .. Len(contents) : next[contents[i]] = Below(i)
    BY <1>4 DEF Inv, Represents, Below
  <1>6. head' = IF contents' = <<>> THEN NULL ELSE contents'[1]
    <2>1. 1 \in 1 .. Len(contents) /\ head' = Below(1)
      BY <1>0, <1>1, <1>5
    <2>2. CASE Len(contents) = 1
      BY <1>1, <2>1, <2>2 DEF Below
    <2>3. CASE Len(contents) # 1
      <3>1. 1 \in 1 .. Len(contents') /\ contents' # <<>>
        BY <1>1, <2>3
      <3> QED
        BY <1>2, <2>1, <2>3, <3>1 DEF Below
    <2> QED
      BY <2>2, <2>3
  <1>7. ASSUME NEW i \in 1 .. Len(contents')
        PROVE  next'[contents'[i]] = Below(i)'
    <2>1. i + 1 \in 1 .. Len(contents) /\ contents'[i] = contents[i + 1]
      BY <1>2
    <2>2. next'[contents'[i]] = Below(i + 1)
      BY <1>5, <2>1
    <2>3. CASE i = Len(contents')
      <3>1. i + 1 = Len(contents)
        BY <1>1, <2>3
      <3> QED
        BY <2>2, <2>3, <3>1 DEF Below
    <2>4. CASE i # Len(contents')
      <3>0. Len(contents') \in Nat /\ Len(contents) = Len(contents') + 1
        BY <1>1
      <3>1. i + 1 \in 1 .. Len(contents') /\ i + 1 # Len(contents)
        BY <2>4, <3>0
      <3>2. contents'[i + 1] = contents[(i + 1) + 1]
        BY <1>2, <3>1
      <3> QED
        BY <2>2, <2>4, <3>1, <3>2 DEF Below
    <2> QED
      BY <2>3, <2>4
  <1>8. ASSUME NEW i \in 1 .. Len(contents'), NEW j \in 1 .. Len(contents'), contents'[i] = contents'[j]
        PROVE  i = j
    <2>1. i + 1 \in DOMAIN contents /\ j + 1 \in DOMAIN contents /\ contents[i + 1] = contents[j + 1]
      BY <1>2, <1>4, <1>8
    <2>2. i + 1 = j + 1
      BY <2>1 DEF Inv, Represents
    <2> QED
      BY <1>1, <2>2
  <1>9. AllOf(contents') \cap free' = {}
    BY <1>2, <1>3 DEF Inv, Represents
  <1>10. Represents'
    BY <1>4, <1>6, <1>7, <1>8, <1>9 DEF Represents, Below
  <1>11. head' \in Entries \cup {NULL}
    BY <1>0 DEF Inv, TypeOK
  <1> QED
    BY <1>0, <1>1, <1>2, <1>10, <1>11

\* The stack is emptied and all of it handed to a caller.
LEMMA PopAll ==
  ASSUME Inv, head' = NULL, contents' = <<>>, free' = free \cup AllOf(contents)
  PROVE  /\ Represents' /\ contents' \in Seq(Entries) /\ AllOf(contents') = {}
         /\ AllOf(contents) \subseteq Entries
  <1>1. AllOf(contents') = {} /\ DOMAIN contents' = {} /\ contents' \in Seq(Entries)
    BY EmptySequence
  <1>2. AllOf(contents) \subseteq Entries
    BY DEF Inv, TypeOK, AllOf
  <1> QED
    BY <1>1, <1>2 DEF Represents

\* Entries leave the stack: whoever has a snapshot of one of them has an old
\* generation now, or is one of those that are waited for.
LEMMA Removal ==
  ASSUME Inv, NEW t \in Threads, NEW S \in SUBSET Entries, mode # "nc", TypeOK', Represents',
         UNCHANGED <<mode, next>>, Removed(t, S), AllOf(contents) = AllOf(contents') \cup S,
         \A u \in Threads \ {t} : Same(u), pc'[t] = "idle",
         mode = "mpmc" => generation' = generation + 1
  PROVE  Inv'
  <1>0. Labels'
    BY DEF Inv, Labels, Same
  <1>1. \A u \in Threads : pc'[u] # "n_link"
    BY <1>0 DEF Labels
  <1>2. Owned'
    BY <1>1 DEF Inv, Owned, Same, Removed, Pushers, Pushing
  <1>3. ASSUME NEW u \in Threads \ {t} PROVE Snapshot(u)'
    <2>1. Snapshot(u)
      BY DEF Inv, Snapshots
    <2>2. CASE mode = "mpmc"
      <3>1. generation \in Nat /\ origGen[u] \in Nat
        BY DEF Inv, TypeOK
      <3>2. pc[u] \in Pops => origGen[u] <= generation' /\ origGen[u] # generation'
        BY <2>1, <2>2, <3>1 DEF Snapshot
      <3>3. pc[u] \in HasNext => pc[u] \in Pops
        BY DEF HasNext, Pops
      <3>4. pc[u] \in Snapping => pc[u] \in Pops
        BY DEF Snapping, Pops
      <3> QED
        BY <2>1, <2>2, <3>2, <3>3, <3>4 DEF Snapshot, Same
    <2>3. CASE mode = "grace"
      <3>1. ASSUME pc[u] \in Snapping
            PROVE  orig[u] \in AllOf(contents') \/ (orig[u] \in free' /\ u \in pending'[orig[u]])
        <4>1. orig[u] \in Entries /\ u \in InProgress(t)
          BY <2>1, <2>3, <3>1 DEF Snapshot, InProgress, Snapping, Pops
        <4> QED
          BY <2>1, <2>3, <3>1, <4>1 DEF Snapshot, Removed
      <3>2. pc[u] \in Snapping => orig[u] \in Entries
        BY <2>1 DEF Snapshot
      <3> QED
        BY <2>1, <2>3, <3>1, <3>2 DEF Snapshot, Same
    <2> QED
      BY <2>2, <2>3, StackAssumption DEF Inv, TypeOK
  <1>4. Snapshot(t)'
    BY DEF Snapshot, Snapping, HasNext, Pops
  <1> QED
    BY <1>0, <1>2, <1>3, <1>4 DEF Inv, Snapshots

\* A pop wins its compare-and-swap: the next pointer it read earlier is still
\* the entry below the head.
LEMMA PopCasInv ==
  ASSUME Inv, NEW t \in Threads, PopUpmcCas(t) \/ PopMpmcCas(t)
  PROVE  Inv'
  <1>0. /\ UNCHANGED <<mode, next>> /\ Return(t) /\ Removed(t, {orig[t]}) /\ contents' = Tail(contents)
        /\ pc[t] \in HasNext /\ head = orig[t] /\ head' = upd[t]
    BY DEF PopUpmcCas, PopMpmcCas, At, HasNext
  <1>1. mode # "nc" /\ (mode = "grace" \/ origGen[t] = generation)
    <2>1. CASE PopMpmcCas(t)
      BY <1>0, <2>1 DEF PopMpmcCas, Inv, Labels, HasNext
    <2>2. CASE PopUpmcCas(t)
      BY <2>2, StackAssumption DEF PopUpmcCas, At, Inv, Labels, TypeOK
    <2> QED
      BY <2>1, <2>2
  <1>2. head \in Entries /\ head # NULL /\ head \in AllOf(contents)
    BY <1>0, HeadOnStack, StackAssumption DEF Inv, Snapshots, Snapshot, Snapping, HasNext
  <1>3. head' = next[head]
    BY <1>0, <1>1, <1>2 DEF Inv, Snapshots, Snapshot
  <1>4. pc'[t] = "idle" /\ \A u \in Threads \ {t} : Same(u)
    BY <1>0 DEF Return, Goto, Inv, TypeOK, Same
  <1>5. Unlinked = {} /\ Unlinked' = {}
    BY <1>1, <1>4 DEF Inv, Labels, Unlinked, Same
  <1>6. free' = free \cup {head}
    BY <1>0 DEF Removed
  <1>7. /\ Represents' /\ contents' \in Seq(Entries) /\ head' \in Entries \cup {NULL}
        /\ AllOf(contents) = AllOf(contents') \cup {head}
    BY <1>0, <1>2, <1>3, <1>5, <1>6, PopTop
  <1>8. generation' \in Nat /\ (mode = "mpmc" => generation' = generation + 1)
    <2>1. CASE PopMpmcCas(t)
      BY <2>1 DEF PopMpmcCas, Inv, TypeOK
    <2>2. CASE PopUpmcCas(t)
      BY <2>2 DEF PopUpmcCas, At, Inv, Labels, TypeOK
    <2> QED
      BY <2>1, <2>2
  <1>9. pending' \in [Entries -> SUBSET Threads]
    BY <1>0 DEF Removed, InProgress, Inv, TypeOK
  <1>10. TypeOK'
    BY <1>0, <1>2, <1>6, <1>7, <1>8, <1>9 DEF Inv, TypeOK, Return, Goto
  <1> QED
    BY <1>0, <1>1, <1>2, <1>4, <1>7, <1>8, <1>10, Removal

\* A batch pop takes every entry.
LEMMA BatchPopInv ==
  ASSUME Inv, NEW t \in Threads, BatchPopUpmc(t) \/ BatchPopCas(t) \/ BatchPopWfSwap(t)
  PROVE  Inv'
  <1>0. /\ UNCHANGED <<mode, next>> /\ Removed(t, AllOf(contents)) /\ contents' = <<>> /\ head' = NULL
        /\ pc[t] \in {"idle", "b_cas", "w_swap"}
    BY DEF BatchPopUpmc, BatchPopCas, BatchPopWfSwap, At
  <1>1. /\ mode # "nc" /\ generation' \in Nat /\ (mode = "mpmc" => generation' = generation + 1)
    <2>1. CASE BatchPopUpmc(t)
      BY <2>1 DEF BatchPopUpmc, Inv, TypeOK
    <2>2. CASE BatchPopCas(t)
      BY <2>2 DEF BatchPopCas, At, Inv, TypeOK, Labels
    <2>3. CASE BatchPopWfSwap(t)
      BY <2>3 DEF BatchPopWfSwap, At, Inv, TypeOK, Labels
    <2> QED
      BY <2>1, <2>2, <2>3
  <1>2. pc'[t] = "idle" /\ \A u \in Threads \ {t} : Same(u)
    BY DEF BatchPopUpmc, BatchPopCas, BatchPopWfSwap, At, Return, Goto, Inv, TypeOK, Same, locals
  <1>3. free' = free \cup AllOf(contents)
    BY <1>0 DEF Removed
  <1>4. /\ Represents' /\ contents' \in Seq(Entries) /\ AllOf(contents') = {}
        /\ AllOf(contents) \subseteq Entries
    BY <1>0, <1>3, PopAll
  <1>5. pending' \in [Entries -> SUBSET Threads]
    BY <1>0 DEF Removed, InProgress, Inv, TypeOK
  <1>6. TypeOK'
    <2>1. /\ pc' \in [Threads -> Pops \cup {"idle", "p_next", "p_cas", "pt_next", "pt_cas",
                                            "n_swap", "n_link"}]
          /\ entry' \in [Threads -> Entries \cup {NULL}] /\ orig' \in [Threads -> Entries \cup {NULL}]
          /\ origGen' \in [Threads -> Nat] /\ upd' \in [Threads -> Entries \cup {NULL}]
      <3>1. CASE UNCHANGED <<pc, locals>>
        BY <3>1 DEF Inv, TypeOK, locals
      <3>2. CASE Return(t)
        BY <3>2 DEF Return, Goto, Inv, TypeOK
      <3> QED
        BY <3>1, <3>2 DEF BatchPopUpmc, BatchPopCas, BatchPopWfSwap
    <2> QED
      BY <1>0, <1>1, <1>3, <1>4, <1>5, <2>1 DEF Inv, TypeOK
  <1> QED
    BY <1>0, <1>1, <1>2, <1>4, <1>6, Removal

\* A pop by the only user of the stack.
LEMMA PopNpscInv ==
  ASSUME Inv, NEW t \in Threads, PopNpsc(t) \/ BatchPopNpsc(t)
  PROVE  Inv'
  <1>0. UNCHANGED <<mode, generation, next, pc, locals>> /\ Quiet
    BY DEF PopNpsc, BatchPopNpsc
  <1>1. Unlinked = {} /\ Unlinked' = {}
    BY <1>0 DEF Unlinked, Quiet
  <1>2. Represents' /\ contents' \in Seq(Entries) /\ head' \in Entries \cup {NULL}
        /\ free' \subseteq Entries
    <2>1. CASE PopNpsc(t)
      <3>1. free' = free \cup {head} /\ head # NULL
        BY <2>1 DEF PopNpsc, Removed
      <3> QED
        BY <1>1, <2>1, <3>1, PopTop DEF PopNpsc, Inv, TypeOK
    <2>2. CASE BatchPopNpsc(t)
      BY <2>2, PopAll DEF BatchPopNpsc, Removed, Inv, TypeOK
    <2> QED
      BY <2>1, <2>2
  <1>3. pending' \in [Entries -> SUBSET Threads]
    BY ZenonT(40) DEF PopNpsc, BatchPopNpsc, Removed, InProgress, Inv, TypeOK
  <1>4. TypeOK'
    BY <1>0, <1>2, <1>3 DEF Inv, TypeOK, locals
  <1> QED
    BY <1>0, <1>2, <1>4, QuietStep

-----------------------------------------------------------------------------
\* Nothing changes.
LEMMA StutterInv ==
  ASSUME Inv, UNCHANGED vars
  PROVE  Inv'
  BY DEF Inv, vars, shared, locals, TypeOK, Labels, Owned, Snapshots, Snapshot, Represents,
         Below, Unlinked, AllOf

\* Every step preserves the invariant.
LEMMA NextInv == Inv /\ [Next]_vars => Inv'
  <1> SUFFICES ASSUME Inv, [Next]_vars PROVE Inv'
    OBVIOUS
  <1>1. ASSUME NEW t \in Threads, Call(t) PROVE Inv'
    BY <1>1, PushInv, PushSpncInv, PopStartInv, BatchPopInv, BatchPopWfInv, PopNpscInv, StutterInv
       DEF Call, IsEmpty
  <1>2. ASSUME NEW t \in Threads, Step(t) PROVE Inv'
    BY <1>2, PushStepInv, PushCasInv, PopNextInv, PopCasInv, PopHeadInv, BatchPopInv, PopRetryInv,
       PopNothingInv, PushMpncSwapInv, PushMpncLinkInv DEF Step
  <1> QED
    BY <1>1, <1>2, StutterInv DEF Next

\* Linearizability of the stack for any number of threads and entries: under
\* the disciplines "mpmc", "grace" and "nc" the chain from head is always the
\* list that the operations define.  (Under "wf" it is not.)
THEOREM StackRepresents == Spec /\ mode # "wf" => []Represents
  <1>1. Inv => Represents
    BY DEF Inv
  <1> QED
    BY <1>1, InitInv, NextInv, PTL DEF Spec
=============================================================================
