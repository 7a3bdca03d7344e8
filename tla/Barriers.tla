------------------------------ MODULE Barriers ------------------------------
(***************************************************************************)
(* The five barriers of include/ck_barrier.h and src/ck_barrier_*.c, one   *)
(* section each.  A sense is a word that is 0 or ~0: a Boolean.            *)
(***************************************************************************)
EXTENDS Threaded

CONSTANTS        \* of the combining barrier
  Groups,        \* the groups of threads
  Root,          \* the group that has none
  GroupOf        \* thread -> its group

\* calls counts, modulo 4, how often each thread entered: history.
Fresh(shared, locals) ==
  /\ pc = [t \in Threads |-> "idle"]
  /\ m = [calls |-> [t \in Threads |-> 0]] @@ shared
  /\ r = [t \in Threads |-> locals]
Entered(t) == [m.calls EXCEPT ![t] = (@ + 1) % 4]

N == Cardinality(DOMAIN pc)      \* n_threads

\* Threads subscribe one after the other, and differ in nothing else: of the
\* threads whose number has no value yet, one order stands for all.
NextToSubscribe(number) == CHOOSE t \in Threads : r[t][number] = N

\* ck_internal_power_2 and ck_internal_log of it: the rounds in which pairs
\* of n threads meet.
Rounds(n) == CHOOSE k \in 0 .. n : 2 ^ k >= n /\ (k = 0 \/ 2 ^ (k - 1) < n)

-----------------------------------------------------------------------------
(* src/ck_barrier_centralized.c: a counter, and a sense for all threads.   *)

\* The initializers of the barrier and of the threads' states.
CentralizedInit == Fresh([value |-> 0, sense |-> FALSE], [sense |-> FALSE])

CentralizedBarrier(t) ==
  /\ Step(t, "idle", "count")
  /\ Put(t, [sense |-> ~r[t].sense])
  /\ m' = [m EXCEPT !.calls = Entered(t)]
CentralizedCount(t) ==
  /\ At(t, "count") /\ Go(t, IF m.value = N - 1 THEN "reset" ELSE "spin")
  /\ m' = [m EXCEPT !.value = @ + 1]
  /\ UNCHANGED r
CentralizedLast(t) ==
  /\ UNCHANGED r
  /\ \/ Step(t, "reset", "release") /\ m' = [m EXCEPT !.value = 0]
     \/ Step(t, "release", "idle") /\ m' = [m EXCEPT !.sense = r[t].sense]
CentralizedSpin(t) ==
  Step(t, "spin", "idle") /\ m.sense = r[t].sense /\ Local /\ UNCHANGED r

CentralizedCalls(t) == CentralizedBarrier(t)
CentralizedSteps(t) == CentralizedCount(t) \/ CentralizedLast(t) \/ CentralizedSpin(t)

-----------------------------------------------------------------------------
(* src/ck_barrier_combining.c: a tree of groups of threads. The last       *)
(* thread of a group goes on to the parent, and lets the group go when it  *)
(* comes back.                                                             *)

CombiningAll == Groups \cup {Root}
CombiningSize(g) == Cardinality({t \in Threads : GroupOf[t] = g})

\* ck_barrier_combining_init.  todo are the groups not in the tree yet.
CombiningInit ==
  LET all(value) == [g \in CombiningAll |-> value]
  IN  Fresh([k |-> all(0), count |-> all(0), sense |-> all(FALSE), todo |-> Groups,
             parent |-> all(NULL), left |-> all(NULL), right |-> all(NULL)],
            [sense |-> TRUE, node |-> NULL, last |-> <<>>])

\* The first group in level order, from a queue of groups, with a free child.
CombiningFirstFree(tree) ==
  LET f[queue \in Seq(CombiningAll)] ==
        LET g == Head(queue)
        IN  IF tree.left[g] = NULL \/ tree.right[g] = NULL THEN g
            ELSE f[Tail(queue) \o <<tree.left[g], tree.right[g]>>]
  IN  f[<<Root>>]
\* ck_barrier_combining_group_init, by any thread, before the barrier is used.
\* It holds a lock: the groups come into the tree one after the other.
CombiningGroupInit(t) ==
  \E g \in m.todo :
    LET parent == CombiningFirstFree(m)
        child == IF m.left[parent] = NULL THEN "left" ELSE "right"
    IN  /\ m' = [m EXCEPT !.k = [@ EXCEPT ![g] = CombiningSize(g), ![parent] = @ + 1],
                          !.parent[g] = parent, ![child][parent] = g, !.todo = @ \ {g}]
        /\ UNCHANGED <<pc, r>>

-----------------------------------------------------------------------------
(* ck_barrier_combining: last are the groups in which t came last, the       *)
(* innermost first.                                                          *)

CombiningBarrier(t) ==
  /\ Step(t, "idle", "count") /\ m.todo = {}
  /\ Put(t, [node |-> GroupOf[t]])
  /\ m' = [m EXCEPT !.calls = Entered(t)]

\* Return from a group: to the one below, or from the barrier.
CombiningReturn(t, groups) ==
  IF groups # <<>> THEN Go(t, "reset") /\ Put(t, [node |-> NULL, last |-> groups])
  ELSE Go(t, "idle") /\ Put(t, [node |-> NULL, last |-> <<>>, sense |-> ~r[t].sense])

CombiningCount(t) ==
  LET g == r[t].node
      parent == m.parent[g]
  IN  /\ At(t, "count")
      /\ m' = [m EXCEPT !.count[g] = @ + 1]
      /\ IF m.count[g] # m.k[g] - 1 THEN Go(t, "spin") /\ UNCHANGED r
         ELSE IF parent = NULL THEN CombiningReturn(t, <<g>> \o r[t].last)
         ELSE UNCHANGED pc /\ Put(t, [node |-> parent, last |-> <<g>> \o r[t].last])
CombiningSpin(t) ==
  /\ At(t, "spin") /\ m.sense[r[t].node] = r[t].sense
  /\ CombiningReturn(t, r[t].last) /\ Local
CombiningLast(t) ==
  LET g == Head(r[t].last)
  IN  \/ /\ Step(t, "reset", "release")
         /\ m' = [m EXCEPT !.count[g] = 0]
         /\ UNCHANGED r
      \/ /\ At(t, "release") /\ CombiningReturn(t, Tail(r[t].last))
         /\ m' = [m EXCEPT !.sense[g] = ~@]

CombiningCalls(t) == CombiningGroupInit(t) \/ CombiningBarrier(t)
CombiningSteps(t) == CombiningCount(t) \/ CombiningSpin(t) \/ CombiningLast(t)

-----------------------------------------------------------------------------
(* src/ck_barrier_dissemination.c: in every round a thread signals a       *)
(* partner and waits for a signal; two sets of flags take turns.           *)

\* ck_barrier_dissemination_init; threads subscribe later.
DisseminationInit ==
  Fresh([tid |-> 0, flags |-> [i \in 0 .. N - 1 |-> [p \in 0 .. 1 |->
           [k \in 0 .. Rounds(N) - 1 |-> FALSE]]]],
        [tid |-> N, parity |-> 0, sense |-> TRUE, k |-> 0])
DisseminationPartner(i, k) == (i + 2 ^ k) % N

DisseminationSubscribe(t) ==
  /\ At(t, "idle") /\ r[t].tid = N /\ t = NextToSubscribe("tid")
  /\ m' = [m EXCEPT !.tid = @ + 1]
  /\ Put(t, [tid |-> m.tid, parity |-> 0, sense |-> TRUE])
  /\ UNCHANGED pc
DisseminationBarrier(t) ==
  /\ Step(t, "idle", "signal") /\ r[t].tid # N
  /\ Put(t, [k |-> 0])
  /\ m' = [m EXCEPT !.calls = Entered(t)]

DisseminationSignal(t) ==
  /\ Step(t, "signal", "wait")
  /\ LET partner == DisseminationPartner(r[t].tid, r[t].k)
     IN  m' = [m EXCEPT !.flags[partner][r[t].parity][r[t].k] = r[t].sense]
  /\ UNCHANGED r
DisseminationSignaled(t) == m.flags[r[t].tid][r[t].parity][r[t].k] = r[t].sense
\* Mutant: the sense is reversed after every call.
DisseminationWaitReverse(t) ==
  /\ At(t, "wait") /\ DisseminationSignaled(t) /\ Local
  /\ IF r[t].k + 1 < Rounds(N) THEN Go(t, "signal") /\ Put(t, [k |-> r[t].k + 1])
     ELSE /\ Go(t, "idle")
          /\ Put(t, [k |-> 0, parity |-> 1 - r[t].parity, sense |-> ~r[t].sense])
DisseminationWait(t) ==
  /\ At(t, "wait") /\ DisseminationSignaled(t) /\ Local
  /\ IF r[t].k + 1 < Rounds(N) THEN Go(t, "signal") /\ Put(t, [k |-> r[t].k + 1])
     ELSE /\ Go(t, "idle")
          /\ Put(t, [k |-> 0, parity |-> 1 - r[t].parity,
                     sense |-> IF r[t].parity = 1 THEN ~r[t].sense ELSE r[t].sense])

DisseminationCalls(t) == DisseminationSubscribe(t) \/ DisseminationBarrier(t)
DisseminationSteps(t) == DisseminationSignal(t) \/ DisseminationWait(t)

-----------------------------------------------------------------------------
(* src/ck_barrier_tournament.c: the loser of every round waits, and the    *)
(* champion begins to wake the losers in the opposite order.               *)

TournamentSizes == Rounds(N) + 1

\* The role of thread i in round k.  After it loses it has no role.
TournamentRole(i, k) ==
  LET imod2k == i % 2 ^ k
      twokm1 == 2 ^ (k - 1)
  IN  IF k = 0 THEN "dropout"
      ELSE IF imod2k = twokm1 THEN "loser"
      ELSE IF i = 0 /\ 2 ^ k >= N THEN "champion"
      ELSE IF imod2k = 0 /\ i + twokm1 < N /\ 2 ^ k < N THEN "winner"
      ELSE IF imod2k = 0 /\ i + twokm1 >= N THEN "bye"
      ELSE "none"
TournamentOpponent(i, k) ==
  IF TournamentRole(i, k) = "loser" THEN i - 2 ^ (k - 1) ELSE i + 2 ^ (k - 1)

\* ck_barrier_tournament_init; threads subscribe later.
TournamentInit ==
  Fresh([tid |-> 0, flag |-> [i \in 0 .. N - 1 |-> [k \in 0 .. TournamentSizes - 1 |-> FALSE]]],
        [vpid |-> N, sense |-> TRUE, round |-> 1])

TournamentSubscribe(t) ==
  /\ At(t, "idle") /\ r[t].vpid = N /\ t = NextToSubscribe("vpid")
  /\ m' = [m EXCEPT !.tid = @ + 1]
  /\ Put(t, [vpid |-> m.tid, sense |-> TRUE])
  /\ UNCHANGED pc
TournamentBarrier(t) ==
  /\ Step(t, "idle", "play") /\ r[t].vpid # N
  /\ m' = [m EXCEPT !.calls = Entered(t)]
  /\ UNCHANGED r

TournamentPlays(t, role) == TournamentRole(r[t].vpid, r[t].round) = role
TournamentFlagged(t) == m.flag[r[t].vpid][r[t].round] = r[t].sense
TournamentFlagOpponent(t) ==
  m' = [m EXCEPT !.flag[TournamentOpponent(r[t].vpid, r[t].round)][r[t].round] = r[t].sense]
TournamentPlay(t) ==
  /\ At(t, "play")
  /\ \/ /\ TournamentPlays(t, "bye") \/ (TournamentPlays(t, "winner") /\ TournamentFlagged(t))
        /\ Put(t, [round |-> r[t].round + 1]) /\ UNCHANGED pc /\ Local
     \/ /\ TournamentPlays(t, "champion") /\ TournamentFlagged(t)
        /\ Go(t, "crown") /\ Local /\ UNCHANGED r
     \/ TournamentPlays(t, "loser") /\ TournamentFlagOpponent(t) /\ Go(t, "lost") /\ UNCHANGED r
TournamentCrown(t) ==
  Step(t, "crown", "wakeup") /\ TournamentFlagOpponent(t) /\ Put(t, [round |-> r[t].round - 1])
TournamentLost(t) ==
  /\ Step(t, "lost", "wakeup") /\ TournamentFlagged(t)
  /\ Put(t, [round |-> r[t].round - 1]) /\ Local
TournamentWakeup(t) ==
  /\ At(t, "wakeup")
  /\ \/ /\ \/ TournamentPlays(t, "bye") /\ Local
           \/ TournamentPlays(t, "winner") /\ TournamentFlagOpponent(t)
        /\ Put(t, [round |-> r[t].round - 1]) /\ UNCHANGED pc
     \/ /\ TournamentPlays(t, "dropout") /\ Go(t, "idle") /\ Local
        /\ Put(t, [round |-> 1, sense |-> ~r[t].sense])

TournamentCalls(t) == TournamentSubscribe(t) \/ TournamentBarrier(t)
TournamentSteps(t) ==
  TournamentPlay(t) \/ TournamentCrown(t) \/ TournamentLost(t) \/ TournamentWakeup(t)

-----------------------------------------------------------------------------
(* src/ck_barrier_mcs.c: threads arrive up a tree of four children and are *)
(* let go down a tree of two.                                              *)

McsHaveChild(i) == [j \in 0 .. 3 |-> 4 * i + j < N - 1]

\* ck_barrier_mcs_init; threads subscribe later.
McsInit ==
  Fresh([tid |-> 0, childnotready |-> [i \in 0 .. N - 1 |-> McsHaveChild(i)],
         parentsense |-> [i \in 0 .. N - 1 |-> FALSE]],
        [vpid |-> N, sense |-> TRUE])
\* A store to the dummy of a node does nothing.
McsParent(i) == <<(i - 1) \div 4, (i - 1) % 4>>

McsSubscribe(t) ==
  /\ At(t, "idle") /\ r[t].vpid = N /\ t = NextToSubscribe("vpid")
  /\ m' = [m EXCEPT !.tid = @ + 1]
  /\ Put(t, [vpid |-> m.tid, sense |-> TRUE])
  /\ UNCHANGED pc
McsBarrier(t) ==
  Step(t, "idle", "check") /\ r[t].vpid # N /\ m' = [m EXCEPT !.calls = Entered(t)] /\ UNCHANGED r

\* Children only clear their flags while their parent looks: looking at the
\* four at once shows no more than looking at one after the other.
McsCheck(t) ==
  /\ Step(t, "check", "reinitialize")
  /\ \A j \in 0 .. 3 : ~m.childnotready[r[t].vpid][j]
  /\ Local /\ UNCHANGED r
McsReinitialize(t) ==
  /\ Step(t, "reinitialize", "arrive")
  /\ m' = [m EXCEPT !.childnotready[r[t].vpid] = McsHaveChild(r[t].vpid)]
  /\ UNCHANGED r
McsArrive(t) ==
  LET i == r[t].vpid
  IN  /\ At(t, "arrive") /\ Go(t, IF i = 0 THEN "wake0" ELSE "wait")
      /\ m' = IF i = 0 THEN m
              ELSE [m EXCEPT !.childnotready[McsParent(i)[1]][McsParent(i)[2]] = FALSE]
      /\ UNCHANGED r
McsWait(t) ==
  Step(t, "wait", "wake0") /\ m.parentsense[r[t].vpid] = r[t].sense /\ Local /\ UNCHANGED r
McsWakeChild(t, i) == m' = IF i < N THEN [m EXCEPT !.parentsense[i] = r[t].sense] ELSE m
McsWake(t) ==
  \/ Step(t, "wake0", "wake1") /\ McsWakeChild(t, 2 * r[t].vpid + 1) /\ UNCHANGED r
  \/ /\ Step(t, "wake1", "idle") /\ McsWakeChild(t, 2 * r[t].vpid + 2)
     /\ Put(t, [sense |-> ~r[t].sense])

McsCalls(t) == McsSubscribe(t) \/ McsBarrier(t)
McsSteps(t) ==
  McsCheck(t) \/ McsReinitialize(t) \/ McsArrive(t) \/ McsWait(t) \/ McsWake(t)

-----------------------------------------------------------------------------
\* No thread leaves the barrier before all have entered it: who is outside is
\* never ahead of another, nor more than one call behind.
Together ==
  \A t, u \in Threads : At(t, "idle") => (m.calls[u] - m.calls[t]) % 4 \in {0, 1}
=============================================================================
