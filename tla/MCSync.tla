------------------------------- MODULE MCSync -------------------------------
(***************************************************************************)
(* Every way of ck to make threads wait for each other that is not a       *)
(* spinlock: reader-writer locks, sequence locks, barriers and event       *)
(* counts.  A behaviour is about one of them, kind, and the threads may    *)
(* call it without end.                                                    *)
(***************************************************************************)
EXTENDS Threaded

CONSTANTS
  Kinds,            \* what is checked
  Four, Five, Six,  \* the threads of the barriers, with Threads among them
  One, Two,         \* threads among Threads, the first being One's
  EcSpThreads,      \* One, the single producer, and the waiters
  SlottedSets,      \* which threads may have a slot of the byte lock
  Uses, UNSLOTTED,  \* how the others use it, and the number they have in common
  Cohorts,          \* two cohorts
  Writer,           \* the writer of the single-writer lock
  Groups, Root,     \* three groups of the combining barrier, and its root
  MaxDepth,         \* how often a thread takes a lock again
  Top, Wrap,        \* where the counters of ck_tflock and ck_pflock wrap
  SequenceWrap,     \* where the sequence number wraps
  MaxLag,           \* how many writes may begin during one read of ck_sequence
  PassLimit,        \* how often a cohort passes its lock on
  TimeMax, NsecMax, UintMax, InitialWait, Scale, Shift   \* of the back-off

VARIABLE kind
vars == <<kind, tvars>>

\* There are fewer threads than tickets, and fewer writes during a read than
\* sequence numbers.
ASSUME SyncAssumption ==
  /\ IsFiniteSet(Threads) /\ NULL \notin Threads \cup Cohorts
  /\ SlottedSets \subseteq SUBSET Threads /\ Uses \subseteq {"own", "reads", "writes", "any"}
  /\ UNSLOTTED \notin Threads \cup {NULL}
  /\ Top \in Nat /\ Cardinality(Threads) < Top
  /\ Wrap \in Nat /\ Wrap % 2 = 0 /\ Cardinality(Threads) < Wrap
  /\ SequenceWrap \in Nat /\ SequenceWrap % 2 = 0 /\ MaxLag \in Nat /\ 2 * MaxLag < SequenceWrap
  /\ PassLimit \in Nat \ {0} /\ \E c, d \in Cohorts : c # d
  /\ \E t \in Threads : One = {t}
  /\ {TimeMax, UintMax, InitialWait, Scale} \subseteq Nat /\ NsecMax \in Nat
  /\ 2 ^ Shift \in Nat \ {0}

\* Writer in one cohort and the other threads in the other.
CohortOf ==
  LET c == CHOOSE x \in Cohorts : TRUE
      d == CHOOSE x \in Cohorts : x # c
  IN  [t \in Threads |-> IF t = Writer THEN c ELSE d]
\* Two threads in one group and one in each of the other two.
GroupOf ==
  LET f == CHOOSE f \in [Four \ Two -> Groups] : \A t, u \in Four \ Two : t # u => f[t] # f[u]
      g == CHOOSE x \in Groups : \A t \in Four \ Two : f[t] # x
  IN  [t \in Four |-> IF t \in Two THEN g ELSE f[t]]

Rw == INSTANCE Rwlock
Fl == INSTANCE FairLocks
Br == INSTANCE Brlock WITH Readers <- Two
By == INSTANCE Bytelock
Co == INSTANCE Rwcohort
Sq == INSTANCE Sequence WITH Wrap <- SequenceWrap
BarrierCe == INSTANCE Barriers
BarrierCo == INSTANCE Barriers WITH Threads <- Four
BarrierDi == INSTANCE Barriers WITH Threads <- Five
BarrierTo == INSTANCE Barriers WITH Threads <- Five
BarrierMc == INSTANCE Barriers WITH Threads <- Six
EcMp == INSTANCE Ec WITH Wrap <- 2, Producers <- One, SingleProducer <- FALSE, MaxStores <- 0
EcSp == INSTANCE Ec WITH Threads <- EcSpThreads, Wrap <- 4, Producers <- One,
                         SingleProducer <- TRUE, MaxStores <- 2
EcBo == INSTANCE Ec WITH Threads <- One, Wrap <- 2, Producers <- One, SingleProducer <- FALSE,
                         MaxStores <- 0

Init ==
  /\ kind \in Kinds
  /\ \/ kind = "rw" /\ Rw!Init
     \/ kind = "sw" /\ Rw!SwInit
     \/ kind = "tf" /\ Fl!TfInit
     \/ kind = "pf" /\ Fl!PfInit
     \/ kind = "br" /\ Br!Init
     \/ kind = "byte" /\ By!Init
     \/ kind = "cohort" /\ Co!Init
     \/ kind = "sequence" /\ Sq!Init
     \/ kind = "barrier_centralized" /\ BarrierCe!CentralizedInit
     \/ kind = "barrier_combining" /\ BarrierCo!CombiningInit
     \/ kind = "barrier_dissemination" /\ BarrierDi!DisseminationInit
     \/ kind = "barrier_tournament" /\ BarrierTo!TournamentInit
     \/ kind = "barrier_mcs" /\ BarrierMc!McsInit
     \/ kind = "ec" /\ EcMp!Init
     \/ kind = "ec_sp" /\ EcSp!Init
     \/ kind = "backoff" /\ EcBo!BackoffInit

\* A thread calls an operation; no fairness is due to that.
Calls(t) ==
  /\ UNCHANGED kind /\ t \in DOMAIN pc
  /\ \/ kind = "rw" /\ Rw!Calls(t)
     \/ kind = "sw" /\ Rw!SwCalls(t)
     \/ kind = "tf" /\ Fl!TfCalls(t)
     \/ kind = "pf" /\ Fl!PfCalls(t)
     \/ kind = "br" /\ Br!Calls(t)
     \/ kind = "byte" /\ By!Calls(t)
     \/ kind = "cohort" /\ Co!Calls(t)
     \/ kind = "sequence" /\ Sq!Calls(t)
     \/ kind = "barrier_centralized" /\ BarrierCe!CentralizedCalls(t)
     \/ kind = "barrier_combining" /\ BarrierCo!CombiningCalls(t)
     \/ kind = "barrier_dissemination" /\ BarrierDi!DisseminationCalls(t)
     \/ kind = "barrier_tournament" /\ BarrierTo!TournamentCalls(t)
     \/ kind = "barrier_mcs" /\ BarrierMc!McsCalls(t)
     \/ kind = "ec" /\ EcMp!Calls(t)
     \/ kind = "ec_sp" /\ EcSp!Calls(t)
     \/ kind = "backoff" /\ EcBo!BackoffCalls(t)
\* A thread goes on with the operation it is in, or leaves its section.
Steps(t) ==
  /\ UNCHANGED kind /\ t \in DOMAIN pc
  /\ \/ kind = "rw" /\ Rw!Steps(t)
     \/ kind = "sw" /\ Rw!SwSteps(t)
     \/ kind = "tf" /\ Fl!TfSteps(t)
     \/ kind = "pf" /\ Fl!PfSteps(t)
     \/ kind = "br" /\ Br!Steps(t)
     \/ kind = "byte" /\ By!Steps(t)
     \/ kind = "cohort" /\ Co!Steps(t)
     \/ kind = "sequence" /\ Sq!Steps(t)
     \/ kind = "barrier_centralized" /\ BarrierCe!CentralizedSteps(t)
     \/ kind = "barrier_combining" /\ BarrierCo!CombiningSteps(t)
     \/ kind = "barrier_dissemination" /\ BarrierDi!DisseminationSteps(t)
     \/ kind = "barrier_tournament" /\ BarrierTo!TournamentSteps(t)
     \/ kind = "barrier_mcs" /\ BarrierMc!McsSteps(t)
     \/ kind = "ec" /\ EcMp!Steps(t)
     \/ kind = "ec_sp" /\ EcSp!Steps(t)
     \/ kind = "backoff" /\ EcBo!BackoffSteps(t)

Next == \E t \in Six : Calls(t) \/ Steps(t)
\* A thread that is in an operation is scheduled again.
Spec == Init /\ [][Next]_vars /\ \A t \in Six : WF_vars(Steps(t))

-----------------------------------------------------------------------------
(* Safety. *)

Writing(t) == pc[t] \in {"wr", "w_down"}
Reading(t) == pc[t] = "rd"
\* A writer holds a reader-writer lock alone, whatever way the lock counts
\* its readers: in one word, in one word per reader or slot, with tickets
\* that overflow, or behind a lock that is passed on within a cohort.
\* It is false of ck_bytelock when threads without a slot all pass
\* CK_BYTELOCK_UNSLOTTED and some read while others write ("any" in Uses).
Exclusion ==
  \A t, u \in DOMAIN pc : t # u /\ Writing(t) => ~Writing(u) /\ ~Reading(u)

\* A reader of ck_pflock waits for one writer at most; a cohort passes the
\* lock on no more often than its limit, and who finds it passed on has the
\* lock of all cohorts.
FairPasses ==
  /\ kind = "pf" => Fl!PfPhaseFair
  /\ kind = "cohort" => Co!CohortPasses

\* The words a reader of ck_sequence keeps were written by one writer.
ConsistentRead == kind = "sequence" => Sq!ConsistentRead

\* No thread leaves a barrier before all have entered it, and no thread is
\* more than one call ahead of another.
Together ==
  /\ kind = "barrier_centralized" => BarrierCe!Together
  /\ kind = "barrier_combining" => BarrierCo!Together
  /\ kind = "barrier_dissemination" => BarrierDi!Together
  /\ kind = "barrier_tournament" => BarrierTo!Together
  /\ kind = "barrier_mcs" => BarrierMc!Together

\* exponential_backoff sleeps until a time in the future, and before a second
\* has passed for no longer than that second, whatever overflows.
SleepAhead == kind = "backoff" => EcBo!SleepAhead

-----------------------------------------------------------------------------
(* Liveness. *)

\* When all threads are inside an operation, one of them completes it: locks
\* are not lost, the last thread opens the barrier for all, and the loop that
\* looks for the end of a sleep ends.
Busy(t) == pc[t] \notin {"idle", "wr", "rd", "resting"}
Progress == (\A t \in DOMAIN pc : Busy(t)) ~> (\E t \in DOMAIN pc : ~Busy(t))

\* A thread that sleeps on an event count, Waiter for one, wakes after the
\* count changed.
Waiter == CHOOSE t \in Two : t \notin One
SleepsOn ==
  /\ kind \in {"ec", "ec_sp"}
  /\ EcMp!Asleep(Waiter)
NoLostWakeup == (SleepsOn /\ r[Waiter].lag > 0) ~> ~SleepsOn
=============================================================================
