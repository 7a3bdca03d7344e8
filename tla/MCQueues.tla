------------------------------ MODULE MCQueues ------------------------------
(***************************************************************************)
(* The linked queues, the clients of hazard pointers, the lists and the    *)
(* array.  A behaviour is about one of them, kind.                         *)
(***************************************************************************)
EXTENDS Threaded

CONSTANTS
  Kinds,                  \* what is checked
  Stub, Entries,          \* the stub of the queues, and their entries
  FifoNodes,              \* the nodes of the queue with hazard pointers, some of the entries
  Records, MaxJoins,      \* the hazard records, and how often a thread joins
  MaxEnqueue, MaxDequeue, MaxCalls,  \* calls of the queues
  MaxHpCalls,             \* calls of each kind with hazard pointers
  Thresholds, CacheLimit, Trys, Reuses,
  Writer                  \* the thread that changes lists and arrays

ASSUME QueuesAssumption ==
  /\ NULL \notin Threads \cup Records \cup Entries \cup {Stub}
  /\ Stub \notin Entries /\ FifoNodes \subseteq Entries
  /\ Trys \subseteq BOOLEAN /\ Reuses \subseteq BOOLEAN

VARIABLE kind
vars == <<kind, tvars>>

Sp == INSTANCE FifoSpsc
Mp == INSTANCE FifoMpmc
HpF == INSTANCE HpFifo WITH Nodes <- FifoNodes,
                            MaxEnqueue <- MaxHpCalls - 1, MaxDequeue <- MaxHpCalls
\* Threads that use the stack; and threads that come and go, with little in it.
HpS == INSTANCE HpStack WITH
  Nodes <- Entries,
  Bounds <- {[nodes |-> Entries, joins |-> MaxJoins, pushes |-> MaxHpCalls, pops |-> MaxHpCalls],
             [nodes |-> FifoNodes, joins |-> MaxJoins + 1, pushes |-> 1, pops |-> 1]}

\* Three elements in two lists, and three values in arrays of up to four.
Ls == INSTANCE Lists WITH Flavours <- {"slist", "stailq", "list"},
                          Elements <- Entries \cup {Stub}, Heads <- {"h", "g"}, ReadHead <- "h",
                          MaxChanges <- 2
Ar == INSTANCE Array WITH Values <- Entries \cup {Stub}, MaxLength <- 4, MaxChanges <- 3

Init ==
  /\ kind \in Kinds
  /\ \/ kind = "fifo_spsc" /\ Sp!Init
     \/ kind = "fifo_mpmc" /\ Mp!Init
     \/ kind = "hp_fifo" /\ HpF!Init
     \/ kind = "hp_stack" /\ HpS!Init
     \/ kind = "lists" /\ Ls!Init
     \/ kind = "array" /\ Ar!Init

Next ==
  /\ UNCHANGED kind
  /\ \/ kind = "fifo_spsc" /\ Sp!Next
     \/ kind = "fifo_mpmc" /\ Mp!Next
     \/ kind = "hp_fifo" /\ HpF!Next
     \/ kind = "hp_stack" /\ HpS!Next
     \/ kind = "lists" /\ Ls!Next
     \/ kind = "array" /\ Ar!Next

Spec == Init /\ [][Next]_vars

Symmetry == Permutations(Entries) \cup Permutations(Records)

-----------------------------------------------------------------------------
\* What leaves a queue or a stack is what entered it, each value once and in
\* the order of the structure, although entries are recycled, re-used at once
\* or destroyed meanwhile.
LeavesInOrder ==
  /\ kind = "fifo_spsc" => Sp!FifoOrder
  /\ kind = "fifo_mpmc" => Mp!FifoOrder
  /\ kind = "hp_fifo" => HpF!FifoOrder
  /\ kind = "hp_stack" => HpS!Represents

\* A dequeue of ck_fifo that reports an empty queue ran while it was empty.
EmptyIsEmpty ==
  /\ kind = "fifo_spsc" => Sp!EmptyIsEmpty
  /\ kind = "fifo_mpmc" => Mp!EmptyIsEmpty

\* ck_hp_reclaim destroys nothing that a thread is about to follow, whether
\* the slot that protects it fits the cache or has to be scanned.
NoUseAfterFree ==
  /\ kind = "hp_fifo" => HpF!NoUseAfterFree
  /\ kind = "hp_stack" => HpS!NoUseAfterFree

\* No two threads have the same hazard record.
HpRecordsExclusive ==
  /\ kind = "hp_fifo" => HpF!RecordsExclusive
  /\ kind = "hp_stack" => HpS!RecordsExclusive

\* A traversal of a list, or an iteration over an array, that runs while the
\* writer inserts, removes, swaps, moves, commits or grows is given once
\* everything that was there throughout, and nothing that never was.
IterationSees ==
  kind \in {"lists", "array"} => \A t \in Threads \ {Writer} : Iterates(t)

\* Between operations every linked list is whole: its tail and its previous
\* pointers agree with the chain, whatever sequence of operations made it.
Linked == kind = "lists" => Ls!Linked
=============================================================================
