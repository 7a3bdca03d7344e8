------------------------------- MODULE Epoch -------------------------------
(***************************************************************************)
(* Epoch-based reclamation: include/ck_epoch.h and src/ck_epoch.c.  Every  *)
(* access to the global epoch, to a record's state, active and epoch       *)
(* fields and to a deferral list is a step (the head of the list of        *)
(* records is read together with the epoch before it); the fences keep     *)
(* them in program order.                                                  *)
(*                                                                         *)
(* The clients are part of the model: threads in sections acquire          *)
(* references to linked objects, writers unlink objects and destroy them   *)
(* through ck_epoch_call, or themselves after ck_epoch_synchronize.        *)
(*                                                                         *)
(* Epochs are unsigned integers of Mod values.  Calls that may advance the *)
(* global epoch start only before MaxTicks advances, so that Span bounds   *)
(* them all; the code assumes that the epoch does not come round to one    *)
(* that is still in use.                                                   *)
(*                                                                         *)
(* A start is what the threads may do, their records, the list of these    *)
(* from the newest on, whether the threads pass section objects, whether   *)
(* they defer onto each other's records while these are reclaimed, the     *)
(* global epoch, and the epoch the records observed last: 1 and 0 after    *)
(* ck_epoch_init and ck_epoch_register, any two epochs later on.           *)
(***************************************************************************)
EXTENDS Integers, Sequences, FiniteSets

CONSTANTS
  Threads, Records, Objects, NULL,
  Handles,     \* the section objects of a thread; their number bounds nesting
  Starts,      \* the situations from which executions are considered
  Mod, MaxTicks,
  t1, t2, t3   \* the threads of the small instances below

Ops == {"section", "nest", "observe", "unlink", "sync", "barrier", "poll", "register", "unregister"}

Sub(a, b) == (a - b) % Mod

\* A call of ck_epoch_synchronize advances the epoch twice at most, one of
\* ck_epoch_poll once.
Span == MaxTicks - 1 + 2 * Cardinality(Threads)

ASSUME EpochAssumption ==
  /\ IsFiniteSet(Threads) /\ IsFiniteSet(Records) /\ IsFiniteSet(Handles)
  /\ Mod \in Nat \ {0} /\ Mod % 4 = 0
  /\ Cardinality(Threads) + Cardinality(Records) < Mod
  /\ MaxTicks \in Nat \ {0}
  /\ NULL \notin Records \cup Objects \cup Handles \cup 0 .. 1
  /\ Threads \cap {"linked", "deferred", "freed"} = {}
  /\ Starts \subseteq [may : [Threads -> SUBSET Ops],
                       rec : [Threads -> Records \cup {NULL}], records : Seq(Records),
                       sectioned : BOOLEAN, shared : BOOLEAN,
                       epoch : 0 .. Mod - 1, seen : 0 .. Mod - 1]

\* Records have one user each and are listed once.  Within Span the epoch does
\* not come round to the one observed last nor, where records are registered,
\* to 0, which then stands for none.
ASSUME StartAssumption ==
  \A s \in Starts :
    /\ \A t, u \in Threads : s.rec[t] = s.rec[u] /\ s.rec[t] # NULL => t = u
    /\ \A i, j \in DOMAIN s.records : s.records[i] = s.records[j] => i = j
    /\ {s.records[i] : i \in DOMAIN s.records} = {s.rec[t] : t \in Threads} \ {NULL}
    /\ Sub(s.epoch, s.seen) + Span < Mod
    /\ (\E t \in Threads : s.may[t] \cap {"register", "unregister"} # {}) => s.epoch + Span < Mod

VARIABLES
  may, sectioned, shared,        \* rigid: see above
  epoch, n_free, records,        \* the global object; records from the newest
  state, active, repoch,         \* record -> its shared fields
  bucket,                        \* record -> bucket -> epoch and count
  pending,                       \* record -> slot -> deferred objects
  rec,                           \* thread -> its record
  sec,                           \* thread -> handle -> bucket, if open
  held,                          \* thread -> handle -> objects it refers to
  status,                        \* object -> linked, freed, or who unlinked it
  pc, op,                        \* thread -> position; the scan's caller
  snap, first, iter,             \* thread -> its epoch values and iteration
  cursor, af, arg,               \* thread -> scan position, *af, argument
  ticks

client == <<held, status>>
global == <<epoch, n_free, records, ticks>>
fields == <<state, active, repoch, bucket>>
scanning == <<op, first, iter, cursor, af>>
rigid == <<may, sectioned, shared>>
vars == <<rigid, global, fields, pending, rec, sec, client, pc, snap, arg, scanning>>

Add(a, n) == (a + n) % Mod

\* (int)(a - b) < 0
Older(a, b) == Sub(a, b) >= Mod \div 2

NoSection == [h \in Handles |-> NULL]
NoRefs == [h \in Handles |-> {}]
EmptyBuckets == [b \in 0 .. 1 |-> [epoch |-> 0, count |-> 0]]
EmptyPending == [s \in 0 .. 3 |-> {}]
aHandle == CHOOSE h \in Handles : TRUE

Init ==
  /\ \E s \in Starts :
       /\ may = s.may /\ sectioned = s.sectioned /\ shared = s.shared
       /\ epoch = s.epoch
       /\ repoch = [r \in Records |-> s.seen]
       /\ rec = s.rec
       /\ records = s.records
  /\ n_free = 0 /\ ticks = 0
  /\ state = [r \in Records |-> "used"]
  /\ active = [r \in Records |-> 0]
  /\ bucket = [r \in Records |-> EmptyBuckets]
  /\ pending = [r \in Records |-> EmptyPending]
  /\ sec = [t \in Threads |-> NoSection]
  /\ held = [t \in Threads |-> NoRefs]
  /\ status = [o \in Objects |-> "linked"]
  /\ pc = [t \in Threads |-> "idle"]
  /\ op = [t \in Threads |-> "none"]
  /\ snap = [t \in Threads |-> 0] /\ first = [t \in Threads |-> 0]
  /\ iter = [t \in Threads |-> 0]
  /\ cursor = [t \in Threads |-> NULL]
  /\ af = [t \in Threads |-> FALSE]
  /\ arg = [t \in Threads |-> NULL]

At(t, l) == pc[t] = l
Goto(t, l) == pc' = [pc EXCEPT ![t] = l]
Idle(t, o) == At(t, "idle") /\ o \in may[t]
Registered(t) == At(t, "idle") /\ rec[t] # NULL

\* A call returns; its local variables are gone.
Return(t) ==
  /\ Goto(t, "idle")
  /\ snap' = [snap EXCEPT ![t] = 0]
  /\ arg' = [arg EXCEPT ![t] = NULL]
ReturnScan(t) ==
  /\ Return(t)
  /\ op' = [op EXCEPT ![t] = "none"]
  /\ first' = [first EXCEPT ![t] = 0]
  /\ iter' = [iter EXCEPT ![t] = 0]
  /\ cursor' = [cursor EXCEPT ![t] = NULL]
  /\ af' = [af EXCEPT ![t] = FALSE]

-----------------------------------------------------------------------------
\* ck_epoch_begin: the active counter first.
Begin(t, h) ==
  LET r == rec[t] IN
  /\ Idle(t, "section") /\ rec[t] # NULL
  /\ IF sectioned THEN sec[t][h] = NULL ELSE h = aHandle
  /\ active[r] > 0 => "nest" \in may[t] /\ active[r] < Cardinality(Handles)
  /\ active' = [active EXCEPT ![r] = @ + 1]
  /\ Goto(t, IF active[r] = 0 THEN "b_load" ELSE IF sectioned THEN "b_ref" ELSE "idle")
  /\ arg' = [arg EXCEPT ![t] = IF active[r] = 0 \/ sectioned THEN h ELSE NULL]
  /\ UNCHANGED <<rigid, global, state, repoch, bucket, pending, rec, sec, client, snap, scanning>>

\* An outermost section observes the global epoch ...
BeginLoad(t) ==
  /\ At(t, "b_load") /\ Goto(t, "b_store")
  /\ snap' = [snap EXCEPT ![t] = epoch]
  /\ UNCHANGED <<rigid, global, fields, pending, rec, sec, client, arg, scanning>>

\* ... and advertises it.
BeginStore(t) ==
  /\ At(t, "b_store")
  /\ repoch' = [repoch EXCEPT ![rec[t]] = snap[t]]
  /\ snap' = [snap EXCEPT ![t] = 0]
  /\ Goto(t, IF sectioned THEN "b_ref" ELSE "idle")
  /\ arg' = [arg EXCEPT ![t] = IF sectioned THEN @ ELSE NULL]
  /\ UNCHANGED <<rigid, global, state, active, bucket, pending, rec, sec, client, scanning>>

\* _ck_epoch_addref: the section is counted in the bucket of another
\* observation of the global epoch.
Addref(t) ==
  LET r == rec[t]  b == epoch % 2 IN
  /\ At(t, "b_ref")
  /\ bucket' = [bucket EXCEPT ![r][b] =
                  [epoch |-> IF @.count = 0 THEN epoch ELSE @.epoch, count |-> @.count + 1]]
  /\ sec' = [sec EXCEPT ![t][arg[t]] = b]
  /\ Return(t)
  /\ UNCHANGED <<rigid, global, state, active, repoch, pending, rec, client, scanning>>

\* ck_epoch_end: the references of the section are gone.
End(t, h) ==
  LET r == rec[t] IN
  /\ Registered(t) /\ active[r] > 0
  /\ IF sectioned THEN sec[t][h] # NULL ELSE h = aHandle
  /\ active' = [active EXCEPT ![r] = @ - 1]
  /\ held' = [held EXCEPT ![t][h] = IF sectioned \/ active[r] = 1 THEN {} ELSE @]
  /\ IF sectioned
     THEN Goto(t, "e_ref") /\ arg' = [arg EXCEPT ![t] = h]
     ELSE UNCHANGED <<pc, arg>>
  /\ UNCHANGED <<rigid, global, state, repoch, bucket, pending, rec, sec, status, snap, scanning>>

\* _ck_epoch_delref: the last section of the older bucket lets the record
\* move on to the epoch of the newer one.
Delref(t) ==
  LET r == rec[t]
      b == sec[t][arg[t]]
      current == bucket[r][b]
      other == bucket[r][1 - b]
  IN
  /\ At(t, "e_ref")
  /\ bucket' = [bucket EXCEPT ![r][b].count = @ - 1]
  /\ repoch' = IF current.count = 1 /\ other.count > 0 /\ Older(current.epoch, other.epoch)
               THEN [repoch EXCEPT ![r] = other.epoch] ELSE repoch
  /\ sec' = [sec EXCEPT ![t][arg[t]] = NULL]
  /\ Return(t)
  /\ UNCHANGED <<rigid, global, state, active, pending, rec, client, scanning>>

\* ck_epoch_observe: a quiescent point within a section.
Observe(t) ==
  /\ Idle(t, "observe") /\ rec[t] # NULL /\ ~sectioned /\ active[rec[t]] > 0
  /\ Goto(t, "o_store")
  /\ held' = [held EXCEPT ![t] = NoRefs]
  /\ snap' = [snap EXCEPT ![t] = epoch]
  /\ UNCHANGED <<rigid, global, fields, pending, rec, sec, status, arg, scanning>>

ObserveStore(t) ==
  /\ At(t, "o_store")
  /\ repoch' = [repoch EXCEPT ![rec[t]] = snap[t]]
  /\ Return(t)
  /\ UNCHANGED <<rigid, global, state, active, bucket, pending, rec, sec, client, scanning>>

-----------------------------------------------------------------------------
\* The client: acquire a reference in an open section, unlink an object.
Dereference(t, h, o) ==
  /\ Registered(t) /\ active[rec[t]] > 0
  /\ IF sectioned THEN sec[t][h] # NULL ELSE h = aHandle
  /\ status[o] = "linked"
  /\ held' = [held EXCEPT ![t][h] = @ \cup {o}]
  /\ UNCHANGED <<rigid, global, fields, pending, rec, sec, status, pc, snap, arg, scanning>>

Unlink(t, o) ==
  /\ Idle(t, "unlink") /\ rec[t] # NULL
  /\ status[o] = "linked"
  /\ status' = [status EXCEPT ![o] = t]
  /\ UNCHANGED <<rigid, global, fields, pending, rec, sec, held, pc, snap, arg, scanning>>

Reclaiming(r) == \E u \in Threads : rec[u] = r /\ op[u] # "none"

\* ck_epoch_call on the caller's record, ck_epoch_call_strict on any: load
\* the global epoch ...
Call(t, r, o) ==
  /\ Registered(t) /\ status[o] = t
  /\ \E u \in Threads : rec[u] = r
  /\ r = rec[t] \/ shared \/ ~Reclaiming(r)
  /\ Goto(t, "c_push")
  /\ snap' = [snap EXCEPT ![t] = epoch]
  /\ arg' = [arg EXCEPT ![t] = <<r, o>>]
  /\ UNCHANGED <<rigid, global, fields, pending, rec, sec, client, scanning>>

\* ck_epoch_call has no fence: in the section that removes the object, its load
\* may be satisfied before the removal is visible.
CallEarly(t, o) ==
  /\ Idle(t, "unlink") /\ rec[t] # NULL /\ active[rec[t]] > 0 /\ status[o] = "linked"
  /\ \A u \in Threads \ {t} : "unlink" \notin may[u]      \* removals are serialised
  /\ Goto(t, "c_unlink")
  /\ snap' = [snap EXCEPT ![t] = epoch]
  /\ arg' = [arg EXCEPT ![t] = <<rec[t], o>>]
  /\ UNCHANGED <<rigid, global, fields, pending, rec, sec, client, scanning>>

CallUnlink(t) ==
  /\ At(t, "c_unlink") /\ Goto(t, "c_push")
  /\ status' = [status EXCEPT ![arg[t][2]] = t]
  /\ UNCHANGED <<rigid, global, fields, pending, rec, sec, held, snap, arg, scanning>>

\* ... and file the object in the slot of that epoch.
CallPush(t) ==
  /\ At(t, "c_push")
  /\ pending' = [pending EXCEPT ![arg[t][1]][snap[t] % 4] = @ \cup {arg[t][2]}]
  /\ status' = [status EXCEPT ![arg[t][2]] = "deferred"]
  /\ Return(t)
  /\ UNCHANGED <<rigid, global, fields, rec, sec, held, scanning>>

-----------------------------------------------------------------------------
Newest == IF records = <<>> THEN NULL ELSE records[1]
After(r) ==
  LET i == CHOOSE k \in DOMAIN records : records[k] = r
  IN IF i = Len(records) THEN NULL ELSE records[i + 1]

\* ck_epoch_scan of all records for the epoch in snap.
StartScan(t) ==
  /\ cursor' = [cursor EXCEPT ![t] = Newest]
  /\ af' = [af EXCEPT ![t] = FALSE]
  /\ Goto(t, "s_state")

\* To the next record, or to the end of the scan.
Advance(t) ==
  /\ cursor' = [cursor EXCEPT ![t] = After(cursor[t])]
  /\ Goto(t, IF After(cursor[t]) = NULL THEN "s_done" ELSE "s_state")

ScanState(t) ==
  /\ At(t, "s_state")
  /\ IF state[cursor[t]] = "free"
     THEN Advance(t) ELSE Goto(t, "s_active") /\ UNCHANGED cursor
  /\ UNCHANGED <<rigid, global, fields, pending, rec, sec, client, snap, arg, op, first, iter, af>>

ScanActive(t) ==
  /\ At(t, "s_active")
  /\ IF active[cursor[t]] = 0
     THEN Advance(t) /\ UNCHANGED af
     ELSE /\ Goto(t, "s_epoch") /\ UNCHANGED cursor
          /\ af' = [af EXCEPT ![t] = TRUE]
  /\ UNCHANGED <<rigid, global, fields, pending, rec, sec, client, snap, arg, op, first, iter>>

\* Mutant: a record that lags one epoch behind is let through.
ScanEpoch_Lagging(t) ==
  /\ At(t, "s_epoch")
  /\ IF Sub(snap[t], repoch[cursor[t]]) <= 1
     THEN Advance(t) ELSE Goto(t, "s_blocked") /\ UNCHANGED cursor
  /\ UNCHANGED <<rigid, global, fields, pending, rec, sec, client, snap, arg, op, first, iter, af>>

\* An active record that has not observed the epoch ends the scan.
ScanEpoch(t) ==
  /\ At(t, "s_epoch")
  /\ IF repoch[cursor[t]] = snap[t]
     THEN Advance(t) ELSE Goto(t, "s_blocked") /\ UNCHANGED cursor
  /\ UNCHANGED <<rigid, global, fields, pending, rec, sec, client, snap, arg, op, first, iter, af>>

-----------------------------------------------------------------------------
\* ck_epoch_synchronize and ck_epoch_barrier, outside of sections.
Synchronize(t) ==
  /\ Registered(t) /\ active[rec[t]] = 0 /\ ticks < MaxTicks
  /\ \E o \in {"sync", "barrier"} \cap may[t] : op' = [op EXCEPT ![t] = o]
  /\ snap' = [snap EXCEPT ![t] = epoch]
  /\ first' = [first EXCEPT ![t] = epoch]
  /\ StartScan(t)
  /\ UNCHANGED <<rigid, global, fields, pending, rec, sec, client, arg, iter>>

Syncing(t) == op[t] \in {"sync", "barrier"}

\* The goal was met: to the reclaim of barrier or back to the caller, who
\* destroys what it had unlinked.
Leave(t) ==
  IF op[t] = "barrier"
  THEN /\ Goto(t, "d_slot") /\ iter' = [iter EXCEPT ![t] = 0]
       /\ UNCHANGED <<snap, arg, op, first, cursor, af, status>>
  ELSE /\ ReturnScan(t)
       /\ status' = [o \in Objects |-> IF status[o] = t THEN "freed" ELSE status[o]]

\* Mutant: a newer epoch goes unnoticed.
SyncBlocked_Stale(t) ==
  /\ At(t, "s_blocked") /\ Syncing(t)
  /\ Goto(t, "s_state") /\ af' = [af EXCEPT ![t] = TRUE]
  /\ UNCHANGED <<snap, arg, op, first, iter, cursor, status>>
  /\ UNCHANGED <<rigid, global, fields, pending, rec, sec, held>>

\* A blocked scan goes on with the same record, or starts over for a newer
\* epoch unless that is far enough.
SyncBlocked(t) ==
  LET goal == Add(first[t], 3) IN
  /\ At(t, "s_blocked") /\ Syncing(t)
  /\ \/ /\ epoch = snap[t]
        /\ Goto(t, "s_state") /\ af' = [af EXCEPT ![t] = TRUE]
        /\ UNCHANGED <<snap, arg, op, first, iter, cursor, status>>
     \/ /\ epoch # snap[t] /\ goal > first[t] /\ epoch >= goal
        /\ Leave(t)
     \/ /\ epoch # snap[t] /\ ~(goal > first[t] /\ epoch >= goal)
        /\ snap' = [snap EXCEPT ![t] = epoch]
        /\ StartScan(t)
        /\ UNCHANGED <<arg, op, first, iter, status>>
  /\ UNCHANGED <<rigid, global, fields, pending, rec, sec, held>>

\* All records have observed the epoch: done if none was active or after two
\* rounds, else tick and scan again.
SyncDone(t) ==
  /\ At(t, "s_done") /\ Syncing(t)
  /\ \/ /\ ~af[t]
        /\ Leave(t)
        /\ UNCHANGED <<epoch, ticks>>
     \/ /\ af[t]
        /\ epoch' = IF epoch = snap[t] THEN Add(epoch, 1) ELSE epoch
        /\ ticks' = IF epoch = snap[t] THEN ticks + 1 ELSE ticks
        /\ IF iter[t] = 1
           THEN Leave(t)
           ELSE /\ iter' = [iter EXCEPT ![t] = 1]
                /\ snap' = [snap EXCEPT ![t] = epoch']
                /\ StartScan(t)
                /\ UNCHANGED <<arg, op, first, status>>
  /\ UNCHANGED <<rigid, n_free, records, fields, pending, rec, sec, held>>

\* ck_epoch_dispatch: pop a slot and run its callbacks.
Dispatch(r, s) ==
  /\ pending' = [pending EXCEPT ![r][s] = {}]
  /\ status' = [o \in Objects |-> IF o \in pending[r][s] THEN "freed" ELSE status[o]]

\* ck_epoch_reclaim, slot by slot.
ReclaimSlot(t) ==
  /\ At(t, "d_slot")
  /\ Dispatch(rec[t], iter[t])
  /\ IF iter[t] = 3 THEN ReturnScan(t)
     ELSE /\ iter' = [iter EXCEPT ![t] = @ + 1]
          /\ UNCHANGED <<pc, snap, arg, op, first, cursor, af>>
  /\ UNCHANGED <<rigid, global, fields, rec, sec, held>>

-----------------------------------------------------------------------------
\* ck_epoch_poll, in a section or outside.
Poll(t) ==
  /\ Idle(t, "poll") /\ rec[t] # NULL /\ ticks < MaxTicks
  /\ op' = [op EXCEPT ![t] = "poll"]
  /\ snap' = [snap EXCEPT ![t] = epoch]
  /\ StartScan(t)
  /\ UNCHANGED <<rigid, global, fields, pending, rec, sec, client, arg, first, iter>>

\* Mutant: the slot of epoch - 2 is dispatched although a reader lags.
PollBlocked_Dispatch(t) ==
  /\ At(t, "s_blocked") /\ op[t] = "poll"
  /\ Dispatch(rec[t], Sub(snap[t], 2) % 4)
  /\ ReturnScan(t)
  /\ UNCHANGED <<rigid, global, fields, rec, sec, held>>

\* A record lags behind: nothing can be done.
PollBlocked(t) ==
  /\ At(t, "s_blocked") /\ op[t] = "poll"
  /\ ReturnScan(t)
  /\ UNCHANGED <<rigid, global, fields, pending, rec, sec, client>>

\* Nobody is in a section: everything can be dispatched.  Otherwise tick, and
\* dispatch the slot of two epochs ago.
PollDone(t) ==
  /\ At(t, "s_done") /\ op[t] = "poll"
  /\ IF af[t]
     THEN /\ epoch' = IF epoch = snap[t] THEN Add(epoch, 1) ELSE epoch
          /\ ticks' = IF epoch = snap[t] THEN ticks + 1 ELSE ticks
          /\ Goto(t, "p_slot")
          /\ UNCHANGED repoch
     ELSE /\ repoch' = [repoch EXCEPT ![rec[t]] = snap[t]]
          /\ Goto(t, "d_slot")
          /\ UNCHANGED <<epoch, ticks>>
  /\ UNCHANGED <<rigid, n_free, records, state, active, bucket, pending, rec, sec, client,
                 snap, arg, scanning>>

PollSlot(t) ==
  /\ At(t, "p_slot")
  /\ Dispatch(rec[t], Sub(snap[t], 2) % 4)
  /\ ReturnScan(t)
  /\ UNCHANGED <<rigid, global, fields, rec, sec, held>>

-----------------------------------------------------------------------------
\* ck_epoch_register: a new record, pushed onto the list (one step, see Stack).
Register(t) ==
  /\ Idle(t, "register") /\ rec[t] = NULL
  /\ \E r \in Records :
       /\ \A i \in DOMAIN records : records[i] # r
       /\ rec' = [rec EXCEPT ![t] = r]
       /\ state' = [state EXCEPT ![r] = "used"]
       /\ active' = [active EXCEPT ![r] = 0]
       /\ repoch' = [repoch EXCEPT ![r] = 0]
       /\ bucket' = [bucket EXCEPT ![r] = EmptyBuckets]
       /\ pending' = [pending EXCEPT ![r] = EmptyPending]
       /\ records' = <<r>> \o records
  /\ UNCHANGED <<rigid, epoch, n_free, ticks, sec, client, pc, snap, arg, scanning>>

\* ck_epoch_unregister, by an owner that has no section open and nothing
\* deferred, resets the record and offers it ...
Unregister(t) ==
  LET r == rec[t] IN
  /\ Idle(t, "unregister") /\ rec[t] # NULL /\ active[r] = 0 /\ pending[r] = EmptyPending
  /\ repoch' = [repoch EXCEPT ![r] = 0]
  /\ bucket' = [bucket EXCEPT ![r] = EmptyBuckets]
  /\ state' = [state EXCEPT ![r] = "free"]
  /\ rec' = [rec EXCEPT ![t] = NULL]
  /\ Goto(t, "u_inc")
  /\ UNCHANGED <<rigid, global, active, pending, sec, client, snap, arg, scanning>>

\* ... and counts it.
UnregisterCount(t) ==
  /\ At(t, "u_inc")
  /\ n_free' = Add(n_free, 1)
  /\ Return(t)
  /\ UNCHANGED <<rigid, epoch, records, ticks, fields, pending, rec, sec, client, scanning>>

\* ck_epoch_recycle: look for a free record ...
Recycle(t) ==
  /\ Idle(t, "register") /\ rec[t] = NULL /\ n_free # 0
  /\ cursor' = [cursor EXCEPT ![t] = Newest]
  /\ Goto(t, "f_state")
  /\ UNCHANGED <<rigid, global, fields, pending, rec, sec, client, snap, arg, op, first, iter, af>>

\* The end of the list: NULL.
RecycleNext(t) ==
  /\ cursor' = [cursor EXCEPT ![t] = After(@)]
  /\ Goto(t, IF After(cursor[t]) = NULL THEN "idle" ELSE "f_state")
  /\ UNCHANGED <<n_free, state, rec>>

RecycleState(t) ==
  /\ At(t, "f_state")
  /\ IF state[cursor[t]] = "free"
     THEN Goto(t, "f_swap") /\ UNCHANGED <<cursor, n_free, state, rec>>
     ELSE RecycleNext(t)
  /\ UNCHANGED <<rigid, epoch, records, ticks, active, repoch, bucket, pending, sec, client,
                 snap, arg, op, first, iter, af>>

\* Mutant: the result of the swap is ignored.
RecycleSwap_Blind(t) ==
  /\ At(t, "f_swap") /\ Goto(t, "f_dec")
  /\ state' = [state EXCEPT ![cursor[t]] = "used"]
  /\ rec' = [rec EXCEPT ![t] = cursor[t]]
  /\ UNCHANGED <<cursor, n_free>>
  /\ UNCHANGED <<rigid, epoch, records, ticks, active, repoch, bucket, pending, sec, client,
                 snap, arg, op, first, iter, af>>

\* ... take it, unless another thread was faster ...
RecycleSwap(t) ==
  /\ At(t, "f_swap")
  /\ IF state[cursor[t]] = "free"
     THEN /\ state' = [state EXCEPT ![cursor[t]] = "used"]
          /\ rec' = [rec EXCEPT ![t] = cursor[t]]
          /\ Goto(t, "f_dec")
          /\ UNCHANGED <<cursor, n_free>>
     ELSE RecycleNext(t)
  /\ UNCHANGED <<rigid, epoch, records, ticks, active, repoch, bucket, pending, sec, client,
                 snap, arg, op, first, iter, af>>

\* ... and take it off the count.
RecycleCount(t) ==
  /\ At(t, "f_dec")
  /\ n_free' = Sub(n_free, 1)
  /\ Return(t)
  /\ cursor' = [cursor EXCEPT ![t] = NULL]
  /\ UNCHANGED <<rigid, epoch, records, ticks, fields, pending, rec, sec, client, op, first, iter, af>>

-----------------------------------------------------------------------------

\* What a thread chooses to do ...
Choose(t) ==
  \/ \E h \in Handles : Begin(t, h) \/ End(t, h) \/ \E o \in Objects : Dereference(t, h, o)
  \/ Observe(t) \/ Synchronize(t) \/ Poll(t) \/ Register(t) \/ Unregister(t) \/ Recycle(t)
  \/ \E o \in Objects : Unlink(t, o) \/ CallEarly(t, o) \/ \E r \in Records : Call(t, r, o)

\* ... and what it then has to go through.
Continue(t) ==
  \/ BeginLoad(t) \/ BeginStore(t) \/ Addref(t) \/ Delref(t) \/ ObserveStore(t)
  \/ CallUnlink(t) \/ CallPush(t)
  \/ ScanState(t) \/ ScanActive(t) \/ ScanEpoch(t)
  \/ SyncBlocked(t) \/ SyncDone(t) \/ ReclaimSlot(t)
  \/ PollBlocked(t) \/ PollDone(t) \/ PollSlot(t)
  \/ UnregisterCount(t) \/ RecycleState(t) \/ RecycleSwap(t) \/ RecycleCount(t)

Next == \E t \in Threads : Choose(t) \/ Continue(t)
Spec == Init /\ [][Next]_vars

\* A thread that is in a call keeps running.
FairSpec == Spec /\ \A t \in Threads : WF_vars(Continue(t))

-----------------------------------------------------------------------------

\* Safe memory reclamation: no object is destroyed while a thread that
\* acquired a reference to it is still in the section it acquired it in.
NoUseAfterFree ==
  \A t \in Threads, h \in Handles : \A o \in held[t][h] : status[o] # "freed"

\* A thread in a section never sees the global epoch more than one ahead of
\* its record (regressions/ck_epoch/validate/torture.c: "We should observe up
\* to one epoch migration"), which all of the reclamation logic relies on.
EpochLag ==
  \A t \in Threads :
    rec[t] # NULL /\ active[rec[t]] > 0 /\ pc[t] \notin {"b_load", "b_store"}
      => Sub(epoch, repoch[rec[t]]) <= 1

\* A record has one user, however registrations, unregistrations and recycling
\* race, and the number of free records is right up to the calls in progress.
RecordsExclusive ==
  /\ \A t, u \in Threads : rec[t] = rec[u] /\ rec[t] # NULL => t = u
  /\ Sub(n_free + Cardinality({t \in Threads : pc[t] = "u_inc"}),
         Cardinality({t \in Threads : pc[t] = "f_dec"}))
       = Cardinality({r \in Records : state[r] = "free"})

\* ck_epoch_synchronize and ck_epoch_barrier return, if every record is out of
\* sections now and again and threads do not register for ever.  (A thread
\* that is recycling its record all the time can hold a scan up for good.)
SynchronizeReturns ==
  (\A t \in Threads : /\ []<>(rec[t] = NULL \/ active[rec[t]] = 0)
                      /\ <>[](rec[t] = NULL) \/ <>[](rec[t] # NULL))
    => \A t \in Threads : Syncing(t) ~> op[t] = "none"

\* The same, if only every section is closed now and again: "A section object
\* may be passed to every begin-end pair to allow for forward progress
\* guarantees with-in prolonged active sections" (ck_epoch.h).
SectionsLetProgress ==
  (\A t \in Threads, h \in Handles : []<>(sec[t][h] = NULL))
    => \A t \in Threads : Syncing(t) ~> op[t] = "none"

-----------------------------------------------------------------------------
(* Small instances for TLC. *)

\* What t1, t2 and t3 may do and the record each has; all but NULL are listed.
Start(ops, owned, sections, strict, e, last) ==
  LET nth(s, t) == IF t = t1 THEN s[1] ELSE IF t = t2 THEN s[2] ELSE s[3] IN
  [may |-> [t \in Threads |-> nth(ops, t)], rec |-> [t \in Threads |-> nth(owned, t)],
   records |-> SelectSeq(owned, LAMBDA r : r # NULL), sectioned |-> sections, shared |-> strict, epoch |-> e, seen |-> last]

Reader == {"section", "nest"}
Member == {"register", "unregister", "section"}
Poller == {"section", "poll"}

\* After ck_epoch_init, and where the epoch is about to wrap around.
StartsAll == {
  Start(<<Reader \cup {"observe"}, {"unlink", "sync", "barrier", "poll"}>>, <<1, 2>>,
        FALSE, FALSE, 1, 0),
  Start(<<Reader, {"unlink", "sync"}>>, <<1, 2>>, TRUE, FALSE, 6, 6),
  Start(<<Poller, {"unlink", "sync"}>>, <<1, 2>>, FALSE, FALSE, 1, 0),
  Start(<<Poller \cup {"unlink"}, Poller>>, <<1, 2>>, FALSE, FALSE, 6, 5),
  Start(<<Member, {"unlink", "sync"}>>, <<NULL, 1>>, FALSE, FALSE, 1, 0),
  Start(<<Member, Member>>, <<NULL, NULL>>, FALSE, FALSE, 1, 0)}

StartsSections == {Start(<<Reader, {"sync"}>>, <<1, 2>>, TRUE, FALSE, 1, 0)}

StartsShared == {Start(<<{"section"}, {"unlink"}, {"barrier"}>>, <<1, 2, 3>>, FALSE, TRUE, 1, 0)}
=============================================================================
