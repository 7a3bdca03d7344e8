--------------------------------- MODULE Ec ---------------------------------
(***************************************************************************)
(* include/ck_ec.h and src/ck_ec.c: event counts.  A waiter blocks in the  *)
(* operating system while the counter has the value it knows; a flag in    *)
(* the counter's word asks the producers to wake it.                       *)
(*                                                                         *)
(* The single producer of x86 adds with an instruction that is not atomic: *)
(* it reads its own newest store, and the stores reach memory later, one   *)
(* after the other, over a flag that was set meanwhile.  For that a waiter *)
(* sleeps with a time limit until no store can be as old as its flag.      *)
(***************************************************************************)
EXTENDS Threaded

CONSTANTS
  Wrap,          \* the values are modulo Wrap: 2^31 or 2^63
  Producers,     \* the threads that add; the others wait
  SingleProducer,\* mode->single_producer, on x86
  MaxStores,     \* the length of the store buffer
  TimeMax,       \* TIME_MAX
  NsecMax,       \* NSEC_MAX
  UintMax,       \* UINT32_MAX
  InitialWait,   \* initial_wait_ns
  Scale,         \* wait_scale_factor
  Shift          \* wait_shift_count

Nothing == [old |-> 0, current |-> 0, lag |-> 0, result |-> "none"]
\* ck_ec*_init; the value is one below the largest, to see it wrap around.
\* asleep are the threads in the operating system's queue.
Init ==
  /\ \E width \in {32, 64} :
       m = [width |-> width, sp |-> SingleProducer,
            word |-> IF width = 32 THEN Wrap - 2 ELSE 2 * (Wrap - 2),
            buffer |-> <<>>, asleep |-> {}]
  /\ pc = [t \in Threads |-> "idle"]
  /\ r = [t \in Threads |-> Nothing]

-----------------------------------------------------------------------------
(* The word: the flag is its highest bit if it has 32 bits, and its lowest   *)
(* if it has 64.                                                             *)

Value(w) == IF m.width = 32 THEN w % Wrap ELSE w \div 2
HasWaiters(w) == IF m.width = 32 THEN w >= Wrap ELSE w % 2 = 1
Unflagged(v) == IF m.width = 32 THEN v ELSE 2 * v
Flagged(v) == IF m.width = 32 THEN v + Wrap ELSE 2 * v + 1
Plus(w, delta) == (w + IF m.width = 32 THEN delta ELSE 2 * delta) % (2 * Wrap)

\* What the producer reads: its newest store, or memory.
Newest == (<<m.word>> \o m.buffer)[1 + Len(m.buffer)]
\* Between its snapshot and the end of its wait, a waiter misses no full turn
\* of the counter.  lag, history, is what was added since the snapshot.
Waiting(t) == pc[t] \notin {"idle", "return"} /\ t \notin Producers
NoFullTurn(delta) ==
  \A t \in Threads :
    Waiting(t) => r[t].lag + delta + ((Value(Newest) - Value(m.word)) % Wrap) < Wrap
Lag(w) ==
  LET added == (Value(w) - Value(m.word)) % Wrap
  IN  r' = [t \in Threads |-> IF Waiting(t) THEN [r[t] EXCEPT !.lag = @ + added] ELSE r[t]]

-----------------------------------------------------------------------------
(* ck_ec*_inc and ck_ec*_add.                                                *)

Adds(t, delta) == t \in Producers /\ At(t, "idle") /\ NoFullTurn(delta)
\* The epilogue: wake if the value before the addition had the flag.
WakeIf(t, w) == Go(t, IF HasWaiters(w) THEN "clear" ELSE "idle")

AddMp(t) ==
  /\ ~m.sp
  /\ \E delta \in 0 .. 1 :
       /\ Adds(t, delta) /\ Lag(Plus(m.word, delta))
       /\ m' = [m EXCEPT !.word = Plus(@, delta)]
  /\ WakeIf(t, m.word)
\* Adding 0 does nothing: its store would do away with a flag for nothing.
AddSp(t) ==
  /\ m.sp /\ Len(m.buffer) < MaxStores /\ Adds(t, 1)
  /\ m' = [m EXCEPT !.buffer = Append(@, Plus(Newest, 1))]
  /\ WakeIf(t, Newest)
  /\ UNCHANGED r
\* The oldest store reaches memory.
Store(t) ==
  /\ t \in Producers /\ m.buffer # <<>>
  /\ m' = [m EXCEPT !.word = Head(m.buffer), !.buffer = Tail(m.buffer)]
  /\ Lag(Head(m.buffer))
  /\ UNCHANGED pc

\* ck_ec*_wake: an atomic instruction waits for the stores before it.
ClearFlag(t) ==
  /\ Step(t, "clear", "wake") /\ m.buffer = <<>>
  /\ m' = [m EXCEPT !.word = Unflagged(Value(@))]
  /\ UNCHANGED r
Wake(t) == Step(t, "wake", "idle") /\ m' = [m EXCEPT !.asleep = {}] /\ UNCHANGED r

-----------------------------------------------------------------------------
(* ck_ec*_wait and wait_pred.  Whether there is a time limit, and when it    *)
(* has passed, is open.                                                      *)

Return(t, result) ==
  /\ Go(t, "return")
  /\ Put(t, [Nothing EXCEPT !.lag = IF r[t].lag > 0 THEN 1 ELSE 0, !.result = result])
Changed(t) == Value(m.word) # r[t].old

\* ck_ec*_value, and the call of wait.
Snapshot(t) ==
  /\ Step(t, "idle", "value") /\ t \notin Producers
  /\ Put(t, [old |-> Value(m.word)])
  /\ Local
\* The value is read before the slow path, and at its beginning once more; a
\* limit in the past is found out then.
WaitValue(t) ==
  /\ At(t, "value") /\ Local
  /\ \/ Changed(t) /\ Return(t, "changed")
     \/ ~Changed(t) /\ Go(t, "slow") /\ UNCHANGED r
WaitSlow(t) ==
  /\ At(t, "slow") /\ Local
  /\ \/ Changed(t) /\ Return(t, "changed")
     \/ ~Changed(t) /\ Return(t, "timeout")
     \/ ~Changed(t) /\ Go(t, "easy") /\ UNCHANGED r

\* wait_easy returns what its last load found.
WaitEasy(t) == Step(t, "easy", "upgrade") /\ Put(t, [current |-> m.word]) /\ Local
Upgrade(t) ==
  LET unflagged == Unflagged(r[t].old)
      flagged == Flagged(r[t].old)
  IN  /\ At(t, "upgrade")
      /\ \/ r[t].current = flagged /\ Go(t, "easy_flagged") /\ Local /\ Put(t, [current |-> 0])
         \/ r[t].current \notin {flagged, unflagged} /\ Return(t, "changed") /\ Local
         \/ /\ r[t].current = unflagged
            /\ IF m.word \in {flagged, unflagged} THEN Go(t, "easy_flagged") /\ Put(t, [current |-> 0])
               ELSE Return(t, "changed")
            /\ m' = [m EXCEPT !.word = IF @ = unflagged THEN flagged ELSE @]
WaitEasyFlagged(t) ==
  /\ At(t, "easy_flagged") /\ Local
  /\ IF m.word = Flagged(r[t].old) THEN Go(t, "backoff") /\ UNCHANGED r ELSE Return(t, "changed")

\* One turn of exponential_backoff: the time limit, the predicate, and how
\* long to sleep.  After a second no store is as old as the flag, and a sleep
\* may last for ever.
\* Mutant: the first sleep may last for ever.
BackoffForever(t) ==
  /\ At(t, "backoff") /\ Local
  /\ \/ \E result \in {"timeout", "predicate"} : Return(t, result)
     \/ Go(t, "sleep") /\ UNCHANGED r
     \/ Go(t, "sleep_forever") /\ UNCHANGED r
Backoff(t) ==
  /\ At(t, "backoff") /\ Local
  /\ \/ \E result \in {"timeout", "predicate"} : Return(t, result)
     \/ Go(t, "sleep") /\ UNCHANGED r
     \/ m.buffer = <<>> /\ Go(t, "sleep_forever") /\ UNCHANGED r
\* wait_slow_once: the operating system compares the word and queues the
\* thread in one step.  A 64 bit counter is compared just before.
Sleep(t) ==
  /\ pc[t] \in {"sleep", "sleep_forever"} /\ UNCHANGED r
  /\ \/ /\ m.word = Flagged(r[t].old)
        /\ m' = [m EXCEPT !.asleep = @ \cup {t}]
        /\ Go(t, IF At(t, "sleep") THEN "asleep" ELSE "asleep_forever")
     \/ m.word # Flagged(r[t].old) /\ Go(t, "woken") /\ Local
Asleep(t) == pc[t] \in {"asleep", "asleep_forever"}
Woken(t) == Asleep(t) /\ t \notin m.asleep /\ Go(t, "woken") /\ Local /\ UNCHANGED r
Timeout(t) == Step(t, "asleep", "woken") /\ m' = [m EXCEPT !.asleep = @ \ {t}] /\ UNCHANGED r
\* The operating system may wake a thread for any reason.
Spurious(t) == Asleep(t) /\ Go(t, "woken") /\ m' = [m EXCEPT !.asleep = @ \ {t}] /\ UNCHANGED r

AfterSleep(t) ==
  /\ At(t, "woken") /\ Local /\ UNCHANGED r
  /\ Go(t, IF m.word = Flagged(r[t].old) THEN "backoff" ELSE "again")
WaitAgain(t) ==
  /\ At(t, "again") /\ Local
  /\ IF Changed(t) THEN Return(t, "changed") ELSE Go(t, "easy") /\ UNCHANGED r

Done(t) ==
  /\ Step(t, "return", "idle") /\ Local
  /\ Put(t, Nothing)

Calls(t) == AddMp(t) \/ AddSp(t) \/ Snapshot(t) \/ Spurious(t)
Steps(t) ==
  \/ Store(t) \/ ClearFlag(t) \/ Wake(t)
  \/ WaitValue(t) \/ WaitSlow(t) \/ WaitEasy(t) \/ Upgrade(t) \/ WaitEasyFlagged(t)
  \/ Backoff(t) \/ Sleep(t) \/ Woken(t) \/ Timeout(t) \/ AfterSleep(t) \/ WaitAgain(t) \/ Done(t)

-----------------------------------------------------------------------------
(* The time keeping: src/ck_ec_timeutil.h, and ck_ec_deadline.  A time is a  *)
(* number of seconds and of nanoseconds; the largest stands for ever.        *)

Times == [sec : 0 .. TimeMax, nsec : 0 .. NsecMax]
Forever == [sec |-> TimeMax, nsec |-> NsecMax]
Zero == [sec |-> 0, nsec |-> 0]
\* What a caller may ask to wait for: also less than nothing, and no valid time.
Timeouts == [sec : -1 .. TimeMax, nsec : -1 .. NsecMax + 1]

\* timespec_cmp.
Before(x, y) == x.sec < y.sec \/ (x.sec = y.sec /\ x.nsec < y.nsec)
\* The carry of nanoseconds, up to the largest time.
Carry(sec, nsec) ==
  IF nsec <= NsecMax THEN [sec |-> sec, nsec |-> nsec]
  ELSE IF sec >= TimeMax THEN Forever
  ELSE [sec |-> sec + 1, nsec |-> nsec - (NsecMax + 1)]
\* A negative increment, or one that is not a time, is none.
TimespecAdd(ts, inc) ==
  IF inc.sec < 0 \/ inc.nsec < 0 \/ inc.nsec > NsecMax THEN ts
  ELSE IF inc.sec > TimeMax - ts.sec THEN Forever
  ELSE Carry(ts.sec + inc.sec, ts.nsec + inc.nsec)
\* Mutant: more than a second is not cut down to one.
TimespecAddNsAll(ts, ns) == Carry(ts.sec + (ns \div (NsecMax + 1)), ts.nsec + (ns % (NsecMax + 1)))
TimespecAddNs(ts, ns) ==
  IF ns <= NsecMax THEN Carry(ts.sec, ts.nsec + ns)
  ELSE IF ts.sec >= TimeMax THEN Forever
  ELSE [ts EXCEPT !.sec = @ + 1]
\* Mutant: the product is cut off at the width of the word.
WaitTimeScaleWraps(ns) == ((ns * Scale) \div 2 ^ Shift) % (UintMax + 1)
WaitTimeScale(ns) ==
  IF ns * Scale >= UintMax * 2 ^ Shift THEN UintMax ELSE (ns * Scale) \div 2 ^ Shift

-----------------------------------------------------------------------------
(* exponential_backoff of src/ck_ec.c: a waiter, after it has flagged the    *)
(* counter.  The clock goes on at any pace.                                  *)

Start(deadline) ==
  [first |-> TRUE, begin |-> Zero, stop |-> Zero, wait |-> InitialWait, partial |-> Zero,
   deadline |-> deadline]
BackoffInit ==
  /\ \E now \in Times : m = [now |-> now]
  /\ pc = [t \in Threads |-> "idle"]
  /\ r = [t \in Threads |-> Start(Zero)]

\* ck_ec_deadline with a timeout, or canonical_deadline of none.
Wait(t) ==
  /\ Step(t, "idle", "check") /\ Local
  /\ \/ \E timeout \in Timeouts : Put(t, Start(TimespecAdd(m.now, timeout)))
     \/ Put(t, Start([sec |-> TimeMax, nsec |-> 0]))

\* check_deadline, and what kind of sleep comes next.  A clock that does not
\* answer ends the wait.
Check(t) ==
  /\ At(t, "check")
  /\ \/ Go(t, "idle") /\ Put(t, Start(Zero)) /\ Local
     \/ \E now \in Times :
          LET begin == IF r[t].first THEN now ELSE r[t].begin
              stop == IF r[t].first THEN TimespecAdd(now, [sec |-> 1, nsec |-> 0]) ELSE r[t].stop
          IN  /\ ~Before(now, m.now) /\ Before(now, r[t].deadline)
              /\ m' = [m EXCEPT !.now = now]
              /\ IF Before(now, stop)
                 THEN Go(t, "loop") /\ Put(t, [first |-> FALSE, begin |-> begin, stop |-> stop])
                 ELSE /\ Go(t, "resting")
                      /\ Put(t, [first |-> FALSE, begin |-> begin, stop |-> stop,
                                 partial |-> r[t].deadline])
\* One turn of the loop that looks for a time in the future.
Loop(t) ==
  LET partial == TimespecAddNs(r[t].begin, r[t].wait)
  IN  /\ At(t, "loop") /\ Local
      /\ Go(t, IF Before(m.now, partial) THEN "resting" ELSE "loop")
      /\ Put(t, [partial |-> partial, wait |-> WaitTimeScale(r[t].wait)])
\* The sleep ends, with a change or without.
Rest(t) ==
  /\ At(t, "resting") /\ Local
  /\ \/ Go(t, "idle") /\ Put(t, Start(Zero))
     \/ Go(t, "check") /\ Put(t, [partial |-> Zero])

BackoffCalls(t) == Wait(t)
BackoffSteps(t) == Check(t) \/ Loop(t) \/ Rest(t)

-----------------------------------------------------------------------------
\* A waiter sleeps until a time in the future: within a second of the first
\* sleep, and later until its deadline.
SleepAhead ==
  \A t \in Threads : At(t, "resting") =>
    /\ Before(m.now, r[t].partial)
    /\ ~Before(r[t].stop, r[t].partial) \/ r[t].partial = r[t].deadline
=============================================================================
