------------------------ MODULE SpinlockTicketProofs ------------------------
(***************************************************************************)
(* Mutual exclusion and first-come first-served order of the ticket lock   *)
(* for any number of threads and any width of the counters, as long as     *)
(* fewer threads use the lock than the counters have values.               *)
(***************************************************************************)
EXTENDS SpinlockTicket, FiniteSetTheorems, TLAPS

Inv == TypeOK /\ Tickets

\* Counter arithmetic: advancing the far end of an interval that is not yet
\* the whole circle lengthens it by one ...
LEMMA SubIncLeft ==
  ASSUME NEW a \in 0 .. Mod - 1, NEW b \in 0 .. Mod - 1, Sub(a, b) + 1 < Mod
  PROVE  Inc(a) \in 0 .. Mod - 1 /\ Sub(Inc(a), b) = Sub(a, b) + 1
  BY TicketAssumption DEF Inc, Sub

\* ... and advancing its near end shortens it by one.
LEMMA SubIncRight ==
  ASSUME NEW a \in 0 .. Mod - 1, NEW b \in 0 .. Mod - 1, a # b
  PROVE  Inc(b) \in 0 .. Mod - 1 /\ Sub(a, Inc(b)) = Sub(a, b) - 1
  BY TicketAssumption DEF Inc, Sub

\* Two counters are equal exactly when they are at the same distance.
LEMMA SubFacts ==
  ASSUME NEW a \in 0 .. Mod - 1, NEW b \in 0 .. Mod - 1
  PROVE  Sub(a, b) \in 0 .. Mod - 1 /\ (Sub(a, b) = 0 <=> a = b)
  BY TicketAssumption DEF Sub

\* An increment stays on the circle.
LEMMA IncType ==
  ASSUME NEW a \in 0 .. Mod - 1
  PROVE  Inc(a) \in 0 .. Mod - 1
  BY TicketAssumption DEF Inc

\* There are fewer calls in progress than tickets.
LEMMA ActiveBound ==
  IsFiniteSet(Active) /\ Cardinality(Active) <= Cardinality(Threads)
  <1>1. Active \subseteq Threads
    BY DEF Active
  <1> QED
    BY <1>1, FS_Subset, TicketAssumption

\* The initial lock satisfies the invariant.
LEMMA InitInv == Init => Inv
  <1> SUFFICES ASSUME Init PROVE Inv
    OBVIOUS
  <1>1. Active = {} /\ Holders = {}
    BY DEF Init, Active, Holders
  <1>2. Cardinality(Active) = 0
    BY <1>1, FS_EmptySet
  <1>3. TypeOK
    BY TicketAssumption DEF Init, TypeOK
  <1>4. Sub(next, position) = 0
    BY TicketAssumption DEF Init, Sub
  <1>5. Len(arrivals) = 0
    BY DEF Init
  <1> QED
    BY <1>1, <1>2, <1>3, <1>4, <1>5 DEF Inv, Tickets, Init

\* A thread that takes the next ticket, by lock or by trylock, extends the
\* interval at its far end.
LEMMA TakeTicket ==
  ASSUME Inv, NEW t \in Threads, t \notin Active, NEW l \in {"spin", "cs"},
         l = "cs" => next = position,
         pc' = [pc EXCEPT ![t] = l],
         request' = [request EXCEPT ![t] = next],
         next' = Inc(next), arrivals' = Append(arrivals, t),
         UNCHANGED <<packed, position, snapshot>>
  PROVE  Inv'
  <1>1. Active' = Active \cup {t}
    BY DEF Inv, TypeOK, Active
  <1>2. Cardinality(Active') = Cardinality(Active) + 1
    BY <1>1, ActiveBound, FS_AddElement
  <1>3. Cardinality(Active) + 1 < Mod
    <2>1. Active' \subseteq Threads
      BY DEF Active
    <2>2. Cardinality(Active') <= Cardinality(Threads)
      BY <2>1, FS_Subset, TicketAssumption
    <2>3. Cardinality(Threads) \in Nat /\ Cardinality(Active) \in Nat
      BY ActiveBound, FS_CardinalityType, TicketAssumption
    <2> QED
      BY <1>2, <2>2, <2>3, TicketAssumption
  <1>4. Sub(next, position) + 1 < Mod
    BY <1>3 DEF Inv, Tickets
  <1>5. next' \in 0 .. Mod - 1 /\ Sub(next', position') = Sub(next, position) + 1
    BY <1>4, SubIncLeft DEF Inv, TypeOK
  <1>6. TypeOK'
    BY <1>5 DEF Inv, TypeOK
  <1>7. Cardinality(Active') = Sub(next', position')
    BY <1>2, <1>5 DEF Inv, Tickets
  <1>8. Len(arrivals') = Sub(next', position')
    BY <1>5 DEF Inv, Tickets, TypeOK
  <1>9. \A u \in Active' : Sub(request'[u], position') < Sub(next', position')
    <2> SUFFICES ASSUME NEW u \in Active'
                 PROVE  Sub(request'[u], position') < Sub(next', position')
      OBVIOUS
    <2>0. Sub(next, position) \in 0 .. Mod - 1
      BY SubFacts DEF Inv, TypeOK
    <2>1. CASE u = t
      BY <2>0, <2>1, <1>5 DEF Inv, TypeOK
    <2>2. CASE u # t
      <3>1. u \in Active /\ request'[u] = request[u]
        BY <1>1, <2>2 DEF Inv, TypeOK
      <3>2. Sub(request[u], position) \in 0 .. Mod - 1
        BY <3>1, SubFacts DEF Inv, TypeOK, Active
      <3> QED
        BY <3>1, <3>2, <2>0, <1>5 DEF Inv, Tickets
    <2> QED
      BY <2>1, <2>2
  <1>10. \A u, v \in Active' : request'[u] = request'[v] => u = v
    <2>1. \A u \in Active : request[u] # next
      <3> SUFFICES ASSUME NEW u \in Active, request[u] = next PROVE FALSE
        OBVIOUS
      <3>1. Sub(next, position) < Sub(next, position)
        BY DEF Inv, Tickets
      <3> QED
        BY <3>1, SubFacts DEF Inv, TypeOK
    <2> QED
      BY <1>1, <2>1 DEF Inv, Tickets, TypeOK, Active
  <1>11. \A u \in Holders' : request'[u] = position'
    BY DEF Inv, Tickets, TypeOK, Holders
  <1>12. \A u \in Threads : pc'[u] = "unlock" => snapshot'[u] = position'
    BY DEF Inv, Tickets, TypeOK
  <1>13. \A i \in 1 .. Len(arrivals') :
            arrivals'[i] \in Active' /\ Sub(request'[arrivals'[i]], position') = i - 1
    <2> SUFFICES ASSUME NEW i \in 1 .. Len(arrivals')
                 PROVE  arrivals'[i] \in Active' /\ Sub(request'[arrivals'[i]], position') = i - 1
      OBVIOUS
    <2>0. Len(arrivals') = Len(arrivals) + 1 /\ Len(arrivals) \in Nat
      BY DEF Inv, TypeOK
    <2>1. CASE i = Len(arrivals')
      <3>1. arrivals'[i] = t
        BY <2>0, <2>1 DEF Inv, TypeOK
      <3>2. request'[t] = next
        BY DEF Inv, TypeOK
      <3>3. Sub(next, position) = Len(arrivals)
        BY DEF Inv, Tickets
      <3> QED
        BY <2>0, <2>1, <3>1, <3>2, <3>3, <1>1
    <2>2. CASE i \in 1 .. Len(arrivals)
      <3>0. arrivals[i] \in Active
        BY <2>2 DEF Inv, Tickets
      <3>1. arrivals'[i] = arrivals[i] /\ arrivals[i] \in Active
        BY <2>2, <3>0 DEF Inv, TypeOK
      <3>2. arrivals[i] # t /\ arrivals[i] \in Threads
        BY <3>1 DEF Active
      <3>3. request'[arrivals[i]] = request[arrivals[i]]
        BY <3>2 DEF Inv, TypeOK
      <3> QED
        BY <2>2, <3>1, <3>3, <1>1 DEF Inv, Tickets
    <2> QED
      BY <2>0, <2>1, <2>2
  <1> QED
    BY <1>6, <1>7, <1>8, <1>9, <1>10, <1>11, <1>12, <1>13 DEF Inv, Tickets

\* A holder that releases the lock shortens the interval at its near end; no
\* other ticket is there.
LEMMA ServeNext ==
  ASSUME Inv, NEW t \in Holders,
         pc' = [pc EXCEPT ![t] = "idle"],
         position' = Inc(position), arrivals' = Tail(arrivals),
         UNCHANGED <<packed, next, request, snapshot>>
  PROVE  Inv'
  <1>0. t \in Threads /\ t \in Active /\ request[t] = position
    BY DEF Inv, Tickets, Holders, Active
  <1>1. Active' = Active \ {t}
    BY <1>0 DEF Inv, TypeOK, Active
  <1>2. Cardinality(Active') = Cardinality(Active) - 1
    BY <1>0, <1>1, ActiveBound, FS_RemoveElement
  <1>3. next # position
    <2>1. Sub(position, position) < Sub(next, position)
      BY <1>0 DEF Inv, Tickets
    <2> QED
      BY <2>1, SubFacts DEF Inv, TypeOK
  <1>4. position' \in 0 .. Mod - 1 /\ Sub(next', position') = Sub(next, position) - 1
    BY <1>3, SubIncRight DEF Inv, TypeOK
  <1>5. arrivals # <<>>
    <2>1. Len(arrivals) # 0
      BY <1>3, SubFacts DEF Inv, TypeOK, Tickets
    <2> QED
      BY <2>1
  <1>6. TypeOK'
    BY <1>0, <1>4, <1>5 DEF Inv, TypeOK
  <1>7. Cardinality(Active') = Sub(next', position')
    BY <1>2, <1>4 DEF Inv, Tickets
  <1>8. Len(arrivals') = Sub(next', position')
    BY <1>4, <1>5 DEF Inv, Tickets, TypeOK
  <1>9. \A u \in Active' : request[u] # position
    BY <1>0, <1>1 DEF Inv, Tickets
  <1>10. \A u \in Active' : Sub(request'[u], position') < Sub(next', position')
    <2> SUFFICES ASSUME NEW u \in Active'
                 PROVE  Sub(request'[u], position') < Sub(next', position')
      OBVIOUS
    <2>1. u \in Active /\ request[u] \in 0 .. Mod - 1 /\ request'[u] = request[u]
      BY <1>1 DEF Inv, TypeOK, Active
    <2>2. Sub(request[u], position') = Sub(request[u], position) - 1
      BY <1>9, <2>1, SubIncRight DEF Inv, TypeOK
    <2>3. Sub(request[u], position) \in 0 .. Mod - 1 /\ Sub(next, position) \in 0 .. Mod - 1
      BY <2>1, SubFacts DEF Inv, TypeOK
    <2> QED
      BY <2>1, <2>2, <2>3, <1>4 DEF Inv, Tickets
  <1>11. \A u, v \in Active' : request'[u] = request'[v] => u = v
    BY <1>1 DEF Inv, Tickets
  <1>12. \A u \in Threads \ {t} : u \notin Holders
    BY <1>0 DEF Inv, Tickets, Holders, Active
  <1>13. Holders' = {}
    BY <1>12 DEF Inv, TypeOK, Holders
  <1>14. \A u \in Threads : pc'[u] # "unlock"
    BY <1>13 DEF Holders
  <1>15. \A i \in 1 .. Len(arrivals') :
            arrivals'[i] \in Active' /\ Sub(request'[arrivals'[i]], position') = i - 1
    <2> SUFFICES ASSUME NEW i \in 1 .. Len(arrivals')
                 PROVE  arrivals'[i] \in Active' /\ Sub(request'[arrivals'[i]], position') = i - 1
      OBVIOUS
    <2>1. i + 1 \in 1 .. Len(arrivals) /\ arrivals'[i] = arrivals[i + 1]
      BY <1>5 DEF Inv, TypeOK
    <2> DEFINE u == arrivals[i + 1]
    <2>2. u \in Active /\ Sub(request[u], position) = (i + 1) - 1
      BY <2>1 DEF Inv, Tickets
    <2>3. request[u] \in 0 .. Mod - 1 /\ position \in 0 .. Mod - 1
      BY <2>2 DEF Inv, TypeOK, Active
    <2>4. i \in Nat \ {0}
      BY <2>1
    <2>5. request[u] # position
      <3>1. Sub(request[u], position) # 0
        BY <2>2, <2>4
      <3> QED
        BY <3>1, <2>3, SubFacts
    <2>6. u # t
      BY <1>0, <2>5
    <2>7. Sub(request[u], position') = Sub(request[u], position) - 1
      BY <2>3, <2>5, SubIncRight
    <2> HIDE DEF u
    <2> QED
      BY <2>1, <2>2, <2>4, <2>6, <2>7, <1>1 DEF u
  <1> QED
    BY <1>6, <1>7, <1>8, <1>10, <1>11, <1>13, <1>14, <1>15 DEF Inv, Tickets

\* A step that only moves a thread within its call.
LEMMA Advance ==
  ASSUME Inv, NEW t \in Threads, NEW l \in {"idle", "spin", "try", "cs", "unlock"},
         pc' = [pc EXCEPT ![t] = l],
         (t \in Active) <=> (l \in {"spin", "cs", "unlock"}),
         l \in {"cs", "unlock"} => request[t] = position,
         NEW v \in 0 .. Mod - 1, snapshot' = [snapshot EXCEPT ![t] = v],
         l = "unlock" => v = position,
         UNCHANGED <<packed, next, position, request, arrivals>>
  PROVE  Inv'
  <1>1. Active' = Active
    BY DEF Inv, TypeOK, Active
  <1>2. TypeOK'
    BY DEF Inv, TypeOK
  <1>3. \A u \in Holders' : request'[u] = position'
    BY DEF Inv, TypeOK, Tickets, Holders
  <1>4. \A u \in Threads : pc'[u] = "unlock" => snapshot'[u] = position'
    BY DEF Inv, TypeOK, Tickets
  <1> QED
    BY <1>1, <1>2, <1>3, <1>4 DEF Inv, Tickets, Sub

\* Every step preserves the invariant.
LEMMA NextInv == Inv /\ [Next]_vars => Inv'
  <1> SUFFICES ASSUME Inv, [Next]_vars PROVE Inv'
    OBVIOUS
  <1>1. CASE UNCHANGED vars
    BY <1>1 DEF Inv, TypeOK, Tickets, Active, Holders, Sub, vars
  <1>2. ASSUME NEW t \in Threads, Acquire(t) \/ Release(t) PROVE Inv'
    <2>0. snapshot = [snapshot EXCEPT ![t] = snapshot[t]] /\ snapshot[t] \in 0 .. Mod - 1
      BY DEF Inv, TypeOK
    <2>1. CASE Faa(t)
      <3>1. t \notin Active
        BY <2>1 DEF Faa, Goto, Active
      <3> QED
        BY <2>1, <3>1, TakeTicket DEF Faa, Goto
    <2>2. CASE Spin(t)
      <3>1. t \in Active
        BY <2>2 DEF Spin, Goto, Active
      <3> QED
        BY <2>2, <3>1, <2>0, Advance DEF Spin, Goto
    <2>3. CASE TryTaken(t)
      BY <2>3, <1>1 DEF TryTaken
    <2>4. CASE TryLoad(t)
      <3>1. t \notin Active
        BY <2>4 DEF TryLoad, Goto, Active
      <3>2. next \in 0 .. Mod - 1
        BY DEF Inv, TypeOK
      <3> QED
        BY <2>4, <3>1, <3>2, Advance DEF TryLoad, Goto
    <2>5. CASE TryCas(t)
      <3>1. t \notin Active
        BY <2>5 DEF TryCas, Goto, Active
      <3> QED
        BY <2>5, <3>1, TakeTicket DEF TryCas, Goto
    <2>6. CASE TryCasFail(t)
      <3>1. t \notin Active
        BY <2>6 DEF TryCasFail, Goto, Active
      <3> QED
        BY <2>6, <3>1, <2>0, Advance DEF TryCasFail, Goto
    <2>7. CASE UnlockPacked(t)
      <3>1. t \in Holders
        BY <2>7 DEF UnlockPacked, Goto, Holders
      <3> QED
        BY <2>7, <3>1, ServeNext DEF UnlockPacked, Goto
    <2>8. CASE UnlockLoad(t)
      <3>1. t \in Active /\ request[t] = position /\ position \in 0 .. Mod - 1
        BY <2>8 DEF UnlockLoad, Goto, Active, Inv, Tickets, Holders, TypeOK
      <3> QED
        BY <2>8, <3>1, Advance DEF UnlockLoad, Goto
    <2>9. CASE UnlockStore(t)
      <3>1. t \in Holders /\ snapshot[t] = position
        BY <2>9 DEF UnlockStore, Goto, Holders, Inv, Tickets
      <3> QED
        BY <2>9, <3>1, ServeNext DEF UnlockStore, Goto
    <2> QED
      BY <1>2, <2>1, <2>2, <2>3, <2>4, <2>5, <2>6, <2>7, <2>8, <2>9 DEF Acquire, Release
  <1> QED
    BY <1>1, <1>2 DEF Next

\* The counters and the threads' copies of them stay in range.
THEOREM TicketTypeCorrect == Spec => []TypeOK
  BY InitInv, NextInv, PTL DEF Spec, Inv

\* The tickets outstanding are always exactly the interval between the two
\* counters, one for each thread in a call, the holder's first.
THEOREM TicketInterval == Spec => []Tickets
  BY InitInv, NextInv, PTL DEF Spec, Inv

\* Two threads are never both between ck_spinlock_ticket_lock (or a
\* successful trylock) and the end of ck_spinlock_ticket_unlock.
THEOREM TicketMutualExclusion == Spec => []MutualExclusion
  <1>1. Inv => MutualExclusion
    BY DEF Inv, Tickets, MutualExclusion, Holders, Active
  <1> QED
    BY <1>1, InitInv, NextInv, PTL DEF Spec

\* A waiting thread whose ticket has come up is the first of those that have
\* arrived, and nobody holds the lock.
LEMMA HeadIsNext ==
  ASSUME Inv, NEW t \in Threads, pc[t] = "spin", position = request[t]
  PROVE  arrivals # <<>> /\ Head(arrivals) = t /\ Holders = {}
  <1>1. t \in Active
    BY DEF Active
  <1>2. next # position
    <2>1. Sub(position, position) < Sub(next, position)
      BY <1>1 DEF Inv, Tickets
    <2> QED
      BY <2>1, SubFacts DEF Inv, TypeOK
  <1>3. Len(arrivals) # 0 /\ Len(arrivals) \in Nat
    BY <1>2, SubFacts DEF Inv, TypeOK, Tickets
  <1>4. arrivals[1] \in Active /\ Sub(request[arrivals[1]], position) = 1 - 1
    BY <1>3 DEF Inv, Tickets
  <1>5. request[arrivals[1]] = position
    <2>1. request[arrivals[1]] \in 0 .. Mod - 1 /\ position \in 0 .. Mod - 1
      BY <1>4 DEF Inv, TypeOK, Active
    <2>2. Sub(request[arrivals[1]], position) = 0
      BY <1>4
    <2> QED
      BY <2>1, <2>2, SubFacts
  <1>6. arrivals[1] = t
    BY <1>1, <1>4, <1>5 DEF Inv, Tickets
  <1>7. Holders = {}
    BY <1>1 DEF Inv, Tickets, Holders, Active
  <1> QED
    BY <1>3, <1>6, <1>7 DEF Inv, TypeOK

\* The initial ticket lock is the initial queue lock.
LEMMA InitRefines == Init => Fifo!Init
  BY DEF Init, Fifo!Init, Holders

\* A step by which a thread joins the queue without getting the lock.
LEMMA NotQueued ==
  ASSUME Inv, NEW t \in Threads, t \notin Active
  PROVE  \A i \in DOMAIN arrivals : arrivals[i] # t
  BY DEF Inv, TypeOK, Tickets

\* Release takes the holder, the head of the queue, out of it.
LEMMA ReleaseRefines ==
  ASSUME Inv, NEW t \in Holders, pc' = [pc EXCEPT ![t] = "idle"],
         arrivals' = Tail(arrivals)
  PROVE  Fifo!Release
  <1>1. t \in Threads /\ t \in Active /\ request[t] = position
    BY DEF Inv, Tickets, Holders, Active
  <1>2. \A u \in Threads \ {t} : u \notin Holders
    BY <1>1 DEF Inv, Tickets, Holders, Active
  <1>3. Holders' = {}
    BY <1>1, <1>2 DEF Inv, TypeOK, Holders
  <1> QED
    BY <1>3 DEF Fifo!Release

\* Every step of the ticket lock is a step of the queue lock or a stutter.
LEMMA NextRefines == Inv /\ [Next]_vars => [Fifo!Next]_(Fifo!vars)
  <1> SUFFICES ASSUME Inv, [Next]_vars PROVE [Fifo!Next]_(Fifo!vars)
    OBVIOUS
  <1>1. CASE UNCHANGED vars
    BY <1>1 DEF vars, Fifo!vars, Holders
  <1>2. ASSUME NEW t \in Threads, Acquire(t) \/ Release(t)
        PROVE  [Fifo!Next]_(Fifo!vars)
    <2>1. CASE Faa(t)
      <3>1. t \notin Active /\ Holders' = Holders
        BY <2>1 DEF Faa, Goto, Active, Holders, Inv, TypeOK
      <3>2. Fifo!Request(t)
        BY <2>1, <3>1, NotQueued DEF Faa, Fifo!Request
      <3> QED
        BY <3>2 DEF Fifo!Next
    <2>2. CASE Spin(t)
      <3>1. arrivals # <<>> /\ Head(arrivals) = t /\ Holders = {}
        BY <2>2, HeadIsNext DEF Spin, Goto
      <3>2. Holders' = {t}
        BY <2>2, <3>1 DEF Spin, Goto, Holders, Inv, TypeOK
      <3>3. Fifo!Grant
        BY <2>2, <3>1, <3>2 DEF Spin, Fifo!Grant
      <3> QED
        BY <3>3 DEF Fifo!Next
    <2>3. CASE TryTaken(t)
      BY <2>3, <1>1 DEF TryTaken
    <2>4. CASE TryLoad(t)
      <3>1. Holders' = Holders
        BY <2>4 DEF TryLoad, Goto, Holders, Inv, TypeOK
      <3> QED
        BY <2>4, <3>1 DEF TryLoad, Fifo!vars
    <2>5. CASE TryCas(t)
      <3>1. next = position
        BY <2>5 DEF TryCas
      <3>2. Sub(next, position) = 0
        BY <3>1, SubFacts DEF Inv, TypeOK
      <3>3. arrivals = <<>>
        BY <3>2 DEF Inv, Tickets, TypeOK
      <3>4. Active = {}
        BY <3>2, ActiveBound, FS_EmptySet DEF Inv, Tickets
      <3>5. Holders = {}
        BY <3>4 DEF Holders, Active
      <3>6. Holders' = {t}
        BY <2>5, <3>5 DEF TryCas, Goto, Holders, Inv, TypeOK
      <3>7. arrivals' = <<t>>
        BY <2>5, <3>3 DEF TryCas
      <3>8. Fifo!TryGrant(t)
        BY <3>3, <3>5, <3>6, <3>7 DEF Fifo!TryGrant
      <3> QED
        BY <3>8 DEF Fifo!Next
    <2>6. CASE TryCasFail(t)
      <3>1. Holders' = Holders
        BY <2>6 DEF TryCasFail, Goto, Holders, Inv, TypeOK
      <3> QED
        BY <2>6, <3>1 DEF TryCasFail, Fifo!vars
    <2>7. CASE UnlockPacked(t)
      <3>1. t \in Holders
        BY <2>7 DEF UnlockPacked, Goto, Holders
      <3>2. Fifo!Release
        BY <2>7, <3>1, ReleaseRefines DEF UnlockPacked, Goto
      <3> QED
        BY <3>2 DEF Fifo!Next
    <2>8. CASE UnlockLoad(t)
      <3>1. Holders' = Holders
        BY <2>8 DEF UnlockLoad, Goto, Holders, Inv, TypeOK
      <3> QED
        BY <2>8, <3>1 DEF UnlockLoad, Fifo!vars
    <2>9. CASE UnlockStore(t)
      <3>1. t \in Holders
        BY <2>9 DEF UnlockStore, Goto, Holders
      <3>2. Fifo!Release
        BY <2>9, <3>1, ReleaseRefines DEF UnlockStore, Goto
      <3> QED
        BY <3>2 DEF Fifo!Next
    <2> QED
      BY <1>2, <2>1, <2>2, <2>3, <2>4, <2>5, <2>6, <2>7, <2>8, <2>9 DEF Acquire, Release
  <1> QED
    BY <1>1, <1>2 DEF Next

\* The ticket lock implements the abstract first-come first-served lock: the
\* order of the grants is the order of the fetch-and-adds, and a trylock never
\* overtakes anyone, for any number of threads.
THEOREM TicketImplementsFifoLock == Spec => ImplementsFifoLock
  BY InitInv, NextInv, InitRefines, NextRefines, PTL
     DEF Spec, ImplementsFifoLock, Fifo!Spec
=============================================================================
