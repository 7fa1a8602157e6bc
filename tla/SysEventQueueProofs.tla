-------------------------- MODULE SysEventQueueProofs --------------------------
(***************************************************************************)
(* Theorems about SysEventQueue, for every bound on the simulated time and *)
(* on the number of events.                                                *)
(***************************************************************************)
EXTENDS SysEventQueue, FiniteSetTheorems, TLAPS

(***************************************************************************)
(* The lists hold the events that wait, where they belong and in order;    *)
(* the events of a list that were called are those the walk has passed.    *)
(***************************************************************************)
Index(t) == 1 .. Len(event_queue[t])

Future == \A t \in DOMAIN event_queue : t >= now

Sorted ==
    \A t \in DOMAIN event_queue : \A i, j \in Index(t) :
        i < j => event_queue[t][i] < event_queue[t][j]

InPlace ==
    \A t \in DOMAIN event_queue : \A i \in Index(t) :
        event_queue[t][i] \in Event /\ due[event_queue[t][i]] = t

PassedByWalk ==
    \A t \in DOMAIN event_queue : \A i \in Index(t) :
        event_queue[t][i] \in fired <=> (t = now /\ i <= walk)

Listed ==
    \A e \in Event \ fired :
        /\ due[e] \in DOMAIN event_queue
        /\ \E i \in Index(due[e]) : event_queue[due[e]][i] = e

IInv ==
    /\ TypeOK
    /\ OneCallPerList
    /\ Future
    /\ Sorted
    /\ InPlace
    /\ PassedByWalk
    /\ Listed
    /\ walk > 0 => now \in DOMAIN event_queue
    /\ PendingExact

-----------------------------------------------------------------------------
(***************************************************************************)
(* The events that wait are finitely many and at most as many as were      *)
(* registered.                                                             *)
(***************************************************************************)
LEMMA WaitingFinite ==
    ASSUME due \in Seq(Tick)
    PROVE  /\ IsFiniteSet(Event \ fired)
           /\ Cardinality(Event \ fired) \in 0 .. Len(due)
  <1>1. Len(due) \in Nat
    OBVIOUS
  <1>2. IsFiniteSet(Event) /\ Cardinality(Event) = Len(due)
    BY <1>1, FS_Interval DEF Event
  <1>3. IsFiniteSet(Event \ fired) /\ Cardinality(Event \ fired) <= Cardinality(Event)
    BY <1>2, FS_Subset
  <1> QED
    BY <1>1, <1>2, <1>3, FS_CardinalityType

(***************************************************************************)
(* A list, or no list, is a sequence of events.                            *)
(***************************************************************************)
LEMMA ListType ==
    ASSUME TypeOK, NEW t
    PROVE  List(t) \in Seq(1 .. MaxEvents)
  <1>1. CASE t \in DOMAIN event_queue
    BY <1>1 DEF TypeOK, List
  <1>2. CASE t \notin DOMAIN event_queue
    <2>1. <<>> \in Seq(1 .. MaxEvents)
      OBVIOUS
    <2> QED
      BY <1>2, <2>1 DEF List
  <1> QED
    BY <1>1, <1>2

(***************************************************************************)
(* Nothing is registered, listed or scheduled at the start.                *)
(***************************************************************************)
LEMMA InitIInv == Init => IInv
  <1> SUFFICES ASSUME Init PROVE IInv
    OBVIOUS
  <1>1. Event = {} /\ List(now) = <<>>
    BY DEF Init, Event, List
  <1>2. TypeOK
    BY <1>1, BoundAssumption DEF Init, TypeOK, Tick
  <1>3. PendingExact
    BY <1>1, FS_EmptySet DEF Init, PendingExact
  <1> QED
    BY <1>1, <1>2, <1>3
    DEF Init, IInv, OneCallPerList, Future, Sorted, InPlace, PassedByWalk, Listed

(***************************************************************************)
(* try_register_event: the new event has the largest number, so it goes to *)
(* the end of its list in order, and the walk has not passed it.           *)
(***************************************************************************)
LEMMA RegisterKeeps ==
    ASSUME IInv, NEW t \in Tick, try_register_event(t)
    PROVE  IInv'
  <1> DEFINE e == Len(due) + 1
  <1>1. /\ due \in Seq(Tick) /\ Len(due) \in Nat /\ Len(due) < MaxEvents
        /\ due' = Append(due, t) /\ Len(due') = e
        /\ e \in 1 .. MaxEvents
    BY BoundAssumption DEF IInv, TypeOK, try_register_event
  <1>2. /\ Event' = Event \cup {e} /\ e \notin Event
        /\ due'[e] = t
        /\ \A f \in Event : due'[f] = due[f]
    BY <1>1 DEF Event
  <1>3. e \notin fired /\ fired' = fired /\ walk' = walk /\ now' = now
    BY <1>2 DEF IInv, TypeOK, try_register_event
  <1>4. List(t) \in Seq(1 .. MaxEvents)
    BY ListType DEF IInv
  <1>5. /\ DOMAIN event_queue' = DOMAIN event_queue \cup {t}
        /\ event_queue'[t] = Append(List(t), e)
        /\ \A u \in DOMAIN event_queue : u # t => event_queue'[u] = event_queue[u]
    BY DEF try_register_event, PushBack
  <1>6. /\ Len(List(t)) \in Nat
        /\ Len(event_queue'[t]) = Len(List(t)) + 1
        /\ event_queue'[t][Len(List(t)) + 1] = e
        /\ \A i \in 1 .. Len(List(t)) : event_queue'[t][i] = List(t)[i]
    BY <1>4, <1>5
  <1>7. ASSUME NEW i \in 1 .. Len(List(t))
        PROVE  t \in DOMAIN event_queue /\ i \in Index(t) /\ List(t)[i] = event_queue[t][i]
    BY <1>7 DEF List, Index
  <1>8. TypeOK'
    <2>1. Append(List(t), e) \in Seq(1 .. MaxEvents)
      BY <1>1, <1>4
    <2>2. /\ DOMAIN event_queue' \subseteq Tick
          /\ event_queue' \in [DOMAIN event_queue' -> Seq(1 .. MaxEvents)]
      BY <1>5, <2>1 DEF IInv, TypeOK, try_register_event, PushBack
    <2>3. walk' \in 0 .. Len(List(now)')
      <3>1. walk \in 0 .. Len(List(now)) /\ now \in Tick
        BY DEF IInv, TypeOK
      <3>2. CASE now = t
        <4>1. List(now)' = event_queue'[t]
          BY <1>3, <1>5, <3>2 DEF List
        <4> QED
          BY <1>3, <1>6, <3>1, <3>2, <4>1
      <3>3. CASE now # t
        <4>1. List(now)' = List(now)
          BY <1>3, <1>5, <3>3 DEF List
        <4> QED
          BY <1>3, <3>1, <4>1
      <3> QED
        BY <3>2, <3>3
    <2>4. scheduled' \in [Tick -> Nat]
      BY DEF IInv, TypeOK, try_register_event
    <2>5. pending_events' \in 0 .. Len(due')
      BY <1>1 DEF IInv, TypeOK, try_register_event
    <2> QED
      BY <1>1, <1>2, <1>3, <2>2, <2>3, <2>4, <2>5 DEF IInv, TypeOK
  <1>9. OneCallPerList'
    BY <1>3, <1>5 DEF IInv, TypeOK, OneCallPerList, try_register_event, ShouldSchedule
  <1>10. Future'
    BY <1>3, <1>5 DEF IInv, Future, try_register_event
  <1>11. InPlace' /\ PassedByWalk'
    <2> SUFFICES ASSUME NEW u \in DOMAIN event_queue', NEW i \in Index(u)'
                 PROVE  /\ event_queue'[u][i] \in Event'
                        /\ due'[event_queue'[u][i]] = u
                        /\ event_queue'[u][i] \in fired' <=> (u = now' /\ i <= walk')
      BY DEF InPlace, PassedByWalk
    <2>1. CASE u # t
      BY <1>2, <1>3, <1>5, <2>1 DEF IInv, InPlace, PassedByWalk, Index
    <2>2. CASE u = t /\ i <= Len(List(t))
      <3>1. i \in 1 .. Len(List(t))
        BY <1>6, <2>2 DEF Index
      <3> QED
        BY <1>2, <1>3, <1>6, <1>7, <2>2, <3>1 DEF IInv, InPlace, PassedByWalk
    <2>3. CASE u = t /\ i = Len(List(t)) + 1
      <3>1. t = now => walk <= Len(List(t))
        BY DEF IInv, TypeOK
      <3>2. walk \in Nat
        BY DEF IInv, TypeOK
      <3> QED
        BY <1>2, <1>3, <1>6, <2>3, <3>1, <3>2
    <2> QED
      BY <1>6, <2>1, <2>2, <2>3 DEF Index
  <1>12. Sorted'
    <2> SUFFICES ASSUME NEW u \in DOMAIN event_queue',
                        NEW i \in Index(u)', NEW j \in Index(u)', i < j
                 PROVE  event_queue'[u][i] < event_queue'[u][j]
      BY DEF Sorted
    <2>1. CASE u # t
      BY <1>5, <2>1 DEF IInv, Sorted, Index
    <2>2. CASE u = t /\ j <= Len(List(t))
      <3>1. i \in 1 .. Len(List(t)) /\ j \in 1 .. Len(List(t))
        BY <1>6, <2>2 DEF Index
      <3> QED
        BY <1>6, <1>7, <2>2, <3>1 DEF IInv, Sorted
    <2>3. CASE u = t /\ j = Len(List(t)) + 1
      <3>1. i \in 1 .. Len(List(t))
        BY <1>6, <2>3 DEF Index
      <3>2. event_queue'[u][i] \in Event
        BY <1>6, <1>7, <2>3, <3>1 DEF IInv, InPlace
      <3> QED
        BY <1>1, <1>6, <2>3, <3>2 DEF Event
    <2> QED
      BY <1>6, <2>1, <2>2, <2>3 DEF Index
  <1>13. Listed'
    <2> SUFFICES ASSUME NEW f \in Event' \ fired'
                 PROVE  /\ due'[f] \in DOMAIN event_queue'
                        /\ \E i \in Index(due[f])' : event_queue'[due'[f]][i] = f
      BY DEF Listed
    <2>1. CASE f = e
      BY <1>2, <1>5, <1>6, <2>1 DEF Index
    <2>2. CASE f # e
      <3>1. f \in Event \ fired /\ due'[f] = due[f]
        BY <1>2, <1>3, <2>2
      <3>2. PICK i \in Index(due[f]) :
                due[f] \in DOMAIN event_queue /\ event_queue[due[f]][i] = f
        BY <3>1 DEF IInv, Listed
      <3>3. CASE due[f] # t
        BY <1>5, <3>1, <3>2, <3>3 DEF Index
      <3>4. CASE due[f] = t
        <4>1. List(t) = event_queue[t]
          BY <3>2, <3>4 DEF List
        <4> QED
          BY <1>5, <1>6, <3>1, <3>2, <3>4, <4>1 DEF Index
      <3> QED
        BY <3>3, <3>4
    <2> QED
      BY <2>1, <2>2
  <1>14. PendingExact'
    <2>1. Event' \ fired' = (Event \ fired) \cup {e} /\ e \notin Event \ fired
      BY <1>2, <1>3
    <2>2. Cardinality(Event' \ fired') = Cardinality(Event \ fired) + 1
      BY <1>1, <2>1, WaitingFinite, FS_AddElement
    <2> QED
      BY <2>2 DEF IInv, PendingExact, try_register_event
  <1>15. walk' > 0 => now' \in DOMAIN event_queue'
    BY <1>3, <1>5 DEF IInv
  <1> QED
    BY <1>8, <1>9, <1>10, <1>11, <1>12, <1>13, <1>14, <1>15 DEF IInv

(***************************************************************************)
(* The loop of call_events at position k, the first the walk has not       *)
(* passed, in a list whose CallEvents is gone: the event found there       *)
(* waits, is due now and is the oldest such event.                         *)
(***************************************************************************)
LEMMA FoundIsNext ==
    ASSUME IInv, NEW k, k = walk + 1, k <= Len(List(now))
    PROVE  /\ now \in DOMAIN event_queue /\ List(now) = event_queue[now]
           /\ k \in Index(now)
           /\ event_queue[now][k] \in Event \ fired
           /\ due[event_queue[now][k]] = now
           /\ \A f \in Event \ fired : due[f] = now => event_queue[now][k] <= f
  <1>1. walk \in Nat /\ Len(List(now)) \in Nat /\ due \in Seq(Tick)
    BY ListType DEF IInv, TypeOK
  <1>2. now \in DOMAIN event_queue /\ List(now) = event_queue[now]
    BY <1>1 DEF List
  <1>3. k \in Index(now) /\ ~(k <= walk)
    BY <1>1, <1>2 DEF Index
  <1>4. event_queue[now][k] \in Event \ fired /\ due[event_queue[now][k]] = now
    BY <1>2, <1>3 DEF IInv, InPlace, PassedByWalk
  <1>5. ASSUME NEW f \in Event \ fired, due[f] = now
        PROVE  event_queue[now][k] <= f
    <2>1. PICK i \in Index(now) : event_queue[now][i] = f
      BY <1>5 DEF IInv, Listed
    <2>2. ~(i <= walk)
      BY <1>2, <1>5, <2>1 DEF IInv, PassedByWalk
    <2>3. i = k \/ k < i
      BY <1>1, <2>1, <2>2 DEF Index
    <2>4. f \in Nat /\ event_queue[now][k] \in Nat
      BY <1>1, <1>4, <1>5 DEF Event
    <2> QED
      BY <1>2, <1>3, <2>1, <2>3, <2>4 DEF IInv, Sorted
  <1> QED
    BY <1>2, <1>3, <1>4, <1>5

(***************************************************************************)
(* What ArriveAt needs of its caller to keep the invariant: it continues   *)
(* the walk, and the CallEvents of now is used up.                         *)
(***************************************************************************)
LEMMA ArriveKeeps ==
    ASSUME IInv, ArriveAt(walk + 1),
           now' = now, due' = due,
           walk = 0 => now \in DOMAIN event_queue,
           scheduled' \in [Tick -> Nat],
           scheduled'[now] = 0,
           \A t \in Tick : t # now => scheduled'[t] = scheduled[t]
    PROVE  IInv'
  <1>1. /\ now \in DOMAIN event_queue /\ now \in Tick
        /\ walk \in Nat /\ due \in Seq(Tick)
        /\ Event' = Event
    BY ListType DEF IInv, TypeOK, Event
  <1>2. List(now) = event_queue[now] /\ Len(event_queue[now]) \in Nat
    BY <1>1, ListType DEF List, IInv
  <1>3. CASE walk + 1 <= Len(List(now))
    <2> DEFINE e == event_queue[now][walk + 1]
    <2>1. /\ walk' = walk + 1 /\ event_queue' = event_queue
          /\ fired' = fired \cup {e}
          /\ pending_events' = pending_events - 1
      BY <1>1, <1>2, <1>3 DEF ArriveAt
    <2>2. e \in Event \ fired /\ walk + 1 \in Index(now)
      BY <1>3, FoundIsNext
    <2>3. PendingExact' /\ pending_events' \in 0 .. Len(due)
      <3>1. (Event \ fired)' = (Event \ fired) \ {e}
        BY <1>1, <2>1
      <3>2. /\ IsFiniteSet(Event \ fired)
            /\ Cardinality(Event \ fired) \in 0 .. Len(due)
        BY <1>1, WaitingFinite
      <3>3. Cardinality((Event \ fired) \ {e}) = Cardinality(Event \ fired) - 1
        BY <2>2, <3>2, FS_RemoveElement
      <3>4. PendingExact'
        BY <2>1, <3>1, <3>3 DEF IInv, PendingExact
      <3>5. IsFiniteSet((Event \ fired) \ {e}) /\ Len(due) \in Nat
        <4>1. (Event \ fired) \ {e} \subseteq Event \ fired
          OBVIOUS
        <4> QED
          BY <1>1, <3>2, <4>1, FS_Subset
      <3>6. Cardinality((Event \ fired) \ {e}) \in Nat
        BY <3>5, FS_CardinalityType
      <3> QED
        <4>1. pending_events = Cardinality(Event \ fired)
          BY DEF IInv, PendingExact
        <4> QED
          BY <2>1, <3>2, <3>3, <3>4, <3>5, <3>6, <4>1
    <2>4. TypeOK'
      <3>1. List(now)' = event_queue[now]
        BY <1>1, <2>1 DEF List
      <3>2. walk' \in 0 .. Len(List(now)')
        BY <1>1, <1>2, <1>3, <2>1, <3>1
      <3>3. fired' \subseteq Event'
        BY <1>1, <2>1, <2>2 DEF IInv, TypeOK
      <3> QED
        BY <2>1, <2>3, <3>2, <3>3 DEF IInv, TypeOK
    <2>5. OneCallPerList'
      BY <1>1, <2>1 DEF IInv, OneCallPerList
    <2>6. PassedByWalk'
      <3> SUFFICES ASSUME NEW u \in DOMAIN event_queue, NEW i \in Index(u)
                   PROVE  event_queue[u][i] \in fired'
                              <=> (u = now /\ i <= walk + 1)
        BY <2>1 DEF PassedByWalk, Index
      <3>1. event_queue[u][i] \in fired <=> (u = now /\ i <= walk)
        BY DEF IInv, PassedByWalk
      <3>2. u # now => event_queue[u][i] # e
        BY <1>1, <2>2 DEF IInv, InPlace
      <3>3. u = now /\ i # walk + 1 => event_queue[u][i] # e
        <4> SUFFICES ASSUME u = now, i # walk + 1 PROVE event_queue[u][i] # e
          OBVIOUS
        <4>1. i < walk + 1 \/ walk + 1 < i
          BY <1>1 DEF Index
        <4>2. event_queue[u][i] \in Nat /\ e \in Nat
          BY <1>1, <2>2 DEF IInv, InPlace, Event
        <4>3. event_queue[u][i] < e \/ e < event_queue[u][i]
          BY <1>1, <2>2, <4>1 DEF IInv, Sorted
        <4> QED
          BY <4>2, <4>3
      <3> QED
        BY <1>1, <2>1, <3>1, <3>2, <3>3 DEF Index
    <2>7. Future' /\ Sorted' /\ InPlace' /\ Listed'
      BY <1>1, <2>1 DEF IInv, Future, Sorted, InPlace, Listed, Index
    <2> QED
      BY <1>1, <2>1, <2>3, <2>4, <2>5, <2>6, <2>7 DEF IInv
  <1>4. CASE walk + 1 > Len(List(now))
    <2>1. /\ walk' = 0 /\ fired' = fired /\ pending_events' = pending_events
          /\ event_queue' = [u \in DOMAIN event_queue \ {now} |-> event_queue[u]]
      BY <1>1, <1>2, <1>4 DEF ArriveAt
    <2>2. /\ DOMAIN event_queue' = DOMAIN event_queue \ {now}
          /\ \A u \in DOMAIN event_queue' : event_queue'[u] = event_queue[u]
      BY <2>1
    <2>3. TypeOK'
      <3>1. List(now)' = <<>>
        BY <2>2 DEF List
      <3>2. walk' \in 0 .. Len(List(now)')
        BY <2>1, <3>1
      <3> QED
        BY <1>1, <2>1, <2>2, <3>2 DEF IInv, TypeOK
    <2>4. OneCallPerList'
      BY <1>1, <2>1, <2>2 DEF IInv, OneCallPerList
    <2>5. Listed'
      <3> SUFFICES ASSUME NEW f \in Event \ fired
                   PROVE  /\ due[f] \in DOMAIN event_queue'
                          /\ \E i \in Index(due[f])' : event_queue'[due[f]][i] = f
        BY <1>1, <2>1 DEF Listed
      <3>1. PICK i \in Index(due[f]) :
                due[f] \in DOMAIN event_queue /\ event_queue[due[f]][i] = f
        BY DEF IInv, Listed
      <3>2. due[f] # now
        <4> SUFFICES ASSUME due[f] = now PROVE FALSE
          OBVIOUS
        <4>1. i <= walk
          BY <1>1, <1>2, <1>4, <3>1 DEF Index
        <4> QED
          BY <1>1, <3>1, <4>1 DEF IInv, PassedByWalk
      <3> QED
        BY <2>2, <3>1, <3>2 DEF Index
    <2>6. PassedByWalk'
      <3> SUFFICES ASSUME NEW u \in DOMAIN event_queue \ {now}, NEW i \in Index(u)
                   PROVE  event_queue[u][i] \notin fired
        BY <2>1, <2>2 DEF PassedByWalk, Index
      <3> QED
        BY DEF IInv, PassedByWalk
    <2>7. Future' /\ Sorted' /\ InPlace'
      BY <1>1, <2>2 DEF IInv, Future, Sorted, InPlace, Index
    <2>8. PendingExact'
      BY <1>1, <2>1 DEF IInv, PendingExact
    <2> QED
      BY <2>1, <2>3, <2>4, <2>5, <2>6, <2>7, <2>8 DEF IInv
  <1> QED
    BY <1>1, <1>2, <1>3, <1>4

(***************************************************************************)
(* Every step of the specification keeps the invariant.                    *)
(***************************************************************************)
LEMMA NextIInv == IInv /\ [Next]_vars => IInv'
  <1> SUFFICES ASSUME IInv, [Next]_vars PROVE IInv'
    OBVIOUS
  <1>1. /\ now \in Tick /\ walk \in Nat /\ MaxTick \in Nat
        /\ scheduled \in [Tick -> Nat]
    BY ListType, BoundAssumption DEF IInv, TypeOK
  <1>2. ASSUME NEW t \in Tick, try_register_event(t) PROVE IInv'
    BY <1>2, RegisterKeeps
  <1>3. CASE call_events
    <2>1. now \in DOMAIN event_queue /\ scheduled[now] = 1 /\ walk = 0
      BY <1>1, <1>3 DEF IInv, OneCallPerList, call_events
    <2>2. /\ scheduled' \in [Tick -> Nat] /\ scheduled'[now] = 0
          /\ \A t \in Tick : t # now => scheduled'[t] = scheduled[t]
      BY <1>1, <1>3, <2>1 DEF call_events
    <2>3. ArriveAt(walk + 1) /\ now' = now /\ due' = due
      BY <1>3, <2>1 DEF call_events
    <2> QED
      BY <2>1, <2>2, <2>3, ArriveKeeps
  <1>4. CASE handler_returns
    <2>1. scheduled[now] = 0 /\ walk # 0
      BY <1>1, <1>4 DEF IInv, OneCallPerList, handler_returns
    <2>2. scheduled' = scheduled /\ ArriveAt(walk + 1) /\ now' = now /\ due' = due
      BY <1>4 DEF handler_returns
    <2> QED
      BY <1>1, <2>1, <2>2, ArriveKeeps
  <1>5. CASE proceed
    <2>1. now \notin DOMAIN event_queue /\ walk = 0
      BY <1>1, <1>5 DEF IInv, OneCallPerList, proceed
    <2>2. /\ now' = now + 1 /\ now' \in Tick
          /\ UNCHANGED <<event_queue, scheduled, walk, pending_events, due, fired>>
      BY <1>1, <1>5 DEF proceed, Tick
    <2>3. \A t \in DOMAIN event_queue : t \in Tick /\ t >= now'
      BY <1>1, <2>1, <2>2 DEF IInv, TypeOK, Future, Tick
    <2>4. TypeOK'
      <3>1. List(now)' \in Seq(1 .. MaxEvents)
        <4>1. List(now') \in Seq(1 .. MaxEvents)
          BY ListType DEF IInv
        <4> QED
          BY <2>2, <4>1 DEF List
      <3>2. walk' \in 0 .. Len(List(now)')
        BY <2>1, <2>2, <3>1
      <3> QED
        BY <2>2, <3>2 DEF IInv, TypeOK, Event
    <2>5. OneCallPerList'
      BY <2>1, <2>2 DEF IInv, OneCallPerList
    <2>6. PassedByWalk'
      BY <1>1, <2>1, <2>2 DEF IInv, PassedByWalk, Index
    <2>7. Future' /\ Sorted' /\ InPlace' /\ Listed' /\ PendingExact'
      BY <2>2, <2>3
      DEF IInv, Future, Sorted, InPlace, Listed, PendingExact, Index, Event
    <2> QED
      BY <2>1, <2>2, <2>4, <2>5, <2>6, <2>7 DEF IInv
  <1>6. CASE UNCHANGED vars
    BY <1>6
    DEF vars, IInv, TypeOK, OneCallPerList, Future, Sorted, InPlace, PassedByWalk,
        Listed, PendingExact, Index, Event, List
  <1> QED
    BY <1>2, <1>3, <1>4, <1>5, <1>6 DEF Next

-----------------------------------------------------------------------------
\* The inductive invariant holds in every reachable state of the event queue.
THEOREM Invariance == Spec => []IInv
  BY InitIInv, NextIInv, PTL DEF Spec

\* The state of the event queue keeps its types; the unsigned pending_events
\* never wraps.
THEOREM TypeCorrect == Spec => []TypeOK
  <1>1. IInv => TypeOK
    BY DEF IInv
  <1> QED
    BY <1>1, Invariance, PTL

\* Every list has exactly one CallEvents to come or is being walked by it.
THEOREM ListsAreCalledOnce == Spec => []OneCallPerList
  <1>1. IInv => OneCallPerList
    BY DEF IInv
  <1> QED
    BY <1>1, Invariance, PTL

\* pending_events is the number of events registered and not yet called.
THEOREM PendingIsExact == Spec => []PendingExact
  <1>1. IInv => PendingExact
    BY DEF IInv
  <1> QED
    BY <1>1, Invariance, PTL

(***************************************************************************)
(* A step of the queue is a step of TimedEvents or leaves its variables    *)
(* alone.                                                                  *)
(***************************************************************************)
LEMMA StepRefines ==
    IInv /\ [Next]_vars => [Timed!TNext]_<<now, due, fired>>
  <1> SUFFICES ASSUME IInv, [Next]_vars
               PROVE  Timed!TNext \/ UNCHANGED <<now, due, fired>>
    OBVIOUS
  <1>1. /\ now \in Tick /\ walk \in Nat /\ due \in Seq(Tick)
        /\ MaxTick \in Nat /\ DOMAIN due = Event
    BY ListType, BoundAssumption DEF IInv, TypeOK, Event
  <1>2. ASSUME NEW t \in Tick, try_register_event(t) PROVE Timed!TNext
    BY <1>2 DEF try_register_event, Timed!TNext, Timed!Register, Timed!Tick, Tick
  <1>3. ASSUME ArriveAt(walk + 1), now' = now, due' = due
        PROVE  Timed!TNext \/ UNCHANGED <<now, due, fired>>
    <2>1. CASE walk + 1 <= Len(List(now))
      <3> DEFINE e == event_queue[now][walk + 1]
      <3>1. /\ List(now) = event_queue[now]
            /\ e \in Event \ fired /\ due[e] = now
            /\ \A f \in Event \ fired : due[f] = now => e <= f
        BY <2>1, FoundIsNext
      <3>2. fired' = fired \cup {e}
        BY <1>1, <1>3, <2>1, <3>1, ListType DEF ArriveAt, IInv
      <3>3. Timed!Fire(e)
        BY <1>1, <1>3, <3>1, <3>2 DEF Timed!Fire, Timed!Waiting
      <3> QED
        BY <1>1, <3>1, <3>3 DEF Timed!TNext
    <2>2. CASE ~(walk + 1 <= Len(List(now)))
      BY <1>3, <2>2 DEF ArriveAt
    <2> QED
      BY <2>1, <2>2
  <1>4. CASE call_events
    BY <1>3, <1>4 DEF call_events
  <1>5. CASE handler_returns
    BY <1>3, <1>5 DEF handler_returns
  <1>6. CASE proceed
    <2>1. now \notin DOMAIN event_queue
      BY <1>1, <1>6 DEF IInv, OneCallPerList, proceed
    <2>2. Timed!Waiting(now) = {}
      BY <1>1, <2>1 DEF IInv, Listed, Timed!Waiting
    <2>3. now' = now + 1 /\ now' \in 0 .. MaxTick /\ UNCHANGED <<due, fired>>
      BY <1>1, <1>6 DEF proceed, Tick
    <2> QED
      BY <2>2, <2>3 DEF Timed!TNext, Timed!Pass, Timed!Tick
  <1>7. CASE UNCHANGED vars
    BY <1>7 DEF vars
  <1> QED
    BY <1>2, <1>4, <1>5, <1>6, <1>7 DEF Next

\* The event queue implements TimedEvents: register_event, call_events and the
\* one CallEvents per tick call every event once, on time and in order.
THEOREM Refinement == Spec => ImplementsTimedEvents
  <1>1. Init => Timed!TInit
    BY DEF Init, Timed!TInit
  <1> QED
    BY <1>1, StepRefines, Invariance, PTL
    DEF Spec, ImplementsTimedEvents, Timed!TSpec
=============================================================================
