---------------------------- MODULE StreamScheduler ----------------------------
(***************************************************************************)
(* The system layer of all ranks: how a collective is cut into streams     *)
(* (one per chunk), which phases and queues a stream goes through, and     *)
(* when the scheduler of a rank lets a stream start a phase.               *)
(*                                                                         *)
(* A rank makes these decisions alone.  A phase, though, is a collective   *)
(* algorithm among the ranks of one dimension, so it ends at a rank only   *)
(* when every rank of its group has started that phase of that stream.     *)
(* Ranks that start streams in different orders can wait for each other    *)
(* for ever.                                                               *)
(*                                                                         *)
(* Left out: sizes and simulated time (a phase that may end does so at any *)
(* time), the algorithm inside a phase, statistics, and the EXPLICIT       *)
(* policy, under which nodes bring their priorities along.  The limits     *)
(* max_running and active_first_phase are 100000000 in the code, so the    *)
(* ready list is drained by the call that fills it.                        *)
(***************************************************************************)
EXTENDS Integers, Sequences, FiniteSets, FiniteSetsExt

CONSTANTS
    Dims,         \* physical_dims: the size of each dimension
    QueuesPerDim, \* queues of each dimension
    ActiveChunks, \* active-chunks-per-dimension
    Splits,       \* preferred-dataset-splits: streams of a collective
    Collectives,  \* what every rank issues: its collectives, one at a time
    Lifo,         \* scheduling-policy LIFO instead of FIFO
    Baseline      \* collective-optimization "baseline"

Dim == 1 .. Len(Dims)
Queue == 0 .. QueuesPerDim * Len(Dims) - 1
ComType == {"All_Reduce", "All_Gather", "Reduce_Scatter", "All_to_All"}

ASSUME ConfigAssumption ==
    /\ Dims \in Seq(Nat \ {0}) /\ Dims # <<>>
    /\ QueuesPerDim \in Nat \ {0}
    /\ ActiveChunks \in Nat \ {0}
    /\ Splits \in Nat \ {0}
    /\ Collectives \in Seq([type : ComType, involved : SUBSET Dim])
    /\ Lifo \in BOOLEAN /\ Baseline \in BOOLEAN

(***************************************************************************)
(* A rank is its coordinate in each dimension.  The ranks that differ from *)
(* it in dimension d only are its group there.                             *)
(***************************************************************************)
Rank ==
    {r \in [Dim -> 0 .. Max({Dims[d] : d \in Dim}) - 1] :
        \A d \in Dim : r[d] < Dims[d]}

Group(r, d) == {p \in Rank : \A e \in Dim \ {d} : p[e] = r[e]}

(***************************************************************************)
(* Streams are numbered by num_streams++, in the order of generation.      *)
(***************************************************************************)
Stream == 1 .. Splits * Len(Collectives)

CollectiveOf(s) == ((s - 1) \div Splits) + 1

\* get_priority: priority_counter counts up (LIFO) or down (FIFO).
Priority(s) == IF Lifo THEN CollectiveOf(s) ELSE -CollectiveOf(s)

\* concurrent_streams, the scheduler's queue_threshold.
QueueThreshold == (ActiveChunks + QueuesPerDim - 1) \div QueuesPerDim

VARIABLE
    sys  \* the state of the Sys object of each rank

vars == <<sys>>

(***************************************************************************)
(* Sys, with its SchedulerUnit, QueueLevels, the DataSet of its current    *)
(* collective, and its StreamBaselines.  step is the phase a stream is in  *)
(* (0 before the first), plan the phases it goes through; initialized are  *)
(* the streams that have started their phase.                              *)
(***************************************************************************)
SysInit ==
    [ issued           |-> 0,
      completed        |-> 0,
      finished_streams |-> 0,
      active_Streams   |-> [q \in Queue |-> <<>>],
      running_streams  |-> [q \in Queue |-> 0],
      first_phase_streams   |-> 0,
      total_running_streams |-> 0,
      allocator        |-> [d \in Dim |-> 0],
      first_allocator  |-> [d \in Dim |-> 0],
      last_allocator   |-> [d \in Dim |-> QueuesPerDim \div 2],
      plan             |-> [s \in Stream |-> <<>>],
      step             |-> [s \in Stream |-> 0],
      initialized      |-> {} ]

Init == sys = [r \in Rank |-> SysInit]

-----------------------------------------------------------------------------
(***************************************************************************)
(* An operator named ..._Mut... is the operator it precedes with a         *)
(* plausible slip in it; no specification uses it.                         *)
(***************************************************************************)

(***************************************************************************)
(* QueueLevelHandler: the next value of an allocator that runs over        *)
(* lo .. hi - 1 and wraps round.  With one queue, size()/2 is 0 and the    *)
(* first allocator wraps at once.                                          *)
(***************************************************************************)
NextAllocator(a, lo, hi) == IF a + 1 >= hi THEN lo ELSE a + 1

\* The three ways to take a queue of dimension d: <<queue, sys afterwards>>.
QueueId(d, a) == (d - 1) * QueuesPerDim + a

get_next_queue_id(y, d) ==
    << QueueId(d, y.allocator[d]),
       [y EXCEPT !.allocator[d] = NextAllocator(@, 0, QueuesPerDim)] >>

get_next_queue_id_first_MutAllQueues(y, d) ==
    << QueueId(d, y.first_allocator[d]),
       [y EXCEPT !.first_allocator[d] = NextAllocator(@, 0, QueuesPerDim)] >>

get_next_queue_id_first(y, d) ==
    << QueueId(d, y.first_allocator[d]),
       [y EXCEPT !.first_allocator[d] =
            NextAllocator(@, 0, QueuesPerDim \div 2)] >>

get_next_queue_id_last(y, d) ==
    << QueueId(d, y.last_allocator[d]),
       [y EXCEPT !.last_allocator[d] =
            NextAllocator(@, QueuesPerDim \div 2, QueuesPerDim)] >>

(***************************************************************************)
(* The phases generate_collective lays out for one stream: a sequence of   *)
(* [dim, half], half saying which allocator chooses the queue.  Dimensions *)
(* of size 1 and dimensions not involved are passed over.                  *)
(***************************************************************************)
ActiveDims(coll) == {d \in coll.involved : Dims[d] # 1}

\* The loops over the dimensions, up and down.
Ascending(D) ==
    LET upTo[n \in 0 .. Len(Dims)] ==
            IF n = 0 THEN <<>>
            ELSE IF n \in D THEN Append(upTo[n - 1], n) ELSE upTo[n - 1]
    IN  upTo[Len(Dims)]

Descending(D) ==
    LET downFrom[n \in 0 .. Len(Dims)] ==
            IF n = 0 THEN <<>>
            ELSE IF n \in D THEN <<n>> \o downFrom[n - 1] ELSE downFrom[n - 1]
    IN  downFrom[Len(Dims)]

Phases(dims, half) == [i \in 1 .. Len(dims) |-> [dim |-> dims[i], half |-> half]]

Layout_MutNoTurningPoint(coll) ==
    LET rest == {d \in ActiveDims(coll) : \E e \in ActiveDims(coll) : e > d}
    IN  Phases(Ascending(rest), "first") \o Phases(Descending(rest), "last")

Layout(coll) ==
    LET D == ActiveDims(coll)
        rest == {d \in D : \E e \in D : e > d}
    IN  IF coll.type = "All_Gather" THEN Phases(Descending(D), "all")
        ELSE IF coll.type # "All_Reduce" \/ Baseline
             THEN Phases(Ascending(D), "all")
        ELSE Phases(Ascending(D), "first") \o Phases(Descending(rest), "last")

TakeQueue(y, phase) ==
    CASE phase.half = "all"   -> get_next_queue_id(y, phase.dim)
      [] phase.half = "first" -> get_next_queue_id_first(y, phase.dim)
      [] phase.half = "last"  -> get_next_queue_id_last(y, phase.dim)

\* Stream s gets its queues: the allocators advance phase by phase.
MakePlan(y, s, layout) ==
    LET made[i \in 0 .. Len(layout)] ==
            IF i = 0 THEN y
            ELSE LET t == TakeQueue(made[i - 1], layout[i])
                 IN  [t[2] EXCEPT !.plan[s] =
                         Append(@, [dim |-> layout[i].dim, queue |-> t[1]])]
    IN  made[Len(layout)]

-----------------------------------------------------------------------------
(***************************************************************************)
(* insert_stream, FIFO inside a dimension: behind the initialized streams  *)
(* and behind those of the same or a higher priority.                      *)
(***************************************************************************)
insert_stream(y, q, s) ==
    LET list == y.active_Streams[q]
        Skip(t) == t \in y.initialized \/ Priority(t) >= Priority(s)
        Stops == {i \in 1 .. Len(list) : ~Skip(list[i])}
        at == IF Stops = {} THEN Len(list) + 1
              ELSE Min(Stops)
    IN  [y EXCEPT !.active_Streams[q] =
            SubSeq(list, 1, at - 1) \o <<s>> \o SubSeq(list, at, Len(list))]

erase_stream(y, q, s) ==
    LET list == y.active_Streams[q]
        at == CHOOSE i \in 1 .. Len(list) : list[i] = s
    IN  [y EXCEPT !.active_Streams[q] =
            SubSeq(list, 1, at - 1) \o SubSeq(list, at + 1, Len(list))]

(***************************************************************************)
(* The loop that ends notify_stream_added and notify_stream_removed: from  *)
(* the position running_streams on, streams are started until the queue    *)
(* has queue_threshold of them or no more.                                 *)
(***************************************************************************)
InitLoop(y, q) ==
    LET list == y.active_Streams[q]
        from == y.running_streams[q]
        limit == IF Len(list) < QueueThreshold THEN Len(list) ELSE QueueThreshold
        to == IF limit > from THEN limit ELSE from
    IN  [y EXCEPT
            !.running_streams[q] = to,
            !.initialized = @ \cup {list[i] : i \in from + 1 .. to}]

notify_stream_added(y, q) == InitLoop(y, q)

notify_stream_removed(y, q) ==
    InitLoop([y EXCEPT !.running_streams[q] = @ - 1], q)

(***************************************************************************)
(* proceed_to_next_vnet_baseline for a stream with a phase to go: it       *)
(* enters the queue of that phase.                                         *)
(***************************************************************************)
EnterPhase_MutNoReset(y, s) ==
    insert_stream([y EXCEPT !.step[s] = @ + 1],
                  y.plan[s][y.step[s] + 1].queue, s)

EnterPhase(y, s) ==
    LET q == y.plan[s][y.step[s] + 1].queue
        moved == [y EXCEPT !.step[s] = @ + 1, !.initialized = @ \ {s}]
    IN  insert_stream(moved, q, s)

\* insert_into_ready_list and schedule, for a new stream.
ScheduleNew(y, s) ==
    LET z == EnterPhase(y, s)
        added == notify_stream_added(z, z.plan[s][1].queue)
    IN  [added EXCEPT !.first_phase_streams = @ + 1,
                      !.total_running_streams = @ + 1]

(***************************************************************************)
(* generate_collective for the next collective of a rank.  Without an      *)
(* active dimension there is no stream, and the DataSet stays inactive.    *)
(***************************************************************************)
generate_collective(y) ==
    LET c == y.issued + 1
        layout == Layout(Collectives[c])
        start == [y EXCEPT !.issued = c, !.finished_streams = 0]
        gen[i \in 0 .. Splits] ==
            IF i = 0 THEN start
            ELSE LET s == (c - 1) * Splits + i
                 IN  ScheduleNew(MakePlan(gen[i - 1], s, layout), s)
    IN  IF layout = <<>> THEN start ELSE gen[Splits]

(***************************************************************************)
(* DataSet::notify_stream_finished.  The last stream of a collective       *)
(* notifies the workload, which may issue its next collective before the   *)
(* call returns.                                                           *)
(***************************************************************************)
notify_stream_finished_MutOffByOne(y, at_once) ==
    IF y.finished_streams = Splits
    THEN [y EXCEPT !.completed = @ + 1]
    ELSE [y EXCEPT !.finished_streams = @ + 1]

notify_stream_finished(y, at_once) ==
    LET z == [y EXCEPT !.finished_streams = @ + 1]
    IN  IF z.finished_streams # Splits THEN z
        ELSE LET n == [z EXCEPT !.completed = @ + 1]
             IN  IF at_once /\ n.issued < Len(Collectives)
                 THEN generate_collective(n) ELSE n

(***************************************************************************)
(* proceed_to_next_vnet_baseline for stream s, whose phase has ended.  A   *)
(* finished stream notifies its DataSet while it is still in its queue and *)
(* still counted as running.                                               *)
(***************************************************************************)
LastPhase(y, s) == y.step[s] = Len(y.plan[s])

EndsFirstPhase(y, s) == y.step[s] = 1

proceed_to_next_vnet(y, s, at_once) ==
    LET q == y.plan[s][y.step[s]].queue
        y1 == [y EXCEPT !.first_phase_streams =
                  IF EndsFirstPhase(y, s) THEN @ - 1 ELSE @]
    IN  IF LastPhase(y, s)
        THEN LET y2 == erase_stream(notify_stream_finished(y1, at_once), q, s)
                 y3 == [y2 EXCEPT !.total_running_streams = @ - 1,
                                  !.step[s] = @ + 1]
             IN  notify_stream_removed(y3, q)
        ELSE LET y2 == EnterPhase(erase_stream(y1, q, s), s)
             IN  notify_stream_added(notify_stream_removed(y2, q),
                                     y2.plan[s][y2.step[s]].queue)

-----------------------------------------------------------------------------
(***************************************************************************)
(* A rank issues its next collective when it has none: HardwareResource    *)
(* lets one communication node run at a time.                              *)
(***************************************************************************)
CanIssue(r) ==
    /\ sys[r].issued = sys[r].completed
    /\ sys[r].issued < Len(Collectives)

issue_collective(r) ==
    /\ CanIssue(r)
    /\ sys' = [sys EXCEPT ![r] = generate_collective(@)]

\* Has rank p started phase k of stream s (and perhaps gone on)?
Started(p, s, k) ==
    \/ sys[p].step[s] > k
    \/ sys[p].step[s] = k /\ s \in sys[p].initialized

CanEnd(r, s) ==
    LET k == sys[r].step[s] IN
    /\ k \in 1 .. Len(sys[r].plan[s])
    /\ \A p \in Group(r, sys[r].plan[s][k].dim) : Started(p, s, k)

\* The phase of stream s ends at rank r.
phase_ends(r, s) ==
    /\ CanEnd(r, s)
    /\ \E at_once \in BOOLEAN :
           sys' = [sys EXCEPT ![r] = proceed_to_next_vnet(@, s, at_once)]

Next == \E r \in Rank : issue_collective(r) \/ \E s \in Stream : phase_ends(r, s)

(***************************************************************************)
(* Ranks issue what their trace holds, and the messages of a phase that    *)
(* all ranks of its group have started arrive: while there is something to *)
(* do, something is done.  Fairness is WF_vars(Next) with ENABLED spelled  *)
(* out as the guards (each action changes sys), which TLC evaluates        *)
(* faster.                                                                 *)
(***************************************************************************)
CanMove == \E r \in Rank : CanIssue(r) \/ \E s \in Stream : CanEnd(r, s)

Fairness == []<>~CanMove \/ []<><<Next>>_vars

Spec == Init /\ [][Next]_vars /\ Fairness

-----------------------------------------------------------------------------
(***************************************************************************)
(* Properties.                                                             *)
(***************************************************************************)
Elements(list) == {list[i] : i \in 1 .. Len(list)}

Live(r, s) == sys[r].step[s] \in 1 .. Len(sys[r].plan[s])

\* The scheduler's bookkeeping survives streams that finish and, from within
\* that, issue new ones: the started streams of a queue are its first
\* running_streams entries (the position from which the next one is started),
\* no start is missed (a queue with a stream waiting is full), and a live
\* stream is in the queue of its phase, once, and in no other.  The counters
\* that throttle the ready list count the live streams, and those in their
\* first phase.
QueueDiscipline ==
    \A r \in Rank :
        /\ \A q \in Queue :
              LET list == sys[r].active_Streams[q] IN
              /\ \A i \in 1 .. Len(list) :
                    list[i] \in sys[r].initialized
                        <=> i <= sys[r].running_streams[q]
              /\ sys[r].running_streams[q] = Min({Len(list), QueueThreshold})
              /\ Elements(list) = {s \in Stream : Live(r, s)
                                   /\ sys[r].plan[s][sys[r].step[s]].queue = q}
              /\ Len(list) = Cardinality(Elements(list))
        /\ sys[r].total_running_streams
              = Cardinality({s \in Stream : Live(r, s)})
        /\ sys[r].first_phase_streams
              = Cardinality({s \in Stream : Live(r, s) /\ sys[r].step[s] = 1})

\* A collective over all dimensions is a barrier: no rank sees it completed
\* before every rank has issued it.
CompletionIsBarrier ==
    \A r, p \in Rank : sys[r].completed <= sys[p].issued

\* Ranks of one group never hold two streams in one queue in opposite orders,
\* which is what keeps them from waiting for each other.
OrdersAgree ==
    \A r \in Rank : \A d \in Dim : \A p \in Group(r, d) :
        \A a \in 0 .. QueuesPerDim - 1 :
            LET m == sys[r].active_Streams[QueueId(d, a)]
                n == sys[p].active_Streams[QueueId(d, a)]
            IN  \A i, j \in 1 .. Len(m) : \A k, l \in 1 .. Len(n) :
                    /\ i < j /\ m[i] = n[k] /\ m[j] = n[l]
                    /\ sys[r].step[m[i]] = sys[p].step[m[i]]
                    /\ sys[r].step[m[j]] = sys[p].step[m[j]]
                    => k < l

AllFinished == \A r \in Rank : sys[r].completed = Len(Collectives)

\* No deadlock: until everything has finished, some rank can issue a
\* collective or end a phase.
NoDeadlock == AllFinished \/ CanMove
=============================================================================
