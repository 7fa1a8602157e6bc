---------------------------- MODULE MCStreamsProofs ----------------------------
(***************************************************************************)
(* The theorems of StreamSchedulerProofs, for the two systems that         *)
(* MCStreams checks in one run: that of the configuration, whatever its    *)
(* constants are, and the wide one.                                        *)
(***************************************************************************)
EXTENDS MCStreams, StreamSchedulerProofs

W == INSTANCE StreamSchedulerProofs WITH
    Dims <- OneByThree, QueuesPerDim <- 1, ActiveChunks <- 2, Splits <- 3,
    Collectives <- WideCollectives, Lifo <- TRUE, Baseline <- TRUE

(***************************************************************************)
(* Wide is an instance of StreamScheduler and W one of the module of its   *)
(* proofs.  Their definitions are the same, operation by operation.        *)
(***************************************************************************)
\* The same ranks, queues and streams.
LEMMA SameSets ==
    /\ Wide!Rank = W!Rank
    /\ Wide!Queue = W!Queue
    /\ Wide!Stream = W!Stream
  BY DEF Wide!Rank, W!Rank, Wide!Queue, W!Queue, Wide!Stream, W!Stream, Wide!Dim,
      W!Dim, Wide!Max, W!Max

\* The loop that starts streams is the same.
LEMMA SameLoop ==
    \A y, q : Wide!InitLoop(y, q) = W!InitLoop(y, q)
  BY DEF Wide!InitLoop, W!InitLoop, Wide!QueueThreshold, W!QueueThreshold

\* A stream enters a phase in the same way.
LEMMA SameEnter ==
    \A y, s : Wide!EnterPhase(y, s) = W!EnterPhase(y, s)
  BY DEF Wide!EnterPhase, W!EnterPhase, Wide!insert_stream, W!insert_stream,
      Wide!Priority, W!Priority, Wide!CollectiveOf, W!CollectiveOf, Wide!Min,
      W!Min

\* A stream is taken off a queue in the same way.
LEMMA SameErase ==
    \A y, q, s : Wide!erase_stream(y, q, s) = W!erase_stream(y, q, s)
  BY DEF Wide!erase_stream, W!erase_stream

\* Streams are added and removed in the same way.
LEMMA SameNotify ==
    \A y, q : /\ Wide!notify_stream_added(y, q) = W!notify_stream_added(y, q)
              /\ Wide!notify_stream_removed(y, q) = W!notify_stream_removed(y, q)
  <1> TAKE y, q
  <1>1. Wide!notify_stream_added(y, q) = W!notify_stream_added(y, q)
    BY SameLoop DEF Wide!notify_stream_added, W!notify_stream_added
  <1>2. PICK x : x = [y EXCEPT !.running_streams[q] = @ - 1]
    OBVIOUS
  <1>3. /\ Wide!notify_stream_removed(y, q) = Wide!InitLoop(x, q)
        /\ W!notify_stream_removed(y, q) = W!InitLoop(x, q)
    BY <1>2 DEF Wide!notify_stream_removed, W!notify_stream_removed
  <1> QED
    BY <1>1, <1>3, SameLoop

\* A new stream is scheduled in the same way.
LEMMA SameScheduleNew ==
    \A y, s : Wide!ScheduleNew(y, s) = W!ScheduleNew(y, s)
  <1> TAKE y, s
  <1>1. PICK z : z = W!EnterPhase(y, s)
    OBVIOUS
  <1>2. PICK x : x = W!notify_stream_added(z, z.plan[s][1].queue)
    OBVIOUS
  <1>3. z = Wide!EnterPhase(y, s)
    BY <1>1, SameEnter
  <1>4. x = Wide!notify_stream_added(z, z.plan[s][1].queue)
    BY <1>2, SameNotify
  <1>5. Wide!ScheduleNew(y, s)
          = [x EXCEPT !.first_phase_streams = @ + 1, !.total_running_streams = @ + 1]
    BY <1>3, <1>4 DEF Wide!ScheduleNew
  <1>6. W!ScheduleNew(y, s)
          = [x EXCEPT !.first_phase_streams = @ + 1, !.total_running_streams = @ + 1]
    BY <1>1, <1>2 DEF W!ScheduleNew
  <1> QED
    BY <1>5, <1>6

\* Layouts and plans are the same.
LEMMA SamePlans ==
    /\ \A c : Wide!Layout(c) = W!Layout(c)
    /\ \A y, s, l : Wide!MakePlan(y, s, l) = W!MakePlan(y, s, l)
  <1>1. ASSUME NEW c
        PROVE  Wide!Layout(c) = W!Layout(c)
    BY DEF Wide!Layout, W!Layout, Wide!Phases, W!Phases, Wide!Ascending, W!Ascending,
        Wide!Descending, W!Descending, Wide!ActiveDims, W!ActiveDims
  <1>2. ASSUME NEW y, NEW s, NEW l
        PROVE  Wide!MakePlan(y, s, l) = W!MakePlan(y, s, l)
    BY DEF Wide!MakePlan, W!MakePlan, Wide!TakeQueue, W!TakeQueue,
        Wide!get_next_queue_id, W!get_next_queue_id, Wide!get_next_queue_id_first,
        W!get_next_queue_id_first, Wide!get_next_queue_id_last,
        W!get_next_queue_id_last, Wide!QueueId, W!QueueId, Wide!NextAllocator,
        W!NextAllocator
  <1> QED
    BY <1>1, <1>2

\* A collective generates the same streams.
LEMMA SameGenerate ==
    \A y : Wide!generate_collective(y) = W!generate_collective(y)
  <1> TAKE y
  <1>1. PICK c : c = y.issued + 1
    OBVIOUS
  <1>2. PICK layout : layout = W!Layout(WideCollectives[c])
    OBVIOUS
  <1>3. PICK start : start = [y EXCEPT !.issued = c, !.finished_streams = 0]
    OBVIOUS
  <1>4. layout = Wide!Layout(WideCollectives[c])
    BY <1>2, SamePlans
  <1> DEFINE P(f) == f = [i \in 0 .. 3 |->
                            IF i = 0 THEN start
                            ELSE Wide!ScheduleNew(
                                    Wide!MakePlan(f[i - 1], (c - 1) * 3 + i, layout),
                                    (c - 1) * 3 + i)]
             Q(f) == f = [i \in 0 .. 3 |->
                            IF i = 0 THEN start
                            ELSE W!ScheduleNew(
                                    W!MakePlan(f[i - 1], (c - 1) * 3 + i, layout),
                                    (c - 1) * 3 + i)]
  <1>5. \A f : P(f) <=> Q(f)
    BY SamePlans, SameScheduleNew
  <1>6. Wide!generate_collective(y)
          = IF layout = <<>> THEN start ELSE (CHOOSE f : P(f))[3]
    BY <1>1, <1>3, <1>4 DEF Wide!generate_collective
  <1>7. W!generate_collective(y)
          = IF layout = <<>> THEN start ELSE (CHOOSE f : Q(f))[3]
    BY <1>1, <1>2, <1>3 DEF W!generate_collective
  <1> HIDE DEF P, Q
  <1>8. (CHOOSE f : P(f)) = (CHOOSE f : Q(f))
    BY <1>5, Zenon
  <1> QED
    BY <1>6, <1>7, <1>8

\* A stream's end is the same.
LEMMA SameProceed ==
    \A y, s, b : Wide!proceed_to_next_vnet(y, s, b) = W!proceed_to_next_vnet(y, s, b)
  <1>1. ASSUME NEW x, NEW b
        PROVE  Wide!notify_stream_finished(x, b) = W!notify_stream_finished(x, b)
    <2>1. PICK z : z = [x EXCEPT !.finished_streams = @ + 1]
      OBVIOUS
    <2>2. PICK n : n = [z EXCEPT !.completed = @ + 1]
      OBVIOUS
    <2>3. Wide!notify_stream_finished(x, b)
            = IF z.finished_streams # 3 THEN z
              ELSE IF b /\ n.issued < Len(WideCollectives)
                   THEN Wide!generate_collective(n) ELSE n
      BY <2>1, <2>2 DEF Wide!notify_stream_finished
    <2>4. W!notify_stream_finished(x, b)
            = IF z.finished_streams # 3 THEN z
              ELSE IF b /\ n.issued < Len(WideCollectives)
                   THEN W!generate_collective(n) ELSE n
      BY <2>1, <2>2 DEF W!notify_stream_finished
    <2> QED
      BY <2>3, <2>4, SameGenerate
  <1> TAKE y, s, b
  <1> DEFINE q == y.plan[s][y.step[s]].queue
             x == [y EXCEPT !.first_phase_streams = IF y.step[s] = 1 THEN @ - 1 ELSE @]
             After(e) == [e EXCEPT !.total_running_streams = @ - 1, !.step[s] = @ + 1]
             e1 == Wide!erase_stream(Wide!notify_stream_finished(x, b), q, s)
             e2 == W!erase_stream(W!notify_stream_finished(x, b), q, s)
             v1 == Wide!EnterPhase(Wide!erase_stream(x, q, s), s)
             v2 == W!EnterPhase(W!erase_stream(x, q, s), s)
             Next1(v) == Wide!notify_stream_added(Wide!notify_stream_removed(v, q),
                                                  v.plan[s][v.step[s]].queue)
             Next2(v) == W!notify_stream_added(W!notify_stream_removed(v, q),
                                               v.plan[s][v.step[s]].queue)
  <1>2. Wide!proceed_to_next_vnet(y, s, b)
          = IF y.step[s] = Len(y.plan[s])
            THEN Wide!notify_stream_removed(After(e1), q) ELSE Next1(v1)
    BY DEF Wide!proceed_to_next_vnet, Wide!LastPhase, Wide!EndsFirstPhase
  <1>3. W!proceed_to_next_vnet(y, s, b)
          = IF y.step[s] = Len(y.plan[s])
            THEN W!notify_stream_removed(After(e2), q) ELSE Next2(v2)
    BY DEF W!proceed_to_next_vnet, W!LastPhase, W!EndsFirstPhase
  <1> HIDE DEF q, x
  <1>4. e1 = e2 /\ v1 = v2
    BY <1>1, SameErase, SameEnter
  <1>5. \A v : Next1(v) = Next2(v)
    BY SameNotify
  <1>6. \A v : Wide!notify_stream_removed(After(v), q) = W!notify_stream_removed(After(v), q)
    BY SameNotify
  <1> HIDE DEF e1, e2, v1, v2, After, Next1, Next2
  <1> QED
    BY <1>2, <1>3, <1>4, <1>5, <1>6

\* The two specifications have the same steps, and the properties are the same.
LEMMA SameSystem ==
    /\ Wide!Init <=> W!Init
    /\ Wide!Next <=> W!Next
    /\ Wide!QueueDiscipline <=> W!QueueDiscipline
    /\ Wide!CompletionIsBarrier <=> W!CompletionIsBarrier
  <1>1. Wide!Init <=> W!Init
    BY DEF Wide!Init, W!Init, Wide!SysInit, W!SysInit, Wide!Rank, W!Rank, Wide!Queue,
        W!Queue, Wide!Stream, W!Stream, Wide!Dim, W!Dim, Wide!Max, W!Max
  <1>2. ASSUME NEW r
        PROVE  Wide!issue_collective(r) <=> W!issue_collective(r)
    BY SameGenerate
    DEF Wide!issue_collective, W!issue_collective, Wide!CanIssue, W!CanIssue
  <1>3. ASSUME NEW r, NEW s
        PROVE  Wide!phase_ends(r, s) <=> W!phase_ends(r, s)
    <2>1. Wide!CanEnd(r, s) <=> W!CanEnd(r, s)
      BY DEF Wide!CanEnd, W!CanEnd, Wide!Started, W!Started, Wide!Group, W!Group,
          Wide!Rank, W!Rank, Wide!Dim, W!Dim, Wide!Max, W!Max
    <2> QED
      BY <2>1, SameProceed DEF Wide!phase_ends, W!phase_ends
  <1>4. Wide!Next <=> W!Next
    BY <1>2, <1>3, SameSets DEF Wide!Next, W!Next
  <1>5. Wide!QueueDiscipline <=> W!QueueDiscipline
    BY DEF Wide!QueueDiscipline, W!QueueDiscipline, Wide!Live, W!Live, Wide!Elements,
        W!Elements, Wide!QueueThreshold, W!QueueThreshold, Wide!Min, W!Min,
        Wide!Rank, W!Rank, Wide!Queue, W!Queue, Wide!Stream, W!Stream, Wide!Dim,
        W!Dim, Wide!Max, W!Max,
        Wide!Cardinality, W!Cardinality
  <1>6. Wide!CompletionIsBarrier <=> W!CompletionIsBarrier
    BY SameSets DEF Wide!CompletionIsBarrier, W!CompletionIsBarrier
  <1> QED
    BY <1>1, <1>4, <1>5, <1>6

-----------------------------------------------------------------------------
\* The wide system is a configuration, and its collectives involve both of its
\* dimensions.
LEMMA WideConfig == W!ConfigAssumption /\ W!Everywhere
  <1>1. W!ConfigAssumption
    BY DEF W!ConfigAssumption, W!Dim, W!ComType, OneByThree, WideCollectives
  <1>2. W!Everywhere
    <2>1. W!Dim = 1 .. 2
      BY DEF W!Dim, OneByThree
    <2>2. \A c \in 1 .. Len(WideCollectives) : WideCollectives[c].involved = 1 .. 2
      BY DEF WideCollectives
    <2> QED
      BY <2>1, <2>2 DEF W!Everywhere
  <1> QED
    BY <1>1, <1>2

InvBoth == IF wide THEN W!IInv ELSE IInv

\* Either system starts in its invariant and keeps it.
LEMMA InductiveBoth ==
    /\ InitBoth => InvBoth
    /\ InvBoth /\ [NextBoth]_<<sys, wide>> => InvBoth'
  <1>1. InitBoth => InvBoth
    BY Inductive, W!Inductive, WideConfig, SameSystem DEF InitBoth, InvBoth
  <1>2. ASSUME InvBoth, NextBoth, wide
        PROVE  InvBoth'
    <2>1. W!IInv /\ W!Next
      BY <1>2, SameSystem DEF InvBoth, NextBoth
    <2>2. W!IInv'
      BY <2>1, W!Inductive, WideConfig
    <2> QED
      BY <1>2, <2>2 DEF InvBoth, NextBoth
  <1>3. ASSUME InvBoth, NextBoth, ~wide
        PROVE  InvBoth'
    <2>1. IInv /\ Next
      BY <1>3 DEF InvBoth, NextBoth
    <2>2. IInv'
      BY <2>1, Inductive
    <2> QED
      BY <1>3, <2>2 DEF InvBoth, NextBoth
  <1>4. ASSUME InvBoth, UNCHANGED <<sys, wide>>
        PROVE  InvBoth'
    BY <1>4, Inductive, W!Inductive, WideConfig DEF InvBoth, vars, W!vars
  <1> QED
    BY <1>1, <1>2, <1>3, <1>4

(***************************************************************************)
(* QueueDiscipline in both systems of the run, whatever the constants of   *)
(* the configuration: streams that finish and, from within that, issue new *)
(* ones leave the queues of the scheduler in order.                        *)
(***************************************************************************)
THEOREM QueuesKeepOrderBoth == SpecBoth => []QueueDisciplineBoth
  <1>1. InitBoth => InvBoth
    BY InductiveBoth
  <1>2. InvBoth /\ [NextBoth]_<<sys, wide>> => InvBoth'
    BY InductiveBoth
  <1>3. InvBoth => QueueDisciplineBoth
    BY InvImpliesDiscipline, W!InvImpliesDiscipline, WideConfig, SameSystem
    DEF InvBoth, QueueDisciplineBoth
  <1> QED
    BY <1>1, <1>2, <1>3, PTL DEF SpecBoth

BarrierInvBoth == IF wide THEN W!BarrierInv ELSE BarrierInv

(***************************************************************************)
(* CompletionIsBarrier in both systems of the run, if the collectives of   *)
(* the configuration go over all its dimensions: no rank is told that a    *)
(* collective has completed before every rank has issued it.               *)
(***************************************************************************)
THEOREM CompletionWaitsForAllBoth ==
    ASSUME Everywhere
    PROVE  SpecBoth => []CompletionIsBarrierBoth
  <1>1. InitBoth => BarrierInvBoth
    BY BarrierInductive, W!BarrierInductive, WideConfig, SameSystem
    DEF InitBoth, BarrierInvBoth, BarrierInv, W!BarrierInv
  <1>2. BarrierInvBoth /\ [NextBoth]_<<sys, wide>> => BarrierInvBoth'
    <2>1. ASSUME BarrierInvBoth, NextBoth, wide
          PROVE  BarrierInvBoth'
      <3>1. W!BarrierInv /\ W!Next
        BY <2>1, SameSystem DEF BarrierInvBoth, NextBoth
      <3>2. W!BarrierInv'
        BY <3>1, W!BarrierInductive, WideConfig
      <3> QED
        BY <2>1, <3>2 DEF BarrierInvBoth, NextBoth
    <2>2. ASSUME BarrierInvBoth, NextBoth, ~wide
          PROVE  BarrierInvBoth'
      <3>1. BarrierInv /\ Next
        BY <2>2 DEF BarrierInvBoth, NextBoth
      <3>2. BarrierInv'
        BY <3>1, BarrierInductive
      <3> QED
        BY <2>2, <3>2 DEF BarrierInvBoth, NextBoth
    <2>3. ASSUME BarrierInvBoth, UNCHANGED <<sys, wide>>
          PROVE  BarrierInvBoth'
      BY <2>3, BarrierInductive, W!BarrierInductive, WideConfig
      DEF BarrierInvBoth, BarrierInv, W!BarrierInv, vars, W!vars
    <2> QED
      BY <2>1, <2>2, <2>3
  <1>3. BarrierInvBoth => CompletionIsBarrierBoth
    BY SameSystem DEF BarrierInvBoth, BarrierInv, W!BarrierInv, CompletionIsBarrierBoth
  <1> QED
    BY <1>1, <1>2, <1>3, PTL DEF SpecBoth
=============================================================================
