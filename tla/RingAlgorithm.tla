----------------------------- MODULE RingAlgorithm -----------------------------
(***************************************************************************)
(* The collective algorithms Ring and AllToAll ("direct"), on all ranks of *)
(* one dimension: how the packets, the memory bus and the network drive    *)
(* each other from StreamInit to exit().                                   *)
(*                                                                         *)
(* A packet is inserted, crosses the memory bus (a bundle of one packet),  *)
(* and then gives its rank the right to one send, which is posted together *)
(* with one receive; a message received inserts the next packet.  The      *)
(* n-th send of a pair of ranks meets the n-th receive (MessageMatching).  *)
(*                                                                         *)
(* Left out: sizes, and the credits zero_latency_packets,                  *)
(* non_zero_latency_packets and toggle, which choose the direction and the *)
(* processing of a bundle and so only its delay; bundles may finish in any *)
(* order.  Anticlockwise is the mirror image of Clockwise.                 *)
(***************************************************************************)
EXTENDS Integers, Sequences, FiniteSets

CONSTANT Config  \* the algorithms considered

ComType == {"All_Reduce", "All_Gather", "Reduce_Scatter", "All_to_All"}

(***************************************************************************)
(* direct tells AllToAll from Ring; window is AllToAll's argument, -1 for  *)
(* no limit.                                                               *)
(***************************************************************************)
ConfigAssumption ==
    \A c \in Config :
        /\ c.nodes \in Nat \ {0, 1}
        /\ c.type \in ComType
        /\ c.direct \in BOOLEAN
        /\ c.window \in (Nat \ {0}) \cup {-1}

VARIABLES
    config,     \* the algorithm that all ranks run
    alg,        \* the Algorithm object of each rank
    sends,      \* sim_send calls made, per pair <<source, destination>>
    recvs,      \* sim_recv calls made, per pair
    delivered   \* receive handlers run, per pair

vars == <<config, alg, sends, recvs, delivered>>

Rank == 0 .. config.nodes - 1

Pair == Rank \X Rank

-----------------------------------------------------------------------------
(***************************************************************************)
(* An operator named ..._Mut... is the operator it precedes with a         *)
(* plausible slip in it; no specification uses it.                         *)
(***************************************************************************)

\* RingTopology, clockwise.
get_receiver(i) == (i + 1) % config.nodes

get_sender_MutSameWay(i) == (i + 1) % config.nodes

get_sender(i) == (i + config.nodes - 1) % config.nodes

stream_count ==
    CASE config.type = "All_Reduce" -> 2 * (config.nodes - 1)
      [] config.type = "All_to_All" /\ ~config.direct ->
            ((config.nodes - 1) * config.nodes) \div 2
      [] OTHER -> config.nodes - 1

parallel_reduce ==
    IF ~config.direct THEN 1
    ELSE IF config.window = -1 \/ config.window > config.nodes - 1
         THEN config.nodes - 1
    ELSE config.window

middle_point == config.nodes - 1

Init ==
    /\ config \in Config
    /\ alg = [r \in Rank |->
                 [ state         |-> "created",
                   stream_count  |-> stream_count,
                   free_packets  |-> 0,
                   packets       |-> <<>>,
                   bundles       |-> 0,
                   curr_receiver |-> get_receiver(r),
                   curr_sender   |-> get_sender(r),
                   received      |-> 0 ]]
    /\ sends = [p \in Pair |-> 0]
    /\ recvs = [p \in Pair |-> 0]
    /\ delivered = [p \in Pair |-> 0]

(***************************************************************************)
(* insert_packet and, for AllToAll, process_max_count, which moves on to   *)
(* the next pair of peers and passes over the rank itself.                 *)
(***************************************************************************)
next_receiver(r, q) ==
    IF get_receiver(q) = r THEN get_receiver(r) ELSE get_receiver(q)

next_sender(r, q) ==
    IF get_sender(q) = r THEN get_sender(r) ELSE get_sender(q)

insert_packet(a, r) ==
    [a EXCEPT
        !.packets = Append(@, [dest |-> a.curr_receiver, src |-> a.curr_sender]),
        !.bundles = @ + 1,
        !.curr_receiver = IF config.direct THEN next_receiver(r, @) ELSE @,
        !.curr_sender = IF config.direct THEN next_sender(r, @) ELSE @]

\* The first k packets that count calls of ready() send.
Ready(a, count) ==
    CHOOSE k \in 0 .. count :
        /\ k <= Len(a.packets) /\ k <= a.stream_count /\ k <= a.free_packets
        /\ \/ k = count \/ k = Len(a.packets)
           \/ k = a.stream_count \/ k = a.free_packets

(***************************************************************************)
(* ready, count times, with reduce: each call takes the front packet and   *)
(* posts a send and a receive for it.                                      *)
(***************************************************************************)
Sent(a, count) == SubSeq(a.packets, 1, Ready(a, count))

AfterReady(a, count) ==
    LET k == Ready(a, count) IN
    [a EXCEPT !.packets = SubSeq(@, k + 1, Len(@)),
              !.stream_count = @ - k,
              !.free_packets = @ - k]

Times(list, P(_)) == Cardinality({i \in 1 .. Len(list) : P(list[i])})

Post(r, list) ==
    /\ sends' = [p \in Pair |-> sends[p] +
           IF p[1] = r THEN Times(list, LAMBDA x : x.dest = p[2]) ELSE 0]
    /\ recvs' = [p \in Pair |-> recvs[p] +
           IF p[2] = r THEN Times(list, LAMBDA x : x.src = p[1]) ELSE 0]

\* iteratable: everything is sent and all packets are back.
iteratable_MutAnyPacket(a) == ~(a.stream_count = 0 /\ a.free_packets > 0)

iteratable(a) == ~(a.stream_count = 0 /\ a.free_packets = parallel_reduce)

-----------------------------------------------------------------------------
(***************************************************************************)
(* run(StreamInit): the scheduler starts the phase at rank r.              *)
(***************************************************************************)
run_StreamInit(r) ==
    LET inserted[i \in 0 .. parallel_reduce] ==
            IF i = 0 THEN alg[r] ELSE insert_packet(inserted[i - 1], r)
    IN
    /\ alg[r].state = "created"
    /\ alg' = [alg EXCEPT ![r] =
                  [inserted[parallel_reduce] EXCEPT !.state = "running"]]
    /\ UNCHANGED <<config, sends, recvs, delivered>>

(***************************************************************************)
(* run(PacketReceived): a receive of rank r from src has met its send.     *)
(***************************************************************************)
CanReceive(r, src) ==
    /\ delivered[<<src, r>>] < sends[<<src, r>>]
    /\ delivered[<<src, r>>] < recvs[<<src, r>>]

run_PacketReceived(r, src) ==
    /\ alg[r].state = "running"
    /\ CanReceive(r, src)
    /\ delivered' = [delivered EXCEPT ![<<src, r>>] = @ + 1]
    /\ alg' = [alg EXCEPT ![r] =
                  insert_packet([alg[r] EXCEPT !.received = @ + 1], r)]
    /\ UNCHANGED <<config, sends, recvs>>

(***************************************************************************)
(* run(General): a bundle of rank r has crossed the bus.  In the second    *)
(* half of an all-reduce AllToAll holds its sends back until the first     *)
(* half is received, and then tries as many as it may have in parallel.    *)
(***************************************************************************)
SecondHalf(a) ==
    config.direct /\ config.type = "All_Reduce" /\ a.stream_count <= middle_point

HeldBack_MutNever(a) == FALSE

HeldBack(a) == SecondHalf(a) /\ a.received < middle_point

run_General(r) ==
    LET a == [alg[r] EXCEPT !.bundles = @ - 1, !.free_packets = @ + 1]
        count == IF SecondHalf(a) THEN parallel_reduce ELSE 1
        b == AfterReady(a, count)
    IN
    /\ alg[r].state = "running"
    /\ alg[r].bundles > 0
    /\ \/ /\ HeldBack(a)
          /\ alg' = [alg EXCEPT ![r] = a]
          /\ UNCHANGED <<sends, recvs>>
       \/ /\ ~HeldBack(a)
          /\ Post(r, Sent(a, count))
          /\ alg' = [alg EXCEPT ![r] =
                IF iteratable(b) THEN b
                ELSE [b EXCEPT !.state = "exited", !.packets = <<>>]]
    /\ UNCHANGED <<config, delivered>>

Next ==
    \E r \in Rank :
        \/ run_StreamInit(r)
        \/ \E src \in Rank : run_PacketReceived(r, src)
        \/ run_General(r)

(***************************************************************************)
(* What the event loop does: the bus and the network deliver.  Nothing     *)
(* obliges a rank to start.                                                *)
(***************************************************************************)
Deliver ==
    \E r \in Rank :
        \/ run_General(r)
        \/ \E src \in Rank : run_PacketReceived(r, src)

Spec == Init /\ [][Next]_vars /\ WF_vars(Deliver)

-----------------------------------------------------------------------------
(***************************************************************************)
(* Properties.                                                             *)
(***************************************************************************)

\* The receives of rank r that count counts, and the sends: <<q, i>> is the
\* i-th from or to rank q.
From(count, r) == UNION {{src} \X (1 .. count[<<src, r>>]) : src \in Rank}

To(count, r) == UNION {{dest} \X (1 .. count[<<r, dest>>]) : dest \in Rank}

\* exit() deletes the algorithm, and for the last phase the stream: no bundle
\* of it may still be on the bus and no receive of it still be posted, or its
\* event would run on freed memory.
NothingOutstanding ==
    \A r \in Rank : alg[r].state = "exited" =>
        /\ alg[r].bundles = 0
        /\ \A src \in Rank : delivered[<<src, r>>] = recvs[<<src, r>>]

\* Between events a rank's packets are all accounted for: what it may send now,
\* what is on its bus and what it waits to receive add up to the parallelism of
\* the algorithm, which is what makes the count in iteratable() mean "all back".
\* None of them is for the rank itself.
PacketsConserved ==
    \A r \in Rank : alg[r].state = "running" =>
        /\ alg[r].free_packets + alg[r].bundles
              + Cardinality(From(recvs, r) \ From(delivered, r))
           = parallel_reduce
        /\ sends[<<r, r>>] = 0

\* An all-reduce starts to gather only what is fully reduced: a rank's sends
\* beyond the first n - 1 follow the receipt of the partial results of the
\* first half, from every other rank in AllToAll, from the predecessor in Ring.
\* AllToAll only counts what it received; no fast peer's second message may
\* stand in for a slow peer's first.
ReducedBeforeGathered ==
    config.type = "All_Reduce" =>
        \A r \in Rank :
            Cardinality(To(sends, r)) > middle_point =>
                IF config.direct
                THEN \A src \in Rank \ {r} : delivered[<<src, r>>] >= 1
                ELSE delivered[<<get_sender(r), r>>] >= middle_point
=============================================================================
