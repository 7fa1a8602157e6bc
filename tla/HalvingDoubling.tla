---------------------------- MODULE HalvingDoubling ----------------------------
(***************************************************************************)
(* The collective algorithm HalvingDoubling on all ranks of one dimension: *)
(* in every round a rank exchanges a message with the rank rank_offset     *)
(* places away, and rank_offset and msg_size are doubled or halved.        *)
(*                                                                         *)
(* As in RingAlgorithm a packet crosses the memory bus before it gives the *)
(* right to one send and one receive, and a message received inserts the   *)
(* next packet.  A message carries the set of the ranks whose data its     *)
(* sender held when it sent; what a rank holds is what the collective is   *)
(* for, and the code, which moves sizes only, never says it.               *)
(***************************************************************************)
EXTENDS Integers, Sequences, FiniteSetsExt

CONSTANT Config  \* the algorithms considered: nodes, type, data_size

\* Any other type exits the program.
ComType == {"All_Reduce", "All_Gather", "Reduce_Scatter"}

\* log2 of the code is a floating-point one that is truncated afterwards; on
\* the powers of two that are considered here both are exact.
ConfigAssumption ==
    \A c \in Config :
        /\ \E k \in 1 .. 10 : c.nodes = 2^k
        /\ c.type \in ComType
        /\ c.data_size \in Nat

VARIABLES
    config,     \* the algorithm that all ranks run
    alg,        \* the Algorithm object of each rank
    sends,      \* the messages sent so far, per pair <<source, destination>>
    recvs,      \* the sizes of the receives posted so far, per pair
    delivered,  \* receive handlers run, per pair
    holds       \* the ranks whose data each rank holds

vars == <<config, alg, sends, recvs, delivered, holds>>

Rank == 0 .. config.nodes - 1

Pair == Rank \X Rank

-----------------------------------------------------------------------------
(***************************************************************************)
(* An operator named ..._Mut... is the operator it precedes with a         *)
(* plausible slip in it; no specification uses it.                         *)
(***************************************************************************)
log2(n) == CHOOSE k \in 0 .. 10 : 2^k = n

\* Clockwise is towards higher indices.
specify_direction_MutAlways(r, rank_offset) == 1

specify_direction(r, rank_offset) ==
    IF rank_offset = 0 \/ (r \div rank_offset) % 2 = 0 THEN 1 ELSE -1

\* rank_offset calls of get_receiver.
Peer(r, rank_offset) ==
    (r + specify_direction(r, rank_offset) * rank_offset) % config.nodes

get_non_zero_latency_packets == log2(config.nodes) - 1

NewAlgorithm(r) ==
    LET doubling    == config.type # "All_Gather"
        rank_offset == IF doubling THEN 1 ELSE config.nodes \div 2
    IN
    [ state        |-> "created",
      stream_count |-> IF config.type = "All_Reduce" THEN 2 * log2(config.nodes)
                       ELSE log2(config.nodes),
      rank_offset  |-> rank_offset,
      doubling     |-> doubling,  \* offset_multiplier is 2, else 0.5
      msg_size     |-> IF doubling THEN config.data_size \div 2
                       ELSE config.data_size,
      peer         |-> Peer(r, rank_offset),  \* curr_receiver and curr_sender
      zero_latency_packets     |-> 0,
      non_zero_latency_packets |-> 0,
      free_packets |-> 0,
      packets      |-> <<>>,
      bundles      |-> 0 ]

Init ==
    /\ config \in Config
    /\ alg = [r \in Rank |-> NewAlgorithm(r)]
    /\ sends = [p \in Pair |-> <<>>]
    /\ recvs = [p \in Pair |-> <<>>]
    /\ delivered = [p \in Pair |-> 0]
    /\ holds = [r \in Rank |-> {r}]

Halved(a) ==
    [a EXCEPT !.rank_offset = @ \div 2, !.msg_size = @ * 2, !.doubling = FALSE]

Doubled(a) ==
    [a EXCEPT !.rank_offset = @ * 2, !.msg_size = @ \div 2]

\* process_max_count: the bundle is released and the next peer is chosen; an
\* all-reduce turns round when all ranks have been met.
process_max_count(a, r) ==
    LET b == IF a.doubling THEN Doubled(a) ELSE Halved(a)
        c == IF b.rank_offset = config.nodes /\ config.type = "All_Reduce"
             THEN Halved(b) ELSE b
    IN  [c EXCEPT !.bundles = @ + 1,
                  !.peer = IF c.rank_offset = 0 THEN r ELSE Peer(r, c.rank_offset)]

(***************************************************************************)
(* insert_packet, with the credits that say whether the packet comes from  *)
(* the NPU or the memory side; without credit the simulator panics.        *)
(***************************************************************************)
Credited(a) ==
    IF a.zero_latency_packets = 0 /\ a.non_zero_latency_packets = 0
    THEN [a EXCEPT !.zero_latency_packets = 1,
                   !.non_zero_latency_packets = get_non_zero_latency_packets]
    ELSE a

HasCredit(a) ==
    Credited(a).zero_latency_packets > 0 \/ Credited(a).non_zero_latency_packets > 0

insert_packet(a, r) ==
    LET b == Credited(a)
        c == IF b.zero_latency_packets > 0
             THEN [b EXCEPT !.zero_latency_packets = @ - 1]
             ELSE [b EXCEPT !.non_zero_latency_packets = @ - 1]
    IN  process_max_count(
            [c EXCEPT !.packets = Append(@, [peer |-> c.peer, size |-> c.msg_size])], r)

\* reduce, with process_stream_count: the front packet has been sent.
reduce(a) ==
    [a EXCEPT !.packets = Tail(@), !.stream_count = @ - 1, !.free_packets = @ - 1]

iteratable(a) == ~(a.stream_count = 0 /\ a.free_packets = 1)

-----------------------------------------------------------------------------
(***************************************************************************)
(* run(StreamInit): the scheduler starts the phase at rank r.              *)
(***************************************************************************)
run_StreamInit(r) ==
    /\ alg[r].state = "created"
    /\ alg' = [alg EXCEPT ![r] = insert_packet([@ EXCEPT !.state = "running"], r)]
    /\ UNCHANGED <<config, sends, recvs, delivered, holds>>

(***************************************************************************)
(* run(PacketReceived): a receive of rank r from src has met its send.     *)
(***************************************************************************)
run_PacketReceived(r, src) ==
    LET n == delivered[<<src, r>>] + 1 IN
    /\ alg[r].state = "running"
    /\ n <= Len(sends[<<src, r>>])
    /\ n <= Len(recvs[<<src, r>>])
    /\ delivered' = [delivered EXCEPT ![<<src, r>>] = n]
    /\ holds' = [holds EXCEPT ![r] = @ \cup sends[<<src, r>>][n].data]
    /\ HasCredit(alg[r])
    /\ alg' = [alg EXCEPT ![r] = insert_packet(@, r)]
    /\ UNCHANGED <<config, sends, recvs>>

(***************************************************************************)
(* run(General): a bundle of rank r has crossed the bus; ready and         *)
(* iteratable.                                                             *)
(***************************************************************************)
CanSend(a) == a.packets # <<>> /\ a.stream_count > 0 /\ a.free_packets > 0

ready(r, a) ==
    LET p == Head(a.packets) IN
    /\ sends' = [sends EXCEPT ![<<r, p.peer>>] =
                    Append(@, [size |-> p.size, data |-> holds[r]])]
    /\ recvs' = [recvs EXCEPT ![<<p.peer, r>>] = Append(@, p.size)]

run_General(r) ==
    LET a == [alg[r] EXCEPT !.bundles = @ - 1, !.free_packets = @ + 1]
        b == IF CanSend(a) THEN reduce(a) ELSE a
    IN
    /\ alg[r].state = "running"
    /\ alg[r].bundles > 0
    /\ IF CanSend(a) THEN ready(r, a) ELSE UNCHANGED <<sends, recvs>>
    /\ alg' = [alg EXCEPT ![r] =
          IF iteratable(b) THEN b
          ELSE [b EXCEPT !.state = "exited", !.packets = <<>>]]
    /\ UNCHANGED <<config, delivered, holds>>

Next ==
    \E r \in Rank :
        \/ run_StreamInit(r)
        \/ \E src \in Rank : run_PacketReceived(r, src)
        \/ run_General(r)

(***************************************************************************)
(* What the event loop does: the bus and the network deliver.  Nothing     *)
(* obliges a rank to start.                                                *)
(***************************************************************************)
Deliver ==
    \E r \in Rank :
        \/ run_General(r)
        \/ \E src \in Rank : run_PacketReceived(r, src)

Spec == Init /\ [][Next]_vars /\ WF_vars(Deliver)

-----------------------------------------------------------------------------
(***************************************************************************)
(* Properties.                                                             *)
(***************************************************************************)

\* exit() ends the phase only when no bundle is on the bus and every receive
\* that the rank posted has been answered.
NothingOutstanding ==
    \A r \in Rank : alg[r].state = "exited" =>
        /\ alg[r].bundles = 0
        /\ \A src \in Rank : delivered[<<src, r>>] = Len(recvs[<<src, r>>])

\* Ranks that choose their peers on their own choose each other: two ranks that
\* have done the same number of rounds have posted a receive for every message
\* that the other sent, and the n-th of them has the size of the n-th message.
\* Nor is insert_packet ever called without a credit left ("should not inject
\* nothing!").
Rounds(r) == MapThenSumSet(LAMBDA q : Len(sends[<<r, q>>]), Rank)

PeersAgree ==
    /\ \A r \in Rank : HasCredit(alg[r])
    /\ \A p \in Pair :
          /\ Rounds(p[1]) = Rounds(p[2]) => Len(sends[p]) = Len(recvs[p])
          /\ \A i \in 1 .. Len(sends[p]) :
                i <= Len(recvs[p]) => sends[p][i].size = recvs[p][i]

\* A rank leaves the collective with the data of all ranks, and an all-reduce
\* gathers only what is fully reduced: the messages of its second half carry the
\* data of all ranks.
AllContribute ==
    \A r \in Rank :
        /\ alg[r].state = "exited" => holds[r] = Rank
        /\ config.type = "All_Reduce" /\ alg[r].stream_count < log2(config.nodes) =>
              holds[r] = Rank

\* A rank that has left has sent the volume that the collective needs: (n - 1)/n
\* of the data for a reduce-scatter, twice that for an all-reduce, n - 1 times
\* its share for an all-gather.  The halvings and the turn truncate, so this
\* needs data of a multiple of 2n bytes.
VolumeExact ==
    \A r \in Rank :
        alg[r].state = "exited" /\ config.data_size % (2 * config.nodes) = 0 =>
            MapThenSumSet(
                LAMBDA p : IF p[1] # r THEN 0
                           ELSE MapThenSumSet(LAMBDA i : sends[p][i].size,
                                              1 .. Len(sends[p])), Pair)
            = CASE config.type = "All_Gather" -> config.data_size * (config.nodes - 1)
                [] config.type = "Reduce_Scatter" ->
                      (config.data_size \div config.nodes) * (config.nodes - 1)
                [] config.type = "All_Reduce" ->
                      2 * (config.data_size \div config.nodes) * (config.nodes - 1)
=============================================================================
