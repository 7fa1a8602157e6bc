---------------------------- MODULE CustomAlgorithm ----------------------------
(***************************************************************************)
(* A custom collective: every rank walks a trace of its own with sends,    *)
(* receives and computations, issues what is free of dependencies, and     *)
(* leaves the phase when nothing is free and nothing is under way.         *)
(*                                                                         *)
(* All ranks run in one thread.  run() and call() walk a snapshot of the   *)
(* free nodes; with the ns-3 back end a receive may complete inside        *)
(* sim_recv and enter call again.  stack holds the walks in progress.      *)
(*                                                                         *)
(* The network is the one of MessageMatching: per source, destination and  *)
(* tag the n-th send meets the n-th receive.  The tags are NATIVE ones, so *)
(* the sends and receives of the workload are on the same network.         *)
(*                                                                         *)
(* Left out: sizes and durations (completions come in any order) and the   *)
(* ranks of a group, which CollectivePlans models: here positions in the   *)
(* group are the ranks.                                                    *)
(***************************************************************************)
EXTENDS Integers, Sequences, FiniteSets

CONSTANT Config  \* the collectives considered

(***************************************************************************)
(* trace[r] is the trace of rank r, a node's peer comm_dst or comm_src.    *)
(* native are messages between the ranks' workloads, one of each key.      *)
(* sync tells whether sim_recv may run its handler (ns-3).  An empty trace *)
(* would never leave the phase: run() issues nothing and only call() exits.*)
(***************************************************************************)
ConfigAssumption ==
    \A c \in Config :
        /\ c.sync \in BOOLEAN
        /\ \A r \in DOMAIN c.trace :
              /\ DOMAIN c.trace[r] # {}
              /\ \A n \in DOMAIN c.trace[r] : LET node == c.trace[r][n] IN
                    /\ node.type \in {"SEND", "RECV", "COMP"}
                    /\ node.peer \in DOMAIN c.trace
                    /\ \A m \in node.parents : m \in DOMAIN c.trace[r] /\ m < n

VARIABLES
    config,    \* the collective that all ranks run
    alg,       \* the CustomAlgorithm object of each rank, with its resolver
    network,   \* per key: who sent, who receives, which receives are done
    stack      \* the walks of issue_dep_free_nodes, innermost first

vars == <<config, alg, network, stack>>

Rank == DOMAIN config.trace

Node(r) == DOMAIN config.trace[r]

(***************************************************************************)
(* A key of the network, and who a send or receive is for.                 *)
(***************************************************************************)
SendKey(r, n) == <<r, config.trace[r][n].peer, config.trace[r][n].tag>>

RecvKey(r, n) == <<config.trace[r][n].peer, r, config.trace[r][n].tag>>

Key ==
    config.native \cup
    UNION {UNION {{SendKey(r, n), RecvKey(r, n)} : n \in Node(r)} : r \in Rank}

Workload == [from |-> "workload"]

Collective(r, n) == [from |-> "collective", rank |-> r, node |-> n]

Init ==
    /\ config \in Config
    /\ alg = [r \in Rank |->
                 [ state   |-> "created",
                   done    |-> {},
                   ongoing |-> {},
                   events  |-> [n \in Node(r) |-> 0],
                   exits   |-> 0 ]]
    /\ network = [k \in Key |-> [sends |-> <<>>, recvs |-> <<>>, received |-> {}]]
    /\ stack = <<>>

-----------------------------------------------------------------------------
\* The dependency resolver of the trace feeder (external).
dependancy_free(r, done, ongoing) ==
    {n \in Node(r) :
        config.trace[r][n].parents \subseteq done /\ n \notin done \cup ongoing}

\* A walk of rank r over the snapshot left, entered from run or call.
Walk(r, left, from) == [rank |-> r, left |-> left, from |-> from]

(***************************************************************************)
(* The beginning of call() for a node that has completed.  a is the object *)
(* at that moment, below are the walks that are interrupted.               *)
(***************************************************************************)
EnterCall(r, a, n, below) ==
    LET done == a.done \cup {n}
        ongoing == a.ongoing \ {n}
    IN
    /\ alg' = [alg EXCEPT ![r] = [a EXCEPT !.done = done, !.ongoing = ongoing]]
    /\ stack' = <<Walk(r, dependancy_free(r, done, ongoing), "call")>> \o below

\* run: the scheduler starts the phase at rank r.
run(r) ==
    /\ stack = <<>>
    /\ alg[r].state = "created"
    /\ alg' = [alg EXCEPT ![r].state = "running"]
    /\ stack' = <<Walk(r, dependancy_free(r, {}, {}), "run")>>
    /\ UNCHANGED <<config, network>>

(***************************************************************************)
(* One turn of the loop of issue_dep_free_nodes.  The snapshot is a hash   *)
(* set, so that its order is arbitrary.                                    *)
(***************************************************************************)
InLoop(n) == stack # <<>> /\ n \in Head(stack).left

RestOfLoop(n) ==
    <<[Head(stack) EXCEPT !.left = @ \ {n}]>> \o Tail(stack)

Take(r, n) == [alg[r] EXCEPT !.ongoing = @ \cup {n}]

issue_send(n) ==
    LET r == Head(stack).rank IN
    /\ InLoop(n) /\ config.trace[r][n].type = "SEND"
    /\ alg' = [alg EXCEPT ![r] = [Take(r, n) EXCEPT !.events[n] = @ + 1]]
    /\ network' = [network EXCEPT
                      ![SendKey(r, n)].sends = Append(@, Collective(r, n))]
    /\ stack' = RestOfLoop(n)
    /\ UNCHANGED config

issue_recv(n) ==
    LET r == Head(stack).rank IN
    /\ InLoop(n) /\ config.trace[r][n].type = "RECV"
    /\ alg' = [alg EXCEPT ![r] = Take(r, n)]
    /\ network' = [network EXCEPT
                      ![RecvKey(r, n)].recvs = Append(@, Collective(r, n))]
    /\ stack' = RestOfLoop(n)
    /\ UNCHANGED config

\* A receive whose message is here, with the ns-3 back end.
issue_recv_now(n) ==
    LET r == Head(stack).rank
        k == RecvKey(r, n)
        i == Len(network[k].recvs) + 1
    IN
    /\ config.sync
    /\ InLoop(n) /\ config.trace[r][n].type = "RECV"
    /\ i <= Len(network[k].sends)
    /\ network' = [network EXCEPT ![k].recvs = Append(@, Collective(r, n)),
                                  ![k].received = @ \cup {i}]
    /\ EnterCall(r, Take(r, n), n, RestOfLoop(n))
    /\ UNCHANGED config

issue_comp(n) ==
    LET r == Head(stack).rank IN
    /\ InLoop(n) /\ config.trace[r][n].type = "COMP"
    /\ alg' = [alg EXCEPT ![r] = [Take(r, n) EXCEPT !.events[n] = @ + 1]]
    /\ stack' = RestOfLoop(n)
    /\ UNCHANGED <<config, network>>

(***************************************************************************)
(* The walk is over.  call() then leaves the phase if nothing is free and  *)
(* nothing is under way; run() does not look.                              *)
(***************************************************************************)
Finished(r) ==
    /\ alg[r].ongoing = {}
    /\ dependancy_free(r, alg[r].done, alg[r].ongoing) = {}

return_from_walk ==
    LET r == Head(stack).rank IN
    /\ stack # <<>> /\ Head(stack).left = {}
    /\ alg' = [alg EXCEPT ![r] =
                  IF Head(stack).from = "call" /\ Finished(r)
                  THEN [@ EXCEPT !.state = "exited", !.exits = @ + 1] ELSE @]
    /\ stack' = Tail(stack)
    /\ UNCHANGED <<config, network>>

-----------------------------------------------------------------------------
(***************************************************************************)
(* The event loop: a send or a computation of rank r has completed, or     *)
(* receive i of key k has met its send.  A receive of the workload is      *)
(* answered to the workload.                                               *)
(***************************************************************************)
complete(r, n) ==
    /\ stack = <<>>
    /\ alg[r].events[n] > 0
    /\ EnterCall(r, [alg[r] EXCEPT !.events[n] = @ - 1], n, <<>>)
    /\ UNCHANGED <<config, network>>

Arrived(k) ==
    {i \in 1 .. Len(network[k].recvs) :
        i <= Len(network[k].sends) /\ i \notin network[k].received}

receive(k) ==
    \E i \in Arrived(k) : LET to == network[k].recvs[i] IN
        /\ stack = <<>>
        /\ network' = [network EXCEPT ![k].received = @ \cup {i}]
        /\ \/ to = Workload /\ UNCHANGED <<alg, stack>>
           \/ to # Workload /\ EnterCall(to.rank, alg[to.rank], to.node, <<>>)
        /\ UNCHANGED config

(***************************************************************************)
(* Workload::issue_send_comm and issue_recv_comm, once for each key of     *)
(* native.                                                                 *)
(***************************************************************************)
MadeBy(list, who) == \E i \in 1 .. Len(list) : list[i] = who

issue_send_comm(k) ==
    /\ stack = <<>>
    /\ ~MadeBy(network[k].sends, Workload)
    /\ network' = [network EXCEPT ![k].sends = Append(@, Workload)]
    /\ UNCHANGED <<config, alg, stack>>

issue_recv_comm(k) ==
    /\ stack = <<>>
    /\ ~MadeBy(network[k].recvs, Workload)
    /\ network' = [network EXCEPT ![k].recvs = Append(@, Workload)]
    /\ UNCHANGED <<config, alg, stack>>

LoopStep ==
    \/ return_from_walk
    \/ stack # <<>> /\ \E n \in Head(stack).left :
          issue_send(n) \/ issue_recv(n) \/ issue_recv_now(n) \/ issue_comp(n)

Next ==
    \/ LoopStep
    \/ \E r \in Rank : run(r) \/ \E n \in Node(r) : complete(r, n)
    \/ \E k \in Key : receive(k)
    \/ \E k \in config.native : issue_send_comm(k) \/ issue_recv_comm(k)

(***************************************************************************)
(* Loops go on and the event loop delivers.  Nothing obliges a rank to     *)
(* start, or the workload to communicate.                                  *)
(***************************************************************************)
Deliver ==
    \/ LoopStep
    \/ \E r \in Rank : \E n \in Node(r) : complete(r, n)
    \/ \E k \in Key : receive(k)

Spec == Init /\ [][Next]_vars /\ WF_vars(Deliver)

-----------------------------------------------------------------------------
(***************************************************************************)
(* Properties.                                                             *)
(***************************************************************************)

\* exit() deletes the object, because "there are no more nodes to execute, and
\* no node is executing": all nodes have run, and no walk of it is under way,
\* no completion of it to come and no receive of it posted, any of which would
\* run on freed memory.
NothingOutstanding ==
    \A r \in Rank : alg[r].state = "exited" =>
        /\ alg[r].exits = 1
        /\ alg[r].done = Node(r) /\ alg[r].ongoing = {}
        /\ \A n \in Node(r) : alg[r].events[n] = 0
        /\ \A i \in 1 .. Len(stack) : stack[i].rank # r
        /\ \A k \in Key : \A i \in 1 .. Len(network[k].recvs) :
              network[k].recvs[i] # Workload /\ network[k].recvs[i].rank = r
                  => i \in network[k].received

\* Between two events no node that could run is left lying: nobody looks at it
\* before the next completion, which need not come.
NoIdleWork ==
    stack = <<>> => \A r \in Rank :
        alg[r].state = "running" =>
            dependancy_free(r, alg[r].done, alg[r].ongoing) = {}

\* The two kinds of traffic are kept apart, as the tag ranges of Sys.hh are
\* meant to: no receive of the collective is answered by a send of a workload,
\* and none of a workload by a send of the collective.
TrafficApart ==
    \A k \in Key : \A i \in network[k].received :
        network[k].sends[i].from = network[k].recvs[i].from
=============================================================================
