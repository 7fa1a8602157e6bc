------------------------------ MODULE Ns3Network ------------------------------
(***************************************************************************)
(* The ns-3 front end of all ranks: flows, the maps that pair their bytes  *)
(* with receives, and the end of the simulation.                           *)
(*                                                                         *)
(* Every sim_send opens a flow (an RDMA queue pair) of its own; flows      *)
(* finish in any order.  qp_finish first runs the sender's handler, which  *)
(* may call sim_send and sim_recv, and then looks for the receiver's.      *)
(*                                                                         *)
(* Left out: the C++ int in which bytes are counted (sizes are far below   *)
(* 2^31) and messages of no bytes.                                         *)
(***************************************************************************)
EXTENDS ByteHashes, FiniteSets

CONSTANTS Rank,           \* the simulated NPUs
          Size,           \* message sizes
          FireAndForget,  \* keys of native collectives: no handler waits for a send
          MaxSends,       \* bound on the sim_send calls of a key
          MaxRecvs        \* bound on the sim_recv calls of a key

KeyAssumption ==
    /\ Key \subseteq [tag : Nat, src : Rank, dst : Rank]
    /\ FireAndForget \subseteq Key

BoundAssumption ==
    /\ Size \subseteq Nat \ {0}
    /\ MaxSends \in Nat /\ MaxRecvs \in Nat

Pair == Rank \X Rank

VARIABLES
    portNumber,             \* [Pair -> Nat]: the next port
    sender_src_port_map,    \* <<port, src, dst>> -> tag, for open flows
    sim_send_waiting_hash,  \* <<key, port>> -> bytes, for unfinished sends
    hashes,                 \* the two maps of the receiving side
    node_to_bytes_sent_map, \* <<rank, "sent" or "received">> -> bytes
    flows,                  \* the queue pairs inside ns-3 (external)
    frame,                  \* where qp_finish stands
    finished,               \* completion_tracker_: ranks that have finished
    num_unfinished_ranks_,
    status,                 \* "running", or "done" after exit(0)
    posted,                 \* history: receives, as in ByteMatching
    arrived,                \* history: bytes arrived, per key
    sent                    \* history: sends called, sends answered, bytes, per key

hist == <<posted, arrived, sent>>
tracker == <<finished, num_unfinished_ranks_, status>>
sendside == <<portNumber, sender_src_port_map, sim_send_waiting_hash, flows>>
vars == <<sendside, hashes, node_to_bytes_sent_map, frame, tracker, hist>>

Idle == [at |-> "idle"]

Init ==
    /\ portNumber = [p \in Pair |-> 0]
    /\ sender_src_port_map = [x \in {} |-> 0]
    /\ sim_send_waiting_hash = [x \in {} |-> 0]
    /\ hashes = NoHashes
    /\ node_to_bytes_sent_map = [x \in Rank \X {"sent", "received"} |-> 0]
    /\ flows = {}
    /\ frame = Idle
    /\ finished = {}
    /\ num_unfinished_ranks_ = Cardinality(Rank)
    /\ status = "running"
    /\ posted = [k \in Key |-> <<>>]
    /\ arrived = [k \in Key |-> 0]
    /\ sent = [k \in Key |-> [calls |-> 0, answers |-> 0, bytes |-> 0]]

Put(f, x, v) == [y \in DOMAIN f \cup {x} |-> IF y = x THEN v ELSE f[y]]

Erase(f, x) == [y \in DOMAIN f \ {x} |-> f[y]]

\* Whose code runs: any rank's between events, the sender's in its handler.
\* Sys::handleEvent without handler data, as native collectives pass it for
\* their sends, returns at once.
MayCall(r) ==
    /\ status = "running"
    /\ frame # Idle => r = frame.key.src /\ frame.key \notin FireAndForget

-----------------------------------------------------------------------------
(***************************************************************************)
(* sim_send and send_flow: a new port, its tag, the MsgEvent of the send,  *)
(* and the queue pair.                                                     *)
(***************************************************************************)
port_of_MutSamePort(k) == 0

port_of(k) == portNumber[<<k.src, k.dst>>]

send_flow(k, size) ==
    LET port == port_of(k) IN
    /\ MayCall(k.src)
    /\ sent[k].calls < MaxSends
    /\ portNumber' = [portNumber EXCEPT ![<<k.src, k.dst>>] = @ + 1]
    /\ sender_src_port_map' =
          Put(sender_src_port_map, <<port, k.src, k.dst>>, k.tag)
    /\ sim_send_waiting_hash' = Put(sim_send_waiting_hash, <<k, port>>, size)
    /\ flows' = flows \cup {[src |-> k.src, dst |-> k.dst, port |-> port,
                             size |-> size]}
    /\ sent' = [sent EXCEPT ![k].calls = @ + 1, ![k].bytes = @ + size]
    /\ UNCHANGED <<hashes, node_to_bytes_sent_map, frame, tracker, posted, arrived>>

BytesPosted(k) == IF posted[k] = <<>> THEN 0 ELSE posted[k][Len(posted[k])]

sim_recv(k, size) ==
    LET n == Len(posted[k]) + 1 IN
    /\ MayCall(k.dst)
    /\ n <= MaxRecvs
    /\ posted' = [posted EXCEPT ![k] = Append(@, BytesPosted(k) + size)]
    /\ hashes' = ExpectData(hashes, k, size, n)
    /\ UNCHANGED <<sendside, node_to_bytes_sent_map, frame, tracker, arrived, sent>>

(***************************************************************************)
(* qp_finish up to and including the sender's handler.  Without a tag or   *)
(* a MsgEvent for the flow, or with another size, the program exits with   *)
(* an error: NoErrorExit says that this does not happen.                   *)
(***************************************************************************)
FlowKey(f) ==
    [tag |-> sender_src_port_map[<<f.port, f.src, f.dst>>],
     src |-> f.src, dst |-> f.dst]

Known(f) ==
    /\ <<f.port, f.src, f.dst>> \in DOMAIN sender_src_port_map
    /\ <<FlowKey(f), f.port>> \in DOMAIN sim_send_waiting_hash
    /\ sim_send_waiting_hash[<<FlowKey(f), f.port>>] = f.size

qp_finish(f) ==
    /\ status = "running" /\ frame = Idle
    /\ Known(f)
    /\ flows' = flows \ {f}
    /\ sender_src_port_map' =
          Erase(sender_src_port_map, <<f.port, f.src, f.dst>>)
    /\ sim_send_waiting_hash' =
          Erase(sim_send_waiting_hash, <<FlowKey(f), f.port>>)
    /\ node_to_bytes_sent_map' =
          [node_to_bytes_sent_map EXCEPT ![<<f.src, "sent">>] = @ + f.size]
    /\ frame' = [at |-> "send_handler", key |-> FlowKey(f), size |-> f.size]
    /\ sent' = [sent EXCEPT ![FlowKey(f)].answers = @ + 1]
    /\ UNCHANGED <<portNumber, hashes, tracker, posted, arrived>>

\* The rest of qp_finish: notify_receiver_receive_data.
notify_receiver ==
    /\ status = "running" /\ frame # Idle
    /\ hashes' = ReceiveData(hashes, frame.key, frame.size)
    /\ node_to_bytes_sent_map' =
          [node_to_bytes_sent_map EXCEPT
              ![<<frame.key.dst, "received">>] = @ + frame.size]
    /\ arrived' = [arrived EXCEPT ![frame.key] = @ + frame.size]
    /\ frame' = Idle
    /\ UNCHANGED <<sendside, tracker, posted, sent>>

(***************************************************************************)
(* sim_notify_finished and mark_rank_as_finished.  The workload calls it   *)
(* when its nodes are done: the handlers it waits for have then run, those *)
(* of all its receives and of its own sends, but a collective ends without *)
(* looking at its sends, which may still be under way.  It may call it     *)
(* again.  The last rank to finish ends the program.                       *)
(***************************************************************************)
HandlersRun(r) ==
    \A k \in Key :
        /\ k.src = r /\ k \notin FireAndForget => sent[k].answers = sent[k].calls
        /\ k.dst = r => 1 .. Len(posted[k]) \subseteq hashes.answered[k]

newly_finished_MutCountAgain(r) == 1

newly_finished(r) == IF r \in finished THEN 0 ELSE 1

mark_rank_as_finished(r) ==
    LET left == num_unfinished_ranks_ - newly_finished(r) IN
    /\ MayCall(r)
    /\ HandlersRun(r)
    /\ finished' = finished \cup {r}
    /\ num_unfinished_ranks_' = left
    /\ status' = IF left = 0 THEN "done" ELSE "running"
    /\ UNCHANGED <<sendside, hashes, node_to_bytes_sent_map, frame, hist>>

(***************************************************************************)
(* The callers: a rank that has finished calls nothing but sim_notify_     *)
(* finished, and receives of a key are posted one at a time, as Ring, for  *)
(* one, does.  (A second one would replace the MsgEvent of the first,      *)
(* whose handler would never be called.)                                   *)
(***************************************************************************)
OneAtATime(k) == hashes.waiting[k] = Absent

Next ==
    \/ \E k \in Key, size \in Size :
          \/ k.src \notin finished /\ send_flow(k, size)
          \/ k.dst \notin finished /\ OneAtATime(k) /\ sim_recv(k, size)
    \/ \E f \in flows : qp_finish(f)
    \/ notify_receiver
    \/ \E r \in Rank : mark_rank_as_finished(r)

\* ns-3 finishes every flow, and qp_finish returns.
Deliver == (\E f \in flows : qp_finish(f)) \/ notify_receiver

Spec == Init /\ [][Next]_vars /\ WF_vars(Deliver)

-----------------------------------------------------------------------------
(***************************************************************************)
(* Properties.                                                             *)
(***************************************************************************)

\* The exits of qp_finish and notify_sender_sending_finished are never taken:
\* a flow that finishes always finds its own tag and MsgEvent, however many
\* flows of its key are open and in whatever order they finish.
NoErrorExit == \A f \in flows : Known(f)

\* exit(0) drops no work, also when a rank reports twice: no receive is left in
\* the maps, in full or in part, and a flow that is still open is one of a native
\* collective, whose sender waits for nothing.
EndLosesNothing ==
    status = "done" =>
        /\ \A k \in Key : hashes.waiting[k] = Absent
        /\ \A f \in flows : FlowKey(f) \in FireAndForget
=============================================================================
