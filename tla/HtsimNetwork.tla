----------------------------- MODULE HtsimNetwork -----------------------------
(***************************************************************************)
(* The htsim front end of all ranks.  It pairs bytes with receives as the  *)
(* ns-3 front end does (its maps are msg_standby and recv_waiting), but a  *)
(* TCP flow calls back twice, from its sink when the last packet is there  *)
(* and from its source when that is acknowledged; the option               *)
(* recv_flow_finish says which of the two calls notifies the receiver.     *)
(*                                                                         *)
(* One subflow per message, the default: every subflow carries the whole   *)
(* message and has both callbacks.  Left out, as in Ns3Network: the width  *)
(* of the byte counts, messages of no bytes, and the end of the simulation *)
(* after four simulated seconds.                                           *)
(***************************************************************************)
EXTENDS ByteHashes, FiniteSets

CONSTANTS Rank,           \* the simulated NPUs
          Size,           \* message sizes
          FireAndForget,  \* keys of native collectives, as in Ns3Network
          MaxSends,       \* bound on the sim_send calls
          MaxRecvs        \* bound on the sim_recv calls of a key

KeyAssumption ==
    /\ Key \subseteq [tag : Nat, src : Rank, dst : Rank]
    /\ FireAndForget \subseteq Key

BoundAssumption ==
    /\ Size \subseteq Nat \ {0}
    /\ MaxSends \in Nat /\ MaxRecvs \in Nat

FlowId == 1 .. MaxSends

VARIABLES
    recv_flow_finish,  \* conf: the sink's callback notifies the receiver
    flow_id,           \* the id of the last flow
    flow_id_to_tag,    \* [FlowId -> tag], never erased
    send_waiting,      \* <<key, flow_id>> of the unfinished sends
    hashes,            \* recv_waiting and msg_standby
    flows,             \* the TCP flows inside htsim (external)
    frame,             \* where flow_finish_send stands
    finished,          \* completion_tracker: ranks that have finished
    num_unfinished_ranks_,
    stopped,           \* stop_simulation was called
    posted,            \* history: receives, as in ByteMatching
    arrived,           \* history: bytes arrived, per key
    sent               \* history: sends called, sends answered, bytes, per key

sendside == <<flow_id, flow_id_to_tag, send_waiting, flows, sent>>
tracker == <<finished, num_unfinished_ranks_, stopped>>
vars == <<recv_flow_finish, sendside, hashes, frame, tracker, posted, arrived>>

Idle == [at |-> "idle"]

Init ==
    /\ recv_flow_finish \in BOOLEAN
    /\ flow_id = 0
    /\ flow_id_to_tag = [i \in FlowId |-> 0]
    /\ send_waiting = {}
    /\ hashes = NoHashes
    /\ flows = {}
    /\ frame = Idle
    /\ finished = {}
    /\ num_unfinished_ranks_ = Cardinality(Rank)
    /\ stopped = FALSE
    /\ posted = [k \in Key |-> <<>>]
    /\ arrived = [k \in Key |-> 0]
    /\ sent = [k \in Key |-> [calls |-> 0, answers |-> 0, bytes |-> 0]]

\* Whose code runs: any rank's between events, the sender's in its handler, if
\* it has one.
Running(r) == frame # Idle => r = frame.key.src /\ frame.key \notin FireAndForget

MayCall(r) == r \notin finished /\ Running(r)

-----------------------------------------------------------------------------
(***************************************************************************)
(* schedule_htsim_event: the connection of a flow, its source and its sink *)
(* with their callbacks, started now.                                      *)
(***************************************************************************)
schedule_htsim_event(k, size, id) ==
    flows' = flows \cup
        {[src |-> k.src, dst |-> k.dst, size |-> size, id |-> id, sunk |-> FALSE]}

send_flow(k, size, id) ==
    /\ flow_id_to_tag' = [flow_id_to_tag EXCEPT ![id] = k.tag]
    /\ send_waiting' = send_waiting \cup {<<k, id>>}
    /\ schedule_htsim_event(k, size, id)

sim_send(k, size) ==
    /\ MayCall(k.src)
    /\ flow_id < MaxSends
    /\ flow_id' = flow_id + 1
    /\ send_flow(k, size, flow_id + 1)
    /\ sent' = [sent EXCEPT ![k].calls = @ + 1, ![k].bytes = @ + size]
    /\ UNCHANGED <<recv_flow_finish, hashes, frame, tracker, posted, arrived>>

BytesPosted(k) == IF posted[k] = <<>> THEN 0 ELSE posted[k][Len(posted[k])]

sim_recv(k, size) ==
    LET n == Len(posted[k]) + 1 IN
    /\ MayCall(k.dst)
    /\ n <= MaxRecvs
    /\ posted' = [posted EXCEPT ![k] = Append(@, BytesPosted(k) + size)]
    /\ hashes' = ExpectData(hashes, k, size, n)
    /\ UNCHANGED <<recv_flow_finish, sendside, frame, tracker, arrived>>

-----------------------------------------------------------------------------
FlowKey(f) ==
    [tag |-> flow_id_to_tag[f.id], src |-> f.src, dst |-> f.dst]

notify_receiver_receive_data(k, size) ==
    /\ hashes' = ReceiveData(hashes, k, size)
    /\ arrived' = [arrived EXCEPT ![k] = @ + size]

sink_notifies == recv_flow_finish

flow_finish_recv_MutHeld(f) ==
    /\ frame = Idle
    /\ ~f.sunk /\ sink_notifies
    /\ flows' = (flows \ {f}) \cup {[f EXCEPT !.sunk = TRUE]}
    /\ notify_receiver_receive_data(FlowKey(f), f.size)
    /\ UNCHANGED <<recv_flow_finish, flow_id, flow_id_to_tag, send_waiting,
                   sent, frame, tracker, posted>>

(***************************************************************************)
(* The sink of a flow has its last packet.                                 *)
(***************************************************************************)
flow_finish_recv(f) ==
    /\ frame = Idle
    /\ ~f.sunk
    /\ flows' = (flows \ {f}) \cup {[f EXCEPT !.sunk = TRUE]}
    /\ \/ sink_notifies /\ notify_receiver_receive_data(FlowKey(f), f.size)
       \/ ~sink_notifies /\ UNCHANGED <<hashes, arrived>>
    /\ UNCHANGED <<recv_flow_finish, flow_id, flow_id_to_tag, send_waiting,
                   sent, frame, tracker, posted>>

(***************************************************************************)
(* The source of a flow has its last acknowledgement.  An assert demands a *)
(* MsgEvent for the flow (SendsFound).  The sender's handler runs, and     *)
(* then, unless the sink does it, the receiver is notified.                *)
(***************************************************************************)
Found(f) == <<FlowKey(f), f.id>> \in send_waiting

flow_finish_send(f) ==
    /\ frame = Idle
    /\ f.sunk
    /\ Found(f)
    /\ flows' = flows \ {f}
    /\ send_waiting' = send_waiting \ {<<FlowKey(f), f.id>>}
    /\ sent' = [sent EXCEPT ![FlowKey(f)].answers = @ + 1]
    /\ frame' = [at |-> "send_handler", key |-> FlowKey(f), size |-> f.size]
    /\ UNCHANGED <<recv_flow_finish, flow_id, flow_id_to_tag, hashes, tracker,
                   posted, arrived>>

send_handler_returns ==
    /\ frame # Idle
    /\ frame' = Idle
    /\ \/ /\ ~recv_flow_finish
          /\ notify_receiver_receive_data(frame.key, frame.size)
       \/ recv_flow_finish /\ UNCHANGED <<hashes, arrived>>
    /\ UNCHANGED <<recv_flow_finish, sendside, tracker, posted>>

(***************************************************************************)
(* mark_rank_as_finished, when the handlers that the rank's workload waits *)
(* for have run.  The last rank stops the simulation: nothing is scheduled *)
(* any more, but events that are pending still happen.                     *)
(***************************************************************************)
HandlersRun(r) ==
    \A k \in Key :
        /\ k.src = r /\ k \notin FireAndForget => sent[k].answers = sent[k].calls
        /\ k.dst = r => 1 .. Len(posted[k]) \subseteq hashes.answered[k]

newly_finished(r) == IF r \in finished THEN 0 ELSE 1

mark_rank_as_finished(r) ==
    LET left == num_unfinished_ranks_ - newly_finished(r) IN
    /\ Running(r)
    /\ HandlersRun(r)
    /\ ~stopped
    /\ finished' = finished \cup {r}
    /\ num_unfinished_ranks_' = left
    /\ stopped' = (left = 0)
    /\ UNCHANGED <<recv_flow_finish, sendside, hashes, frame, posted, arrived>>

\* As with ns-3, callers post the receives of a key one at a time.
OneAtATime(k) == hashes.waiting[k] = Absent

Next ==
    \/ \E k \in Key, size \in Size :
          sim_send(k, size) \/ (OneAtATime(k) /\ sim_recv(k, size))
    \/ \E f \in flows : flow_finish_recv(f) \/ flow_finish_send(f)
    \/ send_handler_returns
    \/ \E r \in Rank : mark_rank_as_finished(r)

(***************************************************************************)
(* TCP delivers, and flow_finish_send returns, while the simulation runs.  *)
(***************************************************************************)
Deliver ==
    /\ ~stopped
    /\ \/ \E f \in flows : flow_finish_recv(f) \/ flow_finish_send(f)
       \/ send_handler_returns

Spec == Init /\ [][Next]_vars /\ WF_vars(Deliver)

-----------------------------------------------------------------------------
(***************************************************************************)
(* Properties.                                                             *)
(***************************************************************************)

\* The assert of notify_sender_sending_finished holds: whichever flow finishes
\* next, the MsgEvent of its send is there.
SendsFound == \A f \in flows : Found(f)

\* stop_simulation drops no work: no receive is left in recv_waiting, and a flow
\* that is still open is one of a native collective, whose sender waits for
\* nothing.
StopLosesNothing ==
    stopped =>
        /\ \A k \in Key : hashes.waiting[k] = Absent
        /\ \A f \in flows : FlowKey(f) \in FireAndForget
=============================================================================
