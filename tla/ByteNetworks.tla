----------------------------- MODULE ByteNetworks ------------------------------
(***************************************************************************)
(* The two network front ends that pair messages with receives by counting *)
(* bytes, ns-3 and htsim, against the one promise that the system layer    *)
(* relies on: ByteMatching.                                                *)
(*                                                                         *)
(* kind says which front end the program was built with.  The variables    *)
(* are those of both; one that a front end does not have is Unused.        *)
(***************************************************************************)
EXTENDS Integers, Sequences, FiniteSets

CONSTANTS
    Rank,          \* the simulated NPUs
    Key,           \* the keys (tag, source, destination) in use
    Size,          \* message sizes
    FireAndForget, \* keys of native collectives: no handler waits for a send
    Ns3MaxSends,   \* bound on the sim_send calls of a key
    HtsimMaxSends, \* bound on the sim_send calls
    MaxRecvs       \* bound on the sim_recv calls of a key

VARIABLES
    kind,  \* "ns3" or "htsim"
    \* of both
    hashes, flows, frame, finished, num_unfinished_ranks_, posted, arrived, sent,
    \* of ns-3
    portNumber, sender_src_port_map, sim_send_waiting_hash,
    node_to_bytes_sent_map, status,
    \* of htsim
    recv_flow_finish, flow_id, flow_id_to_tag, send_waiting, stopped

ns3vars ==
    <<portNumber, sender_src_port_map, sim_send_waiting_hash,
      node_to_bytes_sent_map, status>>

htsimvars ==
    <<recv_flow_finish, flow_id, flow_id_to_tag, send_waiting, stopped>>

vars ==
    <<kind, hashes, flows, frame, finished, num_unfinished_ranks_, posted, arrived,
      sent, ns3vars, htsimvars>>

Ns3 == INSTANCE Ns3Network WITH MaxSends <- Ns3MaxSends

Htsim == INSTANCE HtsimNetwork WITH MaxSends <- HtsimMaxSends

ASSUME NetworkAssumption ==
    /\ Ns3!KeyAssumption /\ Ns3!BoundAssumption
    /\ Htsim!KeyAssumption /\ Htsim!BoundAssumption
    /\ IsFiniteSet(Rank)

Unused == <<>>

InitNs3 ==
    /\ kind = "ns3" /\ Ns3!Init
    /\ recv_flow_finish = Unused /\ flow_id = Unused /\ flow_id_to_tag = Unused
    /\ send_waiting = Unused /\ stopped = Unused

InitHtsim ==
    /\ kind = "htsim" /\ Htsim!Init
    /\ portNumber = Unused /\ sender_src_port_map = Unused
    /\ sim_send_waiting_hash = Unused /\ node_to_bytes_sent_map = Unused
    /\ status = Unused

Init == InitNs3 \/ InitHtsim

NextNs3 == kind = "ns3" /\ Ns3!Next /\ UNCHANGED <<kind, htsimvars>>

NextHtsim == kind = "htsim" /\ Htsim!Next /\ UNCHANGED <<kind, ns3vars>>

Next == NextNs3 \/ NextHtsim

(***************************************************************************)
(* Both simulators deliver what is under way, and their callbacks return.  *)
(***************************************************************************)
Deliver ==
    \/ kind = "ns3" /\ Ns3!Deliver /\ UNCHANGED <<kind, htsimvars>>
    \/ kind = "htsim" /\ Htsim!Deliver /\ UNCHANGED <<kind, ns3vars>>

Spec == Init /\ [][Next]_vars /\ WF_vars(Deliver)

-----------------------------------------------------------------------------
(***************************************************************************)
(* Properties.                                                             *)
(***************************************************************************)

\* The exits of qp_finish and the assert of notify_sender_sending_finished are
\* never reached: a flow that finishes finds its own tag and MsgEvent, however
\* many flows of its key are open and in whatever order they finish.
SendsFound == IF kind = "ns3" THEN Ns3!NoErrorExit ELSE Htsim!SendsFound

\* The end of the simulation drops no work that a rank waits for, also when a
\* rank reports twice and though ranks report with sends of collectives under
\* way: no receive is left in the front end's maps, not even in part, and every
\* flow still open is a collective's, whose sender waits for nothing.
EndLosesNothing ==
    IF kind = "ns3" THEN Ns3!EndLosesNothing ELSE Htsim!StopLosesNothing

\* No byte is lost or counted twice, whichever end of a flow notifies the
\* receiver and whatever the sender's handler calls in between: receives are
\* answered as ByteMatching says, as long as those of a key are posted one at
\* a time.
Matching == INSTANCE ByteMatching WITH
    sent <- [k \in Key |-> sent[k].bytes],
    answered <- hashes.answered

ImplementsByteMatching == Matching!BSpec

\* Unless the simulation ends before, a receive is answered in the end when the
\* sends of its key cover it, and so is every send.
Ended == IF kind = "ns3" THEN status = "done" ELSE stopped

Unanswered ==
    \/ flows # {}
    \/ \E k \in Key : \E n \in 1 .. Len(posted[k]) :
          posted[k][n] <= sent[k].bytes /\ n \notin hashes.answered[k]

CallsAnswered == Unanswered ~> (~Unanswered \/ Ended)
=============================================================================
