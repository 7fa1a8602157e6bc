------------------------------- MODULE Workload -------------------------------
(***************************************************************************)
(* The workload layer of one rank: it walks an execution trace, a graph of *)
(* nodes, and issues a node when all nodes it depends on have finished and *)
(* the hardware resource it needs is free.                                 *)
(*                                                                         *)
(* Workload::call is entered once from fire() and then once for every      *)
(* completion.  Each entry takes a snapshot of the dependency-free nodes   *)
(* and issues from it, in the order of their ids.  Issuing a receive may,  *)
(* with the ns-3 back end, run the receive's handler at once and so enter  *)
(* call again before the outer one has used up its snapshot; the variable  *)
(* stack holds what is left of the snapshot of each active call.           *)
(*                                                                         *)
(* Left out: simulated time (completions come in any order), operator      *)
(* durations, sizes and bandwidths, the local memory tracker, logging, and *)
(* traces in which a rank has a send or a receive of another rank (the     *)
(* program throws).                                                        *)
(***************************************************************************)
EXTENDS Integers, FiniteSets, Sequences

CONSTANTS
    Node,       \* ids of trace nodes
    Trace,      \* the traces considered
    Roofline,   \* sys->roofline_enabled
    ReplayOnly, \* sys->replay_only
    SyncRecv    \* may sim_recv run its handler before it returns (ns-3)?  the
                \* answers considered

NodeType == {"MEM", "COMP", "COLL", "SEND", "RECV", "INVALID", "METADATA"}

(***************************************************************************)
(* What the workload layer reads of a node: its type, is_cpu_op, whether   *)
(* tensor_size is 0, and its dependencies.                                 *)
(***************************************************************************)
NodeInfo == [type : NodeType, cpu : BOOLEAN, empty : BOOLEAN,
             parents : SUBSET Node]

(***************************************************************************)
(* A trace gives a node's dependencies smaller ids: that is how the trace  *)
(* generators number them, and it keeps the graph acyclic.                 *)
(***************************************************************************)
ASSUME NodeAssumption == Node \subseteq Nat /\ IsFiniteSet(Node)

ASSUME TraceAssumption ==
    \A t \in Trace : \A n \in DOMAIN t :
        /\ n \in Node
        /\ t[n] \in NodeInfo
        /\ \A m \in t[n].parents : m \in DOMAIN t /\ m < n

ASSUME ModeAssumption ==
    Roofline \in BOOLEAN /\ ReplayOnly \in BOOLEAN /\ SyncRecv \subseteq BOOLEAN

Slot == {"cpu", "gpu_comp", "gpu_comm"}

OperatorType == {"CPU", "GPU", "COMM", "REMOTE_MEM", "INVALID", "REPLAY"}

VARIABLES
    trace,        \* the trace of this rank
    sync_recv,    \* may sim_recv run its handler before it returns?
    fired,        \* has fire() been called?
    done,         \* resolver: nodes reported by finish_node
    ongoing,      \* resolver: nodes taken and not finished
    in_flight,    \* HardwareResource: num_in_flight_... of each slot
    stats,        \* Statistics: a node's recorded type and phase
    events,       \* completions still to be delivered, per node
    stack,        \* snapshots left to the active calls, innermost first
    in_call_events,  \* is Sys::call_events, which swallows exceptions, below?
    is_finished,  \* Workload::is_finished
    reports,      \* calls of report() and sim_notify_finished()
    aborted       \* exit, a failed assert or an exception ended the program

fixed == <<trace, sync_recv>>
vars == <<fixed, fired, done, ongoing, in_flight, stats, events, stack,
          in_call_events, is_finished, reports, aborted>>

Nodes == DOMAIN trace

Stat == [type : OperatorType \cup {"none"},
         phase : {"none", "started", "ended"}]

NoStat == [type |-> "none", phase |-> "none"]

Init ==
    /\ trace \in Trace
    /\ sync_recv \in SyncRecv
    /\ fired = FALSE
    /\ done = {}
    /\ ongoing = {}
    /\ in_flight = [s \in Slot |-> 0]
    /\ stats = [n \in DOMAIN trace |-> NoStat]
    /\ events = [n \in DOMAIN trace |-> 0]
    /\ stack = <<>>
    /\ in_call_events = FALSE
    /\ is_finished = FALSE
    /\ reports = 0
    /\ aborted = FALSE

-----------------------------------------------------------------------------
(***************************************************************************)
(* An operator named ..._Mut... is the operator it precedes with a         *)
(* plausible slip in it; no specification uses it.                         *)
(***************************************************************************)

(***************************************************************************)
(* The dependency resolver of the trace feeder (external): a node is free  *)
(* when everything it depends on is finished and it was not taken.         *)
(***************************************************************************)
dependancy_free_MutTakenIsEnough(d, o) ==
    {n \in Nodes : trace[n].parents \subseteq d \cup o /\ n \notin d \cup o}

dependancy_free(d, o) ==
    {n \in Nodes : trace[n].parents \subseteq d /\ n \notin d \cup o}

(***************************************************************************)
(* HardwareResource: the slots a node takes.  A receive takes none.        *)
(***************************************************************************)
SlotsOf(n) ==
    IF trace[n].cpu THEN {"cpu"}
    ELSE IF trace[n].type = "COMP" THEN {"gpu_comp"}
    ELSE IF trace[n].type = "RECV" THEN {}
    ELSE {"gpu_comm"}

is_available_MutNoCommLimit(n) ==
    \A s \in SlotsOf(n) \ {"gpu_comm"} : in_flight[s] = 0

is_available(n) == \A s \in SlotsOf(n) : in_flight[s] = 0

occupy(h, n) == [s \in Slot |-> IF s \in SlotsOf(n) THEN h[s] + 1 ELSE h[s]]

release(h, n) == [s \in Slot |-> IF s \in SlotsOf(n) THEN h[s] - 1 ELSE h[s]]

(***************************************************************************)
(* Statistics::record_start.  get_operator_type has no case for METADATA:  *)
(* the assert fails in a debug build and the type is an uninitialized      *)
(* value in a release build.                                               *)
(***************************************************************************)
get_operator_type(n) ==
    CASE trace[n].type = "MEM" -> {"REMOTE_MEM"}
      [] trace[n].type = "COMP" -> IF trace[n].cpu THEN {"CPU"} ELSE {"GPU"}
      [] trace[n].type \in {"COLL", "SEND", "RECV"} -> {"COMM"}
      [] trace[n].type = "INVALID" -> {"INVALID"}
      [] trace[n].type = "METADATA" -> OperatorType

record_start(n, type) ==
    [stats EXCEPT ![n] = [type |-> type, phase |-> "started"]]

record_end(st, n) == [st EXCEPT ![n].phase = "ended"]

(***************************************************************************)
(* post_processing: it exits on a node without an end time, and            *)
(* extract_comp_comm_overlap throws on a type other than GPU and COMM.     *)
(***************************************************************************)
post_processing_exits == \E n \in Nodes : stats[n].phase = "started"

extract_comp_comm_overlap_throws ==
    \E n \in Nodes : stats[n].type \notin {"none", "GPU", "COMM"}

(***************************************************************************)
(* How issue() disposes of a node.                                         *)
(***************************************************************************)
Replayed(n) ==
    \/ ReplayOnly
    \/ trace[n].type = "COMP" /\ (~Roofline \/ trace[n].cpu)

Skipped(n) ==
    /\ ~Replayed(n)
    /\ \/ trace[n].type \in {"INVALID", "METADATA"}
       \/ trace[n].type = "COMP" /\ trace[n].empty

IsComm(n) == ~Replayed(n) /\ trace[n].type \in {"COLL", "SEND", "RECV"}

Throws(n) == IsComm(n) /\ trace[n].cpu

-----------------------------------------------------------------------------
(***************************************************************************)
(* Workload::fire: the first entry into call, with no node.                *)
(***************************************************************************)
fire ==
    /\ ~fired
    /\ fired' = TRUE
    /\ stack' = <<dependancy_free(done, ongoing)>>
    /\ UNCHANGED <<fixed, done, ongoing, in_flight, stats, events,
                   in_call_events, is_finished, reports, aborted>>

(***************************************************************************)
(* The part of Workload::call before issue_dep_free_nodes, for a node that *)
(* completed: free its slot, record its end, finish it, and take the       *)
(* snapshot of issue_dep_free_nodes.  st, o, h and k are the statistics,   *)
(* ongoing nodes, slots and active calls at the time of the entry.         *)
(***************************************************************************)
EnterCall(n, st, o, h, k) ==
    /\ in_flight' = release(h, n)
    /\ stats' = record_end(st, n)
    /\ done' = done \cup {n}
    /\ ongoing' = o \ {n}
    /\ stack' = <<dependancy_free(done \cup {n}, o \ {n})>> \o k

(***************************************************************************)
(* Who delivers a completion: Sys::call_events what was registered with    *)
(* register_event, a handler of the network what was sent or received; for *)
(* collectives and remote memory it may be either.                         *)
(***************************************************************************)
MayBeRegistered(n) ==
    IF Replayed(n) \/ trace[n].type = "COMP" THEN {TRUE}
    ELSE IF trace[n].type \in {"SEND", "RECV"} THEN {FALSE}
    ELSE BOOLEAN

(***************************************************************************)
(* An exception: call_events catches it, logs and goes on with its next    *)
(* event; anywhere else it ends the program.                               *)
(***************************************************************************)
Throw ==
    \/ in_call_events /\ stack' = <<>> /\ UNCHANGED aborted
    \/ ~in_call_events /\ aborted' = TRUE /\ UNCHANGED stack

(***************************************************************************)
(* The event loop delivers a completion.  call returns at once when the    *)
(* workload is finished.                                                   *)
(***************************************************************************)
complete(n) ==
    /\ stack = <<>> /\ ~aborted
    /\ events[n] > 0
    /\ events' = [events EXCEPT ![n] = @ - 1]
    /\ in_call_events' \in MayBeRegistered(n)
    /\ \/ is_finished /\ UNCHANGED <<done, ongoing, in_flight, stats, stack>>
       \/ ~is_finished /\ EnterCall(n, stats, ongoing, in_flight, stack)
    /\ UNCHANGED <<fixed, fired, is_finished, reports, aborted>>

(***************************************************************************)
(* One turn of the loop of issue_dep_free_nodes: the smallest id left in   *)
(* the snapshot of the innermost call.                                     *)
(***************************************************************************)
NextInLoop == CHOOSE n \in Head(stack) : \A m \in Head(stack) : n <= m

InLoop == stack # <<>> /\ Head(stack) # {} /\ ~aborted

RestOfLoop == <<Head(stack) \ {NextInLoop}>> \o Tail(stack)

not_available ==
    /\ InLoop
    /\ ~is_available(NextInLoop)
    /\ stack' = RestOfLoop
    /\ UNCHANGED <<fixed, fired, done, ongoing, in_flight, stats, events,
                   in_call_events, is_finished, reports, aborted>>

(***************************************************************************)
(* issue() for nodes that complete later: replay, remote memory, roofline  *)
(* compute and communication.  A completion is scheduled.                  *)
(***************************************************************************)
issue_async ==
    LET n == NextInLoop IN
    /\ InLoop
    /\ is_available(n) /\ ~Skipped(n) /\ ~Throws(n)
    /\ ongoing' = ongoing \cup {n}
    /\ in_flight' = occupy(in_flight, n)
    /\ \E type \in get_operator_type(n) : stats' = record_start(n, type)
    /\ events' = [events EXCEPT ![n] = @ + 1]
    /\ stack' = RestOfLoop
    /\ UNCHANGED <<fixed, fired, done, in_call_events, is_finished, reports,
                   aborted>>

(***************************************************************************)
(* issue() for a receive whose message is already here, with the ns-3 back *)
(* end: the handler enters call before issue() returns.                    *)
(***************************************************************************)
issue_recv_now ==
    LET n == NextInLoop IN
    /\ sync_recv
    /\ InLoop
    /\ IsComm(n) /\ trace[n].type = "RECV" /\ is_available(n) /\ ~Throws(n)
    /\ \/ /\ ~is_finished
          /\ EnterCall(n, record_start(n, "COMM"), ongoing \cup {n},
                       occupy(in_flight, n), RestOfLoop)
       \/ /\ is_finished
          /\ ongoing' = ongoing \cup {n}
          /\ in_flight' = occupy(in_flight, n)
          /\ stats' = record_start(n, "COMM")
          /\ stack' = RestOfLoop
          /\ UNCHANGED done
    /\ UNCHANGED <<fixed, fired, events, in_call_events, is_finished, reports,
                   aborted>>

(***************************************************************************)
(* issue() for nodes that skip_invalid finishes on the spot.               *)
(***************************************************************************)
skip_invalid ==
    LET n == NextInLoop IN
    /\ InLoop
    /\ is_available(n) /\ Skipped(n)
    /\ done' = done \cup {n}
    /\ \E type \in get_operator_type(n) :
           stats' = record_end(record_start(n, type), n)
    /\ in_flight' = release(occupy(in_flight, n), n)
    /\ stack' = RestOfLoop
    /\ UNCHANGED <<fixed, fired, ongoing, events, in_call_events, is_finished,
                   reports, aborted>>

(***************************************************************************)
(* issue() for communication on the CPU: issue_comm throws when the node   *)
(* is already taken, occupies its slot and is recorded as started.         *)
(***************************************************************************)
issue_throws ==
    LET n == NextInLoop IN
    /\ InLoop
    /\ is_available(n) /\ Throws(n)
    /\ ongoing' = ongoing \cup {n}
    /\ in_flight' = occupy(in_flight, n)
    /\ \E type \in get_operator_type(n) : stats' = record_start(n, type)
    /\ Throw
    /\ UNCHANGED <<fixed, fired, done, events, in_call_events, is_finished,
                   reports>>

\* In a debug build the assert of get_operator_type ends the program.
assert_fails ==
    LET n == NextInLoop IN
    /\ InLoop
    /\ is_available(n) /\ trace[n].type = "METADATA"
    /\ aborted' = TRUE
    /\ UNCHANGED <<fixed, fired, done, ongoing, in_flight, stats, events,
                   stack, in_call_events, is_finished, reports>>

(***************************************************************************)
(* The end of Workload::call: report and notify when nothing is left.      *)
(***************************************************************************)
NothingLeft_MutOnlyAfterFire ==
    /\ done = {}
    /\ dependancy_free(done, ongoing) = {}
    /\ ongoing = {}

NothingLeft ==
    /\ dependancy_free(done, ongoing) = {}
    /\ ongoing = {}
    /\ \A s \in Slot : in_flight[s] = 0

return_from_call_MutNoFlag ==
    /\ stack # <<>> /\ Head(stack) = {} /\ ~aborted
    /\ stack' = Tail(stack)
    /\ reports' = IF NothingLeft THEN reports + 1 ELSE reports
    /\ UNCHANGED <<fixed, fired, done, ongoing, in_flight, stats, events,
                   in_call_events, is_finished, aborted>>

return_from_call ==
    /\ stack # <<>> /\ Head(stack) = {} /\ ~aborted
    /\ \/ /\ ~NothingLeft
          /\ stack' = Tail(stack)
          /\ UNCHANGED <<is_finished, reports, aborted>>
       \/ /\ NothingLeft
          /\ ~post_processing_exits /\ ~extract_comp_comm_overlap_throws
          /\ stack' = Tail(stack)
          /\ is_finished' = TRUE
          /\ reports' = reports + 1
          /\ UNCHANGED aborted
       \/ /\ NothingLeft /\ post_processing_exits
          /\ aborted' = TRUE
          /\ UNCHANGED <<stack, is_finished, reports>>
       \/ /\ NothingLeft
          /\ ~post_processing_exits /\ extract_comp_comm_overlap_throws
          /\ Throw
          /\ UNCHANGED <<is_finished, reports>>
    /\ UNCHANGED <<fixed, fired, done, ongoing, in_flight, stats, events,
                   in_call_events>>

LoopStep ==
    \/ not_available
    \/ issue_async
    \/ issue_recv_now
    \/ skip_invalid
    \/ issue_throws
    \/ assert_fails
    \/ return_from_call

Next ==
    \/ fire
    \/ \E n \in Nodes : complete(n)
    \/ LoopStep

(***************************************************************************)
(* The program calls fire, runs its loops, and the event loop delivers     *)
(* every completion that is in it.                                         *)
(***************************************************************************)
Fairness ==
    /\ WF_vars(fire)
    /\ WF_vars(LoopStep)
    /\ \A n \in Node : WF_vars(n \in Nodes /\ complete(n))

Spec == Init /\ [][Next]_vars /\ Fairness

-----------------------------------------------------------------------------
(***************************************************************************)
(* Properties.                                                             *)
(***************************************************************************)

\* A slot serves one node at a time and is given back when that node
\* finishes: the asserts in HardwareResource::occupy and release hold, and
\* the counters agree with the nodes the resolver considers ongoing.
SlotsExclusive ==
    \A s \in Slot :
        /\ in_flight[s] = Cardinality({n \in ongoing : s \in SlotsOf(n)})
        /\ in_flight[s] <= 1

\* A node starts only after everything it depends on has finished, whichever
\* completion, snapshot or nested call leads to its issue.
DependencyOrder ==
    \A n \in Nodes : stats[n].phase # "none" => trace[n].parents \subseteq done

(***************************************************************************)
(* The traces and back ends that the workload layer copes with.  A nested  *)
(* completion leaves the outer snapshot stale, so that a node is issued    *)
(* twice; skip_invalid finishes a node without a look at the nodes that    *)
(* this makes free; and the report throws over an operator that is neither *)
(* GPU nor communication, an exception that call_events swallows.          *)
(***************************************************************************)
Regular ==
    /\ ~sync_recv
    /\ \A n \in Nodes :
          /\ trace[n].type \in {"COMP", "COLL", "SEND", "RECV"} /\ ~trace[n].cpu
          /\ \A m \in trace[n].parents : ~Skipped(m)

\* The back end is told that the rank finished once, and not before every
\* node of the trace has run; nothing is recorded as started afterwards.
FinishedMeansAllEnded ==
    Regular =>
        /\ reports = IF is_finished THEN 1 ELSE 0
        /\ is_finished => \A n \in Nodes : stats[n].phase = "ended"

\* The rank reports and notifies the back end in the end: the simulation does
\* not run out of events with nodes of the trace still to be issued, waiting
\* for a slot or passed over by a snapshot.
Terminates == Regular ~> is_finished
=============================================================================
