---------------------------- MODULE CollectivePlans ----------------------------
(***************************************************************************)
(* Which algorithm, over which ranks and under which stream number, a rank *)
(* runs for a collective of its trace: CollectiveImplLookup, the           *)
(* communicator groups of the workload, their cached CollectivePlans, and  *)
(* Sys::generate_all_reduce and its like.                                  *)
(*                                                                         *)
(* Every rank decides alone, from the same configuration and its own       *)
(* trace, but the ranks of a collective must come to the same answers:     *)
(* messages carry the stream number as their tag.                          *)
(*                                                                         *)
(* A collective is one stream here (CollectiveGeneration has the chunks).  *)
(* Groups go by their names, which are numbers; 0 is the default group.    *)
(***************************************************************************)
EXTENDS LogicalTopology, FiniteSets

CONSTANTS
    Scenario,   \* configurations with a trace for every rank
    GroupRange, \* stream numbers of a group: 1000000 in the code
    IntRange    \* values of an int: 2^32 in the code

ComType == {"All_Reduce", "All_Gather", "Reduce_Scatter", "All_to_All"}

(***************************************************************************)
(* A scenario has the number of ranks; what the system file says of the    *)
(* collectives: native (the names of the implementations of a type, by     *)
(* dimension), custom (the custom algorithms of a type, one if all is      *)
(* well) and per_node (the custom algorithm of a trace node); json, the    *)
(* groups of the group file (their ranks in the order of the file); and    *)
(* trace, what each rank issues: collectives, and metadata nodes that      *)
(* define groups.                                                          *)
(***************************************************************************)
ScenarioAssumption ==
    /\ GroupRange \in Nat \ {0}
    /\ IntRange \in Nat \ {0} /\ IntRange % 2 = 0
    /\ \A s \in Scenario :
          /\ DOMAIN s.native \subseteq ComType /\ DOMAIN s.custom \subseteq ComType
          /\ DOMAIN s.json \subseteq Nat \ {0}
          /\ DOMAIN s.trace = 0 .. s.ranks - 1

VARIABLES
    sc,     \* the scenario
    sys,    \* of each rank: the trace position, comm_groups, num_streams and
            \* the collectives generated so far
    exited  \* has a rank ended the program?

vars == <<sc, sys, exited>>

Rank == 0 .. sc.ranks - 1

-----------------------------------------------------------------------------
(***************************************************************************)
(* An operator named ..._Mut... is the operator it precedes with a         *)
(* plausible slip in it; no specification uses it.                         *)
(***************************************************************************)

\* Stream numbers and their counters are of type int, and wrap.
Int32(n) == ((n + (IntRange \div 2)) % IntRange) - (IntRange \div 2)

(***************************************************************************)
(* The constructor of CommunicatorGroup.  The list is kept as it came; the *)
(* position is that in the sorted list, or -1.  made tells the objects     *)
(* apart: the trace position at which the group was made, 0 for the file.  *)
(***************************************************************************)
set_id(id) == Int32(id * GroupRange)

position(NPUs, r) ==
    IF r \in ToSet(NPUs) THEN Cardinality({i \in ToSet(NPUs) : i < r}) ELSE -1

CommunicatorGroup(id, NPUs, r, made) ==
    [id |-> id, made |-> made, involved_NPUs |-> NPUs, num_streams |-> set_id(id),
     pos_in_group |-> position(NPUs, r), comm_plans |-> <<>>]

initialize_comm_groups(s, r) ==
    [name \in DOMAIN s.json |-> CommunicatorGroup(name, s.json[name], r, 0)]

(***************************************************************************)
(* setup_collective_impl_from_config: the tables of the lookup.  A name    *)
(* that is not an implementation, and a custom list of another length than *)
(* one, end the program at once.  The window 4 stands for any number after *)
(* direct and oneDirect.                                                   *)
(***************************************************************************)
Algorithm(type, window, file) == [type |-> type, window |-> window, file |-> file]

Builtin(type) == Algorithm(type, -1, "none")

generate_collective_impl_from_input ==
    [ ring |-> Builtin("Ring"), oneRing |-> Builtin("OneRing"),
      direct |-> Builtin("Direct"), direct4 |-> Algorithm("Direct", 4, "none"),
      oneDirect |-> Builtin("OneDirect"),
      oneDirect4 |-> Algorithm("OneDirect", 4, "none"),
      doubleBinaryTree |-> Builtin("DoubleBinaryTree"),
      halvingDoubling |-> Builtin("HalvingDoubling"),
      oneHalvingDoubling |-> Builtin("OneHalvingDoubling") ]

Refused(s) ==
    \/ \E type \in DOMAIN s.native :
          ~(ToSet(s.native[type]) \subseteq DOMAIN generate_collective_impl_from_input)
    \/ \E type \in DOMAIN s.custom : Len(s.custom[type]) # 1

native_impl_per_coll_dim(s, type) ==
    [d \in 1 .. Len(s.native[type]) |->
        generate_collective_impl_from_input[s.native[type][d]]]

custom_impl(filename) == <<Algorithm("Custom", -1, filename)>>

Init ==
    /\ sc \in Scenario
    /\ sys = [r \in Rank |->
                [next |-> 1, num_streams |-> 0, log |-> <<>>,
                 comm_groups |-> initialize_comm_groups(sc, r)]]
    /\ exited = Refused(sc)

-----------------------------------------------------------------------------
\* get_collective_impl; <<>> where it throws.
get_collective_impl(type, node) ==
    IF node \in DOMAIN sc.per_node THEN custom_impl(sc.per_node[node])
    ELSE IF type \in DOMAIN sc.custom THEN custom_impl(sc.custom[type][1])
    ELSE IF type \in DOMAIN sc.native THEN native_impl_per_coll_dim(sc, type)
    ELSE <<>>

Whole == [ring |-> <<>>, whole |-> TRUE]

PlanRing(NPUs, r) == CustomRing(NPUs)

\* The implementations of a group smaller than the system.
Reduced(impl) ==
    IF Len(impl) > 1 THEN <<Builtin("Ring")>> ELSE impl

(***************************************************************************)
(* get_collective_plan without a plan for the type: a group of all ranks   *)
(* uses the dimensions of the system, a smaller one a ring of its own.     *)
(***************************************************************************)
NewPlan(g, r, type, node) ==
    LET impl == get_collective_impl(type, node) IN
    IF Len(g.involved_NPUs) = sc.ranks
    THEN [impl |-> impl, topology |-> Whole]
    ELSE [impl |-> IF impl = <<>> THEN impl ELSE Reduced(impl),
          topology |-> [ring |-> PlanRing(g.involved_NPUs, r), whole |-> FALSE]]


PlanFor(g, r, type, node) ==
    IF type \in DOMAIN g.comm_plans THEN g.comm_plans[type]
    ELSE NewPlan(g, r, type, node)

(***************************************************************************)
(* One stream: num_streams of the rank goes up for every collective, and   *)
(* that of the group gives the number of a collective of the group.  The   *)
(* log also says in which group object it was.                             *)
(***************************************************************************)
Object(g) == [id |-> g.id, made |-> g.made, involved_NPUs |-> g.involved_NPUs]

NoGroup == [id |-> 0, made |-> 0, involved_NPUs |-> <<>>]

Generated(y, op, plan, stream, pos, object) ==
    [y EXCEPT
        !.next = @ + 1,
        !.num_streams = Int32(@ + 1),
        !.log = Append(@, [node |-> op.node, pg |-> op.pg, type |-> op.type,
                           impl |-> plan.impl, topology |-> plan.topology,
                           stream |-> stream, pos |-> pos, group |-> object])]

in_default_group(r, op) ==
    LET plan == [impl |-> get_collective_impl(op.type, op.node), topology |-> Whole]
    IN  IF plan.impl = <<>>
        THEN exited' = TRUE /\ UNCHANGED sys
        ELSE /\ sys' = [sys EXCEPT
                    ![r] = Generated(@, op, plan, @.num_streams, r, NoGroup)]
             /\ UNCHANGED exited

StreamOf_MutRank(y, g) == y.num_streams

StreamOf(y, g) == g.num_streams

in_group(r, op) ==
    LET g == sys[r].comm_groups[op.pg]
        plan == PlanFor(g, r, op.type, op.node)
        kept == [g EXCEPT !.num_streams = Int32(@ + 1),
                          !.comm_plans = (op.type :> plan) @@ @]
    IN  IF plan.impl = <<>>
        THEN exited' = TRUE /\ UNCHANGED sys
        ELSE /\ sys' = [sys EXCEPT
                    ![r] = [Generated(@, op, plan, StreamOf(@, g), g.pos_in_group,
                                      Object(g))
                               EXCEPT !.comm_groups[op.pg] = kept]]
             /\ UNCHANGED exited

Op(r) == sc.trace[r][sys[r].next]

HasOp(r) == ~exited /\ sys[r].next <= Len(sc.trace[r])

\* What the rank has for the name of a group.
extract_comm_group(r, pg) ==
    IF pg = 0 THEN "default"
    ELSE IF pg \in DOMAIN sys[r].comm_groups THEN "group" ELSE "not found"

issue_coll_comm(r) ==
    /\ HasOp(r)
    /\ Op(r).kind = "coll"
    /\ CASE extract_comm_group(r, Op(r).pg) = "default" -> in_default_group(r, Op(r))
         [] extract_comm_group(r, Op(r).pg) = "group" -> in_group(r, Op(r))
         [] OTHER -> exited' = TRUE /\ UNCHANGED sys
    /\ UNCHANGED sc

(***************************************************************************)
(* The groups of a PyTorch trace, numbered one up from their names, take   *)
(* the place of groups of the same name; without ranks, all are in it.  A  *)
(* group of the file whose name is one up keeps the same number.           *)
(***************************************************************************)
Named(pg, r) ==
    CommunicatorGroup(
        pg.name + 1,
        IF pg.ranks = <<>> THEN [i \in 1 .. sc.ranks |-> i - 1] ELSE pg.ranks, r,
        sys[r].next)

issue_pytorch_pg_metadata(r) ==
    /\ HasOp(r)
    /\ Op(r).kind = "metadata"
    /\ LET made == [n \in {pg.name : pg \in Op(r).groups} |->
                        Named(CHOOSE pg \in Op(r).groups : pg.name = n, r)]
       IN  sys' = [sys EXCEPT ![r].comm_groups = made @@ @, ![r].next = @ + 1]
    /\ UNCHANGED <<sc, exited>>

Next == \E r \in Rank : issue_coll_comm(r) \/ issue_pytorch_pg_metadata(r)

Spec == Init /\ [][Next]_vars

-----------------------------------------------------------------------------
Logged(r) == ToSet(sys[r].log)

(***************************************************************************)
(* "We want to designate different collective algorithms for different     *)
(* collective operations": the custom algorithm of the node, if it has     *)
(* one, else that of the type, else the native ones, which a group smaller *)
(* than the system replaces by one ring when they are of several           *)
(* dimensions.  A group object decides once for each type, so in a group   *)
(* the node is that of its first collective of the type.                   *)
(***************************************************************************)
Decider(log, i) ==
    IF log[i].pg = 0 THEN log[i].node
    ELSE log[Min({j \in DOMAIN log : /\ log[j].group = log[i].group
                                     /\ log[j].pg = log[i].pg
                                     /\ log[j].type = log[i].type})].node

LookupOrder ==
    \A r \in Rank : \A i \in DOMAIN sys[r].log :
        LET e == sys[r].log[i]
            node == Decider(sys[r].log, i)
        IN  /\ node \in DOMAIN sc.per_node => e.impl[1].file = sc.per_node[node]
            /\ node \notin DOMAIN sc.per_node /\ e.type \in DOMAIN sc.custom
                  => e.impl[1].file = sc.custom[e.type][1]
            /\ node \notin DOMAIN sc.per_node /\ e.type \notin DOMAIN sc.custom
                  => IF ~e.topology.whole /\ Len(sc.native[e.type]) > 1
                     THEN e.impl = <<Builtin("Ring")>>
                     ELSE e.impl = native_impl_per_coll_dim(sc, e.type)

(***************************************************************************)
(* The messages of a collective find each other: the ranks that run a      *)
(* collective of a group give it the same stream number.                   *)
(***************************************************************************)
StreamNumbersAgree ==
    \A r, s \in Rank : \A e \in Logged(r), f \in Logged(s) :
        e.node = f.node /\ e.pg = f.pg => e.stream = f.stream

(***************************************************************************)
(* A group has the GroupRange numbers from its id on.  As long as two      *)
(* collectives of a rank stay in the numbers of their groups, they share a *)
(* number only if their groups are two objects that were given one id.     *)
(***************************************************************************)
InRange(e) ==
    e.stream \in e.group.id * GroupRange .. (e.group.id + 1) * GroupRange - 1

StreamNumbersApart ==
    \A r \in Rank : \A i, j \in DOMAIN sys[r].log :
        LET e == sys[r].log[i]
            f == sys[r].log[j]
        IN  i # j /\ e.stream = f.stream /\ InRange(e) /\ InRange(f)
                => /\ e.group.id = f.group.id
                   /\ <<e.pg, e.group.made>> # <<f.pg, f.group.made>>

(***************************************************************************)
(* The ranks of a collective run the same algorithm on the same topology,  *)
(* and a rank is itself in the ring it builds.                             *)
(***************************************************************************)
PlansAgree ==
    \A r, s \in Rank : \A e \in Logged(r), f \in Logged(s) :
        e.node = f.node /\ e.pg = f.pg =>
            /\ e.impl = f.impl /\ e.topology = f.topology
            /\ ~e.topology.whole =>
                  \E k \in DOMAIN e.topology.ring : e.topology.ring[k] = r

(***************************************************************************)
(* Where a custom algorithm runs on a group, the rank takes the trace file *)
(* of its position, and convert_algo_rank_to_real_rank maps positions to   *)
(* ranks: the rank at a position is the one that the others address by it. *)
(***************************************************************************)
convert_algo_rank_to_real_rank(g, algo_rank) == g.involved_NPUs[algo_rank + 1]

PositionsMatch ==
    \A r \in Rank : \A e \in Logged(r) : e.pg # 0 =>
        convert_algo_rank_to_real_rank(e.group, e.pos) = r
=============================================================================
