------------------------------ MODULE Statistics ------------------------------
(***************************************************************************)
(* Statistics::post_processing as operators on the statistics of the nodes *)
(* that have run: stats maps a node to its type, start and end.  The times *)
(* per type are the lengths of unions of intervals, and the overlap of     *)
(* computation and communication is computed from them and the wall time.  *)
(*                                                                         *)
(* Left out: CPU, remote-memory and invalid nodes, for which post_process- *)
(* ing throws (Workload), and the utilization averages (floating point).   *)
(***************************************************************************)
EXTENDS Integers, SequencesExt, FiniteSetsExt

CONSTANT TickRange  \* Tick is unsigned, modulo this (2^64 in Common.hh)

ASSUME TickRangeAssumption == TickRange \in Nat \ {0}

\* An operator named ..._Mut... is the operator it precedes with a plausible
\* slip in it; no specification uses it.

get_operator_type(type) == IF type = "COMP" THEN "GPU" ELSE "COMM"

\* The order of std::pair.
Earlier(i, j) == i[1] < j[1] \/ (i[1] = j[1] /\ i[2] < j[2])

(***************************************************************************)
(* _calculateTotalRuntimeFromIntervals: one pass over the sorted intervals *)
(* with a merged interval in hand.                                         *)
(***************************************************************************)
merge(m, interval) ==
    IF interval[1] <= m.end
    THEN [m EXCEPT !.end = IF interval[2] > @ THEN interval[2] ELSE @]
    ELSE [total |-> m.total + m.end - m.start,
          start |-> interval[1], end |-> interval[2]]

calculateTotalRuntimeFromIntervals(intervals) ==
    LET sorted == SortSeq(intervals, Earlier)
        m == FoldLeft(merge,
                      [total |-> 0, start |-> sorted[1][1], end |-> sorted[1][2]],
                      sorted)
    IN  IF intervals = <<>> THEN 0 ELSE m.total + m.end - m.start

NodesOf(stats, type) == {n \in DOMAIN stats : stats[n].type = type}

\* extract_type_time, for one type.
type_time(stats, type) ==
    LET nodes == SetToSeq(NodesOf(stats, type)) IN
    calculateTotalRuntimeFromIntervals(
        [i \in 1 .. Len(nodes) |-> <<stats[nodes[i]].start, stats[nodes[i]].end>>])

wall_time_MutLastStart(stats) == Max({0} \cup {stats[n].start : n \in DOMAIN stats})

wall_time(stats) == Max({0} \cup {stats[n].end : n \in DOMAIN stats})

extract_comp_comm_overlap(stats) ==
    IF NodesOf(stats, "GPU") = {} \/ NodesOf(stats, "COMM") = {} THEN 0
    ELSE (type_time(stats, "GPU") + type_time(stats, "COMM") - wall_time(stats))
             % TickRange
=============================================================================
