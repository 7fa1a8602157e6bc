--------------------------- MODULE WorkloadAccounting ---------------------------
(***************************************************************************)
(* What a rank reports about its run: Statistics, HardwareResource and     *)
(* LocalMemUsageTracker driven by the workload layer, in simulated time.   *)
(*                                                                         *)
(* The workload layer is the one of Workload without nested calls: a       *)
(* completion records the end of its node and issues, at the same tick,    *)
(* every node that is free of dependencies and finds its slot free.  A     *)
(* replayed node takes its runtime; communication takes any time.          *)
(*                                                                         *)
(* Left out: nodes on the CPU, remote memory and skipped nodes.            *)
(***************************************************************************)
EXTENDS Statistics, LocalMemUsageTracker

CONSTANTS
    Config,   \* the runs considered: trace, replay_only, size of each tensor
    MaxTick   \* bound on simulated time

ASSUME ConfigAssumption ==
    /\ MaxTick \in Nat /\ MaxTick < TickRange
    /\ \A c \in Config :
          /\ c.replay_only \in BOOLEAN
          /\ \A n \in DOMAIN c.trace :
                /\ c.trace[n].type \in {"COMP", "COLL", "RECV"}
                /\ c.trace[n].runtime \in Nat \ {0}
                /\ \A m \in c.trace[n].parents : m \in DOMAIN c.trace /\ m < n
                /\ c.trace[n].inputs \cup c.trace[n].outputs \subseteq DOMAIN c.size

VARIABLES
    config,
    now,           \* Sys::boostedTick()
    stats,         \* Statistics: type, start and end of every issued node
    tics_gpu_ops,  \* HardwareResource
    mem,           \* the LocalMemUsageTracker
    reported       \* the tick of report(), INVALID_TICK before

vars == <<config, now, stats, tics_gpu_ops, mem, reported>>

INVALID_TICK == -1

trace == config.trace

Done(st) == {n \in DOMAIN st : st[n].end # INVALID_TICK}

Ongoing(st) == DOMAIN st \ Done(st)

Replayed(n) == config.replay_only \/ trace[n].type = "COMP"

-----------------------------------------------------------------------------
\* HardwareResource::is_available: a receive takes no slot.
is_available(st, n) ==
    trace[n].type = "RECV" \/ \A m \in Ongoing(st) : trace[m].type # trace[n].type

Free(st) ==
    {n \in DOMAIN trace \ DOMAIN st : trace[n].parents \subseteq Done(st)}

(***************************************************************************)
(* issue_dep_free_nodes at the present tick: in the order of the ids, the  *)
(* free nodes that find their slot free.  s holds what the issue changes.  *)
(***************************************************************************)
tics_of_MutAll(n) == trace[n].runtime

tics_of(n) == IF Replayed(n) THEN trace[n].runtime ELSE 0

issue(s, n) ==
    [ stats |-> With(s.stats,
                     [m \in {n} |-> [type |-> get_operator_type(trace[n].type),
                                     start |-> now, end |-> INVALID_TICK]]),
      tics |-> s.tics + tics_of(n),
      mem |-> recordStart(s.mem, n, now) ]

issue_dep_free_nodes(s) ==
    FoldLeft(LAMBDA t, n : IF is_available(t.stats, n) THEN issue(t, n) ELSE t,
             s, SetToSortSeq(Free(s.stats), <))

Becomes(s) ==
    /\ stats' = s.stats
    /\ tics_gpu_ops' = s.tics
    /\ mem' = s.mem

Init ==
    /\ config \in Config
    /\ now = 0
    /\ stats = Empty
    /\ tics_gpu_ops = 0
    /\ mem = NewTracker
    /\ reported = INVALID_TICK

\* Workload::fire.
fire ==
    /\ stats = Empty
    /\ Becomes(issue_dep_free_nodes(
           [stats |-> stats, tics |-> tics_gpu_ops, mem |-> mem]))
    /\ UNCHANGED <<config, now, reported>>

(***************************************************************************)
(* Workload::call for the completion of n, with report() at its end.       *)
(***************************************************************************)
call(n) ==
    LET s == issue_dep_free_nodes(
                [stats |-> [stats EXCEPT ![n].end = now],
                 tics |-> tics_gpu_ops,
                 mem |-> recordEnd(mem, n, trace[n], config.size, now)])
    IN
    /\ n \in Ongoing(stats)
    /\ Replayed(n) => now = stats[n].start + trace[n].runtime
    /\ Becomes(s)
    /\ reported' = IF Free(s.stats) \cup Ongoing(s.stats) = {} THEN now ELSE reported
    /\ UNCHANGED <<config, now>>

\* Simulated time passes when no replayed node ends at this tick.
tick ==
    /\ Ongoing(stats) # {}
    /\ now < MaxTick
    /\ \A n \in Ongoing(stats) :
          Replayed(n) => now < stats[n].start + trace[n].runtime
    /\ now' = now + 1
    /\ UNCHANGED <<config, stats, tics_gpu_ops, mem, reported>>

Next == fire \/ (\E n \in DOMAIN stats : call(n)) \/ tick

Spec == Init /\ [][Next]_vars

-----------------------------------------------------------------------------
(***************************************************************************)
(* Properties.  Reported: report() has run and its figures can be read.    *)
(***************************************************************************)
Reported == reported # INVALID_TICK

Running(t, n) == stats[n].start <= t /\ t < stats[n].end

TicksOf(type) ==
    {t \in 0 .. MaxTick : \E n \in NodesOf(stats, type) : Running(t, n)}

\* The merge of intervals counts every tick in which some node of a type was
\* running once, however the nodes overlap, nest or touch, and the reported
\* overlap is the number of ticks in which both kinds ran.  Its formula takes the
\* wall time for the length of the union, in unsigned arithmetic: it is right
\* only because the rank is never idle before it ends.
OverlapExact ==
    Reported =>
        /\ \A type \in {"GPU", "COMM"} :
              type_time(stats, type) = Cardinality(TicksOf(type))
        /\ extract_comp_comm_overlap(stats) =
              Cardinality(TicksOf("GPU") \cap TicksOf("COMM"))

\* "exposed communication {} cycles", the current tick minus the time of the GPU
\* operators, is the number of ticks in which only communication ran.
ExposedExact ==
    Reported =>
        (reported - tics_gpu_ops) % TickRange =
            Cardinality(TicksOf("COMM") \ TicksOf("GPU"))

(***************************************************************************)
(* What is in memory at t by the trace: a tensor from the start of its     *)
(* writer, or of the simulation, to the end of the last node that reads it.*)
(***************************************************************************)
Readers(x) == {n \in DOMAIN trace : x \in trace[n].inputs}

Writers(x) == {n \in DOMAIN trace : x \in trace[n].outputs}

InMemory(x, t) ==
    /\ \A w \in Writers(x) : stats[w].start <= t
    /\ Readers(x) = {} \/ \E r \in Readers(x) : t < stats[r].end
    /\ Readers(x) \cup Writers(x) # {}

\* The reported peak is the largest amount of memory in use at any tick.  In the
\* heat map no lifetime is negative (they are unsigned), every position is one of
\* 0 .. count - 1, and a tensor that lives longer is not placed lower.  The
\* assertion "each tensor should only be written once" holds throughout.
PeakExact ==
    /\ ~mem.failed
    /\ Reported =>
        /\ getPeakMemUsage(mem, config.size) =
              Max({TotalSize({x \in DOMAIN config.size : InMemory(x, t)},
                             config.size) : t \in 0 .. MaxTick})
        /\ \A x \in Known(mem) :
              /\ Lifetime(mem, x) >= 0
              /\ heapPos(mem, x) \in 0 .. Cardinality(Known(mem)) - 1
              /\ \A y \in Known(mem) :
                    Lifetime(mem, x) >= Lifetime(mem, y)
                        => heapPos(mem, x) >= heapPos(mem, y)
=============================================================================
