-------------------------- MODULE LocalMemUsageTracker --------------------------
(***************************************************************************)
(* LocalMemUsageTracker as operators on its state mem: which tensors are   *)
(* known, when each was written and when it was read.  From that it builds *)
(* a timeline of the memory in use, its peak, and the lifetimes that the   *)
(* heat map arranges.                                                      *)
(*                                                                         *)
(* A tensor is in memory from the start of the node that writes it to the  *)
(* end of the last read, and for ever if nobody reads it.  A tensor that   *)
(* is read and not known gets a write at the start of the simulation.      *)
(*                                                                         *)
(* Left out: the JSON events, colours and units, and nodes without inputs  *)
(* or outputs or with a list of odd length (the program throws).           *)
(***************************************************************************)
EXTENDS Integers, SequencesExt, FiniteSetsExt

\* An operator named ..._Mut... is the operator it precedes with a plausible
\* slip in it; no specification uses it.

Empty == [x \in {} |-> 0]

\* failed: the assertion that a tensor is written once did not hold.
NewTracker ==
    [memReads |-> Empty, memWrites |-> Empty, activityStartTime |-> Empty,
     failed |-> FALSE]

\* tensorSize and memWrites are always extended together.
Known(mem) == DOMAIN mem.memWrites

NotEmpty(tensors, size) == {x \in tensors : size[x] # 0}

With(f, g) ==
    [x \in DOMAIN f \cup DOMAIN g |-> IF x \in DOMAIN g THEN g[x] ELSE f[x]]

ReadsOf(mem, x) ==
    IF x \in DOMAIN mem.memReads THEN mem.memReads[x] ELSE <<>>

Undefined == [start |-> 0, end |-> 10]

recordReads(mem, tensors, size, activity) ==
    LET read == NotEmpty(tensors, size) IN
    [mem EXCEPT
        !.memWrites = With([x \in read \ Known(mem) |-> Undefined], @),
        !.memReads = With(@, [x \in read |-> Append(ReadsOf(mem, x), activity)])]

recordWrites(mem, tensors, size, activity) ==
    LET written == NotEmpty(tensors, size) IN
    [mem EXCEPT
        !.memWrites = With([x \in written |-> activity], @),
        !.failed = @ \/ written \cap Known(mem) # {}]

recordStart(mem, n, tick) ==
    [mem EXCEPT !.activityStartTime = With(@, [m \in {n} |-> tick])]

recordEnd(mem, n, node, size, tick) ==
    LET activity == [start |-> mem.activityStartTime[n], end |-> tick]
        read == recordReads(mem, node.inputs, size, activity)
        written == recordWrites(read, node.outputs, size, activity)
    IN  IF n \notin DOMAIN mem.activityStartTime THEN mem
        ELSE [written EXCEPT !.activityStartTime =
                 [m \in DOMAIN @ \ {n} |-> @[m]]]

-----------------------------------------------------------------------------
(***************************************************************************)
(* buildMemoryTimeline: at every tick of a write or a last read, what was  *)
(* there before, with what is written and without what was last read.      *)
(***************************************************************************)
LastRead_MutFirst(mem, x) == Head(mem.memReads[x]).end

LastRead(mem, x) == Last(mem.memReads[x]).end

Ticks(mem) ==
    {mem.memWrites[x].start : x \in DOMAIN mem.memWrites}
    \cup {LastRead(mem, x) : x \in DOMAIN mem.memReads}

memoryContents(mem) ==
    LET ticks == Ticks(mem)
        WrittenAt(t) == {x \in DOMAIN mem.memWrites : mem.memWrites[x].start = t}
        LastReadAt(t) == {x \in DOMAIN mem.memReads : LastRead(mem, x) = t}
        contents[t \in ticks] ==
            LET before == {u \in ticks : u < t} IN
            ((IF before = {} THEN {} ELSE contents[Max(before)]) \cup WrittenAt(t))
                \ LastReadAt(t)
    IN  contents

TotalSize(tensors, size) == MapThenSumSet(LAMBDA x : size[x], tensors)

memoryUsage(mem, size) ==
    LET contents == memoryContents(mem) IN
    [t \in DOMAIN contents |-> TotalSize(contents[t], size)]

getPeakMemUsage(mem, size) ==
    LET usage == memoryUsage(mem, size) IN
    Max({0} \cup {usage[t] : t \in DOMAIN usage})

(***************************************************************************)
(* buildTensorLifetimeHeatmap: the lifetime of every known tensor, and the *)
(* position it gets between 0 and the number of tensors, which the code    *)
(* computes in floating point and truncates.                               *)
(***************************************************************************)
Lifetime(mem, x) ==
    (IF x \in DOMAIN mem.memReads THEN LastRead(mem, x) ELSE Max(Ticks(mem)))
        - mem.memWrites[x].start

heapPos(mem, x) ==
    LET lifetimes == {Lifetime(mem, y) : y \in Known(mem)} IN
    IF Max(lifetimes) = Min(lifetimes) THEN 0
    ELSE ((Lifetime(mem, x) - Min(lifetimes)) * (Cardinality(Known(mem)) - 1))
             \div (Max(lifetimes) - Min(lifetimes))
=============================================================================
