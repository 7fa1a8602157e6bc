------------------------- MODULE CollectiveGeneration --------------------------
(***************************************************************************)
(* How a rank turns a collective of its trace into streams: issue_coll_    *)
(* comm and Sys::generate_collective with the sizes that StreamScheduler   *)
(* leaves out.  The data is cut into chunks, a chunk is a stream, and a    *)
(* stream is a list of phases, each of which hands its final size on.      *)
(*                                                                         *)
(* The dimensions are taken in ascending order: the constructor of Sys     *)
(* fixes inter_dimension_scheduling.  Queues and the life of a stream are  *)
(* in StreamScheduler.                                                     *)
(***************************************************************************)
EXTENDS LogicalTopology, FiniteSets

CONSTANTS
    Case,    \* what is called: the system (physical_dims, implementations,
             \* preferred-dataset-splits, "baseline" optimization) and the
             \* collective (type, size, involved_dim or <<>> without the
             \* attribute, and whether its implementation is custom)
    MaxCount \* count and num_streams stay at MaxCount once they reach it

ComType == {"All_Reduce", "All_Gather", "Reduce_Scatter", "All_to_All"}
Impl == RingLike \cup OneLike \cup {"DoubleBinaryTree"}

GenerationAssumption ==
    /\ \A case \in Case : LET s == case.setup IN
          /\ s.dims \in Seq(Nat \ {0}) /\ s.impl \in Seq(Impl)
          /\ Len(s.impl) \in 1 .. Len(s.dims)
          /\ s.splits \in Nat \ {0} /\ s.baseline \in BOOLEAN
    /\ \A case \in Case : LET c == case.coll IN
          /\ c.type \in ComType /\ c.size \in Nat \ {0}
          /\ c.involved \in Seq(BOOLEAN) /\ c.custom \in BOOLEAN
    /\ MaxCount \in Nat \ {0}

VARIABLES
    id,          \* the rank
    setup,       \* its system
    coll,        \* the collective of its trace
    pc,          \* where generate_collective stands
    involved,    \* dimensions_involved, as far as it is read
    chunk_size,
    size,        \* what is left to cut
    count,       \* chunks cut
    num_streams, \* streams made
    vect,        \* the phases of the chunk
    dataset      \* the DataSet: total_streams, active

vars == <<id, setup, coll, pc, involved, chunk_size, size, count, num_streams,
          vect, dataset>>

Topology == GeneralComplexTopology(id, setup.dims, setup.impl)
Dimension == 1 .. NumDimensions(setup.impl)
Nodes(d) == get_num_of_nodes(setup.dims, setup.impl, d)

Init ==
    /\ \E case \in Case : setup = case.setup /\ coll = case.coll
    /\ id \in 0 .. total_nodes(setup.dims) - 1
    /\ pc = "call"
    /\ involved = <<>>
    /\ chunk_size = 0 /\ size = coll.size /\ count = 0 /\ num_streams = 0
    /\ vect = <<>>
    /\ dataset = [total_streams |-> 0, active |-> TRUE]

-----------------------------------------------------------------------------
(***************************************************************************)
(* An operator named ..._Mut... is the operator it precedes with a         *)
(* plausible slip in it; no specification uses it.                         *)
(***************************************************************************)

\* involved_dims of a node: its attribute, or as many TRUE as the code pushes.
involved_dims(c) ==
    IF c.involved # <<>> THEN c.involved ELSE [i \in 1 .. 4 |-> TRUE]

\* What reading the vector may give: past its end, anything.
Reads(list) ==
    {f \in [Dimension -> BOOLEAN] :
        \A d \in Dimension : d <= Len(list) => f[d] = list[d]}

determine_chunk_size(type) ==
    LET chunk == coll.size \div setup.splits
        least == total_nodes(setup.dims)
    IN  IF type # "All_Gather" /\ least > chunk
        THEN [chunk |-> least, size |-> setup.splits * least]
        ELSE [chunk |-> chunk, size |-> coll.size]

(***************************************************************************)
(* ceil(size / chunk) as an int.  Division by a zero chunk is infinite,    *)
(* and the conversion of that to int is undefined.                         *)
(***************************************************************************)
Streams_MutRoundedDown(d) == {d.size \div d.chunk}

Streams(d) ==
    IF d.chunk = 0 THEN {-1, 0}
    ELSE {(d.size + d.chunk - 1) \div d.chunk}

Saturated(n) == IF n < MaxCount THEN n + 1 ELSE n

(***************************************************************************)
(* generate_collective up to the loop.  A custom collective is one stream  *)
(* for all the data, and the call returns.                                 *)
(***************************************************************************)
generate_collective ==
    /\ pc = "call"
    /\ involved' \in Reads(involved_dims(coll))
    /\ LET d == determine_chunk_size(coll.type) IN
          /\ chunk_size' = d.chunk
          /\ size' = d.size
          /\ \E n \in Streams(d) :
                dataset' = [dataset EXCEPT !.total_streams = n]
    /\ IF coll.custom THEN pc' = "done" /\ num_streams' = 1
                      ELSE pc' = "cut" /\ num_streams' = 0
    /\ UNCHANGED <<id, setup, coll, count, vect>>

-----------------------------------------------------------------------------
(***************************************************************************)
(* The phases of one chunk: dimensions of one rank and dimensions that are *)
(* not involved are passed over.  An all-reduce that is not "baseline"     *)
(* scatters down the dimensions, reduces in the last and gathers back.     *)
(***************************************************************************)
ActiveDims ==
    {d \in Dimension : Nodes(d) # 1 /\ involved[d]}

Ascending(D) == SelectSeq([d \in Dimension |-> d], LAMBDA d : d \in D)

Visit(dims, type) == [i \in 1 .. Len(dims) |-> [dim |-> dims[i], type |-> type]]

Layout(type) ==
    LET rest == {d \in ActiveDims : \E e \in ActiveDims : e > d}
    IN  IF type = "All_Gather" THEN Visit(Reverse(Ascending(ActiveDims)), type)
        ELSE IF type # "All_Reduce" \/ setup.baseline
             THEN Visit(Ascending(ActiveDims), type)
        ELSE Visit(Ascending(rest), "Reduce_Scatter")
             \o Visit(Ascending(ActiveDims \ rest), "All_Reduce")
             \o Visit(Reverse(Ascending(rest)), "All_Gather")

(***************************************************************************)
(* The sizes that the algorithms compute in their constructors: what the   *)
(* rank holds after the phase and the size of a (first) message.  Halving- *)
(* Doubling starts from halves; the trees know only all-reduce.            *)
(***************************************************************************)
FinalSize_MutGatherKeeps(impl, type, n, data) ==
    IF type = "Reduce_Scatter" THEN data \div n ELSE data

FinalSize(impl, type, n, data) ==
    CASE impl = "DoubleBinaryTree" -> data
      [] type = "All_Gather" -> data * n
      [] type = "Reduce_Scatter" -> data \div n
      [] OTHER -> data

MsgSize(impl, type, n, data) ==
    CASE impl = "DoubleBinaryTree" \/ type = "All_Gather" -> data
      [] impl \in {"HalvingDoubling", "OneHalvingDoubling"} -> data \div 2
      [] OTHER -> data \div n

generate_collective_phase(step, data) ==
    LET impl == setup.impl[step.dim]
        n == Nodes(step.dim)
    IN  [dim |-> step.dim, nodes |-> n,
         comm_type |-> IF impl = "DoubleBinaryTree" THEN "All_Reduce"
                       ELSE step.type,
         initial |-> data,
         final |-> FinalSize(impl, step.type, n, data),
         msg |-> MsgSize(impl, step.type, n, data)]

Phases(chunk) ==
    LET steps == Layout(coll.type)
        made[i \in 0 .. Len(steps)] ==
            IF i = 0 THEN <<>>
            ELSE LET before == made[i - 1]
                     remain_size == IF i = 1 THEN chunk ELSE Last(before).final
                 IN  Append(before,
                            generate_collective_phase(steps[i], remain_size))
    IN  made[Len(steps)]

\* What is left when a chunk is cut off; the chunk itself is never shortened.
Remaining == IF chunk_size > size THEN 0 ELSE size - chunk_size

\* One turn of the loop: cut a chunk and lay out its phases.
cut_chunk ==
    /\ pc = "cut"
    /\ size > 0
    /\ count' = Saturated(count)
    /\ size' = Remaining
    /\ vect' = Phases(chunk_size)
    /\ pc' = "make"
    /\ UNCHANGED <<id, setup, coll, involved, chunk_size, num_streams, dataset>>

make_stream ==
    /\ pc = "make"
    /\ vect # <<>>
    /\ num_streams' = Saturated(num_streams)
    /\ pc' = "cut"
    /\ UNCHANGED <<id, setup, coll, involved, chunk_size, size, count, vect, dataset>>

\* No dimension to work in: the data set is inactive, and the loop ends.
no_phase ==
    /\ pc = "make"
    /\ vect = <<>>
    /\ dataset' = [dataset EXCEPT !.active = FALSE]
    /\ pc' = "done"
    /\ UNCHANGED <<id, setup, coll, involved, chunk_size, size, count, num_streams, vect>>

all_cut ==
    /\ pc = "cut"
    /\ size = 0
    /\ dataset' = [dataset EXCEPT !.total_streams = count]
    /\ pc' = "done"
    /\ UNCHANGED <<id, setup, coll, involved, chunk_size, size, count, num_streams, vect>>

Next == generate_collective \/ cut_chunk \/ make_stream \/ no_phase \/ all_cut

Spec == Init /\ [][Next]_vars

-----------------------------------------------------------------------------
(***************************************************************************)
(* The DataSet is created with the number of streams it waits for before   *)
(* the loop makes them, and streams may end while the loop runs: never are *)
(* there more streams than it waits for, and in the end just as many.      *)
(***************************************************************************)
DatasetCountsStreams ==
    /\ pc \in {"cut", "make"} => num_streams <= dataset.total_streams
    /\ pc = "done" /\ dataset.active => num_streams = dataset.total_streams

(***************************************************************************)
(* The chunks cover the data that was asked for, and every chunk is        *)
(* needed: without the last one some of it, or of the least size that      *)
(* determine_chunk_size asks for, would be left.                           *)
(***************************************************************************)
DataCovered ==
    pc = "done" /\ dataset.active /\ ~coll.custom =>
        /\ num_streams * chunk_size >= coll.size
        /\ (num_streams - 1) * chunk_size
             < Max({coll.size, setup.splits * total_nodes(setup.dims)})

(***************************************************************************)
(* "We want the collective size to have minimum size": however the         *)
(* dimensions divide a chunk, no message of a phase is empty.              *)
(***************************************************************************)
NoEmptyMessage ==
    \A i \in DOMAIN vect : vect[i].msg > 0 /\ vect[i].initial >= vect[i].msg

(***************************************************************************)
(* The phases of all dimensions together do what one collective over all   *)
(* their ranks would: an all-reduce ends with the size it began with, a    *)
(* gather multiplies and a scatter divides it by the number of ranks.      *)
(* Sizes that the ranks do not divide are rounded down.                    *)
(***************************************************************************)
PhasesCompose ==
    LET D == {d \in ActiveDims : setup.impl[d] # "DoubleBinaryTree"}
        ranks == MapThenFoldSet(LAMBDA x, y : x * y, 1,
                                LAMBDA d : Nodes(d),
                                LAMBDA S : CHOOSE x \in S : TRUE, D)
    IN  vect # <<>> =>
          /\ vect[1].initial = chunk_size
          /\ CASE coll.type = "All_Gather" ->
                    Last(vect).final = chunk_size * ranks
               [] coll.type = "Reduce_Scatter" ->
                    Last(vect).final = chunk_size \div ranks
               [] coll.type = "All_to_All" -> Last(vect).final = chunk_size
               [] coll.type = "All_Reduce" ->
                    /\ chunk_size % ranks = 0 => Last(vect).final = chunk_size
                    /\ chunk_size - Last(vect).final \in 0 .. ranks - 1

-----------------------------------------------------------------------------
(***************************************************************************)
(* What the dimensions mean: rank numbers are coordinates, the first       *)
(* dimension running fastest.                                              *)
(***************************************************************************)
Coordinates(dims) ==
    {c \in [1 .. Len(dims) -> 0 .. total_nodes(dims) - 1] :
        \A d \in 1 .. Len(dims) : c[d] < dims[d]}

RankAt(dims, c) ==
    FoldFunction(+, 0, [d \in 1 .. Len(dims) |-> c[d] * Product(dims, d - 1)])

\* The ranks that differ from this one in dimension d only, by coordinate.
Line(d) ==
    LET own == CHOOSE c \in Coordinates(setup.dims) : RankAt(setup.dims, c) = id
    IN  [k \in 0 .. setup.dims[d] - 1 |->
            RankAt(setup.dims, [own EXCEPT ![d] = k])]

(***************************************************************************)
(* The topology a rank builds for a dimension joins the ranks that differ  *)
(* from it in that dimension only, and it is one of them: in their order   *)
(* in a ring, and as a tree on which both trees of the dimension span.     *)
(* Not so a tree at the end of a list that is shorter than the dimensions: *)
(* it is built as for the last dimension, and leaves some ranks out.       *)
(***************************************************************************)
TreeBeforeItsEnd(d) ==
    d = Len(setup.impl) /\ Len(setup.impl) < Len(setup.dims)

DimensionIsLine ==
    pc = "call" =>
        \A d \in Dimension :
            CASE setup.impl[d] \in RingLike -> Topology[d].ring = Line(d)
              [] setup.impl[d] = "DoubleBinaryTree" ->
                    ~TreeBeforeItsEnd(d) => \A k \in {0, 1} :
                        DOMAIN node_list(get_topology(Topology[d].tree, k))
                            = {Line(d)[j] : j \in DOMAIN Line(d)}
              [] OTHER -> Topology[d].ring = [k \in 0 .. total_nodes(setup.dims) - 1 |-> k]

(***************************************************************************)
(* Ranks build their topologies alone, and yet agree on them: the rank     *)
(* this one sends to in a ring is one that, in its own ring, receives from *)
(* this one.                                                               *)
(***************************************************************************)
NeighboursAgree ==
    pc = "call" =>
        \A d \in Dimension, dir \in {"Clockwise", "Anticlockwise"} :
            Topology[d].kind = "ring" =>
                LET to == get_receiver(Topology[d].ring, id, dir)
                    its == GeneralComplexTopology(to, setup.dims, setup.impl)[d].ring
                IN  get_sender(its, to, dir) = id
=============================================================================
