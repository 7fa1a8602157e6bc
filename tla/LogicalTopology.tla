---------------------------- MODULE LogicalTopology ----------------------------
(***************************************************************************)
(* The logical topologies a rank builds for the dimensions of the system,  *)
(* each with the identities of the ranks in it: rings (RingTopology) and   *)
(* double binary trees, put together by GeneralComplexTopology.            *)
(*                                                                         *)
(* A ring is a function from indices to ranks (index_to_id).  Ranks are    *)
(* numbered from 0, dimensions from 1.                                     *)
(***************************************************************************)
EXTENDS BinaryTree

\* get_receiver_homogeneous, clockwise: the next rank and its index.
clockwise(p, n, offset) ==
    IF p.index = n - 1
    THEN [id |-> p.id + offset - n * offset, index |-> 0]
    ELSE [id |-> p.id + offset, index |-> p.index + 1]

\* The ring of n ranks, offset apart, with rank id at the given index.
HomogeneousRing(id, n, index, offset) ==
    LET walk[i \in 0 .. n - 1] ==
            IF i = 0 THEN [id |-> id, index |-> index]
            ELSE clockwise(walk[i - 1], n, offset)
    IN  [k \in {walk[i].index : i \in 0 .. n - 1} |->
            walk[CHOOSE i \in 0 .. n - 1 : walk[i].index = k].id]

\* The ring of a communicator group, in the order of its list.
CustomRing(NPUs) == [k \in 0 .. Len(NPUs) - 1 |-> NPUs[k + 1]]

IndexOf(ring, id) == CHOOSE k \in DOMAIN ring : ring[k] = id

Up(ring, id) ==
    LET k == IndexOf(ring, id) + 1
    IN  ring[IF k = Cardinality(DOMAIN ring) THEN 0 ELSE k]

Down(ring, id) ==
    LET k == IndexOf(ring, id) - 1
    IN  ring[IF k < 0 THEN Cardinality(DOMAIN ring) - 1 ELSE k]

get_receiver(ring, id, direction) ==
    IF direction = "Clockwise" THEN Up(ring, id) ELSE Down(ring, id)

get_sender(ring, id, direction) ==
    IF direction = "Anticlockwise" THEN Up(ring, id) ELSE Down(ring, id)

-----------------------------------------------------------------------------
(***************************************************************************)
(* GeneralComplexTopology: one topology per dimension and implementation.  *)
(* A "one" implementation is a single ring over the whole system and ends  *)
(* the list.                                                               *)
(***************************************************************************)
RingLike == {"Ring", "Direct", "HalvingDoubling"}
OneLike == {"OneRing", "OneDirect", "OneHalvingDoubling"}

Product(dims, k) == FoldSeq(LAMBDA n, acc : n * acc, 1, SubSeq(dims, 1, k))

total_nodes(dims) == Product(dims, Len(dims))

\* The first node of the double binary tree of rank id in dimension d.
start_MutOwnBlock(id, dims, impl, d) == id % Product(dims, d - 1)

start(id, dims, impl, d) ==
    LET offset == Product(dims, d - 1) IN
    IF d = Len(impl) THEN id % offset
    ELSE (id - (id % (offset * dims[d]))) + (id % offset)

dimension(id, dims, impl, d) ==
    LET offset == Product(dims, d - 1) IN
    CASE impl[d] \in RingLike ->
            [kind |-> "ring",
             ring |-> HomogeneousRing(id, dims[d],
                          (id % (offset * dims[d])) \div offset, offset)]
      [] impl[d] \in OneLike ->
            [kind |-> "ring",
             ring |-> HomogeneousRing(id, total_nodes(dims),
                          id % total_nodes(dims), 1)]
      [] impl[d] = "DoubleBinaryTree" ->
            [kind |-> "tree",
             tree |-> [nodes |-> dims[d], stride |-> offset,
                       start |-> start(id, dims, impl, d)]]

NumDimensions(impl) ==
    LET ones == {d \in 1 .. Len(impl) : impl[d] \in OneLike}
    IN  IF ones = {} THEN Len(impl) ELSE Min(ones)

GeneralComplexTopology(id, dims, impl) ==
    [d \in 1 .. NumDimensions(impl) |-> dimension(id, dims, impl, d)]

get_num_of_nodes(dims, impl, d) ==
    IF impl[d] \in OneLike THEN total_nodes(dims) ELSE dims[d]

\* The two trees of a dimension, used in turn.
get_topology(tree, counter) ==
    [nodes |-> tree.nodes, start |-> tree.start, stride |-> tree.stride,
     type |-> IF counter % 2 = 0 THEN "RootMax" ELSE "RootMin"]
=============================================================================
