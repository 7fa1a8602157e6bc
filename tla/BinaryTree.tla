------------------------------ MODULE BinaryTree -------------------------------
(***************************************************************************)
(* The logical topology BinaryTree: a root with one child, on top of a     *)
(* full binary tree, whose nodes are numbered in order.  The places of the *)
(* full tree are 1, 2, ... with the children of p at 2p and 2p + 1; the    *)
(* root is place 0.                                                        *)
(***************************************************************************)
EXTENDS Integers, SequencesExt

\* Number of levels: 1 plus the number of times nodes can be halved.
depth[n \in Nat] == IF n > 1 THEN depth[n \div 2] + 1 ELSE 1

(***************************************************************************)
(* initialize_tree: the places of a full tree of d levels, at least one.   *)
(***************************************************************************)
initialize_tree(d) == 1 .. 2^(IF d > 1 THEN d ELSE 1) - 1

\* build_tree: the places of the full tree in the order of their numbers.
build_tree(places) ==
    LET order[p \in places] ==
            IF 2 * p \in places THEN order[2 * p] \o <<p>> \o order[2 * p + 1]
            ELSE <<p>>
    IN  order[1]

(***************************************************************************)
(* A tree t has nodes, start, stride and type.  The root comes first when  *)
(* its child is on the right (RootMin), else last (RootMax).               *)
(***************************************************************************)
Places(t) ==
    LET below == build_tree(initialize_tree(depth[t.nodes] - 1))
    IN  IF t.type = "RootMin" THEN <<0>> \o below ELSE below \o <<0>>

node_list(t) ==
    [i \in {t.start + (k - 1) * t.stride : k \in 1 .. Len(Places(t))} |->
        Places(t)[((i - t.start) \div t.stride) + 1]]

IdOf(t, place) ==
    IF \E i \in DOMAIN node_list(t) : node_list(t)[i] = place
    THEN CHOOSE i \in DOMAIN node_list(t) : node_list(t)[i] = place
    ELSE -1

get_parent_id(t, i) ==
    LET p == node_list(t)[i] IN IF p = 0 THEN -1 ELSE IdOf(t, p \div 2)

get_left_child_id(t, i) ==
    LET p == node_list(t)[i] IN
    IF p # 0 THEN IdOf(t, 2 * p)
    ELSE IF t.type = "RootMax" THEN IdOf(t, 1) ELSE -1

get_right_child_id(t, i) ==
    LET p == node_list(t)[i] IN
    IF p # 0 THEN IdOf(t, 2 * p + 1)
    ELSE IF t.type = "RootMin" THEN IdOf(t, 1) ELSE -1

get_node_type(t, i) ==
    IF get_parent_id(t, i) = -1 THEN "Root"
    ELSE IF get_left_child_id(t, i) = -1 /\ get_right_child_id(t, i) = -1
         THEN "Leaf"
    ELSE "Intermediate"
=============================================================================
