--------------------------- MODULE DoubleBinaryTree ----------------------------
(***************************************************************************)
(* The collective algorithm DoubleBinaryTreeAllReduce on all ranks of one  *)
(* tree: data is reduced from the leaves to the root and the result sent   *)
(* back down.  Every rank is a small state machine that is driven by the   *)
(* events StreamInit, General (a bundle has crossed the memory bus) and    *)
(* PacketReceived, and that mostly does not ask which of them it got.      *)
(*                                                                         *)
(* A receive whose message is there already may run its handler within     *)
(* sim_recv (ns-3 does), before the caller has done its next assignment.   *)
(***************************************************************************)
EXTENDS BinaryTree, FiniteSetsExt

CONSTANT Tree  \* the trees considered: nodes, start, stride, type

TreeAssumption ==
    \A t \in Tree :
        /\ \E k \in 1 .. 10 : t.nodes = 2^k
        /\ t.start \in Nat /\ t.stride \in Nat \ {0}
        /\ t.type \in {"RootMin", "RootMax"}

VARIABLES
    tree,   \* the tree that all ranks use
    node,   \* parent, children and type of each rank, as its constructor reads them
    alg,    \* the Algorithm object of each rank
    sent,   \* what the message on its way from a rank to a neighbour carries
    posted, \* pairs <<source, destination>> with a receive waiting
    holds   \* the ranks whose data each rank has reduced into its own

vars == <<tree, node, alg, sent, posted, holds>>

Rank == DOMAIN node

Children(r) == {node[r].left_child, node[r].right_child} \ {-1}

(***************************************************************************)
(* The constructor.  bundles counts the packet bundles on the memory bus;  *)
(* sent keeps a set of messages per pair, of which there is at most one.   *)
(***************************************************************************)
Init ==
    /\ tree \in Tree
    /\ node = [r \in DOMAIN node_list(tree) |->
                  [ parent |-> get_parent_id(tree, r),
                    left_child |-> get_left_child_id(tree, r),
                    right_child |-> get_right_child_id(tree, r),
                    type |-> get_node_type(tree, r) ]]
    /\ alg = [r \in Rank |->
                 [state |-> "Begin", reductions |-> 0, bundles |-> 0,
                  started |-> FALSE, exited |-> FALSE]]
    /\ sent = {}
    /\ posted = {}
    /\ holds = [r \in Rank |-> {r}]

-----------------------------------------------------------------------------
(***************************************************************************)
(* One call of run(event) at rank r, as a function of what it may change:  *)
(* a the algorithm, snd the messages it sends, rcv the receives it posts.  *)
(***************************************************************************)
Quiet(a) == [alg |-> a, snd |-> {}, rcv |-> {}]

Bundle(a, state) ==
    Quiet([a EXCEPT !.bundles = @ + 1, !.state = state])

\* leaf.3 posts its receive before it sets its state; a handler within sim_recv
\* would find the old state (LeafNotOvertaken: it never runs there).
Leaf(r, a, event) ==
    CASE a.state = "Begin" -> Bundle(a, "SendingDataToParent")
      [] a.state = "SendingDataToParent" ->
            [ alg |-> [a EXCEPT !.state = "WaitingDataFromParent"],
              snd |-> {node[r].parent}, rcv |-> {node[r].parent} ]
      [] a.state = "WaitingDataFromParent" -> Bundle(a, "End")
      [] a.state = "End" -> Quiet([a EXCEPT !.exited = TRUE])

\* int.4: the first of the two General events is only counted.
CountOnly(a, event) == event = "General" /\ a.reductions < 1

\* In any other case nothing happens.
Intermediate(r, a, event) ==
    CASE a.state = "Begin" ->
            [ alg |-> [a EXCEPT !.state = "WaitingForTwoChildData"],
              snd |-> {}, rcv |-> Children(r) ]
      [] a.state = "WaitingForTwoChildData" /\ event = "PacketReceived" ->
            Bundle(a, "WaitingForOneChildData")
      [] a.state = "WaitingForOneChildData" /\ event = "PacketReceived" ->
            Bundle(a, "SendingDataToParent")
      [] a.state # "Begin" /\ CountOnly(a, event) ->
            Quiet([a EXCEPT !.reductions = @ + 1])
      [] a.state = "SendingDataToParent" /\ ~CountOnly(a, event) ->
            [ alg |-> [a EXCEPT !.state = "WaitingDataFromParent"],
              snd |-> {node[r].parent}, rcv |-> {node[r].parent} ]
      [] a.state = "WaitingDataFromParent" /\ event = "PacketReceived" ->
            Bundle(a, "SendingDataToChilds")
      [] a.state = "SendingDataToChilds" /\ ~CountOnly(a, event) ->
            [ alg |-> [a EXCEPT !.exited = TRUE],
              snd |-> Children(r), rcv |-> {} ]
      [] OTHER -> Quiet(a)

Root(r, a, event) ==
    CASE a.state = "Begin" ->
            [ alg |-> [a EXCEPT !.state = "WaitingForOneChildData"],
              snd |-> {}, rcv |-> Children(r) ]
      [] a.state = "WaitingForOneChildData" -> Bundle(a, "SendingDataToChilds")
      [] a.state = "SendingDataToChilds" ->
            [ alg |-> [a EXCEPT !.exited = TRUE],
              snd |-> Children(r), rcv |-> {} ]

run(r, a, event) ==
    CASE node[r].type = "Leaf" -> Leaf(r, a, event)
      [] node[r].type = "Intermediate" -> Intermediate(r, a, event)
      [] node[r].type = "Root" -> Root(r, a, event)

\* A message of src is there for r.
Arrived(src, r) == \E m \in sent : m.src = src /\ m.dest = r

DataFrom(src, r) == (CHOOSE m \in sent : m.src = src /\ m.dest = r).data

(***************************************************************************)
(* The effect of run(event) at rank r with algorithm a and data d, when    *)
(* the receives of the sources in now run their handlers at once: each     *)
(* such handler is a run(PacketReceived) within the run.                   *)
(***************************************************************************)
Effect(r, a, d, event, now, consumed) ==
    LET x       == run(r, a, event)
        nested  == {s \in x.rcv : s \in now}
        handled == FoldSet(LAMBDA s, b : run(r, b, "PacketReceived").alg,
                           x.alg, nested)
    IN
    /\ now = nested
    /\ alg' = [alg EXCEPT ![r] = handled]
    /\ holds' = [holds EXCEPT ![r] =
                    d \cup UNION {DataFrom(s, r) : s \in nested}]
    /\ sent' = {m \in sent : ~(m.dest = r /\ m.src \in nested \cup consumed)}
                  \cup {[src |-> r, dest |-> t, data |-> d] : t \in x.snd}
    /\ posted' = (posted \ {<<s, r>> : s \in consumed})
                     \cup {<<s, r>> : s \in x.rcv \ nested}
    /\ UNCHANGED <<tree, node>>

AtOnce(r) == SUBSET {s \in Rank : Arrived(s, r)}

\* The scheduler starts the phase at rank r.
run_StreamInit(r) ==
    /\ ~alg[r].started
    /\ \E now \in AtOnce(r) :
          Effect(r, [alg[r] EXCEPT !.started = TRUE], holds[r], "StreamInit", now, {})

\* A bundle of rank r has crossed the memory bus.
run_General(r) ==
    /\ alg[r].bundles > 0 /\ ~alg[r].exited
    /\ \E now \in AtOnce(r) :
          Effect(r, [alg[r] EXCEPT !.bundles = @ - 1], holds[r], "General", now, {})

\* A receive of rank r from src has met its message.
run_PacketReceived(r, src) ==
    /\ <<src, r>> \in posted /\ Arrived(src, r) /\ ~alg[r].exited
    /\ Effect(r, alg[r], holds[r] \cup DataFrom(src, r), "PacketReceived", {}, {src})

Next ==
    \E r \in Rank :
        \/ run_StreamInit(r)
        \/ run_General(r)
        \/ \E src \in Rank : run_PacketReceived(r, src)

(***************************************************************************)
(* What the event loop does: the bus and the network deliver.  Nothing     *)
(* obliges a rank to start.                                                *)
(***************************************************************************)
Deliver ==
    \E r \in Rank :
        \/ run_General(r)
        \/ \E src \in Rank : run_PacketReceived(r, src)

Spec == Init /\ [][Next]_vars /\ WF_vars(Deliver)

-----------------------------------------------------------------------------
(***************************************************************************)
(* Properties.                                                             *)
(***************************************************************************)
Subtree[r \in Int] == {r} \cup UNION {Subtree[c] : c \in Children(r)}

\* The tree spans the ranks as the algorithm needs it: parents and children know
\* each other, one rank is the root with one child, intermediate ranks have two.
\* In the other tree over the same ranks (DoubleBinaryTreeTopology uses the two
\* in turn) every leaf of this one is not a leaf, which is what makes the pair
\* of trees balanced.
TreeIsSpanning ==
    LET other == [tree EXCEPT !.type =
                     IF @ = "RootMin" THEN "RootMax" ELSE "RootMin"]
    IN
    /\ Rank = {tree.start + k * tree.stride : k \in 0 .. tree.nodes - 1}
    /\ \E r \in Rank : node[r].type = "Root" /\ Subtree[r] = Rank
    /\ \A r \in Rank :
          /\ \A c \in Children(r) : node[c].parent = r
          /\ node[r].parent # -1 => r \in Children(node[r].parent)
          /\ Cardinality(Children(r)) =
                CASE node[r].type = "Leaf" -> 0
                  [] node[r].type = "Root" -> 1
                  [] node[r].type = "Intermediate" -> 2
          /\ node[r].type = "Leaf" => get_node_type(other, r) # "Leaf"

\* What goes up carries the reduced data of the whole subtree, although the rank
\* only counts events; what comes down carries the data of all ranks.  A rank has
\* at most one message on its way to another.
ReducedBeforeSent ==
    \A m \in sent :
        /\ \A n \in sent : m.src = n.src /\ m.dest = n.dest => m = n
        /\ IF m.dest = node[m.src].parent
           THEN m.data = Subtree[m.src] /\ alg[m.src].bundles = 0
           ELSE m.data = Rank

\* A leaf sets its state only after sim_recv, unlike the other ranks: this is
\* harmless because its parent's message cannot be there before the leaf has
\* sent its own.
LeafNotOvertaken ==
    \A r \in Rank :
        node[r].type = "Leaf" /\ alg[r].state \in {"Begin", "SendingDataToParent"} =>
            ~Arrived(node[r].parent, r)

\* A rank that has left has no bundle on the bus and no receive posted, and holds
\* the data of all ranks.
NothingOutstanding ==
    \A r \in Rank : alg[r].exited =>
        /\ alg[r].bundles = 0
        /\ \A src \in Rank : <<src, r>> \notin posted
        /\ holds[r] = Rank
=============================================================================
