---------------------------- MODULE MCCollectives ------------------------------
EXTENDS Collectives, TLC

(***************************************************************************)
(* Systems and collectives for CollectiveGeneration.                       *)
(***************************************************************************)
S(dims, impl, splits, baseline) ==
    [dims |-> dims, impl |-> impl, splits |-> splits, baseline |-> baseline]

C(type, n, mask) == [type |-> type, size |-> n, involved |-> mask, custom |-> FALSE]

Custom(type, n) == [type |-> type, size |-> n, involved |-> <<>>, custom |-> TRUE]

Rings ==
    { S(<<4>>, <<"Direct">>, 2, FALSE),
      S(<<2, 3>>, <<"Ring", "Ring">>, 2, FALSE),
      S(<<2, 3>>, <<"Ring", "Direct">>, 3, TRUE),
      S(<<2, 1, 3>>, <<"Direct", "Ring", "Ring">>, 2, FALSE),
      S(<<3, 2>>, <<"OneRing", "Ring">>, 2, FALSE),
      S(<<2, 2, 3>>, <<"Ring", "Direct", "Ring">>, 1, FALSE) }

Trees ==
    { S(<<2, 4, 2>>, <<"Ring", "DoubleBinaryTree", "Direct">>, 2, FALSE),
      S(<<3, 4>>, <<"Ring", "DoubleBinaryTree">>, 2, FALSE) }

\* Fewer implementations than dimensions.
Short ==
    { S(<<2, 3, 2>>, <<"Ring", "Direct">>, 2, FALSE),
      S(<<2, 2, 2>>, <<"Ring", "DoubleBinaryTree">>, 2, FALSE) }

Halving == { S(<<4, 2>>, <<"HalvingDoubling", "HalvingDoubling">>, 2, FALSE) }

\* Sizes below, at and above what the splits and the ranks divide.
Reductions ==
    {C(type, n, <<>>) : type \in {"All_Reduce", "Reduce_Scatter"},
                        n \in {1, 12, 13, 50}}
    \cup {C("All_Reduce", 25, <<FALSE, TRUE, TRUE>>),
          C("All_Reduce", 25, <<FALSE, FALSE, FALSE>>)}

Gathers ==
    {C("All_Gather", n, <<>>) : n \in {5, 12, 13}}
    \cup {C("All_Gather", 25, <<TRUE, FALSE, TRUE>>)}

Exchanges == {C("All_to_All", n, <<>>) : n \in {1, 7, 50}}

Cases ==
    [setup : Rings, coll : Reductions \cup Gathers \cup Exchanges]
    \cup [setup : Halving, coll : Reductions \cup Gathers]
    \cup [setup : Trees \cup Short, coll : {C("All_Reduce", n, <<>>) : n \in {1, 13, 50}}]
    \cup [setup : {S(<<4>>, <<"Ring">>, 1, FALSE)}, coll : {Custom("All_Reduce", 50)}]

\* A custom collective of a system that splits its native ones.
CustomSplit ==
    [setup : {S(<<4>>, <<"Ring">>, 2, FALSE)}, coll : {Custom("All_Reduce", 50)}]

-----------------------------------------------------------------------------
(***************************************************************************)
(* Configurations and traces for CollectivePlans.                          *)
(***************************************************************************)
Coll(node, pg, type) == [kind |-> "coll", node |-> node, pg |-> pg, type |-> type]

Metadata(groups) == [kind |-> "metadata", groups |-> groups]

Nothing == [x \in {} |-> "none"]

Native2D == [type \in {"All_Reduce", "All_Gather"} |-> <<"doubleBinaryTree", "ring">>]

\* Four ranks: two pairs and a pair across them, with sorted lists.
Pairs == (1 :> <<0, 1>>) @@ (2 :> <<2, 3>>) @@ (3 :> <<1, 2>>)

(***************************************************************************)
(* Every rank reduces with the others, then reduces and gathers in its     *)
(* pair; ranks 1 and 2 also reduce across the pairs, rank 2 before it does *)
(* so in its pair.                                                         *)
(***************************************************************************)
PairTrace(r) ==
    LET own == IF r < 2 THEN 1 ELSE 2
        pair == << Coll(20 + own, own, "All_Reduce"), Coll(24 + own, own, "All_Gather") >>
        across == <<Coll(30, 3, "All_Reduce")>>
    IN  << Coll(10, 0, "All_Reduce") >> \o
        (IF r = 1 THEN pair \o across
         ELSE IF r = 2 THEN across \o pair ELSE pair)

Native ==
    [ranks |-> 4, native |-> Native2D, custom |-> Nothing, per_node |-> Nothing,
     json |-> Pairs, trace |-> [r \in 0 .. 3 |-> PairTrace(r)]]

\* A custom all-reduce for every group, another one for the first node.
WithCustom == [Native EXCEPT !.custom = "All_Reduce" :> <<"ar">>,
                             !.per_node = 10 :> "first"]

\* Groups from the trace: all ranks, and a pair in place of the file's.
WithMetadata ==
    [Native EXCEPT
        !.json = 2 :> <<1, 2>>,
        !.trace = [r \in 0 .. 3 |->
            << Metadata({[name |-> 1, ranks |-> <<>>],
                         [name |-> 2, ranks |-> <<2 * (r \div 2), 2 * (r \div 2) + 1>>]}),
               Coll(40, 1, "All_Gather"), Coll(41 + (r \div 2), 2, "All_Reduce"),
               Coll(44, 0, "All_Reduce") >>]]

\* One dimension, whose implementation small groups keep: a tree, and a window.
OneDimension ==
    [Native EXCEPT !.native = ("All_Reduce" :> <<"doubleBinaryTree">>)
                              @@ ("All_Gather" :> <<"direct4">>)]

\* Nodes with algorithms of their own in a group: the first one decides.
PerNode ==
    [Native EXCEPT
        !.per_node = (61 :> "own") @@ (64 :> "other"),
        !.trace = [r \in 0 .. 3 |->
            IF r < 2 THEN << Coll(61, 1, "All_Reduce"), Coll(62, 1, "All_Reduce") >>
            ELSE << Coll(63, 2, "All_Reduce"), Coll(64, 2, "All_Reduce"),
                    Coll(65, 2, "All_Gather") >>]]

\* Group 2 of the trace has the number of group 3 of the file, whose ranks 1 and
\* 2 use both.
SameId ==
    [WithMetadata EXCEPT
        !.json = (2 :> <<1, 2>>) @@ (3 :> <<1, 2>>),
        !.trace = [r \in 0 .. 3 |->
            @[r] \o IF r \in {1, 2} THEN <<Coll(45, 3, "All_Reduce")>> ELSE <<>>]]

\* Group 1 of the trace is made twice, and counts from the start again.
MadeTwice ==
    [WithMetadata EXCEPT !.trace = [r \in 0 .. 3 |->
        LET all == Metadata({[name |-> 1, ranks |-> <<>>]})
        IN  <<all, Coll(70, 1, "All_Gather"), all, Coll(71, 1, "All_Gather")>>]]

(***************************************************************************)
(* Counters that leave their numbers: five collectives of the default      *)
(* group run into those of group 1, and group 8 starts past the largest    *)
(* int, at 0.                                                              *)
(***************************************************************************)
OutOfRange ==
    [Native EXCEPT
        !.json = (1 :> <<0, 1, 2, 3>>) @@ (8 :> <<0, 1, 2, 3>>),
        !.trace = [r \in 0 .. 3 |->
            [i \in 1 .. 5 |-> Coll(80 + i, 0, "All_Reduce")]
            \o << Coll(90, 1, "All_Reduce"), Coll(91, 8, "All_Reduce") >>]]

\* A type without an implementation, a group without a definition, and system
\* files that are refused.
Missing ==
    { [Native EXCEPT !.trace = [r \in 0 .. 3 |-> <<Coll(50, 0, "All_to_All")>>]],
      [Native EXCEPT !.trace = [r \in 0 .. 3 |-> <<Coll(51, 9, "All_Reduce")>>]],
      [Native EXCEPT !.native = "All_Reduce" :> <<"rings">>],
      [Native EXCEPT !.custom = "All_Reduce" :> <<"ar", "ar">>] }

Scenarios ==
    {Native, WithCustom, WithMetadata, OneDimension, PerNode, SameId, MadeTwice,
     OutOfRange} \cup Missing
=============================================================================
