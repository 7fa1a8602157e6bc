--------------------------- MODULE MCPhaseAlgorithms ---------------------------
EXTENDS PhaseAlgorithms

Types == {"All_Reduce", "All_Gather", "Reduce_Scatter", "All_to_All"}

Rings(n) ==
    [nodes : {n}, type : Types, direct : {FALSE}, window : {-1}]

Directs(n, types, windows) ==
    [nodes : {n}, type : types, direct : {TRUE}, window : windows]

\* Every collective on two and three ranks, and the windowed all-reduce, whose
\* two halves overlap only from four ranks on.
RingsAndDirect ==
    Rings(2) \cup Rings(3)
    \cup Directs(2, Types, {-1}) \cup Directs(3, Types, {-1, 1})
    \cup Directs(4, {"All_Reduce"}, {2})

\* Every collective on two and four ranks, with data that divides evenly and
\* data that does not.
UpToFour ==
    UNION {[nodes : {n}, type : Types \ {"All_to_All"}, data_size : {2 * n, 3}] :
              n \in {2, 4}}

\* Both trees over two, four and eight ranks, the four with gaps between their
\* numbers.
UpToEight ==
    [nodes : {2, 8}, start : {0}, stride : {1}, type : {"RootMin", "RootMax"}]
    \cup [nodes : {4}, start : {1}, stride : {3}, type : {"RootMin", "RootMax"}]
-----------------------------------------------------------------------------
\* Custom collectives.
SendTo(q, tag, parents) ==
    [type |-> "SEND", peer |-> q, tag |-> tag, parents |-> parents]

RecvFrom(q, tag, parents) ==
    [type |-> "RECV", peer |-> q, tag |-> tag, parents |-> parents]

Reduce(parents) == [type |-> "COMP", peer |-> 0, tag |-> 0, parents |-> parents]

\* A ring all-gather of three ranks: what arrives in the first step is passed on
\* in the second.  tags gives the tag of each step.
RingGather(tags) ==
    [r \in 0 .. 2 |->
        LET right == (r + 1) % 3
            left == (r + 2) % 3
        IN  [n \in 0 .. 3 |->
                CASE n = 0 -> SendTo(right, tags[1], {})
                  [] n = 1 -> RecvFrom(left, tags[1], {})
                  [] n = 2 -> SendTo(right, tags[2], {0, 1})
                  [] n = 3 -> RecvFrom(left, tags[2], {1})]]

\* An all-reduce of two ranks: exchange halves, reduce, exchange the results.
TwoReduce ==
    [r \in 0 .. 1 |->
        [n \in 0 .. 4 |->
            CASE n = 0 -> SendTo(1 - r, 1, {})
              [] n = 1 -> RecvFrom(1 - r, 1, {})
              [] n = 2 -> Reduce({1})
              [] n = 3 -> SendTo(1 - r, 2, {2})
              [] n = 4 -> RecvFrom(1 - r, 2, {2})]]

\* Its first n nodes as a chain, and all of them with a last computation.
Chain(n) ==
    [r \in 0 .. 1 |->
        [i \in 0 .. n - 1 |->
            [TwoReduce[r][i] EXCEPT !.parents = IF i = 0 THEN {} ELSE {i - 1}]]]

ChainAndCopy ==
    [r \in 0 .. 1 |->
        [i \in 0 .. 5 |-> IF i = 5 THEN Reduce({4}) ELSE Chain(5)[r][i]]]

\* A direct exchange of three ranks, all of it free from the start.
DirectExchange ==
    [r \in 0 .. 2 |->
        LET peer(d) == (r + d) % 3 IN
        [n \in 0 .. 3 |->
            CASE n = 0 -> SendTo(peer(1), 1, {})
              [] n = 1 -> RecvFrom(peer(1), 1, {})
              [] n = 2 -> SendTo(peer(2), 1, {})
              [] n = 3 -> RecvFrom(peer(2), 1, {})]]

Asynchronous ==
    { [trace |-> RingGather(<<1, 1>>), native |-> {}, sync |-> FALSE],
      [trace |-> RingGather(<<1, 2>>), native |-> {<<0, 1, 3>>}, sync |-> FALSE],
      [trace |-> TwoReduce, native |-> {<<0, 1, 0>>, <<1, 0, 4>>}, sync |-> FALSE],
      [trace |-> DirectExchange, native |-> {}, sync |-> FALSE] }

\* Receives that complete at once, where nothing else is free with a receive
\* and none is the last node.
ReceivesInTheMiddle ==
    { [trace |-> ChainAndCopy, native |-> {}, sync |-> TRUE] }

Collectives == Asynchronous \cup ReceivesInTheMiddle
=============================================================================
