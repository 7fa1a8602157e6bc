------------------------- MODULE MCWorkloadAccounting -------------------------
EXTENDS WorkloadAccounting

Kinds == {"COMP", "COLL", "RECV"}

Graphs(n) ==
    {p \in [0 .. n - 1 -> SUBSET (0 .. n - 1)] :
        \A i \in 0 .. n - 1 : \A m \in p[i] : m < i}

Trace(k, p, inputs, outputs) ==
    [i \in DOMAIN k |->
        [type |-> k[i], runtime |-> 1 + (i % 2), parents |-> p[i],
         inputs |-> inputs[i], outputs |-> outputs[i]]]

NoTensors(n) == [i \in 0 .. n - 1 |-> {}]

Sizes == [a |-> 1, b |-> 2, c |-> 0]

\* Every trace of n nodes, without tensors.
Times(n) ==
    {[trace |-> Trace(k, p, NoTensors(n), NoTensors(n)), replay_only |-> FALSE,
      size |-> Sizes] : k \in [0 .. n - 1 -> Kinds], p \in Graphs(n)}

\* Three nodes: the first may write a and c, the second writes b, and all may
\* read; who reads a tensor that another node writes depends on that node.
ReadsAfterWrites(c) ==
    \A n, m \in DOMAIN c.trace :
        c.trace[n].inputs \cap c.trace[m].outputs # {} => m \in c.trace[n].parents

Outputs ==
    { [i \in 0 .. 2 |-> IF i = 1 THEN {"b"} ELSE IF i = 0 THEN first ELSE {}] :
      first \in {{}, {"a", "c"}} }

Inputs ==
    { [i \in 0 .. 2 |-> IF i = 2 THEN last ELSE IF i \in others THEN {"a"} ELSE {}] :
      last \in SUBSET {"a", "b", "c"}, others \in SUBSET {0, 1} }

KindsOfThree ==
    { [i \in 0 .. 2 |-> IF i \in receives THEN "RECV" ELSE "COMP"] :
      receives \in {{1}, {2}, {0, 1, 2}} }

Tensors ==
    {c \in {[trace |-> Trace(k, p, r, w), replay_only |-> FALSE, size |-> Sizes] :
               k \in KindsOfThree, p \in Graphs(3), r \in Inputs, w \in Outputs} :
        ReadsAfterWrites(c)}

Runs == Times(3) \cup Tensors
=============================================================================
