------------------------------ MODULE MCWorkload ------------------------------
(***************************************************************************)
(* Sets of traces for Workload: every acyclic dependency graph on a few    *)
(* nodes, with every choice of node kinds from a given set.                *)
(***************************************************************************)
EXTENDS Workload

Kind(type, cpu, empty) == [type |-> type, cpu |-> cpu, empty |-> empty]

(***************************************************************************)
(* Every trace over the nodes 0 .. n - 1 whose kinds are taken from kinds. *)
(***************************************************************************)
TracesOver(n, kinds) ==
    { [i \in 0 .. n - 1 |->
          [type |-> k[i].type, cpu |-> k[i].cpu, empty |-> k[i].empty,
           parents |-> p[i]]] :
      k \in [0 .. n - 1 -> kinds],
      p \in {q \in [0 .. n - 1 -> SUBSET (0 .. n - 1)] :
                 \A i \in 0 .. n - 1 : \A m \in q[i] : m < i} }

NodeValue == 0 .. 3

\* Four nodes competing for the two GPU slots, receives, and compute nodes
\* with an empty tensor.
GpuTraces ==
    TracesOver(4, {Kind("COMP", FALSE, FALSE), Kind("SEND", FALSE, FALSE),
                   Kind("RECV", FALSE, FALSE), Kind("COMP", FALSE, TRUE)})

\* Three nodes of every kind the program distinguishes.
AnyTraces ==
    TracesOver(3, {Kind("COMP", FALSE, FALSE), Kind("COMP", TRUE, FALSE),
                   Kind("COMP", FALSE, TRUE), Kind("COLL", FALSE, FALSE),
                   Kind("RECV", FALSE, FALSE), Kind("RECV", TRUE, FALSE),
                   Kind("MEM", FALSE, FALSE), Kind("INVALID", FALSE, FALSE),
                   Kind("METADATA", FALSE, FALSE)})

AllTraces == GpuTraces \cup AnyTraces
=============================================================================
