-------------------------------- MODULE MCMemBus -------------------------------
EXTENDS MemBus

Setting(L, o, g, G) ==
    [L |-> L, o |-> o, g |-> g, G |-> G, G2 |-> 0, processing |-> 3,
     reduction |-> 2, delay |-> 2]

\* The defaults of Sys (all zero), a gap longer than the overhead, a latency
\* with a cost per byte.
Settings == {Setting(0, 0, 0, 0), Setting(0, 1, 2, 0), Setting(1, 0, 0, 1)}

\* The bundles of Ring: towards MA as they are, towards NPU processed and sent
\* back or neither; one that is processed at MA, as the interface allows; and one
\* of the simple bus.
SomeBundles ==
    { [size |-> 2, to |-> "MA", processed |-> FALSE, send_back |-> FALSE,
       shared |-> TRUE],
      [size |-> 1, to |-> "NPU", processed |-> FALSE, send_back |-> FALSE,
       shared |-> TRUE],
      [size |-> 1, to |-> "NPU", processed |-> TRUE, send_back |-> TRUE,
       shared |-> TRUE],
      [size |-> 1, to |-> "MA", processed |-> TRUE, send_back |-> TRUE,
       shared |-> TRUE],
      [size |-> 1, to |-> "MA", processed |-> TRUE, send_back |-> FALSE,
       shared |-> FALSE] }
=============================================================================
