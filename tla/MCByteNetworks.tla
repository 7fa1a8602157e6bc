---------------------------- MODULE MCByteNetworks -----------------------------
EXTENDS ByteNetworks

RankValue == 0 .. 1

\* One key in each direction, with different tags.
KeyValue == { [tag |-> 0, src |-> 0, dst |-> 1], [tag |-> 1, src |-> 1, dst |-> 0] }

\* Rank 0 sends for its workload, rank 1 for a collective.
FireAndForgetValue == { k \in KeyValue : k.tag = 1 }
=============================================================================
