---------------------------- MODULE PhaseAlgorithms ----------------------------
(***************************************************************************)
(* One phase of a stream, on all ranks of a dimension, run by whichever    *)
(* algorithm generate_collective_phase has chosen for it.  Whatever the    *)
(* choice, the scheduler expects the same of it: CollectivePhase.          *)
(*                                                                         *)
(* kind says which algorithm this is.  The variables are those of all      *)
(* algorithms together; one that an algorithm does not have is Unused.     *)
(***************************************************************************)
EXTENDS Integers, Sequences, FiniteSets

CONSTANTS
    RingConfig,    \* the configurations of each algorithm
    HalvingConfig,
    TreeConfig,
    CustomConfig

VARIABLES
    kind,       \* "ring" (Ring and AllToAll), "halving", "tree" or "custom"
    config,     \* the configuration
    alg,        \* the Algorithm object of each rank
    sends,      \* messages sent
    recvs,      \* receives posted
    delivered,  \* receive handlers run
    holds,      \* whose data each rank has
    node,       \* the neighbours of each rank in the tree
    network,    \* the messages of a custom collective and of the workload
    stack       \* the walks of a custom collective

vars == <<kind, config, alg, sends, recvs, delivered, holds, node, network, stack>>

Ring == INSTANCE RingAlgorithm WITH Config <- RingConfig

Halving == INSTANCE HalvingDoubling WITH Config <- HalvingConfig

Tree == INSTANCE DoubleBinaryTree WITH
    Tree <- TreeConfig, tree <- config, sent <- sends, posted <- recvs

Custom == INSTANCE CustomAlgorithm WITH Config <- CustomConfig

ASSUME ConfigAssumption ==
    /\ Ring!ConfigAssumption
    /\ Halving!ConfigAssumption
    /\ Tree!TreeAssumption
    /\ Custom!ConfigAssumption

Unused == <<>>

InitRing ==
    /\ kind = "ring" /\ Ring!Init
    /\ holds = Unused /\ node = Unused /\ network = Unused /\ stack = Unused

InitHalving ==
    /\ kind = "halving" /\ Halving!Init
    /\ node = Unused /\ network = Unused /\ stack = Unused

InitTree ==
    /\ kind = "tree" /\ Tree!Init
    /\ delivered = Unused /\ network = Unused /\ stack = Unused

InitCustom ==
    /\ kind = "custom" /\ Custom!Init
    /\ sends = Unused /\ recvs = Unused /\ delivered = Unused
    /\ holds = Unused /\ node = Unused

Init == InitRing \/ InitHalving \/ InitTree \/ InitCustom

NextRing ==
    kind = "ring" /\ Ring!Next /\ UNCHANGED <<kind, holds, node, network, stack>>

NextHalving ==
    kind = "halving" /\ Halving!Next /\ UNCHANGED <<kind, node, network, stack>>

NextTree ==
    kind = "tree" /\ Tree!Next /\ UNCHANGED <<kind, delivered, network, stack>>

NextCustom ==
    /\ kind = "custom" /\ Custom!Next
    /\ UNCHANGED <<kind, sends, recvs, delivered, holds, node>>

Next == NextRing \/ NextHalving \/ NextTree \/ NextCustom

(***************************************************************************)
(* The bus and the network deliver, and loops go on.                       *)
(***************************************************************************)
Deliver ==
    \/ kind = "ring" /\ Ring!Deliver /\ UNCHANGED <<kind, holds, node, network, stack>>
    \/ kind = "halving" /\ Halving!Deliver /\ UNCHANGED <<kind, node, network, stack>>
    \/ kind = "tree" /\ Tree!Deliver /\ UNCHANGED <<kind, delivered, network, stack>>
    \/ /\ kind = "custom" /\ Custom!Deliver
       /\ UNCHANGED <<kind, sends, recvs, delivered, holds, node>>

Spec == Init /\ [][Next]_vars /\ WF_vars(Deliver)

-----------------------------------------------------------------------------
(***************************************************************************)
(* Properties.                                                             *)
(***************************************************************************)

\* exit() deletes the algorithm, and for the last phase the stream.  When a rank
\* leaves the phase no bundle of it is on the bus, no receive posted, no
\* completion to come and no walk under way: their events would run on freed
\* memory, or in the next phase, whose messages carry the same tag.
NothingOutstanding ==
    CASE kind = "ring" -> Ring!NothingOutstanding
      [] kind = "halving" -> Halving!NothingOutstanding
      [] kind = "tree" -> Tree!NothingOutstanding
      [] kind = "custom" -> Custom!NothingOutstanding

\* The native algorithms count events and never look at data; still nothing is
\* gathered or sent on before all that belongs into it is reduced: in a direct
\* all-reduce no fast peer's second message stands in for a slow peer's first,
\* in halving-doubling the second half carries the data of all ranks, and on a
\* tree a rank sends up its whole subtree.
ReducedBeforeGathered ==
    CASE kind = "ring" -> Ring!ReducedBeforeGathered
      [] kind = "halving" -> Halving!AllContribute
      [] kind = "tree" -> Tree!ReducedBeforeSent
      [] kind = "custom" -> TRUE

\* The counters on which each algorithm decides mean what it takes them for: all
\* packets of a ring are accounted for; the peers of halving-doubling choose each
\* other, with equal sizes that add up; the trees span the ranks and no leaf gets
\* its parent's message early; a custom collective leaves no free node lying and
\* takes no message of the workload for its own (under tags of its own).
BookkeepingExact ==
    CASE kind = "ring" -> Ring!PacketsConserved
      [] kind = "halving" -> Halving!PeersAgree /\ Halving!VolumeExact
      [] kind = "tree" -> Tree!TreeIsSpanning /\ Tree!LeafNotOvertaken
      [] kind = "custom" -> Custom!NoIdleWork /\ Custom!TrafficApart

\* Every algorithm is a phase as the scheduler expects it: a barrier among the
\* ranks that start it, which all of them leave.
Phase == INSTANCE CollectivePhase WITH
    member <- DOMAIN alg,
    started <- {r \in DOMAIN alg : IF kind = "tree" THEN alg[r].started
                                   ELSE alg[r].state # "created"},
    ended <- {r \in DOMAIN alg : IF kind = "tree" THEN alg[r].exited
                                 ELSE alg[r].state = "exited"}

ImplementsPhase == Phase!PSpec
=============================================================================
