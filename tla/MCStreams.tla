------------------------------- MODULE MCStreams -------------------------------
(***************************************************************************)
(* Two systems in one run: that of the configuration file, and a wide one  *)
(* of three ranks with a dimension of size one, two running streams in the *)
(* only queue of a dimension, LIFO priorities and the baseline layout, in  *)
(* which streams of a new collective enter a queue that the last stream of *)
(* the old one has not left.                                               *)
(***************************************************************************)
EXTENDS MCStreamScheduler

VARIABLE wide  \* is this a behaviour of the wide system?

\* Collectives over both dimensions of the wide system.
WideCollectives ==
    << [type |-> "All_Reduce", involved |-> 1 .. 2],
       [type |-> "All_Gather", involved |-> 1 .. 2] >>

Wide == INSTANCE StreamScheduler WITH
    Dims <- OneByThree, QueuesPerDim <- 1, ActiveChunks <- 2, Splits <- 3,
    Collectives <- WideCollectives, Lifo <- TRUE, Baseline <- TRUE

InitBoth ==
    \/ wide = FALSE /\ Init
    \/ wide = TRUE /\ Wide!Init

NextBoth ==
    /\ \/ ~wide /\ Next
       \/ wide /\ Wide!Next
    /\ UNCHANGED wide

CanMoveBoth == IF wide THEN Wide!CanMove ELSE CanMove

SpecBoth ==
    /\ InitBoth
    /\ [][NextBoth]_<<sys, wide>>
    /\ []<>~CanMoveBoth \/ []<><<NextBoth>>_<<sys, wide>>

-----------------------------------------------------------------------------
\* QueueDiscipline of StreamScheduler, in both systems: the started streams of a
\* queue are its first entries, none is started too late or twice, and each is
\* in the queue of its phase.
QueueDisciplineBoth == IF wide THEN Wide!QueueDiscipline ELSE QueueDiscipline

\* CompletionIsBarrier, in both systems: no rank sees a collective completed
\* before every rank has issued it.
CompletionIsBarrierBoth ==
    IF wide THEN Wide!CompletionIsBarrier ELSE CompletionIsBarrier

\* OrdersAgree, in both systems: ranks of one group never hold two streams in one
\* queue in opposite orders.
OrdersAgreeBoth == IF wide THEN Wide!OrdersAgree ELSE OrdersAgree

\* CollectivesFinish, in both systems: every collective finishes at every rank,
\* and the workload is told.
CollectivesFinishBoth == <>(IF wide THEN Wide!AllFinished ELSE AllFinished)
=============================================================================
