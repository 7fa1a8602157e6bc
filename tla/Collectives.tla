------------------------------ MODULE Collectives -------------------------------
(***************************************************************************)
(* From a collective of the trace to streams: what the ranks decide before *)
(* the scheduler sees anything.  CollectivePlans has the choice of group,  *)
(* algorithm and stream number on all ranks, CollectiveGeneration the      *)
(* chunks and phases that one rank makes of one collective.                *)
(*                                                                         *)
(* part says which of the two a behaviour is about; the variables of the   *)
(* other are Unused.                                                       *)
(***************************************************************************)
EXTENDS Integers, Sequences, FiniteSets

CONSTANTS
    Case,       \* of CollectiveGeneration
    MaxCount,
    Scenario,   \* of CollectivePlans
    GroupRange,
    IntRange

VARIABLES
    part,  \* "generation" or "plans"
    id, setup, coll, pc, involved, chunk_size, size, count, num_streams, vect,
    dataset,
    sc, sys, exited

generationvars ==
    <<id, setup, coll, pc, involved, chunk_size, size, count, num_streams, vect,
      dataset>>

plansvars == <<sc, sys, exited>>

vars == <<part, generationvars, plansvars>>

Generation == INSTANCE CollectiveGeneration

Plans == INSTANCE CollectivePlans

ASSUME CollectivesAssumption ==
    Generation!GenerationAssumption /\ Plans!ScenarioAssumption

Unused == <<>>

InitGeneration ==
    /\ part = "generation" /\ Generation!Init
    /\ sc = Unused /\ sys = Unused /\ exited = Unused

InitPlans ==
    /\ part = "plans" /\ Plans!Init
    /\ id = Unused /\ setup = Unused /\ coll = Unused /\ pc = Unused
    /\ involved = Unused /\ chunk_size = Unused /\ size = Unused
    /\ count = Unused /\ num_streams = Unused /\ vect = Unused
    /\ dataset = Unused

Init == InitGeneration \/ InitPlans

NextGeneration ==
    part = "generation" /\ Generation!Next /\ UNCHANGED <<part, plansvars>>

NextPlans == part = "plans" /\ Plans!Next /\ UNCHANGED <<part, generationvars>>

Next == NextGeneration \/ NextPlans

Spec == Init /\ [][Next]_vars

-----------------------------------------------------------------------------
(***************************************************************************)
(* Properties.                                                             *)
(***************************************************************************)

\* A DataSet is created with the number of streams it waits for before the loop
\* makes them, and streams may end while the loop runs: never are there more
\* streams than it waits for, and in the end just as many.
DatasetCountsStreams ==
    part = "generation" => Generation!DatasetCountsStreams

\* Chunks (that are not empty) cover the data that was asked for and none is
\* superfluous, however the dimensions divide a chunk no message is empty, and
\* the phases of all dimensions together do what one collective over all their
\* ranks would.
ChunksCompose ==
    part = "generation" =>
        /\ Generation!DataCovered
        /\ Generation!NoEmptyMessage
        /\ Generation!PhasesCompose

\* The topology that a rank builds for a dimension joins exactly the ranks that
\* differ from it in that dimension only (but for a tree at the end of a list of
\* implementations that is shorter than the dimensions), and ranks that build
\* their rings alone agree on who sends to whom.
TopologiesAgree ==
    part = "generation" =>
        Generation!DimensionIsLine /\ Generation!NeighboursAgree

\* Ranks that decide alone come to the same answers: the ranks of a collective
\* give it the same stream number, which is the tag of its messages, the same
\* algorithm and the same ring, and agree on their positions in the group.
RanksAgree ==
    part = "plans" =>
        /\ Plans!StreamNumbersAgree
        /\ Plans!PlansAgree
        /\ Plans!PositionsMatch

=============================================================================
