-------------------------- MODULE MCStreamScheduler --------------------------
EXTENDS StreamScheduler

TwoByTwo == <<2, 2>>
OneByThree == <<1, 3>>

AllDims(type) == [type |-> type, involved |-> Dim]

ReduceThenGather == << AllDims("All_Reduce"), AllDims("All_Gather") >>

OneAllReduce == << AllDims("All_Reduce") >>

(***************************************************************************)
(* Two bounds that keep the search for a deadlock small.  Of two ranks     *)
(* that differ in the last dimension only, the first one leads and the     *)
(* other takes the same step before any other rank moves.  The ranks of    *)
(* coordinate 0 in the first dimension take the streams in their order.    *)
(***************************************************************************)
Follower(r) == [r EXCEPT ![Len(Dims)] = 1]

Behind ==
    {b \in {r \in Rank : r[Len(Dims)] = 0} \X Stream :
        sys[b[1]].step[b[2]] # sys[Follower(b[1])].step[b[2]]}

Lockstep ==
    /\ \A r \in Rank : r[Len(Dims)] = 0 =>
          \A s \in Stream : sys[r].step[s] - sys[Follower(r)].step[s] \in {0, 1}
    /\ \/ Cardinality(Behind) <= 1
       \/ \E r \in Rank : \A b \in Behind :
             /\ b[1] = r
             /\ sys[r].completed = 0 /\ sys[Follower(r)].issued = 0
             /\ \A s \in Stream : sys[r].step[s] <= 1

InOrder ==
    \A r \in Rank : r[1] = 0 =>
        \A s, t \in Stream : s < t => sys[r].step[s] >= sys[r].step[t]

LockstepInOrder == Lockstep /\ InOrder
=============================================================================
