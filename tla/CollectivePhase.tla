---------------------------- MODULE CollectivePhase ----------------------------
(***************************************************************************)
(* What the scheduler expects of the algorithm that runs one phase of a    *)
(* stream among the ranks of one dimension: ranks start on their own, no   *)
(* rank ends before all have started, and once all have started all end.   *)
(***************************************************************************)
VARIABLES
    member,   \* the ranks of the group, fixed for the phase
    started,  \* the members that have started the phase
    ended     \* the members whose phase has ended

PInit == started = {} /\ ended = {}

start(r) ==
    /\ r \notin started
    /\ started' = started \cup {r}
    /\ UNCHANGED <<member, ended>>

end(r) ==
    /\ started = member
    /\ r \notin ended
    /\ ended' = ended \cup {r}
    /\ UNCHANGED <<member, started>>

PNext == \E r \in member : start(r) \/ end(r)

PSpec ==
    /\ PInit
    /\ [][PNext]_<<member, started, ended>>
    /\ (started = member) ~> (ended = member)
=============================================================================
