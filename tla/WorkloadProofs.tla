---------------------------- MODULE WorkloadProofs -----------------------------
(***************************************************************************)
(* Theorems about Workload, for every set of traces, every setting of the  *)
(* modes, and with or without receives whose handler runs at once.         *)
(***************************************************************************)
EXTENDS Workload, FiniteSetTheorems, WellFoundedInduction, TLAPS

TypeOK ==
    /\ trace \in Trace
    /\ sync_recv \in BOOLEAN
    /\ fired \in BOOLEAN
    /\ done \subseteq Nodes
    /\ ongoing \subseteq Nodes
    /\ in_flight \in [Slot -> Int]
    /\ stats \in [Nodes -> Stat]
    /\ events \in [Nodes -> Nat]
    /\ stack \in Seq(SUBSET Nodes)
    /\ in_call_events \in BOOLEAN
    /\ is_finished \in BOOLEAN
    /\ reports \in Nat
    /\ aborted \in BOOLEAN

Depth == 1 .. Len(stack)

(***************************************************************************)
(* What makes DependencyOrder inductive: a snapshot, however stale, holds  *)
(* nodes whose dependencies were finished when it was taken, and nothing   *)
(* becomes unfinished; and only a node that was started has a completion.  *)
(***************************************************************************)
SnapshotsReady ==
    \A i \in Depth : \A n \in stack[i] : trace[n].parents \subseteq done

EventsStarted == \A n \in Nodes : events[n] > 0 => stats[n].phase # "none"

(***************************************************************************)
(* What makes SlotsExclusive inductive: a node that holds a slot has at    *)
(* most one completion under way, and holds it until that comes.           *)
(***************************************************************************)
HoldersComplete ==
    \A n \in Nodes : SlotsOf(n) # {} /\ events[n] > 0 =>
        n \in ongoing /\ events[n] = 1

(***************************************************************************)
(* What makes FinishedMeansAllEnded inductive: without nested calls there  *)
(* is one snapshot, what is left of it is not stale, a finished node stays *)
(* ended, and nothing is issued after the report.                          *)
(***************************************************************************)
NotNested == Len(stack) <= 1

SnapshotFresh == \A i \in Depth : stack[i] \subseteq dependancy_free(done, ongoing)

DoneMeansEnded == \A n \in done : stats[n].phase = "ended"

FiredFirst == ~fired => stack = <<>> /\ \A n \in Nodes : events[n] = 0

QuietAfterReport == is_finished => stack = <<>> /\ fired

RegularInv ==
    /\ NotNested
    /\ FiredFirst
    /\ SnapshotFresh
    /\ DoneMeansEnded
    /\ QuietAfterReport

IInv ==
    /\ TypeOK
    /\ SnapshotsReady
    /\ EventsStarted
    /\ HoldersComplete
    /\ SlotsExclusive
    /\ DependencyOrder
    /\ Regular => RegularInv
    /\ FinishedMeansAllEnded

-----------------------------------------------------------------------------
(***************************************************************************)
(* A set of natural numbers that is not empty has a least element.         *)
(***************************************************************************)
LEMMA LeastElement ==
    ASSUME NEW S, S \subseteq Nat, S # {}
    PROVE  \E x \in S : \A y \in S : x <= y
  <1> DEFINE R == {ss \in Nat \X Nat : ss[1] < ss[2]}
  <1>1. IsWellFoundedOn(R, Nat)
    BY NatLessThanWellFounded DEF OpToRel
  <1>2. PICK x \in S : \A y \in S : <<y, x>> \notin R
    BY <1>1, WFMin, Zenon
  <1>3. \A y \in S : ~(y < x)
    BY <1>2
  <1> QED
    BY <1>3

(***************************************************************************)
(* The nodes of a trace are finitely many natural numbers, and what is     *)
(* read of a node is what the trace format allows.                         *)
(***************************************************************************)
LEMMA NodeFacts ==
    ASSUME trace \in Trace
    PROVE  /\ Nodes \subseteq Nat
           /\ IsFiniteSet(Nodes)
           /\ \A n \in Nodes : /\ trace[n] \in NodeInfo
                               /\ trace[n].parents \subseteq Nodes
                               /\ \A m \in trace[n].parents : m < n
                               /\ SlotsOf(n) \subseteq Slot
  <1>1. \A n \in Nodes : /\ n \in Node
                         /\ trace[n] \in NodeInfo
                         /\ \A m \in trace[n].parents : m \in Nodes /\ m < n
    BY TraceAssumption DEF Nodes
  <1>2. Nodes \subseteq Nat /\ Nodes \in SUBSET Node
    BY <1>1, NodeAssumption
  <1>3. IsFiniteSet(Nodes)
    BY <1>2, NodeAssumption, FS_Subset
  <1>4. \A n \in Nodes : SlotsOf(n) \subseteq Slot
    BY DEF SlotsOf, Slot
  <1> QED
    BY <1>1, <1>2, <1>3, <1>4

(***************************************************************************)
(* The loop of issue_dep_free_nodes takes a node of its snapshot and       *)
(* leaves the other snapshots as they are.                                 *)
(***************************************************************************)
LEMMA LoopFacts ==
    ASSUME TypeOK, InLoop
    PROVE  /\ Len(stack) \in Nat /\ 1 \in Depth
           /\ NextInLoop \in stack[1] /\ NextInLoop \in Nodes
           /\ RestOfLoop \in Seq(SUBSET Nodes)
           /\ Len(RestOfLoop) = Len(stack)
           /\ RestOfLoop[1] = stack[1] \ {NextInLoop}
           /\ \A i \in Depth : RestOfLoop[i] \subseteq stack[i]
  <1>1. /\ stack \in Seq(SUBSET Nodes) /\ stack # <<>>
        /\ Len(stack) \in Nat /\ 1 \in Depth
        /\ Head(stack) = stack[1] /\ stack[1] \in SUBSET Nodes
        /\ Tail(stack) \in Seq(SUBSET Nodes)
        /\ Len(Tail(stack)) = Len(stack) - 1
        /\ \A i \in 1 .. Len(stack) - 1 : Tail(stack)[i] = stack[i + 1]
    BY DEF TypeOK, InLoop, Depth
  <1>2. NextInLoop \in stack[1]
    <2>1. \E x \in stack[1] : \A y \in stack[1] : x <= y
      BY <1>1, LeastElement, NodeFacts DEF TypeOK, InLoop
    <2> QED
      BY <1>1, <2>1 DEF NextInLoop
  <1> DEFINE rest == stack[1] \ {NextInLoop}
  <1>3. rest \in SUBSET Nodes /\ RestOfLoop = <<rest>> \o Tail(stack)
    BY <1>1 DEF RestOfLoop
  <1> HIDE DEF rest
  <1>4. /\ RestOfLoop \in Seq(SUBSET Nodes)
        /\ Len(RestOfLoop) = Len(stack)
        /\ RestOfLoop[1] = rest
        /\ \A i \in 2 .. Len(stack) : RestOfLoop[i] = stack[i]
    BY <1>1, <1>3
  <1>5. \A i \in Depth : RestOfLoop[i] \subseteq stack[i]
    <2> SUFFICES ASSUME NEW i \in Depth
                 PROVE  RestOfLoop[i] \subseteq stack[i]
      OBVIOUS
    <2>1. CASE i = 1
      BY <1>4, <2>1 DEF rest
    <2>2. CASE i # 1
      <3>1. i \in 2 .. Len(stack)
        BY <1>1, <2>2 DEF Depth
      <3> QED
        BY <1>4, <3>1
    <2> QED
      BY <2>1, <2>2
  <1> QED
    BY <1>1, <1>2, <1>4, <1>5 DEF rest

(***************************************************************************)
(* The nodes that hold a slot, and what taking and giving back do to them. *)
(***************************************************************************)
Holders(s) == {n \in ongoing : s \in SlotsOf(n)}

\* A slot has a natural number of holders.
LEMMA HoldersFinite ==
    ASSUME TypeOK, NEW s
    PROVE  IsFiniteSet(Holders(s)) /\ Cardinality(Holders(s)) \in Nat
  <1>1. IsFiniteSet(Nodes) /\ Holders(s) \in SUBSET Nodes
    BY NodeFacts DEF TypeOK, Holders
  <1> QED
    BY <1>1, FS_Subset, FS_CardinalityType

\* HardwareResource::occupy, for a node that is_available let through.
LEMMA OccupyKeeps ==
    ASSUME TypeOK, SlotsExclusive, NEW n \in Nodes, is_available(n),
           trace' = trace, ongoing' = ongoing \cup {n},
           in_flight' = occupy(in_flight, n)
    PROVE  /\ in_flight' \in [Slot -> Int]
           /\ SlotsExclusive'
           /\ SlotsOf(n) # {} => n \notin ongoing
  <1>1. /\ in_flight' \in [Slot -> Int]
        /\ \A s \in Slot : in_flight'[s] =
               IF s \in SlotsOf(n) THEN in_flight[s] + 1 ELSE in_flight[s]
    BY DEF TypeOK, occupy
  <1>2. \A m \in Nodes : SlotsOf(m)' = SlotsOf(m)
    BY DEF SlotsOf
  <1>3. ASSUME NEW s \in SlotsOf(n)
        PROVE  s \in Slot /\ in_flight[s] = 0 /\ Holders(s) = {} /\ n \notin ongoing
    <2>1. s \in Slot /\ in_flight[s] = 0
      BY NodeFacts DEF TypeOK, is_available
    <2>2. Cardinality(Holders(s)) = 0
      BY <2>1 DEF SlotsExclusive, Holders
    <2>3. Holders(s) = {}
      BY <2>2, HoldersFinite, FS_EmptySet
    <2> QED
      BY <2>1, <2>3 DEF Holders
  <1>4. ASSUME NEW s \in Slot
        PROVE  in_flight'[s] = Cardinality(Holders(s)') /\ in_flight'[s] <= 1
    <2>1. CASE s \in SlotsOf(n)
      <3>1. Holders(s)' = {n}
        BY <1>2, <1>3, <2>1 DEF Holders, TypeOK
      <3>2. Cardinality(Holders(s)') = 1
        BY <3>1, FS_Singleton
      <3> QED
        BY <1>1, <1>3, <2>1, <3>2
    <2>2. CASE s \notin SlotsOf(n)
      <3>1. Holders(s)' = Holders(s)
        BY <1>2, <2>2 DEF Holders, TypeOK
      <3> QED
        BY <1>1, <2>2, <3>1 DEF SlotsExclusive, Holders
    <2> QED
      BY <2>1, <2>2
  <1> QED
    BY <1>1, <1>3, <1>4 DEF SlotsExclusive, Holders

\* HardwareResource::release, for a node that holds what it gives back.
LEMMA ReleaseKeeps ==
    ASSUME TypeOK, SlotsExclusive, NEW n \in Nodes,
           SlotsOf(n) # {} => n \in ongoing,
           trace' = trace, ongoing' = ongoing \ {n},
           in_flight' = release(in_flight, n)
    PROVE  in_flight' \in [Slot -> Int] /\ SlotsExclusive'
  <1>1. /\ in_flight' \in [Slot -> Int]
        /\ \A s \in Slot : in_flight'[s] =
               IF s \in SlotsOf(n) THEN in_flight[s] - 1 ELSE in_flight[s]
    BY DEF TypeOK, release
  <1>2. \A m \in Nodes : SlotsOf(m)' = SlotsOf(m)
    BY DEF SlotsOf
  <1>3. ASSUME NEW s \in Slot
        PROVE  in_flight'[s] = Cardinality(Holders(s)') /\ in_flight'[s] <= 1
    <2>1. IsFiniteSet(Holders(s)) /\ Cardinality(Holders(s)) \in Nat
      BY HoldersFinite
    <2>2. in_flight[s] = Cardinality(Holders(s)) /\ in_flight[s] <= 1
      BY DEF SlotsExclusive, Holders
    <2>3. Holders(s)' = Holders(s) \ {n}
      BY <1>2 DEF Holders, TypeOK
    <2>4. n \in Holders(s) <=> s \in SlotsOf(n)
      BY DEF Holders
    <2>5. Cardinality(Holders(s)') =
              IF s \in SlotsOf(n) THEN Cardinality(Holders(s)) - 1
              ELSE Cardinality(Holders(s))
      BY <2>1, <2>3, <2>4, FS_RemoveElement
    <2> QED
      BY <1>1, <2>1, <2>2, <2>5
  <1> QED
    BY <1>1, <1>3 DEF SlotsExclusive, Holders

(***************************************************************************)
(* What follows from the trace and the back end does not change.           *)
(***************************************************************************)
LEMMA FixedFacts ==
    ASSUME UNCHANGED fixed
    PROVE  /\ trace' = trace /\ sync_recv' = sync_recv /\ Nodes' = Nodes
           /\ \A n : SlotsOf(n)' = SlotsOf(n)
           /\ Regular' <=> Regular
  <1>1. trace' = trace /\ sync_recv' = sync_recv
    BY DEF fixed
  <1> QED
    BY <1>1 DEF Nodes, SlotsOf, Regular, Skipped, Replayed

(***************************************************************************)
(* Steps that issue nothing and finish nothing keep everything but the     *)
(* part of RegularInv that is about the stack.                             *)
(***************************************************************************)
LEMMA FrameKeeps ==
    ASSUME IInv, UNCHANGED <<fixed, done, ongoing, in_flight, stats, events>>
    PROVE  /\ EventsStarted' /\ HoldersComplete' /\ SlotsExclusive'
           /\ DependencyOrder' /\ (Regular => DoneMeansEnded')
  <1>1. /\ trace' = trace /\ Nodes' = Nodes
        /\ \A n : SlotsOf(n)' = SlotsOf(n)
    BY FixedFacts
  <1>2. SlotsExclusive'
    BY <1>1 DEF IInv, SlotsExclusive
  <1>3. HoldersComplete'
    BY <1>1 DEF IInv, HoldersComplete
  <1> QED
    BY <1>1, <1>2, <1>3
    DEF IInv, EventsStarted, DependencyOrder, RegularInv, DoneMeansEnded

\* Nothing is active or recorded at the start.
LEMMA InitIInv == Init => IInv
  <1> SUFFICES ASSUME Init PROVE IInv
    OBVIOUS
  <1>1. /\ trace \in Trace /\ sync_recv \in BOOLEAN
        /\ stack = <<>> /\ Len(stack) = 0
        /\ done = {} /\ ongoing = {} /\ ~is_finished /\ ~fired /\ reports = 0
        /\ \A n \in Nodes : stats[n] = NoStat /\ events[n] = 0
        /\ \A t \in Slot : in_flight[t] = 0
    BY ModeAssumption DEF Init, Nodes
  <1>2. TypeOK
    <2>1. <<>> \in Seq(SUBSET Nodes)
      OBVIOUS
    <2>2. NoStat \in Stat
      BY DEF NoStat, Stat
    <2>3. stats \in [Nodes -> Stat] /\ events \in [Nodes -> Nat]
      BY <2>2 DEF Init, Nodes
    <2>4. in_flight \in [Slot -> Int]
      BY DEF Init
    <2>5. /\ fired \in BOOLEAN /\ in_call_events \in BOOLEAN
          /\ is_finished \in BOOLEAN /\ aborted \in BOOLEAN
      BY DEF Init
    <2>6. done \subseteq Nodes /\ ongoing \subseteq Nodes /\ reports \in Nat
      BY <1>1
    <2> QED
      BY <1>1, <2>1, <2>3, <2>4, <2>5, <2>6 DEF TypeOK
  <1>3. SlotsExclusive
    <2>1. \A t \in Slot : {n \in ongoing : t \in SlotsOf(n)} = {}
      BY <1>1
    <2> QED
      BY <1>1, <2>1, FS_EmptySet DEF SlotsExclusive
  <1>4. Depth = {}
    BY <1>1 DEF Depth
  <1>5. RegularInv
    BY <1>1, <1>4
    DEF RegularInv, NotNested, FiredFirst, SnapshotFresh, DoneMeansEnded,
        QuietAfterReport
  <1>6. FinishedMeansAllEnded
    BY <1>1 DEF FinishedMeansAllEnded
  <1>7. SnapshotsReady /\ EventsStarted /\ HoldersComplete /\ DependencyOrder
    BY <1>1, <1>4
    DEF SnapshotsReady, EventsStarted, HoldersComplete, DependencyOrder, NoStat
  <1> QED
    BY <1>2, <1>3, <1>5, <1>6, <1>7 DEF IInv

\* fire: the first snapshot.
LEMMA FireKeeps ==
    ASSUME IInv, fire
    PROVE  IInv'
  <1> DEFINE S == dependancy_free(done, ongoing)
  <1>1. /\ UNCHANGED <<fixed, done, ongoing, in_flight, stats, events,
                       in_call_events, is_finished, reports, aborted>>
        /\ ~fired /\ fired' /\ fired' \in BOOLEAN /\ stack' = <<S>>
    BY DEF fire
  <1>2. /\ trace' = trace /\ Nodes' = Nodes /\ sync_recv' = sync_recv
        /\ Regular' <=> Regular
    BY <1>1, FixedFacts
  <1>3. S \in SUBSET Nodes /\ \A n \in S : trace[n].parents \subseteq done
    BY DEF dependancy_free
  <1>4. dependancy_free(done, ongoing)' = S
    BY <1>1, <1>2 DEF dependancy_free
  <1>5. /\ stack' \in Seq(SUBSET Nodes) /\ Len(stack') = 1 /\ stack'[1] = S
        /\ Depth' = {1} /\ stack' # <<>>
    <2> HIDE DEF S
    <2> QED
      BY <1>1, <1>3 DEF Depth
  <1> HIDE DEF S
  <1>6. TypeOK'
    BY <1>1, <1>2, <1>5 DEF IInv, TypeOK
  <1>7. SnapshotsReady'
    BY <1>1, <1>2, <1>3, <1>5 DEF SnapshotsReady
  <1>8. Regular => ~is_finished
    BY <1>1 DEF IInv, RegularInv, QuietAfterReport
  <1>9. Regular' => RegularInv'
    <2>1. SnapshotFresh'
      BY <1>4, <1>5 DEF SnapshotFresh
    <2> QED
      BY <1>1, <1>2, <1>5, <1>8, <2>1, FrameKeeps
      DEF RegularInv, NotNested, FiredFirst, QuietAfterReport
  <1>10. FinishedMeansAllEnded'
    BY <1>1, <1>2 DEF IInv, FinishedMeansAllEnded
  <1> QED
    BY <1>1, <1>6, <1>7, <1>9, <1>10, FrameKeeps DEF IInv

\* A snapshot that is too busy or is used up: the stack only shrinks.
LEMMA ShrinkKeeps ==
    ASSUME IInv, NEW k \in Seq(SUBSET Nodes),
           \A i \in 1 .. Len(k) : \E j \in Depth : k[i] \subseteq stack[j],
           Len(k) <= Len(stack), k # <<>> => stack # <<>>,
           stack' = k, is_finished' = is_finished, reports' = reports,
           aborted' \in BOOLEAN,
           UNCHANGED <<fixed, fired, done, ongoing, in_flight, stats, events,
                       in_call_events>>
    PROVE  IInv'
  <1>1. /\ trace' = trace /\ Nodes' = Nodes /\ sync_recv' = sync_recv
        /\ Regular' <=> Regular
    BY FixedFacts
  <1>2. Depth' = 1 .. Len(k) /\ Len(k) \in Nat /\ Len(stack) \in Nat
    BY DEF Depth, IInv, TypeOK
  <1>3. TypeOK'
    BY <1>1 DEF IInv, TypeOK
  <1>4. SnapshotsReady'
    BY <1>1, <1>2 DEF IInv, SnapshotsReady
  <1>5. ASSUME Regular
        PROVE  RegularInv'
    <2>1. RegularInv
      BY <1>5 DEF IInv
    <2>2. NotNested'
      BY <1>2, <2>1 DEF RegularInv, NotNested
    <2>3. dependancy_free(done, ongoing)' = dependancy_free(done, ongoing)
      BY <1>1 DEF dependancy_free
    <2>4. SnapshotFresh'
      BY <1>2, <2>1, <2>3 DEF RegularInv, SnapshotFresh
    <2>5. DoneMeansEnded'
      BY <1>5, FrameKeeps
    <2>6. QuietAfterReport' /\ FiredFirst'
      BY <1>1, <2>1 DEF RegularInv, QuietAfterReport, FiredFirst
    <2> QED
      BY <2>2, <2>4, <2>5, <2>6 DEF RegularInv
  <1>6. FinishedMeansAllEnded'
    BY <1>1 DEF IInv, FinishedMeansAllEnded
  <1> QED
    BY <1>1, <1>3, <1>4, <1>5, <1>6, FrameKeeps DEF IInv

\* issue_dep_free_nodes passes over a node whose slot is taken.
LEMMA NotAvailableKeeps ==
    ASSUME IInv, not_available
    PROVE  IInv'
  <1>1. InLoop /\ TypeOK
    BY DEF IInv, not_available
  <1>2. /\ RestOfLoop \in Seq(SUBSET Nodes) /\ Len(RestOfLoop) = Len(stack)
        /\ Len(stack) \in Nat /\ stack # <<>>
        /\ \A i \in Depth : RestOfLoop[i] \subseteq stack[i]
    BY <1>1, LoopFacts DEF InLoop
  <1>3. \A i \in 1 .. Len(RestOfLoop) :
            \E j \in Depth : RestOfLoop[i] \subseteq stack[j]
    BY <1>2 DEF Depth
  <1>4. aborted' \in BOOLEAN
    BY <1>1 DEF TypeOK, not_available
  <1> QED
    BY <1>2, <1>3, <1>4, ShrinkKeeps DEF not_available

\* A failed assert ends the program as it stands.
LEMMA AssertFailsKeeps ==
    ASSUME IInv, assert_fails
    PROVE  IInv'
  <1>1. stack \in Seq(SUBSET Nodes) /\ aborted' \in BOOLEAN /\ Len(stack) \in Nat
    BY DEF IInv, TypeOK, assert_fails
  <1>2. \A i \in 1 .. Len(stack) : \E j \in Depth : stack[i] \subseteq stack[j]
    BY DEF Depth
  <1> QED
    BY <1>1, <1>2, ShrinkKeeps DEF assert_fails

(***************************************************************************)
(* When nothing is left, every node is finished: the least node that is    *)
(* not has its dependencies finished, so it is free or ongoing.            *)
(***************************************************************************)
LEMMA NothingLeftMeansAllDone ==
    ASSUME TypeOK, NothingLeft
    PROVE  Nodes \subseteq done
  <1> DEFINE R == Nodes \ done
  <1>1. SUFFICES ASSUME R # {} PROVE FALSE
    OBVIOUS
  <1>2. R \subseteq Nat
    BY NodeFacts DEF TypeOK
  <1>3. PICK n \in R : \A m \in R : n <= m
    BY <1>1, <1>2, LeastElement
  <1>4. trace[n].parents \subseteq done
    <2> SUFFICES ASSUME NEW m \in trace[n].parents PROVE m \in done
      OBVIOUS
    <2>1. m \in Nodes /\ m < n /\ m \in Nat /\ n \in Nat
      BY <1>2, NodeFacts DEF TypeOK
    <2> QED
      BY <1>3, <2>1
  <1>5. n \in dependancy_free(done, ongoing)
    BY <1>4 DEF dependancy_free, NothingLeft
  <1> QED
    BY <1>5 DEF NothingLeft

\* The end of Workload::call, with or without the report.
LEMMA ReturnKeeps ==
    ASSUME IInv, return_from_call
    PROVE  IInv'
  <1>1. /\ TypeOK /\ stack # <<>>
        /\ UNCHANGED <<fixed, fired, done, ongoing, in_flight, stats, events,
                       in_call_events>>
    BY DEF IInv, return_from_call
  <1>2. /\ stack \in Seq(SUBSET Nodes) /\ Len(stack) \in Nat
        /\ Tail(stack) \in Seq(SUBSET Nodes)
        /\ Len(Tail(stack)) = Len(stack) - 1
        /\ \A i \in 1 .. Len(Tail(stack)) :
               i + 1 \in Depth /\ Tail(stack)[i] = stack[i + 1]
        /\ aborted \in BOOLEAN
    BY <1>1 DEF TypeOK, Depth
  <1>3. \A i \in 1 .. Len(Tail(stack)) :
            \E j \in Depth : Tail(stack)[i] \subseteq stack[j]
    BY <1>2
  <1>4. \A i \in 1 .. Len(stack) : \E j \in Depth : stack[i] \subseteq stack[j]
    BY DEF Depth
  <1>5. CASE ~NothingLeft
    <2>1. /\ stack' = Tail(stack) /\ is_finished' = is_finished
          /\ reports' = reports /\ aborted' = aborted
      BY <1>5 DEF return_from_call
    <2>2. Len(Tail(stack)) <= Len(stack) /\ aborted' \in BOOLEAN
      BY <1>2, <2>1
    <2> QED
      BY <1>1, <1>2, <1>3, <2>1, <2>2, ShrinkKeeps, Zenon
  <1>6. CASE /\ stack' = stack /\ is_finished' = is_finished
             /\ reports' = reports /\ aborted' = TRUE
    BY <1>1, <1>2, <1>4, <1>6, ShrinkKeeps
  <1>7. CASE Throw /\ is_finished' = is_finished /\ reports' = reports
    <2>1. CASE stack' = <<>> /\ aborted' = aborted
      <3>1. <<>> \in Seq(SUBSET Nodes) /\ Len(<<>>) <= Len(stack)
        BY <1>2
      <3>2. \A i \in 1 .. Len(<<>>) : \E j \in Depth : <<>>[i] \subseteq stack[j]
        OBVIOUS
      <3>3. aborted' \in BOOLEAN
        BY <1>2, <2>1
      <3> QED
        BY <1>1, <1>7, <2>1, <3>1, <3>2, <3>3, ShrinkKeeps, Zenon
    <2>2. CASE aborted' = TRUE /\ stack' = stack
      BY <1>1, <1>2, <1>4, <1>7, <2>2, ShrinkKeeps
    <2> QED
      BY <1>7, <2>1, <2>2 DEF Throw
  <1>8. CASE /\ NothingLeft /\ stack' = Tail(stack) /\ is_finished' = TRUE
             /\ reports' = reports + 1 /\ aborted' = aborted
    <2>1. /\ trace' = trace /\ Nodes' = Nodes /\ sync_recv' = sync_recv
          /\ Regular' <=> Regular
      BY <1>1, FixedFacts
    <2>2. Depth' = 1 .. Len(Tail(stack))
      BY <1>8 DEF Depth
    <2>3. TypeOK'
      BY <1>1, <1>2, <1>8, <2>1 DEF TypeOK
    <2>4. SnapshotsReady'
      BY <1>1, <1>2, <1>8, <2>1, <2>2 DEF IInv, SnapshotsReady
    <2>5. ASSUME Regular
          PROVE  RegularInv' /\ FinishedMeansAllEnded'
      <3>1. RegularInv
        BY <2>5 DEF IInv
      <3>2. stack' = <<>> /\ Len(stack') = 0 /\ Depth' = {}
        BY <1>2, <1>8, <2>2, <3>1 DEF RegularInv, NotNested
      <3>3. DoneMeansEnded'
        BY <1>1, <2>5, FrameKeeps
      <3>4. RegularInv'
        BY <1>1, <3>1, <3>2, <3>3
        DEF RegularInv, NotNested, FiredFirst, SnapshotFresh, QuietAfterReport
      <3>5. \A n \in Nodes : stats[n].phase = "ended"
        BY <1>1, <1>8, <3>1, NothingLeftMeansAllDone DEF RegularInv, DoneMeansEnded
      <3>6. ~is_finished
        BY <1>1, <3>1 DEF RegularInv, QuietAfterReport
      <3>7. reports = 0
        BY <2>5, <3>6 DEF IInv, FinishedMeansAllEnded
      <3> QED
        BY <1>1, <1>8, <2>1, <3>4, <3>5, <3>7 DEF FinishedMeansAllEnded
    <2>6. FinishedMeansAllEnded'
      BY <2>1, <2>5 DEF FinishedMeansAllEnded
    <2> QED
      BY <1>1, <2>1, <2>3, <2>4, <2>5, <2>6, FrameKeeps DEF IInv
  <1> QED
    BY <1>5, <1>6, <1>7, <1>8 DEF return_from_call

(***************************************************************************)
(* issue() takes a node, occupies its slot and records its start.          *)
(***************************************************************************)
LEMMA StartKeeps ==
    ASSUME IInv, InLoop, NEW n, n = NextInLoop, is_available(n),
           NEW type \in OperatorType,
           ongoing' = ongoing \cup {n},
           in_flight' = occupy(in_flight, n),
           stats' = record_start(n, type),
           \/ events' = events
           \/ events' = [events EXCEPT ![n] = @ + 1],
           stack' \in Seq(SUBSET Nodes),
           Len(stack') <= Len(stack),
           \A i \in 1 .. Len(stack') : stack'[i] \subseteq stack[i],
           Regular => \A i \in 1 .. Len(stack') : n \notin stack'[i],
           aborted' \in BOOLEAN,
           UNCHANGED <<fixed, fired, done, in_call_events, is_finished, reports>>
    PROVE  IInv'
  <1>1. /\ trace' = trace /\ Nodes' = Nodes /\ sync_recv' = sync_recv
        /\ \A m : SlotsOf(m)' = SlotsOf(m)
        /\ Regular' <=> Regular
    BY FixedFacts
  <1>2. TypeOK /\ n \in Nodes /\ 1 \in Depth /\ n \in stack[1]
    BY LoopFacts DEF IInv
  <1>3. /\ Depth' = 1 .. Len(stack') /\ Depth' \subseteq Depth
        /\ Len(stack') \in Nat /\ Len(stack) \in Nat
    BY <1>2 DEF Depth, TypeOK
  <1>4. /\ in_flight' \in [Slot -> Int] /\ SlotsExclusive'
        /\ SlotsOf(n) # {} => n \notin ongoing
    BY <1>1, <1>2, OccupyKeeps DEF IInv
  <1>5. /\ stats' \in [Nodes -> Stat]
        /\ stats'[n].phase = "started"
        /\ \A m \in Nodes : m # n => stats'[m] = stats[m]
    BY <1>2 DEF TypeOK, record_start, Stat
  <1>6. /\ events' \in [Nodes -> Nat]
        /\ events'[n] <= events[n] + 1
        /\ \A m \in Nodes : m # n => events'[m] = events[m]
    BY <1>2 DEF TypeOK
  <1>7. TypeOK'
    BY <1>1, <1>2, <1>4, <1>5, <1>6 DEF TypeOK
  <1>8. SnapshotsReady'
    BY <1>1, <1>3 DEF IInv, SnapshotsReady
  <1>9. EventsStarted'
    BY <1>1, <1>5, <1>6 DEF IInv, EventsStarted
  <1>10. HoldersComplete'
    <2> SUFFICES ASSUME NEW m \in Nodes, SlotsOf(m) # {}, events'[m] > 0
                 PROVE  m \in ongoing' /\ events'[m] = 1
      BY <1>1 DEF HoldersComplete
    <2>1. CASE m = n
      <3>1. events[n] = 0
        BY <1>2, <1>4, <2>1 DEF IInv, HoldersComplete, TypeOK
      <3> QED
        BY <1>2, <1>6, <2>1, <3>1
    <2>2. CASE m # n
      BY <1>6, <2>2 DEF IInv, HoldersComplete
    <2> QED
      BY <2>1, <2>2
  <1>11. DependencyOrder'
    BY <1>1, <1>2, <1>5 DEF IInv, DependencyOrder, SnapshotsReady
  <1>12. ASSUME Regular
         PROVE  RegularInv' /\ FinishedMeansAllEnded'
    <2>1. RegularInv
      BY <1>12 DEF IInv
    <2>2. ~is_finished /\ fired /\ n \notin done
      BY <1>2, <2>1 DEF RegularInv, QuietAfterReport, FiredFirst, InLoop,
                        SnapshotFresh, dependancy_free
    <2>3. SnapshotFresh'
      <3> SUFFICES ASSUME NEW i \in Depth', NEW m \in stack'[i]
                   PROVE  m \in dependancy_free(done, ongoing)'
        BY DEF SnapshotFresh
      <3>1. m \in dependancy_free(done, ongoing) /\ m # n
        BY <1>3, <1>12, <2>1 DEF RegularInv, SnapshotFresh
      <3> QED
        BY <1>1, <3>1 DEF dependancy_free
    <2>4. DoneMeansEnded'
      BY <1>2, <1>5, <2>1, <2>2 DEF RegularInv, DoneMeansEnded, TypeOK
    <2>5. NotNested' /\ QuietAfterReport' /\ FiredFirst'
      BY <1>3, <2>1, <2>2
      DEF RegularInv, NotNested, QuietAfterReport, FiredFirst
    <2>6. FinishedMeansAllEnded'
      BY <1>12, <2>2 DEF IInv, FinishedMeansAllEnded
    <2> QED
      BY <2>3, <2>4, <2>5, <2>6 DEF RegularInv
  <1>13. FinishedMeansAllEnded'
    BY <1>1, <1>12 DEF FinishedMeansAllEnded
  <1> QED
    BY <1>1, <1>4, <1>7, <1>8, <1>9, <1>10, <1>11, <1>12, <1>13 DEF IInv

\* get_operator_type picks an operator type, also where it is left unset.
LEMMA OperatorTypes ==
    ASSUME TypeOK, NEW n \in Nodes
    PROVE  get_operator_type(n) \subseteq OperatorType
  <1>1. trace[n].type \in NodeType
    BY NodeFacts DEF TypeOK, NodeInfo
  <1> QED
    BY <1>1 DEF get_operator_type, OperatorType, NodeType

\* issue() of a node that completes later.
LEMMA IssueAsyncKeeps ==
    ASSUME IInv, issue_async
    PROVE  IInv'
  <1> DEFINE n == NextInLoop
  <1>1. InLoop /\ TypeOK /\ is_available(n)
    BY DEF IInv, issue_async
  <1>2. /\ Len(stack) \in Nat /\ 1 \in Depth /\ n \in Nodes
        /\ RestOfLoop \in Seq(SUBSET Nodes) /\ Len(RestOfLoop) = Len(stack)
        /\ RestOfLoop[1] = stack[1] \ {n}
        /\ \A i \in Depth : RestOfLoop[i] \subseteq stack[i]
    BY <1>1, LoopFacts
  <1>3. PICK type \in get_operator_type(n) : stats' = record_start(n, type)
    BY DEF issue_async
  <1>4. type \in OperatorType
    BY <1>1, <1>2, OperatorTypes
  <1>5. /\ ongoing' = ongoing \cup {n} /\ in_flight' = occupy(in_flight, n)
        /\ events' = [events EXCEPT ![n] = @ + 1]
        /\ stack' = RestOfLoop /\ aborted' \in BOOLEAN
        /\ UNCHANGED <<fixed, fired, done, in_call_events, is_finished, reports>>
    BY <1>1 DEF issue_async, TypeOK
  <1>6. /\ Len(stack') <= Len(stack) /\ stack' \in Seq(SUBSET Nodes)
        /\ \A i \in 1 .. Len(stack') : stack'[i] \subseteq stack[i]
    BY <1>2, <1>5 DEF Depth
  <1>7. Regular => \A i \in 1 .. Len(stack') : n \notin stack'[i]
    BY <1>2, <1>5 DEF IInv, RegularInv, NotNested
  <1> HIDE DEF n
  <1> QED
    BY <1>1, <1>3, <1>4, <1>5, <1>6, <1>7, StartKeeps DEF n

\* issue_comm throws for communication on the CPU: no regular trace has it.
LEMMA IssueThrowsKeeps ==
    ASSUME IInv, issue_throws
    PROVE  IInv'
  <1> DEFINE n == NextInLoop
  <1>1. InLoop /\ TypeOK /\ is_available(n) /\ Throws(n)
    BY DEF IInv, issue_throws
  <1>2. Len(stack) \in Nat /\ n \in Nodes
    BY <1>1, LoopFacts
  <1>3. PICK type \in get_operator_type(n) : stats' = record_start(n, type)
    BY DEF issue_throws
  <1>4. type \in OperatorType
    BY <1>1, <1>2, OperatorTypes
  <1>5. /\ ongoing' = ongoing \cup {n} /\ in_flight' = occupy(in_flight, n)
        /\ events' = events
        /\ UNCHANGED <<fixed, fired, done, in_call_events, is_finished, reports>>
    BY DEF issue_throws
  <1>6. /\ Len(stack') <= Len(stack) /\ stack' \in Seq(SUBSET Nodes)
        /\ \A i \in 1 .. Len(stack') : stack'[i] \subseteq stack[i]
        /\ aborted' \in BOOLEAN
    <2>1. Throw
      BY DEF issue_throws
    <2>2. CASE stack' = <<>> /\ aborted' = aborted
      BY <1>1, <1>2, <2>2 DEF TypeOK
    <2>3. CASE stack' = stack /\ aborted' = TRUE
      BY <1>1, <1>2, <2>3 DEF TypeOK
    <2> QED
      BY <2>1, <2>2, <2>3 DEF Throw
  <1>7. ~Regular
    BY <1>1, <1>2 DEF Regular, Throws
  <1> HIDE DEF n
  <1> QED
    BY <1>1, <1>3, <1>4, <1>5, <1>6, <1>7, StartKeeps DEF n

\* skip_invalid finishes a node within issue(): its slot is free again.
LEMMA SkipInvalidKeeps ==
    ASSUME IInv, skip_invalid
    PROVE  IInv'
  <1> DEFINE n == NextInLoop
  <1>1. /\ InLoop /\ TypeOK /\ done' = done \cup {n} /\ stack' = RestOfLoop
        /\ UNCHANGED <<fixed, fired, ongoing, events, in_call_events, is_finished,
                       reports, aborted>>
    BY DEF IInv, skip_invalid
  <1>2. /\ Len(stack) \in Nat /\ 1 \in Depth /\ n \in stack[1] /\ n \in Nodes
        /\ RestOfLoop \in Seq(SUBSET Nodes) /\ Len(RestOfLoop) = Len(stack)
        /\ RestOfLoop[1] = stack[1] \ {n}
        /\ \A i \in Depth : RestOfLoop[i] \subseteq stack[i]
    BY <1>1, LoopFacts
  <1>3. /\ trace' = trace /\ Nodes' = Nodes /\ sync_recv' = sync_recv
        /\ \A m : SlotsOf(m)' = SlotsOf(m)
        /\ Regular' <=> Regular
    BY <1>1, FixedFacts
  <1>4. Depth' = Depth
    BY <1>1, <1>2 DEF Depth
  <1>5. /\ stats' \in [Nodes -> Stat]
        /\ stats'[n].phase = "ended"
        /\ \A m \in Nodes : m # n => stats'[m] = stats[m]
    <2>1. PICK type \in get_operator_type(n) :
              stats' = record_end(record_start(n, type), n)
      BY DEF skip_invalid
    <2>2. type \in OperatorType
      BY <1>1, <1>2, OperatorTypes
    <2> HIDE DEF n
    <2> QED
      BY <1>1, <1>2, <2>1, <2>2 DEF record_end, record_start, TypeOK, Stat
  <1> HIDE DEF n
  <1>6. in_flight' = in_flight
    <2>1. in_flight' = release(occupy(in_flight, n), n)
      BY DEF skip_invalid, n
    <2> QED
      BY <1>1, <2>1 DEF release, occupy, TypeOK
  <1>7. TypeOK'
    BY <1>1, <1>2, <1>3, <1>5, <1>6 DEF TypeOK
  <1>8. SnapshotsReady'
    BY <1>1, <1>2, <1>3, <1>4 DEF IInv, SnapshotsReady
  <1>9. EventsStarted'
    BY <1>1, <1>3, <1>5 DEF IInv, EventsStarted
  <1>10. HoldersComplete' /\ SlotsExclusive'
    BY <1>1, <1>3, <1>6 DEF IInv, HoldersComplete, SlotsExclusive
  <1>11. DependencyOrder'
    BY <1>1, <1>2, <1>3, <1>5 DEF IInv, DependencyOrder, SnapshotsReady
  <1>12. ASSUME Regular
         PROVE  RegularInv' /\ FinishedMeansAllEnded'
    <2>1. RegularInv
      BY <1>12 DEF IInv
    <2>2. ~is_finished /\ Len(stack) = 1 /\ Depth = {1}
      BY <1>1, <1>2, <2>1 DEF RegularInv, QuietAfterReport, InLoop, NotNested, Depth
    <2>3. SnapshotFresh'
      <3> SUFFICES ASSUME NEW m \in stack'[1]
                   PROVE  m \in dependancy_free(done, ongoing)'
        BY <1>4, <2>2 DEF SnapshotFresh
      <3>1. m \in dependancy_free(done, ongoing) /\ m # n
        BY <1>1, <1>2, <2>1 DEF RegularInv, SnapshotFresh
      <3> QED
        BY <1>1, <1>3, <3>1 DEF dependancy_free
    <2>4. DoneMeansEnded'
      BY <1>1, <1>5, <2>1 DEF RegularInv, DoneMeansEnded, TypeOK
    <2>5. NotNested' /\ QuietAfterReport'
      BY <1>1, <1>2, <2>1, <2>2 DEF RegularInv, NotNested, QuietAfterReport
    <2>6. FiredFirst'
      BY <1>1, <2>1 DEF RegularInv, FiredFirst, InLoop
    <2>7. FinishedMeansAllEnded'
      BY <1>1, <1>12, <2>2 DEF IInv, FinishedMeansAllEnded
    <2> QED
      BY <2>3, <2>4, <2>5, <2>6, <2>7 DEF RegularInv
  <1>13. FinishedMeansAllEnded'
    BY <1>3, <1>12 DEF FinishedMeansAllEnded
  <1> QED
    BY <1>3, <1>7, <1>8, <1>9, <1>10, <1>11, <1>12, <1>13 DEF IInv

(***************************************************************************)
(* A snapshot that Workload::call takes after it has finished a node, on   *)
(* top of what is left of the snapshots below.                             *)
(***************************************************************************)
LEMMA SnapshotTaken ==
    ASSUME IInv, NEW n \in Nodes, NEW k \in Seq(SUBSET Nodes),
           \A i \in 1 .. Len(k) : \E j \in Depth : k[i] \subseteq stack[j],
           trace' = trace,
           done' = done \cup {n}, ongoing' = ongoing \ {n},
           stack' = <<dependancy_free(done \cup {n}, ongoing \ {n})>> \o k
    PROVE  /\ stack' \in Seq(SUBSET Nodes)
           /\ Len(stack') = Len(k) + 1 /\ Len(k) \in Nat
           /\ stack'[1] = dependancy_free(done, ongoing)'
           /\ SnapshotsReady'
  <1> DEFINE S == dependancy_free(done \cup {n}, ongoing \ {n})
  <1>1. S \in SUBSET Nodes /\ \A m \in S : trace[m].parents \subseteq done \cup {n}
    BY DEF dependancy_free
  <1>2. S = dependancy_free(done, ongoing)'
    BY DEF dependancy_free, Nodes
  <1> HIDE DEF S
  <1>3. /\ stack' \in Seq(SUBSET Nodes) /\ Len(stack') = Len(k) + 1
        /\ Len(k) \in Nat /\ stack'[1] = S
        /\ \A i \in 2 .. Len(k) + 1 : i - 1 \in 1 .. Len(k) /\ stack'[i] = k[i - 1]
    <2>1. stack' = <<S>> \o k
      BY DEF S
    <2>2. /\ <<S>> \o k \in Seq(SUBSET Nodes) /\ Len(<<S>> \o k) = Len(k) + 1
          /\ Len(k) \in Nat /\ (<<S>> \o k)[1] = S
          /\ \A i \in 2 .. Len(k) + 1 :
                 i - 1 \in 1 .. Len(k) /\ (<<S>> \o k)[i] = k[i - 1]
      BY <1>1
    <2> QED
      BY <2>1, <2>2
  <1>4. SnapshotsReady'
    <2> SUFFICES ASSUME NEW i \in 1 .. Len(k) + 1, NEW m \in stack'[i]
                 PROVE  trace[m].parents \subseteq done \cup {n}
      BY <1>3 DEF SnapshotsReady, Depth
    <2>1. CASE i = 1
      BY <1>1, <1>3, <2>1
    <2>2. CASE i # 1
      <3>1. i \in 2 .. Len(k) + 1
        BY <1>3, <2>2
      <3>2. PICK j \in Depth : k[i - 1] \subseteq stack[j]
        BY <1>3, <3>1
      <3>3. m \in stack[j]
        BY <1>3, <3>1, <3>2
      <3> QED
        BY <3>3 DEF IInv, SnapshotsReady
    <2> QED
      BY <2>1, <2>2
  <1> QED
    BY <1>2, <1>3, <1>4

\* A receive whose handler runs at once: a nested call, and a stale snapshot.
LEMMA IssueRecvNowKeeps ==
    ASSUME IInv, issue_recv_now
    PROVE  IInv'
  <1> DEFINE n == NextInLoop
  <1>1. /\ InLoop /\ TypeOK /\ is_available(n) /\ sync_recv
        /\ SlotsOf(n) = {}
        /\ UNCHANGED <<fixed, fired, events, in_call_events, is_finished, reports,
                       aborted>>
    BY DEF IInv, issue_recv_now, Throws, SlotsOf
  <1>2. /\ Len(stack) \in Nat /\ 1 \in Depth /\ n \in stack[1] /\ n \in Nodes
        /\ RestOfLoop \in Seq(SUBSET Nodes) /\ Len(RestOfLoop) = Len(stack)
        /\ \A i \in Depth : RestOfLoop[i] \subseteq stack[i]
    BY <1>1, LoopFacts
  <1>3. ~Regular
    BY <1>1 DEF Regular
  <1>4. \A i \in 1 .. Len(RestOfLoop) : RestOfLoop[i] \subseteq stack[i]
    BY <1>2 DEF Depth
  <1>5. CASE is_finished
    <2>1. /\ ongoing' = ongoing \cup {n} /\ in_flight' = occupy(in_flight, n)
          /\ stats' = record_start(n, "COMM") /\ stack' = RestOfLoop
          /\ UNCHANGED done
      BY <1>5 DEF issue_recv_now
    <2>2. "COMM" \in OperatorType /\ aborted' \in BOOLEAN
      BY <1>1 DEF OperatorType, TypeOK
    <2>3. Len(stack') <= Len(stack)
      BY <1>2, <2>1
    <2> HIDE DEF n
    <2> QED
      BY <1>1, <1>2, <1>3, <1>4, <2>1, <2>2, <2>3, StartKeeps DEF n
  <1>6. CASE ~is_finished
    <2>1. EnterCall(n, record_start(n, "COMM"), ongoing \cup {n},
                    occupy(in_flight, n), RestOfLoop)
      BY <1>6 DEF issue_recv_now
    <2> HIDE DEF n
    <2>2. /\ trace' = trace /\ Nodes' = Nodes /\ sync_recv' = sync_recv
          /\ \A m : SlotsOf(m)' = SlotsOf(m)
          /\ Regular' <=> Regular
      BY <1>1, FixedFacts
    <2>3. (ongoing \cup {n}) \ {n} = ongoing \ {n}
      OBVIOUS
    <2>4. /\ done' = done \cup {n} /\ ongoing' = ongoing \ {n}
          /\ stack' = <<dependancy_free(done \cup {n}, ongoing \ {n})>> \o RestOfLoop
      BY <2>1, <2>3 DEF EnterCall
    <2>5. in_flight' = release(in_flight, n)
      BY <1>1, <2>1 DEF EnterCall, occupy, release
    <2>6. in_flight' \in [Slot -> Int] /\ SlotsExclusive'
      BY <1>1, <1>2, <2>2, <2>4, <2>5, ReleaseKeeps DEF IInv
    <2>7. \A i \in 1 .. Len(RestOfLoop) :
              \E j \in Depth : RestOfLoop[i] \subseteq stack[j]
      BY <1>2 DEF Depth
    <2>8. stack' \in Seq(SUBSET Nodes) /\ SnapshotsReady'
      BY <1>2, <2>2, <2>4, <2>7, SnapshotTaken
    <2>9. /\ stats' \in [Nodes -> Stat]
          /\ stats'[n].phase = "ended"
          /\ \A m \in Nodes : m # n => stats'[m] = stats[m]
      BY <1>1, <1>2, <2>1
      DEF EnterCall, record_end, record_start, TypeOK, Stat, OperatorType
    <2>10. TypeOK'
      BY <1>1, <1>2, <2>2, <2>4, <2>6, <2>8, <2>9 DEF TypeOK
    <2>11. EventsStarted'
      BY <1>1, <2>2, <2>9 DEF IInv, EventsStarted
    <2>12. HoldersComplete'
      BY <1>1, <2>2, <2>4 DEF IInv, HoldersComplete
    <2>13. DependencyOrder'
      BY <1>2, <2>2, <2>4, <2>9 DEF IInv, DependencyOrder, SnapshotsReady
    <2>14. FinishedMeansAllEnded'
      BY <1>3, <2>2 DEF FinishedMeansAllEnded
    <2> QED
      BY <1>3, <2>2, <2>6, <2>8, <2>10, <2>11, <2>12, <2>13, <2>14 DEF IInv
  <1> QED
    BY <1>1, <1>5, <1>6 DEF TypeOK

\* A completion: the slot is given back, the end recorded, the node finished.
LEMMA CompleteKeeps ==
    ASSUME IInv, NEW n \in Nodes, complete(n)
    PROVE  IInv'
  <1>1. /\ TypeOK /\ stack = <<>> /\ events[n] > 0
        /\ events' = [events EXCEPT ![n] = @ - 1]
        /\ UNCHANGED <<fixed, fired, is_finished, reports, aborted>>
    BY DEF IInv, complete
  <1>2. /\ trace' = trace /\ Nodes' = Nodes /\ sync_recv' = sync_recv
        /\ \A m : SlotsOf(m)' = SlotsOf(m)
        /\ Regular' <=> Regular
    BY <1>1, FixedFacts
  <1>3. in_call_events' \in BOOLEAN
    BY DEF complete, MayBeRegistered
  <1>4. /\ events' \in [Nodes -> Nat] /\ events'[n] = events[n] - 1
        /\ \A m \in Nodes : m # n => events'[m] = events[m]
    BY <1>1 DEF TypeOK
  <1>5. \A m \in Nodes : events'[m] > 0 => events[m] > 0
    BY <1>1, <1>4 DEF TypeOK
  <1>6. SlotsOf(n) # {} => n \in ongoing /\ events'[n] = 0
    BY <1>1, <1>4 DEF IInv, HoldersComplete, TypeOK
  <1>7. CASE is_finished
    <2>1. UNCHANGED <<done, ongoing, in_flight, stats, stack>>
      BY <1>7 DEF complete
    <2>2. TypeOK'
      BY <1>1, <1>2, <1>3, <1>4, <2>1 DEF TypeOK
    <2>3. Depth' = {} /\ Depth = {}
      BY <1>1, <2>1 DEF Depth
    <2>4. SnapshotsReady' /\ EventsStarted'
      BY <1>2, <1>5, <2>1, <2>3 DEF IInv, EventsStarted, SnapshotsReady
    <2>5. HoldersComplete'
      BY <1>2, <1>4, <1>6, <2>1 DEF IInv, HoldersComplete
    <2>6. SlotsExclusive' /\ DependencyOrder'
      BY <1>2, <2>1 DEF IInv, SlotsExclusive, DependencyOrder
    <2>7. Regular => RegularInv'
      BY <1>1, <1>2, <1>7, <2>1, <2>3
      DEF IInv, RegularInv, NotNested, FiredFirst, SnapshotFresh, DoneMeansEnded,
          QuietAfterReport
    <2>8. FinishedMeansAllEnded'
      BY <1>1, <1>2, <2>1 DEF IInv, FinishedMeansAllEnded
    <2> QED
      BY <1>2, <2>2, <2>4, <2>5, <2>6, <2>7, <2>8 DEF IInv
  <1>8. CASE ~is_finished
    <2>1. EnterCall(n, stats, ongoing, in_flight, stack)
      BY <1>8 DEF complete
    <2>2. /\ done' = done \cup {n} /\ ongoing' = ongoing \ {n}
          /\ in_flight' = release(in_flight, n)
          /\ stack' = <<dependancy_free(done \cup {n}, ongoing \ {n})>> \o stack
      BY <2>1 DEF EnterCall
    <2>3. in_flight' \in [Slot -> Int] /\ SlotsExclusive'
      BY <1>1, <1>2, <1>6, <2>2, ReleaseKeeps DEF IInv
    <2>4. /\ stack' \in Seq(SUBSET Nodes) /\ SnapshotsReady'
          /\ Len(stack') = 1 /\ stack'[1] = dependancy_free(done, ongoing)'
          /\ Depth' = {1}
      <3>1. stack \in Seq(SUBSET Nodes) /\ Len(stack) = 0
        BY <1>1 DEF TypeOK
      <3>2. \A i \in 1 .. Len(stack) : \E j \in Depth : stack[i] \subseteq stack[j]
        BY <3>1
      <3>3. /\ stack' \in Seq(SUBSET Nodes) /\ SnapshotsReady'
            /\ Len(stack') = Len(stack) + 1
            /\ stack'[1] = dependancy_free(done, ongoing)'
        BY <1>2, <2>2, <3>1, <3>2, SnapshotTaken
      <3> QED
        BY <3>1, <3>3 DEF Depth
    <2>5. /\ stats' \in [Nodes -> Stat]
          /\ stats'[n].phase = "ended"
          /\ \A m \in Nodes : m # n => stats'[m] = stats[m]
      BY <1>1, <2>1 DEF EnterCall, record_end, TypeOK, Stat
    <2>6. TypeOK'
      BY <1>1, <1>2, <1>3, <1>4, <2>2, <2>3, <2>4, <2>5 DEF TypeOK
    <2>7. EventsStarted'
      BY <1>2, <1>5, <2>5 DEF IInv, EventsStarted
    <2>8. HoldersComplete'
      BY <1>2, <1>4, <1>6, <2>2 DEF IInv, HoldersComplete
    <2>9. DependencyOrder'
      BY <1>1, <1>2, <2>2, <2>5 DEF IInv, DependencyOrder, EventsStarted
    <2>10. ASSUME Regular
           PROVE  RegularInv' /\ FinishedMeansAllEnded'
      <3>1. RegularInv
        BY <2>10 DEF IInv
      <3>2. fired
        BY <1>1, <3>1 DEF RegularInv, FiredFirst
      <3>3. SnapshotFresh' /\ NotNested'
        BY <2>4 DEF SnapshotFresh, NotNested
      <3>4. DoneMeansEnded'
        BY <1>1, <2>2, <2>5, <3>1 DEF RegularInv, DoneMeansEnded, TypeOK
      <3>5. FinishedMeansAllEnded'
        BY <1>1, <1>8, <2>10 DEF IInv, FinishedMeansAllEnded
      <3> QED
        BY <1>1, <1>8, <3>2, <3>3, <3>4, <3>5
        DEF RegularInv, FiredFirst, QuietAfterReport
    <2>11. FinishedMeansAllEnded'
      BY <1>2, <2>10 DEF FinishedMeansAllEnded
    <2> QED
      BY <1>2, <2>3, <2>4, <2>6, <2>7, <2>8, <2>9, <2>10, <2>11 DEF IInv
  <1> QED
    BY <1>1, <1>7, <1>8 DEF TypeOK

\* Every step keeps the invariant.
LEMMA NextIInv == IInv /\ [Next]_vars => IInv'
  <1> SUFFICES ASSUME IInv, [Next]_vars PROVE IInv'
    OBVIOUS
  <1>1. CASE UNCHANGED vars
    <2>1. stack \in Seq(SUBSET Nodes) /\ aborted' \in BOOLEAN /\ Len(stack) \in Nat
      BY <1>1 DEF IInv, TypeOK, vars
    <2>2. \A i \in 1 .. Len(stack) : \E j \in Depth : stack[i] \subseteq stack[j]
      BY DEF Depth
    <2> QED
      BY <1>1, <2>1, <2>2, ShrinkKeeps DEF vars
  <1>2. CASE fire
    BY <1>2, FireKeeps
  <1>3. ASSUME NEW n \in Nodes, complete(n)
        PROVE  IInv'
    BY <1>3, CompleteKeeps
  <1>4. CASE LoopStep
    BY <1>4, NotAvailableKeeps, IssueAsyncKeeps, IssueRecvNowKeeps,
       SkipInvalidKeeps, IssueThrowsKeeps, AssertFailsKeeps, ReturnKeeps
    DEF LoopStep
  <1> QED
    BY <1>1, <1>2, <1>3, <1>4 DEF Next

-----------------------------------------------------------------------------
\* The invariant holds in every reachable state of the workload layer.
THEOREM Invariance == Spec => []IInv
  BY InitIInv, NextIInv, PTL DEF Spec

\* The variables of Workload keep their types, in particular the snapshots of
\* the active calls and the in-flight counters of HardwareResource.
THEOREM TypeCorrect == Spec => []TypeOK
  <1>1. IInv => TypeOK
    BY DEF IInv
  <1> QED
    BY <1>1, Invariance, PTL

\* The asserts of HardwareResource::occupy and release never fail: a slot has
\* at most one holder and the counters are those of the ongoing nodes, also
\* when a nested call issues from a stale snapshot.
THEOREM SlotsNeverShared == Spec => []SlotsExclusive
  <1>1. IInv => SlotsExclusive
    BY DEF IInv
  <1> QED
    BY <1>1, Invariance, PTL

\* Workload::issue starts a node only after its dependencies have finished.
THEOREM DependenciesFirst == Spec => []DependencyOrder
  <1>1. IInv => DependencyOrder
    BY DEF IInv
  <1> QED
    BY <1>1, Invariance, PTL

\* For a regular trace Workload::call reports once, after every node ended.
THEOREM ReportIsFinal == Spec => []FinishedMeansAllEnded
  <1>1. IInv => FinishedMeansAllEnded
    BY DEF IInv
  <1> QED
    BY <1>1, Invariance, PTL
=============================================================================
