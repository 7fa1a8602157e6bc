------------------------- MODULE PhaseAlgorithmsProofs -------------------------
(***************************************************************************)
(* Theorems about PhaseAlgorithms: the algorithms that run one phase of a  *)
(* stream, for groups of every size.                                       *)
(*                                                                         *)
(* The algorithms never look at data; they count.  What each count means   *)
(* is the invariant of its algorithm, and what the scheduler relies on (a  *)
(* phase is a barrier that leaves nothing behind) follows from the counts. *)
(***************************************************************************)
EXTENDS PhaseAlgorithms, FiniteSetTheorems, WellFoundedInduction, TLAPS

-----------------------------------------------------------------------------
(***************************************************************************)
(* Ring and AllToAll.                                                      *)
(***************************************************************************)
RingObject ==
    [ state         : {"created", "running", "exited"},
      stream_count  : Nat,
      free_packets  : Nat,
      packets       : Seq([dest : Ring!Rank, src : Ring!Rank]),
      bundles       : Nat,
      curr_receiver : Ring!Rank,
      curr_sender   : Ring!Rank,
      received      : Nat ]

\* The predicates below take the values of the variables as parameters: A of alg,
\* S of sends, R of recvs and D of delivered.
RingType(A, S, R, D) ==
    /\ config \in RingConfig
    /\ A \in [Ring!Rank -> RingObject]
    /\ S \in [Ring!Pair -> Nat]
    /\ R \in [Ring!Pair -> Nat]
    /\ D \in [Ring!Pair -> Nat]

\* The rank i places before and behind rank r in the ring.
Back(r, i) == IF r >= i THEN r - i ELSE r - i + config.nodes

Ahead(r, i) == IF r + i < config.nodes THEN r + i ELSE r + i - config.nodes

\* The messages that an object has sent, each with a receive.
Posts(a) == Ring!stream_count - a.stream_count

\* An object that has not started has done nothing.
RingIdle(a) ==
    a.state = "created" =>
        /\ a.stream_count = Ring!stream_count
        /\ a.free_packets = 0 /\ a.bundles = 0 /\ a.received = 0
        /\ a.packets = <<>>

\* The first parallel_reduce packets come from StreamInit and every other one
\* from a receive; each is on the bus, may be sent, or waits for its receive.
RingCounts(a) ==
    /\ Posts(a) \in Nat
    /\ a.state # "created" =>
          /\ Posts(a) + Len(a.packets) <= Ring!parallel_reduce + a.received
          /\ a.state = "running" =>
                Posts(a) + Len(a.packets) = Ring!parallel_reduce + a.received
          /\ a.free_packets + a.bundles + Posts(a) = Ring!parallel_reduce + a.received
    /\ a.state = "exited" =>
          a.stream_count = 0 /\ a.free_packets = Ring!parallel_reduce

\* What rank r has counted is what it has posted and received.
RingTotals(r, a, S, R, D) ==
    /\ IsFiniteSet(Ring!From(R, r)) /\ Cardinality(Ring!From(R, r)) = Posts(a)
    /\ IsFiniteSet(Ring!From(D, r)) /\ Cardinality(Ring!From(D, r)) = a.received
    /\ IsFiniteSet(Ring!To(S, r)) /\ Cardinality(Ring!To(S, r)) = Posts(a)

RingMatched(S, R, D) ==
    \A p \in Ring!Pair : D[p] <= R[p] /\ D[p] <= S[p]

\* No packet is for the rank itself.  In Ring all are for its neighbours; in
\* AllToAll the first n - 1 take the other ranks in turn.
PeersOf(r, a) ==
    /\ a.curr_receiver # r /\ a.curr_sender # r
    /\ \A j \in 1 .. Len(a.packets) : a.packets[j].dest # r /\ a.packets[j].src # r
    /\ ~config.direct =>
          /\ a.curr_receiver = Ahead(r, 1) /\ a.curr_sender = Back(r, 1)
          /\ \A j \in 1 .. Len(a.packets) :
                a.packets[j].dest = Ahead(r, 1) /\ a.packets[j].src = Back(r, 1)
    /\ config.direct =>
          /\ \A j \in 1 .. Len(a.packets) :
                Posts(a) + j <= Ring!middle_point =>
                    a.packets[j].src = Back(r, Posts(a) + j)
          /\ a.state # "exited" /\ Posts(a) + Len(a.packets) < Ring!middle_point =>
                a.curr_sender = Back(r, Posts(a) + Len(a.packets) + 1)

\* So it is with what is posted.
RingPosted(r, a, S, R) ==
    /\ S[<<r, r>>] = 0
    /\ ~config.direct => \A q \in Ring!Rank :
          /\ q # Back(r, 1) => R[<<q, r>>] = 0
          /\ q # Ahead(r, 1) => S[<<r, q>>] = 0
    /\ config.direct => \A i \in 1 .. Ring!middle_point :
          R[<<Back(r, i), r>>] >= 1 <=> i <= Posts(a)

\* AllToAll has received the first half of an all-reduce when it sends more.
FirstHalfDone(r, a, D) ==
    config.direct /\ config.type = "All_Reduce" /\ Posts(a) > Ring!middle_point =>
        \A src \in Ring!Rank \ {r} : D[<<src, r>>] >= 1

\* In Ring the i-th message of a rank goes back to a message of the rank i - 1
\* places before it.
RingChain(A) ==
    ~config.direct => \A r \in Ring!Rank : \A i \in 0 .. config.nodes - 1 :
        Posts(A[r]) > i => A[Back(r, i)].state # "created"

RingRank(r, a, S, R, D) ==
    /\ RingIdle(a)
    /\ RingCounts(a)
    /\ RingTotals(r, a, S, R, D)
    /\ PeersOf(r, a)
    /\ RingPosted(r, a, S, R)
    /\ FirstHalfDone(r, a, D)

RingInvOf(A, S, R, D) ==
    /\ RingType(A, S, R, D)
    /\ \A r \in Ring!Rank : RingRank(r, A[r], S, R, D)
    /\ RingMatched(S, R, D)
    /\ RingChain(A)

RingInv == RingInvOf(alg, sends, recvs, delivered)

-----------------------------------------------------------------------------
(***************************************************************************)
(* Induction.  A set of natural numbers that is not empty has a least      *)
(* element.                                                                *)
(***************************************************************************)
LEMMA LeastElement ==
    ASSUME NEW S, S \subseteq Nat, S # {}
    PROVE  \E x \in S : \A y \in S : x <= y
  <1> DEFINE R == {ss \in Nat \X Nat : ss[1] < ss[2]}
  <1>1. IsWellFoundedOn(R, Nat)
    BY NatLessThanWellFounded DEF OpToRel
  <1>2. PICK x \in S : \A y \in S : <<y, x>> \notin R
    BY <1>1, WFMin, Zenon
  <1>3. \A y \in S : ~(y < x)
    BY <1>2
  <1> QED
    BY <1>3

(***************************************************************************)
(* If f starts in the first of a sequence of sets and each step goes from  *)
(* one set to the next, f stays in them.                                   *)
(***************************************************************************)
LEMMA StepByStep ==
    ASSUME NEW n \in Nat, NEW f, NEW T,
           f[0] \in T[0],
           \A i \in 1 .. n : f[i - 1] \in T[i - 1] => f[i] \in T[i]
    PROVE  \A i \in 0 .. n : f[i] \in T[i]
  <1> DEFINE Bad == {i \in 0 .. n : f[i] \notin T[i]}
  <1> SUFFICES Bad = {}
    OBVIOUS
  <1> SUFFICES ASSUME Bad # {}
               PROVE  FALSE
    OBVIOUS
  <1>0. Bad \subseteq Nat
    OBVIOUS
  <1>1. PICK x \in Bad : \A y \in Bad : x <= y
    <2> HIDE DEF Bad
    <2> QED
      BY <1>0, LeastElement
  <1>2. x \in 1 .. n /\ x - 1 \in 0 .. n /\ x - 1 \notin Bad
    BY <1>1
  <1> QED
    BY <1>1, <1>2

(***************************************************************************)
(* A function can be defined by recursion: step F leads from T[i - 1] to   *)
(* T[i].                                                                   *)
(***************************************************************************)
Leads(n, T, F, y) ==
    /\ n \in Nat
    /\ y \in T[0]
    /\ \A i \in 1 .. n : \A z \in T[i - 1] : F[<<z, i>>] \in T[i]

Follows(f, n, T, F, y) ==
    /\ f = [i \in 0 .. n |-> f[i]]
    /\ f[0] = y
    /\ \A i \in 1 .. n : f[i] = F[<<f[i - 1], i>>]
    /\ \A i \in 0 .. n : f[i] \in T[i]

\* If every step F leads from T[i - 1] to T[i], the recursion has a solution.
LEMMA Recursion ==
    ASSUME NEW n, NEW T, NEW F, NEW y, Leads(n, T, F, y)
    PROVE  \E f : Follows(f, n, T, F, y)
  <1> USE DEF Leads, Follows
  <1> DEFINE Good(m, f) ==
                /\ f = [i \in 0 .. m |-> f[i]]
                /\ f[0] = y
                /\ \A i \in 1 .. m : f[i] = F[<<f[i - 1], i>>]
                /\ \A i \in 0 .. m : f[i] \in T[i]
             Bad == {m \in 0 .. n : ~ \E f : Good(m, f)}
  <1> SUFFICES Bad = {}
    OBVIOUS
  <1> SUFFICES ASSUME Bad # {}
               PROVE  FALSE
    OBVIOUS
  <1>0. Bad \subseteq Nat
    OBVIOUS
  <1>1. PICK m \in Bad : \A k \in Bad : m <= k
    <2> HIDE DEF Bad
    <2> QED
      BY <1>0, LeastElement
  <1>2. CASE m = 0
    <2> DEFINE g == [i \in 0 .. 0 |-> y]
    <2>1. Good(0, g)
      OBVIOUS
    <2> QED
      BY <1>1, <1>2, <2>1
  <1>3. CASE m # 0
    <2>1. m - 1 \in 0 .. n /\ m \in 1 .. n /\ m - 1 \notin Bad
      BY <1>1, <1>3
    <2>2. PICK f : Good(m - 1, f)
      BY <2>1
    <2> DEFINE g == [i \in 0 .. m |-> IF i = m THEN F[<<f[m - 1], m>>] ELSE f[i]]
    <2>3. f[m - 1] \in T[m - 1] /\ F[<<f[m - 1], m>>] \in T[m]
      BY <2>1, <2>2
    <2>4. /\ g = [i \in 0 .. m |-> g[i]]
          /\ \A i \in 0 .. m - 1 : g[i] = f[i]
          /\ g[m] = F[<<f[m - 1], m>>]
      BY <2>1
    <2> HIDE DEF g
    <2>5. g[0] = y
      <3>1. 0 \in 0 .. m - 1
        BY <2>1
      <3> QED
        BY <2>2, <2>4, <3>1
    <2>6. ASSUME NEW i \in 1 .. m
          PROVE  g[i] = F[<<g[i - 1], i>>]
      <3>1. g[i - 1] = f[i - 1]
        <4>1. i - 1 \in 0 .. m - 1
          BY <2>1
        <4> QED
          BY <2>4, <4>1
      <3>2. CASE i = m
        BY <2>4, <3>1, <3>2
      <3>3. CASE i # m
        <4>1. i \in 1 .. m - 1 /\ i \in 0 .. m - 1
          BY <2>1, <3>3
        <4> QED
          BY <2>2, <2>4, <3>1, <4>1
      <3> QED
        BY <3>2, <3>3
    <2>7. ASSUME NEW i \in 0 .. m
          PROVE  g[i] \in T[i]
      <3>1. i = m \/ i \in 0 .. m - 1
        BY <2>1
      <3> QED
        BY <2>2, <2>3, <2>4, <3>1
    <2>8. Good(m, g)
      BY <2>4, <2>5, <2>6, <2>7
    <2> QED
      BY <1>1, <2>8
  <1> QED
    BY <1>2, <1>3

-----------------------------------------------------------------------------
(***************************************************************************)
(* Counting.  A cell <<q, i>> for every i up to c[q]: From and To are      *)
(* such sets.                                                              *)
(***************************************************************************)
Cells(Q, c) == UNION {{q} \X (1 .. c[q]) : q \in Q}

\* What is a cell.
LEMMA CellsMember ==
    ASSUME NEW Q, NEW c
    PROVE  \A x : x \in Cells(Q, c) <=> \E q \in Q : \E i \in 1 .. c[q] : x = <<q, i>>
  BY DEF Cells

\* A pair as a cell.
LEMMA CellsPair ==
    ASSUME NEW Q, NEW c
    PROVE  \A q, i : <<q, i>> \in Cells(Q, c) <=> q \in Q /\ i \in 1 .. c[q]
  <1> TAKE q, i
  <1>1. ASSUME <<q, i>> \in Cells(Q, c)
        PROVE  q \in Q /\ i \in 1 .. c[q]
    <2>1. PICK s \in Q : <<q, i>> \in {s} \X (1 .. c[s])
      BY <1>1 DEF Cells
    <2>2. q = s /\ i \in 1 .. c[s]
      BY <2>1
    <2> QED
      BY <2>2
  <1>2. ASSUME q \in Q, i \in 1 .. c[q]
        PROVE  <<q, i>> \in Cells(Q, c)
    BY <1>2 DEF Cells
  <1> QED
    BY <1>1, <1>2

\* How often q occurs in a list g of length k.
Occurs(g, k, q) == Cardinality({i \in 1 .. k : g[i] = q})

\* Every q has as many more in d than in c as it occurs in g.
Grown(Q, c, d, k, g) ==
    /\ c \in [Q -> Nat] /\ d \in [Q -> Nat]
    /\ k \in Nat /\ g \in [1 .. k -> Q]
    /\ \A q \in Q : d[q] = c[q] + Occurs(g, k, q)
    /\ IsFiniteSet(Cells(Q, c))

\* If c grows by the number of times each q occurs in a list g of length k, there
\* are k more cells.
LEMMA CellsGrow ==
    ASSUME NEW Q, NEW c, NEW d, NEW k, NEW g, Grown(Q, c, d, k, g)
    PROVE  /\ IsFiniteSet(Cells(Q, d))
           /\ Cardinality(Cells(Q, d)) = Cardinality(Cells(Q, c)) + k
           /\ Cardinality(Cells(Q, c)) \in Nat
  <1> USE DEF Grown
  <1> DEFINE Times(q) == {i \in 1 .. k : g[i] = q}
             t(q) == Cardinality(Times(q))
             N == Cells(Q, d) \ Cells(Q, c)
  <1>1. IsFiniteSet(1 .. k) /\ Cardinality(1 .. k) = k
    BY FS_Interval
  <1>2. ASSUME NEW q \in Q
        PROVE  t(q) \in Nat /\ ExistsBijection(Times(q), 1 .. t(q))
    <2>1. IsFiniteSet(Times(q))
      BY <1>1, FS_Subset
    <2>2. t(q) \in Nat
      BY <2>1, FS_CardinalityType
    <2>3. IsFiniteSet(1 .. t(q)) /\ Cardinality(1 .. t(q)) = t(q)
      BY <2>2, FS_Interval
    <2> QED
      BY <2>1, <2>2, <2>3, FS_SameCardinalityBij
  <1> DEFINE B == [q \in Q |-> CHOOSE b : b \in Bijection(Times(q), 1 .. t(q))]
  <1>3. ASSUME NEW q \in Q
        PROVE  B[q] \in Bijection(Times(q), 1 .. t(q))
    BY <1>2 DEF ExistsBijection
  <1>4. ASSUME NEW q \in Q
        PROVE  /\ \A i \in Times(q) : B[q][i] \in 1 .. t(q)
               /\ \A i, j \in Times(q) : B[q][i] = B[q][j] => i = j
               /\ \A x \in 1 .. t(q) : \E i \in Times(q) : B[q][i] = x
    <2> HIDE DEF B, Times, t
    <2>1. /\ B[q] \in [Times(q) -> 1 .. t(q)]
          /\ \A a, b \in Times(q) : B[q][a] = B[q][b] => a = b
          /\ \A x \in 1 .. t(q) : \E i \in Times(q) : B[q][i] = x
      BY <1>3 DEF Bijection, Injection, Surjection, IsInjective
    <2> QED
      BY <2>1
  <1>5. \A q \in Q : \A i \in 1 .. k : i \in Times(q) <=> g[i] = q
    OBVIOUS
  <1>6. \A q \in Q : t(q) \in Nat /\ d[q] = c[q] + t(q)
    BY <1>2 DEF Occurs
  <1>7. \A q \in Q : Times(q) \subseteq 1 .. k
    OBVIOUS
  <1> HIDE DEF B, Times, t
  <1> DEFINE F == [i \in 1 .. k |-> <<g[i], c[g[i]] + B[g[i]][i]>>]
  <1>8. ASSUME NEW i \in 1 .. k
        PROVE  /\ F[i] = <<g[i], c[g[i]] + B[g[i]][i]>>
               /\ g[i] \in Q /\ i \in Times(g[i])
               /\ B[g[i]][i] \in 1 .. t(g[i])
    BY <1>4, <1>5
  <1> HIDE DEF F
  <1>9. \A x : x \in N <=> \E q \in Q : \E y \in c[q] + 1 .. d[q] : x = <<q, y>>
    <2>1. \A x : x \in Cells(Q, d) <=> \E q \in Q : \E y \in 1 .. d[q] : x = <<q, y>>
      BY CellsMember
    <2>2. \A x : x \in Cells(Q, c) <=> \E q \in Q : \E y \in 1 .. c[q] : x = <<q, y>>
      BY CellsMember
    <2>3. \A q \in Q : d[q] \in Nat /\ c[q] \in Nat /\ c[q] <= d[q]
      BY <1>6
    <2> QED
      BY <2>1, <2>2, <2>3
  <1>10. ASSUME NEW i \in 1 .. k
         PROVE  F[i] \in N
    <2> DEFINE q == g[i]
               y == c[q] + B[q][i]
    <2>1. q \in Q /\ B[q][i] \in 1 .. t(q) /\ F[i] = <<q, y>>
      BY <1>8
    <2>2. c[q] \in Nat /\ t(q) \in Nat /\ d[q] = c[q] + t(q)
      BY <1>6, <2>1
    <2> HIDE DEF q
    <2>3. y \in c[q] + 1 .. d[q]
      <3>1. \A a, b \in Nat : \A u \in 1 .. b : a + u \in a + 1 .. a + b
        OBVIOUS
      <3> QED
        BY <2>1, <2>2, <3>1, Zenon
    <2> HIDE DEF y
    <2> QED
      BY <1>9, <2>1, <2>3
  <1>11. ASSUME NEW i \in 1 .. k, NEW j \in 1 .. k, F[i] = F[j]
         PROVE  i = j
    <2>1. g[i] = g[j] /\ c[g[i]] + B[g[i]][i] = c[g[j]] + B[g[j]][j]
      BY <1>8, <1>11
    <2>2. B[g[i]][i] = B[g[i]][j]
      BY <1>8, <2>1
    <2> QED
      BY <1>4, <1>8, <2>1, <2>2
  <1>12. ASSUME NEW x \in N
         PROVE  \E i \in 1 .. k : F[i] = x
    <2>1. PICK q \in Q : \E y \in c[q] + 1 .. d[q] : x = <<q, y>>
      BY <1>9
    <2>2. PICK y \in c[q] + 1 .. d[q] : x = <<q, y>>
      BY <2>1
    <2>3. y - c[q] \in 1 .. t(q)
      BY <1>6
    <2>4. PICK i \in Times(q) : B[q][i] = y - c[q]
      BY <1>4, <2>3
    <2>5. i \in 1 .. k /\ g[i] = q
      BY <1>5, <1>7
    <2>6. F[i] = <<q, c[q] + B[q][i]>>
      BY <1>8, <2>5
    <2>7. c[q] + B[q][i] = y
      BY <2>4
    <2> QED
      BY <2>2, <2>5, <2>6, <2>7
  <1>13. F = [i \in 1 .. k |-> F[i]]
    BY DEF F
  <1> HIDE DEF N
  <1>14. ExistsBijection(1 .. k, N)
    <2>1. F \in [1 .. k -> N]
      BY <1>10, <1>13
    <2>2. F \in Bijection(1 .. k, N)
      BY <2>1, <1>11, <1>12 DEF Bijection, Injection, Surjection, IsInjective
    <2> QED
      BY <2>2 DEF ExistsBijection
  <1>15. IsFiniteSet(N) /\ Cardinality(N) = k
    BY <1>1, <1>14, FS_Bijection
  <1>16. Cells(Q, c) \subseteq Cells(Q, d)
    BY <1>6, CellsMember
  <1>17. Cells(Q, d) = Cells(Q, c) \cup N /\ Cells(Q, c) \cap N = {}
    BY <1>16 DEF N
  <1>18. Cardinality(Cells(Q, c)) \in Nat
    BY FS_CardinalityType
  <1>19. /\ IsFiniteSet(Cells(Q, c) \cup N)
         /\ Cardinality(Cells(Q, c) \cup N)
              = Cardinality(Cells(Q, c)) + Cardinality(N) - Cardinality(Cells(Q, c) \cap N)
    BY <1>15, FS_Union
  <1>20. Cardinality(Cells(Q, c) \cap N) = 0
    BY <1>17, FS_EmptySet
  <1> QED
    BY <1>15, <1>17, <1>18, <1>19, <1>20

\* One more for one q is one more cell.
LEMMA CellsOneMore ==
    ASSUME NEW Q, NEW c \in [Q -> Nat], NEW d \in [Q -> Nat], NEW p \in Q,
           \A q \in Q : d[q] = IF q = p THEN c[q] + 1 ELSE c[q],
           IsFiniteSet(Cells(Q, c))
    PROVE  /\ IsFiniteSet(Cells(Q, d))
           /\ Cardinality(Cells(Q, d)) = Cardinality(Cells(Q, c)) + 1
           /\ Cardinality(Cells(Q, c)) \in Nat
  <1> DEFINE k == 1
             g == [i \in 1 .. k |-> p]
  <1>1. g \in [1 .. k -> Q]
    OBVIOUS
  <1>2. ASSUME NEW q \in Q
        PROVE  d[q] = c[q] + Occurs(g, k, q)
    <2> USE DEF Occurs
    <2>1. CASE q = p
      <3>1. {i \in 1 .. k : g[i] = q} = {1}
        BY <2>1
      <3> QED
        BY <2>1, <3>1, FS_Singleton
    <2>2. CASE q # p
      <3>1. {i \in 1 .. k : g[i] = q} = {}
        BY <2>2
      <3>2. Cardinality({i \in 1 .. k : g[i] = q}) = 0
        BY <3>1, FS_EmptySet
      <3>3. d[q] = c[q] /\ c[q] \in Nat
        BY <2>2
      <3> HIDE DEF g
      <3> QED
        BY <3>2, <3>3
    <2> QED
      BY <2>1, <2>2
  <1>3. k \in Nat /\ k = 1
    OBVIOUS
  <1> HIDE DEF g, k
  <1> QED
    <2>1. Grown(Q, c, d, k, g)
      BY <1>1, <1>2, <1>3 DEF Grown
    <2>2. /\ IsFiniteSet(Cells(Q, d))
          /\ Cardinality(Cells(Q, d)) = Cardinality(Cells(Q, c)) + k
          /\ Cardinality(Cells(Q, c)) \in Nat
      BY <2>1, CellsGrow
    <2> QED
      BY <1>3, <2>2

-----------------------------------------------------------------------------
(***************************************************************************)
(* The numbers of Ring and AllToAll.                                       *)
(***************************************************************************)
RingNumbers ==
    /\ config.nodes \in Nat /\ config.nodes >= 2
    /\ config.direct \in BOOLEAN
    /\ Ring!middle_point = config.nodes - 1
    /\ Ring!Rank = 0 .. config.nodes - 1
    /\ Ring!stream_count \in Nat /\ Ring!stream_count >= config.nodes - 1
    /\ Ring!parallel_reduce \in 1 .. config.nodes - 1
    /\ ~config.direct => Ring!parallel_reduce = 1
    /\ config.type = "All_Reduce" => Ring!stream_count = 2 * (config.nodes - 1)
    /\ config.direct /\ config.type # "All_Reduce" =>
          Ring!stream_count = config.nodes - 1

\* What the constructors compute.
LEMMA RingConstants ==
    ASSUME config \in RingConfig
    PROVE  RingNumbers
  <1>1. /\ config.nodes \in Nat \ {0, 1}
        /\ config.type \in {"All_Reduce", "All_Gather", "Reduce_Scatter", "All_to_All"}
        /\ config.direct \in BOOLEAN
        /\ config.window \in (Nat \ {0}) \cup {-1}
    BY ConfigAssumption DEF ConfigAssumption, Ring!ConfigAssumption, Ring!ComType
  <1> DEFINE n == config.nodes
  <1>2. PICK m \in Nat : m = n - 1 /\ m >= 1
    BY <1>1
  <1>3. (m * n) \div 2 \in Nat /\ (m * n) \div 2 >= m
    <2>1. m * n = m * (m + 1)
      BY <1>1, <1>2
    <2>2. m * (m + 1) = m * m + m /\ m * m >= m
      BY <1>2
    <2>3. PICK x \in Nat : x = m * n /\ x >= 2 * m
      BY <1>1, <1>2, <2>1, <2>2
    <2>4. x \div 2 \in Nat /\ x \div 2 >= m
      BY <2>3
    <2> QED
      BY <2>3, <2>4
  <1>4. /\ Ring!stream_count \in Nat /\ Ring!stream_count >= n - 1
        /\ config.type = "All_Reduce" => Ring!stream_count = 2 * (n - 1)
        /\ config.direct /\ config.type # "All_Reduce" => Ring!stream_count = n - 1
    <2>1. CASE config.type = "All_Reduce"
      BY <1>1, <1>2, <2>1 DEF Ring!stream_count
    <2>2. CASE config.type = "All_to_All" /\ ~config.direct
      BY <1>1, <1>2, <1>3, <2>2 DEF Ring!stream_count
    <2>3. CASE config.type # "All_Reduce" /\ ~(config.type = "All_to_All" /\ ~config.direct)
      BY <1>1, <1>2, <2>3 DEF Ring!stream_count
    <2> QED
      BY <2>1, <2>2, <2>3
  <1>5. /\ Ring!parallel_reduce \in 1 .. n - 1
        /\ ~config.direct => Ring!parallel_reduce = 1
    BY <1>1 DEF Ring!parallel_reduce
  <1> QED
    BY <1>1, <1>4, <1>5 DEF RingNumbers, Ring!middle_point, Ring!Rank

\* The ranks before and behind a rank.
LEMMA RingPlaces ==
    ASSUME RingNumbers, NEW r \in Ring!Rank
    PROVE  /\ \A i \in 0 .. config.nodes - 1 : Back(r, i) \in Ring!Rank
           /\ \A i, j \in 0 .. config.nodes - 1 : Back(r, i) = Back(r, j) => i = j
           /\ \A q \in Ring!Rank : \E i \in 0 .. config.nodes - 1 : q = Back(r, i)
           /\ \A q \in Ring!Rank \ {r} : \E i \in 1 .. config.nodes - 1 : q = Back(r, i)
           /\ Back(r, 0) = r
           /\ \A i \in 1 .. config.nodes - 1 : Back(Back(r, 1), i - 1) = Back(r, i)
           /\ Ahead(r, 1) \in Ring!Rank /\ Ahead(r, 1) # r /\ Back(r, 1) # r
  <1> DEFINE n == config.nodes
  <1>1. n \in Nat /\ n >= 2 /\ r \in 0 .. n - 1 /\ Ring!Rank = 0 .. n - 1
    BY DEF RingNumbers
  <1>2. \A i \in 0 .. n - 1 : Back(r, i) \in Ring!Rank
    BY <1>1 DEF Back
  <1>3. \A i, j \in 0 .. n - 1 : Back(r, i) = Back(r, j) => i = j
    BY <1>1 DEF Back
  <1>4. ASSUME NEW q \in Ring!Rank
        PROVE  /\ \E i \in 0 .. n - 1 : q = Back(r, i)
               /\ q # r => \E i \in 1 .. n - 1 : q = Back(r, i)
    <2> DEFINE i == IF q <= r THEN r - q ELSE r - q + n
    <2>1. i \in 0 .. n - 1 /\ q = Back(r, i) /\ (q # r => i \in 1 .. n - 1)
      BY <1>1 DEF Back
    <2> HIDE DEF i
    <2> QED
      BY <2>1
  <1>5. Back(r, 0) = r
    BY <1>1 DEF Back
  <1>6. \A i \in 1 .. n - 1 : Back(Back(r, 1), i - 1) = Back(r, i)
    BY <1>1 DEF Back
  <1>7. Ahead(r, 1) \in Ring!Rank /\ Ahead(r, 1) # r /\ Back(r, 1) # r
    BY <1>1 DEF Ahead, Back
  <1> QED
    BY <1>2, <1>3, <1>4, <1>5, <1>6, <1>7

\* The topology, and where process_max_count moves on to.
LEMMA RingTurns ==
    ASSUME RingNumbers, NEW r \in Ring!Rank
    PROVE  /\ Ring!get_receiver(r) = Ahead(r, 1) /\ Ring!get_sender(r) = Back(r, 1)
           /\ \A q \in Ring!Rank \ {r} :
                 /\ Ring!next_receiver(r, q) \in Ring!Rank \ {r}
                 /\ Ring!next_sender(r, q) \in Ring!Rank \ {r}
           /\ \A i \in 1 .. config.nodes - 2 :
                 Ring!next_sender(r, Back(r, i)) = Back(r, i + 1)
  <1> DEFINE n == config.nodes
  <1>1. n \in Nat /\ n >= 2 /\ r \in 0 .. n - 1 /\ Ring!Rank = 0 .. n - 1
    BY DEF RingNumbers
  <1>2. ASSUME NEW q \in 0 .. n - 1
        PROVE  /\ Ring!get_receiver(q) = IF q + 1 < n THEN q + 1 ELSE 0
               /\ Ring!get_sender(q) = IF q >= 1 THEN q - 1 ELSE n - 1
    <2>1. (q + 1) % n = IF q + 1 < n THEN q + 1 ELSE 0
      BY <1>1
    <2>2. (q + n - 1) % n = IF q >= 1 THEN q - 1 ELSE n - 1
      <3> HIDE DEF n
      <3>1. \A y \in 0 .. n - 1 : (y + n) % n = y /\ y % n = y
        BY <1>1
      <3>2. CASE q >= 1
        <4>1. q + n - 1 = (q - 1) + n /\ q - 1 \in 0 .. n - 1
          BY <1>1, <3>2
        <4> QED
          BY <3>1, <3>2, <4>1
      <3>3. CASE ~(q >= 1)
        <4>1. q + n - 1 = n - 1 /\ n - 1 \in 0 .. n - 1
          BY <1>1, <3>3
        <4> QED
          BY <3>1, <3>3, <4>1
      <3> QED
        BY <3>2, <3>3
    <2> QED
      BY <2>1, <2>2 DEF Ring!get_receiver, Ring!get_sender
  <1>3. Ring!get_receiver(r) = Ahead(r, 1) /\ Ring!get_sender(r) = Back(r, 1)
    BY <1>1, <1>2 DEF Ahead, Back
  <1>4. \A q \in Ring!Rank \ {r} :
          /\ Ring!next_receiver(r, q) \in Ring!Rank \ {r}
          /\ Ring!next_sender(r, q) \in Ring!Rank \ {r}
    <2> TAKE q \in Ring!Rank \ {r}
    <2>1. /\ Ring!get_receiver(q) \in 0 .. n - 1
          /\ Ring!get_sender(q) \in 0 .. n - 1
      BY <1>1, <1>2
    <2>2. /\ Ring!get_receiver(r) \in 0 .. n - 1 /\ Ring!get_receiver(r) # r
          /\ Ring!get_sender(r) \in 0 .. n - 1 /\ Ring!get_sender(r) # r
      <3>1. /\ Ring!get_receiver(r) = IF r + 1 < n THEN r + 1 ELSE 0
            /\ Ring!get_sender(r) = IF r >= 1 THEN r - 1 ELSE n - 1
        BY <1>1, <1>2
      <3>2. /\ (IF r + 1 < n THEN r + 1 ELSE 0) \in (0 .. n - 1) \ {r}
            /\ (IF r >= 1 THEN r - 1 ELSE n - 1) \in (0 .. n - 1) \ {r}
        BY <1>1
      <3> QED
        BY <3>1, <3>2
    <2> QED
      BY <1>1, <2>1, <2>2 DEF Ring!next_receiver, Ring!next_sender
  <1>5. ASSUME NEW i \in 1 .. n - 2
        PROVE  Ring!next_sender(r, Back(r, i)) = Back(r, i + 1)
    <2>1. Back(r, i) \in 0 .. n - 1
      BY <1>1 DEF Back
    <2>2. Ring!get_sender(Back(r, i)) = IF Back(r, i) >= 1 THEN Back(r, i) - 1 ELSE n - 1
      BY <1>2, <2>1
    <2>3. Back(r, i + 1) = (IF Back(r, i) >= 1 THEN Back(r, i) - 1 ELSE n - 1)
      BY <1>1 DEF Back
    <2>4. Back(r, i + 1) # r
      BY <1>1 DEF Back
    <2> QED
      BY <2>2, <2>3, <2>4 DEF Ring!next_sender
  <1> QED
    BY <1>3, <1>4, <1>5

\* What insert_packet does to an object.
LEMMA InsertPacket ==
    ASSUME RingNumbers, NEW r \in Ring!Rank, NEW a \in RingObject, PeersOf(r, a),
           Posts(a) \in Nat
    PROVE  LET b == Ring!insert_packet(a, r) IN
           /\ b \in RingObject
           /\ b.packets = Append(a.packets, [dest |-> a.curr_receiver, src |-> a.curr_sender])
           /\ Len(b.packets) = Len(a.packets) + 1
           /\ b.bundles = a.bundles + 1
           /\ b.state = a.state /\ b.stream_count = a.stream_count
           /\ b.free_packets = a.free_packets /\ b.received = a.received
           /\ a.state # "exited" => PeersOf(r, b)
  <1> DEFINE b == Ring!insert_packet(a, r)
             new == [dest |-> a.curr_receiver, src |-> a.curr_sender]
             m == Len(a.packets)
  <1>1. /\ a.curr_receiver \in Ring!Rank \ {r}
        /\ a.curr_sender \in Ring!Rank \ {r}
        /\ a.packets \in Seq([dest : Ring!Rank, src : Ring!Rank])
        /\ new \in [dest : Ring!Rank, src : Ring!Rank]
        /\ m \in Nat
    BY DEF RingObject, PeersOf
  <1>2. /\ Ring!next_receiver(r, a.curr_receiver) \in Ring!Rank \ {r}
        /\ Ring!next_sender(r, a.curr_sender) \in Ring!Rank \ {r}
    BY <1>1, RingTurns
  <1>3. /\ b.packets = Append(a.packets, new)
        /\ b.bundles = a.bundles + 1
        /\ b.state = a.state /\ b.stream_count = a.stream_count
        /\ b.free_packets = a.free_packets /\ b.received = a.received
        /\ b.curr_receiver = IF config.direct THEN Ring!next_receiver(r, a.curr_receiver)
                             ELSE a.curr_receiver
        /\ b.curr_sender = IF config.direct THEN Ring!next_sender(r, a.curr_sender)
                           ELSE a.curr_sender
    BY DEF Ring!insert_packet, RingObject
  <1>4. /\ Append(a.packets, new) \in Seq([dest : Ring!Rank, src : Ring!Rank])
        /\ Len(Append(a.packets, new)) = m + 1
        /\ Append(a.packets, new)[m + 1] = new
        /\ \A j \in 1 .. m : Append(a.packets, new)[j] = a.packets[j]
    BY <1>1
  <1> HIDE DEF new
  <1>5. b \in RingObject
    <2>1. ASSUME NEW p \in Seq([dest : Ring!Rank, src : Ring!Rank]), NEW k \in Nat,
                 NEW u \in Ring!Rank, NEW v \in Ring!Rank
          PROVE  [a EXCEPT !.packets = p, !.bundles = k,
                           !.curr_receiver = u, !.curr_sender = v] \in RingObject
      BY DEF RingObject
    <2>2. b = [a EXCEPT !.packets = Append(a.packets, new), !.bundles = a.bundles + 1,
                        !.curr_receiver = b.curr_receiver, !.curr_sender = b.curr_sender]
      BY <1>3 DEF RingObject, Ring!insert_packet, new
    <2>3. b.curr_receiver \in Ring!Rank /\ b.curr_sender \in Ring!Rank
      BY <1>1, <1>2, <1>3
    <2>4. a.bundles + 1 \in Nat
      BY DEF RingObject
    <2> DEFINE c == [a EXCEPT !.packets = Append(a.packets, new), !.bundles = a.bundles + 1,
                        !.curr_receiver = b.curr_receiver, !.curr_sender = b.curr_sender]
    <2> HIDE DEF b
    <2>5. c \in RingObject
      BY <1>4, <2>1, <2>3, <2>4, Zenon
    <2> QED
      BY <2>2, <2>5, Zenon
  <1> HIDE DEF b
  <1>6. Len(b.packets) = m + 1 /\ Posts(b) = Posts(a)
    BY <1>3, <1>4 DEF Posts
  <1>7. ASSUME NEW j \in 1 .. m + 1
        PROVE  \/ j \in 1 .. m /\ b.packets[j] = a.packets[j]
               \/ j = m + 1 /\ b.packets[j].dest = a.curr_receiver
                            /\ b.packets[j].src = a.curr_sender
    BY <1>1, <1>3, <1>4 DEF new
  <1>8. ASSUME a.state # "exited"
        PROVE  PeersOf(r, b)
    <2>1. b.curr_receiver # r /\ b.curr_sender # r
      BY <1>1, <1>2, <1>3
    <2>2. \A j \in 1 .. m + 1 : b.packets[j].dest # r /\ b.packets[j].src # r
      BY <1>1, <1>7 DEF PeersOf
    <2>3. ASSUME ~config.direct
          PROVE  /\ b.curr_receiver = Ahead(r, 1) /\ b.curr_sender = Back(r, 1)
                 /\ \A j \in 1 .. m + 1 :
                       b.packets[j].dest = Ahead(r, 1) /\ b.packets[j].src = Back(r, 1)
      BY <1>3, <1>7, <2>3 DEF PeersOf
    <2>4. ASSUME config.direct
          PROVE  /\ \A j \in 1 .. m + 1 :
                       Posts(a) + j <= Ring!middle_point =>
                           b.packets[j].src = Back(r, Posts(a) + j)
                 /\ Posts(a) + m + 1 < Ring!middle_point =>
                       b.curr_sender = Back(r, Posts(a) + m + 2)
      <3>1. Posts(a) \in Int /\ Ring!middle_point \in Int
        BY DEF RingNumbers
      <3>0. Ring!middle_point = config.nodes - 1 /\ config.nodes \in Nat
        BY DEF RingNumbers
      <3>2. /\ \A j \in 1 .. m :
                 Posts(a) + j <= Ring!middle_point =>
                     a.packets[j].src = Back(r, Posts(a) + j)
            /\ Posts(a) + m < Ring!middle_point => a.curr_sender = Back(r, Posts(a) + m + 1)
        BY <1>8, <2>4 DEF PeersOf
      <3>3. ASSUME NEW j \in 1 .. m + 1, Posts(a) + j <= Ring!middle_point
            PROVE  b.packets[j].src = Back(r, Posts(a) + j)
        <4>1. CASE j \in 1 .. m /\ b.packets[j] = a.packets[j]
          <5>1. a.packets[j].src = Back(r, Posts(a) + j)
            BY <3>2, <3>3, <4>1
          <5> QED
            BY <4>1, <5>1
        <4>2. CASE j = m + 1 /\ b.packets[j].src = a.curr_sender
          <5>1. Posts(a) + m < Ring!middle_point /\ Posts(a) + j = Posts(a) + m + 1
            BY <1>1, <3>1, <3>3, <4>2
          <5> QED
            BY <3>2, <4>2, <5>1
        <4> QED
          BY <1>7, <4>1, <4>2
      <3>4. ASSUME Posts(a) + m + 1 < Ring!middle_point
            PROVE  b.curr_sender = Back(r, Posts(a) + m + 2)
        <4>1. a.curr_sender = Back(r, Posts(a) + m + 1)
          BY <1>1, <3>1, <3>2, <3>4
        <4>2. PICK i \in 1 .. config.nodes - 2 : i = Posts(a) + m + 1
          BY <1>1, <3>0, <3>4
        <4>3. Ring!next_sender(r, Back(r, i)) = Back(r, i + 1) /\ i + 1 = Posts(a) + m + 2
          BY <1>1, <3>1, <4>2, RingTurns
        <4> QED
          BY <1>3, <2>4, <4>1, <4>2, <4>3
      <3> QED
        BY <3>3, <3>4
    <2> QED
      <3>1. Posts(b) + Len(b.packets) = Posts(a) + m + 1
            /\ Posts(b) + Len(b.packets) + 1 = Posts(a) + m + 2
        <4>1. \A x, y \in Nat : x + (y + 1) = x + y + 1 /\ x + (y + 1) + 1 = x + y + 2
          OBVIOUS
        <4> QED
          BY <1>1, <1>6, <4>1
      <3> QED
        BY <1>6, <2>1, <2>2, <2>3, <2>4, <3>1 DEF PeersOf
  <1> QED
    BY <1>3, <1>5, <1>6, <1>8 DEF b, new

-----------------------------------------------------------------------------
(***************************************************************************)
(* The cells of the pairs.                                                 *)
(***************************************************************************)
Col(count, r) == [q \in Ring!Rank |-> count[<<q, r>>]]

Row(count, r) == [q \in Ring!Rank |-> count[<<r, q>>]]

\* From and To are sets of cells.
LEMMA FromToCells ==
    ASSUME NEW count, NEW r
    PROVE  /\ Ring!From(count, r) = Cells(Ring!Rank, Col(count, r))
           /\ Ring!To(count, r) = Cells(Ring!Rank, Row(count, r))
  BY DEF Ring!From, Ring!To, Cells, Col, Row

\* Where two counts agree their cells do.
LEMMA SameCells ==
    ASSUME NEW c, NEW d, NEW r
    PROVE  /\ (\A q \in Ring!Rank : d[<<q, r>>] = c[<<q, r>>]) =>
                 Ring!From(d, r) = Ring!From(c, r)
           /\ (\A q \in Ring!Rank : d[<<r, q>>] = c[<<r, q>>]) =>
                 Ring!To(d, r) = Ring!To(c, r)
  BY DEF Ring!From, Ring!To

\* What is received is a part of what is posted; if it is as much, it is all.
LEMMA ReceivedPosted ==
    ASSUME NEW r \in Ring!Rank, NEW R \in [Ring!Pair -> Nat], NEW D \in [Ring!Pair -> Nat],
           \A q \in Ring!Rank : D[<<q, r>>] <= R[<<q, r>>],
           IsFiniteSet(Ring!From(R, r))
    PROVE  /\ IsFiniteSet(Ring!From(D, r))
           /\ Cardinality(Ring!From(D, r)) \in Nat /\ Cardinality(Ring!From(R, r)) \in Nat
           /\ Cardinality(Ring!From(D, r)) <= Cardinality(Ring!From(R, r))
           /\ Cardinality(Ring!From(R, r) \ Ring!From(D, r))
                = Cardinality(Ring!From(R, r)) - Cardinality(Ring!From(D, r))
           /\ Cardinality(Ring!From(D, r)) = Cardinality(Ring!From(R, r)) =>
                 \A q \in Ring!Rank : D[<<q, r>>] = R[<<q, r>>]
  <1> DEFINE F == Ring!From(R, r)
             G == Ring!From(D, r)
  <1>1. \A q \in Ring!Rank : <<q, r>> \in Ring!Pair
    BY DEF Ring!Pair
  <1>2. \A q \in Ring!Rank : R[<<q, r>>] \in Nat /\ D[<<q, r>>] \in Nat
    BY <1>1
  <1>3. /\ \A q, i : <<q, i>> \in F <=> q \in Ring!Rank /\ i \in 1 .. R[<<q, r>>]
        /\ \A q, i : <<q, i>> \in G <=> q \in Ring!Rank /\ i \in 1 .. D[<<q, r>>]
    <2>1. \A q \in Ring!Rank : Col(R, r)[q] = R[<<q, r>>] /\ Col(D, r)[q] = D[<<q, r>>]
      BY DEF Col
    <2> QED
      BY <2>1, CellsPair, FromToCells
  <1>4. G \subseteq F
    <2>1. \A q \in Ring!Rank : 1 .. D[<<q, r>>] \subseteq 1 .. R[<<q, r>>]
      BY <1>2
    <2> QED
      BY <2>1 DEF Ring!From
  <1> HIDE DEF F, G
  <1>5. IsFiniteSet(F)
    BY DEF F
  <1>6. IsFiniteSet(G) /\ Cardinality(G) <= Cardinality(F)
        /\ (Cardinality(G) = Cardinality(F) => G = F)
    BY <1>4, <1>5, FS_Subset
  <1>7. Cardinality(G) \in Nat /\ Cardinality(F) \in Nat
    BY <1>5, <1>6, FS_CardinalityType
  <1>8. Cardinality(F \ G) = Cardinality(F) - Cardinality(G)
    <2>1. Cardinality(F \ G) = Cardinality(F) - Cardinality(F \cap G) /\ F \cap G = G
      BY <1>4, <1>5, <1>6, FS_Difference
    <2> QED
      BY <2>1
  <1>9. ASSUME G = F, NEW q \in Ring!Rank
        PROVE  D[<<q, r>>] = R[<<q, r>>]
    <2>1. R[<<q, r>>] = 0 \/ R[<<q, r>>] \in 1 .. R[<<q, r>>]
      BY <1>2
    <2>2. R[<<q, r>>] = 0 \/ R[<<q, r>>] \in 1 .. D[<<q, r>>]
      BY <1>3, <1>9, <2>1
    <2> QED
      BY <1>2, <2>2
  <1> QED
    BY <1>6, <1>7, <1>8, <1>9 DEF F, G

-----------------------------------------------------------------------------
(***************************************************************************)
(* The steps of Ring and AllToAll.                                         *)
(***************************************************************************)

\* ready() runs until one of its conditions fails.
LEMMA RingReady ==
    ASSUME NEW a \in RingObject, NEW count \in Nat
    PROVE  LET k == Ring!Ready(a, count) IN
           /\ k \in Nat /\ k <= count
           /\ k <= Len(a.packets) /\ k <= a.stream_count /\ k <= a.free_packets
           /\ \/ k = count \/ k = Len(a.packets)
              \/ k = a.stream_count \/ k = a.free_packets
  <1> DEFINE l == Len(a.packets)
             s == a.stream_count
             f == a.free_packets
             P(k) == /\ k <= l /\ k <= s /\ k <= f
                     /\ k = count \/ k = l \/ k = s \/ k = f
  <1>1. l \in Nat /\ s \in Nat /\ f \in Nat
    BY DEF RingObject
  <1>2. Ring!Ready(a, count) = CHOOSE k \in 0 .. count : P(k)
    BY DEF Ring!Ready
  <1> HIDE DEF l, s, f
  <1>3. \E k \in 0 .. count : P(k)
    <2> DEFINE x == IF l <= s THEN l ELSE s
               y == IF x <= f THEN x ELSE f
               z == IF y <= count THEN y ELSE count
    <2>1. z \in 0 .. count /\ P(z)
      BY <1>1
    <2> HIDE DEF z
    <2> QED
      BY <2>1
  <1>4. Ring!Ready(a, count) \in 0 .. count /\ P(Ring!Ready(a, count))
    BY <1>2, <1>3
  <1> QED
    BY <1>1, <1>4 DEF l, s, f

\* A rank that has just started.
JustStarted(r, a, k) ==
    /\ a \in RingObject
    /\ a.stream_count = Ring!stream_count
    /\ a.free_packets = 0 /\ a.received = 0
    /\ a.bundles = k /\ Len(a.packets) = k
    /\ PeersOf(r, a)

\* StreamInit inserts parallel_reduce packets.
LEMMA RingStart ==
    ASSUME RingNumbers, NEW r \in Ring!Rank, NEW A \in [Ring!Rank -> RingObject],
           A = alg, RingIdle(A[r]), PeersOf(r, A[r]), Ring!run_StreamInit(r)
    PROVE  \E x : /\ alg' = [A EXCEPT ![r] = x]
                  /\ JustStarted(r, x, Ring!parallel_reduce)
                  /\ x.state = "running"
  <1>0. PICK n \in Nat : n = Ring!parallel_reduce
    BY DEF RingNumbers
  <1>00. A[r] \in RingObject /\ A[r].state = "created"
    BY DEF Ring!run_StreamInit
  <1> DEFINE y == A[r]
             Good(z, i) == JustStarted(r, z, i) /\ z.state = "created"
             T == [i \in 0 .. n |-> {z \in RingObject : Good(z, i)}]
             F == [p \in RingObject \X (1 .. n) |-> Ring!insert_packet(p[1], r)]
             Rec(f) == f = [i \in 0 .. n |-> IF i = 0 THEN y
                                             ELSE Ring!insert_packet(f[i - 1], r)]
             made == CHOOSE f : Rec(f)
  <1>1. y \in T[0]
    <2>1. JustStarted(r, y, 0)
      BY <1>00 DEF RingIdle, JustStarted
    <2> QED
      BY <1>00, <2>1
  <1>2. \A i \in 1 .. n : \A z : z \in T[i - 1] => z \in RingObject /\ Good(z, i - 1)
    OBVIOUS
  <1>3. \A i \in 1 .. n : \A z \in RingObject : Good(z, i) => z \in T[i]
    OBVIOUS
  <1>4. \A i \in 1 .. n : \A z \in RingObject : F[<<z, i>>] = Ring!insert_packet(z, r)
    OBVIOUS
  <1>5. ASSUME NEW i \in 1 .. n, NEW z \in T[i - 1]
        PROVE  Ring!insert_packet(z, r) \in T[i]
    <2> DEFINE b == Ring!insert_packet(z, r)
    <2>1. z \in RingObject /\ Good(z, i - 1)
      BY <1>2
    <2>2. Posts(z) \in Nat
      BY <2>1 DEF Posts, JustStarted, RingNumbers
    <2>3. /\ b \in RingObject
          /\ Len(b.packets) = Len(z.packets) + 1
          /\ b.bundles = z.bundles + 1
          /\ b.state = z.state /\ b.stream_count = z.stream_count
          /\ b.free_packets = z.free_packets /\ b.received = z.received
          /\ PeersOf(r, b)
      BY <2>1, <2>2, InsertPacket DEF JustStarted
    <2> HIDE DEF b
    <2>4. Good(b, i)
      BY <2>1, <2>3 DEF JustStarted
    <2> HIDE DEF T, Good
    <2> QED
      BY <1>3, <2>3, <2>4 DEF b
  <1> HIDE DEF T, F, Good
  <1>6. PICK f : /\ f = [i \in 0 .. n |-> f[i]]
                 /\ f[0] = y
                 /\ \A i \in 1 .. n : f[i] = F[<<f[i - 1], i>>]
                 /\ \A i \in 0 .. n : f[i] \in T[i]
    <2>1. \A i \in 1 .. n : \A z \in T[i - 1] : F[<<z, i>>] \in T[i]
      BY <1>2, <1>4, <1>5
    <2>2. Leads(n, T, F, y)
      BY <1>1, <2>1 DEF Leads
    <2>3. \E f : Follows(f, n, T, F, y)
      BY <2>2, Recursion
    <2> QED
      BY <2>3 DEF Follows
  <1>7. Rec(f)
    <2>1. ASSUME NEW i \in 1 .. n
          PROVE  f[i] = Ring!insert_packet(f[i - 1], r)
      <3>1. i - 1 \in 0 .. n
        OBVIOUS
      <3>2. f[i - 1] \in RingObject
        BY <1>2, <1>6, <3>1
      <3> QED
        BY <1>4, <1>6, <3>2
    <2>2. ASSUME NEW i \in 0 .. n
          PROVE  f[i] = IF i = 0 THEN y ELSE Ring!insert_packet(f[i - 1], r)
      <3>1. i = 0 \/ i \in 1 .. n
        OBVIOUS
      <3>2. CASE i = 0
        BY <1>6, <3>2, Zenon
      <3>3. CASE i # 0
        BY <2>1, <3>1, <3>3, Zenon
      <3> QED
        BY <3>2, <3>3
    <2> QED
      BY <1>6, <2>2
  <1>8. Rec(made)
    BY <1>7
  <1>9. alg' = [A EXCEPT ![r] = [made[n] EXCEPT !.state = "running"]]
    BY <1>0 DEF Ring!run_StreamInit
  <1> HIDE DEF made
  <1>10. made[0] = y /\ \A i \in 1 .. n : made[i] = Ring!insert_packet(made[i - 1], r)
    <2> DEFINE g == [i \in 0 .. n |-> IF i = 0 THEN y
                                      ELSE Ring!insert_packet(made[i - 1], r)]
    <2>1. g[0] = y /\ \A i \in 1 .. n : g[i] = Ring!insert_packet(made[i - 1], r)
      OBVIOUS
    <2>2. made = g
      BY <1>8
    <2> HIDE DEF g
    <2> QED
      BY <2>1, <2>2
  <1>11. \A i \in 0 .. n : made[i] \in T[i]
    <2>1. made[0] \in T[0]
      BY <1>1, <1>10
    <2>2. \A i \in 1 .. n : made[i - 1] \in T[i - 1] => made[i] \in T[i]
      BY <1>5, <1>10
    <2> QED
      BY <2>1, <2>2, StepByStep
  <1>12. made[n] \in RingObject /\ JustStarted(r, made[n], n) /\ made[n].state = "created"
    BY <1>11 DEF T, Good
  <1> DEFINE x == [made[n] EXCEPT !.state = "running"]
  <1>13. /\ x \in RingObject /\ x.state = "running"
         /\ x.stream_count = made[n].stream_count /\ x.free_packets = made[n].free_packets
         /\ x.packets = made[n].packets /\ x.bundles = made[n].bundles
         /\ x.curr_receiver = made[n].curr_receiver
         /\ x.curr_sender = made[n].curr_sender
         /\ x.received = made[n].received
    BY <1>12 DEF RingObject
  <1> HIDE DEF x
  <1>14. PeersOf(r, x)
    BY <1>12, <1>13 DEF JustStarted, PeersOf, Posts
  <1>15. JustStarted(r, x, n)
    BY <1>12, <1>13, <1>14 DEF JustStarted
  <1> QED
    BY <1>0, <1>9, <1>13, <1>15 DEF x

\* Occurrences.
LEMMA OccursFacts ==
    ASSUME NEW k \in Nat, NEW g, NEW q
    PROVE  /\ Occurs(g, k, q) \in Nat
           /\ Occurs(g, k, q) >= 1 <=> \E i \in 1 .. k : g[i] = q
  <1> DEFINE X == {i \in 1 .. k : g[i] = q}
  <1>1. IsFiniteSet(1 .. k)
    BY FS_Interval
  <1>2. IsFiniteSet(X)
    BY <1>1, FS_Subset
  <1>3. Cardinality(X) \in Nat
    BY <1>2, FS_CardinalityType
  <1>4. Cardinality(X) = 0 <=> X = {}
    BY <1>2, FS_EmptySet
  <1>5. X = {} <=> ~ \E i \in 1 .. k : g[i] = q
    OBVIOUS
  <1>6. Occurs(g, k, q) = Cardinality(X)
    BY DEF Occurs
  <1> HIDE DEF X
  <1> QED
    BY <1>3, <1>4, <1>5, <1>6

\* How many cells one q has.
LEMMA CellsOf ==
    ASSUME NEW Q, NEW c \in [Q -> Nat], NEW p \in Q, IsFiniteSet(Cells(Q, c))
    PROVE  /\ c[p] <= Cardinality(Cells(Q, c))
           /\ (\A q \in Q \ {p} : c[q] = 0) => Cardinality(Cells(Q, c)) = c[p]
  <1> DEFINE X == {p} \X (1 .. c[p])
  <1>1. c[p] \in Nat
    OBVIOUS
  <1>2. IsFiniteSet({p}) /\ Cardinality({p}) = 1
    BY FS_Singleton
  <1>3. IsFiniteSet(1 .. c[p]) /\ Cardinality(1 .. c[p]) = c[p]
    BY <1>1, FS_Interval
  <1>4. IsFiniteSet(X) /\ Cardinality(X) = 1 * c[p]
    BY <1>2, <1>3, FS_Product
  <1>5. X \subseteq Cells(Q, c)
    BY DEF Cells
  <1>6. Cardinality(X) = c[p]
    BY <1>1, <1>4
  <1>7. ASSUME \A q \in Q \ {p} : c[q] = 0
        PROVE  Cells(Q, c) = X
    <2>1. ASSUME NEW x \in Cells(Q, c)
          PROVE  x \in X
      <3>1. PICK q \in Q : x \in {q} \X (1 .. c[q])
        BY DEF Cells
      <3>2. 1 .. c[q] # {}
        BY <3>1
      <3>3. q = p
        BY <1>7, <3>2
      <3> QED
        BY <3>1, <3>3
    <2> QED
      BY <1>5, <2>1
  <1> HIDE DEF X
  <1> QED
    BY <1>5, <1>6, <1>7, FS_Subset

\* The first k packets of an object.
Dests(a, k) == [i \in 1 .. k |-> a.packets[i].dest]

Srcs(a, k) == [i \in 1 .. k |-> a.packets[i].src]

\* An object a has sent its first k packets and become c.
SentFirst(a, c, k) ==
    /\ a \in RingObject /\ c \in RingObject
    /\ k \in Nat /\ k <= Len(a.packets)
    /\ c.stream_count = a.stream_count - k
    /\ c.free_packets + c.bundles = a.free_packets + a.bundles - k
    /\ c.received = a.received
    /\ c.curr_receiver = a.curr_receiver /\ c.curr_sender = a.curr_sender
    /\ a.state = "running" /\ c.state \in {"running", "exited"}
    /\ c.state = "running" =>
          /\ Len(c.packets) = Len(a.packets) - k
          /\ \A j \in 1 .. Len(a.packets) - k : c.packets[j] = a.packets[k + j]
    /\ c.state = "exited" =>
          /\ c.packets = <<>> /\ c.stream_count = 0
          /\ c.free_packets = Ring!parallel_reduce

\* Rank r has posted them.
Posted(r, a, k, S, S2, R, R2) ==
    /\ S2 \in [Ring!Pair -> Nat] /\ R2 \in [Ring!Pair -> Nat]
    /\ \A q \in Ring!Rank : S2[<<r, q>>] = S[<<r, q>>] + Occurs(Dests(a, k), k, q)
    /\ \A q \in Ring!Rank : R2[<<q, r>>] = R[<<q, r>>] + Occurs(Srcs(a, k), k, q)
    /\ \A s \in Ring!Rank \ {r} : \A q \in Ring!Rank :
          S2[<<s, q>>] = S[<<s, q>>] /\ R2[<<q, s>>] = R[<<q, s>>]

\* A step of one rank, seen from the others and from all.
LEMMA RingOneRank ==
    ASSUME NEW A, NEW S, NEW R, NEW D, RingInvOf(A, S, R, D),
           NEW r \in Ring!Rank, NEW c \in RingObject, NEW S2, NEW R2, NEW D2,
           RingType(A, S2, R2, D2),
           RingRank(r, c, S2, R2, D2),
           \A s \in Ring!Rank \ {r} : \A q \in Ring!Rank :
               /\ S2[<<s, q>>] = S[<<s, q>>] /\ R2[<<q, s>>] = R[<<q, s>>]
               /\ D2[<<q, s>>] = D[<<q, s>>],
           RingMatched(S2, R2, D2),
           RingChain([A EXCEPT ![r] = c])
    PROVE  RingInvOf([A EXCEPT ![r] = c], S2, R2, D2)
  <1> DEFINE B == [A EXCEPT ![r] = c]
  <1>1. RingType(B, S2, R2, D2)
    BY DEF RingType
  <1>2. ASSUME NEW s \in Ring!Rank
        PROVE  RingRank(s, B[s], S2, R2, D2)
    <2>1. CASE s = r
      BY <2>1 DEF RingType
    <2>2. CASE s # r
      <3>1. B[s] = A[s] /\ RingRank(s, A[s], S, R, D)
        BY <2>2 DEF RingType, RingInvOf
      <3>2. /\ \A q \in Ring!Rank : S2[<<s, q>>] = S[<<s, q>>]
            /\ \A q \in Ring!Rank : R2[<<q, s>>] = R[<<q, s>>]
            /\ \A q \in Ring!Rank : D2[<<q, s>>] = D[<<q, s>>]
        BY <2>2
      <3>3. /\ Ring!From(R2, s) = Ring!From(R, s) /\ Ring!From(D2, s) = Ring!From(D, s)
            /\ Ring!To(S2, s) = Ring!To(S, s)
        BY <3>2, SameCells
      <3>4. RingTotals(s, A[s], S2, R2, D2)
        BY <3>1, <3>3 DEF RingRank, RingTotals
      <3>5. RingPosted(s, A[s], S2, R2)
        <4>1. RingPosted(s, A[s], S, R) /\ RingNumbers
          BY <3>1, RingConstants DEF RingRank, RingType
        <4>2. \A i \in 1 .. Ring!middle_point : Back(s, i) \in Ring!Rank
          BY <4>1, RingPlaces DEF RingNumbers
        <4> QED
          BY <3>2, <4>1, <4>2 DEF RingPosted
      <3>6. FirstHalfDone(s, A[s], D2)
        BY <3>1, <3>2 DEF RingRank, FirstHalfDone
      <3> QED
        BY <3>1, <3>4, <3>5, <3>6 DEF RingRank
    <2> QED
      BY <2>1, <2>2
  <1> QED
    BY <1>1, <1>2 DEF RingInvOf

\* A started rank is as the invariant wants it.
LEMMA RingStarts ==
    ASSUME NEW A, NEW S, NEW R, NEW D, RingInvOf(A, S, R, D),
           NEW r \in Ring!Rank, A[r].state = "created",
           NEW x, JustStarted(r, x, Ring!parallel_reduce), x.state = "running"
    PROVE  RingInvOf([A EXCEPT ![r] = x], S, R, D)
  <1> DEFINE B == [A EXCEPT ![r] = x]
  <1>1. RingNumbers /\ A \in [Ring!Rank -> RingObject] /\ x \in RingObject
    BY RingConstants DEF RingInvOf, RingType, JustStarted
  <1>2. RingRank(r, A[r], S, R, D)
    BY DEF RingInvOf
  <1>3. Posts(x) = Posts(A[r]) /\ Posts(x) = 0 /\ x.received = A[r].received
    BY <1>1, <1>2 DEF RingRank, RingIdle, JustStarted, Posts, RingNumbers
  <1>4. RingIdle(x)
    BY DEF RingIdle
  <1>5. RingCounts(x)
    BY <1>1, <1>3 DEF RingCounts, JustStarted, RingNumbers
  <1>6. RingTotals(r, x, S, R, D)
    BY <1>2, <1>3 DEF RingRank, RingTotals
  <1>7. PeersOf(r, x)
    BY DEF JustStarted
  <1>8. RingPosted(r, x, S, R) /\ FirstHalfDone(r, x, D)
    BY <1>2, <1>3 DEF RingRank, RingPosted, FirstHalfDone
  <1>9. RingRank(r, x, S, R, D)
    BY <1>4, <1>5, <1>6, <1>7, <1>8 DEF RingRank
  <1>10. RingChain(B)
    <2> SUFFICES ASSUME ~config.direct, NEW s \in Ring!Rank,
                        NEW i \in 0 .. config.nodes - 1, Posts(B[s]) > i
                 PROVE  B[Back(s, i)].state # "created"
      BY DEF RingChain
    <2>1. Posts(B[s]) = Posts(A[s])
      BY <1>1, <1>3
    <2>2. Back(s, i) \in Ring!Rank
      BY <1>1, RingPlaces
    <2>3. A[Back(s, i)].state # "created"
      BY <2>1 DEF RingInvOf, RingChain
    <2> QED
      BY <1>1, <2>2, <2>3
  <1>11. RingType(A, S, R, D) /\ RingMatched(S, R, D)
    BY DEF RingInvOf
  <1> QED
    BY <1>1, <1>9, <1>10, <1>11, RingOneRank

\* A receive handler.
LEMMA RingReceives ==
    ASSUME NEW A, NEW S, NEW R, NEW D, RingInvOf(A, S, R, D),
           NEW r \in Ring!Rank, NEW src \in Ring!Rank, A[r].state = "running",
           D[<<src, r>>] < S[<<src, r>>], D[<<src, r>>] < R[<<src, r>>]
    PROVE  RingInvOf([A EXCEPT ![r] = Ring!insert_packet(
                                          [A[r] EXCEPT !.received = @ + 1], r)],
                     S, R, [D EXCEPT ![<<src, r>>] = @ + 1])
  <1> DEFINE a == [A[r] EXCEPT !.received = @ + 1]
             c == Ring!insert_packet(a, r)
             B == [A EXCEPT ![r] = c]
             D2 == [D EXCEPT ![<<src, r>>] = @ + 1]
  <1>1. /\ RingNumbers /\ A \in [Ring!Rank -> RingObject] /\ A[r] \in RingObject
        /\ S \in [Ring!Pair -> Nat] /\ R \in [Ring!Pair -> Nat] /\ D \in [Ring!Pair -> Nat]
        /\ RingMatched(S, R, D) /\ RingType(A, S, R, D)
    BY RingConstants DEF RingInvOf, RingType
  <1>2. RingRank(r, A[r], S, R, D)
    BY DEF RingInvOf
  <1>0. A[r].state = "running"
    OBVIOUS
  <1>3. /\ a \in RingObject /\ a.received = A[r].received + 1
        /\ a.state = "running" /\ a.stream_count = A[r].stream_count
        /\ a.free_packets = A[r].free_packets /\ a.packets = A[r].packets
        /\ a.bundles = A[r].bundles /\ a.curr_receiver = A[r].curr_receiver
        /\ a.curr_sender = A[r].curr_sender
    <2>1. PICK y \in RingObject : y = A[r]
      BY <1>1
    <2>2. /\ [y EXCEPT !.received = @ + 1] \in RingObject
          /\ a = [y EXCEPT !.received = @ + 1]
      BY <2>1 DEF RingObject
    <2>3. \A z \in RingObject : DOMAIN z = {"state", "stream_count", "free_packets",
              "packets", "bundles", "curr_receiver", "curr_sender", "received"}
      BY DEF RingObject
    <2> QED
      BY <1>0, <2>1, <2>2, <2>3
  <1> HIDE DEF a
  <1>4. PeersOf(r, a) /\ Posts(a) = Posts(A[r]) /\ Posts(a) \in Nat
    BY <1>2, <1>3 DEF RingRank, PeersOf, Posts, RingCounts
  <1>5. /\ c \in RingObject /\ Len(c.packets) = Len(A[r].packets) + 1
        /\ c.bundles = A[r].bundles + 1 /\ c.state = "running"
        /\ c.stream_count = A[r].stream_count /\ c.free_packets = A[r].free_packets
        /\ c.received = A[r].received + 1 /\ PeersOf(r, c)
    <2>1. RingNumbers
      BY <1>1
    <2>2. /\ c \in RingObject /\ Len(c.packets) = Len(a.packets) + 1
          /\ c.bundles = a.bundles + 1 /\ c.state = a.state
          /\ c.stream_count = a.stream_count /\ c.free_packets = a.free_packets
          /\ c.received = a.received /\ (a.state # "exited" => PeersOf(r, c))
      BY <1>3, <1>4, <2>1, InsertPacket
    <2> HIDE DEF c
    <2> QED
      BY <1>3, <2>2
  <1> HIDE DEF c
  <1>6. Posts(c) = Posts(A[r]) /\ Posts(c) \in Nat
    BY <1>4, <1>5 DEF Posts, a
  <1>7. \A p \in Ring!Pair : D2[p] = IF p = <<src, r>> THEN D[p] + 1 ELSE D[p]
    BY <1>1
  <1>8. /\ D2 \in [Ring!Pair -> Nat] /\ RingType(A, S, R, D2)
        /\ <<src, r>> \in Ring!Pair /\ \A q, s \in Ring!Rank : <<q, s>> \in Ring!Pair
    BY <1>1 DEF RingType, Ring!Pair
  <1> HIDE DEF D2
  <1>9. RingMatched(S, R, D2)
    BY <1>1, <1>7, <1>8 DEF RingMatched
  <1>10. RingIdle(c)
    BY <1>5 DEF RingIdle
  <1>11. RingCounts(c)
    <2>1. /\ Posts(A[r]) + Len(A[r].packets) = Ring!parallel_reduce + A[r].received
          /\ A[r].free_packets + A[r].bundles + Posts(A[r])
                = Ring!parallel_reduce + A[r].received
      BY <1>2 DEF RingRank, RingCounts
    <2>2. /\ Len(A[r].packets) \in Nat /\ A[r].received \in Nat /\ A[r].bundles \in Nat
          /\ A[r].free_packets \in Nat /\ Ring!parallel_reduce \in Nat
      <3>1. PICK y \in RingObject : y = A[r]
        BY <1>1
      <3>2. Len(y.packets) \in Nat /\ y.received \in Nat /\ y.bundles \in Nat
            /\ y.free_packets \in Nat
        BY DEF RingObject
      <3>3. Ring!parallel_reduce \in Nat
        BY <1>1 DEF RingNumbers
      <3> QED
        BY <3>1, <3>2, <3>3
    <2>3. PICK p \in Nat, l \in Nat, m \in Nat, q \in Nat, f \in Nat, b \in Nat :
             /\ p = Posts(A[r]) /\ l = Len(A[r].packets) /\ m = Ring!parallel_reduce
             /\ q = A[r].received /\ f = A[r].free_packets /\ b = A[r].bundles
      BY <1>6, <2>2
    <2>4. /\ Posts(c) + Len(c.packets) = p + (l + 1)
          /\ c.free_packets + c.bundles + Posts(c) = f + (b + 1) + p
          /\ Ring!parallel_reduce + c.received = m + (q + 1)
      BY <1>5, <1>6, <2>3, Zenon
    <2>5. p + l = m + q /\ f + b + p = m + q
      BY <2>1, <2>3, Zenon
    <2>6. p + (l + 1) = m + (q + 1) /\ f + (b + 1) + p = m + (q + 1)
      BY <2>5
    <2>7. Ring!parallel_reduce + c.received \in Nat
      <3>1. m + (q + 1) \in Nat
        OBVIOUS
      <3> QED
        BY <2>4, <3>1, Zenon
    <2> QED
      BY <1>5, <1>6, <2>4, <2>7, <2>6 DEF RingCounts
  <1>12. RingTotals(r, c, S, R, D2)
    <2>1. RingTotals(r, A[r], S, R, D)
      BY <1>2 DEF RingRank
    <2>2. /\ Col(D, r) \in [Ring!Rank -> Nat] /\ Col(D2, r) \in [Ring!Rank -> Nat]
          /\ \A q \in Ring!Rank :
                Col(D2, r)[q] = IF q = src THEN Col(D, r)[q] + 1 ELSE Col(D, r)[q]
      BY <1>1, <1>7, <1>8 DEF Col
    <2>3. IsFiniteSet(Cells(Ring!Rank, Col(D, r)))
      BY <2>1, FromToCells DEF RingTotals
    <2>4. /\ IsFiniteSet(Cells(Ring!Rank, Col(D2, r)))
          /\ Cardinality(Cells(Ring!Rank, Col(D2, r)))
                = Cardinality(Cells(Ring!Rank, Col(D, r))) + 1
      BY <2>2, <2>3, CellsOneMore
    <2> QED
      BY <1>5, <1>6, <2>1, <2>4, FromToCells DEF RingTotals
  <1>13. RingPosted(r, c, S, R)
    BY <1>2, <1>6 DEF RingRank, RingPosted
  <1>14. FirstHalfDone(r, c, D2)
    <2>1. \A q \in Ring!Rank : D[<<q, r>>] >= 1 => D2[<<q, r>>] >= 1
      BY <1>1, <1>7, <1>8
    <2> QED
      BY <1>2, <1>6, <2>1 DEF RingRank, FirstHalfDone
  <1>15. RingRank(r, c, S, R, D2)
    BY <1>5, <1>10, <1>11, <1>12, <1>13, <1>14 DEF RingRank
  <1>16. RingChain(B)
    <2> SUFFICES ASSUME ~config.direct, NEW s \in Ring!Rank,
                        NEW i \in 0 .. config.nodes - 1, Posts(B[s]) > i
                 PROVE  B[Back(s, i)].state # "created"
      BY DEF RingChain
    <2>1. Posts(B[s]) = Posts(A[s])
      BY <1>1, <1>6
    <2>2. Back(s, i) \in Ring!Rank
      BY <1>1, RingPlaces
    <2>3. A[Back(s, i)].state # "created"
      BY <2>1 DEF RingInvOf, RingChain
    <2> QED
      BY <1>1, <1>5, <2>2, <2>3
  <1>17. \A s \in Ring!Rank \ {r} : \A q \in Ring!Rank : D2[<<q, s>>] = D[<<q, s>>]
    BY <1>7, <1>8
  <1>18. RingInvOf(B, S, R, D2)
    BY <1>5, <1>8, <1>9, <1>15, <1>16, <1>17, RingOneRank
  <1> QED
    BY <1>18 DEF D2, c, a

\* What an object is after sending its first k packets.
LEMMA RingSentCounts ==
    ASSUME RingNumbers, NEW r \in Ring!Rank, NEW a, NEW c, NEW k, SentFirst(a, c, k),
           RingCounts(a), PeersOf(r, a)
    PROVE  /\ Posts(a) \in Nat /\ Posts(c) = Posts(a) + k /\ Posts(c) \in Nat
           /\ RingIdle(c) /\ RingCounts(c) /\ PeersOf(r, c)
           /\ Posts(c) <= Ring!parallel_reduce + c.received
  <1>1. /\ a \in RingObject /\ c \in RingObject /\ k \in Nat /\ k <= Len(a.packets)
        /\ c.stream_count = a.stream_count - k
        /\ c.free_packets + c.bundles = a.free_packets + a.bundles - k
        /\ c.received = a.received
        /\ c.curr_receiver = a.curr_receiver /\ c.curr_sender = a.curr_sender
        /\ a.state = "running" /\ c.state \in {"running", "exited"}
        /\ c.state = "running" =>
              /\ Len(c.packets) = Len(a.packets) - k
              /\ \A j \in 1 .. Len(a.packets) - k : c.packets[j] = a.packets[k + j]
        /\ c.state = "exited" =>
              /\ c.packets = <<>> /\ c.stream_count = 0
              /\ c.free_packets = Ring!parallel_reduce
    BY DEF SentFirst
  <1>2. PICK l \in Nat, q \in Nat, f \in Nat, b \in Nat, p \in Nat, m \in Nat :
           /\ l = Len(a.packets) /\ q = a.received /\ f = a.free_packets /\ b = a.bundles
           /\ p = Posts(a) /\ m = Ring!parallel_reduce
    <2>1. Len(a.packets) \in Nat /\ a.received \in Nat /\ a.free_packets \in Nat
          /\ a.bundles \in Nat
      BY <1>1 DEF RingObject
    <2>2. Ring!parallel_reduce \in Nat /\ Posts(a) \in Nat
      BY DEF RingNumbers, RingCounts
    <2> QED
      BY <2>1, <2>2
  <1>3. PICK g \in Nat, d \in Nat : g = c.free_packets /\ d = c.bundles
    BY <1>1 DEF RingObject
  <1>4. p + l = m + q /\ f + b + p = m + q
    BY <1>1, <1>2 DEF RingCounts
  <1>5. g + d = f + b - k /\ k <= l /\ k \in Nat
    BY <1>1, <1>2, <1>3
  <1>6. Posts(c) = p + k
    <2>1. a.stream_count \in Nat /\ Ring!stream_count \in Nat
      BY <1>1 DEF RingObject, RingNumbers
    <2> QED
      BY <1>1, <1>2, <2>1 DEF Posts
  <1>7. RingIdle(c)
    BY <1>1 DEF RingIdle
  <1>8. g + d + (p + k) = m + q /\ p + k <= m + q
    BY <1>4, <1>5
  <1>9. RingCounts(c)
    <2>0. /\ Posts(c) \in Nat
          /\ c.free_packets + c.bundles + Posts(c) = Ring!parallel_reduce + c.received
          /\ Ring!parallel_reduce + c.received = m + q
      <3>1. p + k \in Nat
        BY <1>5
      <3> QED
        BY <1>1, <1>2, <1>3, <1>6, <1>8, <3>1
    <2>1. CASE c.state = "running"
      <3>1. Len(c.packets) = l - k
        BY <1>1, <1>2, <2>1
      <3>2. (p + k) + (l - k) = m + q
        BY <1>4, <1>5
      <3> QED
        BY <1>6, <2>0, <2>1, <3>1, <3>2 DEF RingCounts
    <2>2. CASE c.state = "exited"
      <3>1. Len(c.packets) = 0 /\ p + k + 0 <= m + q
        BY <1>1, <1>8, <2>2
      <3>2. Posts(c) + Len(c.packets) <= m + q
        BY <1>6, <2>0, <3>1
      <3> QED
        BY <1>1, <2>0, <2>2, <3>2 DEF RingCounts
    <2> QED
      BY <1>1, <2>1, <2>2
  <1>10. PeersOf(r, c)
    <2>1. c.curr_receiver # r /\ c.curr_sender # r
      BY <1>1 DEF PeersOf
    <2>2. CASE c.state = "running"
      <3>1. Len(c.packets) = l - k
        BY <1>1, <1>2, <2>2
      <3>2. ASSUME NEW j \in 1 .. Len(c.packets)
            PROVE  k + j \in 1 .. l /\ c.packets[j] = a.packets[k + j]
                   /\ p + k + j = p + (k + j)
        <4>1. j \in 1 .. l - k
          BY <3>1
        <4>2. k + j \in 1 .. l /\ p + k + j = p + (k + j)
          BY <1>5, <4>1
        <4> QED
          BY <1>1, <1>2, <2>2, <4>1, <4>2
      <3>3. \A j \in 1 .. Len(c.packets) : c.packets[j].dest # r /\ c.packets[j].src # r
        BY <1>2, <3>2 DEF PeersOf
      <3>4. ASSUME ~config.direct
            PROVE  /\ c.curr_receiver = Ahead(r, 1) /\ c.curr_sender = Back(r, 1)
                   /\ \A j \in 1 .. Len(c.packets) :
                         c.packets[j].dest = Ahead(r, 1) /\ c.packets[j].src = Back(r, 1)
        BY <1>1, <1>2, <3>2, <3>4 DEF PeersOf
      <3>5. ASSUME config.direct
            PROVE  \A j \in 1 .. Len(c.packets) :
                       Posts(c) + j <= Ring!middle_point =>
                           c.packets[j].src = Back(r, Posts(c) + j)
        <4>1. \A i \in 1 .. l : p + i <= Ring!middle_point => a.packets[i].src = Back(r, p + i)
          BY <1>2, <3>5 DEF PeersOf
        <4> QED
          BY <1>6, <3>2, <4>1, Zenon
      <3>6. ASSUME config.direct, Posts(c) + Len(c.packets) < Ring!middle_point
            PROVE  c.curr_sender = Back(r, Posts(c) + Len(c.packets) + 1)
        <4>1. Posts(c) + Len(c.packets) = p + l
          BY <1>5, <1>6, <3>1
        <4>2. a.curr_sender = Back(r, p + l + 1)
          BY <1>1, <1>2, <3>6, <4>1 DEF PeersOf
        <4> QED
          BY <1>1, <4>1, <4>2
      <3> QED
        BY <2>1, <3>3, <3>4, <3>5, <3>6 DEF PeersOf
    <2>3. CASE c.state = "exited"
      <3>1. 1 .. Len(c.packets) = {}
        BY <1>1, <2>3
      <3>2. ~config.direct => c.curr_receiver = Ahead(r, 1) /\ c.curr_sender = Back(r, 1)
        BY <1>1 DEF PeersOf
      <3> QED
        BY <2>1, <2>3, <3>1, <3>2 DEF PeersOf
    <2> QED
      BY <1>1, <2>2, <2>3
  <1>11. Posts(c) <= Ring!parallel_reduce + c.received
    BY <1>1, <1>2, <1>6, <1>8
  <1> QED
    <2>1. p + k \in Nat
      BY <1>5
    <2> QED
      BY <1>2, <1>6, <1>7, <1>9, <1>10, <1>11, <2>1

\* What a rank has posted after that.
LEMMA RingSentPosted ==
    ASSUME RingNumbers, NEW r \in Ring!Rank, NEW a, NEW c, NEW k, SentFirst(a, c, k),
           RingCounts(a), PeersOf(r, a), Posts(c) = Posts(a) + k,
           NEW S \in [Ring!Pair -> Nat], NEW S2, NEW R \in [Ring!Pair -> Nat], NEW R2,
           NEW D, Posted(r, a, k, S, S2, R, R2),
           RingTotals(r, a, S, R, D), RingPosted(r, a, S, R)
    PROVE  RingTotals(r, c, S2, R2, D) /\ RingPosted(r, c, S2, R2)
  <1>1. k \in Nat /\ k <= Len(a.packets) /\ Len(a.packets) \in Nat
        /\ a \in RingObject /\ c.received = a.received /\ Posts(a) \in Nat
    BY DEF SentFirst, RingObject, RingCounts
  <1>2. /\ S2 \in [Ring!Pair -> Nat] /\ R2 \in [Ring!Pair -> Nat]
        /\ \A q \in Ring!Rank : S2[<<r, q>>] = S[<<r, q>>] + Occurs(Dests(a, k), k, q)
        /\ \A q \in Ring!Rank : R2[<<q, r>>] = R[<<q, r>>] + Occurs(Srcs(a, k), k, q)
    BY DEF Posted
  <1>3. \A q, s \in Ring!Rank : <<q, s>> \in Ring!Pair
    BY DEF Ring!Pair
  <1>4. \A j \in 1 .. k : /\ j \in 1 .. Len(a.packets)
                          /\ a.packets[j].dest \in Ring!Rank /\ a.packets[j].src \in Ring!Rank
    <2>1. \A j \in 1 .. k : j \in 1 .. Len(a.packets)
      BY <1>1
    <2>2. a.packets \in Seq([dest : Ring!Rank, src : Ring!Rank])
      BY <1>1 DEF RingObject
    <2>3. \A j \in 1 .. Len(a.packets) : a.packets[j] \in [dest : Ring!Rank, src : Ring!Rank]
      <3>1. \A X : \A p \in Seq(X) : \A j \in 1 .. Len(p) : p[j] \in X
        OBVIOUS
      <3> QED
        BY <2>2, <3>1, Zenon
    <2> QED
      BY <2>1, <2>3
  <1>5. /\ Dests(a, k) \in [1 .. k -> Ring!Rank]
        /\ Srcs(a, k) \in [1 .. k -> Ring!Rank]
        /\ \A j \in 1 .. k : Dests(a, k)[j] = a.packets[j].dest
                             /\ Srcs(a, k)[j] = a.packets[j].src
    BY <1>4 DEF Dests, Srcs
  <1>6. \A q \in Ring!Rank : S[<<r, q>>] \in Nat /\ R[<<q, r>>] \in Nat
    BY <1>3
  <1>7. RingTotals(r, c, S2, R2, D)
    <2>1. /\ Col(R, r) \in [Ring!Rank -> Nat] /\ Col(R2, r) \in [Ring!Rank -> Nat]
          /\ Row(S, r) \in [Ring!Rank -> Nat] /\ Row(S2, r) \in [Ring!Rank -> Nat]
      BY <1>2, <1>3 DEF Col, Row
    <2>2. /\ \A q \in Ring!Rank : Col(R2, r)[q] = Col(R, r)[q] + Occurs(Srcs(a, k), k, q)
          /\ \A q \in Ring!Rank : Row(S2, r)[q] = Row(S, r)[q] + Occurs(Dests(a, k), k, q)
      BY <1>2 DEF Col, Row
    <2>3. /\ IsFiniteSet(Cells(Ring!Rank, Col(R, r)))
          /\ IsFiniteSet(Cells(Ring!Rank, Row(S, r)))
      BY FromToCells DEF RingTotals
    <2>4. /\ Grown(Ring!Rank, Col(R, r), Col(R2, r), k, Srcs(a, k))
          /\ Grown(Ring!Rank, Row(S, r), Row(S2, r), k, Dests(a, k))
      BY <1>1, <1>5, <2>1, <2>2, <2>3 DEF Grown
    <2>5. /\ IsFiniteSet(Cells(Ring!Rank, Col(R2, r)))
          /\ IsFiniteSet(Cells(Ring!Rank, Row(S2, r)))
          /\ Cardinality(Cells(Ring!Rank, Col(R2, r)))
                = Cardinality(Cells(Ring!Rank, Col(R, r))) + k
          /\ Cardinality(Cells(Ring!Rank, Row(S2, r)))
                = Cardinality(Cells(Ring!Rank, Row(S, r))) + k
      BY <2>4, CellsGrow
    <2> QED
      BY <1>1, <2>5, FromToCells DEF RingTotals
  <1>8. \A q \in Ring!Rank :
          /\ Occurs(Dests(a, k), k, q) \in Nat
          /\ Occurs(Dests(a, k), k, q) >= 1 => \E j \in 1 .. k : a.packets[j].dest = q
          /\ Occurs(Srcs(a, k), k, q) \in Nat
          /\ Occurs(Srcs(a, k), k, q) >= 1 <=> \E j \in 1 .. k : a.packets[j].src = q
    <2> TAKE q \in Ring!Rank
    <2>1. /\ Occurs(Dests(a, k), k, q) \in Nat
          /\ Occurs(Dests(a, k), k, q) >= 1 <=> \E j \in 1 .. k : Dests(a, k)[j] = q
          /\ Occurs(Srcs(a, k), k, q) \in Nat
          /\ Occurs(Srcs(a, k), k, q) >= 1 <=> \E j \in 1 .. k : Srcs(a, k)[j] = q
      BY <1>1, OccursFacts
    <2> QED
      BY <1>5, <2>1, Zenon
  <1>9. RingPosted(r, c, S2, R2)
    <2>1. S2[<<r, r>>] = 0
      <3>1. ~ \E j \in 1 .. k : a.packets[j].dest = r
        BY <1>4 DEF PeersOf
      <3>2. Occurs(Dests(a, k), k, r) = 0
        BY <1>8, <3>1
      <3> QED
        BY <1>2, <3>2 DEF RingPosted
    <2>2. ASSUME ~config.direct, NEW q \in Ring!Rank
          PROVE  /\ q # Back(r, 1) => R2[<<q, r>>] = 0
                 /\ q # Ahead(r, 1) => S2[<<r, q>>] = 0
      <3>1. \A j \in 1 .. k : a.packets[j].dest = Ahead(r, 1) /\ a.packets[j].src = Back(r, 1)
        BY <1>4, <2>2 DEF PeersOf
      <3>2. /\ q # Back(r, 1) => Occurs(Srcs(a, k), k, q) = 0
            /\ q # Ahead(r, 1) => Occurs(Dests(a, k), k, q) = 0
        BY <1>8, <3>1
      <3>3. /\ q # Back(r, 1) => R[<<q, r>>] = 0
            /\ q # Ahead(r, 1) => S[<<r, q>>] = 0
        BY <2>2 DEF RingPosted
      <3>4. /\ R2[<<q, r>>] = R[<<q, r>>] + Occurs(Srcs(a, k), k, q)
            /\ S2[<<r, q>>] = S[<<r, q>>] + Occurs(Dests(a, k), k, q)
        BY <1>2
      <3> QED
        BY <3>2, <3>3, <3>4
    <2>3. ASSUME config.direct, NEW i \in 1 .. Ring!middle_point
          PROVE  R2[<<Back(r, i), r>>] >= 1 <=> i <= Posts(c)
      <3> DEFINE q == Back(r, i)
      <3>0. Ring!middle_point = config.nodes - 1 /\ config.nodes \in Nat
        BY DEF RingNumbers
      <3>1. q \in Ring!Rank
        <4>1. i \in 0 .. config.nodes - 1
          BY <3>0
        <4>2. \A j \in 0 .. config.nodes - 1 : Back(r, j) \in Ring!Rank
          BY RingPlaces
        <4> QED
          BY <4>1, <4>2
      <3>2. R2[<<q, r>>] = R[<<q, r>>] + Occurs(Srcs(a, k), k, q)
            /\ R[<<q, r>>] \in Nat /\ Occurs(Srcs(a, k), k, q) \in Nat
        BY <1>2, <1>6, <1>8, <3>1
      <3>3. R[<<q, r>>] >= 1 <=> i <= Posts(a)
        BY <2>3 DEF RingPosted
      <3>4. \A j \in 1 .. k : Posts(a) + j <= Ring!middle_point =>
                a.packets[j].src = Back(r, Posts(a) + j)
        BY <1>4, <2>3 DEF PeersOf
      <3>5. ASSUME i > Posts(a), i <= Posts(a) + k
            PROVE  Occurs(Srcs(a, k), k, q) >= 1
        <4>1. i - Posts(a) \in 1 .. k /\ Posts(a) + (i - Posts(a)) = i
          BY <1>1, <3>5
        <4>2. a.packets[i - Posts(a)].src = q
          BY <3>0, <3>4, <4>1
        <4> QED
          BY <1>8, <3>1, <4>1, <4>2
      <3>6. ASSUME i > Posts(a), Occurs(Srcs(a, k), k, q) >= 1
            PROVE  i <= Posts(a) + k
        <4>1. PICK j \in 1 .. k : a.packets[j].src = q
          BY <1>8, <3>1, <3>6
        <4>2. CASE Posts(a) + j <= Ring!middle_point
          <5>1. Back(r, Posts(a) + j) = Back(r, i)
            BY <3>4, <4>1, <4>2
          <5>2. Posts(a) + j \in 0 .. config.nodes - 1 /\ i \in 0 .. config.nodes - 1
            BY <1>1, <3>0, <4>2
          <5>3. Posts(a) + j = i
            <6>1. \A x, y \in 0 .. config.nodes - 1 : Back(r, x) = Back(r, y) => x = y
              BY RingPlaces
            <6> QED
              BY <5>1, <5>2, <6>1
          <5> QED
            BY <1>1, <5>3
        <4>3. CASE ~(Posts(a) + j <= Ring!middle_point)
          BY <1>1, <3>0, <4>3
        <4> QED
          BY <4>2, <4>3
      <3>7. i \in Nat
        BY <3>0
      <3> HIDE DEF q
      <3>8. CASE i <= Posts(a)
        BY <1>1, <3>2, <3>3, <3>7, <3>8 DEF q
      <3>9. CASE i > Posts(a)
        BY <1>1, <3>2, <3>3, <3>5, <3>6, <3>7, <3>9 DEF q
      <3> QED
        BY <1>1, <3>7, <3>8, <3>9
    <2> QED
      BY <2>1, <2>2, <2>3 DEF RingPosted
  <1> QED
    BY <1>7, <1>9

\* Once as much is received as the first half has messages, it is one from each.
LEMMA FirstHalfComplete ==
    ASSUME NEW A, NEW S, NEW R, NEW D, RingInvOf(A, S, R, D), NEW r \in Ring!Rank,
           config.direct, A[r].received >= Posts(A[r]), Posts(A[r]) >= Ring!middle_point
    PROVE  \A q \in Ring!Rank \ {r} : D[<<q, r>>] >= 1
  <1>1. /\ RingNumbers /\ RingTotals(r, A[r], S, R, D) /\ RingPosted(r, A[r], S, R)
        /\ R \in [Ring!Pair -> Nat] /\ D \in [Ring!Pair -> Nat]
        /\ RingMatched(S, R, D) /\ A[r] \in RingObject /\ RingCounts(A[r])
    BY RingConstants DEF RingInvOf, RingType, RingRank
  <1>2. \A q \in Ring!Rank : <<q, r>> \in Ring!Pair /\ D[<<q, r>>] <= R[<<q, r>>]
    BY <1>1 DEF RingMatched, Ring!Pair
  <1>3. /\ Cardinality(Ring!From(D, r)) <= Cardinality(Ring!From(R, r))
        /\ Cardinality(Ring!From(D, r)) = Cardinality(Ring!From(R, r)) =>
              \A q \in Ring!Rank : D[<<q, r>>] = R[<<q, r>>]
    BY <1>1, <1>2, ReceivedPosted DEF RingTotals
  <1>4. Posts(A[r]) \in Nat /\ A[r].received \in Nat
    BY <1>1 DEF RingObject, RingCounts
  <1>5. \A q \in Ring!Rank : D[<<q, r>>] = R[<<q, r>>]
    BY <1>1, <1>3, <1>4 DEF RingTotals
  <1>6. ASSUME NEW q \in Ring!Rank \ {r}
        PROVE  D[<<q, r>>] >= 1
    <2>1. PICK i \in 1 .. config.nodes - 1 : q = Back(r, i)
      BY <1>1, RingPlaces
    <2>2. i \in 1 .. Ring!middle_point /\ i <= Posts(A[r])
      BY <1>1, <1>4 DEF RingNumbers
    <2>3. R[<<q, r>>] >= 1
      BY <1>1, <2>1, <2>2 DEF RingPosted
    <2> QED
      BY <1>5, <2>3
  <1> QED
    BY <1>6

\* In Ring everything goes between neighbours.
LEMMA RingNeighbours ==
    ASSUME NEW A, NEW S, NEW R, NEW D, RingInvOf(A, S, R, D), NEW r \in Ring!Rank,
           ~config.direct
    PROVE  /\ Back(r, 1) \in Ring!Rank
           /\ D[<<Back(r, 1), r>>] = A[r].received
           /\ A[r].received <= Posts(A[Back(r, 1)])
  <1> DEFINE p == Back(r, 1)
  <1>1. /\ RingNumbers /\ RingTotals(r, A[r], S, R, D) /\ RingPosted(r, A[r], S, R)
        /\ S \in [Ring!Pair -> Nat] /\ R \in [Ring!Pair -> Nat] /\ D \in [Ring!Pair -> Nat]
        /\ RingMatched(S, R, D)
    BY RingConstants DEF RingInvOf, RingType, RingRank
  <1>2. p \in Ring!Rank
    <2>1. 1 \in 0 .. config.nodes - 1
      BY <1>1 DEF RingNumbers
    <2> QED
      BY <1>1, <2>1, RingPlaces
  <1> HIDE DEF p
  <1>3. RingTotals(p, A[p], S, R, D)
    BY <1>2 DEF RingInvOf, RingRank
  <1>4. \A q, s \in Ring!Rank : /\ <<q, s>> \in Ring!Pair
                                /\ D[<<q, s>>] <= R[<<q, s>>] /\ D[<<q, s>>] <= S[<<q, s>>]
                                /\ D[<<q, s>>] \in Nat /\ S[<<q, s>>] \in Nat
                                /\ R[<<q, s>>] \in Nat
    BY <1>1 DEF RingMatched, Ring!Pair
  <1>5. D[<<p, r>>] = A[r].received
    <2>1. Col(D, r) \in [Ring!Rank -> Nat]
      BY <1>4 DEF Col
    <2>2. \A q \in Ring!Rank \ {p} : Col(D, r)[q] = 0
      <3> TAKE q \in Ring!Rank \ {p}
      <3>1. R[<<q, r>>] = 0
        BY <1>1 DEF RingPosted, p
      <3>2. D[<<q, r>>] = 0
        BY <1>4, <3>1
      <3> QED
        BY <3>2 DEF Col
    <2>3. Col(D, r)[p] = D[<<p, r>>]
      BY <1>2 DEF Col
    <2>4. IsFiniteSet(Cells(Ring!Rank, Col(D, r)))
          /\ Cardinality(Cells(Ring!Rank, Col(D, r))) = A[r].received
      BY <1>1, FromToCells DEF RingTotals
    <2> QED
      BY <1>2, <2>1, <2>2, <2>3, <2>4, CellsOf
  <1>6. S[<<p, r>>] <= Posts(A[p])
    <2>1. Row(S, p) \in [Ring!Rank -> Nat] /\ Row(S, p)[r] = S[<<p, r>>]
      BY <1>2, <1>4 DEF Row
    <2>2. IsFiniteSet(Cells(Ring!Rank, Row(S, p)))
          /\ Cardinality(Cells(Ring!Rank, Row(S, p))) = Posts(A[p])
      BY <1>3, FromToCells DEF RingTotals
    <2> QED
      BY <2>1, <2>2, CellsOf
  <1>7. Posts(A[p]) \in Nat
    BY <1>2 DEF RingInvOf, RingRank, RingCounts
  <1> QED
    BY <1>2, <1>4, <1>5, <1>6, <1>7 DEF p

\* A bundle that crosses the bus, and what is sent for it.
LEMMA RingSends ==
    ASSUME NEW A, NEW S, NEW R, NEW D, RingInvOf(A, S, R, D),
           NEW r \in Ring!Rank, NEW c, NEW k, SentFirst(A[r], c, k),
           NEW S2, NEW R2, Posted(r, A[r], k, S, S2, R, R2),
           config.direct /\ config.type = "All_Reduce" /\ k >= 1 =>
               \/ Posts(A[r]) + k <= Ring!middle_point
               \/ /\ Posts(A[r]) = Ring!middle_point
                  /\ A[r].received >= Ring!middle_point
               \/ Posts(A[r]) > Ring!middle_point
    PROVE  RingInvOf([A EXCEPT ![r] = c], S2, R2, D)
  <1> DEFINE a == A[r]
             B == [A EXCEPT ![r] = c]
  <1>1. /\ RingNumbers /\ RingType(A, S, R, D) /\ A \in [Ring!Rank -> RingObject]
        /\ S \in [Ring!Pair -> Nat] /\ R \in [Ring!Pair -> Nat] /\ D \in [Ring!Pair -> Nat]
        /\ RingMatched(S, R, D) /\ RingChain(A)
    BY RingConstants DEF RingInvOf, RingType
  <1>2. /\ RingCounts(a) /\ RingTotals(r, a, S, R, D) /\ PeersOf(r, a)
        /\ RingPosted(r, a, S, R) /\ FirstHalfDone(r, a, D)
    BY DEF RingInvOf, RingRank
  <1>3. /\ a \in RingObject /\ c \in RingObject /\ k \in Nat /\ c.received = a.received
        /\ a.state = "running" /\ c.state # "created"
    BY DEF SentFirst
  <1>4. /\ Posts(a) \in Nat /\ Posts(c) = Posts(a) + k /\ Posts(c) \in Nat
        /\ RingIdle(c) /\ RingCounts(c) /\ PeersOf(r, c)
        /\ Posts(c) <= Ring!parallel_reduce + c.received
    BY <1>1, <1>2, RingSentCounts
  <1>5. RingTotals(r, c, S2, R2, D) /\ RingPosted(r, c, S2, R2)
    BY <1>1, <1>2, <1>4, RingSentPosted
  <1>6. /\ S2 \in [Ring!Pair -> Nat] /\ R2 \in [Ring!Pair -> Nat]
        /\ \A q, s \in Ring!Rank : S2[<<q, s>>] >= S[<<q, s>>] /\ R2[<<q, s>>] >= R[<<q, s>>]
        /\ \A s \in Ring!Rank \ {r} : \A q \in Ring!Rank :
              S2[<<s, q>>] = S[<<s, q>>] /\ R2[<<q, s>>] = R[<<q, s>>]
    <2>1. \A q, s \in Ring!Rank : S[<<q, s>>] \in Nat /\ R[<<q, s>>] \in Nat
      BY <1>1 DEF Ring!Pair
    <2>2. \A q \in Ring!Rank : /\ Occurs(Dests(a, k), k, q) \in Nat
                               /\ Occurs(Srcs(a, k), k, q) \in Nat
      BY <1>3, OccursFacts
    <2>3. ASSUME NEW q \in Ring!Rank, NEW s \in Ring!Rank
          PROVE  S2[<<q, s>>] >= S[<<q, s>>] /\ R2[<<q, s>>] >= R[<<q, s>>]
      <3>1. S2[<<q, s>>] = S[<<q, s>>] \/ S2[<<q, s>>] = S[<<q, s>>] + Occurs(Dests(a, k), k, s)
        BY DEF Posted
      <3>2. R2[<<q, s>>] = R[<<q, s>>] \/ R2[<<q, s>>] = R[<<q, s>>] + Occurs(Srcs(a, k), k, q)
        BY DEF Posted
      <3> QED
        BY <2>1, <2>2, <3>1, <3>2
    <2> QED
      BY <2>3 DEF Posted
  <1> HIDE DEF a
  <1>7. RingMatched(S2, R2, D)
    <2> SUFFICES ASSUME NEW p \in Ring!Pair
                 PROVE  D[p] <= R2[p] /\ D[p] <= S2[p]
      BY DEF RingMatched
    <2>1. PICK q \in Ring!Rank, s \in Ring!Rank : p = <<q, s>>
      BY DEF Ring!Pair
    <2>2. /\ D[p] \in Nat /\ R[p] \in Nat /\ S[p] \in Nat /\ R2[p] \in Nat /\ S2[p] \in Nat
          /\ D[p] <= R[p] /\ D[p] <= S[p]
      BY <1>1, <1>6 DEF RingMatched
    <2>3. S2[p] >= S[p] /\ R2[p] >= R[p]
      BY <1>6, <2>1
    <2> QED
      BY <2>2, <2>3
  <1>8. FirstHalfDone(r, c, D)
    <2> SUFFICES ASSUME config.direct, config.type = "All_Reduce",
                        Posts(c) > Ring!middle_point
                 PROVE  \A src \in Ring!Rank \ {r} : D[<<src, r>>] >= 1
      BY DEF FirstHalfDone
    <2>1. CASE Posts(a) > Ring!middle_point
      BY <1>2, <2>1 DEF FirstHalfDone
    <2>2. CASE ~(Posts(a) > Ring!middle_point)
      <3>0. Ring!middle_point \in Nat
        BY <1>1 DEF RingNumbers
      <3>1. k >= 1
        BY <1>3, <1>4, <2>2, <3>0
      <3>2. Posts(a) = Ring!middle_point /\ a.received >= Ring!middle_point
        BY <1>3, <1>4, <2>2, <3>0, <3>1 DEF a
      <3> QED
        BY <3>0, <3>2, FirstHalfComplete DEF a
    <2> QED
      BY <2>1, <2>2
  <1>9. RingChain(B)
    <2> SUFFICES ASSUME ~config.direct, NEW s \in Ring!Rank,
                        NEW i \in 0 .. config.nodes - 1, Posts(B[s]) > i
                 PROVE  B[Back(s, i)].state # "created"
      BY DEF RingChain
    <2>1. Back(s, i) \in Ring!Rank
      BY <1>1, RingPlaces
    <2>2. A[Back(s, i)].state # "created"
      <3>1. CASE s # r
        BY <1>1, <3>1 DEF RingChain
      <3>2. CASE s = r /\ i = 0
        <4>1. Back(s, i) = r
          BY <1>1, <3>2, RingPlaces
        <4> QED
          BY <1>3, <4>1 DEF a
      <3>3. CASE s = r /\ i # 0
        <4>1. i \in 1 .. config.nodes - 1 /\ i - 1 \in 0 .. config.nodes - 1
          BY <1>1, <3>3 DEF RingNumbers
        <4>2. Posts(c) > i
          BY <1>1, <3>3
        <4>3. a.received \in Nat /\ Ring!parallel_reduce = 1
          BY <1>1, <1>3 DEF RingObject, RingNumbers
        <4>4. a.received > i - 1
          BY <1>3, <1>4, <4>1, <4>2, <4>3
        <4>5. Back(r, 1) \in Ring!Rank /\ a.received <= Posts(A[Back(r, 1)])
          BY RingNeighbours DEF a
        <4>6. Posts(A[Back(r, 1)]) \in Nat
          BY <4>5 DEF RingInvOf, RingRank, RingCounts
        <4>7. Posts(A[Back(r, 1)]) > i - 1
          BY <4>1, <4>3, <4>4, <4>5, <4>6
        <4>8. A[Back(Back(r, 1), i - 1)].state # "created"
          BY <1>1, <4>1, <4>5, <4>7 DEF RingChain
        <4>9. Back(Back(r, 1), i - 1) = Back(r, i)
          BY <1>1, <4>1, RingPlaces
        <4> QED
          BY <3>3, <4>8, <4>9
      <3> QED
        BY <3>1, <3>2, <3>3
    <2> QED
      BY <1>1, <1>3, <2>1, <2>2
  <1>10. RingRank(r, c, S2, R2, D)
    BY <1>4, <1>5, <1>8 DEF RingRank
  <1>11. RingType(A, S2, R2, D)
    BY <1>1, <1>6 DEF RingType
  <1> QED
    BY <1>3, <1>6, <1>7, <1>9, <1>10, <1>11, RingOneRank

-----------------------------------------------------------------------------
(***************************************************************************)
(* The invariant.                                                          *)
(***************************************************************************)

\* RingAlgorithm counts with the same Cardinality.
LEMMA RingCardinality ==
    ASSUME NEW X
    PROVE  Ring!Cardinality(X) = Cardinality(X)
  BY DEF Ring!Cardinality, Cardinality

\* run(General) in these terms.
LEMMA RingGeneral ==
    ASSUME RingInv, NEW r \in Ring!Rank, Ring!run_General(r)
    PROVE  \E c, k : /\ alg' = [alg EXCEPT ![r] = c]
                     /\ SentFirst(alg[r], c, k)
                     /\ Posted(r, alg[r], k, sends, sends', recvs, recvs')
                     /\ config.direct /\ config.type = "All_Reduce" /\ k >= 1 =>
                            \/ Posts(alg[r]) + k <= Ring!middle_point
                            \/ /\ Posts(alg[r]) = Ring!middle_point
                               /\ alg[r].received >= Ring!middle_point
                            \/ Posts(alg[r]) > Ring!middle_point
  <1> DEFINE o == alg[r]
             a == [alg[r] EXCEPT !.bundles = @ - 1, !.free_packets = @ + 1]
             count == IF Ring!SecondHalf(a) THEN Ring!parallel_reduce ELSE 1
             b == Ring!AfterReady(a, count)
  <1>1. /\ RingNumbers /\ alg \in [Ring!Rank -> RingObject]
        /\ sends \in [Ring!Pair -> Nat] /\ recvs \in [Ring!Pair -> Nat]
    BY RingConstants DEF RingInv, RingInvOf, RingType
  <1>2. RingCounts(o)
    BY DEF RingInv, RingInvOf, RingRank
  <1>3. o \in RingObject /\ o.state = "running" /\ o.bundles > 0
    BY <1>1 DEF Ring!run_General
  <1>4. /\ o.stream_count \in Nat /\ o.free_packets \in Nat /\ o.bundles \in Nat
        /\ o.received \in Nat /\ Len(o.packets) \in Nat
        /\ o.packets \in Seq([dest : Ring!Rank, src : Ring!Rank])
    BY <1>3 DEF RingObject
  <1>5. /\ a \in RingObject /\ a.state = "running" /\ a.stream_count = o.stream_count
        /\ a.free_packets = o.free_packets + 1 /\ a.packets = o.packets
        /\ a.bundles = o.bundles - 1 /\ a.curr_receiver = o.curr_receiver
        /\ a.curr_sender = o.curr_sender /\ a.received = o.received
    <2>1. PICK y \in RingObject : y = o /\ y.bundles > 0 /\ y.state = "running"
      BY <1>3
    <2>2. a = [y EXCEPT !.bundles = @ - 1, !.free_packets = @ + 1]
      BY <2>1
    <2>3. y.bundles - 1 \in Nat /\ y.free_packets + 1 \in Nat
      BY <2>1 DEF RingObject
    <2> HIDE DEF o, a
    <2>4. a \in RingObject
      BY <2>2, <2>3 DEF RingObject
    <2>5. /\ a.state = y.state /\ a.stream_count = y.stream_count
          /\ a.free_packets = y.free_packets + 1 /\ a.packets = y.packets
          /\ a.bundles = y.bundles - 1 /\ a.curr_receiver = y.curr_receiver
          /\ a.curr_sender = y.curr_sender /\ a.received = y.received
      BY <2>2 DEF RingObject
    <2> QED
      BY <2>1, <2>4, <2>5
  <1>6. Posts(o) = Ring!stream_count - o.stream_count /\ Posts(o) \in Nat
        /\ Ring!stream_count \in Nat
    BY <1>1, <1>2 DEF Posts, RingCounts, RingNumbers
  <1>7. \/ /\ Ring!HeldBack(a) /\ alg' = [alg EXCEPT ![r] = a]
           /\ sends' = sends /\ recvs' = recvs
        \/ /\ ~Ring!HeldBack(a)
           /\ Ring!Post(r, Ring!Sent(a, count))
           /\ alg' = [alg EXCEPT ![r] =
                         IF Ring!iteratable(b) THEN b
                         ELSE [b EXCEPT !.state = "exited", !.packets = <<>>]]
    BY DEF Ring!run_General
  <1> HIDE DEF o, a, b
  <1>8. CASE /\ Ring!HeldBack(a) /\ alg' = [alg EXCEPT ![r] = a]
             /\ sends' = sends /\ recvs' = recvs
    <2>1. SentFirst(o, a, 0)
      BY <1>3, <1>4, <1>5 DEF SentFirst
    <2>2. Posted(r, o, 0, sends, sends, recvs, recvs)
      <3>1. \A g, q : Occurs(g, 0, q) = 0
        <4> TAKE g, q
        <4>1. {i \in 1 .. 0 : g[i] = q} = {}
          OBVIOUS
        <4> QED
          BY <4>1, FS_EmptySet DEF Occurs
      <3>2. \A q, s \in Ring!Rank : sends[<<q, s>>] \in Nat /\ recvs[<<q, s>>] \in Nat
        BY <1>1 DEF Ring!Pair
      <3>3. \A x \in Nat : x = x + 0
        OBVIOUS
      <3> QED
        BY <1>1, <3>1, <3>2, <3>3 DEF Posted
    <2> QED
      <3> DEFINE P(c, k) ==
                    /\ alg' = [alg EXCEPT ![r] = c]
                    /\ SentFirst(alg[r], c, k)
                    /\ Posted(r, alg[r], k, sends, sends', recvs, recvs')
                    /\ config.direct /\ config.type = "All_Reduce" /\ k >= 1 =>
                           \/ Posts(alg[r]) + k <= Ring!middle_point
                           \/ /\ Posts(alg[r]) = Ring!middle_point
                              /\ alg[r].received >= Ring!middle_point
                           \/ Posts(alg[r]) > Ring!middle_point
      <3>1. ~(0 >= 1)
        OBVIOUS
      <3>2. P(a, 0)
        BY <1>8, <2>1, <2>2, <3>1 DEF o
      <3> HIDE DEF P
      <3>3. \E c, k : P(c, k)
        BY <3>2
      <3> QED
        BY <3>3 DEF P
  <1>9. CASE /\ ~Ring!HeldBack(a)
             /\ Ring!Post(r, Ring!Sent(a, count))
             /\ alg' = [alg EXCEPT ![r] =
                           IF Ring!iteratable(b) THEN b
                           ELSE [b EXCEPT !.state = "exited", !.packets = <<>>]]
    <2> DEFINE k == Ring!Ready(a, count)
               c == IF Ring!iteratable(b) THEN b
                    ELSE [b EXCEPT !.state = "exited", !.packets = <<>>]
    <2>1. count \in Nat
      BY <1>1 DEF RingNumbers
    <2>2. /\ k \in Nat /\ k <= count
          /\ k <= Len(a.packets) /\ k <= a.stream_count /\ k <= a.free_packets
      BY <1>5, <2>1, RingReady
    <2>3. b = [a EXCEPT !.packets = SubSeq(@, k + 1, Len(@)),
                        !.stream_count = @ - k, !.free_packets = @ - k]
      BY DEF b, Ring!AfterReady
    <2>4. Ring!Sent(a, count) = SubSeq(a.packets, 1, k)
      BY DEF Ring!Sent
    <2>5. ASSUME config.direct, config.type = "All_Reduce", k >= 1
          PROVE  \/ Posts(o) + k <= Ring!middle_point
                 \/ Posts(o) = Ring!middle_point /\ o.received >= Ring!middle_point
                 \/ Posts(o) > Ring!middle_point
      <3>0. Ring!middle_point \in Nat /\ Ring!stream_count = 2 * Ring!middle_point
        BY <1>1, <2>5 DEF RingNumbers
      <3>1. CASE Ring!SecondHalf(a)
        <4>1. Posts(o) >= Ring!middle_point
          BY <1>4, <1>5, <1>6, <3>0, <3>1 DEF Ring!SecondHalf
        <4>2. o.received >= Ring!middle_point
          BY <1>4, <1>5, <1>9, <3>0, <3>1 DEF Ring!HeldBack
        <4> QED
          BY <1>6, <3>0, <4>1, <4>2
      <3>2. CASE ~Ring!SecondHalf(a)
        <4>1. ~(o.stream_count <= Ring!middle_point)
          BY <1>5, <2>5, <3>2 DEF Ring!SecondHalf
        <4>2. Posts(o) < Ring!middle_point
          BY <1>4, <1>6, <3>0, <4>1
        <4>3. k <= 1
          BY <2>2, <3>2
        <4> QED
          BY <1>6, <2>2, <3>0, <4>2, <4>3
      <3> QED
        BY <3>1, <3>2
    <2> HIDE DEF k, count
    <2>6. /\ b \in RingObject
          /\ b.state = a.state /\ b.stream_count = a.stream_count - k
          /\ b.free_packets = a.free_packets - k
          /\ b.packets = SubSeq(a.packets, k + 1, Len(a.packets))
          /\ b.bundles = a.bundles /\ b.received = a.received
          /\ b.curr_receiver = a.curr_receiver /\ b.curr_sender = a.curr_sender
      <3>1. /\ a.stream_count - k \in Nat /\ a.free_packets - k \in Nat
            /\ a.packets \in Seq([dest : Ring!Rank, src : Ring!Rank])
        BY <1>5, <2>2 DEF RingObject
      <3>2. SubSeq(a.packets, k + 1, Len(a.packets)) \in Seq([dest : Ring!Rank, src : Ring!Rank])
        <4>1. \A X : \A p \in Seq(X) : \A i \in Nat : i <= Len(p) =>
                 SubSeq(p, i + 1, Len(p)) \in Seq(X)
          OBVIOUS
        <4> QED
          BY <2>2, <3>1, <4>1, Zenon
      <3>3. b \in RingObject
        BY <1>5, <2>3, <3>1, <3>2 DEF RingObject
      <3> QED
        BY <1>5, <2>3, <3>3 DEF RingObject
    <2>7. /\ Len(b.packets) = Len(o.packets) - k
          /\ \A j \in 1 .. Len(o.packets) - k : b.packets[j] = o.packets[k + j]
      <3>1. \A X : \A p \in Seq(X) : \A i \in Nat : i <= Len(p) =>
               /\ Len(SubSeq(p, i + 1, Len(p))) = Len(p) - i
               /\ \A j \in 1 .. Len(p) - i : SubSeq(p, i + 1, Len(p))[j] = p[i + j]
        OBVIOUS
      <3> QED
        BY <1>4, <1>5, <2>2, <2>6, <3>1
    <2>8. c = b \/ /\ c = [b EXCEPT !.state = "exited", !.packets = <<>>]
                   /\ b.stream_count = 0 /\ b.free_packets = Ring!parallel_reduce
      BY DEF Ring!iteratable
    <2> HIDE DEF c
    <2>9. SentFirst(o, c, k)
      <3>1. /\ b.stream_count = o.stream_count - k
            /\ b.free_packets + b.bundles = o.free_packets + o.bundles - k
            /\ k \in Nat /\ k <= Len(o.packets)
        BY <1>4, <1>5, <2>2, <2>6
      <3>2. CASE c = b
        BY <1>3, <1>5, <2>6, <2>7, <3>1, <3>2 DEF SentFirst
      <3>3. CASE /\ c = [b EXCEPT !.state = "exited", !.packets = <<>>]
                 /\ b.stream_count = 0 /\ b.free_packets = Ring!parallel_reduce
        <4>1. c \in RingObject
          <5>1. <<>> \in Seq([dest : Ring!Rank, src : Ring!Rank])
            OBVIOUS
          <5> QED
            BY <2>6, <3>3, <5>1 DEF RingObject
        <4>2. /\ c.state = "exited" /\ c.packets = <<>>
              /\ c.stream_count = b.stream_count /\ c.free_packets = b.free_packets
              /\ c.bundles = b.bundles /\ c.received = b.received
              /\ c.curr_receiver = b.curr_receiver /\ c.curr_sender = b.curr_sender
          BY <2>6, <3>3 DEF RingObject
        <4> QED
          BY <1>3, <1>5, <2>6, <3>1, <3>3, <4>1, <4>2 DEF SentFirst
      <3> QED
        BY <2>8, <3>2, <3>3
    <2>10. Posted(r, o, k, sends, sends', recvs, recvs')
      <3> DEFINE list == Ring!Sent(a, count)
      <3>1. Len(list) = k /\ \A i \in 1 .. k : list[i] = o.packets[i]
        <4>1. \A X : \A p \in Seq(X) : \A i \in Nat : i <= Len(p) =>
                 /\ Len(SubSeq(p, 1, i)) = i
                 /\ \A j \in 1 .. i : SubSeq(p, 1, i)[j] = p[j]
          OBVIOUS
        <4> QED
          BY <1>4, <1>5, <2>2, <2>4, <4>1
      <3> HIDE DEF list
      <3>2. ASSUME NEW q
            PROVE  /\ Cardinality({i \in 1 .. Len(list) : list[i].dest = q})
                         = Occurs(Dests(o, k), k, q)
                   /\ Cardinality({i \in 1 .. Len(list) : list[i].src = q})
                         = Occurs(Srcs(o, k), k, q)
                   /\ Occurs(Dests(o, k), k, q) \in Nat /\ Occurs(Srcs(o, k), k, q) \in Nat
        <4>1. /\ {i \in 1 .. Len(list) : list[i].dest = q}
                    = {i \in 1 .. k : Dests(o, k)[i] = q}
              /\ {i \in 1 .. Len(list) : list[i].src = q}
                    = {i \in 1 .. k : Srcs(o, k)[i] = q}
          BY <3>1 DEF Dests, Srcs
        <4>2. /\ Cardinality({i \in 1 .. k : Dests(o, k)[i] = q}) = Occurs(Dests(o, k), k, q)
              /\ Cardinality({i \in 1 .. k : Srcs(o, k)[i] = q}) = Occurs(Srcs(o, k), k, q)
          BY DEF Occurs
        <4>3. Occurs(Dests(o, k), k, q) \in Nat /\ Occurs(Srcs(o, k), k, q) \in Nat
          BY <2>2, OccursFacts
        <4> QED
          BY <4>1, <4>2, <4>3
      <3>3. /\ sends' = [p \in Ring!Pair |-> sends[p] +
                   IF p[1] = r THEN Cardinality({i \in 1 .. Len(list) : list[i].dest = p[2]})
                   ELSE 0]
            /\ recvs' = [p \in Ring!Pair |-> recvs[p] +
                   IF p[2] = r THEN Cardinality({i \in 1 .. Len(list) : list[i].src = p[1]})
                   ELSE 0]
        BY <1>9 DEF Ring!Post, Ring!Times, list, Ring!Cardinality, Cardinality
      <3>4. \A q, s \in Ring!Rank : /\ <<q, s>> \in Ring!Pair
                                    /\ sends[<<q, s>>] \in Nat /\ recvs[<<q, s>>] \in Nat
        BY <1>1 DEF Ring!Pair
      <3>5. \A x \in Nat : x + 0 = x
        OBVIOUS
      <3>6. ASSUME NEW q \in Ring!Rank, NEW s \in Ring!Rank
            PROVE  /\ sends'[<<s, q>>] = IF s = r THEN sends[<<s, q>>]
                                                      + Occurs(Dests(o, k), k, q)
                                         ELSE sends[<<s, q>>]
                   /\ recvs'[<<q, s>>] = IF s = r THEN recvs[<<q, s>>]
                                                      + Occurs(Srcs(o, k), k, q)
                                         ELSE recvs[<<q, s>>]
        <4>1. sends'[<<s, q>>] = sends[<<s, q>>] +
                 IF s = r THEN Cardinality({i \in 1 .. Len(list) : list[i].dest = q}) ELSE 0
          BY <3>3, <3>4
        <4>2. recvs'[<<q, s>>] = recvs[<<q, s>>] +
                 IF s = r THEN Cardinality({i \in 1 .. Len(list) : list[i].src = q}) ELSE 0
          BY <3>3, <3>4
        <4> QED
          BY <3>2, <3>4, <3>5, <4>1, <4>2
      <3>7. sends' \in [Ring!Pair -> Nat] /\ recvs' \in [Ring!Pair -> Nat]
        <4>1. /\ sends' = [p \in Ring!Pair |-> sends'[p]]
              /\ recvs' = [p \in Ring!Pair |-> recvs'[p]]
          BY <3>3
        <4>2. ASSUME NEW p \in Ring!Pair
              PROVE  sends'[p] \in Nat /\ recvs'[p] \in Nat
          <5>1. PICK q \in Ring!Rank, s \in Ring!Rank : p = <<q, s>>
            BY DEF Ring!Pair
          <5>0. \A x, y \in Nat : x + y \in Nat
            OBVIOUS
          <5>2. sends'[<<q, s>>] \in Nat
            <6>1. \/ sends'[<<q, s>>] = sends[<<q, s>>] + Occurs(Dests(o, k), k, s)
                  \/ sends'[<<q, s>>] = sends[<<q, s>>]
              BY <3>6
            <6>2. sends[<<q, s>>] \in Nat /\ Occurs(Dests(o, k), k, s) \in Nat
              BY <3>2, <3>4
            <6> QED
              BY <5>0, <6>1, <6>2, Zenon
          <5>3. recvs'[<<q, s>>] \in Nat
            <6>1. \/ recvs'[<<q, s>>] = recvs[<<q, s>>] + Occurs(Srcs(o, k), k, q)
                  \/ recvs'[<<q, s>>] = recvs[<<q, s>>]
              BY <3>6
            <6>2. recvs[<<q, s>>] \in Nat /\ Occurs(Srcs(o, k), k, q) \in Nat
              BY <3>2, <3>4
            <6> QED
              BY <5>0, <6>1, <6>2, Zenon
          <5> QED
            BY <5>1, <5>2, <5>3
        <4> QED
          BY <4>1, <4>2
      <3> QED
        BY <3>6, <3>7 DEF Posted
    <2> QED
      BY <1>9, <2>5, <2>9, <2>10 DEF o, c
  <1> QED
    BY <1>7, <1>8, <1>9

\* The invariant holds at first.
LEMMA RingInitially ==
    ASSUME Ring!Init
    PROVE  RingInv
  <1>1. /\ config \in RingConfig
        /\ sends = [p \in Ring!Pair |-> 0] /\ recvs = [p \in Ring!Pair |-> 0]
        /\ delivered = [p \in Ring!Pair |-> 0]
    BY DEF Ring!Init
  <1>2. RingNumbers
    BY <1>1, RingConstants
  <1>3. alg = [r \in Ring!Rank |->
                 [ state |-> "created", stream_count |-> Ring!stream_count,
                   free_packets |-> 0, packets |-> <<>>, bundles |-> 0,
                   curr_receiver |-> Ring!get_receiver(r),
                   curr_sender |-> Ring!get_sender(r), received |-> 0 ]]
    BY DEF Ring!Init
  <1>4. ASSUME NEW r \in Ring!Rank
        PROVE  /\ Ring!get_receiver(r) = Ahead(r, 1) /\ Ring!get_sender(r) = Back(r, 1)
               /\ Ahead(r, 1) \in Ring!Rank /\ Back(r, 1) \in Ring!Rank
               /\ Ahead(r, 1) # r /\ Back(r, 1) # r
    <2>1. 1 \in 0 .. config.nodes - 1
      BY <1>2 DEF RingNumbers
    <2>2. /\ Ring!get_receiver(r) = Ahead(r, 1) /\ Ring!get_sender(r) = Back(r, 1)
      BY <1>2, RingTurns
    <2>3. /\ Ahead(r, 1) \in Ring!Rank /\ Ahead(r, 1) # r /\ Back(r, 1) # r
          /\ \A i \in 0 .. config.nodes - 1 : Back(r, i) \in Ring!Rank
      BY <1>2, RingPlaces
    <2> QED
      BY <2>1, <2>2, <2>3
  <1>5. ASSUME NEW r \in Ring!Rank
        PROVE  /\ alg[r].state = "created" /\ alg[r].stream_count = Ring!stream_count
               /\ alg[r].free_packets = 0 /\ alg[r].packets = <<>> /\ alg[r].bundles = 0
               /\ alg[r].curr_receiver = Ahead(r, 1) /\ alg[r].curr_sender = Back(r, 1)
               /\ alg[r].received = 0 /\ alg[r] \in RingObject
    <2>1. /\ <<>> \in Seq([dest : Ring!Rank, src : Ring!Rank])
          /\ Ring!stream_count \in Nat
      BY <1>2 DEF RingNumbers
    <2>2. alg[r] = [ state |-> "created", stream_count |-> Ring!stream_count,
                     free_packets |-> 0, packets |-> <<>>, bundles |-> 0,
                     curr_receiver |-> Ahead(r, 1), curr_sender |-> Back(r, 1),
                     received |-> 0 ]
      BY <1>3, <1>4
    <2> QED
      BY <1>4, <2>1, <2>2 DEF RingObject
  <1>6. RingType(alg, sends, recvs, delivered)
    BY <1>1, <1>3, <1>5 DEF RingType
  <1>7. ASSUME NEW r \in Ring!Rank
        PROVE  RingRank(r, alg[r], sends, recvs, delivered)
    <2>1. Posts(alg[r]) = 0
      BY <1>2, <1>5 DEF Posts, RingNumbers
    <2>2. \A q \in Ring!Rank : <<q, r>> \in Ring!Pair /\ <<r, q>> \in Ring!Pair
      BY DEF Ring!Pair
    <2>3. /\ \A q \in Ring!Rank : recvs[<<q, r>>] = 0
          /\ \A q \in Ring!Rank : delivered[<<q, r>>] = 0
          /\ \A q \in Ring!Rank : sends[<<r, q>>] = 0
      BY <1>1, <2>2
    <2>4. RingIdle(alg[r])
      BY <1>5 DEF RingIdle
    <2>5. RingCounts(alg[r])
      BY <1>5, <2>1 DEF RingCounts
    <2>6. RingTotals(r, alg[r], sends, recvs, delivered)
      <3>1. /\ Ring!From(recvs, r) = {} /\ Ring!From(delivered, r) = {}
            /\ Ring!To(sends, r) = {}
        <4>1. /\ \A q \in Ring!Rank : 1 .. Col(recvs, r)[q] = {}
              /\ \A q \in Ring!Rank : 1 .. Col(delivered, r)[q] = {}
              /\ \A q \in Ring!Rank : 1 .. Row(sends, r)[q] = {}
          BY <2>3 DEF Col, Row
        <4>2. /\ Cells(Ring!Rank, Col(recvs, r)) = {}
              /\ Cells(Ring!Rank, Col(delivered, r)) = {}
              /\ Cells(Ring!Rank, Row(sends, r)) = {}
          BY <4>1, CellsMember
        <4> QED
          BY <4>2, FromToCells
      <3> QED
        BY <1>5, <2>1, <3>1, FS_EmptySet DEF RingTotals
    <2>7. PeersOf(r, alg[r])
      <3>1. 1 .. Len(alg[r].packets) = {} /\ Len(alg[r].packets) = 0
        BY <1>5
      <3> QED
        BY <1>4, <1>5, <2>1, <3>1 DEF PeersOf
    <2>8. RingPosted(r, alg[r], sends, recvs)
      <3>1. \A i \in 1 .. Ring!middle_point : Back(r, i) \in Ring!Rank
        BY <1>2, RingPlaces DEF RingNumbers
      <3>2. \A i \in 1 .. Ring!middle_point : ~(i <= 0)
        BY <1>2 DEF RingNumbers
      <3> QED
        BY <2>1, <2>3, <3>1, <3>2 DEF RingPosted
    <2>9. FirstHalfDone(r, alg[r], delivered)
      BY <1>2, <2>1 DEF FirstHalfDone, RingNumbers
    <2> QED
      BY <2>4, <2>5, <2>6, <2>7, <2>8, <2>9 DEF RingRank
  <1>8. RingMatched(sends, recvs, delivered)
    BY <1>1 DEF RingMatched
  <1>9. RingChain(alg)
    <2>1. \A r \in Ring!Rank : Posts(alg[r]) = 0
      BY <1>2, <1>5 DEF Posts, RingNumbers
    <2> QED
      BY <1>2, <2>1 DEF RingChain, RingNumbers
  <1> QED
    BY <1>6, <1>7, <1>8, <1>9 DEF RingInv, RingInvOf

\* A step moves one of the ranks, from created to running or from there on.
OneMoves(ranks) ==
    \E r \in ranks :
        /\ alg' = [alg EXCEPT ![r] = alg'[r]]
        /\ \/ alg[r].state = "created" /\ alg'[r].state = "running"
           \/ alg[r].state = "running" /\ alg'[r].state \in {"running", "exited"}

\* A step of Ring or AllToAll keeps it.
LEMMA RingStep ==
    ASSUME RingInv, Ring!Next
    PROVE  /\ config' = config /\ RingInvOf(alg', sends', recvs', delivered')
           /\ OneMoves(Ring!Rank)
  <1>1. PICK r \in Ring!Rank : \/ Ring!run_StreamInit(r)
                               \/ \E src \in Ring!Rank : Ring!run_PacketReceived(r, src)
                               \/ Ring!run_General(r)
    BY DEF Ring!Next
  <1>2. /\ RingNumbers /\ alg \in [Ring!Rank -> RingObject]
        /\ RingInvOf(alg, sends, recvs, delivered)
    BY RingConstants DEF RingInv, RingInvOf, RingType
  <1>3. CASE Ring!run_StreamInit(r)
    <2>1. alg[r].state = "created" /\ UNCHANGED <<config, sends, recvs, delivered>>
      BY <1>3 DEF Ring!run_StreamInit
    <2>2. RingIdle(alg[r]) /\ PeersOf(r, alg[r])
      BY <1>2 DEF RingInvOf, RingRank
    <2>3. PICK x : /\ alg' = [alg EXCEPT ![r] = x]
                   /\ JustStarted(r, x, Ring!parallel_reduce) /\ x.state = "running"
      BY <1>2, <1>3, <2>2, RingStart
    <2>4. RingInvOf([alg EXCEPT ![r] = x], sends, recvs, delivered)
      BY <1>2, <2>1, <2>3, RingStarts
    <2>5. OneMoves(Ring!Rank)
      BY <1>2, <2>1, <2>3 DEF OneMoves
    <2> QED
      BY <2>1, <2>3, <2>4, <2>5
  <1>4. ASSUME NEW src \in Ring!Rank, Ring!run_PacketReceived(r, src)
        PROVE  /\ config' = config /\ RingInvOf(alg', sends', recvs', delivered')
               /\ OneMoves(Ring!Rank)
    <2>1. /\ alg[r].state = "running"
          /\ delivered[<<src, r>>] < sends[<<src, r>>]
          /\ delivered[<<src, r>>] < recvs[<<src, r>>]
          /\ delivered' = [delivered EXCEPT ![<<src, r>>] = @ + 1]
          /\ UNCHANGED <<config, sends, recvs>>
      BY <1>4 DEF Ring!run_PacketReceived, Ring!CanReceive
    <2>3. alg' = [alg EXCEPT ![r] = Ring!insert_packet(
                                        [alg[r] EXCEPT !.received = @ + 1], r)]
      BY <1>4 DEF Ring!run_PacketReceived
    <2>2. RingInvOf([alg EXCEPT ![r] = Ring!insert_packet(
                                           [alg[r] EXCEPT !.received = @ + 1], r)],
                    sends, recvs, [delivered EXCEPT ![<<src, r>>] = @ + 1])
      BY <1>2, <2>1, RingReceives
    <2>4. Ring!insert_packet([alg[r] EXCEPT !.received = @ + 1], r).state = "running"
      <3>1. alg[r] \in RingObject /\ alg[r].received \in Nat
        BY <1>2 DEF RingObject
      <3> QED
        BY <2>1, <3>1 DEF Ring!insert_packet, RingObject
    <2>5. OneMoves(Ring!Rank)
      BY <1>2, <2>1, <2>3, <2>4 DEF OneMoves
    <2> QED
      BY <2>1, <2>2, <2>3, <2>5
  <1>5. CASE Ring!run_General(r)
    <2>1. UNCHANGED <<config, delivered>>
      BY <1>5 DEF Ring!run_General
    <2>2. PICK c, k :
             /\ alg' = [alg EXCEPT ![r] = c]
             /\ SentFirst(alg[r], c, k)
             /\ Posted(r, alg[r], k, sends, sends', recvs, recvs')
             /\ config.direct /\ config.type = "All_Reduce" /\ k >= 1 =>
                    \/ Posts(alg[r]) + k <= Ring!middle_point
                    \/ /\ Posts(alg[r]) = Ring!middle_point
                       /\ alg[r].received >= Ring!middle_point
                    \/ Posts(alg[r]) > Ring!middle_point
      BY <1>5, RingGeneral
    <2>3. RingInvOf([alg EXCEPT ![r] = c], sends', recvs', delivered)
      BY <1>2, <2>2, RingSends
    <2>4. OneMoves(Ring!Rank)
      BY <1>2, <2>2 DEF OneMoves, SentFirst
    <2> QED
      BY <2>1, <2>2, <2>3, <2>4
  <1> QED
    BY <1>1, <1>3, <1>4, <1>5

\* The invariant speaks of the configuration, which stays.
LEMMA RingPrime ==
    ASSUME config' = config, RingInvOf(alg', sends', recvs', delivered')
    PROVE  RingInv'
  <1>1. /\ Ring!Rank' = Ring!Rank /\ Ring!Pair' = Ring!Pair
        /\ RingObject' = RingObject /\ Ring!middle_point' = Ring!middle_point
        /\ Ring!stream_count' = Ring!stream_count
        /\ Ring!parallel_reduce' = Ring!parallel_reduce
    BY DEF Ring!Rank, Ring!Pair, RingObject, Ring!middle_point, Ring!stream_count,
           Ring!parallel_reduce
  <1>2. \A r, i : Back(r, i)' = Back(r, i) /\ Ahead(r, i)' = Ahead(r, i)
    BY DEF Back, Ahead
  <1>3. \A count, r : Ring!From(count, r)' = Ring!From(count, r)
                      /\ Ring!To(count, r)' = Ring!To(count, r)
    BY <1>1 DEF Ring!From, Ring!To
  <1>4. RingType(alg, sends, recvs, delivered)'
    BY <1>1 DEF RingInvOf, RingType
  <1>5. RingMatched(sends, recvs, delivered)'
    BY <1>1 DEF RingInvOf, RingMatched
  <1>6. RingChain(alg)'
    BY <1>1, <1>2 DEF RingInvOf, RingChain, Posts, Back
  <1>7. ASSUME NEW r \in Ring!Rank
        PROVE  RingRank(r, alg[r], sends, recvs, delivered)'
    <2> DEFINE a == alg'[r]
    <2>1. RingRank(r, a, sends', recvs', delivered')
      BY DEF RingInvOf
    <2>2. Posts(alg[r])' = Posts(a)
      BY <1>1 DEF Posts
    <2>3. RingIdle(alg[r])'
      BY <1>1, <2>1 DEF RingRank, RingIdle
    <2>4. RingCounts(alg[r])'
      BY <1>1, <2>1 DEF RingRank, RingCounts, Posts
    <2>5. RingTotals(r, alg[r], sends, recvs, delivered)'
      BY <1>1, <2>1 DEF RingRank, RingTotals, Posts, Ring!From, Ring!To
    <2>6. PeersOf(r, alg[r])'
      BY <1>1, <2>1 DEF RingRank, PeersOf, Posts, Back, Ahead
    <2>7. RingPosted(r, alg[r], sends, recvs)'
      BY <1>1, <2>1 DEF RingRank, RingPosted, Posts, Back, Ahead
    <2>8. FirstHalfDone(r, alg[r], delivered)'
      BY <1>1, <2>1 DEF RingRank, FirstHalfDone, Posts
    <2> QED
      BY <2>3, <2>4, <2>5, <2>6, <2>7, <2>8 DEF RingRank
  <1> QED
    BY <1>1, <1>4, <1>5, <1>6, <1>7 DEF RingInv, RingInvOf
-----------------------------------------------------------------------------
(***************************************************************************)
(* What follows from the invariant of Ring and AllToAll.                   *)
(***************************************************************************)

\* A rank that has left has received all it posted receives for.
LEMMA RingExits ==
    ASSUME RingInv
    PROVE  Ring!NothingOutstanding
  <1> SUFFICES ASSUME NEW r \in Ring!Rank, alg[r].state = "exited"
               PROVE  /\ alg[r].bundles = 0
                      /\ \A src \in Ring!Rank : delivered[<<src, r>>] = recvs[<<src, r>>]
    BY DEF Ring!NothingOutstanding
  <1>1. /\ RingNumbers /\ alg[r] \in RingObject /\ RingCounts(alg[r])
        /\ RingTotals(r, alg[r], sends, recvs, delivered)
        /\ RingMatched(sends, recvs, delivered)
        /\ recvs \in [Ring!Pair -> Nat] /\ delivered \in [Ring!Pair -> Nat]
    BY RingConstants DEF RingInv, RingInvOf, RingType, RingRank
  <1>2. \A q \in Ring!Rank : delivered[<<q, r>>] <= recvs[<<q, r>>]
    BY <1>1 DEF RingMatched, Ring!Pair
  <1>3. /\ Cardinality(Ring!From(delivered, r)) <= Cardinality(Ring!From(recvs, r))
        /\ Cardinality(Ring!From(delivered, r)) = Cardinality(Ring!From(recvs, r)) =>
              \A q \in Ring!Rank : delivered[<<q, r>>] = recvs[<<q, r>>]
    BY <1>1, <1>2, ReceivedPosted DEF RingTotals
  <1>4. /\ Posts(alg[r]) \in Nat /\ alg[r].received \in Nat /\ alg[r].bundles \in Nat
        /\ Ring!parallel_reduce \in Nat
    BY <1>1 DEF RingCounts, RingObject, RingNumbers
  <1>5. Ring!parallel_reduce + alg[r].bundles + Posts(alg[r])
          = Ring!parallel_reduce + alg[r].received
    BY <1>1 DEF RingCounts
  <1>6. alg[r].received <= Posts(alg[r])
    BY <1>1, <1>3 DEF RingTotals
  <1>7. alg[r].bundles = 0 /\ alg[r].received = Posts(alg[r])
    BY <1>4, <1>5, <1>6
  <1> QED
    BY <1>1, <1>3, <1>7 DEF RingTotals

\* A rank that runs has all its packets somewhere.
LEMMA RingAccounts ==
    ASSUME RingInv
    PROVE  Ring!PacketsConserved
  <1> SUFFICES ASSUME NEW r \in Ring!Rank, alg[r].state = "running"
               PROVE  /\ alg[r].free_packets + alg[r].bundles
                            + Cardinality(Ring!From(recvs, r) \ Ring!From(delivered, r))
                         = Ring!parallel_reduce
                      /\ sends[<<r, r>>] = 0
    BY RingCardinality DEF Ring!PacketsConserved
  <1>1. /\ RingNumbers /\ alg[r] \in RingObject /\ RingCounts(alg[r])
        /\ RingTotals(r, alg[r], sends, recvs, delivered)
        /\ RingMatched(sends, recvs, delivered)
        /\ RingPosted(r, alg[r], sends, recvs)
        /\ recvs \in [Ring!Pair -> Nat] /\ delivered \in [Ring!Pair -> Nat]
    BY RingConstants DEF RingInv, RingInvOf, RingType, RingRank
  <1>2. \A q \in Ring!Rank : delivered[<<q, r>>] <= recvs[<<q, r>>]
    BY <1>1 DEF RingMatched, Ring!Pair
  <1>3. Cardinality(Ring!From(recvs, r) \ Ring!From(delivered, r))
          = Posts(alg[r]) - alg[r].received
    BY <1>1, <1>2, ReceivedPosted DEF RingTotals
  <1>4. /\ Posts(alg[r]) \in Nat /\ alg[r].received \in Nat /\ alg[r].bundles \in Nat
        /\ alg[r].free_packets \in Nat /\ Ring!parallel_reduce \in Nat
    BY <1>1 DEF RingCounts, RingObject, RingNumbers
  <1>5. alg[r].free_packets + alg[r].bundles + Posts(alg[r])
          = Ring!parallel_reduce + alg[r].received
    BY <1>1 DEF RingCounts
  <1>6. alg[r].free_packets + alg[r].bundles + (Posts(alg[r]) - alg[r].received)
          = Ring!parallel_reduce
    BY <1>4, <1>5
  <1> QED
    BY <1>1, <1>3, <1>6 DEF RingPosted

\* What is sent after the first half is fully reduced.
LEMMA RingReduces ==
    ASSUME RingInv
    PROVE  Ring!ReducedBeforeGathered
  <1> SUFFICES ASSUME config.type = "All_Reduce", NEW r \in Ring!Rank,
                      Cardinality(Ring!To(sends, r)) > Ring!middle_point
               PROVE  IF config.direct
                      THEN \A src \in Ring!Rank \ {r} : delivered[<<src, r>>] >= 1
                      ELSE delivered[<<Ring!get_sender(r), r>>] >= Ring!middle_point
    BY RingCardinality DEF Ring!ReducedBeforeGathered
  <1>1. /\ RingNumbers /\ alg[r] \in RingObject /\ RingCounts(alg[r])
        /\ RingTotals(r, alg[r], sends, recvs, delivered)
        /\ FirstHalfDone(r, alg[r], delivered)
        /\ RingInvOf(alg, sends, recvs, delivered)
    BY RingConstants DEF RingInv, RingInvOf, RingType, RingRank
  <1>2. Posts(alg[r]) > Ring!middle_point
    BY <1>1 DEF RingTotals
  <1>3. CASE config.direct
    BY <1>1, <1>2, <1>3 DEF FirstHalfDone
  <1>4. CASE ~config.direct
    <2>1. delivered[<<Back(r, 1), r>>] = alg[r].received
      BY <1>1, <1>4, RingNeighbours
    <2>2. Ring!get_sender(r) = Back(r, 1)
      BY <1>1, RingTurns
    <2>3. /\ Posts(alg[r]) \in Nat /\ alg[r].received \in Nat
          /\ Len(alg[r].packets) \in Nat /\ Ring!middle_point \in Nat
          /\ Ring!parallel_reduce = 1
      <3>1. Posts(alg[r]) \in Nat
        BY <1>1 DEF RingCounts
      <3>2. alg[r].received \in Nat /\ Len(alg[r].packets) \in Nat
        BY <1>1 DEF RingObject
      <3>3. Ring!middle_point \in Nat /\ Ring!parallel_reduce = 1
        BY <1>1, <1>4 DEF RingNumbers
      <3> QED
        BY <3>1, <3>2, <3>3
    <2>4. Posts(alg[r]) + Len(alg[r].packets) <= 1 + alg[r].received
      <3>1. alg[r].state # "created"
        <4>1. alg[r].state = "created" => Posts(alg[r]) = 0
          BY <1>1 DEF RingInvOf, RingRank, RingIdle, Posts, RingNumbers
        <4> QED
          BY <1>2, <2>3, <4>1
      <3> QED
        BY <1>1, <2>3, <3>1 DEF RingCounts
    <2>5. alg[r].received >= Ring!middle_point
      BY <1>2, <2>3, <2>4
    <2> QED
      BY <1>4, <2>1, <2>2, <2>5
  <1> QED
    BY <1>3, <1>4

\* No rank leaves before all have started.
LEMMA RingBarrier ==
    ASSUME RingInv, NEW r \in Ring!Rank, alg[r].state = "exited"
    PROVE  \A q \in Ring!Rank : alg[q].state # "created"
  <1>1. /\ RingNumbers /\ alg[r] \in RingObject /\ RingCounts(alg[r])
        /\ RingPosted(r, alg[r], sends, recvs)
        /\ RingMatched(sends, recvs, delivered) /\ RingChain(alg)
        /\ sends \in [Ring!Pair -> Nat] /\ recvs \in [Ring!Pair -> Nat]
        /\ delivered \in [Ring!Pair -> Nat]
        /\ RingInvOf(alg, sends, recvs, delivered)
    BY RingConstants DEF RingInv, RingInvOf, RingType, RingRank
  <1>2. Posts(alg[r]) >= config.nodes - 1
    BY <1>1 DEF RingCounts, Posts, RingNumbers
  <1>3. \A src \in Ring!Rank : delivered[<<src, r>>] = recvs[<<src, r>>]
    BY RingExits DEF Ring!NothingOutstanding
  <1> SUFFICES ASSUME NEW q \in Ring!Rank \ {r}
               PROVE  alg[q].state # "created"
    OBVIOUS
  <1>4. PICK i \in 1 .. config.nodes - 1 : q = Back(r, i)
    BY <1>1, RingPlaces
  <1>5. config.nodes \in Nat /\ config.nodes >= 2
    BY <1>1 DEF RingNumbers
  <1>6. CASE config.direct
    <2>1. Posts(alg[r]) \in Nat
      BY <1>1 DEF RingCounts
    <2>2. i \in 1 .. Ring!middle_point /\ i <= Posts(alg[r])
      BY <1>1, <1>2, <1>5, <2>1 DEF RingNumbers
    <2>3. recvs[<<q, r>>] >= 1
      BY <1>1, <1>4, <1>6, <2>2 DEF RingPosted
    <2>4. /\ <<q, r>> \in Ring!Pair /\ delivered[<<q, r>>] <= sends[<<q, r>>]
          /\ sends[<<q, r>>] \in Nat /\ delivered[<<q, r>>] \in Nat
          /\ delivered[<<q, r>>] = recvs[<<q, r>>]
      BY <1>1, <1>3 DEF RingMatched, Ring!Pair
    <2>5. sends[<<q, r>>] >= 1
      BY <2>3, <2>4
    <2>6. RingTotals(q, alg[q], sends, recvs, delivered) /\ RingIdle(alg[q])
          /\ RingCounts(alg[q])
      BY <1>1 DEF RingInvOf, RingRank
    <2>7. Row(sends, q) \in [Ring!Rank -> Nat] /\ Row(sends, q)[r] = sends[<<q, r>>]
      BY <1>1 DEF Row, Ring!Pair
    <2>8. /\ IsFiniteSet(Cells(Ring!Rank, Row(sends, q)))
          /\ Cardinality(Cells(Ring!Rank, Row(sends, q))) = Posts(alg[q])
      BY <2>6, FromToCells DEF RingTotals
    <2>9. Posts(alg[q]) >= sends[<<q, r>>] /\ Posts(alg[q]) \in Nat
      BY <2>6, <2>7, <2>8, CellsOf DEF RingCounts
    <2>10. Posts(alg[q]) >= 1
      BY <2>4, <2>5, <2>9
    <2>11. alg[q].state = "created" => Posts(alg[q]) = 0
      BY <1>1, <2>6 DEF RingIdle, Posts, RingNumbers
    <2> QED
      BY <2>10, <2>11
  <1>7. CASE ~config.direct
    <2> DEFINE p == Back(r, 1)
    <2>1. p \in Ring!Rank /\ alg[r].received <= Posts(alg[p])
      BY <1>1, <1>7, RingNeighbours
    <2>2. Posts(alg[p]) \in Nat /\ alg[r].received \in Nat /\ alg[r].bundles \in Nat
      BY <1>1, <2>1 DEF RingInvOf, RingRank, RingCounts, RingObject
    <2>3. alg[r].received >= Posts(alg[r]) /\ Posts(alg[r]) \in Nat
      <3>1. /\ Ring!parallel_reduce + alg[r].bundles + Posts(alg[r])
                 = Ring!parallel_reduce + alg[r].received
            /\ Posts(alg[r]) \in Nat /\ Ring!parallel_reduce \in Nat
        BY <1>1 DEF RingCounts, RingNumbers
      <3> QED
        BY <2>2, <3>1
    <2>4. Posts(alg[p]) > i - 1 /\ i - 1 \in 0 .. config.nodes - 1
      BY <1>2, <1>5, <2>1, <2>2, <2>3
    <2>5. alg[Back(p, i - 1)].state # "created"
      BY <1>1, <1>7, <2>1, <2>4 DEF RingChain
    <2>6. Back(p, i - 1) = q
      BY <1>1, <1>4, RingPlaces
    <2> QED
      BY <2>5, <2>6
  <1> QED
    BY <1>6, <1>7

-----------------------------------------------------------------------------
(***************************************************************************)
(* HalvingDoubling.  There are 2^Log ranks.  In round i a rank meets the   *)
(* rank at distance 2^Exponent(i), one for every exponent below Log, and   *)
(* an all-reduce meets them again in the opposite order.                   *)
(***************************************************************************)
Log == Halving!log2(config.nodes)

HalvingRounds == IF config.type = "All_Reduce" THEN 2 * Log ELSE Log

Exponent(i) ==
    IF config.type = "All_Gather" THEN Log - i
    ELSE IF i <= Log THEN i - 1 ELSE 2 * Log - i

Partner(r, i) == Halving!Peer(r, 2^Exponent(i))

\* The ranks whose data rank r has after i rounds.
Gathered(r, i) ==
    IF i >= Log THEN Halving!Rank
    ELSE IF config.type = "All_Gather"
    THEN {q \in Halving!Rank : q % 2^(Log - i) = r % 2^(Log - i)}
    ELSE {q \in Halving!Rank : q \div 2^i = r \div 2^i}

HalvingObject ==
    [ state         : {"created", "running", "exited"},
      stream_count  : Nat,
      rank_offset   : Nat,
      doubling      : BOOLEAN,
      msg_size      : Nat,
      peer          : Halving!Rank,
      zero_latency_packets     : Nat,
      non_zero_latency_packets : Nat,
      free_packets  : Nat,
      packets       : Seq([peer : Halving!Rank, size : Nat]),
      bundles       : Nat ]

HalvingType(A, S, R, D, H) ==
    /\ config \in HalvingConfig
    /\ A \in [Halving!Rank -> HalvingObject]
    /\ S \in [Halving!Pair -> Seq([size : Nat, data : SUBSET Halving!Rank])]
    /\ R \in [Halving!Pair -> Seq(Nat)]
    /\ D \in [Halving!Pair -> Nat]
    /\ H \in [Halving!Rank -> SUBSET Halving!Rank]

\* The rounds in which an object has sent, and those in which it has received.
SentRounds(a) == HalvingRounds - a.stream_count

ReceivedRounds(a) ==
    IF a.state = "created" THEN 0
    ELSE SentRounds(a) + a.free_packets + a.bundles - 1

\* An object has one packet: on the bus, or given up for a receive to come.
OnePacket(a) ==
    /\ SentRounds(a) \in Nat
    /\ a.state = "created" =>
          /\ SentRounds(a) = 0 /\ a.free_packets = 0
          /\ a.bundles = 0 /\ a.packets = <<>>
    /\ a.state = "running" =>
          /\ a.free_packets = 0
          /\ \/ a.bundles = 1 /\ Len(a.packets) = 1
             \/ a.bundles = 0 /\ a.packets = <<>> /\ SentRounds(a) >= 1
    /\ a.state = "exited" =>
          /\ a.stream_count = 0 /\ a.free_packets = 1
          /\ a.bundles = 0 /\ a.packets = <<>>

\* The packet on the bus is for the round that comes, and what insert_packet will
\* take for the next packet, after k of them, for the round after that.
Chosen(r, a, k) ==
    k < HalvingRounds =>
        /\ a.rank_offset = 2^Exponent(k + 1)
        /\ a.doubling = (config.type # "All_Gather" /\ k < Log)
        /\ a.peer = Partner(r, k + 1)

RightPeers(r, a) ==
    /\ a.packets # <<>> /\ SentRounds(a) < HalvingRounds =>
          a.packets[1].peer = Partner(r, SentRounds(a) + 1)
    /\ Chosen(r, a, IF a.state = "created" THEN 0 ELSE ReceivedRounds(a) + 1)

\* How often k rounds meet the rank that round i <= Log meets.
Meetings(i, k) ==
    (IF k >= i THEN 1 ELSE 0)
    + (IF config.type = "All_Reduce" /\ k >= 2 * Log + 1 - i THEN 1 ELSE 0)

Exchanged(r, a, S, R, D) ==
    /\ \A i \in 1 .. Log : LET q == Partner(r, i) IN
          /\ Len(S[<<r, q>>]) = Meetings(i, SentRounds(a))
          /\ Len(R[<<q, r>>]) = Meetings(i, SentRounds(a))
          /\ D[<<q, r>>] = Meetings(i, ReceivedRounds(a))
          /\ S[<<r, q>>] # <<>> => S[<<r, q>>][1].data = Gathered(r, i - 1)
    /\ \A q \in Halving!Rank : (\A i \in 1 .. Log : q # Partner(r, i)) =>
          S[<<r, q>>] = <<>> /\ R[<<q, r>>] = <<>> /\ D[<<q, r>>] = 0

HalvingRank(r, a, S, R, D, H) ==
    /\ OnePacket(a)
    /\ RightPeers(r, a)
    /\ Exchanged(r, a, S, R, D)
    /\ H[r] = Gathered(r, ReceivedRounds(a))

\* Data comes from ranks that have started.
DataStarted(A, S, H) ==
    /\ \A r \in Halving!Rank : \A q \in H[r] : q = r \/ A[q].state # "created"
    /\ \A p \in Halving!Pair : \A j \in 1 .. Len(S[p]) :
          \A q \in S[p][j].data : A[q].state # "created"

HalvingInvOf(A, S, R, D, H) ==
    /\ HalvingType(A, S, R, D, H)
    /\ \A r \in Halving!Rank : HalvingRank(r, A[r], S, R, D, H)
    /\ DataStarted(A, S, H)

HalvingInv == HalvingInvOf(alg, sends, recvs, delivered, holds)

-----------------------------------------------------------------------------
(***************************************************************************)
(* Arithmetic for HalvingDoubling.                                         *)
(***************************************************************************)

\* Quotient and remainder are unique.
LEMMA DivMod ==
    ASSUME NEW o \in Nat \ {0}, NEW q \in Nat, NEW t \in 0 .. o - 1, NEW x \in Nat,
           x = o * q + t
    PROVE  x \div o = q /\ x % o = t
  <1>1. x = o * (x \div o) + (x % o) /\ x % o \in 0 .. o - 1 /\ x \div o \in Nat
    OBVIOUS
  <1>2. PICK q2 \in Nat, t2 \in 0 .. o - 1 : q2 = x \div o /\ t2 = x % o
    BY <1>1
  <1>3. o * q + t = o * q2 + t2
    BY <1>1, <1>2
  <1>4. CASE q < q2
    <2>1. PICK d \in Nat : q2 = q + 1 + d
      <3>1. q2 - q - 1 \in Nat /\ q2 = q + 1 + (q2 - q - 1)
        BY <1>4
      <3> QED
        BY <3>1
    <2>2. o * q2 = o * q + o + o * d /\ o * d \in Nat
      BY <2>1
    <2> QED
      BY <1>3, <2>2
  <1>5. CASE q2 < q
    <2>1. PICK d \in Nat : q = q2 + 1 + d
      <3>1. q - q2 - 1 \in Nat /\ q = q2 + 1 + (q - q2 - 1)
        BY <1>5
      <3> QED
        BY <3>1
    <2>2. o * q = o * q2 + o + o * d /\ o * d \in Nat
      BY <2>1
    <2> QED
      BY <1>3, <2>2
  <1>6. CASE q = q2
    BY <1>2, <1>3, <1>6
  <1> QED
    BY <1>2, <1>4, <1>5, <1>6


\* The powers of two up to 2^10.
LEMMA Powers ==
    /\ \A i \in 0 .. 10 : 2^i \in Nat \ {0}
    /\ 2^0 = 1
    /\ \A i \in 0 .. 9 : 2^(i + 1) = 2 * 2^i
    /\ \A i, j \in 0 .. 10 : i < j => 2^i < 2^j
    /\ \A i, j \in 0 .. 10 : i < j => \E m \in Nat \ {0} : 2^j = (2 * 2^i) * m
  <1> DEFINE P(i) == 2^i
  <1>1. \A i \in 0 .. 10 :
           \/ (i = 0 /\ P(i) = 1) \/ (i = 1 /\ P(i) = 2) \/ (i = 2 /\ P(i) = 4)
           \/ (i = 3 /\ P(i) = 8) \/ (i = 4 /\ P(i) = 16) \/ (i = 5 /\ P(i) = 32)
           \/ (i = 6 /\ P(i) = 64) \/ (i = 7 /\ P(i) = 128) \/ (i = 8 /\ P(i) = 256)
           \/ (i = 9 /\ P(i) = 512) \/ (i = 10 /\ P(i) = 1024)
    <2>1. TAKE i \in 0 .. 10
    <2>c0. CASE i = 0
      <3>1. 2^0 = 1
        OBVIOUS
      <3> QED
        BY <2>c0, <3>1
    <2>c1. CASE i = 1
      <3>1. 2^1 = 2
        OBVIOUS
      <3> QED
        BY <2>c1, <3>1
    <2>c2. CASE i = 2
      <3>1. 2^2 = 4
        OBVIOUS
      <3> QED
        BY <2>c2, <3>1
    <2>c3. CASE i = 3
      <3>1. 2^3 = 8
        OBVIOUS
      <3> QED
        BY <2>c3, <3>1
    <2>c4. CASE i = 4
      <3>1. 2^4 = 16
        OBVIOUS
      <3> QED
        BY <2>c4, <3>1
    <2>c5. CASE i = 5
      <3>1. 2^5 = 32
        OBVIOUS
      <3> QED
        BY <2>c5, <3>1
    <2>c6. CASE i = 6
      <3>1. 2^6 = 64
        OBVIOUS
      <3> QED
        BY <2>c6, <3>1
    <2>c7. CASE i = 7
      <3>1. 2^7 = 128
        OBVIOUS
      <3> QED
        BY <2>c7, <3>1
    <2>c8. CASE i = 8
      <3>1. 2^8 = 256
        OBVIOUS
      <3> QED
        BY <2>c8, <3>1
    <2>c9. CASE i = 9
      <3>1. 2^9 = 512
        OBVIOUS
      <3> QED
        BY <2>c9, <3>1
    <2>c10. CASE i = 10
      <3>1. 2^10 = 1024
        OBVIOUS
      <3> QED
        BY <2>c10, <3>1
    <2> HIDE DEF P
    <2> QED
      BY <2>c0, <2>c1, <2>c2, <2>c3, <2>c4, <2>c5, <2>c6, <2>c7, <2>c8, <2>c9, <2>c10
  <1> HIDE DEF P
  <1>2. \A i \in 0 .. 10 : P(i) \in Nat \ {0}
    BY <1>1
  <1>3. P(0) = 1
    BY <1>1
  <1>4. \A i \in 0 .. 9 : P(i + 1) = 2 * P(i)
    BY <1>1
  <1>5. \A i, j \in 0 .. 10 : i < j => P(i) < P(j)
    BY <1>1
  <1>6. \A i, j \in 0 .. 10 : i < j =>
            P(j) \in {(2 * P(i)) * m : m \in {1, 2, 4, 8, 16, 32, 64, 128, 256, 512}}
    <2> SUFFICES ASSUME NEW i \in 0 .. 10, NEW j \in 0 .. 10, i < j
                 PROVE  \E m \in {1, 2, 4, 8, 16, 32, 64, 128, 256, 512} :
                            P(j) = (2 * P(i)) * m
      OBVIOUS
    <2> QED
      BY <1>1
  <1> QED
    BY <1>2, <1>3, <1>4, <1>5, <1>6 DEF P
\* Division by 2 * o goes through division by o.
LEMMA Halves ==
    ASSUME NEW o \in Nat \ {0}, NEW x \in Nat
    PROVE  /\ x \div o \in Nat /\ x % o \in 0 .. o - 1
           /\ x \div (2 * o) = (x \div o) \div 2
           /\ x % (2 * o) = (IF (x \div o) % 2 = 0 THEN 0 ELSE o) + (x % o)
  <1>1. PICK q \in Nat, t \in 0 .. o - 1 : q = x \div o /\ t = x % o /\ x = o * q + t
    <2>1. x = o * (x \div o) + (x % o) /\ x % o \in 0 .. o - 1 /\ x \div o \in Nat
      OBVIOUS
    <2> QED
      BY <2>1
  <1>2. PICK z \in Nat, e \in {0, 1} : q = 2 * z + e /\ z = q \div 2 /\ e = q % 2
    <2>1. q = 2 * (q \div 2) + (q % 2) /\ q \div 2 \in Nat /\ q % 2 \in {0, 1}
      OBVIOUS
    <2> QED
      BY <2>1
  <1>3. x = (2 * o) * z + ((IF e = 0 THEN 0 ELSE o) + t)
    <2>1. o * (2 * z + e) = (2 * o) * z + o * e
      BY <1>2
    <2>2. o * e = IF e = 0 THEN 0 ELSE o
      BY <1>2
    <2>3. o * q \in Nat /\ (2 * o) * z \in Nat
      OBVIOUS
    <2> QED
      BY <1>1, <1>2, <2>1, <2>2, <2>3
  <1>4. 2 * o \in Nat \ {0} /\ (IF e = 0 THEN 0 ELSE o) + t \in 0 .. 2 * o - 1
    BY <1>1, <1>2
  <1>5. x \div (2 * o) = z /\ x % (2 * o) = (IF e = 0 THEN 0 ELSE o) + t
    <2>0. PICK o2 \in Nat \ {0} : o2 = 2 * o
      BY <1>4
    <2>1. PICK t2 \in 0 .. o2 - 1 : t2 = (IF e = 0 THEN 0 ELSE o) + t
      BY <1>4, <2>0
    <2>2. x = o2 * z + t2
      BY <1>3, <2>0, <2>1
    <2>3. x \div o2 = z /\ x % o2 = t2
      BY <2>2, DivMod
    <2> QED
      BY <2>0, <2>1, <2>3
  <1> QED
    BY <1>1, <1>2, <1>5

\* The rank at distance o, in the direction that the bit of o gives, is the rank
\* with that bit flipped.
LEMMA Flips ==
    ASSUME NEW o \in Nat \ {0}, NEW m \in Nat \ {0}, config.nodes = (2 * o) * m,
           NEW r \in 0 .. config.nodes - 1
    PROVE  /\ Halving!Peer(r, o) \in 0 .. config.nodes - 1
           /\ Halving!Peer(r, o) = IF (r \div o) % 2 = 0 THEN r + o ELSE r - o
           /\ Halving!Peer(r, o) \div o
                = IF (r \div o) % 2 = 0 THEN (r \div o) + 1 ELSE (r \div o) - 1
           /\ Halving!Peer(r, o) % o = r % o
  <1>0. config.nodes \in Nat \ {0} /\ r \in Nat
    <2>1. (2 * o) * m \in Nat
      OBVIOUS
    <2> QED
      BY <2>1
  <1>1. PICK q \in Nat, t \in 0 .. o - 1 : q = r \div o /\ t = r % o /\ r = o * q + t
    <2>1. r = o * (r \div o) + (r % o) /\ r % o \in 0 .. o - 1 /\ r \div o \in Nat
      BY <1>0
    <2> QED
      BY <2>1
  <1>2. PICK z \in Nat, e \in {0, 1} : q = 2 * z + e /\ e = q % 2
    <2>1. q = 2 * (q \div 2) + (q % 2) /\ q \div 2 \in Nat /\ q % 2 \in {0, 1}
      OBVIOUS
    <2> QED
      BY <2>1
  <1>3. PICK w \in Nat : w = o * z
    OBVIOUS
  <1>4. r = 2 * w + (IF e = 0 THEN 0 ELSE o) + t
    <2>1. o * (2 * z + e) = 2 * (o * z) + o * e
      BY <1>2
    <2>2. o * e = IF e = 0 THEN 0 ELSE o
      BY <1>2
    <2> QED
      BY <1>1, <1>2, <1>3, <2>1, <2>2
  <1>5. 2 * w + 2 * o <= config.nodes
    <2>1. CASE z < m
      <3>1. PICK d \in Nat : m = z + 1 + d
        <4>1. m - z - 1 \in Nat /\ m = z + 1 + (m - z - 1)
          BY <2>1
        <4> QED
          BY <4>1
      <3>2. (2 * o) * m = 2 * (o * z) + 2 * o + 2 * (o * d) /\ o * d \in Nat
        BY <3>1
      <3> QED
        BY <1>0, <1>3, <3>2
    <2>2. CASE z >= m
      <3>1. PICK d \in Nat : z = m + d
        <4>1. z - m \in Nat /\ z = m + (z - m)
          BY <2>2
        <4> QED
          BY <4>1
      <3>2. 2 * (o * z) = (2 * o) * m + 2 * (o * d) /\ o * d \in Nat
        BY <3>1
      <3> QED
        BY <1>0, <1>1, <1>3, <1>4, <3>2
    <2> QED
      BY <2>1, <2>2
  <1>6. PICK p \in Nat : p = 2 * w + (IF e = 0 THEN o ELSE 0) + t
    OBVIOUS
  <1>7. p \in 0 .. config.nodes - 1
    BY <1>0, <1>5, <1>6
  <1>8. p = r + Halving!specify_direction(r, o) * o
    <2>1. Halving!specify_direction(r, o) = IF e = 0 THEN 1 ELSE -1
      BY <1>1, <1>2 DEF Halving!specify_direction
    <2> QED
      BY <1>0, <1>4, <1>6, <2>1
  <1>9. Halving!Peer(r, o) = p
    <2>1. p % config.nodes = p
      <3>1. p = config.nodes * 0 + p
        BY <1>0
      <3> QED
        BY <1>0, <1>7, <3>1, DivMod
    <2> QED
      BY <1>8, <2>1 DEF Halving!Peer
  <1>10. p \div o = 2 * z + (1 - e) /\ p % o = t
    <2>1. o * (2 * z + (1 - e)) = 2 * (o * z) + o * (1 - e)
      BY <1>2
    <2>2. o * (1 - e) = IF e = 0 THEN o ELSE 0
      BY <1>2
    <2>3. p = o * (2 * z + (1 - e)) + t
      BY <1>3, <1>6, <2>1, <2>2
    <2>4. PICK v \in Nat : v = 2 * z + (1 - e)
      BY <1>2
    <2>5. p = o * v + t
      BY <2>3, <2>4
    <2>6. p \div o = v /\ p % o = t
      BY <2>5, DivMod
    <2> QED
      BY <2>4, <2>6
  <1>11. r \div o = q /\ r % o = t /\ (e = 0 <=> q % 2 = 0)
    BY <1>1, <1>2
  <1>12. /\ p = IF q % 2 = 0 THEN r + o ELSE r - o
         /\ p \div o = IF q % 2 = 0 THEN q + 1 ELSE q - 1
    BY <1>0, <1>2, <1>4, <1>6, <1>10, <1>11
  <1> QED
    BY <1>7, <1>9, <1>10, <1>11, <1>12

-----------------------------------------------------------------------------
(***************************************************************************)
(* The rounds of HalvingDoubling.                                          *)
(***************************************************************************)
HalvingNumbers ==
    /\ Log \in 1 .. 10
    /\ config.nodes = 2^Log /\ config.nodes \in Nat \ {0}
    /\ config.type \in Halving!ComType
    /\ config.data_size \in Nat
    /\ HalvingRounds \in Nat
    /\ config.type = "All_Reduce" => HalvingRounds = 2 * Log
    /\ config.type # "All_Reduce" => HalvingRounds = Log

\* The sizes are powers of two that log2 knows.
LEMMA HalvingConstants ==
    ASSUME config \in HalvingConfig
    PROVE  HalvingNumbers
  <1>1. /\ \E k \in 1 .. 10 : config.nodes = 2^k
        /\ config.type \in Halving!ComType
        /\ config.data_size \in Nat
    BY ConfigAssumption DEF Halving!ConfigAssumption
  <1>2. PICK k \in 1 .. 10 : config.nodes = 2^k
    BY <1>1
  <1>3. k \in 0 .. 10 /\ 0 \in 0 .. 10 /\ 0 < k
    OBVIOUS
  <1>4. /\ Log \in 0 .. 10 /\ config.nodes = 2^Log
    BY <1>2, <1>3 DEF Log, Halving!log2
  <1>5. 2^0 < 2^k
    BY <1>3, Powers
  <1>6. Log # 0
    <2>1. 2^0 = 1
      BY Powers
    <2>2. Log = 0 => 2^k = 2^0
      BY <1>2, <1>4
    <2>3. 2^k # 1
      BY <1>5, <2>1
    <2> QED
      BY <2>1, <2>2, <2>3
  <1>7. Log \in 1 .. 10
    BY <1>4, <1>6
  <1>8. config.nodes \in Nat \ {0}
    BY <1>4, Powers
  <1>9. /\ HalvingRounds \in Nat
        /\ config.type = "All_Reduce" => HalvingRounds = 2 * Log
        /\ config.type # "All_Reduce" => HalvingRounds = Log
    BY <1>7 DEF HalvingRounds
  <1> QED
    BY <1>1, <1>4, <1>7, <1>8, <1>9 DEF HalvingNumbers

\* The exponents of the rounds.
LEMMA Exponents ==
    ASSUME HalvingNumbers
    PROVE  /\ \A i \in 1 .. HalvingRounds : Exponent(i) \in 0 .. Log - 1
           /\ \A i, j \in 1 .. Log : i # j => Exponent(i) # Exponent(j)
           /\ config.type = "All_Reduce" =>
                 \A i \in Log + 1 .. HalvingRounds :
                     /\ 2 * Log + 1 - i \in 1 .. Log
                     /\ Exponent(i) = Exponent(2 * Log + 1 - i)
  <1>1. /\ Log \in Nat
        /\ config.type = "All_Reduce" => HalvingRounds = 2 * Log
        /\ config.type # "All_Reduce" => HalvingRounds = Log
    BY DEF HalvingNumbers
  <1> QED
    BY <1>1 DEF Exponent

\* Below 2^Log every power of two divides it, so that a peer is a bit flipped.
LEMMA PeerIsFlip ==
    ASSUME HalvingNumbers, NEW e \in 0 .. Log - 1, NEW r \in Halving!Rank
    PROVE  LET o == 2^e
               p == Halving!Peer(r, o)
           IN  /\ o \in Nat \ {0}
               /\ p \in Halving!Rank
               /\ r \in Nat /\ p \in Nat
               /\ r \div o \in Nat
               /\ p = IF (r \div o) % 2 = 0 THEN r + o ELSE r - o
               /\ p \div o = IF (r \div o) % 2 = 0 THEN (r \div o) + 1 ELSE (r \div o) - 1
               /\ p % o = r % o
  <1>1. Log \in 0 .. 10 /\ e \in 0 .. 10 /\ e < Log /\ config.nodes = 2^Log
    BY DEF HalvingNumbers
  <1>2. 2^e \in Nat \ {0} /\ \E m \in Nat \ {0} : 2^Log = (2 * 2^e) * m
    BY <1>1, Powers
  <1>3. PICK o \in Nat \ {0} : o = 2^e
    BY <1>2
  <1>4. PICK m \in Nat \ {0} : config.nodes = (2 * o) * m
    BY <1>1, <1>2, <1>3
  <1>5. r \in 0 .. config.nodes - 1 /\ r \in Nat /\ config.nodes \in Nat
    BY DEF Halving!Rank, HalvingNumbers
  <1>6. /\ Halving!Peer(r, o) \in 0 .. config.nodes - 1
        /\ Halving!Peer(r, o) = IF (r \div o) % 2 = 0 THEN r + o ELSE r - o
        /\ Halving!Peer(r, o) \div o
             = IF (r \div o) % 2 = 0 THEN (r \div o) + 1 ELSE (r \div o) - 1
        /\ Halving!Peer(r, o) % o = r % o
    BY <1>4, <1>5, Flips
  <1>7. r \div o \in Nat
    BY <1>5, Halves
  <1> QED
    BY <1>3, <1>5, <1>6, <1>7 DEF Halving!Rank

\* Peers choose each other, and other peers in other rounds.
LEMMA Partners ==
    ASSUME HalvingNumbers, NEW r \in Halving!Rank
    PROVE  /\ \A i \in 1 .. HalvingRounds :
                 /\ Partner(r, i) \in Halving!Rank /\ Partner(r, i) # r
                 /\ Partner(Partner(r, i), i) = r
           /\ \A i, j \in 1 .. Log : i # j => Partner(r, i) # Partner(r, j)
           /\ config.type = "All_Reduce" =>
                 \A i \in Log + 1 .. HalvingRounds :
                     /\ 2 * Log + 1 - i \in 1 .. Log
                     /\ Partner(r, i) = Partner(r, 2 * Log + 1 - i)
  <1>1. ASSUME NEW i \in 1 .. HalvingRounds
        PROVE  /\ Partner(r, i) \in Halving!Rank /\ Partner(r, i) # r
               /\ Partner(Partner(r, i), i) = r
    <2>1. PICK e \in 0 .. Log - 1 : e = Exponent(i)
      BY Exponents
    <2>2. PICK p \in Halving!Rank : p = Halving!Peer(r, 2^e)
      BY PeerIsFlip
    <2>3. PICK o \in Nat \ {0} : o = 2^e
      BY PeerIsFlip
    <2>4. PICK b \in Nat : b = r \div o
      BY <2>3, PeerIsFlip
    <2>5. /\ r \in Nat /\ p \in Nat
          /\ p = IF b % 2 = 0 THEN r + o ELSE r - o
          /\ p \div o = IF b % 2 = 0 THEN b + 1 ELSE b - 1
      BY <2>2, <2>3, <2>4, PeerIsFlip
    <2>6. Halving!Peer(p, o) = IF (p \div o) % 2 = 0 THEN p + o ELSE p - o
      BY <2>3, PeerIsFlip
    <2>7. b % 2 \in {0, 1} /\ (b + 1) % 2 = 1 - (b % 2) /\ (b - 1) % 2 = 1 - (b % 2)
      OBVIOUS
    <2>8. Halving!Peer(p, o) = r /\ p # r
      <3>1. CASE b % 2 = 0
        BY <2>5, <2>6, <2>7, <3>1
      <3>2. CASE b % 2 = 1
        BY <2>5, <2>6, <2>7, <3>2
      <3> QED
        BY <2>7, <3>1, <3>2
    <2> QED
      BY <2>1, <2>2, <2>3, <2>8 DEF Partner
  <1>2. ASSUME NEW i \in 1 .. Log, NEW j \in 1 .. Log, i # j
        PROVE  Partner(r, i) # Partner(r, j)
    <2>1. i \in 1 .. HalvingRounds /\ j \in 1 .. HalvingRounds
      BY DEF HalvingNumbers
    <2>2. /\ Exponent(i) \in 0 .. Log - 1 /\ Exponent(j) \in 0 .. Log - 1
          /\ Exponent(i) # Exponent(j)
      BY <1>2, <2>1, Exponents
    <2>3. PICK e \in 0 .. 10, f \in 0 .. 10 : e = Exponent(i) /\ f = Exponent(j)
      BY <2>2 DEF HalvingNumbers
    <2>4. PICK o \in Nat \ {0}, u \in Nat \ {0} : o = 2^e /\ u = 2^f
      BY <2>3, Powers
    <2>5. o # u
      <3>1. e < f \/ f < e
        BY <2>2, <2>3
      <3>2. e < f => 2^e < 2^f
        BY Powers
      <3>3. f < e => 2^f < 2^e
        BY Powers
      <3> QED
        BY <2>4, <3>1, <3>2, <3>3
    <2>6. /\ r \in Nat
          /\ (Halving!Peer(r, o) = r + o \/ Halving!Peer(r, o) = r - o)
          /\ (Halving!Peer(r, u) = r + u \/ Halving!Peer(r, u) = r - u)
      BY <2>2, <2>3, <2>4, PeerIsFlip
    <2>7. Halving!Peer(r, o) # Halving!Peer(r, u)
      BY <2>5, <2>6
    <2> QED
      BY <2>3, <2>4, <2>7 DEF Partner
  <1> QED
    BY <1>1, <1>2, Exponents DEF Partner

\* A round joins what the two partners have.
LEMMA GatheredGrows ==
    ASSUME HalvingNumbers, NEW r \in Halving!Rank
    PROVE  /\ Gathered(r, 0) = {r}
           /\ \A i \in 1 .. Log :
                 Gathered(r, i) = Gathered(r, i - 1) \cup Gathered(Partner(r, i), i - 1)
           /\ \A i : i >= Log => Gathered(r, i) = Halving!Rank
           /\ \A i : Gathered(r, i) \subseteq Halving!Rank
  <1> DEFINE Same(q, x, i) == IF config.type = "All_Gather"
                              THEN q % 2^(Log - i) = x % 2^(Log - i)
                              ELSE q \div 2^i = x \div 2^i
  <1>0. /\ Log \in 1 .. 10 /\ Log \in Nat /\ config.nodes = 2^Log
        /\ config.nodes \in Nat \ {0} /\ Halving!Rank = 0 .. config.nodes - 1
    BY DEF HalvingNumbers, Halving!Rank
  <1>1. \A q \in Halving!Rank : /\ q \div config.nodes = 0 /\ q % config.nodes = q
                                /\ q \div 1 = q /\ q % 1 = 0
    <2> SUFFICES ASSUME NEW q \in Halving!Rank
                 PROVE  /\ q \div config.nodes = 0 /\ q % config.nodes = q
                        /\ q \div 1 = q /\ q % 1 = 0
      OBVIOUS
    <2>1. q = config.nodes * 0 + q /\ q \in Nat /\ q \in 0 .. config.nodes - 1
      BY <1>0
    <2>2. q \div config.nodes = 0 /\ q % config.nodes = q
      BY <1>0, <2>1, DivMod
    <2> QED
      BY <2>1, <2>2
  <1>2. ASSUME NEW x \in Halving!Rank, NEW i \in 0 .. Log
        PROVE  Gathered(x, i) = {q \in Halving!Rank : Same(q, x, i)}
    <2>1. CASE i = Log
      <3>1. Log - i = 0 /\ 2^0 = 1
        BY <1>0, <2>1, Powers
      <3>2. \A q \in Halving!Rank : Same(q, x, i)
        BY <1>0, <1>1, <2>1, <3>1
      <3> QED
        BY <1>0, <2>1, <3>2 DEF Gathered
    <2>2. CASE i # Log
      <3>1. ~(i >= Log)
        BY <1>0, <2>2
      <3> QED
        BY <3>1 DEF Gathered
    <2> QED
      BY <2>1, <2>2
  <1>3. Gathered(r, 0) = {r}
    <2>1. 0 \in 0 .. Log /\ Log - 0 = Log /\ 2^0 = 1
      BY <1>0, Powers
    <2>2. \A q \in Halving!Rank : Same(q, r, 0) <=> q = r
      <3> SUFFICES ASSUME NEW q \in Halving!Rank
                   PROVE  Same(q, r, 0) <=> q = r
        OBVIOUS
      <3>1. /\ q % config.nodes = q /\ q \div 1 = q
            /\ r % config.nodes = r /\ r \div 1 = r
        BY <1>1
      <3>2. 2^(Log - 0) = config.nodes
        BY <1>0, <2>1
      <3> QED
        BY <2>1, <3>1, <3>2
    <2> HIDE DEF Same
    <2>3. Gathered(r, 0) = {q \in Halving!Rank : Same(q, r, 0)}
      BY <1>2, <2>1
    <2> QED
      BY <2>2, <2>3
  <1>4. ASSUME NEW i \in 1 .. Log
        PROVE  Gathered(r, i) = Gathered(r, i - 1) \cup Gathered(Partner(r, i), i - 1)
    <2>1. i \in 0 .. Log /\ i - 1 \in 0 .. Log /\ i \in 1 .. HalvingRounds
      BY DEF HalvingNumbers
    <2>2. PICK p \in Halving!Rank : p = Partner(r, i)
      BY <2>1, Partners
    <2>3. PICK e \in 0 .. Log - 1 : e = Exponent(i)
      BY <2>1, Exponents
    <2>4. PICK o \in Nat \ {0} : o = 2^e
      BY PeerIsFlip
    <2>5. e \in 0 .. 9 /\ 2^(e + 1) = 2 * o
      <3>1. e \in 0 .. 9
        BY <1>0
      <3> QED
        BY <2>4, <3>1, Powers
    <2>6. PICK b \in Nat : b = r \div o
      BY <2>4, PeerIsFlip
    <2>7. /\ r \in Nat /\ p \in Nat
          /\ p \div o = IF b % 2 = 0 THEN b + 1 ELSE b - 1
          /\ p % o = r % o
      BY <2>2, <2>3, <2>4, <2>6, PeerIsFlip DEF Partner
    <2>8. ASSUME NEW q \in Halving!Rank
          PROVE  Same(q, r, i) <=> Same(q, r, i - 1) \/ Same(q, p, i - 1)
      <3>0. q \in Nat
        BY <1>0
      <3>1. PICK c \in Nat : c = q \div o
        BY <3>0, Halves
      <3>2. /\ q \div (2 * o) = c \div 2
            /\ q % (2 * o) = (IF c % 2 = 0 THEN 0 ELSE o) + (q % o)
            /\ r \div (2 * o) = b \div 2
            /\ r % (2 * o) = (IF b % 2 = 0 THEN 0 ELSE o) + (r % o)
            /\ p \div (2 * o) = (p \div o) \div 2
            /\ p % (2 * o) = (IF (p \div o) % 2 = 0 THEN 0 ELSE o) + (p % o)
        <4>1. /\ q \div (2 * o) = c \div 2
              /\ q % (2 * o) = (IF c % 2 = 0 THEN 0 ELSE o) + (q % o)
          BY <3>0, <3>1, Halves
        <4>2. /\ r \div (2 * o) = b \div 2
              /\ r % (2 * o) = (IF b % 2 = 0 THEN 0 ELSE o) + (r % o)
          BY <2>6, <2>7, Halves
        <4>3. /\ p \div (2 * o) = (p \div o) \div 2
              /\ p % (2 * o) = (IF (p \div o) % 2 = 0 THEN 0 ELSE o) + (p % o)
          BY <2>7, Halves
        <4> QED
          BY <4>1, <4>2, <4>3
      <3>3. PICK x \in 0 .. o - 1, y \in 0 .. o - 1 : x = q % o /\ y = r % o
        <4>1. q % o \in 0 .. o - 1 /\ r % o \in 0 .. o - 1
          BY <2>7, <3>0, Halves
        <4> QED
          BY <4>1
      <3>4. CASE config.type = "All_Gather"
        <4>1. Log - i = e /\ Log - (i - 1) = e + 1
          BY <1>0, <2>3, <3>4 DEF Exponent
        <4>2. (q % o = r % o) <=> (q % (2 * o) = r % (2 * o)) \/ (q % (2 * o) = p % (2 * o))
          <5>1. b % 2 \in {0, 1} /\ (b + 1) % 2 = 1 - (b % 2) /\ (b - 1) % 2 = 1 - (b % 2)
            OBVIOUS
          <5>2. c % 2 \in {0, 1}
            OBVIOUS
          <5>3. q % (2 * o) = (IF c % 2 = 0 THEN 0 ELSE o) + x
            BY <3>2, <3>3
          <5>4. r % (2 * o) = (IF b % 2 = 0 THEN 0 ELSE o) + y
            BY <3>2, <3>3
          <5>5. p % (2 * o) = (IF b % 2 = 0 THEN o ELSE 0) + y
            BY <2>7, <3>2, <3>3, <5>1
          <5>6. x = y <=> \/ (IF c % 2 = 0 THEN 0 ELSE o) + x = (IF b % 2 = 0 THEN 0 ELSE o) + y
                          \/ (IF c % 2 = 0 THEN 0 ELSE o) + x = (IF b % 2 = 0 THEN o ELSE 0) + y
            BY <5>1, <5>2
          <5> QED
            BY <3>3, <5>3, <5>4, <5>5, <5>6
        <4> QED
          BY <2>4, <2>5, <3>4, <4>1, <4>2
      <3>5. CASE config.type # "All_Gather"
        <4>1. i - 1 = e /\ i = e + 1
          BY <1>0, <2>3, <3>5 DEF Exponent
        <4>2. (c \div 2 = b \div 2) <=> (c = b) \/ (c = IF b % 2 = 0 THEN b + 1 ELSE b - 1)
          OBVIOUS
        <4>3. (q \div (2 * o) = r \div (2 * o)) <=> (q \div o = r \div o) \/ (q \div o = p \div o)
          BY <2>6, <2>7, <3>1, <3>2, <4>2
        <4> QED
          BY <2>4, <2>5, <3>5, <4>1, <4>3
      <3> QED
        BY <3>4, <3>5
    <2> HIDE DEF Same
    <2>9. /\ Gathered(r, i) = {q \in Halving!Rank : Same(q, r, i)}
          /\ Gathered(r, i - 1) = {q \in Halving!Rank : Same(q, r, i - 1)}
          /\ Gathered(p, i - 1) = {q \in Halving!Rank : Same(q, p, i - 1)}
      BY <1>2, <2>1
    <2> QED
      BY <2>2, <2>8, <2>9
  <1> QED
    BY <1>3, <1>4 DEF Gathered

\* A round meets one of the ranks that the first Log rounds meet, once more.
LEMMA MeetingsStep ==
    ASSUME HalvingNumbers, NEW r \in Halving!Rank, NEW k \in 1 .. HalvingRounds
    PROVE  \E j \in 1 .. Log :
              /\ Partner(r, k) = Partner(r, j)
              /\ \A i \in 1 .. Log : Meetings(i, k) = Meetings(i, k - 1) + (IF i = j THEN 1 ELSE 0)
              /\ k <= Log => j = k /\ Meetings(j, k - 1) = 0
              /\ k > Log => Meetings(j, k - 1) >= 1
  <1>1. /\ Log \in Nat /\ k \in Nat
        /\ config.type = "All_Reduce" => HalvingRounds = 2 * Log
        /\ config.type # "All_Reduce" => HalvingRounds = Log
    BY DEF HalvingNumbers
  <1>2. CASE k <= Log
    <2>1. k \in 1 .. Log
      BY <1>1, <1>2
    <2>2. \A i \in 1 .. Log : Meetings(i, k) = Meetings(i, k - 1) + (IF i = k THEN 1 ELSE 0)
      BY <1>1, <1>2 DEF Meetings
    <2>3. Meetings(k, k - 1) = 0
      BY <1>1, <1>2 DEF Meetings
    <2> QED
      BY <1>1, <1>2, <2>1, <2>2, <2>3
  <1>3. CASE k > Log
    <2>1. config.type = "All_Reduce" /\ k \in Log + 1 .. HalvingRounds
      BY <1>1, <1>3
    <2>2. PICK j \in 1 .. Log : j = 2 * Log + 1 - k /\ Partner(r, k) = Partner(r, j)
      BY <2>1, Partners
    <2>3. \A i \in 1 .. Log : Meetings(i, k) = Meetings(i, k - 1) + (IF i = j THEN 1 ELSE 0)
      BY <1>1, <1>3, <2>1, <2>2 DEF Meetings
    <2>4. Meetings(j, k - 1) >= 1
      BY <1>1, <1>3, <2>1, <2>2 DEF Meetings
    <2> QED
      BY <1>1, <1>3, <2>2, <2>3, <2>4
  <1> QED
    BY <1>1, <1>2, <1>3

\* How the distance changes from one round to the next.
LEMMA Distances ==
    ASSUME HalvingNumbers, NEW k \in Nat, k + 1 < HalvingRounds
    PROVE  LET o == 2^Exponent(k + 1)
               u == 2^Exponent(k + 2)
           IN  /\ o \in Nat \ {0} /\ u \in Nat \ {0}
               /\ config.type # "All_Gather" /\ k + 1 < Log => u = 2 * o /\ u # config.nodes
               /\ config.type # "All_Gather" /\ k < Log /\ k + 1 >= Log =>
                     config.type = "All_Reduce" /\ 2 * o = config.nodes /\ u = o
               /\ config.type = "All_Gather" \/ k >= Log => o = 2 * u /\ u # config.nodes
  <1>1. /\ Log \in 1 .. 10 /\ Log \in Nat /\ config.nodes = 2^Log
        /\ config.type = "All_Reduce" => HalvingRounds = 2 * Log
        /\ config.type # "All_Reduce" => HalvingRounds = Log
    BY DEF HalvingNumbers
  <1>2. PICK e \in 0 .. Log - 1, f \in 0 .. Log - 1 :
           e = Exponent(k + 1) /\ f = Exponent(k + 2)
    <2>1. k + 1 \in 1 .. HalvingRounds /\ k + 2 \in 1 .. HalvingRounds
      BY <1>1
    <2> QED
      BY <2>1, Exponents
  <1>3. /\ e \in 0 .. 9 /\ f \in 0 .. 9 /\ e \in 0 .. 10 /\ f \in 0 .. 10
        /\ Log \in 0 .. 10 /\ f < Log
    BY <1>1
  <1>4. PICK o \in Nat \ {0}, u \in Nat \ {0}, n \in Nat \ {0} : o = 2^e /\ u = 2^f /\ n = 2^Log
    BY <1>3, Powers
  <1>5. u < n
    BY <1>3, <1>4, Powers
  <1>6. f = e + 1 => u = 2 * o
    BY <1>3, <1>4, Powers
  <1>7. e = f + 1 => o = 2 * u
    BY <1>3, <1>4, Powers
  <1>8. e + 1 = Log => n = 2 * o
    BY <1>3, <1>4, Powers
  <1>9. config.type # "All_Gather" /\ k + 1 < Log => f = e + 1
    BY <1>1, <1>2 DEF Exponent
  <1>10. config.type # "All_Gather" /\ k < Log /\ k + 1 >= Log =>
            config.type = "All_Reduce" /\ e + 1 = Log /\ f = e
    BY <1>1, <1>2 DEF Exponent
  <1>11. config.type = "All_Gather" \/ k >= Log => e = f + 1
    BY <1>1, <1>2 DEF Exponent
  <1> QED
    BY <1>1, <1>2, <1>4, <1>5, <1>6, <1>7, <1>8, <1>9, <1>10, <1>11

\* Whatever the distance, a peer is a rank.
LEMMA PeerIsRank ==
    ASSUME HalvingNumbers, NEW r \in Halving!Rank, NEW o \in Nat
    PROVE  Halving!Peer(r, o) \in Halving!Rank
  <1>1. PICK n \in Nat \ {0} : n = config.nodes
    BY DEF HalvingNumbers
  <1>2. PICK d \in {1, -1} : d = Halving!specify_direction(r, o)
    BY DEF Halving!specify_direction
  <1>3. r \in Nat
    BY <1>1 DEF Halving!Rank
  <1>4. PICK x \in Int : x = r + d * o
    BY <1>3
  <1>5. x % n \in 0 .. n - 1
    OBVIOUS
  <1> QED
    BY <1>1, <1>2, <1>4, <1>5 DEF Halving!Peer, Halving!Rank

\* process_max_count puts the bundle on the bus and turns to the next round.
LEMMA NextRound ==
    ASSUME HalvingNumbers, NEW r \in Halving!Rank, NEW a \in HalvingObject,
           NEW k \in Nat, Chosen(r, a, k)
    PROVE  LET c == Halving!process_max_count(a, r) IN
           /\ c \in HalvingObject
           /\ c.state = a.state /\ c.stream_count = a.stream_count
           /\ c.free_packets = a.free_packets /\ c.packets = a.packets
           /\ c.bundles = a.bundles + 1
           /\ Chosen(r, c, k + 1)
  <1> DEFINE b == IF a.doubling THEN Halving!Doubled(a) ELSE Halving!Halved(a)
             turns == b.rank_offset = config.nodes /\ config.type = "All_Reduce"
             d == IF turns THEN Halving!Halved(b) ELSE b
             next == IF d.rank_offset = 0 THEN r ELSE Halving!Peer(r, d.rank_offset)
             c == [d EXCEPT !.bundles = @ + 1, !.peer = next]
  <1>1. Halving!process_max_count(a, r) = c
    BY DEF Halving!process_max_count
  <1>2. \A x \in HalvingObject :
           /\ Halving!Doubled(x) \in HalvingObject /\ Halving!Halved(x) \in HalvingObject
           /\ Halving!Doubled(x).rank_offset = x.rank_offset * 2
           /\ Halving!Halved(x).rank_offset = x.rank_offset \div 2
           /\ Halving!Doubled(x).doubling = x.doubling
           /\ Halving!Halved(x).doubling = FALSE
    <2> SUFFICES ASSUME NEW x \in HalvingObject
                 PROVE  /\ Halving!Doubled(x) \in HalvingObject
                        /\ Halving!Halved(x) \in HalvingObject
                        /\ Halving!Doubled(x).rank_offset = x.rank_offset * 2
                        /\ Halving!Halved(x).rank_offset = x.rank_offset \div 2
                        /\ Halving!Doubled(x).doubling = x.doubling
                        /\ Halving!Halved(x).doubling = FALSE
      OBVIOUS
    <2>1. PICK o \in Nat, m \in Nat : o = x.rank_offset /\ m = x.msg_size
      BY DEF HalvingObject
    <2>2. o * 2 \in Nat /\ o \div 2 \in Nat /\ m * 2 \in Nat /\ m \div 2 \in Nat
      OBVIOUS
    <2>3. Halving!Doubled(x) = [x EXCEPT !.rank_offset = o * 2, !.msg_size = m \div 2]
      BY <2>1 DEF Halving!Doubled
    <2>4. Halving!Halved(x) = [x EXCEPT !.rank_offset = o \div 2, !.msg_size = m * 2,
                                        !.doubling = FALSE]
      BY <2>1 DEF Halving!Halved
    <2>5. Halving!Doubled(x) \in HalvingObject
      BY <2>2, <2>3 DEF HalvingObject
    <2>6. Halving!Halved(x) \in HalvingObject
      BY <2>2, <2>4, Zenon DEF HalvingObject
    <2>7. /\ Halving!Doubled(x).rank_offset = o * 2
          /\ Halving!Halved(x).rank_offset = o \div 2
      BY <2>3, <2>4 DEF HalvingObject
    <2>8. /\ Halving!Doubled(x).doubling = x.doubling
          /\ Halving!Halved(x).doubling = FALSE
      BY <2>3, <2>4 DEF HalvingObject
    <2> QED
      BY <2>1, <2>5, <2>6, <2>7, <2>8
  <1>3. \A x \in HalvingObject :
           /\ Halving!Doubled(x).state = x.state /\ Halving!Halved(x).state = x.state
           /\ Halving!Doubled(x).stream_count = x.stream_count
           /\ Halving!Halved(x).stream_count = x.stream_count
           /\ Halving!Doubled(x).free_packets = x.free_packets
           /\ Halving!Halved(x).free_packets = x.free_packets
           /\ Halving!Doubled(x).packets = x.packets
           /\ Halving!Halved(x).packets = x.packets
           /\ Halving!Doubled(x).bundles = x.bundles
           /\ Halving!Halved(x).bundles = x.bundles
    BY DEF HalvingObject, Halving!Doubled, Halving!Halved
  <1>4. b \in HalvingObject
    BY <1>2
  <1>5. d \in HalvingObject
    <2> HIDE DEF b
    <2> QED
      BY <1>2, <1>4
  <1>6. d.rank_offset \in Nat /\ next \in Halving!Rank
    <2>1. d.rank_offset \in Nat
      <3> HIDE DEF d
      <3> QED
        BY <1>5 DEF HalvingObject
    <2> HIDE DEF d
    <2> QED
      BY <2>1, PeerIsRank
  <1>7. /\ d.state = a.state /\ d.stream_count = a.stream_count
        /\ d.free_packets = a.free_packets /\ d.packets = a.packets
        /\ d.bundles = a.bundles
    <2>1. /\ b.state = a.state /\ b.stream_count = a.stream_count
          /\ b.free_packets = a.free_packets /\ b.packets = a.packets
          /\ b.bundles = a.bundles
      BY <1>3
    <2> HIDE DEF b
    <2> QED
      BY <1>3, <1>4, <2>1
  <1>8. /\ c \in HalvingObject
        /\ c.state = a.state /\ c.stream_count = a.stream_count
        /\ c.free_packets = a.free_packets /\ c.packets = a.packets
        /\ c.bundles = a.bundles + 1
        /\ c.rank_offset = d.rank_offset /\ c.doubling = d.doubling /\ c.peer = next
    <2> HIDE DEF d, next
    <2>0. d.bundles \in Nat
      BY <1>5 DEF HalvingObject
    <2>1. PICK m \in Nat : m = d.bundles /\ m + 1 \in Nat
      BY <2>0
    <2>2. c = [d EXCEPT !.bundles = m + 1, !.peer = next]
      BY <2>1
    <2>3. c \in HalvingObject
      BY <1>5, <1>6, <2>1, <2>2 DEF HalvingObject
    <2>4. /\ c.state = d.state /\ c.stream_count = d.stream_count
          /\ c.free_packets = d.free_packets /\ c.packets = d.packets
          /\ c.rank_offset = d.rank_offset /\ c.peer = next
          /\ c.bundles = m + 1
      BY <1>5, <2>2 DEF HalvingObject
    <2>5. c.doubling = d.doubling
      BY <1>5, <2>2, Zenon DEF HalvingObject
    <2> QED
      BY <1>7, <2>1, <2>3, <2>4, <2>5
  <1>9. Chosen(r, c, k + 1)
    <2> SUFFICES ASSUME k + 1 < HalvingRounds
                 PROVE  Chosen(r, c, k + 1)
      BY DEF Chosen
    <2>1. /\ HalvingRounds \in Nat /\ Log \in Nat /\ k < HalvingRounds
          /\ (k + 1) + 1 = k + 2
      BY DEF HalvingNumbers
    <2>2. /\ a.rank_offset = 2^Exponent(k + 1)
          /\ a.doubling = (config.type # "All_Gather" /\ k < Log)
      BY <2>1 DEF Chosen
    <2>3. PICK o \in Nat \ {0}, u \in Nat \ {0} : o = 2^Exponent(k + 1) /\ u = 2^Exponent(k + 2)
      BY Distances
    <2>4. /\ config.type # "All_Gather" /\ k + 1 < Log => u = 2 * o /\ u # config.nodes
          /\ config.type # "All_Gather" /\ k < Log /\ k + 1 >= Log =>
                config.type = "All_Reduce" /\ 2 * o = config.nodes /\ u = o
          /\ config.type = "All_Gather" \/ k >= Log => o = 2 * u /\ u # config.nodes
      BY <2>3, Distances
    <2>5. d.rank_offset = u /\ d.doubling = (config.type # "All_Gather" /\ k + 1 < Log)
      <3>1. CASE config.type # "All_Gather" /\ k + 1 < Log
        <4>0. k < Log
          BY <2>1, <3>1
        <4>1. a.doubling
          BY <2>2, <3>1, <4>0, Zenon
        <4>2. b.rank_offset = o * 2 /\ b.doubling
          BY <1>2, <2>2, <2>3, <4>1
        <4>3. b.rank_offset = u /\ ~turns
          BY <2>3, <2>4, <3>1, <4>2
        <4> HIDE DEF b
        <4> QED
          BY <3>1, <4>2, <4>3
      <3>2. CASE config.type # "All_Gather" /\ k < Log /\ k + 1 >= Log
        <4>1. a.doubling
          BY <2>2, <3>2, Zenon
        <4>2. b.rank_offset = o * 2
          BY <1>2, <2>2, <2>3, <4>1
        <4>3. turns
          BY <2>3, <2>4, <3>2, <4>2
        <4>4. d.rank_offset = (o * 2) \div 2 /\ d.doubling = FALSE
          <5> HIDE DEF b
          <5> QED
            BY <1>2, <1>4, <4>2, <4>3
        <4>5. (o * 2) \div 2 = o
          BY <2>3
        <4>6. ~(k + 1 < Log)
          BY <2>1, <3>2
        <4> QED
          BY <2>4, <3>2, <4>4, <4>5, <4>6
      <3>3. CASE config.type = "All_Gather" \/ k >= Log
        <4>0. k >= Log => ~(k < Log)
          BY <2>1
        <4>1. ~a.doubling
          BY <2>2, <3>3, <4>0, Zenon
        <4>2. b.rank_offset = o \div 2 /\ b.doubling = FALSE
          BY <1>2, <2>2, <2>3, <4>1
        <4>3. b.rank_offset = u /\ ~turns
          BY <2>3, <2>4, <3>3, <4>2
        <4>4. ~(config.type # "All_Gather" /\ k + 1 < Log)
          BY <2>1, <3>3
        <4> HIDE DEF b
        <4> QED
          BY <4>2, <4>3, <4>4
      <3> QED
        BY <2>1, <3>1, <3>2, <3>3
    <2>6. next = Halving!Peer(r, u)
      <3> HIDE DEF d
      <3> QED
        BY <2>3, <2>5
    <2> HIDE DEF c, d, next
    <2> QED
      BY <1>8, <2>1, <2>3, <2>5, <2>6 DEF Chosen, Partner
  <1> HIDE DEF c
  <1> QED
    BY <1>1, <1>8, <1>9

\* insert_packet makes a packet for the round that was chosen.
LEMMA HalvingInsert ==
    ASSUME HalvingNumbers, NEW r \in Halving!Rank, NEW a \in HalvingObject,
           NEW k \in Nat, Chosen(r, a, k)
    PROVE  LET c == Halving!insert_packet(a, r) IN
           /\ c \in HalvingObject
           /\ c.state = a.state /\ c.stream_count = a.stream_count
           /\ c.free_packets = a.free_packets
           /\ c.packets = Append(a.packets, [peer |-> a.peer, size |-> a.msg_size])
           /\ c.bundles = a.bundles + 1
           /\ Chosen(r, c, k + 1)
  <1> DEFINE b == Halving!Credited(a)
             d == IF b.zero_latency_packets > 0
                  THEN [b EXCEPT !.zero_latency_packets = @ - 1]
                  ELSE [b EXCEPT !.non_zero_latency_packets = @ - 1]
             e == [d EXCEPT !.packets = Append(@, [peer |-> d.peer, size |-> d.msg_size])]
             Like(x) == /\ x \in HalvingObject
                        /\ x.state = a.state /\ x.stream_count = a.stream_count
                        /\ x.free_packets = a.free_packets /\ x.bundles = a.bundles
                        /\ x.rank_offset = a.rank_offset /\ x.doubling = a.doubling
                        /\ x.peer = a.peer /\ x.msg_size = a.msg_size
  <1>1. Halving!insert_packet(a, r) = Halving!process_max_count(e, r)
    BY DEF Halving!insert_packet
  <1>2. Like(b) /\ b.packets = a.packets
        /\ (b.zero_latency_packets > 0 \/ b.non_zero_latency_packets > 0)
    <2>1. PICK m \in Nat : m = Log - 1
      <3>1. Log - 1 \in Nat
        BY DEF HalvingNumbers
      <3> QED
        BY <3>1
    <2>2. CASE a.zero_latency_packets = 0 /\ a.non_zero_latency_packets = 0
      <3>1. b = [a EXCEPT !.zero_latency_packets = 1,
                          !.non_zero_latency_packets = m]
        BY <2>1, <2>2 DEF Halving!Credited, Halving!get_non_zero_latency_packets, Log
      <3> QED
        <4>1. b \in HalvingObject
          <5>1. PICK x \in HalvingObject : x = [a EXCEPT !.zero_latency_packets = 1]
            <6>1. [a EXCEPT !.zero_latency_packets = 1] \in HalvingObject
              BY DEF HalvingObject
            <6> QED
              BY <6>1
          <5>2. [x EXCEPT !.non_zero_latency_packets = m] \in HalvingObject
            BY DEF HalvingObject
          <5>3. b = [x EXCEPT !.non_zero_latency_packets = m]
            BY <3>1, <5>1, Zenon
          <5> QED
            BY <5>2, <5>3
        <4>2. /\ b.state = a.state /\ b.stream_count = a.stream_count
              /\ b.free_packets = a.free_packets /\ b.bundles = a.bundles
              /\ b.rank_offset = a.rank_offset
              /\ b.peer = a.peer /\ b.msg_size = a.msg_size
              /\ b.packets = a.packets /\ b.zero_latency_packets = 1
          BY <3>1 DEF HalvingObject
        <4>3. b.doubling = a.doubling
          BY <3>1, Zenon DEF HalvingObject
        <4> QED
          BY <4>1, <4>2, <4>3
    <2>3. CASE ~(a.zero_latency_packets = 0 /\ a.non_zero_latency_packets = 0)
      BY <2>3 DEF Halving!Credited, HalvingObject
    <2> QED
      BY <2>2, <2>3
  <1>3. Like(d) /\ d.packets = a.packets
    <2> HIDE DEF b
    <2>1. b.zero_latency_packets \in Nat /\ b.non_zero_latency_packets \in Nat
      BY <1>2 DEF HalvingObject
    <2>2. CASE b.zero_latency_packets > 0
      <3>1. b.zero_latency_packets - 1 \in Nat
        BY <2>1, <2>2
      <3> QED
        BY <1>2, <2>2, <3>1 DEF HalvingObject
    <2>3. CASE ~(b.zero_latency_packets > 0)
      <3>1. b.non_zero_latency_packets - 1 \in Nat
        BY <1>2, <2>1, <2>3
      <3> QED
        BY <1>2, <2>3, <3>1 DEF HalvingObject
    <2> QED
      BY <2>2, <2>3
  <1>4. /\ Like(e)
        /\ e.packets = Append(a.packets, [peer |-> a.peer, size |-> a.msg_size])
    <2> HIDE DEF d
    <2>1. PICK s \in Seq([peer : Halving!Rank, size : Nat]) :
             s = Append(a.packets, [peer |-> a.peer, size |-> a.msg_size])
      <3> DEFINE X == [peer : Halving!Rank, size : Nat]
                 x == [peer |-> a.peer, size |-> a.msg_size]
      <3>1. a.packets \in Seq(X) /\ x \in X
        BY DEF HalvingObject
      <3> HIDE DEF X, x
      <3>2. Append(a.packets, x) \in Seq(X)
        BY <3>1
      <3> QED
        BY <3>2 DEF X, x
    <2>2. e = [d EXCEPT !.packets = s]
      BY <1>3, <2>1
    <2>3. e \in HalvingObject
      BY <1>3, <2>2 DEF HalvingObject
    <2>4. /\ e.state = d.state /\ e.stream_count = d.stream_count
          /\ e.free_packets = d.free_packets /\ e.bundles = d.bundles
          /\ e.rank_offset = d.rank_offset
          /\ e.peer = d.peer /\ e.msg_size = d.msg_size /\ e.packets = s
      BY <1>3, <2>2 DEF HalvingObject
    <2>5. e.doubling = d.doubling
      BY <1>3, <2>2, Zenon DEF HalvingObject
    <2> HIDE DEF e
    <2> QED
      BY <1>3, <2>1, <2>3, <2>4, <2>5
  <1> HIDE DEF e
  <1>5. Chosen(r, e, k)
    BY <1>4 DEF Chosen
  <1>6. e \in HalvingObject
    BY <1>4
  <1> QED
    BY <1>1, <1>4, <1>5, <1>6, NextRound

-----------------------------------------------------------------------------
(***************************************************************************)
(* The steps of HalvingDoubling.                                           *)
(***************************************************************************)

\* Only what rank r sends, posts, receives and holds changes.
OnlyRank(r, S, S2, R, R2, D, D2, H, H2) ==
    \A x \in Halving!Rank : x # r =>
        /\ H2[x] = H[x]
        /\ \A y \in Halving!Rank :
              /\ S2[<<x, y>>] = S[<<x, y>>]
              /\ R2[<<y, x>>] = R[<<y, x>>] /\ D2[<<y, x>>] = D[<<y, x>>]

\* Then the invariant is about rank r only, and about whose data is around.
LEMMA HalvingFrame ==
    ASSUME NEW A, NEW S, NEW R, NEW D, NEW H, HalvingInvOf(A, S, R, D, H),
           NEW r \in Halving!Rank, NEW c, NEW S2, NEW R2, NEW D2, NEW H2,
           HalvingType([A EXCEPT ![r] = c], S2, R2, D2, H2),
           OnlyRank(r, S, S2, R, R2, D, D2, H, H2),
           HalvingRank(r, c, S2, R2, D2, H2),
           DataStarted([A EXCEPT ![r] = c], S2, H2)
    PROVE  HalvingInvOf([A EXCEPT ![r] = c], S2, R2, D2, H2)
  <1> DEFINE B == [A EXCEPT ![r] = c]
  <1>1. /\ HalvingNumbers /\ A \in [Halving!Rank -> HalvingObject]
        /\ \A x \in Halving!Rank : HalvingRank(x, A[x], S, R, D, H)
    BY HalvingConstants DEF HalvingInvOf, HalvingType
  <1>2. ASSUME NEW x \in Halving!Rank
        PROVE  HalvingRank(x, B[x], S2, R2, D2, H2)
    <2>1. CASE x = r
      BY <1>1, <2>1
    <2>2. CASE x # r
      <3>1. B[x] = A[x] /\ HalvingRank(x, A[x], S, R, D, H)
        BY <1>1, <2>2
      <3>2. /\ H2[x] = H[x]
            /\ \A y \in Halving!Rank :
                  /\ S2[<<x, y>>] = S[<<x, y>>]
                  /\ R2[<<y, x>>] = R[<<y, x>>] /\ D2[<<y, x>>] = D[<<y, x>>]
        BY <2>2 DEF OnlyRank
      <3>3. \A i \in 1 .. Log : Partner(x, i) \in Halving!Rank
        <4>1. \A i \in 1 .. Log : i \in 1 .. HalvingRounds
          BY <1>1 DEF HalvingNumbers
        <4> QED
          BY <1>1, <4>1, Partners
      <3>4. Exchanged(x, A[x], S, R, D)
        BY <3>1 DEF HalvingRank
      <3>5. Exchanged(x, A[x], S2, R2, D2)
        BY <3>2, <3>3, <3>4 DEF Exchanged
      <3> QED
        BY <3>1, <3>2, <3>5 DEF HalvingRank
    <2> QED
      BY <2>1, <2>2
  <1> QED
    BY <1>2 DEF HalvingInvOf

\* Data of a started rank stays data of a started rank.
LEMMA StillStarted ==
    ASSUME NEW A \in [Halving!Rank -> HalvingObject], NEW r \in Halving!Rank, NEW c,
           c.state # "created", NEW q \in Halving!Rank, A[q].state # "created" \/ q = r
    PROVE  [A EXCEPT ![r] = c][q].state # "created"
  OBVIOUS

\* Messages carry the data of ranks.
LEMMA MessagesType ==
    ASSUME NEW A, NEW S, NEW R, NEW D, NEW H, HalvingType(A, S, R, D, H),
           NEW p \in Halving!Pair, NEW j \in 1 .. Len(S[p])
    PROVE  S[p][j].data \subseteq Halving!Rank
  <1> DEFINE X == [size : Nat, data : SUBSET Halving!Rank]
  <1>1. S[p] \in Seq(X)
    BY DEF HalvingType
  <1>2. \A Y : \A s \in Seq(Y) : \A i \in 1 .. Len(s) : s[i] \in Y
    OBVIOUS
  <1>3. S[p][j] \in X
    <2> HIDE DEF X
    <2> QED
      BY <1>1, <1>2, Zenon
  <1> QED
    BY <1>3

\* StreamInit.
LEMMA HalvingStarts ==
    ASSUME NEW A, NEW S, NEW R, NEW D, NEW H, HalvingInvOf(A, S, R, D, H),
           NEW r \in Halving!Rank, A[r].state = "created",
           NEW c, c = Halving!insert_packet([A[r] EXCEPT !.state = "running"], r)
    PROVE  HalvingInvOf([A EXCEPT ![r] = c], S, R, D, H) /\ c.state = "running"
  <1> DEFINE a == [A[r] EXCEPT !.state = "running"]
  <1>1. /\ HalvingNumbers /\ A \in [Halving!Rank -> HalvingObject]
        /\ HalvingRank(r, A[r], S, R, D, H) /\ DataStarted(A, S, H)
        /\ HalvingType(A, S, R, D, H)
    BY HalvingConstants DEF HalvingInvOf, HalvingType
  <1>2. A[r] \in HalvingObject
    BY <1>1
  <1>3. /\ a \in HalvingObject /\ a.state = "running"
        /\ a.stream_count = A[r].stream_count /\ a.free_packets = A[r].free_packets
        /\ a.packets = A[r].packets /\ a.bundles = A[r].bundles
        /\ a.peer = A[r].peer /\ a.rank_offset = A[r].rank_offset
    BY <1>2 DEF HalvingObject
  <1>4. a.doubling = A[r].doubling
    BY <1>2, Zenon DEF HalvingObject
  <1> HIDE DEF a
  <1>5. /\ SentRounds(A[r]) = 0 /\ A[r].free_packets = 0
        /\ A[r].bundles = 0 /\ A[r].packets = <<>> /\ Chosen(r, A[r], 0)
        /\ Exchanged(r, A[r], S, R, D) /\ H[r] = Gathered(r, 0)
        /\ ReceivedRounds(A[r]) = 0
    BY <1>1 DEF HalvingRank, OnePacket, RightPeers, ReceivedRounds
  <1>6. Chosen(r, a, 0) /\ 0 \in Nat
    BY <1>3, <1>4, <1>5 DEF Chosen
  <1>7. /\ c \in HalvingObject
        /\ c.state = a.state /\ c.stream_count = a.stream_count
        /\ c.free_packets = a.free_packets
        /\ c.packets = Append(a.packets, [peer |-> a.peer, size |-> a.msg_size])
        /\ c.bundles = a.bundles + 1
        /\ Chosen(r, c, 0 + 1)
    BY <1>1, <1>3, <1>6, HalvingInsert DEF a
  <1>8. /\ c.state = "running" /\ SentRounds(c) = 0 /\ c.free_packets = 0 /\ c.bundles = 1
        /\ ReceivedRounds(c) = 0
    <2>1. c.state = "running" /\ SentRounds(c) = 0 /\ c.free_packets = 0 /\ c.bundles = 1
      BY <1>3, <1>5, <1>7 DEF SentRounds
    <2> QED
      BY <2>1 DEF ReceivedRounds
  <1>9. Len(c.packets) = 1 /\ c.packets[1].peer = A[r].peer
    <2>1. a.packets = <<>>
      BY <1>3, <1>5
    <2>2. c.packets = Append(<<>>, [peer |-> a.peer, size |-> a.msg_size])
      BY <1>7, <2>1
    <2> QED
      BY <1>3, <2>2
  <1>10. HalvingRank(r, c, S, R, D, H)
    <2>1. OnePacket(c)
      BY <1>8, <1>9 DEF OnePacket
    <2>2. RightPeers(r, c)
      <3>1. 0 < HalvingRounds => A[r].peer = Partner(r, 0 + 1)
        BY <1>5 DEF Chosen
      <3>2. 0 + 1 = 1
        OBVIOUS
      <3> QED
        BY <1>7, <1>8, <1>9, <3>1, <3>2 DEF RightPeers
    <2>3. Exchanged(r, c, S, R, D)
      BY <1>5, <1>8 DEF Exchanged
    <2> QED
      BY <1>5, <1>8, <2>1, <2>2, <2>3 DEF HalvingRank
  <1>11. HalvingType([A EXCEPT ![r] = c], S, R, D, H)
    BY <1>1, <1>7 DEF HalvingType
  <1>12. DataStarted([A EXCEPT ![r] = c], S, H)
    <2>1. \A q \in Halving!Rank :
             A[q].state # "created" => [A EXCEPT ![r] = c][q].state # "created"
      BY <1>1, <1>8, StillStarted
    <2>2. \A x \in Halving!Rank : H[x] \subseteq Halving!Rank
      BY <1>1 DEF HalvingType
    <2>3. \A p \in Halving!Pair : \A j \in 1 .. Len(S[p]) : S[p][j].data \subseteq Halving!Rank
      BY <1>1, MessagesType
    <2> QED
      BY <1>1, <2>1, <2>2, <2>3, Zenon DEF DataStarted
  <1>13. OnlyRank(r, S, S, R, R, D, D, H, H)
    BY DEF OnlyRank
  <1> QED
    BY <1>8, <1>10, <1>11, <1>12, <1>13, HalvingFrame

\* PacketReceived: it is the receive of the round that rank r waits for.
LEMMA HalvingReceives ==
    ASSUME NEW A, NEW S, NEW R, NEW D, NEW H, HalvingInvOf(A, S, R, D, H),
           NEW r \in Halving!Rank, NEW src \in Halving!Rank, A[r].state = "running",
           D[<<src, r>>] + 1 <= Len(S[<<src, r>>]), D[<<src, r>>] + 1 <= Len(R[<<src, r>>]),
           NEW c, c = Halving!insert_packet(A[r], r)
    PROVE  /\ HalvingInvOf([A EXCEPT ![r] = c], S, R,
                           [D EXCEPT ![<<src, r>>] = D[<<src, r>>] + 1],
                           [H EXCEPT ![r] = H[r] \cup S[<<src, r>>][D[<<src, r>>] + 1].data])
           /\ c.state = "running"
  <1> DEFINE a == A[r]
             n == D[<<src, r>>] + 1
             data == S[<<src, r>>][n].data
             D2 == [D EXCEPT ![<<src, r>>] = n]
             H2 == [H EXCEPT ![r] = H[r] \cup data]
  <1>1. /\ HalvingNumbers /\ A \in [Halving!Rank -> HalvingObject]
        /\ HalvingRank(r, a, S, R, D, H) /\ HalvingRank(src, A[src], S, R, D, H)
        /\ DataStarted(A, S, H) /\ HalvingType(A, S, R, D, H)
    BY HalvingConstants DEF HalvingInvOf, HalvingType
  <1>2. /\ a \in HalvingObject /\ a.bundles \in Nat /\ a.free_packets \in Nat
        /\ OnePacket(a) /\ RightPeers(r, a) /\ Exchanged(r, a, S, R, D)
        /\ SentRounds(a) \in Nat
    BY <1>1 DEF HalvingRank, OnePacket, HalvingObject
  <1>3. /\ <<src, r>> \in Halving!Pair /\ D[<<src, r>>] \in Nat
        /\ Len(R[<<src, r>>]) \in Nat /\ Len(S[<<src, r>>]) \in Nat
        /\ S[<<src, r>>] \in Seq([size : Nat, data : SUBSET Halving!Rank])
        /\ n \in 1 .. Len(S[<<src, r>>])
    <2>1. <<src, r>> \in Halving!Pair
      BY DEF Halving!Pair
    <2>2. /\ D[<<src, r>>] \in Nat /\ R[<<src, r>>] \in Seq(Nat)
          /\ S[<<src, r>>] \in Seq([size : Nat, data : SUBSET Halving!Rank])
      BY <1>1, <2>1 DEF HalvingType
    <2>3. Len(R[<<src, r>>]) \in Nat /\ Len(S[<<src, r>>]) \in Nat
      BY <2>2
    <2>4. ASSUME NEW x \in Nat, NEW y \in Nat, x + 1 <= y
          PROVE  x + 1 \in 1 .. y
      BY <2>4
    <2>5. n \in 1 .. Len(S[<<src, r>>])
      BY <2>2, <2>3, <2>4, Zenon
    <2> QED
      BY <2>1, <2>2, <2>3, <2>5, Zenon
  <1>4. PICK i \in 1 .. Log : src = Partner(r, i)
    <2>1. R[<<src, r>>] # <<>>
      BY <1>3
    <2> QED
      BY <1>2, <2>1 DEF Exchanged
  <1>5. /\ Len(R[<<src, r>>]) = Meetings(i, SentRounds(a))
        /\ D[<<src, r>>] = Meetings(i, ReceivedRounds(a))
    BY <1>2, <1>4 DEF Exchanged
  <1>6. /\ a.bundles = 0 /\ a.free_packets = 0 /\ a.packets = <<>>
        /\ SentRounds(a) >= 1 /\ ReceivedRounds(a) = SentRounds(a) - 1
    <2>1. a.free_packets = 0 /\ (a.bundles = 1 \/ (a.bundles = 0 /\ a.packets = <<>> /\ SentRounds(a) >= 1))
      BY <1>2 DEF OnePacket
    <2>2. ReceivedRounds(a) = SentRounds(a) + a.free_packets + a.bundles - 1
      BY DEF ReceivedRounds
    <2>3. a.bundles # 1
      <3>1. a.bundles = 1 => ReceivedRounds(a) = SentRounds(a)
        BY <1>2, <2>1, <2>2
      <3>2. D[<<src, r>>] # Len(R[<<src, r>>])
        BY <1>3
      <3> QED
        BY <1>5, <3>1, <3>2
    <2> QED
      BY <1>2, <2>1, <2>2, <2>3
  <1>7. PICK k \in 1 .. HalvingRounds : k = SentRounds(a) /\ ReceivedRounds(a) = k - 1
    <2>1. SentRounds(a) <= HalvingRounds
      BY <1>1, <1>2 DEF SentRounds, HalvingObject, HalvingNumbers
    <2> QED
      BY <1>1, <1>2, <1>6, <2>1 DEF HalvingNumbers
  <1>8. k \in Nat /\ (k - 1) + 1 = k
    OBVIOUS
  <1>9. Chosen(r, a, k)
    BY <1>2, <1>7, <1>8 DEF RightPeers
  <1>10. /\ c \in HalvingObject
         /\ c.state = a.state /\ c.stream_count = a.stream_count
         /\ c.free_packets = a.free_packets
         /\ c.packets = Append(a.packets, [peer |-> a.peer, size |-> a.msg_size])
         /\ c.bundles = a.bundles + 1
         /\ Chosen(r, c, k + 1)
    BY <1>1, <1>2, <1>8, <1>9, HalvingInsert
  <1>11. /\ c.state = "running" /\ SentRounds(c) = k /\ c.free_packets = 0 /\ c.bundles = 1
         /\ ReceivedRounds(c) = k
    <2>1. c.state = "running" /\ SentRounds(c) = k /\ c.free_packets = 0 /\ c.bundles = 1
      BY <1>6, <1>7, <1>10 DEF SentRounds
    <2> QED
      BY <1>8, <2>1 DEF ReceivedRounds
  <1>12. Len(c.packets) = 1 /\ c.packets[1].peer = a.peer
    <2>1. c.packets = Append(<<>>, [peer |-> a.peer, size |-> a.msg_size])
      BY <1>6, <1>10
    <2> QED
      BY <2>1
  <1>13. PICK j \in 1 .. Log :
            /\ Partner(r, k) = Partner(r, j)
            /\ \A m \in 1 .. Log : Meetings(m, k) = Meetings(m, k - 1) + (IF m = j THEN 1 ELSE 0)
            /\ k <= Log => j = k /\ Meetings(j, k - 1) = 0
    BY <1>1, MeetingsStep
  <1>14. i = j
    <2>1. Meetings(i, k) = Meetings(i, k - 1) + (IF i = j THEN 1 ELSE 0)
      BY <1>13
    <2> QED
      BY <1>3, <1>5, <1>7, <2>1
  <1>15. D2 \in [Halving!Pair -> Nat] /\ D2[<<src, r>>] = n
         /\ \A p \in Halving!Pair : p # <<src, r>> => D2[p] = D[p]
    <2>1. D \in [Halving!Pair -> Nat] /\ n \in Nat
      BY <1>1, <1>3 DEF HalvingType
    <2> HIDE DEF n
    <2> QED
      BY <1>3, <2>1
  <1>16. data \subseteq Halving!Rank
    BY <1>1, <1>3, MessagesType
  <1>17. H[r] \cup data = Gathered(r, k)
    <2>1. H[r] = Gathered(r, k - 1)
      BY <1>1, <1>7 DEF HalvingRank
    <2>2. CASE k <= Log
      <3>1. j = k /\ n = 1 /\ src = Partner(r, k) /\ k \in 1 .. Log
        BY <1>4, <1>5, <1>7, <1>13, <1>14, <2>2
      <3>2. Partner(src, k) = r
        BY <1>1, <3>1, Partners
      <3>3. Exchanged(src, A[src], S, R, D)
        BY <1>1 DEF HalvingRank
      <3>4. S[<<src, r>>] # <<>>
        BY <1>3
      <3>5. S[<<src, r>>][1].data = Gathered(src, k - 1)
        BY <3>1, <3>2, <3>3, <3>4 DEF Exchanged
      <3>6. Gathered(r, k) = Gathered(r, k - 1) \cup Gathered(src, k - 1)
        BY <1>1, <3>1, GatheredGrows
      <3> QED
        BY <2>1, <3>1, <3>5, <3>6
    <2>3. CASE k > Log
      <3>1. k - 1 >= Log /\ k >= Log
        BY <1>1, <1>8, <2>3 DEF HalvingNumbers
      <3>2. Gathered(r, k - 1) = Halving!Rank /\ Gathered(r, k) = Halving!Rank
        BY <1>1, <3>1, GatheredGrows
      <3> QED
        BY <1>16, <2>1, <3>2
    <2>4. k <= Log \/ k > Log
      BY <1>1, <1>8 DEF HalvingNumbers
    <2> QED
      BY <2>2, <2>3, <2>4
  <1>18. /\ H2 \in [Halving!Rank -> SUBSET Halving!Rank] /\ H2[r] = H[r] \cup data
         /\ \A x \in Halving!Rank : x # r => H2[x] = H[x]
    <2>1. H \in [Halving!Rank -> SUBSET Halving!Rank]
      BY <1>1 DEF HalvingType
    <2> HIDE DEF data
    <2> QED
      BY <1>16, <2>1
  <1> HIDE DEF D2, H2
  <1>19. HalvingRank(r, c, S, R, D2, H2)
    <2>1. OnePacket(c)
      BY <1>8, <1>11, <1>12 DEF OnePacket
    <2>2. RightPeers(r, c)
      <3>1. k < HalvingRounds => a.peer = Partner(r, k + 1)
        BY <1>9 DEF Chosen
      <3> QED
        BY <1>10, <1>11, <1>12, <3>1 DEF RightPeers
    <2>3. Exchanged(r, c, S, R, D2)
      <3>1. ASSUME NEW m \in 1 .. Log
            PROVE  D2[<<Partner(r, m), r>>] = Meetings(m, k)
        <4>1. Partner(r, m) \in Halving!Rank
          <5>1. m \in 1 .. HalvingRounds
            BY <1>1 DEF HalvingNumbers
          <5> QED
            BY <1>1, <5>1, Partners
        <4>2. <<Partner(r, m), r>> \in Halving!Pair
          BY <4>1 DEF Halving!Pair
        <4>3. D[<<Partner(r, m), r>>] = Meetings(m, k - 1)
          BY <1>2, <1>7 DEF Exchanged
        <4>4. Meetings(m, k) = Meetings(m, k - 1) + (IF m = j THEN 1 ELSE 0)
          BY <1>13
        <4>5. CASE m = j
          <5>1. Partner(r, m) = src
            BY <1>4, <1>14, <4>5
          <5> QED
            BY <1>15, <4>3, <4>4, <4>5, <5>1
        <4>6. CASE m # j
          <5>1. Partner(r, m) # src
            BY <1>1, <1>4, <1>14, <4>6, Partners
          <5>2. D2[<<Partner(r, m), r>>] = D[<<Partner(r, m), r>>]
            BY <1>15, <4>2, <5>1
          <5>3. Meetings(m, k - 1) \in Nat
            BY DEF Meetings
          <5> QED
            BY <4>3, <4>4, <4>6, <5>2, <5>3
        <4> QED
          BY <4>5, <4>6
      <3>2. ASSUME NEW q \in Halving!Rank, \A m \in 1 .. Log : q # Partner(r, m)
            PROVE  D2[<<q, r>>] = D[<<q, r>>]
        <4>1. q # src /\ <<q, r>> \in Halving!Pair
          BY <1>4, <3>2 DEF Halving!Pair
        <4> QED
          BY <1>15, <4>1
      <3> QED
        BY <1>2, <1>7, <1>11, <3>1, <3>2 DEF Exchanged
    <2> QED
      BY <1>11, <1>17, <1>18, <2>1, <2>2, <2>3 DEF HalvingRank
  <1>20. HalvingType([A EXCEPT ![r] = c], S, R, D2, H2)
    BY <1>1, <1>10, <1>15, <1>18 DEF HalvingType
  <1>21. DataStarted([A EXCEPT ![r] = c], S, H2)
    <2>1. \A q \in Halving!Rank :
             A[q].state # "created" => [A EXCEPT ![r] = c][q].state # "created"
      BY <1>1, <1>11, StillStarted
    <2>2. \A x \in Halving!Rank : H[x] \subseteq Halving!Rank
      BY <1>1 DEF HalvingType
    <2>3. \A p \in Halving!Pair : \A m \in 1 .. Len(S[p]) : S[p][m].data \subseteq Halving!Rank
      BY <1>1, MessagesType
    <2>4. \A q \in data : A[q].state # "created"
      BY <1>1, <1>3 DEF DataStarted
    <2>5. \A x \in Halving!Rank : \A q \in H2[x] :
             q \in Halving!Rank /\ (q = x \/ A[q].state # "created")
      <3>1. \A x \in Halving!Rank : \A q \in H[x] : q = x \/ A[q].state # "created"
        BY <1>1 DEF DataStarted
      <3> HIDE DEF data
      <3> QED
        BY <1>16, <1>18, <2>2, <2>4, <3>1
    <2> QED
      BY <1>1, <2>1, <2>3, <2>5, Zenon DEF DataStarted
  <1>22. OnlyRank(r, S, S, R, R, D, D2, H, H2)
    <2>1. \A x, y \in Halving!Rank : x # r => <<y, x>> \in Halving!Pair /\ <<y, x>> # <<src, r>>
      BY DEF Halving!Pair
    <2> QED
      BY <1>15, <1>18, <2>1 DEF OnlyRank
  <1>23. HalvingInvOf([A EXCEPT ![r] = c], S, R, D2, H2)
    BY <1>19, <1>20, <1>21, <1>22, HalvingFrame
  <1> QED
    BY <1>11, <1>23 DEF D2, H2

\* General with something left to send: the packet is sent and given up.
AfterSend(a, c) ==
    /\ c \in HalvingObject
    /\ a.state = "running" /\ c.state = "running"
    /\ a.bundles = 1 /\ c.bundles = 0
    /\ a.free_packets = 0 /\ c.free_packets = 0
    /\ Len(a.packets) = 1 /\ c.packets = <<>>
    /\ a.stream_count > 0 /\ c.stream_count = a.stream_count - 1
    /\ c.rank_offset = a.rank_offset /\ c.doubling = a.doubling /\ c.peer = a.peer

\* The message goes to the peer of the round, with all that the rank has.
LEMMA HalvingSends ==
    ASSUME NEW A, NEW S, NEW R, NEW D, NEW H, HalvingInvOf(A, S, R, D, H),
           NEW r \in Halving!Rank, NEW c, AfterSend(A[r], c),
           NEW q, q = A[r].packets[1].peer, NEW size \in Nat
    PROVE  HalvingInvOf([A EXCEPT ![r] = c],
                        [S EXCEPT ![<<r, q>>] =
                            Append(S[<<r, q>>], [size |-> size, data |-> H[r]])],
                        [R EXCEPT ![<<q, r>>] = Append(R[<<q, r>>], size)], D, H)
  <1> DEFINE a == A[r]
             new == [size |-> size, data |-> H[r]]
             S2 == [S EXCEPT ![<<r, q>>] = Append(S[<<r, q>>], new)]
             R2 == [R EXCEPT ![<<q, r>>] = Append(R[<<q, r>>], size)]
             X == [size : Nat, data : SUBSET Halving!Rank]
  <1>1. /\ HalvingNumbers /\ A \in [Halving!Rank -> HalvingObject]
        /\ HalvingRank(r, a, S, R, D, H) /\ DataStarted(A, S, H)
        /\ HalvingType(A, S, R, D, H) /\ HalvingRounds \in Nat
        /\ S \in [Halving!Pair -> Seq(X)] /\ R \in [Halving!Pair -> Seq(Nat)]
        /\ H[r] \subseteq Halving!Rank
    BY HalvingConstants DEF HalvingInvOf, HalvingType, HalvingNumbers
  <1>2. /\ OnePacket(a) /\ RightPeers(r, a) /\ Exchanged(r, a, S, R, D)
        /\ H[r] = Gathered(r, ReceivedRounds(a)) /\ SentRounds(a) \in Nat
    BY <1>1 DEF HalvingRank, OnePacket
  <1>3. PICK k \in 1 .. HalvingRounds :
           /\ SentRounds(a) = k - 1 /\ SentRounds(c) = k
           /\ ReceivedRounds(a) = k - 1 /\ ReceivedRounds(c) = k - 1
    <2>1. PICK s \in Nat : s = a.stream_count /\ s > 0 /\ c.stream_count = s - 1
      BY <1>1 DEF AfterSend, HalvingObject
    <2>2. /\ SentRounds(a) = HalvingRounds - s /\ SentRounds(c) = HalvingRounds - (s - 1)
          /\ SentRounds(c) \in 1 .. HalvingRounds
      BY <1>1, <1>2, <2>1 DEF SentRounds
    <2>3. /\ ReceivedRounds(a) = SentRounds(a) + 0 + 1 - 1
          /\ ReceivedRounds(c) = SentRounds(c) + 0 + 0 - 1
      BY DEF ReceivedRounds, AfterSend
    <2>4. PICK k \in 1 .. HalvingRounds : k = SentRounds(c)
      BY <2>2
    <2>5. SentRounds(a) = k - 1
      BY <1>1, <2>1, <2>2, <2>4
    <2>6. ReceivedRounds(a) = k - 1 /\ ReceivedRounds(c) = k - 1
      BY <2>3, <2>4, <2>5
    <2> QED
      BY <2>4, <2>5, <2>6
  <1>4. k \in Nat /\ (k - 1) + 1 = k /\ k - 1 < HalvingRounds
    BY <1>1
  <1>5. q = Partner(r, k)
    <2>1. a.packets # <<>>
      BY DEF AfterSend
    <2> QED
      BY <1>2, <1>3, <1>4, <2>1 DEF RightPeers
  <1>6. PICK j \in 1 .. Log :
           /\ Partner(r, k) = Partner(r, j)
           /\ \A m \in 1 .. Log : Meetings(m, k) = Meetings(m, k - 1) + (IF m = j THEN 1 ELSE 0)
           /\ k <= Log => j = k /\ Meetings(j, k - 1) = 0
           /\ k > Log => Meetings(j, k - 1) >= 1
    BY <1>1, MeetingsStep
  <1>7. q \in Halving!Rank /\ <<r, q>> \in Halving!Pair /\ <<q, r>> \in Halving!Pair
    <2>1. q \in Halving!Rank
      BY <1>1, <1>5, Partners
    <2> QED
      BY <2>1 DEF Halving!Pair
  <1>9. new \in X
    BY <1>1
  <1>10. /\ S2 \in [Halving!Pair -> Seq(X)]
         /\ S2[<<r, q>>] = Append(S[<<r, q>>], new)
         /\ Len(S2[<<r, q>>]) = Len(S[<<r, q>>]) + 1
         /\ Len(S[<<r, q>>]) \in Nat
         /\ \A i \in 1 .. Len(S[<<r, q>>]) : S2[<<r, q>>][i] = S[<<r, q>>][i]
         /\ S2[<<r, q>>][Len(S[<<r, q>>]) + 1] = new
         /\ \A p \in Halving!Pair : p # <<r, q>> => S2[p] = S[p]
    <2> HIDE DEF X, new
    <2>1. S[<<r, q>>] \in Seq(X)
      BY <1>1, <1>7
    <2>2. /\ Append(S[<<r, q>>], new) \in Seq(X)
          /\ Len(Append(S[<<r, q>>], new)) = Len(S[<<r, q>>]) + 1
          /\ Len(S[<<r, q>>]) \in Nat
          /\ \A i \in 1 .. Len(S[<<r, q>>]) : Append(S[<<r, q>>], new)[i] = S[<<r, q>>][i]
          /\ Append(S[<<r, q>>], new)[Len(S[<<r, q>>]) + 1] = new
      BY <1>9, <2>1
    <2>3. /\ S2 \in [Halving!Pair -> Seq(X)]
          /\ S2[<<r, q>>] = Append(S[<<r, q>>], new)
          /\ \A p \in Halving!Pair : p # <<r, q>> => S2[p] = S[p]
      BY <1>1, <1>7, <2>2, Zenon
    <2> HIDE DEF S2
    <2> QED
      BY <2>2, <2>3
  <1>11. /\ R2 \in [Halving!Pair -> Seq(Nat)]
         /\ Len(R2[<<q, r>>]) = Len(R[<<q, r>>]) + 1
         /\ \A p \in Halving!Pair : p # <<q, r>> => R2[p] = R[p]
    <2>1. R[<<q, r>>] \in Seq(Nat)
      BY <1>1, <1>7
    <2>2. /\ Append(R[<<q, r>>], size) \in Seq(Nat)
          /\ Len(Append(R[<<q, r>>], size)) = Len(R[<<q, r>>]) + 1
      BY <2>1
    <2>3. /\ R2 \in [Halving!Pair -> Seq(Nat)]
          /\ R2[<<q, r>>] = Append(R[<<q, r>>], size)
          /\ \A p \in Halving!Pair : p # <<q, r>> => R2[p] = R[p]
      BY <1>1, <1>7, <2>2, Zenon
    <2> HIDE DEF R2
    <2> QED
      BY <2>2, <2>3
  <1> HIDE DEF S2, R2, X
  <1>12. HalvingRank(r, c, S2, R2, D, H)
    <2>1. OnePacket(c)
      BY <1>3, <1>4 DEF OnePacket, AfterSend
    <2>2. RightPeers(r, c)
      <3>1. Chosen(r, a, k)
        BY <1>2, <1>3, <1>4 DEF RightPeers, AfterSend
      <3>2. Chosen(r, c, k)
        BY <3>1 DEF Chosen, AfterSend
      <3> QED
        BY <1>3, <1>4, <3>2 DEF RightPeers, AfterSend
    <2>3. Exchanged(r, c, S2, R2, D)
      <3>1. ASSUME NEW m \in 1 .. Log
            PROVE  LET x == Partner(r, m) IN
                   /\ Len(S2[<<r, x>>]) = Meetings(m, k)
                   /\ Len(R2[<<x, r>>]) = Meetings(m, k)
                   /\ D[<<x, r>>] = Meetings(m, k - 1)
                   /\ S2[<<r, x>>] # <<>> => S2[<<r, x>>][1].data = Gathered(r, m - 1)
        <4> DEFINE x == Partner(r, m)
        <4>1. x \in Halving!Rank
          <5>1. m \in 1 .. HalvingRounds
            BY <1>1 DEF HalvingNumbers
          <5> QED
            BY <1>1, <5>1, Partners
        <4>2. <<x, r>> \in Halving!Pair /\ <<r, x>> \in Halving!Pair
          BY <4>1 DEF Halving!Pair
        <4>3. /\ Len(S[<<r, x>>]) = Meetings(m, k - 1)
              /\ Len(R[<<x, r>>]) = Meetings(m, k - 1)
              /\ D[<<x, r>>] = Meetings(m, k - 1)
              /\ S[<<r, x>>] # <<>> => S[<<r, x>>][1].data = Gathered(r, m - 1)
          BY <1>2, <1>3 DEF Exchanged
        <4>4. Meetings(m, k) = Meetings(m, k - 1) + (IF m = j THEN 1 ELSE 0)
          BY <1>6
        <4>5. CASE m = j
          <5>1. x = q
            BY <1>5, <1>6, <4>5
          <5>2. /\ Len(S2[<<r, q>>]) = Meetings(m, k)
                /\ Len(R2[<<q, r>>]) = Meetings(m, k)
            BY <1>10, <1>11, <4>3, <4>4, <4>5, <5>1
          <5>3. S2[<<r, q>>][1].data = Gathered(r, m - 1)
            <6>1. CASE k <= Log
              <7>1. m = k /\ Len(S[<<r, q>>]) = 0
                BY <1>6, <4>3, <4>5, <5>1, <6>1
              <7>2. S2[<<r, q>>][1] = new
                <8>1. Len(S[<<r, q>>]) + 1 = 1
                  BY <7>1
                <8> HIDE DEF new
                <8> QED
                  BY <1>10, <8>1, Zenon
              <7> QED
                BY <1>2, <1>3, <7>1, <7>2
            <6>2. CASE k > Log
              <7>1. Len(S[<<r, q>>]) >= 1
                BY <1>6, <4>3, <4>5, <5>1, <6>2
              <7>2. S[<<r, q>>] # <<>> /\ 1 \in 1 .. Len(S[<<r, q>>])
                <8>1. PICK len \in Nat : len = Len(S[<<r, q>>])
                  BY <1>10
                <8>2. S[<<r, q>>] # <<>>
                  BY <7>1
                <8> QED
                  BY <7>1, <8>1, <8>2
              <7>3. S2[<<r, q>>][1] = S[<<r, q>>][1]
                BY <1>10, <7>2
              <7> QED
                BY <4>3, <5>1, <7>2, <7>3
            <6>3. k <= Log \/ k > Log
              BY <1>1, <1>4 DEF HalvingNumbers
            <6> QED
              BY <6>1, <6>2, <6>3
          <5> QED
            BY <4>3, <5>1, <5>2, <5>3
        <4>6. CASE m # j
          <5>1. x # q
            BY <1>1, <1>5, <1>6, <4>6, Partners
          <5>2. S2[<<r, x>>] = S[<<r, x>>] /\ R2[<<x, r>>] = R[<<x, r>>]
            BY <1>10, <1>11, <4>2, <5>1
          <5>3. Meetings(m, k) = Meetings(m, k - 1)
            <6>1. Meetings(m, k - 1) \in Nat
              BY DEF Meetings
            <6> QED
              BY <4>4, <4>6, <6>1
          <5> QED
            BY <4>3, <5>2, <5>3
        <4> QED
          BY <4>5, <4>6
      <3>2. ASSUME NEW x \in Halving!Rank, \A m \in 1 .. Log : x # Partner(r, m)
            PROVE  S2[<<r, x>>] = S[<<r, x>>] /\ R2[<<x, r>>] = R[<<x, r>>]
        <4>1. x # q /\ <<x, r>> \in Halving!Pair /\ <<r, x>> \in Halving!Pair
          BY <1>5, <1>6, <3>2 DEF Halving!Pair
        <4> QED
          BY <1>10, <1>11, <4>1
      <3> QED
        BY <1>2, <1>3, <3>1, <3>2 DEF Exchanged
    <2> QED
      BY <1>2, <1>3, <2>1, <2>2, <2>3 DEF HalvingRank
  <1>13. HalvingType([A EXCEPT ![r] = c], S2, R2, D, H)
    <2>1. c \in HalvingObject
      BY DEF AfterSend
    <2> QED
      BY <1>1, <1>10, <1>11, <2>1 DEF HalvingType, X
  <1>14. DataStarted([A EXCEPT ![r] = c], S2, H)
    <2>1. \A x \in Halving!Rank :
             A[x].state # "created" => [A EXCEPT ![r] = c][x].state # "created"
      BY <1>1, StillStarted DEF AfterSend
    <2>2. \A x \in Halving!Rank : H[x] \subseteq Halving!Rank
      BY <1>1 DEF HalvingType
    <2>3. \A p \in Halving!Pair : \A m \in 1 .. Len(S[p]) : S[p][m].data \subseteq Halving!Rank
      BY <1>1, MessagesType
    <2>4. \A x \in H[r] : x \in Halving!Rank /\ A[x].state # "created"
      BY <1>1, <2>2 DEF DataStarted, AfterSend
    <2>5. ASSUME NEW p \in Halving!Pair, NEW m \in 1 .. Len(S2[p])
          PROVE  \A x \in S2[p][m].data : x \in Halving!Rank /\ A[x].state # "created"
      <3>0. PICK len \in Nat : len = Len(S[<<r, q>>])
        BY <1>10
      <3>1. CASE p # <<r, q>>
        <4>1. S2[p] = S[p]
          BY <1>10, <3>1, Zenon
        <4> QED
          BY <1>1, <2>3, <4>1, Zenon DEF DataStarted
      <3>2. CASE p = <<r, q>>
        <4>0. m \in 1 .. len + 1
          BY <1>10, <3>0, <3>2, Zenon
        <4>1. CASE m <= len
          <5>1. m \in 1 .. len
            BY <4>0, <4>1
          <5>2. S2[p][m] = S[p][m] /\ m \in 1 .. Len(S[p])
            BY <1>10, <3>0, <3>2, <5>1, Zenon
          <5> QED
            BY <1>1, <2>3, <5>2, Zenon DEF DataStarted
        <4>2. CASE m = len + 1
          <5>1. S2[p][m] = new
            BY <1>10, <3>0, <3>2, <4>2, Zenon
          <5> QED
            BY <2>4, <5>1
        <4> QED
          BY <4>0, <4>1, <4>2
      <3> QED
        BY <3>1, <3>2
    <2>6. \A x \in Halving!Rank : \A y \in H[x] : y = x \/ A[y].state # "created"
      BY <1>1 DEF DataStarted
    <2> QED
      BY <2>1, <2>2, <2>5, <2>6, Zenon DEF DataStarted
  <1>15. OnlyRank(r, S, S2, R, R2, D, D, H, H)
    <2>1. \A x, y \in Halving!Rank : x # r =>
             /\ <<y, x>> \in Halving!Pair /\ <<y, x>> # <<q, r>>
             /\ <<x, y>> \in Halving!Pair /\ <<x, y>> # <<r, q>>
      BY DEF Halving!Pair
    <2> QED
      BY <1>10, <1>11, <2>1 DEF OnlyRank
  <1>16. HalvingInvOf([A EXCEPT ![r] = c], S2, R2, D, H)
    BY <1>12, <1>13, <1>14, <1>15, HalvingFrame
  <1> QED
    BY <1>16 DEF S2, R2

\* General with nothing left to send: the packet is the last one back.
AfterLast(a, c) ==
    /\ c \in HalvingObject
    /\ a.state = "running" /\ c.state = "exited"
    /\ a.bundles = 1 /\ c.bundles = 0
    /\ a.free_packets = 0 /\ c.free_packets = 1
    /\ c.packets = <<>>
    /\ a.stream_count = 0 /\ c.stream_count = 0

\* Then the rank leaves.
LEMMA HalvingLeaves ==
    ASSUME NEW A, NEW S, NEW R, NEW D, NEW H, HalvingInvOf(A, S, R, D, H),
           NEW r \in Halving!Rank, NEW c, AfterLast(A[r], c)
    PROVE  HalvingInvOf([A EXCEPT ![r] = c], S, R, D, H)
  <1> DEFINE a == A[r]
  <1>1. /\ HalvingNumbers /\ A \in [Halving!Rank -> HalvingObject]
        /\ HalvingRank(r, a, S, R, D, H) /\ DataStarted(A, S, H)
        /\ HalvingType(A, S, R, D, H) /\ HalvingRounds \in Nat
    BY HalvingConstants DEF HalvingInvOf, HalvingType, HalvingNumbers
  <1>2. /\ SentRounds(a) = HalvingRounds /\ SentRounds(c) = HalvingRounds
        /\ ReceivedRounds(a) = HalvingRounds /\ ReceivedRounds(c) = HalvingRounds
    <2>1. SentRounds(a) = HalvingRounds /\ SentRounds(c) = HalvingRounds
      BY <1>1 DEF SentRounds, AfterLast
    <2>2. /\ ReceivedRounds(a) = SentRounds(a) + 0 + 1 - 1
          /\ ReceivedRounds(c) = SentRounds(c) + 1 + 0 - 1
      BY DEF ReceivedRounds, AfterLast
    <2> QED
      BY <1>1, <2>1, <2>2
  <1>3. HalvingRank(r, c, S, R, D, H)
    <2>1. OnePacket(c)
      BY <1>1, <1>2 DEF OnePacket, AfterLast
    <2>2. RightPeers(r, c)
      BY <1>1, <1>2 DEF RightPeers, Chosen, AfterLast
    <2>3. Exchanged(r, c, S, R, D)
      BY <1>1, <1>2 DEF HalvingRank, Exchanged
    <2> QED
      BY <1>1, <1>2, <2>1, <2>2, <2>3 DEF HalvingRank
  <1>4. HalvingType([A EXCEPT ![r] = c], S, R, D, H)
    BY <1>1 DEF HalvingType, AfterLast
  <1>5. DataStarted([A EXCEPT ![r] = c], S, H)
    <2>1. \A q \in Halving!Rank :
             A[q].state # "created" => [A EXCEPT ![r] = c][q].state # "created"
      BY <1>1, StillStarted DEF AfterLast
    <2>2. \A x \in Halving!Rank : H[x] \subseteq Halving!Rank
      BY <1>1 DEF HalvingType
    <2>3. \A p \in Halving!Pair : \A j \in 1 .. Len(S[p]) : S[p][j].data \subseteq Halving!Rank
      BY <1>1, MessagesType
    <2> QED
      BY <1>1, <2>1, <2>2, <2>3, Zenon DEF DataStarted
  <1>6. OnlyRank(r, S, S, R, R, D, D, H, H)
    BY DEF OnlyRank
  <1> QED
    BY <1>3, <1>4, <1>5, <1>6, HalvingFrame

\* run(General) in these terms.
LEMMA HalvingGeneral ==
    ASSUME HalvingInv, NEW r \in Halving!Rank, Halving!run_General(r)
    PROVE  \E c : /\ alg' = [alg EXCEPT ![r] = c]
                  /\ \/ /\ AfterLast(alg[r], c)
                        /\ sends' = sends /\ recvs' = recvs
                     \/ LET p == alg[r].packets[1] IN
                        /\ AfterSend(alg[r], c) /\ p.size \in Nat
                        /\ sends' = [sends EXCEPT ![<<r, p.peer>>] =
                                        Append(sends[<<r, p.peer>>],
                                               [size |-> p.size, data |-> holds[r]])]
                        /\ recvs' = [recvs EXCEPT ![<<p.peer, r>>] =
                                        Append(recvs[<<p.peer, r>>], p.size)]
  <1> DEFINE a == [alg[r] EXCEPT !.bundles = @ - 1, !.free_packets = @ + 1]
             b == IF Halving!CanSend(a) THEN Halving!reduce(a) ELSE a
             d == IF Halving!iteratable(b) THEN b
                  ELSE [b EXCEPT !.state = "exited", !.packets = <<>>]
  <1>1. /\ alg \in [Halving!Rank -> HalvingObject] /\ OnePacket(alg[r])
        /\ sends \in [Halving!Pair -> Seq([size : Nat, data : SUBSET Halving!Rank])]
        /\ recvs \in [Halving!Pair -> Seq(Nat)]
    BY DEF HalvingInv, HalvingInvOf, HalvingType, HalvingRank
  <1>2. PICK y \in HalvingObject : y = alg[r]
    BY <1>1
  <1>3. /\ y.state = "running" /\ y.bundles = 1 /\ y.free_packets = 0 /\ Len(y.packets) = 1
        /\ y.stream_count \in Nat /\ y.packets \in Seq([peer : Halving!Rank, size : Nat])
    <2>1. y.state = "running" /\ y.bundles > 0
      BY <1>2 DEF Halving!run_General
    <2>2. y.bundles # 0
      BY <2>1
    <2> QED
      BY <1>1, <1>2, <2>1, <2>2 DEF OnePacket, HalvingObject
  <1>4. y.packets # <<>> /\ Tail(y.packets) = <<>> /\ Head(y.packets) = y.packets[1]
        /\ y.packets[1] \in [peer : Halving!Rank, size : Nat]
    <2>1. \A X : \A s \in Seq(X) : Len(s) = 1 =>
             s # <<>> /\ Tail(s) = <<>> /\ Head(s) = s[1] /\ s[1] \in X
      OBVIOUS
    <2> QED
      BY <1>3, <2>1, Zenon
  <1>5. a = [y EXCEPT !.bundles = 0, !.free_packets = 1]
    <2>1. y.bundles - 1 = 0 /\ y.free_packets + 1 = 1
      BY <1>3
    <2> QED
      BY <1>2, <2>1
  <1>6. /\ a \in HalvingObject /\ a.state = "running" /\ a.bundles = 0 /\ a.free_packets = 1
        /\ a.packets = y.packets /\ a.stream_count = y.stream_count
        /\ a.rank_offset = y.rank_offset /\ a.peer = y.peer
    <2> HIDE DEF a
    <2>1. a \in HalvingObject
      BY <1>5 DEF HalvingObject
    <2> QED
      BY <1>3, <1>5, <2>1 DEF HalvingObject
  <1>7. a.doubling = y.doubling
    <2> HIDE DEF a
    <2> QED
      BY <1>5, Zenon DEF HalvingObject
  <1>8. alg' = [alg EXCEPT ![r] = d]
    BY DEF Halving!run_General
  <1>9. IF Halving!CanSend(a) THEN Halving!ready(r, a) ELSE UNCHANGED <<sends, recvs>>
    BY DEF Halving!run_General
  <1> HIDE DEF a
  <1>10. CASE y.stream_count = 0
    <2>1. ~Halving!CanSend(a)
      BY <1>6, <1>10 DEF Halving!CanSend
    <2>2. b = a
      BY <2>1
    <2>3. ~Halving!iteratable(b)
      BY <1>6, <1>10, <2>2 DEF Halving!iteratable
    <2>4. d = [a EXCEPT !.state = "exited", !.packets = <<>>]
      BY <2>2, <2>3
    <2> HIDE DEF b, d
    <2>5. d \in HalvingObject
      <3>1. <<>> \in Seq([peer : Halving!Rank, size : Nat])
        OBVIOUS
      <3> QED
        BY <1>6, <2>4, <3>1 DEF HalvingObject
    <2>6. AfterLast(y, d)
      BY <1>3, <1>6, <1>10, <2>4, <2>5 DEF AfterLast, HalvingObject
    <2>7. sends' = sends /\ recvs' = recvs
      BY <1>9, <2>1
    <2> QED
      BY <1>2, <1>8, <2>6, <2>7
  <1>11. CASE y.stream_count # 0
    <2>0. y.stream_count > 0 /\ y.stream_count - 1 \in Nat
      BY <1>3, <1>11
    <2>1. Halving!CanSend(a)
      BY <1>4, <1>6, <2>0 DEF Halving!CanSend
    <2>2. b = [a EXCEPT !.packets = <<>>, !.stream_count = y.stream_count - 1,
                        !.free_packets = 0]
      <3>1. b = [a EXCEPT !.packets = Tail(a.packets), !.stream_count = a.stream_count - 1,
                          !.free_packets = a.free_packets - 1]
        BY <2>1 DEF Halving!reduce
      <3>2. Tail(a.packets) = <<>> /\ a.free_packets - 1 = 0
        BY <1>4, <1>6
      <3> QED
        BY <1>6, <3>1, <3>2
    <2>3. b \in HalvingObject
      <3>1. <<>> \in Seq([peer : Halving!Rank, size : Nat])
        OBVIOUS
      <3>2. PICK s \in Nat : s = y.stream_count - 1
        BY <2>0
      <3> HIDE DEF b
      <3>3. b = [a EXCEPT !.packets = <<>>, !.stream_count = s, !.free_packets = 0]
        BY <2>2, <3>2
      <3> QED
        BY <1>6, <3>1, <3>3 DEF HalvingObject
    <2>4. /\ b.state = "running" /\ b.bundles = 0 /\ b.free_packets = 0
          /\ b.packets = <<>> /\ b.stream_count = y.stream_count - 1
          /\ b.rank_offset = y.rank_offset /\ b.peer = y.peer
      <3> HIDE DEF b
      <3> QED
        BY <1>6, <2>2 DEF HalvingObject
    <2>5. b.doubling = y.doubling
      <3> HIDE DEF b
      <3> QED
        BY <1>6, <1>7, <2>2, Zenon DEF HalvingObject
    <2>6. Halving!iteratable(b)
      <3> HIDE DEF b
      <3> QED
        BY <2>4 DEF Halving!iteratable
    <2>7. d = b
      BY <2>6
    <2> HIDE DEF b, d
    <2>8. AfterSend(y, d)
      BY <1>3, <2>0, <2>3, <2>4, <2>5, <2>7 DEF AfterSend
    <2>9. /\ sends' = [sends EXCEPT ![<<r, y.packets[1].peer>>] =
                          Append(sends[<<r, y.packets[1].peer>>],
                                 [size |-> y.packets[1].size, data |-> holds[r]])]
          /\ recvs' = [recvs EXCEPT ![<<y.packets[1].peer, r>>] =
                          Append(recvs[<<y.packets[1].peer, r>>], y.packets[1].size)]
      BY <1>4, <1>6, <1>9, <2>1 DEF Halving!ready
    <2>10. y.packets[1].size \in Nat
      BY <1>4
    <2> QED
      BY <1>2, <1>8, <2>8, <2>9, <2>10
  <1> QED
    BY <1>10, <1>11

\* The invariant holds at first.
LEMMA HalvingInitially ==
    ASSUME Halving!Init
    PROVE  HalvingInv
  <1>1. /\ config \in HalvingConfig
        /\ alg = [r \in Halving!Rank |-> Halving!NewAlgorithm(r)]
        /\ sends = [p \in Halving!Pair |-> <<>>] /\ recvs = [p \in Halving!Pair |-> <<>>]
        /\ delivered = [p \in Halving!Pair |-> 0]
        /\ holds = [r \in Halving!Rank |-> {r}]
    BY DEF Halving!Init
  <1>2. HalvingNumbers
    BY <1>1, HalvingConstants
  <1>3. PICK up \in BOOLEAN : up = (config.type # "All_Gather")
    OBVIOUS
  <1>4. /\ 2^Exponent(1) = (IF up THEN 1 ELSE config.nodes \div 2)
        /\ 1 <= HalvingRounds /\ 2^Exponent(1) \in Nat /\ 0 < Log
    <2>1. /\ Log \in 1 .. 10 /\ Log - 1 \in 0 .. 9 /\ 2^Log = config.nodes
          /\ config.nodes \in Nat /\ (Log - 1) + 1 = Log
      BY <1>2 DEF HalvingNumbers
    <2>2. 2^0 = 1 /\ 2^Log = 2 * 2^(Log - 1) /\ 2^(Log - 1) \in Nat
      <3>1. Log - 1 \in 0 .. 10
        BY <2>1
      <3> QED
        BY <2>1, <3>1, Powers
    <2>3. PICK o \in Nat : o = 2^(Log - 1)
      BY <2>2
    <2>4. config.nodes \div 2 = o
      BY <2>1, <2>2, <2>3
    <2>5. (up /\ Exponent(1) = 0) \/ (~up /\ Exponent(1) = Log - 1)
      <3>1. (up /\ config.type # "All_Gather") \/ (~up /\ config.type = "All_Gather")
        <4>1. CASE config.type = "All_Gather"
          <5>1. ~up
            BY <1>3, <4>1
          <5> QED
            BY <4>1, <5>1
        <4>2. CASE config.type # "All_Gather"
          <5>1. up
            BY <1>3, <4>2
          <5> QED
            BY <4>2, <5>1
        <4> QED
          BY <4>1, <4>2
      <3>2. /\ config.type # "All_Gather" => Exponent(1) = 0
            /\ config.type = "All_Gather" => Exponent(1) = Log - 1
        BY <2>1 DEF Exponent
      <3> QED
        BY <3>1, <3>2, Zenon
    <2>6. 1 <= HalvingRounds /\ 0 < Log
      BY <1>2, <2>1 DEF HalvingNumbers
    <2>7. 2^Exponent(1) \in Nat
      <3>1. Exponent(1) \in 0 .. 10
        BY <2>1, <2>5
      <3> QED
        BY <3>1, Powers
    <2>8. 2^Exponent(1) = IF up THEN 1 ELSE config.nodes \div 2
      BY <2>2, <2>3, <2>4, <2>5, Zenon
    <2> QED
      BY <2>6, <2>7, <2>8
  <1>5. ASSUME NEW r \in Halving!Rank
        PROVE  /\ alg[r] \in HalvingObject /\ alg[r].state = "created"
               /\ alg[r].stream_count = HalvingRounds
               /\ alg[r].free_packets = 0 /\ alg[r].bundles = 0 /\ alg[r].packets = <<>>
               /\ alg[r].rank_offset = 2^Exponent(1) /\ alg[r].doubling = up
               /\ alg[r].peer = Partner(r, 1)
    <2>1. PICK m \in Nat : m = IF up THEN config.data_size \div 2 ELSE config.data_size
      BY <1>2 DEF HalvingNumbers
    <2>2. PICK o \in Nat : o = 2^Exponent(1)
      BY <1>4
    <2>3. PICK q \in Halving!Rank : q = Halving!Peer(r, o)
      BY <1>2, PeerIsRank
    <2>4. alg[r] =
             [ state |-> "created", stream_count |-> HalvingRounds,
               rank_offset |-> o, doubling |-> up, msg_size |-> m, peer |-> q,
               zero_latency_packets |-> 0, non_zero_latency_packets |-> 0,
               free_packets |-> 0, packets |-> <<>>, bundles |-> 0 ]
      <3>1. alg[r] = Halving!NewAlgorithm(r)
        BY <1>1
      <3>2. (config.type # "All_Gather") = up
        BY <1>3
      <3>3. (IF up THEN 1 ELSE config.nodes \div 2) = o
        BY <1>4, <2>2
      <3>4. (IF config.type = "All_Reduce" THEN 2 * Halving!log2(config.nodes)
             ELSE Halving!log2(config.nodes)) = HalvingRounds
        BY DEF HalvingRounds, Log
      <3> QED
        BY <2>1, <2>3, <3>1, <3>2, <3>3, <3>4, Zenon DEF Halving!NewAlgorithm
    <2>5. <<>> \in Seq([peer : Halving!Rank, size : Nat]) /\ HalvingRounds \in Nat
      BY <1>2 DEF HalvingNumbers
    <2>6. alg[r] \in HalvingObject
      BY <2>4, <2>5 DEF HalvingObject
    <2>7. alg[r].doubling = up
      BY <2>4
    <2>8. q = Partner(r, 1)
      BY <2>2, <2>3 DEF Partner
    <2> QED
      BY <2>2, <2>4, <2>6, <2>7, <2>8
  <1>6. HalvingType(alg, sends, recvs, delivered, holds)
    <2>1. \A X : <<>> \in Seq(X)
      OBVIOUS
    <2>2. alg \in [Halving!Rank -> HalvingObject]
      BY <1>1, <1>5
    <2>3. /\ sends \in [Halving!Pair -> Seq([size : Nat, data : SUBSET Halving!Rank])]
          /\ recvs \in [Halving!Pair -> Seq(Nat)] /\ delivered \in [Halving!Pair -> Nat]
          /\ holds \in [Halving!Rank -> SUBSET Halving!Rank]
      BY <1>1, <2>1
    <2> QED
      BY <1>1, <2>2, <2>3 DEF HalvingType
  <1>7. ASSUME NEW r \in Halving!Rank
        PROVE  HalvingRank(r, alg[r], sends, recvs, delivered, holds)
    <2>1. SentRounds(alg[r]) = 0 /\ ReceivedRounds(alg[r]) = 0
      BY <1>2, <1>5 DEF SentRounds, ReceivedRounds, HalvingNumbers
    <2>2. OnePacket(alg[r])
      BY <1>5, <2>1 DEF OnePacket
    <2>3. RightPeers(r, alg[r])
      <3>1. 0 + 1 = 1
        OBVIOUS
      <3>2. alg[r].doubling = (config.type # "All_Gather" /\ 0 < Log)
        BY <1>3, <1>4, <1>5, Zenon
      <3>3. Chosen(r, alg[r], 0)
        BY <1>5, <3>1, <3>2, Zenon DEF Chosen
      <3> QED
        BY <1>5, <3>3 DEF RightPeers
    <2>4. Exchanged(r, alg[r], sends, recvs, delivered)
      <3>1. \A q \in Halving!Rank : sends[<<r, q>>] = <<>> /\ recvs[<<q, r>>] = <<>>
                                    /\ delivered[<<q, r>>] = 0
        <4>1. \A q \in Halving!Rank : <<r, q>> \in Halving!Pair /\ <<q, r>> \in Halving!Pair
          BY DEF Halving!Pair
        <4> QED
          BY <1>1, <4>1
      <3>2. \A i \in 1 .. Log : Partner(r, i) \in Halving!Rank
        <4>1. \A i \in 1 .. Log : i \in 1 .. HalvingRounds
          BY <1>2 DEF HalvingNumbers
        <4> QED
          BY <1>2, <4>1, Partners
      <3>3. \A i \in 1 .. Log : Meetings(i, 0) = 0
        BY <1>2 DEF Meetings, HalvingNumbers
      <3>4. Len(<<>>) = 0
        OBVIOUS
      <3> QED
        BY <2>1, <3>1, <3>2, <3>3, <3>4 DEF Exchanged
    <2>5. holds[r] = Gathered(r, 0)
      BY <1>1, <1>2, GatheredGrows
    <2> QED
      BY <2>1, <2>2, <2>3, <2>4, <2>5 DEF HalvingRank
  <1>8. DataStarted(alg, sends, holds)
    BY <1>1 DEF DataStarted
  <1> QED
    BY <1>6, <1>7, <1>8 DEF HalvingInv, HalvingInvOf

\* A step of HalvingDoubling keeps it.
LEMMA HalvingStep ==
    ASSUME HalvingInv, Halving!Next
    PROVE  /\ config' = config
           /\ HalvingInvOf(alg', sends', recvs', delivered', holds')
           /\ OneMoves(Halving!Rank)
  <1>1. PICK r \in Halving!Rank :
           \/ Halving!run_StreamInit(r)
           \/ \E src \in Halving!Rank : Halving!run_PacketReceived(r, src)
           \/ Halving!run_General(r)
    BY DEF Halving!Next
  <1>2. /\ alg \in [Halving!Rank -> HalvingObject]
        /\ HalvingInvOf(alg, sends, recvs, delivered, holds)
        /\ delivered \in [Halving!Pair -> Nat]
        /\ holds \in [Halving!Rank -> SUBSET Halving!Rank]
    BY DEF HalvingInv, HalvingInvOf, HalvingType
  <1>3. CASE Halving!run_StreamInit(r)
    <2> DEFINE c == Halving!insert_packet([alg[r] EXCEPT !.state = "running"], r)
    <2>1. alg[r].state = "created" /\ UNCHANGED <<config, sends, recvs, delivered, holds>>
      BY <1>3 DEF Halving!run_StreamInit
    <2>2. alg' = [alg EXCEPT ![r] = c]
      BY <1>3 DEF Halving!run_StreamInit
    <2>3. HalvingInvOf([alg EXCEPT ![r] = c], sends, recvs, delivered, holds)
          /\ c.state = "running"
      BY <1>2, <2>1, HalvingStarts
    <2> HIDE DEF c
    <2>4. OneMoves(Halving!Rank)
      BY <1>2, <2>1, <2>2, <2>3 DEF OneMoves
    <2> QED
      BY <2>1, <2>2, <2>3, <2>4
  <1>4. ASSUME NEW src \in Halving!Rank, Halving!run_PacketReceived(r, src)
        PROVE  /\ config' = config
               /\ HalvingInvOf(alg', sends', recvs', delivered', holds')
               /\ OneMoves(Halving!Rank)
    <2> DEFINE n == delivered[<<src, r>>] + 1
               c == Halving!insert_packet(alg[r], r)
    <2>1. /\ alg[r].state = "running"
          /\ n <= Len(sends[<<src, r>>]) /\ n <= Len(recvs[<<src, r>>])
          /\ delivered' = [delivered EXCEPT ![<<src, r>>] = n]
          /\ holds' = [holds EXCEPT ![r] = holds[r] \cup sends[<<src, r>>][n].data]
          /\ UNCHANGED <<config, sends, recvs>>
      BY <1>4 DEF Halving!run_PacketReceived
    <2>2. alg' = [alg EXCEPT ![r] = c]
      BY <1>4 DEF Halving!run_PacketReceived
    <2>3. /\ HalvingInvOf([alg EXCEPT ![r] = c], sends, recvs,
                          [delivered EXCEPT ![<<src, r>>] = n],
                          [holds EXCEPT ![r] = holds[r] \cup sends[<<src, r>>][n].data])
          /\ c.state = "running"
      <3>1. /\ alg[r].state = "running"
            /\ n <= Len(sends[<<src, r>>]) /\ n <= Len(recvs[<<src, r>>])
        BY <2>1
      <3>2. HalvingInvOf(alg, sends, recvs, delivered, holds)
        BY <1>2
      <3> QED
        BY <3>1, <3>2, HalvingReceives
    <2> HIDE DEF c, n
    <2>4. OneMoves(Halving!Rank)
      BY <1>2, <2>1, <2>2, <2>3 DEF OneMoves
    <2> QED
      BY <2>1, <2>2, <2>3, <2>4
  <1>5. CASE Halving!run_General(r)
    <2> DEFINE p == alg[r].packets[1]
    <2>1. UNCHANGED <<config, delivered, holds>>
      BY <1>5 DEF Halving!run_General
    <2>2. PICK c :
             /\ alg' = [alg EXCEPT ![r] = c]
             /\ \/ /\ AfterLast(alg[r], c)
                   /\ sends' = sends /\ recvs' = recvs
                \/ /\ AfterSend(alg[r], c) /\ p.size \in Nat
                   /\ sends' = [sends EXCEPT ![<<r, p.peer>>] =
                                   Append(sends[<<r, p.peer>>],
                                          [size |-> p.size, data |-> holds[r]])]
                   /\ recvs' = [recvs EXCEPT ![<<p.peer, r>>] =
                                   Append(recvs[<<p.peer, r>>], p.size)]
      BY <1>5, HalvingGeneral
    <2>3. CASE AfterLast(alg[r], c) /\ sends' = sends /\ recvs' = recvs
      <3>1. HalvingInvOf([alg EXCEPT ![r] = c], sends, recvs, delivered, holds)
        BY <1>2, <2>3, HalvingLeaves
      <3>2. OneMoves(Halving!Rank)
        BY <1>2, <2>2, <2>3 DEF OneMoves, AfterLast
      <3> QED
        BY <2>1, <2>2, <2>3, <3>1, <3>2
    <2>4. CASE /\ AfterSend(alg[r], c) /\ p.size \in Nat
               /\ sends' = [sends EXCEPT ![<<r, p.peer>>] =
                               Append(sends[<<r, p.peer>>],
                                      [size |-> p.size, data |-> holds[r]])]
               /\ recvs' = [recvs EXCEPT ![<<p.peer, r>>] =
                               Append(recvs[<<p.peer, r>>], p.size)]
      <3>1. PICK q, size : q = p.peer /\ size = p.size
        OBVIOUS
      <3>2. HalvingInvOf([alg EXCEPT ![r] = c],
                         [sends EXCEPT ![<<r, q>>] =
                             Append(sends[<<r, q>>], [size |-> size, data |-> holds[r]])],
                         [recvs EXCEPT ![<<q, r>>] = Append(recvs[<<q, r>>], size)],
                         delivered, holds)
        BY <1>2, <2>4, <3>1, HalvingSends
      <3>3. OneMoves(Halving!Rank)
        BY <1>2, <2>2, <2>4 DEF OneMoves, AfterSend
      <3> QED
        BY <2>1, <2>2, <2>4, <3>1, <3>2, <3>3
    <2> QED
      BY <2>2, <2>3, <2>4
  <1> QED
    BY <1>1, <1>3, <1>4, <1>5

\* The invariant speaks of the configuration, which stays.
LEMMA HalvingPrime ==
    ASSUME config' = config, HalvingInvOf(alg', sends', recvs', delivered', holds')
    PROVE  HalvingInv'
  <1>1. /\ Halving!Rank' = Halving!Rank /\ Halving!Pair' = Halving!Pair
        /\ Log' = Log /\ HalvingRounds' = HalvingRounds /\ HalvingObject' = HalvingObject
    BY DEF Halving!Rank, Halving!Pair, Log, Halving!log2, HalvingRounds, HalvingObject
  <1>2. /\ \A i : Exponent(i)' = Exponent(i)
        /\ \A r, i : Partner(r, i)' = Partner(r, i)
        /\ \A r, i : Gathered(r, i)' = Gathered(r, i)
        /\ \A i, k : Meetings(i, k)' = Meetings(i, k)
    BY <1>1 DEF Exponent, Partner, Halving!Peer, Halving!specify_direction, Gathered,
                Meetings
  <1>3. HalvingType(alg, sends, recvs, delivered, holds)'
    BY <1>1 DEF HalvingInvOf, HalvingType
  <1>4. DataStarted(alg, sends, holds)'
    BY <1>1 DEF HalvingInvOf, DataStarted
  <1>5. ASSUME NEW r \in Halving!Rank
        PROVE  HalvingRank(r, alg[r], sends, recvs, delivered, holds)'
    <2> DEFINE a == alg'[r]
    <2>1. HalvingRank(r, a, sends', recvs', delivered', holds')
      BY DEF HalvingInvOf
    <2>2. /\ SentRounds(alg[r])' = SentRounds(a)
          /\ ReceivedRounds(alg[r])' = ReceivedRounds(a)
      BY <1>1 DEF SentRounds, ReceivedRounds
    <2>3. OnePacket(alg[r])'
      BY <1>1, <2>1 DEF HalvingRank, OnePacket, SentRounds
    <2>4. RightPeers(r, alg[r])'
      BY <1>1, <1>2, <2>1, <2>2 DEF HalvingRank, RightPeers, Chosen
    <2>5. Exchanged(r, alg[r], sends, recvs, delivered)'
      BY <1>1, <1>2, <2>1, <2>2 DEF HalvingRank, Exchanged
    <2> QED
      BY <1>1, <1>2, <2>1, <2>2, <2>3, <2>4, <2>5 DEF HalvingRank
  <1> QED
    BY <1>1, <1>3, <1>4, <1>5 DEF HalvingInv, HalvingInvOf

-----------------------------------------------------------------------------
(***************************************************************************)
(* What follows from the invariant of HalvingDoubling.                     *)
(***************************************************************************)

\* A rank that has left has received in every round it has sent in.
LEMMA HalvingExits ==
    ASSUME HalvingInv
    PROVE  Halving!NothingOutstanding
  <1> SUFFICES ASSUME NEW r \in Halving!Rank, alg[r].state = "exited"
               PROVE  /\ alg[r].bundles = 0
                      /\ \A src \in Halving!Rank :
                            delivered[<<src, r>>] = Len(recvs[<<src, r>>])
    BY DEF Halving!NothingOutstanding
  <1>1. OnePacket(alg[r]) /\ Exchanged(r, alg[r], sends, recvs, delivered)
    BY DEF HalvingInv, HalvingInvOf, HalvingRank
  <1>2. alg[r].bundles = 0 /\ alg[r].free_packets = 1 /\ SentRounds(alg[r]) \in Nat
    BY <1>1 DEF OnePacket
  <1>3. ReceivedRounds(alg[r]) = SentRounds(alg[r])
    <2>1. ReceivedRounds(alg[r]) = SentRounds(alg[r]) + 1 + 0 - 1
      BY <1>2 DEF ReceivedRounds
    <2> QED
      BY <1>2, <2>1
  <1>4. Len(<<>>) = 0
    OBVIOUS
  <1> QED
    BY <1>1, <1>2, <1>3, <1>4 DEF Exchanged

\* It has the data of all ranks, and so does one in the second half.
LEMMA HalvingContributes ==
    ASSUME HalvingInv
    PROVE  Halving!AllContribute
  <1> SUFFICES ASSUME NEW r \in Halving!Rank,
                      \/ alg[r].state = "exited"
                      \/ config.type = "All_Reduce" /\ alg[r].stream_count < Log
               PROVE  holds[r] = Halving!Rank
    BY DEF Halving!AllContribute, Log
  <1>1. /\ HalvingNumbers /\ alg[r] \in HalvingObject /\ OnePacket(alg[r])
        /\ holds[r] = Gathered(r, ReceivedRounds(alg[r]))
    BY HalvingConstants DEF HalvingInv, HalvingInvOf, HalvingRank, HalvingType
  <1>2. ReceivedRounds(alg[r]) >= Log
    <2>1. PICK h \in Nat, l \in Nat, s \in Nat :
             h = HalvingRounds /\ l = Log /\ s = alg[r].stream_count
      <3>1. HalvingRounds \in Nat /\ Log \in Nat
        BY <1>1 DEF HalvingNumbers
      <3>2. alg[r].stream_count \in Nat
        BY <1>1 DEF HalvingObject
      <3> QED
        BY <3>1, <3>2
    <2>2. SentRounds(alg[r]) = h - s
      BY <2>1 DEF SentRounds
    <2>3. CASE alg[r].state = "exited"
      <3>1. /\ ReceivedRounds(alg[r]) = SentRounds(alg[r]) + 1 + 0 - 1 /\ s = 0 /\ h >= l
        BY <1>1, <2>1, <2>3 DEF ReceivedRounds, OnePacket, HalvingNumbers
      <3> QED
        BY <2>1, <2>2, <3>1
    <2>4. CASE alg[r].state # "exited"
      <3>1. s < l /\ h = 2 * l /\ l >= 1
        BY <1>1, <2>1, <2>4 DEF HalvingNumbers
      <3>2. SentRounds(alg[r]) > l
        BY <2>2, <3>1
      <3>3. alg[r].state = "running"
        <4>1. alg[r].state = "created" => SentRounds(alg[r]) = 0
          BY <1>1 DEF OnePacket
        <4>2. alg[r].state \in {"created", "running", "exited"}
          BY <1>1 DEF HalvingObject
        <4> QED
          BY <2>4, <3>2, <4>1, <4>2
      <3>4. PICK b \in {0, 1} : ReceivedRounds(alg[r]) = SentRounds(alg[r]) + 0 + b - 1
        BY <1>1, <3>3 DEF OnePacket, ReceivedRounds
      <3> QED
        BY <2>1, <2>2, <3>2, <3>4
    <2> QED
      BY <2>3, <2>4
  <1> QED
    BY <1>1, <1>2, GatheredGrows

\* No rank leaves before all have started: it has data of them all.
LEMMA HalvingBarrier ==
    ASSUME HalvingInv, NEW r \in Halving!Rank, alg[r].state = "exited"
    PROVE  \A q \in Halving!Rank : alg[q].state # "created"
  <1>1. holds[r] = Halving!Rank
    BY HalvingContributes DEF Halving!AllContribute
  <1>2. DataStarted(alg, sends, holds)
    BY DEF HalvingInv, HalvingInvOf
  <1> QED
    BY <1>1, <1>2 DEF DataStarted

-----------------------------------------------------------------------------
(***************************************************************************)
(* A phase is a barrier.                                                   *)
(***************************************************************************)
Started(ranks) == {r \in ranks : alg[r].state # "created"}

Exited(ranks) == {r \in ranks : alg[r].state = "exited"}

\* If a step moves one rank, and after it a rank has exited only if all have
\* started, it is a step of CollectivePhase or changes nothing of it.
LEMMA BarrierStep ==
    ASSUME kind # "tree", kind' = kind,
           NEW ranks, alg = [r \in ranks |-> alg[r]], OneMoves(ranks),
           \A r, q \in ranks : alg'[r].state = "exited" => alg'[q].state # "created"
    PROVE  [Phase!PNext]_<<DOMAIN alg, Started(DOMAIN alg), Exited(DOMAIN alg)>>
  <1>1. DOMAIN alg = ranks
    OBVIOUS
  <1>2. PICK r \in ranks :
           /\ alg' = [alg EXCEPT ![r] = alg'[r]]
           /\ \/ alg[r].state = "created" /\ alg'[r].state = "running"
              \/ alg[r].state = "running" /\ alg'[r].state \in {"running", "exited"}
    BY DEF OneMoves
  <1>3. DOMAIN alg' = ranks /\ \A q \in ranks : q # r => alg'[q] = alg[q]
    BY <1>1, <1>2
  <1>4. CASE alg[r].state = "created" /\ alg'[r].state = "running"
    <2>1. Started(ranks)' = Started(ranks) \cup {r} /\ r \notin Started(ranks)
      BY <1>2, <1>3, <1>4 DEF Started
    <2>2. Exited(ranks)' = Exited(ranks)
      BY <1>2, <1>3, <1>4 DEF Exited
    <2>3. Phase!start(r)
      BY <1>1, <1>3, <2>1, <2>2 DEF Phase!start, Started, Exited
    <2> QED
      BY <1>1, <2>3 DEF Phase!PNext
  <1>5. CASE alg[r].state = "running" /\ alg'[r].state = "running"
    <2>1. Started(ranks)' = Started(ranks) /\ Exited(ranks)' = Exited(ranks)
      BY <1>2, <1>3, <1>5 DEF Started, Exited
    <2> QED
      BY <1>1, <1>3, <2>1 DEF Started, Exited
  <1>6. CASE alg[r].state = "running" /\ alg'[r].state = "exited"
    <2>1. Started(ranks)' = Started(ranks)
      BY <1>2, <1>3, <1>6 DEF Started
    <2>2. Exited(ranks)' = Exited(ranks) \cup {r} /\ r \notin Exited(ranks)
      BY <1>2, <1>3, <1>6 DEF Exited
    <2>3. Started(ranks) = ranks
      BY <1>3, <1>6, <2>1 DEF Started
    <2>4. Phase!end(r)
      BY <1>1, <1>3, <2>1, <2>2, <2>3 DEF Phase!end, Started, Exited
    <2> QED
      BY <1>1, <2>4 DEF Phase!PNext
  <1> QED
    BY <1>2, <1>4, <1>5, <1>6

-----------------------------------------------------------------------------
(***************************************************************************)
(* The theorems.                                                           *)
(***************************************************************************)
RingKept == kind = "ring" => RingInv

HalvingKept == kind = "halving" => HalvingInv

\* The invariant of Ring and AllToAll holds in every behaviour: their counters are
\* the packets and messages they stand for.
THEOREM RingInvariant == Spec => []RingKept
  <1>1. Init => RingKept
    <2> SUFFICES ASSUME Init, kind = "ring"
                 PROVE  RingInv
      BY DEF RingKept
    <2>1. Ring!Init
      BY DEF Init, InitRing, InitHalving, InitTree, InitCustom
    <2> QED
      BY <2>1, RingInitially
  <1>2. RingKept /\ [Next]_vars => RingKept'
    <2> SUFFICES ASSUME RingKept, [Next]_vars, kind' = "ring"
                 PROVE  RingInv'
      BY DEF RingKept
    <2>1. CASE NextRing
      <3>1. RingInv /\ Ring!Next
        BY <2>1 DEF NextRing, RingKept
      <3> QED
        BY <3>1, RingStep, RingPrime
    <2>2. CASE UNCHANGED vars
      <3>1. /\ kind' = kind /\ config' = config /\ alg' = alg /\ sends' = sends
            /\ recvs' = recvs /\ delivered' = delivered
        BY <2>2 DEF vars
      <3>2. RingInvOf(alg', sends', recvs', delivered')
        BY <3>1 DEF RingKept, RingInv
      <3> QED
        BY <3>1, <3>2, RingPrime
    <2>3. CASE NextHalving \/ NextTree \/ NextCustom
      BY <2>3 DEF NextHalving, NextTree, NextCustom
    <2> QED
      BY <2>1, <2>2, <2>3 DEF Next
  <1> QED
    BY <1>1, <1>2, PTL DEF Spec

\* The invariant of HalvingDoubling holds in every behaviour: a rank has one packet,
\* which goes to the peer of its round, and has the data of the rounds it received.
THEOREM HalvingInvariant == Spec => []HalvingKept
  <1>1. Init => HalvingKept
    <2> SUFFICES ASSUME Init, kind = "halving"
                 PROVE  HalvingInv
      BY DEF HalvingKept
    <2>1. Halving!Init
      BY DEF Init, InitRing, InitHalving, InitTree, InitCustom
    <2> QED
      BY <2>1, HalvingInitially
  <1>2. HalvingKept /\ [Next]_vars => HalvingKept'
    <2> SUFFICES ASSUME HalvingKept, [Next]_vars, kind' = "halving"
                 PROVE  HalvingInv'
      BY DEF HalvingKept
    <2>1. CASE NextHalving
      <3>1. HalvingInv /\ Halving!Next
        BY <2>1 DEF NextHalving, HalvingKept
      <3> QED
        BY <3>1, HalvingStep, HalvingPrime
    <2>2. CASE UNCHANGED vars
      <3>1. /\ kind' = kind /\ config' = config /\ alg' = alg /\ sends' = sends
            /\ recvs' = recvs /\ delivered' = delivered /\ holds' = holds
        BY <2>2 DEF vars
      <3>2. HalvingInvOf(alg', sends', recvs', delivered', holds')
        BY <3>1 DEF HalvingKept, HalvingInv
      <3> QED
        BY <3>1, <3>2, HalvingPrime
    <2>3. CASE NextRing \/ NextTree \/ NextCustom
      BY <2>3 DEF NextRing, NextTree, NextCustom
    <2> QED
      BY <2>1, <2>2, <2>3 DEF Next
  <1> QED
    BY <1>1, <1>2, PTL DEF Spec

\* The algorithms that count packets.
Counting == kind \in {"ring", "halving"}

\* When a rank leaves Ring, AllToAll or HalvingDoubling, no bundle of it is on the
\* bus and every receive it posted is answered (NothingOutstanding): exit() deletes
\* an object that nobody will call.
THEOREM LeavesNothing == Spec => [](Counting => NothingOutstanding)
  <1>1. RingKept /\ HalvingKept => (Counting => NothingOutstanding)
    BY RingExits, HalvingExits DEF RingKept, HalvingKept, Counting, NothingOutstanding
  <1> QED
    BY <1>1, RingInvariant, HalvingInvariant, PTL

\* What these algorithms send in the second half of an all-reduce is fully reduced
\* (ReducedBeforeGathered), though they only count messages.
THEOREM ReducesFirst == Spec => [](Counting => ReducedBeforeGathered)
  <1>1. RingKept /\ HalvingKept => (Counting => ReducedBeforeGathered)
    BY RingReduces, HalvingContributes
    DEF RingKept, HalvingKept, Counting, ReducedBeforeGathered
  <1> QED
    BY <1>1, RingInvariant, HalvingInvariant, PTL

\* All packets of Ring and AllToAll are accounted for (BookkeepingExact), on which
\* iteratable() rests.
THEOREM RingKeepsBooks == Spec => [](kind = "ring" => BookkeepingExact)
  <1>1. RingKept => (kind = "ring" => BookkeepingExact)
    BY RingAccounts DEF RingKept, BookkeepingExact
  <1> QED
    BY <1>1, RingInvariant, PTL

(***************************************************************************)
(* The safety part of Phase!PSpec: the phase starts as CollectivePhase     *)
(* does, and every step is a rank that starts, a rank that ends after all  *)
(* have started, or nothing the scheduler sees.                            *)
(***************************************************************************)
PhaseVars == <<DOMAIN alg, Started(DOMAIN alg), Exited(DOMAIN alg)>>

PhaseSafety == Phase!PInit /\ [][Phase!PNext]_PhaseVars

\* Ring, AllToAll and HalvingDoubling are a barrier, as the scheduler expects
\* (ImplementsPhase without its liveness).
THEOREM IsPhase == Spec /\ Counting => PhaseSafety
  <1> DEFINE Kept == \/ kind = "ring" /\ RingInv
                     \/ kind = "halving" /\ HalvingInv
  <1>0. /\ RingInv =>
              \A r, q \in Ring!Rank : alg[r].state = "exited" => alg[q].state # "created"
        /\ HalvingInv =>
              \A r, q \in Halving!Rank :
                  alg[r].state = "exited" => alg[q].state # "created"
    BY RingBarrier, HalvingBarrier
  <1>1. Init /\ Counting => Kept /\ Phase!PInit
    <2> SUFFICES ASSUME Init, Counting
                 PROVE  Kept /\ Phase!PInit
      OBVIOUS
    <2>1. CASE kind = "ring" /\ Ring!Init
      <3>1. \A r \in DOMAIN alg : alg[r].state = "created"
        BY <2>1 DEF Ring!Init
      <3> QED
        BY <2>1, <3>1, RingInitially DEF Phase!PInit
    <2>2. CASE kind = "halving" /\ Halving!Init
      <3>1. \A r \in DOMAIN alg : alg[r].state = "created"
        BY <2>2 DEF Halving!Init, Halving!NewAlgorithm
      <3> QED
        BY <2>2, <3>1, HalvingInitially DEF Phase!PInit
    <2> QED
      BY <2>1, <2>2 DEF Counting, Init, InitRing, InitHalving, InitTree, InitCustom
  <1>2. Kept /\ [Next]_vars => Kept' /\ [Phase!PNext]_PhaseVars
    <2> SUFFICES ASSUME Kept, [Next]_vars
                 PROVE  Kept' /\ [Phase!PNext]_PhaseVars
      OBVIOUS
    <2>1. CASE NextRing
      <3>1. kind = "ring" /\ kind' = "ring" /\ Ring!Next /\ RingInv
        BY <2>1 DEF NextRing
      <3>2. config' = config /\ RingInvOf(alg', sends', recvs', delivered')
            /\ OneMoves(Ring!Rank)
        BY <3>1, RingStep
      <3>3. RingInv'
        BY <3>2, RingPrime
      <3>4. \A r, q \in Ring!Rank : alg'[r].state = "exited" => alg'[q].state # "created"
        <4>1. (\A r, q \in Ring!Rank : alg[r].state = "exited" => alg[q].state # "created")'
          BY <3>3, <1>0, PTL
        <4> QED
          BY <3>2, <4>1 DEF Ring!Rank
      <3>5. alg = [r \in Ring!Rank |-> alg[r]]
        BY <3>1 DEF RingInv, RingInvOf, RingType
      <3> QED
        BY <3>1, <3>2, <3>3, <3>4, <3>5, BarrierStep DEF PhaseVars
    <2>2. CASE NextHalving
      <3>1. kind = "halving" /\ kind' = "halving" /\ Halving!Next /\ HalvingInv
        BY <2>2 DEF NextHalving
      <3>2. config' = config /\ HalvingInvOf(alg', sends', recvs', delivered', holds')
            /\ OneMoves(Halving!Rank)
        BY <3>1, HalvingStep
      <3>3. HalvingInv'
        BY <3>2, HalvingPrime
      <3>4. \A r, q \in Halving!Rank :
               alg'[r].state = "exited" => alg'[q].state # "created"
        <4>1. (\A r, q \in Halving!Rank :
                  alg[r].state = "exited" => alg[q].state # "created")'
          BY <3>3, <1>0, PTL
        <4> QED
          BY <3>2, <4>1 DEF Halving!Rank
      <3>5. alg = [r \in Halving!Rank |-> alg[r]]
        BY <3>1 DEF HalvingInv, HalvingInvOf, HalvingType
      <3> QED
        BY <3>1, <3>2, <3>3, <3>4, <3>5, BarrierStep DEF PhaseVars
    <2>3. CASE UNCHANGED vars
      <3>1. /\ kind' = kind /\ config' = config /\ alg' = alg /\ sends' = sends
            /\ recvs' = recvs /\ delivered' = delivered /\ holds' = holds
        BY <2>3 DEF vars
      <3>2. PhaseVars' = PhaseVars
        BY <3>1 DEF PhaseVars, Started, Exited
      <3>3. RingInv => RingInv'
        BY <3>1, RingPrime DEF RingInv
      <3>4. HalvingInv => HalvingInv'
        BY <3>1, HalvingPrime DEF HalvingInv
      <3> QED
        BY <3>1, <3>2, <3>3, <3>4
    <2>4. CASE NextTree \/ NextCustom
      BY <2>4 DEF NextTree, NextCustom
    <2> QED
      BY <2>1, <2>2, <2>3, <2>4 DEF Next
  <1> QED
    BY <1>1, <1>2, PTL DEF Spec, PhaseSafety
=============================================================================
