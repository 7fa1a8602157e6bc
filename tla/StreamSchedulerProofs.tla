------------------------- MODULE StreamSchedulerProofs -------------------------
(***************************************************************************)
(* Theorems about StreamScheduler, for every machine, every number of      *)
(* queues, chunks and splits, every sequence of collectives and both       *)
(* scheduling policies.                                                    *)
(*                                                                         *)
(* The operations of a Sys object are functions from its state to its      *)
(* state that call each other, so most lemmas are about one operation:     *)
(* what holds of y before it, and of its result.                           *)
(***************************************************************************)
EXTENDS StreamScheduler, FiniteSetTheorems, WellFoundedInduction, TLAPS

Phase == [dim : Dim, queue : Queue]

SysType ==
    [ issued           : Nat,
      completed        : Nat,
      finished_streams : Nat,
      active_Streams   : [Queue -> Seq(Stream)],
      running_streams  : [Queue -> Nat],
      first_phase_streams   : Int,
      total_running_streams : Int,
      allocator        : [Dim -> 0 .. QueuesPerDim - 1],
      first_allocator  : [Dim -> 0 .. QueuesPerDim - 1],
      last_allocator   : [Dim -> 0 .. QueuesPerDim - 1],
      plan             : [Stream -> Seq(Phase)],
      step             : [Stream -> Nat],
      initialized      : SUBSET Stream ]

-----------------------------------------------------------------------------
(***************************************************************************)
(* Induction.  A set of natural numbers that is not empty has a least      *)
(* element.                                                                *)
(***************************************************************************)
LEMMA LeastElement ==
    ASSUME NEW S, S \subseteq Nat, S # {}
    PROVE  \E x \in S : \A y \in S : x <= y
  <1> DEFINE R == {ss \in Nat \X Nat : ss[1] < ss[2]}
  <1>1. IsWellFoundedOn(R, Nat)
    BY NatLessThanWellFounded DEF OpToRel
  <1>2. PICK x \in S : \A y \in S : <<y, x>> \notin R
    BY <1>1, WFMin, Zenon
  <1>3. \A y \in S : ~(y < x)
    BY <1>2
  <1> QED
    BY <1>3

(***************************************************************************)
(* If f starts in the first of a sequence of sets and each step goes from  *)
(* one set to the next, f stays in them.                                   *)
(***************************************************************************)
LEMMA StepByStep ==
    ASSUME NEW n \in Nat, NEW f, NEW T,
           f[0] \in T[0],
           \A i \in 1 .. n : f[i - 1] \in T[i - 1] => f[i] \in T[i]
    PROVE  \A i \in 0 .. n : f[i] \in T[i]
  <1> DEFINE Bad == {i \in 0 .. n : f[i] \notin T[i]}
  <1> SUFFICES Bad = {}
    OBVIOUS
  <1> SUFFICES ASSUME Bad # {}
               PROVE  FALSE
    OBVIOUS
  <1>0. Bad \subseteq Nat
    OBVIOUS
  <1>1. PICK x \in Bad : \A y \in Bad : x <= y
    <2> HIDE DEF Bad
    <2> QED
      BY <1>0, LeastElement
  <1>2. x \in 1 .. n /\ x - 1 \in 0 .. n /\ x - 1 \notin Bad
    BY <1>1
  <1> QED
    BY <1>1, <1>2

(***************************************************************************)
(* A function can be defined by recursion: step F leads from T[i - 1] to   *)
(* T[i].                                                                   *)
(***************************************************************************)
Leads(n, T, F, y) ==
    /\ n \in Nat
    /\ y \in T[0]
    /\ \A i \in 1 .. n : \A z \in T[i - 1] : F[<<z, i>>] \in T[i]

Follows(f, n, T, F, y) ==
    /\ f = [i \in 0 .. n |-> f[i]]
    /\ f[0] = y
    /\ \A i \in 1 .. n : f[i] = F[<<f[i - 1], i>>]
    /\ \A i \in 0 .. n : f[i] \in T[i]

\* If every step F leads from T[i - 1] to T[i], the recursion has a solution.
LEMMA Recursion ==
    ASSUME NEW n, NEW T, NEW F, NEW y, Leads(n, T, F, y)
    PROVE  \E f : Follows(f, n, T, F, y)
  <1> USE DEF Leads, Follows
  <1> DEFINE Good(m, f) ==
                /\ f = [i \in 0 .. m |-> f[i]]
                /\ f[0] = y
                /\ \A i \in 1 .. m : f[i] = F[<<f[i - 1], i>>]
                /\ \A i \in 0 .. m : f[i] \in T[i]
             Bad == {m \in 0 .. n : ~ \E f : Good(m, f)}
  <1> SUFFICES Bad = {}
    OBVIOUS
  <1> SUFFICES ASSUME Bad # {}
               PROVE  FALSE
    OBVIOUS
  <1>0. Bad \subseteq Nat
    OBVIOUS
  <1>1. PICK m \in Bad : \A k \in Bad : m <= k
    <2> HIDE DEF Bad
    <2> QED
      BY <1>0, LeastElement
  <1>2. CASE m = 0
    <2> DEFINE g == [i \in 0 .. 0 |-> y]
    <2>1. Good(0, g)
      OBVIOUS
    <2> QED
      BY <1>1, <1>2, <2>1
  <1>3. CASE m # 0
    <2>1. m - 1 \in 0 .. n /\ m \in 1 .. n /\ m - 1 \notin Bad
      BY <1>1, <1>3
    <2>2. PICK f : Good(m - 1, f)
      BY <2>1
    <2> DEFINE g == [i \in 0 .. m |-> IF i = m THEN F[<<f[m - 1], m>>] ELSE f[i]]
    <2>3. f[m - 1] \in T[m - 1] /\ F[<<f[m - 1], m>>] \in T[m]
      BY <2>1, <2>2
    <2>4. /\ g = [i \in 0 .. m |-> g[i]]
          /\ \A i \in 0 .. m - 1 : g[i] = f[i]
          /\ g[m] = F[<<f[m - 1], m>>]
      BY <2>1
    <2> HIDE DEF g
    <2>5. g[0] = y
      <3>1. 0 \in 0 .. m - 1
        BY <2>1
      <3> QED
        BY <2>2, <2>4, <3>1
    <2>6. ASSUME NEW i \in 1 .. m
          PROVE  g[i] = F[<<g[i - 1], i>>]
      <3>1. g[i - 1] = f[i - 1]
        <4>1. i - 1 \in 0 .. m - 1
          BY <2>1
        <4> QED
          BY <2>4, <4>1
      <3>2. CASE i = m
        BY <2>4, <3>1, <3>2
      <3>3. CASE i # m
        <4>1. i \in 1 .. m - 1 /\ i \in 0 .. m - 1
          BY <2>1, <3>3
        <4> QED
          BY <2>2, <2>4, <3>1, <4>1
      <3> QED
        BY <3>2, <3>3
    <2>7. ASSUME NEW i \in 0 .. m
          PROVE  g[i] \in T[i]
      <3>1. i = m \/ i \in 0 .. m - 1
        BY <2>1
      <3> QED
        BY <2>2, <2>3, <2>4, <3>1
    <2>8. Good(m, g)
      BY <2>4, <2>5, <2>6, <2>7
    <2> QED
      BY <1>1, <2>8
  <1> QED
    BY <1>2, <1>3

-----------------------------------------------------------------------------
(***************************************************************************)
(* The constants.                                                          *)
(***************************************************************************)
LEMMA ThresholdType == QueueThreshold \in Nat
  <1>1. ActiveChunks + QueuesPerDim - 1 \in Nat /\ QueuesPerDim \in Nat \ {0}
    BY ConfigAssumption
  <1>2. \A a \in Nat, b \in Nat \ {0} : a \div b \in Nat
    OBVIOUS
  <1> QED
    BY <1>1, <1>2 DEF QueueThreshold

\* QueueId of an allocator of dimension d is one of the queues (QueueLevels).
LEMMA QueueIdType ==
    ASSUME NEW d \in Dim, NEW a \in 0 .. QueuesPerDim - 1
    PROVE  QueueId(d, a) \in Queue
  <1>1. /\ Len(Dims) \in Nat /\ d \in 1 .. Len(Dims)
        /\ QueuesPerDim \in Nat \ {0}
    BY ConfigAssumption DEF Dim
  <1>2. ASSUME NEW l \in Nat, NEW e \in 1 .. l, NEW w \in Nat, NEW b \in 0 .. w - 1
        PROVE  (e - 1) * w + b \in 0 .. w * l - 1
    <2>1. (e - 1) * w \in Nat /\ w * l \in Nat
      OBVIOUS
    <2>2. (l - e) * w >= 0
      OBVIOUS
    <2>3. (l - e) * w = w * l - (e - 1) * w - w
      OBVIOUS
    <2> QED
      BY <2>1, <2>2, <2>3
  <1> QED
    BY <1>1, <1>2 DEF QueueId, Queue

\* The streams of a collective.
LEMMA StreamType ==
    ASSUME NEW c \in 1 .. Len(Collectives), NEW i \in 1 .. Splits
    PROVE  /\ (c - 1) * Splits + i \in Stream
           /\ CollectiveOf((c - 1) * Splits + i) = c
  <1>1. /\ Len(Collectives) \in Nat /\ Splits \in Nat \ {0}
    BY ConfigAssumption
  <1>2. ASSUME NEW l \in Nat, NEW e \in 1 .. l, NEW w \in Nat, NEW b \in 1 .. w
        PROVE  (e - 1) * w + b \in 1 .. w * l
    <2>1. (e - 1) * w \in Nat /\ w * l \in Nat
      OBVIOUS
    <2>2. (l - e) * w >= 0
      OBVIOUS
    <2>3. (l - e) * w = w * l - (e - 1) * w - w
      OBVIOUS
    <2> QED
      BY <2>1, <2>2, <2>3
  <1>3. ASSUME NEW e \in Nat, NEW w \in Nat \ {0}, NEW b \in 1 .. w
        PROVE  (e * w + b - 1) \div w = e
    OBVIOUS
  <1>4. /\ c - 1 \in Nat /\ (c - 1) * Splits \in Nat
    BY <1>1
  <1>5. ((c - 1) * Splits + i - 1) \div Splits = c - 1
    BY <1>1, <1>3, <1>4
  <1> QED
    BY <1>1, <1>2, <1>5 DEF Stream, CollectiveOf

-----------------------------------------------------------------------------
(***************************************************************************)
(* Lists of streams.  list holds the streams A, each once, and the started *)
(* ones are its first k entries.                                           *)
(***************************************************************************)
Well(list, A, started, k) ==
    /\ list \in Seq(Stream)
    /\ k \in Nat
    /\ \A i, j \in 1 .. Len(list) : list[i] = list[j] => i = j
    /\ \A i \in 1 .. Len(list) : list[i] \in A
    /\ \A s \in A : \E i \in 1 .. Len(list) : list[i] = s
    /\ \A i \in 1 .. Len(list) : list[i] \in started <=> i <= k

\* Concatenation, entry by entry.
LEMMA ConcatEntries ==
    \A a, b \in Seq(Stream) :
        /\ a \o b \in Seq(Stream)
        /\ Len(a \o b) = Len(a) + Len(b)
        /\ \A i \in 1 .. Len(a) : (a \o b)[i] = a[i]
        /\ \A i \in Len(a) + 1 .. Len(a) + Len(b) : (a \o b)[i] = b[i - Len(a)]
  OBVIOUS

\* insert() of std::list.
Inserted(list, new, s, at) ==
    LET n == Len(list) IN
    /\ n \in Nat
    /\ at \in 1 .. n + 1
    /\ new \in Seq(Stream) /\ Len(new) = n + 1
    /\ \A i \in 1 .. at - 1 : new[i] = list[i]
    /\ new[at] = s
    /\ \A i \in at + 1 .. n + 1 : new[i] = list[i - 1]

\* Cutting the list at a position and putting s between is an insertion.
LEMMA InsertList ==
    ASSUME NEW list \in Seq(Stream), NEW n \in Nat, n = Len(list),
           NEW s \in Stream, NEW at \in 1 .. n + 1
    PROVE  Inserted(list, SubSeq(list, 1, at - 1) \o <<s>> \o SubSeq(list, at, n), s, at)
  <1> DEFINE a == SubSeq(list, 1, at - 1)
             b == SubSeq(list, at, n)
             c == a \o <<s>>
             new == c \o b
  <1>1. /\ a \in Seq(Stream) /\ Len(a) = at - 1
        /\ \A i \in 1 .. at - 1 : a[i] = list[i]
    OBVIOUS
  <1>2. /\ b \in Seq(Stream) /\ Len(b) = n + 1 - at
        /\ \A i \in 1 .. n + 1 - at : b[i] = list[at + i - 1]
    OBVIOUS
  <1> SUFFICES Inserted(list, new, s, at)
    OBVIOUS
  <1> HIDE DEF a, b
  <1>3. /\ c \in Seq(Stream) /\ Len(c) = at
        /\ \A i \in 1 .. at - 1 : c[i] = list[i]
        /\ c[at] = s
    <2>1. <<s>> \in Seq(Stream) /\ Len(<<s>>) = 1 /\ <<s>>[1] = s
      OBVIOUS
    <2>2. /\ a \o <<s>> \in Seq(Stream)
          /\ Len(a \o <<s>>) = Len(a) + Len(<<s>>)
          /\ \A i \in 1 .. Len(a) : (a \o <<s>>)[i] = a[i]
          /\ \A i \in Len(a) + 1 .. Len(a) + Len(<<s>>) :
                (a \o <<s>>)[i] = <<s>>[i - Len(a)]
      BY <1>1, <2>1, ConcatEntries, Zenon
    <2>3. c = a \o <<s>>
      OBVIOUS
    <2> HIDE DEF c
    <2> QED
      BY <1>1, <2>1, <2>2, <2>3
  <1> HIDE DEF c
  <1>4. /\ at \in Nat /\ n + 1 - at \in Nat /\ at + (n + 1 - at) = n + 1
        /\ new = c \o b
    OBVIOUS
  <1> HIDE DEF new
  <1>5. /\ new \in Seq(Stream)
        /\ Len(new) = at + (n + 1 - at)
        /\ \A i \in 1 .. at : new[i] = c[i]
        /\ \A i \in at + 1 .. at + (n + 1 - at) : new[i] = b[i - at]
    <2>1. /\ c \o b \in Seq(Stream)
          /\ Len(c \o b) = Len(c) + Len(b)
          /\ \A i \in 1 .. Len(c) : (c \o b)[i] = c[i]
          /\ \A i \in Len(c) + 1 .. Len(c) + Len(b) : (c \o b)[i] = b[i - Len(c)]
      BY <1>2, <1>3, ConcatEntries, Zenon
    <2> QED
      BY <1>2, <1>3, <1>4, <2>1
  <1>6. ASSUME NEW i \in at + 1 .. n + 1
        PROVE  new[i] = list[i - 1]
    <2>1. i - at \in 1 .. n + 1 - at /\ at + (i - at) - 1 = i - 1
      OBVIOUS
    <2> QED
      BY <1>2, <1>4, <1>5, <2>1
  <1>7. at \in 1 .. at /\ \A i \in 1 .. at - 1 : i \in 1 .. at
    OBVIOUS
  <1> QED
    BY <1>3, <1>4, <1>5, <1>6, <1>7 DEF Inserted

\* erase() of std::list.
LEMMA EraseList ==
    ASSUME NEW list \in Seq(Stream), NEW n \in Nat, n = Len(list),
           NEW at \in 1 .. n
    PROVE  LET new == SubSeq(list, 1, at - 1) \o SubSeq(list, at + 1, n) IN
           /\ new \in Seq(Stream)
           /\ Len(new) = n - 1
           /\ \A i \in 1 .. at - 1 : new[i] = list[i]
           /\ \A i \in at .. n - 1 : new[i] = list[i + 1]
  <1> DEFINE a == SubSeq(list, 1, at - 1)
             b == SubSeq(list, at + 1, n)
             new == a \o b
  <1>1. /\ a \in Seq(Stream) /\ Len(a) = at - 1
        /\ \A i \in 1 .. at - 1 : a[i] = list[i]
    OBVIOUS
  <1>2. /\ b \in Seq(Stream) /\ Len(b) = n - at
        /\ \A i \in 1 .. n - at : b[i] = list[at + i]
    OBVIOUS
  <1> SUFFICES /\ new \in Seq(Stream)
               /\ Len(new) = n - 1
               /\ \A i \in 1 .. at - 1 : new[i] = list[i]
               /\ \A i \in at .. n - 1 : new[i] = list[i + 1]
    OBVIOUS
  <1> HIDE DEF a, b
  <1>4. /\ at - 1 \in Nat /\ n - at \in Nat /\ (at - 1) + (n - at) = n - 1
        /\ (at - 1) + 1 = at
        /\ new = a \o b
    OBVIOUS
  <1> HIDE DEF new
  <1>5. /\ new \in Seq(Stream)
        /\ Len(new) = (at - 1) + (n - at)
        /\ \A i \in 1 .. at - 1 : new[i] = a[i]
        /\ \A i \in (at - 1) + 1 .. (at - 1) + (n - at) : new[i] = b[i - (at - 1)]
    <2>1. /\ a \o b \in Seq(Stream)
          /\ Len(a \o b) = Len(a) + Len(b)
          /\ \A i \in 1 .. Len(a) : (a \o b)[i] = a[i]
          /\ \A i \in Len(a) + 1 .. Len(a) + Len(b) : (a \o b)[i] = b[i - Len(a)]
      BY <1>1, <1>2, ConcatEntries, Zenon
    <2> QED
      BY <1>1, <1>2, <1>4, <2>1
  <1>6. ASSUME NEW i \in at .. n - 1
        PROVE  new[i] = list[i + 1]
    <2>1. i - (at - 1) \in 1 .. n - at /\ at + (i - (at - 1)) = i + 1
      OBVIOUS
    <2> QED
      BY <1>2, <1>4, <1>5, <2>1
  <1> QED
    BY <1>1, <1>4, <1>5, <1>6

\* A stream that is inserted behind the started ones keeps the list well.
LEMMA InsertWell ==
    ASSUME NEW list, NEW A, NEW started, NEW k, Well(list, A, started, k),
           k <= Len(list),
           NEW s \in Stream, s \notin A, s \notin started,
           NEW new, NEW at, Inserted(list, new, s, at), at > k
    PROVE  Well(new, A \cup {s}, started, k)
  <1>0. PICK n \in Nat : n = Len(list)
    BY DEF Inserted
  <1>1. /\ k \in Nat /\ k <= n /\ at \in 1 .. n + 1
        /\ new \in Seq(Stream) /\ Len(new) = n + 1
        /\ \A i \in 1 .. at - 1 : new[i] = list[i]
        /\ new[at] = s
        /\ \A i \in at + 1 .. n + 1 : new[i] = list[i - 1]
    BY <1>0 DEF Well, Inserted
  <1> DEFINE old(i) == IF i < at THEN i ELSE i - 1
  <1>2. ASSUME NEW i \in 1 .. n + 1, i # at
        PROVE  old(i) \in 1 .. n /\ new[i] = list[old(i)]
    BY <1>0, <1>1, <1>2
  <1>3. ASSUME NEW i \in 1 .. n + 1, NEW j \in 1 .. n + 1, new[i] = new[j]
        PROVE  i = j
    <2>1. CASE i = at \/ j = at
      BY <1>0, <1>1, <1>2, <1>3, <2>1 DEF Well
    <2>2. CASE i # at /\ j # at
      <3>1. old(i) = old(j)
        <4>1. /\ old(i) \in 1 .. n /\ old(j) \in 1 .. n
              /\ list[old(i)] = list[old(j)]
          BY <1>0, <1>1, <1>2, <1>3, <2>2
        <4> HIDE DEF old
        <4> QED
          BY <1>0, <1>1, <4>1 DEF Well
      <3> QED
        BY <1>0, <1>1, <2>2, <3>1
    <2> QED
      BY <1>0, <1>1, <2>1, <2>2
  <1>4. \A i \in 1 .. n + 1 : new[i] \in A \cup {s}
    <2> HIDE DEF old
    <2> QED
      BY <1>0, <1>1, <1>2 DEF Well
  <1>5. ASSUME NEW t \in A \cup {s}
        PROVE  \E i \in 1 .. n + 1 : new[i] = t
    <2>1. CASE t = s
      BY <1>0, <1>1, <2>1
    <2>2. CASE t # s
      <3>1. PICK j \in 1 .. n : list[j] = t
        BY <1>0, <1>1, <2>2 DEF Well
      <3>2. CASE j < at
        <4>1. j \in 1 .. at - 1 /\ j \in 1 .. n + 1
          BY <1>0, <1>1, <3>2
        <4> QED
          BY <1>0, <1>1, <3>1, <4>1
      <3>3. CASE j >= at
        <4>1. j + 1 \in at + 1 .. n + 1 /\ j + 1 \in 1 .. n + 1 /\ (j + 1) - 1 = j
          BY <1>0, <1>1, <3>3
        <4> QED
          BY <1>0, <1>1, <3>1, <4>1
      <3> QED
        BY <1>0, <1>1, <3>1, <3>2, <3>3
    <2> QED
      BY <1>0, <1>1, <2>1, <2>2
  <1>6. ASSUME NEW i \in 1 .. n + 1
        PROVE  new[i] \in started <=> i <= k
    <2>1. CASE i = at
      BY <1>0, <1>1, <2>1
    <2>2. CASE i # at
      <3>1. new[i] \in started <=> old(i) <= k
        <4>1. old(i) \in 1 .. n /\ new[i] = list[old(i)]
          BY <1>0, <1>1, <1>2, <2>2
        <4> HIDE DEF old
        <4> QED
          BY <1>0, <1>1, <4>1 DEF Well
      <3> QED
        BY <1>0, <1>1, <2>2, <3>1
    <2> QED
      BY <1>0, <1>1, <2>1, <2>2
  <1> QED
    BY <1>0, <1>1, <1>3, <1>4, <1>5, <1>6 DEF Well

\* A started stream that is erased leaves one started stream less.
Erased(list, new, s, at) ==
    LET n == Len(list) IN
    /\ n \in Nat
    /\ at \in 1 .. n /\ list[at] = s
    /\ new \in Seq(Stream) /\ Len(new) = n - 1
    /\ \A i \in 1 .. at - 1 : new[i] = list[i]
    /\ \A i \in at .. n - 1 : new[i] = list[i + 1]

\* Erasing a started stream keeps the list well-formed, one started stream less.
LEMMA EraseWell ==
    ASSUME NEW list, NEW A, NEW started, NEW k, Well(list, A, started, k),
           k <= Len(list),
           NEW s \in started, NEW new, NEW at, Erased(list, new, s, at)
    PROVE  Well(new, A \ {s}, started, k - 1)
  <1>0. PICK n \in Nat : n = Len(list)
    BY DEF Erased
  <1>1. /\ k \in Nat /\ k <= n /\ at \in 1 .. n /\ list[at] = s /\ at <= k
        /\ new \in Seq(Stream) /\ Len(new) = n - 1
        /\ \A i \in 1 .. at - 1 : new[i] = list[i]
        /\ \A i \in at .. n - 1 : new[i] = list[i + 1]
    BY <1>0 DEF Well, Erased
  <1> DEFINE old(i) == IF i < at THEN i ELSE i + 1
  <1>2. ASSUME NEW i \in 1 .. n - 1
        PROVE  old(i) \in 1 .. n /\ new[i] = list[old(i)] /\ old(i) # at
    BY <1>0, <1>1
  <1>3. ASSUME NEW i \in 1 .. n - 1, NEW j \in 1 .. n - 1, new[i] = new[j]
        PROVE  i = j
    <2>1. old(i) = old(j)
      <3>1. /\ old(i) \in 1 .. n /\ old(j) \in 1 .. n
            /\ list[old(i)] = list[old(j)]
        BY <1>0, <1>1, <1>2, <1>3
      <3> HIDE DEF old
      <3> QED
        BY <1>0, <1>1, <3>1 DEF Well
    <2> QED
      BY <1>0, <1>1, <2>1
  <1>4. ASSUME NEW i \in 1 .. n - 1
        PROVE  new[i] \in A \ {s}
    <2> HIDE DEF old
    <2>1. list[old(i)] \in A /\ list[old(i)] # list[at]
      BY <1>0, <1>1, <1>2 DEF Well
    <2> QED
      BY <1>0, <1>1, <1>2, <2>1
  <1>5. ASSUME NEW t \in A \ {s}
        PROVE  \E i \in 1 .. n - 1 : new[i] = t
    <2>1. PICK j \in 1 .. n : list[j] = t
      BY <1>0, <1>1 DEF Well
    <2>2. CASE j < at
      <3>1. j \in 1 .. at - 1 /\ j \in 1 .. n - 1
        BY <1>0, <1>1, <2>2
      <3> QED
        BY <1>0, <1>1, <2>1, <3>1
    <2>3. CASE j > at
      <3>1. j - 1 \in at .. n - 1 /\ j - 1 \in 1 .. n - 1 /\ (j - 1) + 1 = j
        BY <1>0, <1>1, <2>3
      <3> QED
        BY <1>0, <1>1, <2>1, <3>1
    <2> QED
      BY <1>0, <1>1, <2>1, <2>2, <2>3
  <1>6. ASSUME NEW i \in 1 .. n - 1
        PROVE  new[i] \in started <=> i <= k - 1
    <2>1. new[i] \in started <=> old(i) <= k
      <3>1. old(i) \in 1 .. n /\ new[i] = list[old(i)]
        BY <1>0, <1>1, <1>2
      <3> HIDE DEF old
      <3> QED
        BY <1>0, <1>1, <3>1 DEF Well
    <2> QED
      BY <1>0, <1>1, <2>1
  <1> QED
    BY <1>0, <1>1, <1>3, <1>4, <1>5, <1>6 DEF Well

\* Starting the streams up to position k2.
LEMMA StartWell ==
    ASSUME NEW list, NEW A, NEW started, NEW k, Well(list, A, started, k),
           NEW m \in Nat, k <= m, m <= Len(list),
           NEW more, \A t : t \in more <=> \E i \in k + 1 .. m : t = list[i]
    PROVE  Well(list, A, started \cup more, m)
  <1>1. k \in Nat /\ list \in Seq(Stream)
    BY DEF Well
  <1> DEFINE n == Len(list)
  <1>0. n \in Nat
    BY <1>1
  <1>2. \A i \in k + 1 .. m : i \in 1 .. n
    BY <1>0, <1>1
  <1>3. more \subseteq A /\ more \subseteq Stream
    BY <1>1, <1>2 DEF Well
  <1>4. ASSUME NEW i \in 1 .. n
        PROVE  list[i] \in started \cup more <=> i <= m
    <2>1. CASE i <= k
      BY <1>1, <2>1 DEF Well
    <2>2. CASE i > k /\ i <= m
      BY <1>1, <2>2
    <2>3. CASE i > m
      <3>1. list[i] \notin started
        BY <1>1, <2>3 DEF Well
      <3>2. \A j \in k + 1 .. m : list[j] # list[i]
        BY <1>1, <1>2, <2>3 DEF Well
      <3> QED
        BY <2>3, <3>1, <3>2
    <2> QED
      BY <1>0, <1>1, <2>1, <2>2, <2>3
  <1> QED
    BY <1>3, <1>4 DEF Well

\* What is started or stopped elsewhere does not matter to a list.
LEMMA OtherWell ==
    ASSUME NEW list, NEW A, NEW started, NEW k, Well(list, A, started, k),
           NEW new, \A s \in A : s \in started <=> s \in new
    PROVE  Well(list, A, new, k)
  BY DEF Well

-----------------------------------------------------------------------------
(***************************************************************************)
(* The queues of one Sys object.  Slack: the first running_streams entries *)
(* of each queue are the started ones, and there is room for no fewer.     *)
(* FullBut: except in the queues X, as many have been started as may be.   *)
(***************************************************************************)
LiveIn(y, s) == y.step[s] \in 1 .. Len(y.plan[s])

QueueOf(y, s) == y.plan[s][y.step[s]].queue

InQueue(y, q) == {s \in Stream : LiveIn(y, s) /\ QueueOf(y, s) = q}

Limit(n) == IF n < QueueThreshold THEN n ELSE QueueThreshold

Slack(y) ==
    \A q \in Queue :
        /\ Well(y.active_Streams[q], InQueue(y, q), y.initialized,
                y.running_streams[q])
        /\ y.running_streams[q] <= Limit(Len(y.active_Streams[q]))

FullBut(y, X) ==
    \A q \in Queue \ X : y.running_streams[q] = Limit(Len(y.active_Streams[q]))

\* A live stream is in one queue.
LEMMA OneQueue ==
    ASSUME NEW y, NEW q, NEW p, NEW s \in InQueue(y, q), p # q
    PROVE  s \notin InQueue(y, p)
  BY DEF InQueue

(***************************************************************************)
(* InitLoop fills a queue; it starts streams and does nothing else.        *)
(***************************************************************************)
OnlyStarts(y, z) ==
    /\ z.issued = y.issued
    /\ z.completed = y.completed
    /\ z.finished_streams = y.finished_streams
    /\ z.active_Streams = y.active_Streams
    /\ z.first_phase_streams = y.first_phase_streams
    /\ z.total_running_streams = y.total_running_streams
    /\ z.allocator = y.allocator
    /\ z.first_allocator = y.first_allocator
    /\ z.last_allocator = y.last_allocator
    /\ z.plan = y.plan
    /\ z.step = y.step
    /\ y.initialized \subseteq z.initialized

\* After the loop of notify_stream_added, queue q has as many started
\* streams as its threshold and length allow, and nothing else has changed.
LEMMA InitLoopFills ==
    ASSUME NEW y \in SysType, NEW q \in Queue, NEW X,
           Slack(y), FullBut(y, X),
           NEW z, z = InitLoop(y, q)
    PROVE  /\ z \in SysType
           /\ Slack(z)
           /\ FullBut(z, X \ {q})
           /\ OnlyStarts(y, z)
  <1>1. /\ y.active_Streams[q] \in Seq(Stream)
        /\ y.running_streams \in [Queue -> Nat]
        /\ y.initialized \subseteq Stream
    BY DEF SysType
  <1>2. PICK list \in Seq(Stream) : list = y.active_Streams[q]
    BY <1>1
  <1>3. PICK n \in Nat : n = Len(list)
    OBVIOUS
  <1>4. PICK k \in Nat : k = y.running_streams[q]
    BY <1>1
  <1>5. PICK m \in Nat : m = Limit(n)
    BY ThresholdType DEF Limit
  <1>6. PICK A : A = InQueue(y, q)
    OBVIOUS
  <1>7. Well(list, A, y.initialized, k) /\ k <= m /\ m <= n
    BY <1>2, <1>3, <1>4, <1>5, <1>6, ThresholdType DEF Slack, Limit
  <1>8. PICK more : more = {list[i] : i \in k + 1 .. m}
    OBVIOUS
  <1>9. /\ Well(list, A, y.initialized \cup more, m)
        /\ more \subseteq A /\ more \subseteq Stream
    <2>9. PICK started : started = y.initialized
      OBVIOUS
    <2>0. Well(list, A, started, k) /\ m \in Nat /\ k <= m
      BY <1>7, <2>9
    <2>1. m <= Len(list)
      BY <1>3, <1>7
    <2>2. \A t : t \in more <=> \E i \in k + 1 .. m : t = list[i]
      BY <1>8
    <2>3. Well(list, A, started \cup more, m)
      BY ONLY <2>0, <2>1, <2>2, StartWell, Zenon
    <2>4. \A i \in k + 1 .. m : i \in 1 .. Len(list)
      BY <2>1
    <2>5. more \subseteq A /\ more \subseteq Stream
      BY <2>0, <2>2, <2>4 DEF Well
    <2> QED
      BY <2>3, <2>4, <2>5, <2>9
  <1>10. z = [y EXCEPT !.running_streams[q] = m,
                       !.initialized = @ \cup more]
    <2>1. (IF m > k THEN m ELSE k) = m
      BY <1>7
    <2> QED
      BY <1>2, <1>3, <1>4, <1>5, <1>8, <2>1 DEF InitLoop, Limit
  <1>11. /\ z.running_streams = [y.running_streams EXCEPT ![q] = m]
         /\ z.initialized = y.initialized \cup more
         /\ OnlyStarts(y, z)
    BY <1>10 DEF SysType, OnlyStarts
  <1>12. z \in SysType
    <2>1. /\ [y.running_streams EXCEPT ![q] = m] \in [Queue -> Nat]
          /\ y.initialized \cup more \in SUBSET Stream
      BY <1>1, <1>9
    <2>2. PICK a \in [Queue -> Nat], b \in SUBSET Stream :
             a = [y.running_streams EXCEPT ![q] = m] /\ b = y.initialized \cup more
      BY <2>1
    <2>3. z = [y EXCEPT !.running_streams = a, !.initialized = b]
      BY <1>10, <2>2 DEF SysType
    <2> QED
      BY <2>3 DEF SysType
  <1>13. \A p : InQueue(z, p) = InQueue(y, p)
    BY <1>11 DEF InQueue, LiveIn, QueueOf, OnlyStarts
  <1>14. ASSUME NEW p \in Queue
         PROVE  /\ Well(z.active_Streams[p], InQueue(z, p), z.initialized,
                        z.running_streams[p])
                /\ z.running_streams[p] <= Limit(Len(z.active_Streams[p]))
                /\ p \notin X \ {q} =>
                      z.running_streams[p] = Limit(Len(z.active_Streams[p]))
    <2>1. z.active_Streams[p] = y.active_Streams[p]
      BY <1>11 DEF OnlyStarts
    <2>2. CASE p = q
      <3>1. z.running_streams[p] = m
        BY <1>1, <1>11, <2>2
      <3> QED
        BY <1>2, <1>3, <1>5, <1>6, <1>9, <1>11, <1>13, <2>1, <2>2, <3>1
    <2>3. CASE p # q
      <3>1. z.running_streams[p] = y.running_streams[p]
        BY <1>1, <1>11, <2>3
      <3>2. \A s \in InQueue(y, p) : s \in y.initialized <=> s \in z.initialized
        BY <1>6, <1>9, <1>11, <2>3, OneQueue
      <3>3. Well(y.active_Streams[p], InQueue(y, p), y.initialized,
                 y.running_streams[p])
        BY DEF Slack
      <3>4. Well(y.active_Streams[p], InQueue(y, p), z.initialized,
                 y.running_streams[p])
        BY ONLY <3>2, <3>3, OtherWell, Zenon
      <3> QED
        BY <1>13, <2>1, <2>3, <3>1, <3>4 DEF Slack, FullBut
    <2> QED
      BY <2>2, <2>3
  <1> QED
    BY <1>11, <1>12, <1>14 DEF Slack, FullBut

(***************************************************************************)
(* insert_stream puts a stream behind the started ones of a queue, and     *)
(* erase_stream takes a started one out.                                   *)
(***************************************************************************)
OnlyQueue(y, z, q) ==
    /\ z.issued = y.issued
    /\ z.completed = y.completed
    /\ z.finished_streams = y.finished_streams
    /\ z.running_streams = y.running_streams
    /\ z.first_phase_streams = y.first_phase_streams
    /\ z.total_running_streams = y.total_running_streams
    /\ z.allocator = y.allocator
    /\ z.first_allocator = y.first_allocator
    /\ z.last_allocator = y.last_allocator
    /\ z.plan = y.plan
    /\ z.step = y.step
    /\ z.initialized = y.initialized
    /\ \A p \in Queue \ {q} : z.active_Streams[p] = y.active_Streams[p]

SetQueue(y, q, new) == [y EXCEPT !.active_Streams[q] = new]

\* An assignment to one list of active_Streams changes that list only.
LEMMA QueueUpdate ==
    ASSUME NEW y \in SysType, NEW q \in Queue, NEW new \in Seq(Stream)
    PROVE  /\ SetQueue(y, q, new) \in SysType
           /\ SetQueue(y, q, new).active_Streams[q] = new
           /\ OnlyQueue(y, SetQueue(y, q, new), q)
  <1>1. y.active_Streams \in [Queue -> Seq(Stream)]
    BY DEF SysType
  <1>2. PICK a \in [Queue -> Seq(Stream)] : a = [y.active_Streams EXCEPT ![q] = new]
    BY <1>1
  <1> DEFINE z == SetQueue(y, q, new)
  <1>3. z = [y EXCEPT !.active_Streams = a]
    BY <1>2 DEF SysType, SetQueue
  <1> HIDE DEF z
  <1>4. z \in SysType /\ z.active_Streams = a
    BY <1>3 DEF SysType
  <1>5. a[q] = new /\ \A p \in Queue \ {q} : a[p] = y.active_Streams[p]
    BY <1>1, <1>2
  <1>6. z \in SysType /\ z.active_Streams[q] = new /\ OnlyQueue(y, z, q)
    BY <1>3, <1>4, <1>5 DEF OnlyQueue, SysType
  <1> QED
    BY <1>6 DEF z

\* insert_stream keeps the started streams in front: the new one goes behind them.
LEMMA InsertStream ==
    ASSUME NEW y \in SysType, NEW q \in Queue, NEW s \in Stream, NEW A, NEW k,
           Well(y.active_Streams[q], A, y.initialized, k),
           k <= Len(y.active_Streams[q]),
           s \notin A, s \notin y.initialized,
           NEW z, z = insert_stream(y, q, s)
    PROVE  /\ z \in SysType
           /\ OnlyQueue(y, z, q)
           /\ Well(z.active_Streams[q], A \cup {s}, y.initialized, k)
           /\ Len(z.active_Streams[q]) = Len(y.active_Streams[q]) + 1
  <1>1. y.active_Streams[q] \in Seq(Stream)
    BY DEF SysType
  <1>2. PICK list \in Seq(Stream) : list = y.active_Streams[q]
    BY <1>1
  <1>3. PICK n \in Nat : n = Len(list)
    OBVIOUS
  <1>4. PICK started : started = y.initialized
    OBVIOUS
  <1> DEFINE Skip(t) == t \in started \/ Priority(t) >= Priority(s)
             Stops == {i \in 1 .. n : ~Skip(list[i])}
             pos == IF Stops = {} THEN n + 1 ELSE Min(Stops)
  <1>5. Well(list, A, started, k) /\ k <= n /\ k \in Nat
    BY <1>2, <1>3, <1>4 DEF Well
  <1>6. \A i \in Stops : i > k
    BY <1>3, <1>5 DEF Well
  <1>7. pos \in 1 .. n + 1 /\ pos > k
    <2>1. CASE Stops = {}
      BY <1>5, <2>1
    <2>2. CASE Stops # {}
      <3>1. Stops \subseteq Nat
        OBVIOUS
      <3>2. Min(Stops) \in Stops
        <4> HIDE DEF Stops
        <4>1. \E x \in Stops : \A w \in Stops : x <= w
          BY <2>2, <3>1, LeastElement
        <4> QED
          BY <4>1 DEF Min
      <3> QED
        BY <1>6, <2>2, <3>2
    <2> QED
      BY <2>1, <2>2
  <1>8. z = [y EXCEPT !.active_Streams[q] =
                SubSeq(list, 1, pos - 1) \o <<s>> \o SubSeq(list, pos, n)]
    BY <1>2, <1>3, <1>4 DEF insert_stream
  <1> HIDE DEF pos, Stops
  <1>9. PICK at \in 1 .. n + 1 : at = pos
    BY <1>7
  <1> DEFINE new == SubSeq(list, 1, at - 1) \o <<s>> \o SubSeq(list, at, n)
  <1>10. z = SetQueue(y, q, new)
    BY <1>8, <1>9 DEF SetQueue
  <1>11. Inserted(list, new, s, at)
    BY <1>3, InsertList
  <1> HIDE DEF new
  <1>12. Well(new, A \cup {s}, started, k)
    BY <1>3, <1>4, <1>5, <1>7, <1>9, <1>11, InsertWell
  <1>13. new \in Seq(Stream) /\ Len(new) = n + 1
    BY <1>3, <1>11 DEF Inserted
  <1>14. z \in SysType /\ z.active_Streams[q] = new /\ OnlyQueue(y, z, q)
    BY <1>10, <1>13, QueueUpdate
  <1> QED
    BY <1>2, <1>3, <1>4, <1>12, <1>13, <1>14

\* erase_stream of a started stream leaves the others in their order.
LEMMA EraseStream ==
    ASSUME NEW y \in SysType, NEW q \in Queue, NEW s \in Stream, NEW A, NEW k,
           Well(y.active_Streams[q], A, y.initialized, k),
           k <= Len(y.active_Streams[q]),
           s \in A, s \in y.initialized,
           NEW z, z = erase_stream(y, q, s)
    PROVE  /\ z \in SysType
           /\ OnlyQueue(y, z, q)
           /\ k - 1 \in Nat
           /\ Well(z.active_Streams[q], A \ {s}, y.initialized, k - 1)
           /\ Len(z.active_Streams[q]) = Len(y.active_Streams[q]) - 1
           /\ Len(y.active_Streams[q]) \in Nat
  <1>1. y.active_Streams[q] \in Seq(Stream)
    BY DEF SysType
  <1>2. PICK list \in Seq(Stream) : list = y.active_Streams[q]
    BY <1>1
  <1>3. PICK n \in Nat : n = Len(list)
    OBVIOUS
  <1>4. PICK started : started = y.initialized
    OBVIOUS
  <1>5. Well(list, A, started, k) /\ k <= n
    BY <1>2, <1>3, <1>4
  <1> DEFINE pos == CHOOSE i \in 1 .. n : list[i] = s
  <1>6. pos \in 1 .. n /\ list[pos] = s
    <2>1. \E i \in 1 .. n : list[i] = s
      BY <1>3, <1>5 DEF Well
    <2> QED
      BY <2>1
  <1>7. z = [y EXCEPT !.active_Streams[q] =
                SubSeq(list, 1, pos - 1) \o SubSeq(list, pos + 1, n)]
    BY <1>2, <1>3 DEF erase_stream
  <1> HIDE DEF pos
  <1>8. PICK at \in 1 .. n : at = pos
    BY <1>6
  <1> DEFINE new == SubSeq(list, 1, at - 1) \o SubSeq(list, at + 1, n)
  <1>9. z = SetQueue(y, q, new)
    BY <1>7, <1>8 DEF SetQueue
  <1>10. Erased(list, new, s, at)
    BY <1>3, <1>6, <1>8, EraseList DEF Erased
  <1> HIDE DEF new
  <1>11. Well(new, A \ {s}, started, k - 1)
    BY <1>3, <1>4, <1>5, <1>10, EraseWell
  <1>12. new \in Seq(Stream) /\ Len(new) = n - 1
    BY <1>3, <1>10 DEF Erased
  <1>13. k - 1 \in Nat
    BY <1>11 DEF Well
  <1>14. z \in SysType /\ z.active_Streams[q] = new /\ OnlyQueue(y, z, q)
    BY <1>9, <1>12, QueueUpdate
  <1> QED
    BY <1>2, <1>3, <1>4, <1>11, <1>12, <1>13, <1>14

(***************************************************************************)
(* EnterPhase: a stream that is in no queue enters that of its next phase. *)
(* k is how many streams of each queue are started.                        *)
(***************************************************************************)
NextQueue(y, s) == y.plan[s][y.step[s] + 1].queue

WellBut(y, s, k) ==
    \A p \in Queue :
        /\ Well(y.active_Streams[p], InQueue(y, p) \ {s}, y.initialized, k[p])
        /\ k[p] <= Len(y.active_Streams[p])

Entered(y, z, s) ==
    /\ z.issued = y.issued
    /\ z.completed = y.completed
    /\ z.finished_streams = y.finished_streams
    /\ z.running_streams = y.running_streams
    /\ z.first_phase_streams = y.first_phase_streams
    /\ z.total_running_streams = y.total_running_streams
    /\ z.allocator = y.allocator
    /\ z.first_allocator = y.first_allocator
    /\ z.last_allocator = y.last_allocator
    /\ z.plan = y.plan
    /\ z.step = [y.step EXCEPT ![s] = @ + 1]
    /\ z.initialized = y.initialized \ {s}
    /\ \A p \in Queue : Len(z.active_Streams[p]) =
          IF p = NextQueue(y, s) THEN Len(y.active_Streams[p]) + 1
                                 ELSE Len(y.active_Streams[p])

\* A stream that enters its next phase joins the queue of that phase, behind the
\* started ones, and no other queue changes.
LEMMA EnterPhaseWell ==
    ASSUME NEW y \in SysType, NEW s \in Stream, NEW k,
           WellBut(y, s, k),
           y.step[s] < Len(y.plan[s]),
           NEW z, z = EnterPhase(y, s)
    PROVE  /\ z \in SysType
           /\ Entered(y, z, s)
           /\ NextQueue(y, s) \in Queue
           /\ NextQueue(y, s) = QueueOf(z, s)
           /\ \A p \in Queue :
                 Well(z.active_Streams[p], InQueue(z, p), z.initialized, k[p])
  <1>1. /\ y.step \in [Stream -> Nat] /\ y.plan \in [Stream -> Seq(Phase)]
        /\ y.initialized \subseteq Stream
    BY DEF SysType
  <1>2. PICK q : q = NextQueue(y, s)
    OBVIOUS
  <1>3. q \in Queue
    <2>1. y.step[s] + 1 \in 1 .. Len(y.plan[s])
      BY <1>1
    <2>2. y.plan[s][y.step[s] + 1] \in Phase
      BY <1>1, <2>1
    <2> QED
      BY <1>2, <2>2 DEF NextQueue, Phase
  <1> DEFINE step2 == [y.step EXCEPT ![s] = @ + 1]
             started2 == y.initialized \ {s}
             moved == [y EXCEPT !.step = step2, !.initialized = started2]
  <1>4. step2 \in [Stream -> Nat] /\ started2 \in SUBSET Stream
    BY <1>1
  <1>5. z = insert_stream(moved, q, s)
    <2>1. moved = [y EXCEPT !.step[s] = @ + 1, !.initialized = @ \ {s}]
      BY DEF SysType
    <2> HIDE DEF moved
    <2> QED
      BY <1>2, <2>1 DEF EnterPhase, NextQueue
  <1>6. moved \in SysType
    <2> HIDE DEF step2, started2
    <2> QED
      BY <1>4 DEF SysType
  <1>7. /\ moved.step = step2
        /\ moved.initialized = started2
        /\ moved.active_Streams = y.active_Streams
        /\ moved.plan = y.plan
    BY DEF SysType
  <1>8. moved.running_streams = y.running_streams
    BY DEF SysType
  <1>9. /\ moved.issued = y.issued
        /\ moved.completed = y.completed
        /\ moved.finished_streams = y.finished_streams
        /\ moved.first_phase_streams = y.first_phase_streams
        /\ moved.total_running_streams = y.total_running_streams
        /\ moved.allocator = y.allocator
        /\ moved.first_allocator = y.first_allocator
        /\ moved.last_allocator = y.last_allocator
    BY DEF SysType
  <1> HIDE DEF moved
  <1>10. ASSUME NEW p \in Queue
         PROVE  /\ Well(y.active_Streams[p], InQueue(y, p) \ {s}, started2, k[p])
                /\ k[p] <= Len(y.active_Streams[p])
    <2>1. Well(y.active_Streams[p], InQueue(y, p) \ {s}, y.initialized, k[p])
      BY DEF WellBut
    <2>2. \A t \in InQueue(y, p) \ {s} : t \in y.initialized <=> t \in started2
      OBVIOUS
    <2> HIDE DEF started2
    <2>3. Well(y.active_Streams[p], InQueue(y, p) \ {s}, started2, k[p])
      BY <2>1, <2>2, OtherWell
    <2> QED
      BY <2>3 DEF WellBut
  <1>11. /\ z \in SysType
         /\ OnlyQueue(moved, z, q)
         /\ Well(z.active_Streams[q], (InQueue(y, q) \ {s}) \cup {s}, started2, k[q])
         /\ Len(z.active_Streams[q]) = Len(y.active_Streams[q]) + 1
    <2>1. PICK A : A = InQueue(y, q) \ {s}
      OBVIOUS
    <2>2. /\ Well(moved.active_Streams[q], A, moved.initialized, k[q])
          /\ k[q] <= Len(moved.active_Streams[q])
          /\ s \notin A /\ s \notin moved.initialized
      BY <1>3, <1>7, <1>10, <2>1
    <2>3. /\ z \in SysType
          /\ OnlyQueue(moved, z, q)
          /\ Well(z.active_Streams[q], A \cup {s}, moved.initialized, k[q])
          /\ Len(z.active_Streams[q]) = Len(moved.active_Streams[q]) + 1
      BY <1>3, <1>5, <1>6, <2>2, InsertStream
    <2> QED
      BY <1>7, <2>1, <2>3
  <1>12. z.step = step2 /\ z.plan = y.plan /\ z.initialized = started2
    BY <1>7, <1>11 DEF OnlyQueue
  <1>13. QueueOf(z, s) = q /\ LiveIn(z, s)
    BY <1>1, <1>2, <1>12 DEF QueueOf, LiveIn, NextQueue
  <1>14. ASSUME NEW t \in Stream, t # s
         PROVE  /\ LiveIn(z, t) <=> LiveIn(y, t)
                /\ QueueOf(z, t) = QueueOf(y, t)
    BY <1>1, <1>12, <1>14 DEF QueueOf, LiveIn
  <1>15. ASSUME NEW p \in Queue
         PROVE  InQueue(z, p) = IF p = q THEN (InQueue(y, p) \ {s}) \cup {s}
                                ELSE InQueue(y, p) \ {s}
    BY <1>13, <1>14 DEF InQueue
  <1>16. ASSUME NEW p \in Queue
         PROVE  /\ Well(z.active_Streams[p], InQueue(z, p), z.initialized, k[p])
                /\ Len(z.active_Streams[p]) =
                      IF p = q THEN Len(y.active_Streams[p]) + 1
                               ELSE Len(y.active_Streams[p])
    <2>1. CASE p = q
      BY <1>11, <1>12, <1>15, <2>1
    <2>2. CASE p # q
      <3>1. z.active_Streams[p] = y.active_Streams[p]
        BY <1>7, <1>11, <2>2 DEF OnlyQueue
      <3> QED
        BY <1>10, <1>12, <1>15, <2>2, <3>1
    <2> QED
      BY <2>1, <2>2
  <1>17. Entered(y, z, s)
    BY <1>2, <1>8, <1>9, <1>11, <1>12, <1>16 DEF Entered, OnlyQueue
  <1> QED
    BY <1>2, <1>3, <1>11, <1>13, <1>16, <1>17

(***************************************************************************)
(* A started stream leaves its queue q.                                    *)
(***************************************************************************)
Fewer(y, q) == [y.running_streams EXCEPT ![q] = @ - 1]

\* What is left when a started stream has been erased and its counter lowered.
LEMMA EraseBut ==
    ASSUME NEW y \in SysType, NEW s \in Stream,
           Slack(y), LiveIn(y, s), s \in y.initialized,
           NEW q, q = QueueOf(y, s),
           NEW z, z = erase_stream(y, q, s)
    PROVE  /\ q \in Queue
           /\ z \in SysType
           /\ OnlyQueue(y, z, q)
           /\ WellBut(z, s, Fewer(y, q))
           /\ Fewer(y, q) \in [Queue -> Nat]
           /\ Len(z.active_Streams[q]) = Len(y.active_Streams[q]) - 1
           /\ Len(y.active_Streams[q]) \in Nat
  <1>1. /\ y.step \in [Stream -> Nat] /\ y.plan \in [Stream -> Seq(Phase)]
        /\ y.running_streams \in [Queue -> Nat]
        /\ y.active_Streams \in [Queue -> Seq(Stream)]
    BY DEF SysType
  <1>2. q \in Queue
    <2>1. y.step[s] \in 1 .. Len(y.plan[s]) /\ y.plan[s] \in Seq(Phase)
      BY <1>1 DEF LiveIn
    <2>2. y.plan[s][y.step[s]] \in Phase
      BY <2>1
    <2> QED
      BY <2>2 DEF QueueOf, Phase
  <1>3. PICK k \in Nat : k = y.running_streams[q]
    BY <1>1, <1>2
  <1>4. PICK A : A = InQueue(y, q)
    OBVIOUS
  <1>5. /\ Well(y.active_Streams[q], A, y.initialized, k)
        /\ k <= Len(y.active_Streams[q])
        /\ s \in A
    <2>1. Len(y.active_Streams[q]) \in Nat
      BY <1>1, <1>2
    <2>2. s \in A
      BY <1>4 DEF InQueue
    <2>3. /\ Well(y.active_Streams[q], A, y.initialized, k)
          /\ k <= Limit(Len(y.active_Streams[q]))
      BY <1>2, <1>3, <1>4 DEF Slack
    <2>4. k <= Len(y.active_Streams[q])
      BY <2>1, <2>3, ThresholdType DEF Limit
    <2> QED
      BY <2>2, <2>3, <2>4
  <1>6. /\ z \in SysType
        /\ OnlyQueue(y, z, q)
        /\ k - 1 \in Nat
        /\ Well(z.active_Streams[q], A \ {s}, y.initialized, k - 1)
        /\ Len(z.active_Streams[q]) = Len(y.active_Streams[q]) - 1
        /\ Len(y.active_Streams[q]) \in Nat
    BY <1>2, <1>5, EraseStream
  <1>7. /\ Fewer(y, q) \in [Queue -> Nat]
        /\ Fewer(y, q)[q] = k - 1
        /\ \A p \in Queue \ {q} : Fewer(y, q)[p] = y.running_streams[p]
    BY <1>1, <1>2, <1>3, <1>6 DEF Fewer
  <1>8. ASSUME NEW p \in Queue
        PROVE  InQueue(z, p) = InQueue(y, p)
    BY <1>6 DEF OnlyQueue, InQueue, LiveIn, QueueOf
  <1>9. ASSUME NEW p \in Queue
        PROVE  /\ Well(z.active_Streams[p], InQueue(z, p) \ {s}, z.initialized,
                       Fewer(y, q)[p])
               /\ Fewer(y, q)[p] <= Len(z.active_Streams[p])
    <2>1. CASE p = q
      <3>1. z.initialized = y.initialized
        BY <1>6 DEF OnlyQueue
      <3>2. InQueue(z, p) \ {s} = A \ {s} /\ Fewer(y, q)[p] = k - 1
        BY <1>4, <1>7, <1>8, <2>1
      <3>3. k - 1 <= Len(z.active_Streams[q])
        BY <1>5, <1>6
      <3> QED
        BY <1>6, <2>1, <3>1, <3>2, <3>3
    <2>2. CASE p # q
      <3>1. z.active_Streams[p] = y.active_Streams[p] /\ z.initialized = y.initialized
        BY <1>6, <2>2 DEF OnlyQueue
      <3>2. s \notin InQueue(y, p)
        BY <2>2 DEF InQueue
      <3>3. InQueue(z, p) \ {s} = InQueue(y, p)
        BY <1>8, <3>2
      <3>4. Len(y.active_Streams[p]) \in Nat /\ y.running_streams[p] \in Nat
        BY <1>1
      <3>5. /\ Well(y.active_Streams[p], InQueue(y, p), y.initialized,
                    y.running_streams[p])
            /\ y.running_streams[p] <= Limit(Len(y.active_Streams[p]))
        BY DEF Slack
      <3>6. y.running_streams[p] <= Len(y.active_Streams[p])
        BY <3>4, <3>5, ThresholdType DEF Limit
      <3> QED
        BY <1>7, <2>2, <3>1, <3>3, <3>5, <3>6
    <2> QED
      BY <2>1, <2>2
  <1> QED
    BY <1>2, <1>6, <1>7, <1>9 DEF WellBut

\* A Sys object with another value of running_streams.
LEMMA RunningUpdate ==
    ASSUME NEW y \in SysType, NEW k \in [Queue -> Nat],
           NEW z, z = [y EXCEPT !.running_streams = k]
    PROVE  /\ z \in SysType
           /\ z.running_streams = k
           /\ z.active_Streams = y.active_Streams
           /\ OnlyStarts(y, z)
           /\ z.initialized = y.initialized
           /\ \A p : InQueue(z, p) = InQueue(y, p)
  <1>1. /\ z \in SysType
        /\ z.running_streams = k
        /\ z.active_Streams = y.active_Streams
        /\ z.initialized = y.initialized
        /\ OnlyStarts(y, z)
    BY DEF SysType, OnlyStarts
  <1> QED
    BY <1>1 DEF InQueue, LiveIn, QueueOf, OnlyStarts

(***************************************************************************)
(* What a stream's change of phase leaves alone.                           *)
(***************************************************************************)
Moved(y, z, s) ==
    /\ z.issued = y.issued
    /\ z.completed = y.completed
    /\ z.finished_streams = y.finished_streams
    /\ z.first_phase_streams = y.first_phase_streams
    /\ z.allocator = y.allocator
    /\ z.first_allocator = y.first_allocator
    /\ z.last_allocator = y.last_allocator
    /\ z.plan = y.plan
    /\ z.step = [y.step EXCEPT ![s] = @ + 1]
    /\ y.initialized \ {s} \subseteq z.initialized

\* The end of a phase that is not the last.
LEMMA MoveOn ==
    ASSUME NEW y \in SysType, NEW s \in Stream,
           Slack(y), FullBut(y, {}), LiveIn(y, s), s \in y.initialized,
           y.step[s] < Len(y.plan[s]),
           NEW q, q = QueueOf(y, s),
           NEW b, b = EnterPhase(erase_stream(y, q, s), s),
           NEW z, z = notify_stream_added(notify_stream_removed(b, q), QueueOf(b, s))
    PROVE  /\ z \in SysType
           /\ Slack(z) /\ FullBut(z, {})
           /\ Moved(y, z, s)
           /\ z.total_running_streams = y.total_running_streams
  <1>1. PICK a : a = erase_stream(y, q, s)
    OBVIOUS
  <1>2. PICK k : k = Fewer(y, q)
    OBVIOUS
  <1>3. /\ q \in Queue
        /\ a \in SysType
        /\ OnlyQueue(y, a, q)
        /\ WellBut(a, s, k)
        /\ k \in [Queue -> Nat]
        /\ Len(a.active_Streams[q]) = Len(y.active_Streams[q]) - 1
        /\ Len(y.active_Streams[q]) \in Nat
    BY <1>1, <1>2, EraseBut
  <1>4. PICK q2 : q2 = QueueOf(b, s)
    OBVIOUS
  <1>5. /\ b \in SysType
        /\ Entered(a, b, s)
        /\ q2 \in Queue
        /\ q2 = NextQueue(a, s)
        /\ \A p \in Queue :
              Well(b.active_Streams[p], InQueue(b, p), b.initialized, k[p])
    <2>1. a.step[s] < Len(a.plan[s]) /\ b = EnterPhase(a, s)
      BY <1>1, <1>3 DEF OnlyQueue
    <2> QED
      BY <1>3, <1>4, <2>1, EnterPhaseWell
  <1>6. b.running_streams = y.running_streams
    BY <1>3, <1>5 DEF OnlyQueue, Entered
  <1>7. PICK c : c = [b EXCEPT !.running_streams = k]
    OBVIOUS
  <1>8. notify_stream_removed(b, q) = InitLoop(c, q)
    <2>1. c = [b EXCEPT !.running_streams[q] = @ - 1]
      BY <1>2, <1>5, <1>6, <1>7 DEF Fewer, SysType
    <2> QED
      BY <2>1 DEF notify_stream_removed
  <1>9. /\ c \in SysType
        /\ c.running_streams = k
        /\ c.active_Streams = b.active_Streams
        /\ OnlyStarts(b, c)
        /\ c.initialized = b.initialized
        /\ \A p : InQueue(c, p) = InQueue(b, p)
    BY <1>3, <1>5, <1>7, RunningUpdate
  <1>10. ASSUME NEW p \in Queue
         PROVE  /\ k[p] <= Limit(Len(c.active_Streams[p]))
                /\ p \notin {q, q2} => k[p] = Limit(Len(c.active_Streams[p]))
    <2>1. /\ y.active_Streams \in [Queue -> Seq(Stream)]
          /\ y.running_streams \in [Queue -> Nat]
      BY DEF SysType
    <2>2. PICK n \in Nat : n = Len(y.active_Streams[p])
      BY <2>1
    <2>3. Len(a.active_Streams[p]) = IF p = q THEN n - 1 ELSE n
      BY <1>3, <2>2 DEF OnlyQueue
    <2>4. Len(c.active_Streams[p]) =
             IF p = q2 THEN Len(a.active_Streams[p]) + 1 ELSE Len(a.active_Streams[p])
      BY <1>5, <1>9 DEF Entered
    <2>5. y.running_streams[p] = Limit(n)
      BY <2>2 DEF FullBut
    <2>6. k[p] = IF p = q THEN Limit(n) - 1 ELSE Limit(n)
      BY <1>2, <2>1, <2>5 DEF Fewer
    <2> QED
      BY <2>3, <2>4, <2>6, ThresholdType DEF Limit
  <1>11. Slack(c) /\ FullBut(c, {q, q2})
    BY <1>5, <1>9, <1>10 DEF Slack, FullBut
  <1>12. PICK d : d = InitLoop(c, q)
    OBVIOUS
  <1>13. d \in SysType /\ Slack(d) /\ FullBut(d, {q, q2} \ {q}) /\ OnlyStarts(c, d)
    BY <1>3, <1>9, <1>11, <1>12, InitLoopFills
  <1>14. z = InitLoop(d, q2)
    BY <1>4, <1>8, <1>12 DEF notify_stream_added
  <1>15. z \in SysType /\ Slack(z) /\ FullBut(z, ({q, q2} \ {q}) \ {q2}) /\ OnlyStarts(d, z)
    BY <1>5, <1>13, <1>14, InitLoopFills
  <1>16. FullBut(z, {})
    BY <1>15 DEF FullBut
  <1>17. /\ Moved(y, z, s)
         /\ z.total_running_streams = y.total_running_streams
    BY <1>3, <1>5, <1>9, <1>13, <1>15 DEF Moved, OnlyQueue, Entered, OnlyStarts
  <1> QED
    BY <1>15, <1>16, <1>17

Left(y, q, s) ==
    [erase_stream(y, q, s) EXCEPT !.total_running_streams = @ - 1, !.step[s] = @ + 1]

\* The end of the last phase.
LEMMA Leave ==
    ASSUME NEW y \in SysType, NEW s \in Stream,
           Slack(y), FullBut(y, {}), LiveIn(y, s), s \in y.initialized,
           y.step[s] = Len(y.plan[s]),
           NEW q, q = QueueOf(y, s),
           NEW b, b = Left(y, q, s),
           NEW z, z = notify_stream_removed(b, q)
    PROVE  /\ z \in SysType
           /\ Slack(z) /\ FullBut(z, {})
           /\ Moved(y, z, s)
           /\ z.total_running_streams = y.total_running_streams - 1
  <1>1. PICK a : a = erase_stream(y, q, s)
    OBVIOUS
  <1>2. PICK k : k = Fewer(y, q)
    OBVIOUS
  <1>3. /\ q \in Queue
        /\ a \in SysType
        /\ OnlyQueue(y, a, q)
        /\ WellBut(a, s, k)
        /\ k \in [Queue -> Nat]
        /\ Len(a.active_Streams[q]) = Len(y.active_Streams[q]) - 1
        /\ Len(y.active_Streams[q]) \in Nat
    BY <1>1, <1>2, EraseBut
  <1>4. /\ a.step \in [Stream -> Nat] /\ a.plan \in [Stream -> Seq(Phase)]
        /\ a.total_running_streams \in Int
    BY <1>3 DEF SysType
  <1>5. PICK step2 \in [Stream -> Nat] : step2 = [a.step EXCEPT ![s] = @ + 1]
    <2>1. [a.step EXCEPT ![s] = @ + 1] \in [Stream -> Nat]
      BY <1>4
    <2> QED
      BY <2>1
  <1>6. PICK total2 \in Int : total2 = a.total_running_streams - 1
    BY ONLY <1>4
  <1>7. b = [a EXCEPT !.total_running_streams = total2, !.step = step2]
    BY <1>1, <1>3, <1>5, <1>6 DEF SysType, Left
  <1>8. /\ b \in SysType
        /\ b.step = step2
        /\ b.total_running_streams = total2
        /\ b.active_Streams = a.active_Streams
        /\ b.running_streams = a.running_streams
        /\ b.plan = a.plan
        /\ b.initialized = a.initialized
    BY <1>3, <1>7 DEF SysType
  <1>9. /\ b.issued = a.issued
        /\ b.completed = a.completed
        /\ b.finished_streams = a.finished_streams
        /\ b.first_phase_streams = a.first_phase_streams
        /\ b.allocator = a.allocator
        /\ b.first_allocator = a.first_allocator
        /\ b.last_allocator = a.last_allocator
    BY <1>3, <1>7 DEF SysType
  <1>10. ~LiveIn(b, s)
    BY <1>3, <1>4, <1>5, <1>8 DEF LiveIn, OnlyQueue
  <1>11. ASSUME NEW t \in Stream, t # s
         PROVE  /\ LiveIn(b, t) <=> LiveIn(a, t)
                /\ QueueOf(b, t) = QueueOf(a, t)
    BY <1>4, <1>5, <1>8, <1>11 DEF QueueOf, LiveIn
  <1>12. ASSUME NEW p \in Queue
         PROVE  InQueue(b, p) = InQueue(a, p) \ {s}
    BY <1>10, <1>11 DEF InQueue
  <1>13. PICK c : c = [b EXCEPT !.running_streams = k]
    OBVIOUS
  <1>14. z = InitLoop(c, q)
    <2>1. b.running_streams = y.running_streams
      BY <1>3, <1>8 DEF OnlyQueue
    <2>2. c = [b EXCEPT !.running_streams[q] = @ - 1]
      BY <1>2, <1>8, <1>13, <2>1 DEF Fewer, SysType
    <2> QED
      BY <2>2 DEF notify_stream_removed
  <1>15. /\ c \in SysType
         /\ c.running_streams = k
         /\ c.active_Streams = b.active_Streams
         /\ OnlyStarts(b, c)
         /\ c.initialized = b.initialized
         /\ \A p : InQueue(c, p) = InQueue(b, p)
    BY ONLY <1>3, <1>8, <1>13, RunningUpdate
  <1>16. ASSUME NEW p \in Queue
         PROVE  /\ k[p] <= Limit(Len(c.active_Streams[p]))
                /\ p \notin {q} => k[p] = Limit(Len(c.active_Streams[p]))
    <2>1. /\ y.active_Streams \in [Queue -> Seq(Stream)]
          /\ y.running_streams \in [Queue -> Nat]
      BY DEF SysType
    <2>2. PICK n \in Nat : n = Len(y.active_Streams[p])
      BY ONLY <2>1, p \in Queue
    <2>3. Len(c.active_Streams[p]) = IF p = q THEN n - 1 ELSE n
      BY <1>3, <1>8, <1>15, <2>2 DEF OnlyQueue
    <2>5. y.running_streams[p] = Limit(n)
      BY <2>2 DEF FullBut
    <2>6. k[p] = IF p = q THEN Limit(n) - 1 ELSE Limit(n)
      BY <1>2, <2>1, <2>5 DEF Fewer
    <2> QED
      BY <2>3, <2>6, ThresholdType DEF Limit
  <1>17. Slack(c) /\ FullBut(c, {q})
    <2>1. ASSUME NEW p \in Queue
          PROVE  Well(c.active_Streams[p], InQueue(c, p), c.initialized, k[p])
      <3>1. Well(a.active_Streams[p], InQueue(a, p) \ {s}, a.initialized, k[p])
        BY <1>3 DEF WellBut
      <3> QED
        BY <1>8, <1>12, <1>15, <3>1
    <2> QED
      BY <1>15, <1>16, <2>1 DEF Slack, FullBut
  <1>18. z \in SysType /\ Slack(z) /\ FullBut(z, {q} \ {q}) /\ OnlyStarts(c, z)
    BY <1>3, <1>14, <1>15, <1>17, InitLoopFills
  <1>19. FullBut(z, {})
    BY <1>18 DEF FullBut
  <1>20. /\ Moved(y, z, s)
         /\ z.total_running_streams = y.total_running_streams - 1
    BY <1>3, <1>5, <1>6, <1>8, <1>9, <1>15, <1>18 DEF Moved, OnlyQueue, OnlyStarts
  <1> QED
    BY <1>18, <1>19, <1>20

\* A new stream enters the queue of its first phase.
LEMMA EnterNew ==
    ASSUME NEW y \in SysType, NEW s \in Stream,
           Slack(y), FullBut(y, {}),
           y.step[s] = 0, y.plan[s] # <<>>,
           NEW z, z = ScheduleNew(y, s)
    PROVE  /\ z \in SysType
           /\ Slack(z) /\ FullBut(z, {})
           /\ z.issued = y.issued
           /\ z.completed = y.completed
           /\ z.finished_streams = y.finished_streams
           /\ z.first_phase_streams = y.first_phase_streams + 1
           /\ z.total_running_streams = y.total_running_streams + 1
           /\ z.plan = y.plan
           /\ z.step = [y.step EXCEPT ![s] = 1]
           /\ y.initialized \ {s} \subseteq z.initialized
  <1>1. /\ y.step \in [Stream -> Nat] /\ y.plan \in [Stream -> Seq(Phase)]
        /\ y.running_streams \in [Queue -> Nat]
        /\ y.active_Streams \in [Queue -> Seq(Stream)]
    BY DEF SysType
  <1>2. PICK k : k = y.running_streams
    OBVIOUS
  <1>3. WellBut(y, s, k)
    <2> SUFFICES ASSUME NEW p \in Queue
                 PROVE  /\ Well(y.active_Streams[p], InQueue(y, p) \ {s},
                                y.initialized, k[p])
                        /\ k[p] <= Len(y.active_Streams[p])
      BY DEF WellBut
    <2>1. InQueue(y, p) \ {s} = InQueue(y, p)
      BY DEF InQueue, LiveIn
    <2>2. /\ Well(y.active_Streams[p], InQueue(y, p), y.initialized,
                  y.running_streams[p])
          /\ y.running_streams[p] <= Limit(Len(y.active_Streams[p]))
      BY DEF Slack
    <2>3. y.running_streams[p] \in Nat /\ Len(y.active_Streams[p]) \in Nat
      BY <1>1
    <2>4. y.running_streams[p] <= Len(y.active_Streams[p])
      BY <2>2, <2>3, ThresholdType DEF Limit
    <2> QED
      BY <1>2, <2>1, <2>2, <2>4
  <1>4. PICK b : b = EnterPhase(y, s)
    OBVIOUS
  <1>5. PICK q : q = NextQueue(y, s)
    OBVIOUS
  <1>6. /\ b \in SysType
        /\ Entered(y, b, s)
        /\ q \in Queue
        /\ \A p \in Queue :
              Well(b.active_Streams[p], InQueue(b, p), b.initialized, k[p])
    <2>1. Len(y.plan[s]) > 0
      BY <1>1
    <2> QED
      BY <1>3, <1>4, <1>5, <2>1, EnterPhaseWell
  <1>7. Slack(b) /\ FullBut(b, {q})
    <2>1. ASSUME NEW p \in Queue
          PROVE  /\ b.running_streams[p] = k[p]
                 /\ k[p] <= Limit(Len(b.active_Streams[p]))
                 /\ p # q => k[p] = Limit(Len(b.active_Streams[p]))
      <3>1. PICK n \in Nat : n = Len(y.active_Streams[p])
        BY <1>1
      <3>2. Len(b.active_Streams[p]) = IF p = q THEN n + 1 ELSE n
        BY <1>5, <1>6, <3>1 DEF Entered
      <3>3. k[p] = Limit(n)
        BY <1>2, <3>1 DEF FullBut
      <3>4. b.running_streams = y.running_streams
        BY <1>6 DEF Entered
      <3> QED
        BY <1>2, <3>2, <3>3, <3>4, ThresholdType DEF Limit
    <2> QED
      BY <1>6, <2>1 DEF Slack, FullBut
  <1>8. PICK d : d = InitLoop(b, q)
    OBVIOUS
  <1>9. d \in SysType /\ Slack(d) /\ FullBut(d, {q} \ {q}) /\ OnlyStarts(b, d)
    BY <1>6, <1>7, <1>8, InitLoopFills
  <1>10. z = [d EXCEPT !.first_phase_streams = @ + 1, !.total_running_streams = @ + 1]
    <2>1. b.plan[s][1].queue = q
      BY <1>1, <1>5, <1>6 DEF Entered, NextQueue
    <2> QED
      BY <1>4, <1>8, <2>1 DEF ScheduleNew, notify_stream_added
  <1>11. d.first_phase_streams \in Int /\ d.total_running_streams \in Int
    BY <1>9 DEF SysType
  <1>12. /\ z \in SysType
         /\ z.first_phase_streams = d.first_phase_streams + 1
         /\ z.total_running_streams = d.total_running_streams + 1
    <2>1. PICK m \in Int, n \in Int : /\ m = d.first_phase_streams + 1
                                     /\ n = d.total_running_streams + 1
      BY ONLY <1>11
    <2>2. z = [d EXCEPT !.first_phase_streams = m, !.total_running_streams = n]
      BY <1>9, <1>10, <2>1 DEF SysType
    <2> QED
      BY <1>9, <2>1, <2>2 DEF SysType
  <1>13. /\ z.issued = d.issued
         /\ z.completed = d.completed
         /\ z.finished_streams = d.finished_streams
         /\ z.active_Streams = d.active_Streams
         /\ z.running_streams = d.running_streams
         /\ z.plan = d.plan
         /\ z.step = d.step
         /\ z.initialized = d.initialized
    BY <1>9, <1>10 DEF SysType
  <1>14. \A p : InQueue(z, p) = InQueue(d, p)
    BY <1>13 DEF InQueue, LiveIn, QueueOf
  <1>15. Slack(z) /\ FullBut(z, {})
    BY <1>9, <1>13, <1>14 DEF Slack, FullBut
  <1>16. z.step = [y.step EXCEPT ![s] = 1]
    <2>1. z.step = [y.step EXCEPT ![s] = @ + 1]
      BY <1>6, <1>9, <1>13 DEF Entered, OnlyStarts
    <2> QED
      BY <1>1, <2>1
  <1> QED
    BY <1>6, <1>9, <1>12, <1>13, <1>15, <1>16 DEF Entered, OnlyStarts

-----------------------------------------------------------------------------
(***************************************************************************)
(* Plans.  TakeQueue moves an allocator and does nothing else.             *)
(***************************************************************************)
LayoutPhase == [dim : Dim, half : {"all", "first", "last"}]

OnlyAllocators(y, z) ==
    /\ z.issued = y.issued
    /\ z.completed = y.completed
    /\ z.finished_streams = y.finished_streams
    /\ z.active_Streams = y.active_Streams
    /\ z.running_streams = y.running_streams
    /\ z.first_phase_streams = y.first_phase_streams
    /\ z.total_running_streams = y.total_running_streams
    /\ z.step = y.step
    /\ z.initialized = y.initialized

\* The round-robin allocators stay within their half of the queues.
LEMMA NextAllocatorType ==
    ASSUME NEW a \in 0 .. QueuesPerDim - 1
    PROVE  /\ NextAllocator(a, 0, QueuesPerDim) \in 0 .. QueuesPerDim - 1
           /\ NextAllocator(a, 0, QueuesPerDim \div 2) \in 0 .. QueuesPerDim - 1
           /\ NextAllocator(a, QueuesPerDim \div 2, QueuesPerDim)
                 \in 0 .. QueuesPerDim - 1
  <1>1. QueuesPerDim \in Nat \ {0}
    BY ConfigAssumption
  <1>2. QueuesPerDim \div 2 \in 0 .. QueuesPerDim - 1
    BY <1>1
  <1> QED
    BY <1>1, <1>2 DEF NextAllocator

\* get_next_queue_at_level (and _first, _last) moves an allocator only.
LEMMA TakeQueueWell ==
    ASSUME NEW y \in SysType, NEW phase \in LayoutPhase
    PROVE  /\ TakeQueue(y, phase)[1] \in Queue
           /\ TakeQueue(y, phase)[2] \in SysType
           /\ OnlyAllocators(y, TakeQueue(y, phase)[2])
           /\ TakeQueue(y, phase)[2].plan = y.plan
  <1>1. PICK d \in Dim : d = phase.dim
    BY DEF LayoutPhase
  <1>2. phase.half \in {"all", "first", "last"}
    BY DEF LayoutPhase
  <1> DEFINE Alloc == [Dim -> 0 .. QueuesPerDim - 1]
  <1>3. y.allocator \in Alloc /\ y.first_allocator \in Alloc /\ y.last_allocator \in Alloc
    BY DEF SysType
  <1>4. CASE phase.half = "all"
    <2>1. PICK f \in Alloc : f = [y.allocator EXCEPT ![d] = NextAllocator(@, 0, QueuesPerDim)]
      BY <1>3, NextAllocatorType
    <2>2. TakeQueue(y, phase) =
             << QueueId(d, y.allocator[d]), [y EXCEPT !.allocator = f] >>
      BY <1>1, <1>4, <2>1 DEF TakeQueue, get_next_queue_id, SysType
    <2>3. QueueId(d, y.allocator[d]) \in Queue
      BY <1>3, QueueIdType
    <2>4. PICK z : z = [y EXCEPT !.allocator = f]
      OBVIOUS
    <2>5. z \in SysType /\ z.plan = y.plan
      BY <2>4 DEF SysType
    <2>6. OnlyAllocators(y, z)
      BY <2>4 DEF SysType, OnlyAllocators
    <2>7. TakeQueue(y, phase)[1] \in Queue /\ TakeQueue(y, phase)[2] = z
      BY <2>2, <2>3, <2>4
    <2> QED
      BY <2>5, <2>6, <2>7
  <1>5. CASE phase.half = "first"
    <2>1. PICK f \in Alloc :
             f = [y.first_allocator EXCEPT ![d] = NextAllocator(@, 0, QueuesPerDim \div 2)]
      BY <1>3, NextAllocatorType
    <2>2. TakeQueue(y, phase) =
             << QueueId(d, y.first_allocator[d]), [y EXCEPT !.first_allocator = f] >>
      BY <1>1, <1>5, <2>1 DEF TakeQueue, get_next_queue_id_first, SysType
    <2>3. QueueId(d, y.first_allocator[d]) \in Queue
      BY <1>3, QueueIdType
    <2>4. PICK z : z = [y EXCEPT !.first_allocator = f]
      OBVIOUS
    <2>5. z \in SysType /\ z.plan = y.plan
      BY <2>4 DEF SysType
    <2>6. OnlyAllocators(y, z)
      BY <2>4 DEF SysType, OnlyAllocators
    <2>7. TakeQueue(y, phase)[1] \in Queue /\ TakeQueue(y, phase)[2] = z
      BY <2>2, <2>3, <2>4
    <2> QED
      BY <2>5, <2>6, <2>7
  <1>6. CASE phase.half = "last"
    <2>1. PICK f \in Alloc :
             f = [y.last_allocator EXCEPT ![d] =
                     NextAllocator(@, QueuesPerDim \div 2, QueuesPerDim)]
      BY <1>3, NextAllocatorType
    <2>2. TakeQueue(y, phase) =
             << QueueId(d, y.last_allocator[d]), [y EXCEPT !.last_allocator = f] >>
      BY <1>1, <1>6, <2>1 DEF TakeQueue, get_next_queue_id_last, SysType
    <2>3. QueueId(d, y.last_allocator[d]) \in Queue
      BY <1>3, QueueIdType
    <2>4. PICK z : z = [y EXCEPT !.last_allocator = f]
      OBVIOUS
    <2>5. z \in SysType /\ z.plan = y.plan
      BY <2>4 DEF SysType
    <2>6. OnlyAllocators(y, z)
      BY <2>4 DEF SysType, OnlyAllocators
    <2>7. TakeQueue(y, phase)[1] \in Queue /\ TakeQueue(y, phase)[2] = z
      BY <2>2, <2>3, <2>4
    <2> QED
      BY <2>5, <2>6, <2>7
  <1> QED
    BY <1>2, <1>4, <1>5, <1>6

(***************************************************************************)
(* MakePlan: the plan of stream s gets the dimensions of the layout, and   *)
(* nothing but allocators changes.                                         *)
(***************************************************************************)
AddPhase(y, s, phase) ==
    LET t == TakeQueue(y, phase)
    IN  [t[2] EXCEPT !.plan[s] = Append(@, [dim |-> phase.dim, queue |-> t[1]])]

Planned(y, z, s, layout, n) ==
    /\ z \in SysType
    /\ OnlyAllocators(y, z)
    /\ \A t \in Stream \ {s} : z.plan[t] = y.plan[t]
    /\ Len(z.plan[s]) = n
    /\ \A i \in 1 .. n : z.plan[s][i].dim = layout[i].dim

\* One round of the loop that makes the plan.
LEMMA AddPhaseWell ==
    ASSUME NEW y, NEW x, NEW s \in Stream, NEW layout \in Seq(LayoutPhase),
           NEW n \in 1 .. Len(layout), Planned(y, x, s, layout, n - 1)
    PROVE  Planned(y, AddPhase(x, s, layout[n]), s, layout, n)
  <1>1. x \in SysType
    BY DEF Planned
  <1>2. PICK phase \in LayoutPhase : phase = layout[n]
    OBVIOUS
  <1>3. PICK u : u = TakeQueue(x, phase)[2]
    OBVIOUS
  <1>4. PICK q : q = TakeQueue(x, phase)[1]
    OBVIOUS
  <1>5. q \in Queue /\ u \in SysType /\ OnlyAllocators(x, u) /\ u.plan = x.plan
    BY <1>1, <1>3, <1>4, TakeQueueWell
  <1>6. PICK new \in Phase : new = [dim |-> phase.dim, queue |-> q]
    BY <1>5 DEF LayoutPhase, Phase
  <1>7. PICK list \in Seq(Phase) : list = x.plan[s]
    BY <1>1 DEF SysType
  <1>8. x.plan \in [Stream -> Seq(Phase)]
    BY <1>1 DEF SysType
  <1>9. PICK plan2 \in [Stream -> Seq(Phase)] :
           plan2 = [x.plan EXCEPT ![s] = Append(list, new)]
    <2>1. Append(list, new) \in Seq(Phase)
      OBVIOUS
    <2> QED
      BY <1>8, <2>1
  <1>10. PICK z : z = AddPhase(x, s, layout[n])
    OBVIOUS
  <1>11. z = [u EXCEPT !.plan = plan2]
    <2>1. z = [u EXCEPT !.plan[s] = Append(@, new)]
      BY <1>2, <1>3, <1>4, <1>6, <1>10 DEF AddPhase
    <2> QED
      BY <1>5, <1>7, <1>9, <2>1 DEF SysType
  <1>12. z \in SysType /\ z.plan = plan2
    BY <1>5, <1>11 DEF SysType
  <1>13. OnlyAllocators(u, z)
    BY <1>5, <1>11 DEF SysType, OnlyAllocators
  <1>14. OnlyAllocators(y, z)
    BY <1>5, <1>13 DEF OnlyAllocators, Planned
  <1>15. /\ \A t \in Stream \ {s} : z.plan[t] = y.plan[t]
         /\ z.plan[s] = Append(list, new)
    BY <1>8, <1>9, <1>12 DEF Planned
  <1>16. Len(list) = n - 1 /\ \A i \in 1 .. n - 1 : list[i].dim = layout[i].dim
    BY <1>7 DEF Planned
  <1>17. /\ Len(Append(list, new)) = n
         /\ Append(list, new)[n] = new
         /\ \A i \in 1 .. n - 1 : Append(list, new)[i] = list[i]
    BY <1>16
  <1>18. ASSUME NEW i \in 1 .. n
         PROVE  z.plan[s][i].dim = layout[i].dim
    <2>1. CASE i = n
      BY <1>2, <1>6, <1>15, <1>17, <2>1
    <2>2. CASE i # n
      <3>1. i \in 1 .. n - 1
        BY <2>2
      <3> QED
        BY <1>15, <1>16, <1>17, <3>1
    <2> QED
      BY <2>1, <2>2
  <1> QED
    BY <1>10, <1>12, <1>14, <1>15, <1>17, <1>18 DEF Planned

\* The whole loop: the plan follows the layout.
LEMMA MakePlanWell ==
    ASSUME NEW y \in SysType, NEW s \in Stream, y.plan[s] = <<>>,
           NEW layout \in Seq(LayoutPhase)
    PROVE  Planned(y, MakePlan(y, s, layout), s, layout, Len(layout))
  <1>0. PICK n \in Nat : n = Len(layout)
    OBVIOUS
  <1> DEFINE T == [i \in 0 .. n |-> {z \in SysType : Planned(y, z, s, layout, i)}]
             F == [p \in SysType \X (1 .. n) |-> AddPhase(p[1], s, layout[p[2]])]
             Rec(f) == f = [i \in 0 .. n |-> IF i = 0 THEN y
                                             ELSE AddPhase(f[i - 1], s, layout[i])]
             made == CHOOSE f : Rec(f)
  <1>1. y \in T[0]
    BY DEF Planned, OnlyAllocators
  <1>2. \A i \in 1 .. n : \A z : z \in T[i - 1] => z \in SysType /\ Planned(y, z, s, layout, i - 1)
    OBVIOUS
  <1>3. \A i \in 1 .. n : \A z \in SysType : Planned(y, z, s, layout, i) => z \in T[i]
    OBVIOUS
  <1>4. \A i \in 1 .. n : \A z \in SysType : F[<<z, i>>] = AddPhase(z, s, layout[i])
    OBVIOUS
  <1>5. ASSUME NEW i \in 1 .. n, NEW z \in T[i - 1]
        PROVE  AddPhase(z, s, layout[i]) \in T[i]
    <2>1. Planned(y, z, s, layout, i - 1)
      BY <1>2
    <2>2. Planned(y, AddPhase(z, s, layout[i]), s, layout, i)
      BY <1>0, <2>1, AddPhaseWell
    <2> HIDE DEF T
    <2> QED
      BY <1>3, <2>2 DEF Planned
  <1> HIDE DEF T, F
  <1>6. PICK f : /\ f = [i \in 0 .. n |-> f[i]]
                 /\ f[0] = y
                 /\ \A i \in 1 .. n : f[i] = F[<<f[i - 1], i>>]
                 /\ \A i \in 0 .. n : f[i] \in T[i]
    <2>1. \A i \in 1 .. n : \A z \in T[i - 1] : F[<<z, i>>] \in T[i]
      BY <1>2, <1>4, <1>5
    <2>2. Leads(n, T, F, y)
      BY <1>1, <2>1 DEF Leads
    <2>3. \E f : Follows(f, n, T, F, y)
      BY <2>2, Recursion
    <2> QED
      BY <2>3 DEF Follows
  <1>7. Rec(f)
    <2>1. ASSUME NEW i \in 1 .. n
          PROVE  f[i] = AddPhase(f[i - 1], s, layout[i])
      <3>1. i - 1 \in 0 .. n
        OBVIOUS
      <3>2. f[i - 1] \in SysType
        BY <1>2, <1>6, <3>1
      <3> QED
        BY <1>4, <1>6, <3>2
    <2>2. \A i \in 0 .. n : f[i] = IF i = 0 THEN y ELSE AddPhase(f[i - 1], s, layout[i])
      BY <1>6, <2>1
    <2> QED
      BY <1>6, <2>2
  <1>8. Rec(made)
    BY <1>7
  <1>9. MakePlan(y, s, layout) = made[n]
    BY <1>0 DEF MakePlan, AddPhase
  <1> HIDE DEF made
  <1>10. made[0] = y /\ \A i \in 1 .. n : made[i] = AddPhase(made[i - 1], s, layout[i])
    <2> DEFINE g == [i \in 0 .. n |-> IF i = 0 THEN y
                                      ELSE AddPhase(made[i - 1], s, layout[i])]
    <2>1. g[0] = y /\ \A i \in 1 .. n : g[i] = AddPhase(made[i - 1], s, layout[i])
      OBVIOUS
    <2>2. made = g
      BY <1>8
    <2> HIDE DEF g
    <2> QED
      BY <2>1, <2>2
  <1>11. \A i \in 0 .. n : made[i] \in T[i]
    <2>1. made[0] \in T[0]
      BY <1>1, <1>10
    <2>2. \A i \in 1 .. n : made[i - 1] \in T[i - 1] => made[i] \in T[i]
      BY <1>5, <1>10
    <2> QED
      BY <2>1, <2>2, StepByStep
  <1>12. made[n] \in T[n]
    BY <1>11
  <1> QED
    BY <1>0, <1>9, <1>12 DEF T

(***************************************************************************)
(* Layouts.  The loops over the dimensions pass every dimension of D.      *)
(***************************************************************************)
LEMMA AscendingWell ==
    ASSUME NEW D, D \subseteq Dim
    PROVE  /\ Ascending(D) \in Seq(Dim)
           /\ \A d \in D : \E k \in 1 .. Len(Ascending(D)) : Ascending(D)[k] = d
  <1>0. PICK n \in Nat : n = Len(Dims)
    BY ConfigAssumption
  <1> DEFINE Has(x, i) == \A d \in D : d <= i => \E k \in 1 .. Len(x) : x[k] = d
             T == [i \in 0 .. n |-> {x \in Seq(Dim) : Has(x, i)}]
             Step(x, i) == IF i \in D THEN Append(x, i) ELSE x
             F == [p \in Seq(Dim) \X (1 .. n) |-> Step(p[1], p[2])]
             Rec(f) == f = [i \in 0 .. n |-> IF i = 0 THEN <<>>
                                             ELSE Step(f[i - 1], i)]
             upTo == CHOOSE f : Rec(f)
  <1>1. <<>> \in T[0]
    BY <1>0 DEF Dim
  <1>2. \A i \in 1 .. n : \A x : x \in T[i - 1] => x \in Seq(Dim) /\ Has(x, i - 1)
    OBVIOUS
  <1>3. \A i \in 1 .. n : \A x \in Seq(Dim) : Has(x, i) => x \in T[i]
    OBVIOUS
  <1>4. \A i \in 1 .. n : \A x \in Seq(Dim) : F[<<x, i>>] = Step(x, i)
    OBVIOUS
  <1> HIDE DEF T, F
  <1>5. ASSUME NEW i \in 1 .. n, NEW x \in T[i - 1]
        PROVE  Step(x, i) \in T[i]
    <2>1. x \in Seq(Dim) /\ Has(x, i - 1) /\ i \in Dim
      BY <1>0, <1>2 DEF Dim
    <2>2. CASE i \in D
      <3>1. PICK new : new = Append(x, i)
        OBVIOUS
      <3>3. /\ new \in Seq(Dim)
            /\ \E k \in 1 .. Len(new) : new[k] = i
            /\ \A d : (\E k \in 1 .. Len(x) : x[k] = d)
                         => \E k \in 1 .. Len(new) : new[k] = d
        <4>1. /\ Append(x, i) \in Seq(Dim)
              /\ Len(Append(x, i)) = Len(x) + 1
              /\ Append(x, i)[Len(x) + 1] = i
              /\ \A k \in 1 .. Len(x) : Append(x, i)[k] = x[k]
          BY <2>1
        <4>2. Len(x) \in Nat
          BY <2>1
        <4> QED
          BY <3>1, <4>1, <4>2
      <3>4. Has(new, i)
        <4> SUFFICES ASSUME NEW d \in D, d <= i
                     PROVE  \E k \in 1 .. Len(new) : new[k] = d
          OBVIOUS
        <4>1. CASE d = i
          BY <3>3, <4>1
        <4>2. CASE d # i
          <5>1. d <= i - 1
            BY <1>0, <4>2 DEF Dim
          <5> QED
            BY <2>1, <3>3, <5>1
        <4> QED
          BY <4>1, <4>2
      <3> QED
        BY <1>3, <2>2, <3>1, <3>3, <3>4
    <2>3. CASE i \notin D
      <3>1. Has(x, i)
        <4> SUFFICES ASSUME NEW d \in D, d <= i
                     PROVE  \E k \in 1 .. Len(x) : x[k] = d
          OBVIOUS
        <4>1. d <= i - 1
          BY <1>0, <2>3 DEF Dim
        <4> QED
          BY <2>1, <4>1
      <3> QED
        BY <1>3, <2>1, <2>3, <3>1
    <2> QED
      BY <2>2, <2>3
  <1> HIDE DEF Step
  <1>6. PICK f : /\ f = [i \in 0 .. n |-> f[i]]
                 /\ f[0] = <<>>
                 /\ \A i \in 1 .. n : f[i] = F[<<f[i - 1], i>>]
                 /\ \A i \in 0 .. n : f[i] \in T[i]
    <2>1. \A i \in 1 .. n : \A x \in T[i - 1] : F[<<x, i>>] \in T[i]
      BY <1>2, <1>4, <1>5
    <2>2. Leads(n, T, F, <<>>)
      BY <1>1, <2>1 DEF Leads
    <2>3. \E f : Follows(f, n, T, F, <<>>)
      BY <2>2, Recursion
    <2> QED
      BY <2>3 DEF Follows
  <1>7. Rec(f)
    <2>1. ASSUME NEW i \in 1 .. n
          PROVE  f[i] = Step(f[i - 1], i)
      <3>1. i - 1 \in 0 .. n
        OBVIOUS
      <3>2. f[i - 1] \in Seq(Dim)
        BY <1>2, <1>6, <3>1
      <3> QED
        BY <1>4, <1>6, <3>2
    <2>2. \A i \in 0 .. n : f[i] = IF i = 0 THEN <<>> ELSE Step(f[i - 1], i)
      BY <1>6, <2>1
    <2> QED
      BY <1>6, <2>2
  <1>8. Rec(upTo)
    BY <1>7
  <1>9. Ascending(D) = upTo[n]
    BY <1>0 DEF Ascending, Step
  <1> HIDE DEF upTo
  <1>10. upTo[0] = <<>> /\ \A i \in 1 .. n : upTo[i] = Step(upTo[i - 1], i)
    <2> DEFINE g == [i \in 0 .. n |-> IF i = 0 THEN <<>> ELSE Step(upTo[i - 1], i)]
    <2>1. g[0] = <<>> /\ \A i \in 1 .. n : g[i] = Step(upTo[i - 1], i)
      OBVIOUS
    <2>2. upTo = g
      BY <1>8
    <2> HIDE DEF g
    <2> QED
      BY <2>1, <2>2
  <1>11. upTo[n] \in T[n]
    <2>1. upTo[0] \in T[0]
      BY <1>1, <1>10
    <2>2. \A i \in 1 .. n : upTo[i - 1] \in T[i - 1] => upTo[i] \in T[i]
      BY <1>5, <1>10
    <2>3. \A i \in 0 .. n : upTo[i] \in T[i]
      BY <2>1, <2>2, StepByStep
    <2> QED
      BY <2>3
  <1>12. upTo[n] \in Seq(Dim) /\ Has(upTo[n], n)
    BY <1>11 DEF T
  <1>13. \A d \in D : d <= n
    BY <1>0 DEF Dim
  <1> QED
    BY <1>9, <1>12, <1>13

\* The same for the descending order.
LEMMA DescendingWell ==
    ASSUME NEW D, D \subseteq Dim
    PROVE  /\ Descending(D) \in Seq(Dim)
           /\ \A d \in D : \E k \in 1 .. Len(Descending(D)) : Descending(D)[k] = d
  <1>0. PICK n \in Nat : n = Len(Dims)
    BY ConfigAssumption
  <1> DEFINE Has(x, i) == \A d \in D : d <= i => \E k \in 1 .. Len(x) : x[k] = d
             T == [i \in 0 .. n |-> {x \in Seq(Dim) : Has(x, i)}]
             Step(x, i) == IF i \in D THEN <<i>> \o x ELSE x
             F == [p \in Seq(Dim) \X (1 .. n) |-> Step(p[1], p[2])]
             Rec(f) == f = [i \in 0 .. n |-> IF i = 0 THEN <<>>
                                             ELSE Step(f[i - 1], i)]
             downFrom == CHOOSE f : Rec(f)
  <1>1. <<>> \in T[0]
    BY <1>0 DEF Dim
  <1>2. \A i \in 1 .. n : \A x : x \in T[i - 1] => x \in Seq(Dim) /\ Has(x, i - 1)
    OBVIOUS
  <1>3. \A i \in 1 .. n : \A x \in Seq(Dim) : Has(x, i) => x \in T[i]
    OBVIOUS
  <1>4. \A i \in 1 .. n : \A x \in Seq(Dim) : F[<<x, i>>] = Step(x, i)
    OBVIOUS
  <1> HIDE DEF T, F
  <1>5. ASSUME NEW i \in 1 .. n, NEW x \in T[i - 1]
        PROVE  Step(x, i) \in T[i]
    <2>1. x \in Seq(Dim) /\ Has(x, i - 1) /\ i \in Dim
      BY <1>0, <1>2 DEF Dim
    <2>2. CASE i \in D
      <3>1. PICK new : new = <<i>> \o x
        OBVIOUS
      <3>3. /\ new \in Seq(Dim)
            /\ \E k \in 1 .. Len(new) : new[k] = i
            /\ \A d : (\E k \in 1 .. Len(x) : x[k] = d)
                         => \E k \in 1 .. Len(new) : new[k] = d
        <4>1. /\ <<i>> \o x \in Seq(Dim)
              /\ Len(<<i>> \o x) = Len(x) + 1
              /\ (<<i>> \o x)[1] = i
              /\ \A k \in 1 .. Len(x) : (<<i>> \o x)[k + 1] = x[k]
          BY <2>1
        <4>2. Len(x) \in Nat
          BY <2>1
        <4>3. \A k \in 1 .. Len(x) : k + 1 \in 1 .. Len(x) + 1
          BY <4>2
        <4> QED
          BY <3>1, <4>1, <4>2, <4>3
      <3>4. Has(new, i)
        <4> SUFFICES ASSUME NEW d \in D, d <= i
                     PROVE  \E k \in 1 .. Len(new) : new[k] = d
          OBVIOUS
        <4>1. CASE d = i
          BY <3>3, <4>1
        <4>2. CASE d # i
          <5>1. d <= i - 1
            BY <1>0, <4>2 DEF Dim
          <5> QED
            BY <2>1, <3>3, <5>1
        <4> QED
          BY <4>1, <4>2
      <3> QED
        BY <1>3, <2>2, <3>1, <3>3, <3>4
    <2>3. CASE i \notin D
      <3>1. Has(x, i)
        <4> SUFFICES ASSUME NEW d \in D, d <= i
                     PROVE  \E k \in 1 .. Len(x) : x[k] = d
          OBVIOUS
        <4>1. d <= i - 1
          BY <1>0, <2>3 DEF Dim
        <4> QED
          BY <2>1, <4>1
      <3> QED
        BY <1>3, <2>1, <2>3, <3>1
    <2> QED
      BY <2>2, <2>3
  <1> HIDE DEF Step
  <1>6. PICK f : /\ f = [i \in 0 .. n |-> f[i]]
                 /\ f[0] = <<>>
                 /\ \A i \in 1 .. n : f[i] = F[<<f[i - 1], i>>]
                 /\ \A i \in 0 .. n : f[i] \in T[i]
    <2>1. \A i \in 1 .. n : \A x \in T[i - 1] : F[<<x, i>>] \in T[i]
      BY <1>2, <1>4, <1>5
    <2>2. Leads(n, T, F, <<>>)
      BY <1>1, <2>1 DEF Leads
    <2>3. \E f : Follows(f, n, T, F, <<>>)
      BY <2>2, Recursion
    <2> QED
      BY <2>3 DEF Follows
  <1>7. Rec(f)
    <2>1. ASSUME NEW i \in 1 .. n
          PROVE  f[i] = Step(f[i - 1], i)
      <3>1. i - 1 \in 0 .. n
        OBVIOUS
      <3>2. f[i - 1] \in Seq(Dim)
        BY <1>2, <1>6, <3>1
      <3> QED
        BY <1>4, <1>6, <3>2
    <2>2. \A i \in 0 .. n : f[i] = IF i = 0 THEN <<>> ELSE Step(f[i - 1], i)
      BY <1>6, <2>1
    <2> QED
      BY <1>6, <2>2
  <1>8. Rec(downFrom)
    BY <1>7
  <1>9. Descending(D) = downFrom[n]
    BY <1>0 DEF Descending, Step
  <1> HIDE DEF downFrom
  <1>10. downFrom[0] = <<>> /\ \A i \in 1 .. n : downFrom[i] = Step(downFrom[i - 1], i)
    <2> DEFINE g == [i \in 0 .. n |-> IF i = 0 THEN <<>> ELSE Step(downFrom[i - 1], i)]
    <2>1. g[0] = <<>> /\ \A i \in 1 .. n : g[i] = Step(downFrom[i - 1], i)
      OBVIOUS
    <2>2. downFrom = g
      BY <1>8
    <2> HIDE DEF g
    <2> QED
      BY <2>1, <2>2
  <1>11. downFrom[n] \in T[n]
    <2>1. downFrom[0] \in T[0]
      BY <1>1, <1>10
    <2>2. \A i \in 1 .. n : downFrom[i - 1] \in T[i - 1] => downFrom[i] \in T[i]
      BY <1>5, <1>10
    <2>3. \A i \in 0 .. n : downFrom[i] \in T[i]
      BY <2>1, <2>2, StepByStep
    <2> QED
      BY <2>3
  <1>12. downFrom[n] \in Seq(Dim) /\ Has(downFrom[n], n)
    BY <1>11 DEF T
  <1>13. \A d \in D : d <= n
    BY <1>0 DEF Dim
  <1> QED
    BY <1>9, <1>12, <1>13


\* The phases of a list of dimensions are those dimensions in that order.
LEMMA PhasesWell ==
    ASSUME NEW dims \in Seq(Dim), NEW half \in {"all", "first", "last"}
    PROVE  /\ Phases(dims, half) \in Seq(LayoutPhase)
           /\ Len(Phases(dims, half)) = Len(dims)
           /\ \A k \in 1 .. Len(dims) : Phases(dims, half)[k].dim = dims[k]
  <1>1. Len(dims) \in Nat
    OBVIOUS
  <1>2. \A k \in 1 .. Len(dims) : [dim |-> dims[k], half |-> half] \in LayoutPhase
    BY DEF LayoutPhase
  <1> QED
    BY <1>1, <1>2 DEF Phases

\* Every active dimension of a collective has a phase.
LEMMA LayoutWell ==
    ASSUME NEW coll \in [type : ComType, involved : SUBSET Dim]
    PROVE  /\ Layout(coll) \in Seq(LayoutPhase)
           /\ \A d \in ActiveDims(coll) :
                 \E k \in 1 .. Len(Layout(coll)) : Layout(coll)[k].dim = d
  <1> DEFINE D == ActiveDims(coll)
             rest == {d \in D : \E e \in D : e > d}
  <1>1. D \subseteq Dim /\ rest \subseteq Dim
    BY DEF ActiveDims
  <1> HIDE DEF D
  <1>2. /\ Ascending(D) \in Seq(Dim)
        /\ \A d \in D : \E k \in 1 .. Len(Ascending(D)) : Ascending(D)[k] = d
    BY <1>1, AscendingWell
  <1>3. /\ Descending(D) \in Seq(Dim)
        /\ \A d \in D : \E k \in 1 .. Len(Descending(D)) : Descending(D)[k] = d
    BY <1>1, DescendingWell
  <1>4. CASE coll.type = "All_Gather"
    <2>1. Layout(coll) = Phases(Descending(D), "all")
      BY <1>4 DEF Layout, D
    <2>2. /\ Phases(Descending(D), "all") \in Seq(LayoutPhase)
          /\ Len(Phases(Descending(D), "all")) = Len(Descending(D))
          /\ \A k \in 1 .. Len(Descending(D)) :
                Phases(Descending(D), "all")[k].dim = Descending(D)[k]
      BY <1>3, PhasesWell
    <2> QED
      BY <1>3, <2>1, <2>2 DEF D
  <1>5. CASE coll.type # "All_Gather" /\ (coll.type # "All_Reduce" \/ Baseline)
    <2>1. Layout(coll) = Phases(Ascending(D), "all")
      BY <1>5 DEF Layout, D
    <2>2. /\ Phases(Ascending(D), "all") \in Seq(LayoutPhase)
          /\ Len(Phases(Ascending(D), "all")) = Len(Ascending(D))
          /\ \A k \in 1 .. Len(Ascending(D)) :
                Phases(Ascending(D), "all")[k].dim = Ascending(D)[k]
      BY <1>2, PhasesWell
    <2> QED
      BY <1>2, <2>1, <2>2 DEF D
  <1>6. CASE coll.type = "All_Reduce" /\ ~Baseline
    <2> HIDE DEF rest
    <2>1. PICK a : a = Phases(Ascending(D), "first")
      OBVIOUS
    <2>2. PICK b : b = Phases(Descending(rest), "last")
      OBVIOUS
    <2>3. Layout(coll) = a \o b
      BY <1>6, <2>1, <2>2 DEF Layout, D, rest
    <2>4. /\ a \in Seq(LayoutPhase)
          /\ Len(a) = Len(Ascending(D))
          /\ \A k \in 1 .. Len(Ascending(D)) : a[k].dim = Ascending(D)[k]
      BY <1>2, <2>1, PhasesWell
    <2>5. b \in Seq(LayoutPhase)
      <3>1. Descending(rest) \in Seq(Dim)
        BY <1>1, DescendingWell
      <3> QED
        BY <2>2, <3>1, PhasesWell
    <2>6. /\ a \o b \in Seq(LayoutPhase)
          /\ \A k \in 1 .. Len(a) : k \in 1 .. Len(a \o b) /\ (a \o b)[k] = a[k]
      BY <2>4, <2>5
    <2>7. ASSUME NEW d \in D
          PROVE  \E k \in 1 .. Len(a \o b) : (a \o b)[k].dim = d
      <3>1. PICK k \in 1 .. Len(Ascending(D)) : Ascending(D)[k] = d
        BY <1>2
      <3>2. k \in 1 .. Len(a)
        BY <2>4
      <3> QED
        BY <2>4, <2>6, <3>1, <3>2
    <2> QED
      BY <2>3, <2>6, <2>7 DEF D
  <1> QED
    BY <1>4, <1>5, <1>6

-----------------------------------------------------------------------------
(***************************************************************************)
(* generate_collective.  x is the state in which its loop starts, and z    *)
(* the state in which n streams have been made, after the first m.         *)
(***************************************************************************)
Generated(x, z, layout, m, n) ==
    /\ z \in SysType
    /\ Slack(z) /\ FullBut(z, {})
    /\ z.issued = x.issued
    /\ z.completed = x.completed
    /\ z.finished_streams = x.finished_streams
    /\ z.first_phase_streams = x.first_phase_streams + n
    /\ z.total_running_streams = x.total_running_streams + n
    /\ \A t \in Stream \ (m + 1 .. m + n) :
          /\ z.plan[t] = x.plan[t]
          /\ z.step[t] = x.step[t]
          /\ t \in x.initialized => t \in z.initialized
    /\ \A t \in m + 1 .. m + n :
          /\ z.step[t] = 1
          /\ Len(z.plan[t]) = Len(layout)
          /\ \A i \in 1 .. Len(layout) : z.plan[t][i].dim = layout[i].dim

\* One round of the loop that makes and schedules the streams.
LEMMA GenerateOne ==
    ASSUME NEW x \in SysType, NEW w, NEW layout \in Seq(LayoutPhase), layout # <<>>,
           NEW m \in Nat, NEW n \in Nat \ {0},
           Generated(x, w, layout, m, n - 1),
           NEW s, s = m + n, s \in Stream, x.step[s] = 0, x.plan[s] = <<>>,
           NEW z, z = ScheduleNew(MakePlan(w, s, layout), s)
    PROVE  Generated(x, z, layout, m, n)
  <1>1. w \in SysType /\ Slack(w) /\ FullBut(w, {})
    BY DEF Generated
  <1>2. s \notin m + 1 .. m + (n - 1)
    OBVIOUS
  <1>3. w.step[s] = 0 /\ w.plan[s] = <<>>
    BY <1>2 DEF Generated
  <1>4. PICK p : p = MakePlan(w, s, layout)
    OBVIOUS
  <1>5. Planned(w, p, s, layout, Len(layout))
    BY <1>1, <1>3, <1>4, MakePlanWell
  <1>6. p \in SysType /\ OnlyAllocators(w, p)
    BY <1>5 DEF Planned
  <1>7. ASSUME NEW q \in Queue
        PROVE  InQueue(p, q) = InQueue(w, q)
    <2>1. p.step = w.step
      BY <1>6 DEF OnlyAllocators
    <2>2. s \notin InQueue(p, q) /\ s \notin InQueue(w, q)
      BY <1>3, <2>1 DEF InQueue, LiveIn
    <2>3. ASSUME NEW t \in Stream, t # s
          PROVE  t \in InQueue(p, q) <=> t \in InQueue(w, q)
      <3>1. p.plan[t] = w.plan[t]
        BY <1>5, <2>3 DEF Planned
      <3> QED
        BY <2>1, <3>1 DEF InQueue, LiveIn, QueueOf
    <2> QED
      BY <2>2, <2>3 DEF InQueue
  <1>8. Slack(p) /\ FullBut(p, {})
    BY <1>1, <1>6, <1>7 DEF Slack, FullBut, OnlyAllocators
  <1>9. p.step[s] = 0 /\ p.plan[s] # <<>>
    <2>1. Len(layout) # 0 /\ Len(p.plan[s]) = Len(layout)
      BY <1>5 DEF Planned
    <2> QED
      BY <1>3, <1>6, <2>1 DEF OnlyAllocators
  <1>10. /\ z \in SysType
         /\ Slack(z) /\ FullBut(z, {})
         /\ z.issued = p.issued
         /\ z.completed = p.completed
         /\ z.finished_streams = p.finished_streams
         /\ z.first_phase_streams = p.first_phase_streams + 1
         /\ z.total_running_streams = p.total_running_streams + 1
         /\ z.plan = p.plan
         /\ z.step = [p.step EXCEPT ![s] = 1]
         /\ p.initialized \ {s} \subseteq z.initialized
    <2>1. z = ScheduleNew(p, s)
      BY <1>4
    <2> QED
      BY ONLY <1>6, <1>8, <1>9, <2>1, s \in Stream, EnterNew
  <1>11. /\ z.issued = x.issued
         /\ z.completed = x.completed
         /\ z.finished_streams = x.finished_streams
    BY <1>6, <1>10 DEF Generated, OnlyAllocators
  <1>12. /\ z.first_phase_streams = x.first_phase_streams + n
         /\ z.total_running_streams = x.total_running_streams + n
    <2>1. x.first_phase_streams \in Int /\ x.total_running_streams \in Int
      BY DEF SysType
    <2>2. /\ z.first_phase_streams = x.first_phase_streams + (n - 1) + 1
          /\ z.total_running_streams = x.total_running_streams + (n - 1) + 1
      BY <1>6, <1>10 DEF Generated, OnlyAllocators
    <2> QED
      BY <2>1, <2>2
  <1>13. p.step \in [Stream -> Nat]
    BY <1>6 DEF SysType
  <1>14. ASSUME NEW t \in Stream, t # s
         PROVE  /\ z.plan[t] = w.plan[t]
                /\ z.step[t] = w.step[t]
                /\ t \in w.initialized => t \in z.initialized
    <2>1. p.plan[t] = w.plan[t]
      BY <1>5, <1>14 DEF Planned
    <2>2. z.step[t] = p.step[t]
      BY <1>10, <1>13, <1>14
    <2>3. p.step = w.step /\ p.initialized = w.initialized
      BY <1>6 DEF OnlyAllocators
    <2>4. t \in p.initialized => t \in z.initialized
      BY <1>10, <1>14
    <2> QED
      BY <1>10, <2>1, <2>2, <2>3, <2>4
  <1>15. ASSUME NEW t \in Stream \ (m + 1 .. m + n)
         PROVE  /\ z.plan[t] = x.plan[t]
                /\ z.step[t] = x.step[t]
                /\ t \in x.initialized => t \in z.initialized
    <2>1. s \in m + 1 .. m + n /\ m + 1 .. m + (n - 1) \subseteq m + 1 .. m + n
      OBVIOUS
    <2>2. t \in Stream /\ t # s /\ t \in Stream \ (m + 1 .. m + (n - 1))
      BY <2>1
    <2>3. /\ w.plan[t] = x.plan[t]
          /\ w.step[t] = x.step[t]
          /\ t \in x.initialized => t \in w.initialized
      BY <2>2 DEF Generated
    <2>4. /\ z.plan[t] = w.plan[t]
          /\ z.step[t] = w.step[t]
          /\ t \in w.initialized => t \in z.initialized
      BY <1>14, <2>2
    <2> QED
      BY <2>3, <2>4
  <1>16. ASSUME NEW t \in m + 1 .. m + n
         PROVE  /\ z.step[t] = 1
                /\ Len(z.plan[t]) = Len(layout)
                /\ \A i \in 1 .. Len(layout) : z.plan[t][i].dim = layout[i].dim
    <2>1. CASE t = s
      BY <1>5, <1>10, <1>13, <2>1 DEF Planned
    <2>2. CASE t # s
      <3>1. t \in m + 1 .. m + (n - 1)
        BY <2>2
      <3>2. t \in Stream
        <4>1. t \in Nat /\ t >= 1 /\ t <= s
          BY <3>1
        <4>2. PICK k \in Nat : k = Splits * Len(Collectives)
          BY ConfigAssumption
        <4>3. s <= k
          BY <4>2 DEF Stream
        <4> QED
          BY <4>1, <4>2, <4>3 DEF Stream
      <3> QED
        BY <1>14, <2>2, <3>1, <3>2 DEF Generated
    <2> QED
      BY <2>1, <2>2
  <1> QED
    BY <1>10, <1>11, <1>12, <1>15, <1>16 DEF Generated

(***************************************************************************)
(* generate_collective as a whole.  Fresh(y, m): the streams after the     *)
(* first m have not been made.                                             *)
(***************************************************************************)
Fresh(y, m) ==
    \A s \in Stream : s > m => y.step[s] = 0 /\ y.plan[s] = <<>>

NextLayout(y) == Layout(Collectives[y.issued + 1])

NewStreams(y) == IF NextLayout(y) = <<>> THEN 0 ELSE Splits

AfterIssue(y) == [y EXCEPT !.issued = y.issued + 1, !.finished_streams = 0]

\* generate_collective makes NewStreams(y) streams and leaves the older ones alone.
LEMMA GenerateWell ==
    ASSUME NEW y \in SysType, Slack(y), FullBut(y, {}),
           y.issued < Len(Collectives), Fresh(y, y.issued * Splits)
    PROVE  /\ AfterIssue(y) \in SysType
           /\ Generated(AfterIssue(y), generate_collective(y), NextLayout(y),
                        y.issued * Splits, NewStreams(y))
  <1>0. PICK w \in Nat \ {0} : w = Splits
    BY ConfigAssumption
  <1>1. PICK e \in Nat : e = y.issued
    BY DEF SysType
  <1>2. PICK m \in Nat : m = e * w
    OBVIOUS
  <1>3. PICK layout : layout = NextLayout(y)
    OBVIOUS
  <1>4. PICK x : x = AfterIssue(y)
    OBVIOUS
  <1>5. e + 1 \in 1 .. Len(Collectives)
    BY <1>1, ConfigAssumption
  <1>6. layout \in Seq(LayoutPhase)
    <2>1. Collectives[e + 1] \in [type : ComType, involved : SUBSET Dim]
      <3> DEFINE C == [type : ComType, involved : SUBSET Dim]
      <3>1. Collectives \in Seq(C)
        BY ConfigAssumption
      <3> HIDE DEF C
      <3>2. Collectives[e + 1] \in C
        BY <1>5, <3>1
      <3> QED
        BY <3>2 DEF C
    <2> QED
      BY <1>1, <1>3, <2>1, LayoutWell DEF NextLayout
  <1>7. PICK c \in Nat : /\ c = e + 1
                        /\ x = [y EXCEPT !.issued = c, !.finished_streams = 0]
    <2>1. PICK c \in Nat : c = e + 1
      OBVIOUS
    <2>2. x = [y EXCEPT !.issued = c, !.finished_streams = 0]
      BY <1>1, <1>4, <2>1 DEF AfterIssue
    <2> QED
      BY <2>1, <2>2
  <1>8. /\ x \in SysType
        /\ x.active_Streams = y.active_Streams
        /\ x.running_streams = y.running_streams
        /\ x.plan = y.plan /\ x.step = y.step
        /\ x.initialized = y.initialized
    <2>1. x \in SysType
      BY <1>7 DEF SysType
    <2> QED
      BY <1>7, <2>1 DEF SysType
  <1>9. Slack(x) /\ FullBut(x, {})
    BY <1>8 DEF Slack, FullBut, InQueue, LiveIn, QueueOf
  <1>10. Generated(x, x, layout, m, 0)
    <2>1. x.first_phase_streams \in Int /\ x.total_running_streams \in Int
      BY <1>8 DEF SysType
    <2>2. m + 1 .. m + 0 = {}
      OBVIOUS
    <2> QED
      BY <1>8, <1>9, <2>1, <2>2 DEF Generated
  <1>11. ASSUME NEW i \in 1 .. w
         PROVE  /\ m + i \in Stream
                /\ x.step[m + i] = 0 /\ x.plan[m + i] = <<>>
    <2>1. (e + 1) - 1 = e
      OBVIOUS
    <2>2. m + i \in Stream
      BY <1>0, <1>2, <1>5, <2>1, StreamType
    <2>3. m + i > m /\ m = y.issued * Splits
      BY <1>0, <1>1, <1>2
    <2> QED
      BY <1>8, <2>2, <2>3 DEF Fresh
  <1>12. CASE layout = <<>>
    <2>1. NewStreams(y) = 0
      BY <1>3, <1>12 DEF NewStreams
    <2>2. generate_collective(y) = x
      BY <1>1, <1>3, <1>7, <1>12 DEF generate_collective, NextLayout
    <2> QED
      BY <1>0, <1>1, <1>2, <1>3, <1>4, <1>8, <1>10, <2>1, <2>2
  <1>13. CASE layout # <<>>
    <2> DEFINE One(z, i) == ScheduleNew(MakePlan(z, m + i, layout), m + i)
               T == [i \in 0 .. w |-> {z \in SysType : Generated(x, z, layout, m, i)}]
               F == [p \in SysType \X (1 .. w) |-> One(p[1], p[2])]
               Rec(f) == f = [i \in 0 .. w |-> IF i = 0 THEN x ELSE One(f[i - 1], i)]
               gen == CHOOSE f : Rec(f)
    <2>1. x \in T[0]
      BY <1>8, <1>10
    <2>2. \A i \in 1 .. w : \A z : z \in T[i - 1]
             => z \in SysType /\ Generated(x, z, layout, m, i - 1)
      OBVIOUS
    <2>3. \A i \in 1 .. w : \A z \in SysType : Generated(x, z, layout, m, i) => z \in T[i]
      OBVIOUS
    <2>4. \A i \in 1 .. w : \A z \in SysType : F[<<z, i>>] = One(z, i)
      OBVIOUS
    <2> HIDE DEF T, F
    <2>5. ASSUME NEW i \in 1 .. w, NEW z \in T[i - 1]
          PROVE  One(z, i) \in T[i]
      <3>1. Generated(x, z, layout, m, i - 1)
        BY <2>2
      <3>2. /\ m + i \in Stream
            /\ x.step[m + i] = 0 /\ x.plan[m + i] = <<>>
        BY <1>11
      <3>3. PICK u : u = One(z, i)
        OBVIOUS
      <3>4. Generated(x, u, layout, m, i)
        <4>1. i \in Nat \ {0}
          OBVIOUS
        <4>2. PICK s : s = m + i
          OBVIOUS
        <4>3. u = ScheduleNew(MakePlan(z, s, layout), s)
          BY <3>3, <4>2
        <4> QED
          BY ONLY <1>2, <1>6, <1>8, <1>13, <3>1, <3>2, <4>1, <4>2, <4>3, GenerateOne
      <3>5. u \in SysType
        BY <3>4 DEF Generated
      <3> QED
        BY <2>3, <3>3, <3>4, <3>5
    <2> HIDE DEF One
    <2>6. PICK f : /\ f = [i \in 0 .. w |-> f[i]]
                   /\ f[0] = x
                   /\ \A i \in 1 .. w : f[i] = F[<<f[i - 1], i>>]
                   /\ \A i \in 0 .. w : f[i] \in T[i]
      <3>1. \A i \in 1 .. w : \A z \in T[i - 1] : F[<<z, i>>] \in T[i]
        BY <2>2, <2>4, <2>5
      <3>2. Leads(w, T, F, x)
        BY <2>1, <3>1 DEF Leads
      <3>3. \E f : Follows(f, w, T, F, x)
        BY <3>2, Recursion
      <3> QED
        BY <3>3 DEF Follows
    <2>7. Rec(f)
      <3>1. ASSUME NEW i \in 1 .. w
            PROVE  f[i] = One(f[i - 1], i)
        <4>1. i - 1 \in 0 .. w
          OBVIOUS
        <4>2. f[i - 1] \in SysType
          BY <2>2, <2>6, <4>1
        <4> QED
          BY <2>4, <2>6, <4>2
      <3>2. \A i \in 0 .. w : i = 0 \/ i \in 1 .. w
        OBVIOUS
      <3>3. \A i \in 0 .. w : f[i] = IF i = 0 THEN x ELSE One(f[i - 1], i)
        BY ONLY <2>6, <3>1, <3>2
      <3> QED
        BY <2>6, <3>3
    <2>8. Rec(gen)
      BY <2>7
    <2>9. generate_collective(y) = gen[w]
      <3>1. ((e + 1) - 1) * w = m
        BY <1>2
      <3>2. generate_collective(y)
              = (CHOOSE h : h = [i \in 0 .. w |->
                    IF i = 0 THEN x
                    ELSE ScheduleNew(MakePlan(h[i - 1], ((e + 1) - 1) * w + i, layout),
                                     ((e + 1) - 1) * w + i)])[w]
        BY <1>0, <1>1, <1>3, <1>7, <1>13 DEF generate_collective, NextLayout
      <3> QED
        BY <3>1, <3>2 DEF One
    <2> HIDE DEF gen
    <2>10. gen[0] = x /\ \A i \in 1 .. w : gen[i] = One(gen[i - 1], i)
      <3> DEFINE g == [i \in 0 .. w |-> IF i = 0 THEN x ELSE One(gen[i - 1], i)]
      <3>1. g[0] = x /\ \A i \in 1 .. w : g[i] = One(gen[i - 1], i)
        OBVIOUS
      <3>2. gen = g
        BY <2>8
      <3> HIDE DEF g
      <3> QED
        BY <3>1, <3>2
    <2>11. gen[w] \in T[w]
      <3>1. gen[0] \in T[0]
        BY <2>1, <2>10
      <3>2. \A i \in 1 .. w : gen[i - 1] \in T[i - 1] => gen[i] \in T[i]
        BY <2>5, <2>10
      <3>3. \A i \in 0 .. w : gen[i] \in T[i]
        BY <3>1, <3>2, StepByStep
      <3> QED
        BY <3>3
    <2>12. Generated(x, gen[w], layout, m, w)
      BY <2>11 DEF T
    <2>13. NewStreams(y) = w
      BY <1>0, <1>3, <1>13 DEF NewStreams
    <2> QED
      BY <1>0, <1>1, <1>2, <1>3, <1>4, <1>8, <2>9, <2>12, <2>13
  <1> QED
    BY <1>12, <1>13

-----------------------------------------------------------------------------
(***************************************************************************)
(* The state of one rank between two actions.  Laid: the plan of a stream  *)
(* has the dimensions of its collective's layout.  Counted(y, e): the      *)
(* counters count the live streams and those in their first phase, of      *)
(* which e have already been taken off.                                    *)
(***************************************************************************)
LayoutOf(s) == Layout(Collectives[CollectiveOf(s)])

Laid(y) ==
    \A s \in Stream : y.step[s] >= 1 =>
        /\ Len(y.plan[s]) = Len(LayoutOf(s))
        /\ \A i \in 1 .. Len(LayoutOf(s)) : y.plan[s][i].dim = LayoutOf(s)[i].dim

Kept(y) ==
    /\ y \in SysType
    /\ Slack(y) /\ FullBut(y, {})
    /\ y.issued <= Len(Collectives)
    /\ Fresh(y, y.issued * Splits)
    /\ Laid(y)

LiveSet(y) == {s \in Stream : LiveIn(y, s)}

FirstSet(y) == {s \in Stream : LiveIn(y, s) /\ y.step[s] = 1}

Counted(y, e) ==
    /\ y.total_running_streams = Cardinality(LiveSet(y))
    /\ y.first_phase_streams = Cardinality(FirstSet(y)) - e

\* The streams of a rank are finitely many.
LEMMA SetsFinite ==
    ASSUME NEW y
    PROVE  IsFiniteSet(LiveSet(y)) /\ IsFiniteSet(FirstSet(y))
  <1>1. PICK k \in Nat : k = Splits * Len(Collectives)
    BY ConfigAssumption
  <1>2. IsFiniteSet(Stream)
    BY <1>1, FS_Interval DEF Stream
  <1> QED
    BY <1>2, FS_Subset DEF LiveSet, FirstSet

(***************************************************************************)
(* What a new collective changes: its streams appear, in their first       *)
(* phase, and the others stay where they are.                              *)
(***************************************************************************)
Issues(y, z) ==
    /\ z.issued = y.issued + 1
    /\ z.completed = y.completed
    /\ z.finished_streams = 0
    /\ z.total_running_streams = y.total_running_streams + NewStreams(y)
    /\ \A t \in Stream : t <= y.issued * Splits =>
          /\ z.step[t] = y.step[t]
          /\ z.plan[t] = y.plan[t]
          /\ t \in y.initialized => t \in z.initialized
    /\ \A t \in Stream : t > y.issued * Splits =>
          \/ z.step[t] = 0
          \/ z.step[t] = 1 /\ CollectiveOf(t) = y.issued + 1

\* generate_collective keeps the counters of the rank and issues one collective.
LEMMA GenerateIssues ==
    ASSUME NEW y, Kept(y), y.issued < Len(Collectives),
           NEW e \in Int, Counted(y, e),
           NEW z, z = generate_collective(y)
    PROVE  Kept(z) /\ Counted(z, e) /\ Issues(y, z)
  <1>0. PICK w \in Nat \ {0} : w = Splits
    BY ConfigAssumption
  <1>1. PICK i \in Nat : i = y.issued
    BY DEF Kept, SysType
  <1>2. PICK m \in Nat : m = i * w
    OBVIOUS
  <1>3. (i + 1) * w = m + w
    BY <1>2
  <1>4. m = y.issued * Splits
    BY <1>0, <1>1, <1>2
  <1>5. PICK x : x = AfterIssue(y)
    OBVIOUS
  <1>6. PICK layout : layout = NextLayout(y)
    OBVIOUS
  <1>7. PICK n \in {0, w} : n = NewStreams(y) /\ (layout = <<>> <=> n = 0)
    BY <1>0, <1>6 DEF NewStreams
  <1>8. x \in SysType /\ Generated(x, z, layout, m, n)
    BY <1>4, <1>5, <1>6, <1>7, GenerateWell DEF Kept
  <1>9. /\ x.issued = i + 1 /\ x.completed = y.completed /\ x.finished_streams = 0
        /\ x.total_running_streams = y.total_running_streams
        /\ x.first_phase_streams = y.first_phase_streams
        /\ x.step = y.step /\ x.plan = y.plan /\ x.initialized = y.initialized
    BY <1>1, <1>5 DEF AfterIssue, Kept, SysType
  <1>10. \A t \in Stream : t \in Nat
    <2>1. PICK k \in Nat : k = Splits * Len(Collectives)
      BY ConfigAssumption
    <2> QED
      BY <2>1 DEF Stream
  <1>11. ASSUME NEW t \in m + 1 .. m + n
         PROVE  /\ t \in Stream
                /\ CollectiveOf(t) = i + 1
    <2>1. i + 1 \in 1 .. Len(Collectives)
      BY <1>1, ConfigAssumption
    <2>2. t - m \in 1 .. w /\ m + (t - m) = t /\ (i + 1) - 1 = i
      BY <1>7
    <2>3. PICK j \in 1 .. w : t = m + j
      BY <2>2
    <2> QED
      BY <1>0, <1>2, <2>1, <2>2, <2>3, StreamType
  <1>12. ASSUME NEW t \in Stream, t \notin m + 1 .. m + n
         PROVE  /\ z.plan[t] = y.plan[t]
                /\ z.step[t] = y.step[t]
                /\ t \in y.initialized => t \in z.initialized
    BY <1>8, <1>9, <1>12 DEF Generated
  <1>13. ASSUME NEW t \in m + 1 .. m + n
         PROVE  /\ z.step[t] = 1
                /\ Len(z.plan[t]) = Len(layout)
                /\ \A j \in 1 .. Len(layout) : z.plan[t][j].dim = layout[j].dim
    BY <1>8 DEF Generated
  <1>14. ASSUME NEW t \in Stream, t > m
         PROVE  y.step[t] = 0 /\ y.plan[t] = <<>>
    BY <1>4, <1>14 DEF Kept, Fresh
  <1>15. Issues(y, z)
    <2>1. /\ z.issued = y.issued + 1
          /\ z.completed = y.completed
          /\ z.finished_streams = 0
          /\ z.total_running_streams = y.total_running_streams + NewStreams(y)
      BY <1>1, <1>7, <1>8, <1>9 DEF Generated
    <2>2. ASSUME NEW t \in Stream, t <= m
          PROVE  /\ z.step[t] = y.step[t]
                 /\ z.plan[t] = y.plan[t]
                 /\ t \in y.initialized => t \in z.initialized
      <3>1. t \notin m + 1 .. m + n
        BY <1>10, <2>2
      <3> QED
        BY <1>12, <3>1
    <2>3. ASSUME NEW t \in Stream, t > m
          PROVE  \/ z.step[t] = 0
                 \/ z.step[t] = 1 /\ CollectiveOf(t) = y.issued + 1
      BY <1>1, <1>11, <1>12, <1>13, <1>14, <2>3
    <2> QED
      BY <1>4, <2>1, <2>2, <2>3 DEF Issues
  <1>16. Kept(z)
    <2>1. z \in SysType /\ Slack(z) /\ FullBut(z, {}) /\ z.issued = i + 1
      BY <1>8, <1>9 DEF Generated
    <2>2. z.issued <= Len(Collectives)
      BY <1>1, <2>1, ConfigAssumption
    <2>3. Fresh(z, z.issued * Splits)
      <3>1. z.issued * Splits = m + w
        BY <1>0, <1>3, <2>1
      <3>2. ASSUME NEW t \in Stream, t > m + w
            PROVE  z.step[t] = 0 /\ z.plan[t] = <<>>
        <4>1. t > m /\ t \notin m + 1 .. m + n
          BY <1>7, <1>10, <3>2
        <4> QED
          BY <1>12, <1>14, <4>1
      <3> QED
        BY <3>1, <3>2 DEF Fresh
    <2>4. Laid(z)
      <3> SUFFICES ASSUME NEW t \in Stream, z.step[t] >= 1
                   PROVE  /\ Len(z.plan[t]) = Len(LayoutOf(t))
                          /\ \A j \in 1 .. Len(LayoutOf(t)) :
                                z.plan[t][j].dim = LayoutOf(t)[j].dim
        BY DEF Laid
      <3>1. CASE t \in m + 1 .. m + n
        <4>1. LayoutOf(t) = layout
          BY <1>1, <1>6, <1>11, <3>1 DEF LayoutOf, NextLayout
        <4> QED
          BY <1>13, <3>1, <4>1
      <3>2. CASE t \notin m + 1 .. m + n
        <4>1. z.plan[t] = y.plan[t] /\ z.step[t] = y.step[t]
          BY <1>12, <3>2
        <4> QED
          BY <4>1 DEF Kept, Laid
      <3> QED
        BY <3>1, <3>2
    <2> QED
      BY <2>1, <2>2, <2>3, <2>4 DEF Kept
  <1>17. Counted(z, e)
    <2> DEFINE N == m + 1 .. m + n
    <2>1. IsFiniteSet(N) /\ Cardinality(N) = n
      <3>1. PICK a \in Int, b \in Int : a = m + 1 /\ b = m + n
        BY <1>7
      <3>2. IsFiniteSet(a .. b) /\ Cardinality(a .. b) = IF a > b THEN 0 ELSE b - a + 1
        BY FS_Interval
      <3>3. n = IF a > b THEN 0 ELSE b - a + 1
        BY <1>7, <3>1
      <3> QED
        BY <3>1, <3>2, <3>3
    <2>2. ASSUME NEW t \in Stream
          PROVE  /\ t \in LiveSet(z) <=> t \in LiveSet(y) \cup N
                 /\ t \in FirstSet(z) <=> t \in FirstSet(y) \cup N
      <3>1. CASE t \in N
        <4>1. n # 0 /\ Len(layout) \in Nat \ {0}
          <5>1. n # 0
            BY <3>1
          <5>2. layout \in Seq(LayoutPhase)
            <6>1. Collectives[i + 1] \in [type : ComType, involved : SUBSET Dim]
              <7> DEFINE C == [type : ComType, involved : SUBSET Dim]
              <7>1. Collectives \in Seq(C) /\ i + 1 \in 1 .. Len(Collectives)
                BY <1>1, ConfigAssumption
              <7> HIDE DEF C
              <7>2. Collectives[i + 1] \in C
                BY <7>1
              <7> QED
                BY <7>2 DEF C
            <6> QED
              BY <1>1, <1>6, <6>1, LayoutWell DEF NextLayout
          <5> QED
            BY <1>7, <5>1, <5>2
        <4>2. LiveIn(z, t) /\ z.step[t] = 1
          BY <1>13, <3>1, <4>1 DEF LiveIn
        <4> QED
          BY <3>1, <4>2 DEF LiveSet, FirstSet
      <3>2. CASE t \notin N
        <4>1. z.plan[t] = y.plan[t] /\ z.step[t] = y.step[t]
          BY <1>12, <3>2
        <4> QED
          BY <3>2, <4>1 DEF LiveSet, FirstSet, LiveIn
      <3> QED
        BY <3>1, <3>2
    <2>3. N \subseteq Stream
      BY <1>11
    <2>4. LiveSet(y) \cap N = {} /\ FirstSet(y) \cap N = {}
      <3>1. ASSUME NEW t \in N
            PROVE  y.step[t] = 0
        <4>1. t > m /\ t \in Stream
          BY <1>11
        <4> QED
          BY <1>14, <4>1
      <3>2. ASSUME NEW t \in N
            PROVE  ~LiveIn(y, t)
        BY <3>1 DEF LiveIn
      <3> QED
        BY <3>2 DEF LiveSet, FirstSet
    <2> HIDE DEF N
    <2>5. LiveSet(z) = LiveSet(y) \cup N /\ FirstSet(z) = FirstSet(y) \cup N
      BY <2>2, <2>3 DEF LiveSet, FirstSet
    <2>6. PICK A : A = LiveSet(y)
      OBVIOUS
    <2>7. PICK B : B = FirstSet(y)
      OBVIOUS
    <2>8. IsFiniteSet(A) /\ IsFiniteSet(B)
      BY <2>6, <2>7, SetsFinite
    <2>9. Cardinality(A) \in Nat /\ Cardinality(B) \in Nat
      BY <2>8, FS_CardinalityType
    <2>10. Cardinality(A \cup N) = Cardinality(A) + n
      <3>1. A \cap N = {}
        BY <2>4, <2>6
      <3>2. Cardinality(A \cup N) = Cardinality(A) + Cardinality(N) - Cardinality({})
        BY <2>1, <2>8, <3>1, FS_Union
      <3> QED
        BY <1>7, <2>1, <2>9, <3>2, FS_EmptySet
    <2>11. Cardinality(B \cup N) = Cardinality(B) + n
      <3>1. B \cap N = {}
        BY <2>4, <2>7
      <3>2. Cardinality(B \cup N) = Cardinality(B) + Cardinality(N) - Cardinality({})
        BY <2>1, <2>8, <3>1, FS_Union
      <3> QED
        BY <1>7, <2>1, <2>9, <3>2, FS_EmptySet
    <2>12. /\ z.total_running_streams = Cardinality(A) + n
           /\ z.first_phase_streams = (Cardinality(B) - e) + n
      BY <1>8, <1>9, <2>6, <2>7 DEF Generated, Counted
    <2> QED
      BY <1>7, <2>5, <2>6, <2>7, <2>9, <2>10, <2>11, <2>12 DEF Counted
  <1> QED
    BY <1>15, <1>16, <1>17

-----------------------------------------------------------------------------
(***************************************************************************)
(* Current: the live streams of a rank are those of its last collective,   *)
(* and there are as many as its DataSet still waits for.  Once the         *)
(* collective has completed there are none; nor are there any if it has no *)
(* active dimension.                                                       *)
(***************************************************************************)
Current(y) ==
    /\ \A s \in LiveSet(y) : CollectiveOf(s) = y.issued
    /\ \/ /\ y.completed = y.issued
          /\ y.total_running_streams = 0
       \/ /\ y.completed = y.issued - 1
          /\ y.finished_streams < Splits
          /\ y.total_running_streams = Splits - y.finished_streams
       \/ /\ y.completed = y.issued - 1
          /\ y.total_running_streams = 0

SysInv(y) == Kept(y) /\ Counted(y, 0) /\ Current(y)

\* A rank whose streams are counted and amount to none, or to one.
LEMMA NoneLeft ==
    ASSUME NEW y, NEW e, Counted(y, e)
    PROVE  /\ y.total_running_streams = 0 => LiveSet(y) = {}
           /\ \A s \in LiveSet(y) :
                 y.total_running_streams = 1 => LiveSet(y) = {s}
  <1>1. IsFiniteSet(LiveSet(y))
    BY SetsFinite
  <1>2. PICK A : A = LiveSet(y)
    OBVIOUS
  <1>3. IsFiniteSet(A)
    BY <1>1, <1>2
  <1>4. Cardinality(A) = 0 => A = {}
    BY <1>3, FS_EmptySet
  <1>5. Cardinality(A) = 1 => \E x : A = {x}
    BY <1>3, FS_Singleton
  <1>6. \A s \in A : Cardinality(A) = 1 => A = {s}
    BY <1>5
  <1> QED
    BY <1>2, <1>4, <1>6 DEF Counted

\* Counters of the DataSet and of the ready list are nothing to the queues.
LEMMA KeptSame ==
    ASSUME NEW y, NEW x \in SysType, Kept(y),
           x.issued = y.issued,
           x.active_Streams = y.active_Streams,
           x.running_streams = y.running_streams,
           x.plan = y.plan, x.step = y.step, x.initialized = y.initialized
    PROVE  /\ Kept(x)
           /\ LiveSet(x) = LiveSet(y) /\ FirstSet(x) = FirstSet(y)
  <1>1. \A q : InQueue(x, q) = InQueue(y, q)
    BY DEF InQueue, LiveIn, QueueOf
  <1>2. Slack(x) /\ FullBut(x, {})
    BY <1>1 DEF Kept, Slack, FullBut
  <1>3. Fresh(x, x.issued * Splits) /\ Laid(x) /\ x.issued <= Len(Collectives)
    BY DEF Kept, Fresh, Laid
  <1>4. LiveSet(x) = LiveSet(y) /\ FirstSet(x) = FirstSet(y)
    BY DEF LiveSet, FirstSet, LiveIn
  <1> QED
    BY <1>2, <1>3, <1>4 DEF Kept

\* A stream's next step takes it out of its first phase, or out of its last.
LEMMA KeptMoved ==
    ASSUME NEW y, Kept(y), NEW s \in LiveSet(y), NEW z \in SysType,
           Slack(z), FullBut(z, {}), Moved(y, z, s)
    PROVE  /\ Kept(z)
           /\ z.step[s] = y.step[s] + 1
           /\ \A t \in Stream \ {s} : z.step[t] = y.step[t]
           /\ LiveSet(z) = IF y.step[s] < Len(y.plan[s]) THEN LiveSet(y)
                           ELSE LiveSet(y) \ {s}
           /\ FirstSet(z) = FirstSet(y) \ {s}
  <1>0. s \in Stream /\ LiveIn(y, s)
    BY DEF LiveSet
  <1>1. y.step \in [Stream -> Nat] /\ y.plan \in [Stream -> Seq(Phase)]
    BY DEF Kept, SysType
  <1>2. PICK k \in Nat : k = y.step[s]
    BY <1>0, <1>1
  <1>3. PICK n \in Nat : n = Len(y.plan[s])
    BY <1>0, <1>1
  <1>4. z.plan = y.plan /\ z.step = [y.step EXCEPT ![s] = @ + 1] /\ z.issued = y.issued
    BY DEF Moved
  <1>5. z.step[s] = k + 1 /\ \A t \in Stream \ {s} : z.step[t] = y.step[t]
    BY <1>0, <1>1, <1>2, <1>4
  <1>6. k \in 1 .. n
    BY <1>0, <1>2, <1>3 DEF LiveIn
  <1>7. LiveIn(z, s) <=> k < n
    BY <1>2, <1>3, <1>4, <1>5, <1>6 DEF LiveIn
  <1>8. \A t \in Stream \ {s} : LiveIn(z, t) <=> LiveIn(y, t)
    BY <1>4, <1>5 DEF LiveIn
  <1>9. LiveSet(z) = IF k < n THEN LiveSet(y) ELSE LiveSet(y) \ {s}
    BY <1>0, <1>7, <1>8 DEF LiveSet
  <1>10. FirstSet(z) = FirstSet(y) \ {s}
    <2>1. s \notin FirstSet(z)
      BY <1>5, <1>6 DEF FirstSet
    <2>2. \A t \in Stream \ {s} : t \in FirstSet(z) <=> t \in FirstSet(y)
      BY <1>5, <1>8 DEF FirstSet
    <2> QED
      BY <2>1, <2>2 DEF FirstSet
  <1>11. Fresh(z, z.issued * Splits)
    <2> SUFFICES ASSUME NEW t \in Stream, t > y.issued * Splits
                 PROVE  z.step[t] = 0 /\ z.plan[t] = <<>>
      BY <1>4 DEF Fresh
    <2>1. y.step[t] = 0 /\ y.plan[t] = <<>>
      BY DEF Kept, Fresh
    <2>2. t # s
      BY <1>2, <1>6, <2>1
    <2> QED
      BY <1>4, <1>5, <2>1, <2>2
  <1>12. Laid(z)
    <2> SUFFICES ASSUME NEW t \in Stream, z.step[t] >= 1
                 PROVE  y.step[t] >= 1
      BY <1>4 DEF Kept, Laid
    <2>1. CASE t = s
      BY <1>2, <1>6, <2>1
    <2>2. CASE t # s
      BY <1>5, <2>2
    <2> QED
      BY <2>1, <2>2
  <1>13. z.issued <= Len(Collectives)
    BY <1>4 DEF Kept
  <1> QED
    BY <1>2, <1>3, <1>5, <1>9, <1>10, <1>11, <1>12, <1>13 DEF Kept

\* The counters after a step of stream s.
LEMMA CountMoved ==
    ASSUME NEW y, NEW z, NEW s \in LiveSet(y),
           NEW e, e = IF y.step[s] = 1 THEN 1 ELSE 0,
           Counted(y, e),
           FirstSet(z) = FirstSet(y) \ {s},
           z.first_phase_streams = y.first_phase_streams,
           \/ /\ LiveSet(z) = LiveSet(y)
              /\ z.total_running_streams = y.total_running_streams
           \/ /\ LiveSet(z) = LiveSet(y) \ {s}
              /\ z.total_running_streams = y.total_running_streams - 1
    PROVE  Counted(z, 0)
  <1>1. PICK A : A = LiveSet(y)
    OBVIOUS
  <1>2. PICK B : B = FirstSet(y)
    OBVIOUS
  <1>3. IsFiniteSet(A) /\ IsFiniteSet(B)
    BY <1>1, <1>2, SetsFinite
  <1>4. Cardinality(A) \in Nat /\ Cardinality(B) \in Nat
    BY <1>3, FS_CardinalityType
  <1>5. /\ Cardinality(A \ {s}) = Cardinality(A) - 1
        /\ Cardinality(B \ {s}) = Cardinality(B) - e
    <2>1. s \in A /\ (s \in B <=> e = 1)
      BY <1>1, <1>2 DEF FirstSet, LiveSet
    <2>2. Cardinality(A \ {s}) = Cardinality(A) - 1
      BY <1>3, <2>1, FS_RemoveElement
    <2>3. Cardinality(B \ {s}) = IF s \in B THEN Cardinality(B) - 1 ELSE Cardinality(B)
      BY <1>3, FS_RemoveElement
    <2> QED
      BY <1>4, <2>1, <2>2, <2>3
  <1>6. /\ y.total_running_streams = Cardinality(A)
        /\ y.first_phase_streams = Cardinality(B) - e
    BY <1>1, <1>2 DEF Counted
  <1>7. z.total_running_streams = Cardinality(LiveSet(z))
    BY <1>1, <1>5, <1>6
  <1>8. z.first_phase_streams = Cardinality(FirstSet(z))
    BY <1>2, <1>5, <1>6
  <1>9. Cardinality(FirstSet(z)) \in Int
    BY <1>2, <1>4, <1>5
  <1> QED
    BY <1>7, <1>8, <1>9 DEF Counted

(***************************************************************************)
(* issue_collective.                                                       *)
(***************************************************************************)
LEMMA IssueWell ==
    ASSUME NEW y, SysInv(y), y.issued = y.completed, y.issued < Len(Collectives),
           NEW z, z = generate_collective(y)
    PROVE  SysInv(z) /\ Issues(y, z)
  <1>1. Kept(y) /\ Counted(y, 0) /\ Current(y)
    BY DEF SysInv
  <1>2. Kept(z) /\ Counted(z, 0) /\ Issues(y, z)
    BY <1>1, GenerateIssues
  <1>3. PICK i \in Nat : i = y.issued
    BY <1>1 DEF Kept, SysType
  <1>4. y.total_running_streams = 0 /\ LiveSet(y) = {}
    BY <1>1, <1>3, NoneLeft DEF Current
  <1>5. ASSUME NEW t \in LiveSet(z)
        PROVE  CollectiveOf(t) = z.issued
    <2>1. t \in Stream /\ z.step[t] # 0 /\ ~LiveIn(y, t)
      BY <1>4 DEF LiveSet, LiveIn
    <2>2. ~(t <= y.issued * Splits)
      BY <1>2, <2>1 DEF Issues, LiveIn, LiveSet
    <2>3. t > y.issued * Splits
      <3>1. PICK m \in Nat : m = y.issued * Splits
        BY <1>3, ConfigAssumption
      <3>2. PICK k \in Nat : k = Splits * Len(Collectives)
        BY ConfigAssumption
      <3> QED
        BY <2>1, <2>2, <3>1, <3>2 DEF Stream
    <2> QED
      BY <1>2, <2>1, <2>3 DEF Issues
  <1>6. /\ z.completed = z.issued - 1
        /\ z.finished_streams = 0
        /\ z.total_running_streams = NewStreams(y)
    <2>1. 0 + NewStreams(y) = NewStreams(y)
      BY ConfigAssumption DEF NewStreams
    <2> QED
      BY <1>2, <1>3, <1>4, <2>1 DEF Issues
  <1>7. Current(z)
    BY <1>5, <1>6, ConfigAssumption DEF Current, NewStreams
  <1> QED
    BY <1>2, <1>7 DEF SysInv

(***************************************************************************)
(* notify_stream_finished, for the last stream of a collective or another. *)
(***************************************************************************)
LEMMA FinishedWell ==
    ASSUME NEW y, Kept(y), Current(y), NEW e \in Int, Counted(y, e),
           NEW s \in LiveSet(y), NEW at_once,
           NEW z, z = notify_stream_finished(y, at_once)
    PROVE  /\ Kept(z) /\ Counted(z, e)
           /\ z.step[s] = y.step[s] /\ z.plan[s] = y.plan[s]
           /\ s \in y.initialized => s \in z.initialized
           /\ \A t \in Stream \ {s} : \/ z.step[t] = y.step[t]
                                      \/ z.step[t] = 1 /\ y.step[t] = 0
           /\ z.issued >= y.issued
           /\ z.completed = y.completed \/ z.completed = y.issued
           /\ \A t \in LiveSet(z) \ {s} : CollectiveOf(t) = z.issued
           /\ \/ /\ z.completed = z.issued
                 /\ z.total_running_streams = 1
              \/ /\ z.completed = z.issued - 1
                 /\ z.finished_streams < Splits
                 /\ z.total_running_streams = Splits - z.finished_streams + 1
              \/ /\ z.completed = z.issued - 1
                 /\ z.total_running_streams = 1
  <1>0. PICK w \in Nat \ {0} : w = Splits
    BY ConfigAssumption
  <1>1. PICK i \in Nat, c \in Nat, f \in Nat, n \in Int :
           /\ i = y.issued /\ c = y.completed /\ f = y.finished_streams
           /\ n = y.total_running_streams
    BY DEF Kept, SysType
  <1>2. n # 0
    BY <1>1, NoneLeft
  <1>3. c = i - 1 /\ f < w /\ n = w - f
    BY <1>0, <1>1, <1>2 DEF Current
  <1>4. PICK g \in Nat : g = f + 1
    OBVIOUS
  <1>5. PICK u : u = [y EXCEPT !.finished_streams = g]
    OBVIOUS
  <1>6. y \in SysType
    BY DEF Kept
  <1>7. /\ u \in SysType
        /\ u.issued = i /\ u.completed = c /\ u.finished_streams = g
        /\ u.total_running_streams = n
        /\ u.first_phase_streams = y.first_phase_streams
        /\ u.active_Streams = y.active_Streams
        /\ u.running_streams = y.running_streams
        /\ u.plan = y.plan /\ u.step = y.step /\ u.initialized = y.initialized
    BY <1>1, <1>5, <1>6 DEF SysType
  <1>8. Kept(u) /\ LiveSet(u) = LiveSet(y) /\ FirstSet(u) = FirstSet(y)
    BY <1>1, <1>7, KeptSame
  <1>9. Counted(u, e)
    BY <1>1, <1>7, <1>8 DEF Counted
  <1>10. \A t \in LiveSet(y) : CollectiveOf(t) = i
    BY <1>1 DEF Current
  <1>11. CASE g # w
    <2>1. z = u
      BY <1>0, <1>1, <1>4, <1>5, <1>7, <1>11 DEF notify_stream_finished
    <2>2. g < w /\ n = w - g + 1
      BY <1>3, <1>4, <1>11
    <2> QED
      BY <1>0, <1>1, <1>3, <1>7, <1>8, <1>9, <1>10, <2>1, <2>2
  <1>12. CASE g = w
    <2>0. n = 1 /\ LiveSet(y) = {s}
      <3>1. n = 1
        BY <1>3, <1>4, <1>12
      <3> QED
        BY <1>1, <3>1, NoneLeft
    <2>1. PICK v : v = [u EXCEPT !.completed = i]
      OBVIOUS
    <2>2. z = IF at_once /\ v.issued < Len(Collectives)
              THEN generate_collective(v) ELSE v
      <3>1. u = [y EXCEPT !.finished_streams = @ + 1]
        BY <1>1, <1>4, <1>5
      <3>2. v = [u EXCEPT !.completed = @ + 1]
        BY <1>1, <1>3, <1>7, <2>1
      <3> QED
        BY <1>0, <1>7, <1>12, <3>1, <3>2 DEF notify_stream_finished
    <2>3. /\ v \in SysType
          /\ v.issued = i /\ v.completed = i /\ v.finished_streams = g
          /\ v.total_running_streams = n
          /\ v.first_phase_streams = u.first_phase_streams
          /\ v.active_Streams = u.active_Streams
          /\ v.running_streams = u.running_streams
          /\ v.plan = u.plan /\ v.step = u.step /\ v.initialized = u.initialized
      BY <1>7, <2>1 DEF SysType
    <2>4. Kept(v) /\ LiveSet(v) = LiveSet(u) /\ FirstSet(v) = FirstSet(u)
      BY <1>7, <1>8, <2>3, KeptSame
    <2>5. Counted(v, e)
      BY <1>7, <1>9, <2>3, <2>4 DEF Counted
    <2>6. CASE ~(at_once /\ v.issued < Len(Collectives))
      <3>1. z = v
        BY <2>2, <2>6
      <3> QED
        BY <1>1, <1>7, <1>8, <1>10, <2>0, <2>3, <2>4, <2>5, <3>1
    <2>7. CASE at_once /\ v.issued < Len(Collectives)
      <3>1. z = generate_collective(v)
        BY <2>2, <2>7
      <3>2. Kept(z) /\ Counted(z, e) /\ Issues(v, z)
        BY <2>4, <2>5, <2>7, <3>1, GenerateIssues
      <3>3. PICK m \in Nat : m = v.issued * Splits
        BY <2>3, ConfigAssumption
      <3>4. \A t \in Stream : t \in Nat
        <4>1. PICK k \in Nat : k = Splits * Len(Collectives)
          BY ConfigAssumption
        <4> QED
          BY <4>1 DEF Stream
      <3>5. s \in Stream /\ s <= m
        <4>1. s \in Stream /\ v.step[s] # 0
          BY <1>7, <2>3 DEF LiveSet, LiveIn
        <4>2. ~(s > m)
          BY <2>4, <3>3, <4>1 DEF Kept, Fresh
        <4> QED
          BY <3>3, <3>4, <4>1, <4>2
      <3>6. /\ z.step[s] = y.step[s] /\ z.plan[s] = y.plan[s]
            /\ s \in y.initialized => s \in z.initialized
        BY <1>7, <2>3, <3>2, <3>3, <3>5 DEF Issues
      <3>7. ASSUME NEW t \in Stream
            PROVE  \/ t <= m /\ z.step[t] = y.step[t] /\ z.plan[t] = y.plan[t]
                   \/ /\ t > m /\ y.step[t] = 0
                      /\ \/ z.step[t] = 0
                         \/ z.step[t] = 1 /\ CollectiveOf(t) = i + 1
        <4>1. CASE t <= m
          BY <1>7, <2>3, <3>2, <3>3, <4>1 DEF Issues
        <4>2. CASE t > m
          <5>1. y.step[t] = 0
            BY <1>7, <2>3, <2>4, <3>3, <4>2 DEF Kept, Fresh
          <5> QED
            BY <2>3, <3>2, <3>3, <4>2, <5>1 DEF Issues
        <4> QED
          BY <3>3, <3>4, <4>1, <4>2
      <3>8. /\ z.issued = i + 1 /\ z.completed = i /\ z.finished_streams = 0
            /\ z.total_running_streams = 1 + NewStreams(v)
        BY <2>0, <2>3, <3>2 DEF Issues
      <3>9. ASSUME NEW t \in LiveSet(z) \ {s}
            PROVE  CollectiveOf(t) = z.issued
        <4>1. t \in Stream /\ LiveIn(z, t) /\ ~LiveIn(y, t)
          BY <2>0 DEF LiveSet
        <4>2. z.step[t] # 0 /\ ~(z.step[t] = y.step[t] /\ z.plan[t] = y.plan[t])
          BY <4>1 DEF LiveIn
        <4> QED
          BY <3>7, <3>8, <4>1, <4>2
      <3>10. NewStreams(v) \in {0, w}
        BY <1>0 DEF NewStreams
      <3>11. \A t \in Stream \ {s} : \/ z.step[t] = y.step[t]
                                     \/ z.step[t] = 1 /\ y.step[t] = 0
        BY <3>7
      <3> QED
        BY <1>0, <1>1, <3>2, <3>6, <3>8, <3>9, <3>10, <3>11
    <2> QED
      BY <2>6, <2>7
  <1> QED
    BY <1>11, <1>12

(***************************************************************************)
(* The end of a phase.  Ends is what the other ranks may rely on.          *)
(***************************************************************************)
Ends(y, z, s) ==
    /\ z.step[s] = y.step[s] + 1
    /\ \A t \in Stream \ {s} : \/ z.step[t] = y.step[t]
                               \/ z.step[t] = 1 /\ y.step[t] = 0
    /\ z.issued >= y.issued
    /\ \/ z.completed = y.completed
       \/ /\ z.completed = y.issued
          /\ y.step[s] = Len(y.plan[s])
          /\ CollectiveOf(s) = y.issued

\* proceed_to_next_vnet_baseline, with all that it calls, keeps the invariant of its rank.
LEMMA ProceedWell ==
    ASSUME NEW y, SysInv(y), NEW s \in LiveSet(y), s \in y.initialized, NEW at_once,
           NEW z, z = proceed_to_next_vnet(y, s, at_once)
    PROVE  SysInv(z) /\ Ends(y, z, s)
  <1>0. /\ Kept(y) /\ Counted(y, 0) /\ Current(y)
        /\ y \in SysType /\ s \in Stream /\ LiveIn(y, s)
    BY DEF SysInv, Kept, LiveSet
  <1>1. PICK q : q = QueueOf(y, s)
    OBVIOUS
  <1>2. PICK e \in Int : e = IF y.step[s] = 1 THEN 1 ELSE 0
    OBVIOUS
  <1>3. PICK a \in Int : a = y.first_phase_streams
    BY <1>0 DEF SysType
  <1>4. PICK b \in Int : b = a - e
    OBVIOUS
  <1>5. PICK x : x = [y EXCEPT !.first_phase_streams = b]
    OBVIOUS
  <1>6. x = [y EXCEPT !.first_phase_streams = IF EndsFirstPhase(y, s) THEN @ - 1 ELSE @]
    BY <1>2, <1>3, <1>4, <1>5 DEF EndsFirstPhase
  <1>7. /\ x \in SysType
        /\ x.issued = y.issued /\ x.completed = y.completed
        /\ x.finished_streams = y.finished_streams
        /\ x.total_running_streams = y.total_running_streams
        /\ x.first_phase_streams = b
        /\ x.active_Streams = y.active_Streams
        /\ x.running_streams = y.running_streams
        /\ x.plan = y.plan /\ x.step = y.step /\ x.initialized = y.initialized
    BY <1>0, <1>5 DEF SysType
  <1>8. Kept(x) /\ LiveSet(x) = LiveSet(y) /\ FirstSet(x) = FirstSet(y)
    BY <1>0, <1>7, KeptSame
  <1>9. Counted(x, e)
    <2>1. IsFiniteSet(FirstSet(y))
      BY SetsFinite
    <2>2. Cardinality(FirstSet(y)) \in Nat
      BY <2>1, FS_CardinalityType
    <2>3. a = Cardinality(FirstSet(y))
      BY <1>0, <1>3, <2>2 DEF Counted
    <2> QED
      BY <1>0, <1>4, <1>7, <1>8, <2>3 DEF Counted
  <1>10. Current(x)
    BY <1>0, <1>7, <1>8 DEF Current
  <1>11. y.step \in [Stream -> Nat] /\ Len(y.plan[s]) \in Nat
    BY <1>0 DEF SysType
  <1>12. y.step[s] \in Nat /\ y.step[s] \in 1 .. Len(y.plan[s])
    BY <1>0, <1>11 DEF LiveIn
  <1>13. CASE y.step[s] = Len(y.plan[s])
    <2>1. PICK u : u = notify_stream_finished(x, at_once)
      OBVIOUS
    <2>2. /\ Kept(u) /\ Counted(u, e)
          /\ u.step[s] = x.step[s] /\ u.plan[s] = x.plan[s]
          /\ s \in x.initialized => s \in u.initialized
          /\ \A t \in Stream \ {s} : \/ u.step[t] = x.step[t]
                                     \/ u.step[t] = 1 /\ x.step[t] = 0
          /\ u.issued >= x.issued
          /\ u.completed = x.completed \/ u.completed = x.issued
          /\ \A t \in LiveSet(u) \ {s} : CollectiveOf(t) = u.issued
          /\ \/ /\ u.completed = u.issued
                /\ u.total_running_streams = 1
             \/ /\ u.completed = u.issued - 1
                /\ u.finished_streams < Splits
                /\ u.total_running_streams = Splits - u.finished_streams + 1
             \/ /\ u.completed = u.issued - 1
                /\ u.total_running_streams = 1
      BY ONLY <1>2, <1>8, <1>9, <1>10, <2>1, s \in LiveSet(y), FinishedWell
    <2>3. PICK v : v = Left(u, q, s)
      OBVIOUS
    <2>4. z = notify_stream_removed(v, q)
      BY <1>1, <1>6, <1>13, <2>1, <2>3 DEF proceed_to_next_vnet, LastPhase, QueueOf, Left
    <2>5. /\ LiveIn(u, s) /\ s \in u.initialized /\ q = QueueOf(u, s)
          /\ u.step[s] = Len(u.plan[s]) /\ u \in SysType
          /\ Slack(u) /\ FullBut(u, {})
      BY <1>0, <1>1, <1>7, <1>13, <2>2 DEF LiveIn, QueueOf, Kept
    <2>6. /\ z \in SysType
          /\ Slack(z) /\ FullBut(z, {})
          /\ Moved(u, z, s)
          /\ z.total_running_streams = u.total_running_streams - 1
      BY ONLY <1>0, <2>3, <2>4, <2>5, Leave
    <2>7. s \in LiveSet(u)
      BY <1>0, <2>5 DEF LiveSet
    <2>8. /\ Kept(z)
          /\ z.step[s] = u.step[s] + 1
          /\ \A t \in Stream \ {s} : z.step[t] = u.step[t]
          /\ LiveSet(z) = LiveSet(u) \ {s}
          /\ FirstSet(z) = FirstSet(u) \ {s}
      <3>1. ~(u.step[s] < Len(u.plan[s]))
        BY <1>7, <1>11, <1>13, <2>2
      <3> QED
        BY <2>2, <2>6, <2>7, <3>1, KeptMoved
    <2>9. Counted(z, 0)
      <3>1. e = IF u.step[s] = 1 THEN 1 ELSE 0
        BY <1>2, <1>7, <2>2
      <3>2. z.first_phase_streams = u.first_phase_streams
        BY <2>6 DEF Moved
      <3> QED
        BY <2>2, <2>6, <2>7, <2>8, <3>1, <3>2, CountMoved
    <2>10. z.issued = u.issued /\ z.completed = u.completed
           /\ z.finished_streams = u.finished_streams
      BY <2>6 DEF Moved
    <2>11. Current(z)
      <3>1. \A t \in LiveSet(z) : CollectiveOf(t) = z.issued
        BY <2>2, <2>8, <2>10
      <3>2. u.finished_streams \in Nat /\ Splits \in Nat
        BY <2>5, ConfigAssumption DEF SysType
      <3> QED
        BY <2>2, <2>6, <2>10, <3>1, <3>2 DEF Current
    <2>12. CollectiveOf(s) = y.issued
      BY <1>0 DEF Current
    <2>13. Ends(y, z, s)
      <3>1. z.step[s] = y.step[s] + 1
        BY <1>7, <2>2, <2>8
      <3>2. \A t \in Stream \ {s} : \/ z.step[t] = y.step[t]
                                    \/ z.step[t] = 1 /\ y.step[t] = 0
        BY <1>7, <2>2, <2>8
      <3> QED
        BY <1>7, <1>13, <2>2, <2>10, <2>12, <3>1, <3>2 DEF Ends
    <2> QED
      BY <2>8, <2>9, <2>11, <2>13 DEF SysInv
  <1>14. CASE y.step[s] # Len(y.plan[s])
    <2>1. y.step[s] < Len(y.plan[s])
      BY <1>11, <1>12, <1>14
    <2>2. PICK v : v = EnterPhase(erase_stream(x, q, s), s)
      OBVIOUS
    <2>3. z = notify_stream_added(notify_stream_removed(v, q), QueueOf(v, s))
      BY <1>1, <1>6, <1>14, <2>2 DEF proceed_to_next_vnet, LastPhase, QueueOf
    <2>4. /\ LiveIn(x, s) /\ s \in x.initialized /\ q = QueueOf(x, s)
          /\ x.step[s] < Len(x.plan[s])
          /\ Slack(x) /\ FullBut(x, {})
      BY <1>0, <1>1, <1>7, <1>8, <2>1 DEF LiveIn, QueueOf, Kept
    <2>5. /\ z \in SysType
          /\ Slack(z) /\ FullBut(z, {})
          /\ Moved(x, z, s)
          /\ z.total_running_streams = x.total_running_streams
      BY ONLY <1>0, <1>7, <2>2, <2>3, <2>4, MoveOn
    <2>6. s \in LiveSet(x)
      BY <1>8
    <2>7. /\ Kept(z)
          /\ z.step[s] = x.step[s] + 1
          /\ \A t \in Stream \ {s} : z.step[t] = x.step[t]
          /\ LiveSet(z) = LiveSet(x)
          /\ FirstSet(z) = FirstSet(x) \ {s}
      BY <1>8, <2>4, <2>5, <2>6, KeptMoved
    <2>8. Counted(z, 0)
      <3>1. e = IF x.step[s] = 1 THEN 1 ELSE 0
        BY <1>2, <1>7
      <3>2. z.first_phase_streams = x.first_phase_streams
        BY <2>5 DEF Moved
      <3> QED
        BY <1>9, <2>5, <2>6, <2>7, <3>1, <3>2, CountMoved
    <2>9. z.issued = x.issued /\ z.completed = x.completed
          /\ z.finished_streams = x.finished_streams
      BY <2>5 DEF Moved
    <2>10. Current(z)
      BY <1>10, <2>5, <2>7, <2>9 DEF Current
    <2>11. Ends(y, z, s)
      <3>1. y.issued \in Nat
        BY <1>0 DEF SysType
      <3> QED
        BY <1>7, <2>7, <2>9, <3>1 DEF Ends
    <2> QED
      BY <2>7, <2>8, <2>10, <2>11 DEF SysInv
  <1> QED
    BY <1>13, <1>14

-----------------------------------------------------------------------------
(***************************************************************************)
(* The inductive invariant: every rank is as an operation leaves it.       *)
(***************************************************************************)
IInv ==
    /\ sys = [r \in Rank |-> sys[r]]
    /\ \A r \in Rank : SysInv(sys[r])

\* A rank starts with empty queues, idle allocators and no streams.
LEMMA InitWell == SysInv(SysInit)
  <1>1. PICK n \in Nat \ {0} : n = QueuesPerDim
    BY ConfigAssumption
  <1>2. PICK h \in 0 .. n - 1 : h = QueuesPerDim \div 2
    BY <1>1
  <1>3. 0 \in 0 .. n - 1
    OBVIOUS
  <1>4. PICK y : y = SysInit
    OBVIOUS
  <1>5. /\ y.issued = 0 /\ y.completed = 0 /\ y.finished_streams = 0
        /\ y.first_phase_streams = 0 /\ y.total_running_streams = 0
        /\ y.active_Streams = [q \in Queue |-> <<>>]
        /\ y.running_streams = [q \in Queue |-> 0]
        /\ y.plan = [s \in Stream |-> <<>>]
        /\ y.step = [s \in Stream |-> 0]
        /\ y.initialized = {}
    BY <1>4 DEF SysInit
  <1>6. y \in SysType
    <2>1. /\ [q \in Queue |-> <<>>] \in [Queue -> Seq(Stream)]
          /\ [q \in Queue |-> 0] \in [Queue -> Nat]
          /\ [s \in Stream |-> <<>>] \in [Stream -> Seq(Phase)]
          /\ [s \in Stream |-> 0] \in [Stream -> Nat]
      OBVIOUS
    <2>2. /\ [d \in Dim |-> 0] \in [Dim -> 0 .. QueuesPerDim - 1]
          /\ [d \in Dim |-> QueuesPerDim \div 2] \in [Dim -> 0 .. QueuesPerDim - 1]
      BY <1>1, <1>2, <1>3
    <2> QED
      BY <1>4, <2>1, <2>2 DEF SysInit, SysType
  <1>7. \A s \in Stream : ~LiveIn(y, s)
    BY <1>5 DEF LiveIn
  <1>8. LiveSet(y) = {} /\ FirstSet(y) = {} /\ \A q \in Queue : InQueue(y, q) = {}
    BY <1>7 DEF LiveSet, FirstSet, InQueue
  <1>9. Slack(y) /\ FullBut(y, {})
    <2>1. Limit(0) = 0
      BY ThresholdType DEF Limit
    <2>2. ASSUME NEW q \in Queue
          PROVE  /\ y.active_Streams[q] = <<>> /\ y.running_streams[q] = 0
                 /\ Len(y.active_Streams[q]) = 0
      BY <1>5
    <2>3. Well(<<>>, {}, {}, 0)
      BY DEF Well
    <2>4. ASSUME NEW q \in Queue
          PROVE  /\ Well(y.active_Streams[q], InQueue(y, q), y.initialized,
                         y.running_streams[q])
                 /\ y.running_streams[q] = Limit(Len(y.active_Streams[q]))
                 /\ y.running_streams[q] <= Limit(Len(y.active_Streams[q]))
      <3>1. InQueue(y, q) = {} /\ y.initialized = {}
        BY <1>5, <1>8
      <3> QED
        BY <2>1, <2>2, <2>3, <3>1
    <2> QED
      BY <2>4 DEF Slack, FullBut
  <1>10. Kept(y)
    <2>1. y.issued <= Len(Collectives)
      BY <1>5, ConfigAssumption
    <2>2. Fresh(y, y.issued * Splits) /\ Laid(y)
      BY <1>5 DEF Fresh, Laid
    <2> QED
      BY <1>6, <1>9, <2>1, <2>2 DEF Kept
  <1>11. Counted(y, 0)
    BY <1>5, <1>8, FS_EmptySet DEF Counted
  <1>12. Current(y)
    BY <1>5, <1>8 DEF Current
  <1> QED
    BY <1>4, <1>10, <1>11, <1>12 DEF SysInv

\* A stream whose phase may end has started it at its own rank.
LEMMA EndsStarted ==
    ASSUME NEW r \in Rank, NEW s \in Stream, CanEnd(r, s), IInv
    PROVE  s \in LiveSet(sys[r]) /\ s \in sys[r].initialized
  <1>1. PICK k : k = sys[r].step[s]
    OBVIOUS
  <1>2. PICK d : d = sys[r].plan[s][k].dim
    OBVIOUS
  <1>3. k \in 1 .. Len(sys[r].plan[s]) /\ \A p \in Group(r, d) : Started(p, s, k)
    BY <1>1, <1>2 DEF CanEnd
  <1>4. r \in Group(r, d)
    BY DEF Group
  <1>5. Started(r, s, k)
    BY <1>3, <1>4
  <1>6. ~(sys[r].step[s] > k)
    BY <1>1, <1>3
  <1>7. s \in sys[r].initialized
    BY <1>5, <1>6 DEF Started
  <1> QED
    BY <1>1, <1>3, <1>7 DEF LiveSet, LiveIn

(***************************************************************************)
(* A step of the system is a step of one rank, which goes to z.            *)
(***************************************************************************)
GoesTo(r, z) ==
    /\ sys' = [sys EXCEPT ![r] = z]
    /\ SysInv(z)
    /\ \/ Issues(sys[r], z)
       \/ \E s \in Stream : CanEnd(r, s) /\ Ends(sys[r], z, s)

\* What a step of the system does to the rank that takes it.
LEMMA OneRank ==
    ASSUME IInv, Next
    PROVE  \E r \in Rank : \E z : GoesTo(r, z)
  <1>1. PICK r \in Rank : issue_collective(r) \/ \E s \in Stream : phase_ends(r, s)
    BY DEF Next
  <1>2. PICK y : y = sys[r]
    OBVIOUS
  <1>3. SysInv(y)
    BY <1>2 DEF IInv
  <1>4. CASE issue_collective(r)
    <2>1. PICK z : z = generate_collective(y)
      OBVIOUS
    <2>2. y.issued = y.completed /\ y.issued < Len(Collectives)
      BY <1>2, <1>4 DEF issue_collective, CanIssue
    <2>3. SysInv(z) /\ Issues(y, z)
      BY <1>3, <2>1, <2>2, IssueWell
    <2>4. sys' = [sys EXCEPT ![r] = z]
      BY <1>2, <1>4, <2>1 DEF issue_collective
    <2> QED
      BY <1>2, <2>3, <2>4 DEF GoesTo
  <1>5. CASE \E s \in Stream : phase_ends(r, s)
    <2>1. PICK s \in Stream : phase_ends(r, s)
      BY <1>5
    <2>2. PICK at_once \in BOOLEAN :
             sys' = [sys EXCEPT ![r] = proceed_to_next_vnet(@, s, at_once)]
      BY <2>1 DEF phase_ends
    <2>3. CanEnd(r, s)
      BY <2>1 DEF phase_ends
    <2>4. s \in LiveSet(y) /\ s \in y.initialized
      BY <1>2, <2>3, EndsStarted
    <2>5. PICK z : z = proceed_to_next_vnet(y, s, at_once)
      OBVIOUS
    <2>6. SysInv(z) /\ Ends(y, z, s)
      BY <1>3, <2>4, <2>5, ProceedWell
    <2>7. sys' = [sys EXCEPT ![r] = z]
      BY <1>2, <2>2, <2>5
    <2> QED
      BY <1>2, <2>3, <2>6, <2>7 DEF GoesTo
  <1> QED
    BY <1>1, <1>4, <1>5

\* Init establishes the invariant and every step keeps it.
LEMMA Inductive ==
    /\ Init => IInv
    /\ IInv /\ [Next]_vars => IInv'
  <1>1. ASSUME Init
        PROVE  IInv
    <2>1. PICK y : y = SysInit
      OBVIOUS
    <2>2. sys = [r \in Rank |-> y] /\ SysInv(y)
      BY <1>1, <2>1, InitWell DEF Init
    <2> QED
      BY <2>2 DEF IInv
  <1>2. ASSUME IInv, Next
        PROVE  IInv'
    <2>0. PICK r \in Rank : \E z : GoesTo(r, z)
      BY <1>2, OneRank
    <2>1. PICK z : sys' = [sys EXCEPT ![r] = z] /\ SysInv(z)
      BY <2>0 DEF GoesTo
    <2>2. ASSUME NEW p \in Rank
          PROVE  SysInv(sys'[p])
      <3>1. sys'[p] = IF p = r THEN z ELSE sys[p]
        BY <1>2, <2>1 DEF IInv
      <3> QED
        BY <1>2, <2>1, <3>1 DEF IInv
    <2>3. sys' = [p \in Rank |-> sys'[p]]
      BY <1>2, <2>1 DEF IInv
    <2> QED
      BY <2>2, <2>3 DEF IInv
  <1>3. ASSUME IInv, UNCHANGED vars
        PROVE  IInv'
    BY <1>3 DEF IInv, vars
  <1> QED
    BY <1>1, <1>2, <1>3

(***************************************************************************)
(* The invariant says what QueueDiscipline does.                           *)
(***************************************************************************)
\* A list without repetitions is as long as its elements are many.
LEMMA LengthOfList ==
    ASSUME NEW list \in Seq(Stream),
           \A i, j \in 1 .. Len(list) : list[i] = list[j] => i = j
    PROVE  Len(list) = Cardinality(Elements(list))
  <1>1. PICK n \in Nat : n = Len(list)
    OBVIOUS
  <1>2. IsFiniteSet(1 .. n) /\ Cardinality(1 .. n) = n
    BY FS_Interval
  <1>3. PICK E : E = Elements(list)
    OBVIOUS
  <1>4. PICK f : f = [i \in 1 .. n |-> list[i]]
    OBVIOUS
  <1>5. f \in [1 .. n -> E] /\ \A i \in 1 .. n : f[i] = list[i]
    BY <1>1, <1>3, <1>4 DEF Elements
  <1>6. f \in Injection(1 .. n, E)
    BY <1>1, <1>5 DEF Injection, IsInjective
  <1>7. f \in Surjection(1 .. n, E)
    BY <1>1, <1>3, <1>5 DEF Surjection, Elements
  <1>8. ExistsBijection(1 .. n, E)
    BY <1>6, <1>7 DEF ExistsBijection, Bijection
  <1> QED
    BY <1>1, <1>2, <1>3, <1>8, FS_Bijection

\* The inductive invariant implies what the run checks.
LEMMA InvImpliesDiscipline == IInv => QueueDiscipline
  <1> SUFFICES ASSUME IInv, NEW r \in Rank
               PROVE  /\ \A q \in Queue :
                            LET list == sys[r].active_Streams[q] IN
                            /\ \A i \in 1 .. Len(list) :
                                  list[i] \in sys[r].initialized
                                      <=> i <= sys[r].running_streams[q]
                            /\ sys[r].running_streams[q]
                                  = Min({Len(list), QueueThreshold})
                            /\ Elements(list)
                                  = {s \in Stream : Live(r, s)
                                     /\ sys[r].plan[s][sys[r].step[s]].queue = q}
                            /\ Len(list) = Cardinality(Elements(list))
                      /\ sys[r].total_running_streams
                            = Cardinality({s \in Stream : Live(r, s)})
                      /\ sys[r].first_phase_streams
                            = Cardinality({s \in Stream :
                                           Live(r, s) /\ sys[r].step[s] = 1})
    BY DEF QueueDiscipline
  <1>1. PICK y : y = sys[r]
    OBVIOUS
  <1>2. SysInv(y)
    BY <1>1 DEF IInv
  <1>3. ASSUME NEW q \in Queue, NEW list, list = y.active_Streams[q]
        PROVE  /\ \A i \in 1 .. Len(list) :
                     list[i] \in y.initialized <=> i <= y.running_streams[q]
               /\ y.running_streams[q] = Min({Len(list), QueueThreshold})
               /\ Elements(list) = InQueue(y, q)
               /\ Len(list) = Cardinality(Elements(list))
    <2>1. Well(list, InQueue(y, q), y.initialized, y.running_streams[q])
      BY <1>2, <1>3 DEF SysInv, Kept, Slack
    <2>2. list \in Seq(Stream)
      BY <2>1 DEF Well
    <2>3. PICK n \in Nat, h \in Nat : n = Len(list) /\ h = QueueThreshold
      BY <2>2, ThresholdType
    <2>4. y.running_streams[q] = Limit(n)
      BY <1>2, <1>3, <2>3 DEF SysInv, Kept, FullBut
    <2>5. Limit(n) = Min({n, h})
      <3>1. PICK m : m = IF n < h THEN n ELSE h
        OBVIOUS
      <3>2. \A x : x \in {n, h} /\ (\A v \in {n, h} : x <= v) <=> x = m
        BY <3>1
      <3>3. Min({n, h}) = m
        BY <3>2 DEF Min
      <3> QED
        BY <2>3, <3>1, <3>3 DEF Limit
    <2>6. Elements(list) = InQueue(y, q)
      BY <2>1 DEF Well, Elements
    <2>7. Len(list) = Cardinality(Elements(list))
      BY <2>1, <2>2, LengthOfList DEF Well
    <2> QED
      BY <2>1, <2>3, <2>4, <2>5, <2>6, <2>7 DEF Well
  <1>4. \A s \in Stream : Live(r, s) <=> LiveIn(y, s)
    BY <1>1 DEF Live, LiveIn
  <1>5. ASSUME NEW q \in Queue
        PROVE  InQueue(y, q) = {s \in Stream : Live(r, s)
                                /\ sys[r].plan[s][sys[r].step[s]].queue = q}
    BY <1>1, <1>4 DEF InQueue, QueueOf
  <1>6. LiveSet(y) = {s \in Stream : Live(r, s)}
    BY <1>4 DEF LiveSet
  <1>7. FirstSet(y) = {s \in Stream : Live(r, s) /\ sys[r].step[s] = 1}
    BY <1>1, <1>4 DEF FirstSet
  <1>8. /\ sys[r].total_running_streams = Cardinality(LiveSet(y))
        /\ sys[r].first_phase_streams = Cardinality(FirstSet(y))
    <2>1. IsFiniteSet(FirstSet(y))
      BY SetsFinite
    <2>2. Cardinality(FirstSet(y)) \in Nat
      BY <2>1, FS_CardinalityType
    <2> QED
      BY <1>1, <1>2, <2>2 DEF SysInv, Counted
  <1>9. ASSUME NEW q \in Queue
        PROVE  LET list == sys[r].active_Streams[q] IN
               /\ \A i \in 1 .. Len(list) :
                     list[i] \in sys[r].initialized <=> i <= sys[r].running_streams[q]
               /\ sys[r].running_streams[q] = Min({Len(list), QueueThreshold})
               /\ Elements(list) = {s \in Stream : Live(r, s)
                                    /\ sys[r].plan[s][sys[r].step[s]].queue = q}
               /\ Len(list) = Cardinality(Elements(list))
    <2>1. PICK list : list = y.active_Streams[q]
      OBVIOUS
    <2> QED
      BY <1>1, <1>3, <1>5, <2>1
  <1> QED
    BY <1>6, <1>7, <1>8, <1>9

(***************************************************************************)
(* QueueDiscipline holds of every machine and every configuration:         *)
(* proceed_to_next_vnet_baseline keeps the queues in order also when it    *)
(* issues, from within notify_stream_finished, streams that enter the      *)
(* queue the finished stream has not left.                                 *)
(***************************************************************************)
THEOREM QueuesKeepOrder == Spec => []QueueDiscipline
  <1>1. Init => IInv
    BY Inductive
  <1>2. IInv /\ [Next]_vars => IInv'
    BY Inductive
  <1>3. IInv => QueueDiscipline
    BY InvImpliesDiscipline
  <1> QED
    BY <1>1, <1>2, <1>3, PTL DEF Spec

-----------------------------------------------------------------------------
(***************************************************************************)
(* A collective over all dimensions is a barrier.  The phases of a stream  *)
(* reach the other ranks one dimension at a time: a rank past phase k of a *)
(* stream knows that every rank that differs from it only in the           *)
(* dimensions of the first k phases has that stream.                       *)
(***************************************************************************)
Within(r, p, s, k) ==
    \A d \in Dim : (\A i \in 1 .. k : LayoutOf(s)[i].dim # d) => p[d] = r[d]

Reach ==
    \A r, p \in Rank : \A s \in Stream : \A k \in 0 .. Len(LayoutOf(s)) :
        sys[r].step[s] > k /\ Within(r, p, s, k) => sys[p].step[s] >= 1

Everywhere ==
    \A c \in 1 .. Len(Collectives) :
        {d \in Dim : Dims[d] # 1} \subseteq Collectives[c].involved

\* A stream belongs to a collective, whose layout is a sequence of phases.
LEMMA StreamLayout ==
    ASSUME NEW s \in Stream
    PROVE  /\ CollectiveOf(s) \in 1 .. Len(Collectives)
           /\ LayoutOf(s) \in Seq(LayoutPhase)
           /\ \A d \in ActiveDims(Collectives[CollectiveOf(s)]) :
                 \E k \in 1 .. Len(LayoutOf(s)) : LayoutOf(s)[k].dim = d
           /\ \A n \in Nat : s <= n * Splits => CollectiveOf(s) <= n
  <1>1. PICK w \in Nat \ {0} : w = Splits
    BY ConfigAssumption
  <1>2. PICK l \in Nat : l = Len(Collectives)
    BY ConfigAssumption
  <1>3. s \in 1 .. w * l
    BY <1>1, <1>2 DEF Stream
  <1>4. PICK e \in Int : e = (s - 1) \div w
    BY <1>1, <1>3
  <1>5. e * w <= s - 1 /\ s - 1 < (e + 1) * w
    <2>1. ASSUME NEW a \in Int, NEW b \in Nat \ {0}
          PROVE  (a \div b) * b <= a /\ a < (a \div b + 1) * b
      OBVIOUS
    <2>2. s - 1 \in Int
      BY <1>3
    <2> QED
      BY <1>4, <2>1, <2>2
  <1>6. e >= 0
    <2>1. ASSUME NEW a \in Int, NEW b \in Nat \ {0}, a < 0
          PROVE  (a + 1) * b <= 0
      BY <2>1
    <2> QED
      BY <1>3, <1>5, <2>1
  <1>7. \A n \in Nat : s <= n * w => e + 1 <= n
    <2> SUFFICES ASSUME NEW n \in Nat, s <= n * w, n <= e
                 PROVE  FALSE
      OBVIOUS
    <2>1. (e - n) * w >= 0
      BY <1>1
    <2>2. (e - n) * w = e * w - n * w
      OBVIOUS
    <2>3. e * w \in Int /\ n * w \in Int /\ s \in Int
      BY <1>3
    <2> QED
      BY <1>5, <2>1, <2>2, <2>3
  <1>8. e + 1 <= l
    <2>1. s <= l * w
      BY <1>3
    <2> QED
      BY <1>7, <2>1
  <1>9. CollectiveOf(s) = e + 1
    BY <1>1, <1>4 DEF CollectiveOf
  <1>10. CollectiveOf(s) \in 1 .. Len(Collectives)
    BY <1>2, <1>6, <1>8, <1>9
  <1>11. Collectives[CollectiveOf(s)] \in [type : ComType, involved : SUBSET Dim]
    <2> DEFINE C == [type : ComType, involved : SUBSET Dim]
    <2>1. Collectives \in Seq(C)
      BY ConfigAssumption
    <2> HIDE DEF C
    <2>2. Collectives[CollectiveOf(s)] \in C
      BY <1>10, <2>1
    <2> QED
      BY <2>2 DEF C
  <1> QED
    BY <1>1, <1>7, <1>9, <1>10, <1>11, LayoutWell DEF LayoutOf

\* Between a rank and another that agrees with it outside the dimensions of k
\* phases there is one of its group in dimension k that agrees with the other
\* outside those of k - 1.
LEMMA Between ==
    ASSUME NEW r \in Rank, NEW p \in Rank, NEW s \in Stream,
           NEW k \in 1 .. Len(LayoutOf(s)), Within(r, p, s, k),
           NEW d, d = LayoutOf(s)[k].dim
    PROVE  \E c \in Group(r, d) : Within(c, p, s, k - 1)
  <1>0. d \in Dim
    <2>1. LayoutOf(s) \in Seq(LayoutPhase)
      BY StreamLayout
    <2>2. LayoutOf(s)[k] \in LayoutPhase
      BY <2>1
    <2> QED
      BY <2>2 DEF LayoutPhase
  <1>1. PICK M : M = Max({Dims[e] : e \in Dim})
    OBVIOUS
  <1>2. \A a : a \in Rank <=> a \in [Dim -> 0 .. M - 1] /\ \A e \in Dim : a[e] < Dims[e]
    BY <1>1 DEF Rank
  <1>3. PICK c : c = [r EXCEPT ![d] = p[d]]
    OBVIOUS
  <1>4. r \in [Dim -> 0 .. M - 1] /\ p \in [Dim -> 0 .. M - 1]
    BY <1>2
  <1>5. /\ c \in [Dim -> 0 .. M - 1]
        /\ c[d] = p[d] /\ \A e \in Dim \ {d} : c[e] = r[e]
    BY <1>0, <1>3, <1>4
  <1>6. c \in Rank
    BY <1>2, <1>5
  <1>7. c \in Group(r, d)
    BY <1>5, <1>6 DEF Group
  <1>8. Within(c, p, s, k - 1)
    <2> SUFFICES ASSUME NEW e \in Dim, \A i \in 1 .. k - 1 : LayoutOf(s)[i].dim # e
                 PROVE  p[e] = c[e]
      BY DEF Within
    <2>1. CASE e = d
      BY <1>5, <2>1
    <2>2. CASE e # d
      <3>1. \A i \in 1 .. k : i = k \/ i \in 1 .. k - 1
        OBVIOUS
      <3>2. \A i \in 1 .. k : LayoutOf(s)[i].dim # e
        BY <2>2, <3>1
      <3> QED
        BY <1>5, <2>2, <3>2 DEF Within
    <2> QED
      BY <2>1, <2>2
  <1> QED
    BY <1>7, <1>8

\* Ranks that agree in every dimension are one.
LEMMA SameRank ==
    ASSUME NEW r \in Rank, NEW p \in Rank, NEW s, Within(r, p, s, 0)
    PROVE  p = r
  <1>1. PICK M : M = Max({Dims[e] : e \in Dim})
    OBVIOUS
  <1>2. r \in [Dim -> 0 .. M - 1] /\ p \in [Dim -> 0 .. M - 1]
    BY <1>1 DEF Rank
  <1>3. \A d \in Dim : p[d] = r[d]
    BY DEF Within
  <1> QED
    BY <1>2, <1>3

\* All ranks agree outside the dimensions of a collective over everything.
LEMMA AllWithin ==
    ASSUME Everywhere, NEW r \in Rank, NEW p \in Rank, NEW s \in Stream
    PROVE  Within(r, p, s, Len(LayoutOf(s)))
  <1> SUFFICES ASSUME NEW d \in Dim,
                      \A i \in 1 .. Len(LayoutOf(s)) : LayoutOf(s)[i].dim # d
               PROVE  p[d] = r[d]
    BY DEF Within
  <1>1. PICK M : M = Max({Dims[e] : e \in Dim})
    OBVIOUS
  <1>2. /\ r \in [Dim -> 0 .. M - 1] /\ p \in [Dim -> 0 .. M - 1]
        /\ r[d] < Dims[d] /\ p[d] < Dims[d]
    BY <1>1 DEF Rank
  <1>3. d \notin ActiveDims(Collectives[CollectiveOf(s)])
    BY StreamLayout
  <1>4. Dims[d] = 1
    <2>1. CollectiveOf(s) \in 1 .. Len(Collectives)
      BY StreamLayout
    <2> QED
      BY <1>3, <2>1 DEF Everywhere, ActiveDims
  <1>5. r[d] \in 0 .. M - 1 /\ p[d] \in 0 .. M - 1
    BY <1>2
  <1>6. \A a \in 0 .. M - 1 : a < 1 => a = 0
    OBVIOUS
  <1> QED
    BY <1>2, <1>4, <1>5, <1>6

\* The steps of a stream at the rank that moves, and what every rank has seen.
LEMMA ReachStep ==
    ASSUME IInv, Reach, Next
    PROVE  Reach'
  <1>0. PICK r \in Rank : \E z : GoesTo(r, z)
    BY OneRank
  <1>1. PICK z :
           /\ sys' = [sys EXCEPT ![r] = z]
           /\ SysInv(z)
           /\ \/ Issues(sys[r], z)
              \/ \E s \in Stream : CanEnd(r, s) /\ Ends(sys[r], z, s)
    BY <1>0 DEF GoesTo
  <1>2. PICK y : y = sys[r]
    OBVIOUS
  <1>3. \A p \in Rank : sys'[p] = IF p = r THEN z ELSE sys[p]
    BY <1>1 DEF IInv
  <1>4. SysInv(y) /\ \A p \in Rank : sys[p].step \in [Stream -> Nat]
    BY <1>2 DEF IInv, SysInv, Kept, SysType
  <1>5. y.step \in [Stream -> Nat] /\ z.step \in [Stream -> Nat]
    BY <1>1, <1>4 DEF SysInv, Kept, SysType
  <1>6. ASSUME NEW t \in Stream
        PROVE  \/ z.step[t] = y.step[t]
               \/ z.step[t] = 1 /\ y.step[t] = 0
               \/ CanEnd(r, t) /\ z.step[t] = y.step[t] + 1
    <2>1. CASE Issues(y, z)
      <3>1. PICK m \in Nat : m = y.issued * Splits
        BY <1>4, ConfigAssumption DEF SysInv, Kept, SysType
      <3>2. t \in Nat
        <4>1. PICK k \in Nat : k = Splits * Len(Collectives)
          BY ConfigAssumption
        <4> QED
          BY <4>1 DEF Stream
      <3>3. CASE t <= m
        BY <2>1, <3>1, <3>3 DEF Issues
      <3>4. CASE t > m
        <4>1. y.step[t] = 0
          BY <1>4, <3>1, <3>4 DEF SysInv, Kept, Fresh
        <4>2. z.step[t] = 0 \/ z.step[t] = 1
          BY <2>1, <3>1, <3>4 DEF Issues
        <4> QED
          BY <4>1, <4>2
      <3> QED
        BY <3>1, <3>2, <3>3, <3>4
    <2>2. CASE \E s \in Stream : CanEnd(r, s) /\ Ends(y, z, s)
      BY <2>2 DEF Ends
    <2> QED
      BY <1>1, <1>2, <2>1, <2>2
  <1> SUFFICES ASSUME NEW a \in Rank, NEW b \in Rank, NEW t \in Stream,
                      NEW k \in 0 .. Len(LayoutOf(t)),
                      sys'[a].step[t] > k, Within(a, b, t, k)
               PROVE  sys'[b].step[t] >= 1
    BY DEF Reach
  <1>7. sys[b].step[t] >= 1 => sys'[b].step[t] >= 1
    BY <1>2, <1>3, <1>4, <1>5, <1>6
  <1>8. CASE sys[a].step[t] > k
    BY <1>7, <1>8 DEF Reach
  <1>9. CASE ~(sys[a].step[t] > k)
    <2>1. a = r /\ z.step[t] > k /\ ~(y.step[t] > k)
      BY <1>2, <1>3, <1>9
    <2>2. CASE z.step[t] = 1 /\ y.step[t] = 0
      <3>1. k = 0
        BY <2>1, <2>2
      <3>2. b = r
        BY <2>1, <3>1, SameRank
      <3> QED
        BY <1>3, <2>2, <3>2
    <2>3. CASE CanEnd(r, t) /\ z.step[t] = y.step[t] + 1
      <3>1. k = y.step[t]
        BY <1>5, <2>1, <2>3
      <3>2. PICK d : d = y.plan[t][k].dim
        OBVIOUS
      <3>3. k \in 1 .. Len(y.plan[t]) /\ \A p \in Group(r, d) : Started(p, t, k)
        BY <1>2, <2>3, <3>1, <3>2 DEF CanEnd
      <3>4. k \in 1 .. Len(LayoutOf(t)) /\ d = LayoutOf(t)[k].dim
        <4>1. k >= 1 /\ y.step[t] >= 1
          BY <3>1, <3>3
        <4>2. /\ Len(y.plan[t]) = Len(LayoutOf(t))
              /\ \A i \in 1 .. Len(LayoutOf(t)) : y.plan[t][i].dim = LayoutOf(t)[i].dim
          BY <1>4, <4>1 DEF SysInv, Kept, Laid
        <4> QED
          BY <3>2, <3>3, <4>2
      <3>5. PICK c \in Group(r, d) : Within(c, b, t, k - 1)
        BY <2>1, <3>4, Between
      <3>6. c \in Rank /\ Started(c, t, k)
        BY <3>3, <3>5 DEF Group
      <3>7. sys[c].step[t] > k - 1
        <4>1. sys[c].step[t] \in Nat
          BY <1>4, <3>6
        <4> QED
          BY <3>6, <4>1 DEF Started
      <3>8. k - 1 \in 0 .. Len(LayoutOf(t))
        BY <3>4
      <3>9. sys[b].step[t] >= 1
        BY <3>5, <3>6, <3>7, <3>8 DEF Reach
      <3> QED
        BY <1>7, <3>9
    <2> QED
      BY <1>6, <2>1, <2>2, <2>3
  <1> QED
    BY <1>8, <1>9

\* A rank completes a collective when it ends the last phase of its last stream.
LEMMA BarrierStep ==
    ASSUME Everywhere, IInv, IInv', Reach', CompletionIsBarrier, Next
    PROVE  CompletionIsBarrier'
  <1>0. PICK r \in Rank : \E z : GoesTo(r, z)
    BY OneRank
  <1>1. PICK z :
           /\ sys' = [sys EXCEPT ![r] = z]
           /\ SysInv(z)
           /\ \/ Issues(sys[r], z)
              \/ \E s \in Stream : CanEnd(r, s) /\ Ends(sys[r], z, s)
    BY <1>0 DEF GoesTo
  <1>2. PICK y : y = sys[r]
    OBVIOUS
  <1>3. \A p \in Rank : sys'[p] = IF p = r THEN z ELSE sys[p]
    BY <1>1 DEF IInv
  <1>4. \A p \in Rank : /\ sys[p].issued \in Nat /\ sys[p].completed \in Nat
                        /\ sys'[p].issued \in Nat
    BY DEF IInv, SysInv, Kept, SysType
  <1>5. \A p \in Rank : sys'[p].issued >= sys[p].issued
    BY <1>1, <1>3, <1>4 DEF Issues, Ends
  <1>6. ASSUME NEW p \in Rank
        PROVE  z.completed <= sys'[p].issued
    <2>1. CASE z.completed = y.completed
      BY <1>2, <1>4, <1>5, <2>1 DEF CompletionIsBarrier
    <2>2. CASE z.completed # y.completed
      <3>1. PICK s \in Stream : CanEnd(r, s) /\ Ends(y, z, s)
        BY <1>1, <1>2, <2>2 DEF Issues
      <3>2. /\ z.completed = y.issued /\ CollectiveOf(s) = y.issued
            /\ y.step[s] = Len(y.plan[s]) /\ z.step[s] = y.step[s] + 1
        BY <2>2, <3>1 DEF Ends
      <3>3. Len(y.plan[s]) = Len(LayoutOf(s)) /\ Len(y.plan[s]) \in Nat
        <4>1. y.step[s] >= 1
          BY <1>2, <3>1 DEF CanEnd
        <4>2. SysInv(y)
          BY <1>2 DEF IInv
        <4> QED
          BY <4>1, <4>2 DEF SysInv, Kept, Laid, SysType
      <3>4. sys'[r].step[s] > Len(LayoutOf(s)) /\ Len(LayoutOf(s)) \in 0 .. Len(LayoutOf(s))
        BY <1>3, <3>2, <3>3
      <3>5. sys'[p].step[s] >= 1
        BY <3>4, AllWithin DEF Reach
      <3>6. SysInv(sys'[p])
        BY DEF IInv
      <3>7. ~(s > sys'[p].issued * Splits)
        BY <3>5, <3>6 DEF SysInv, Kept, Fresh
      <3>8. s <= sys'[p].issued * Splits
        <4>1. PICK m \in Nat : m = sys'[p].issued * Splits
          BY <1>4, ConfigAssumption
        <4>2. PICK k \in Nat : k = Splits * Len(Collectives)
          BY ConfigAssumption
        <4> QED
          BY <3>7, <4>1, <4>2 DEF Stream
      <3>9. CollectiveOf(s) <= sys'[p].issued
        BY <1>4, <3>8, StreamLayout
      <3> QED
        BY <3>2, <3>9
    <2> QED
      BY <2>1, <2>2
  <1>7. ASSUME NEW a \in Rank, NEW p \in Rank
        PROVE  sys'[a].completed <= sys'[p].issued
    <2>1. CASE a = r
      BY <1>3, <1>6, <2>1
    <2>2. CASE a # r
      <3>1. sys'[a] = sys[a]
        BY <1>3, <2>2
      <3> QED
        BY <1>4, <1>5, <3>1 DEF CompletionIsBarrier
    <2> QED
      BY <2>1, <2>2
  <1> QED
    BY <1>7 DEF CompletionIsBarrier

BarrierInv == IInv /\ Reach /\ CompletionIsBarrier

\* Reach makes the barrier inductive.
LEMMA BarrierInductive ==
    ASSUME Everywhere
    PROVE  /\ Init => BarrierInv
           /\ BarrierInv /\ [Next]_vars => BarrierInv'
  <1> USE DEF BarrierInv
  <1>1. Init => BarrierInv
    <2> SUFFICES ASSUME Init
                 PROVE  Reach /\ CompletionIsBarrier
      BY Inductive
    <2>1. \A r \in Rank : sys[r] = SysInit
      BY DEF Init
    <2>2. \A r \in Rank : /\ sys[r].completed = 0 /\ sys[r].issued = 0
                          /\ sys[r].step = [s \in Stream |-> 0]
      BY <2>1 DEF SysInit
    <2>3. Reach
      <3> SUFFICES ASSUME NEW r \in Rank, NEW s \in Stream,
                          NEW k \in 0 .. Len(LayoutOf(s)), sys[r].step[s] > k
                   PROVE  FALSE
        BY DEF Reach
      <3>1. sys[r].step[s] = 0
        BY <2>2
      <3> QED
        BY <3>1
    <2> QED
      BY <2>2, <2>3 DEF CompletionIsBarrier
  <1>2. BarrierInv /\ [Next]_vars => BarrierInv'
    <2>1. CASE Next
      BY <2>1, Inductive, ReachStep, BarrierStep
    <2>2. CASE UNCHANGED vars
      BY <2>2, Inductive DEF vars, Reach, CompletionIsBarrier
    <2> QED
      BY <2>1, <2>2
  <1> QED
    BY <1>1, <1>2

(***************************************************************************)
(* If every collective goes over all dimensions of more than one rank, no  *)
(* rank sees a collective completed (notify_stream_finished) before every  *)
(* rank has issued it, on a machine of any shape.                          *)
(***************************************************************************)
THEOREM CompletionWaitsForAll ==
    ASSUME Everywhere
    PROVE  Spec => []CompletionIsBarrier
  <1>1. Init => BarrierInv
    BY BarrierInductive
  <1>2. BarrierInv /\ [Next]_vars => BarrierInv'
    BY BarrierInductive
  <1>3. BarrierInv => CompletionIsBarrier
    BY DEF BarrierInv
  <1> QED
    BY <1>1, <1>2, <1>3, PTL DEF Spec

=============================================================================
