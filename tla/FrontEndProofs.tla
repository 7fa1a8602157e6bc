----------------------------- MODULE FrontEndProofs -----------------------------
(***************************************************************************)
(* Theorems about FrontEnd, for every set of keys without equal tags       *)
(* modulo the range and for every bound: with rendezvous nothing is sent   *)
(* that nobody has asked for, and with or without it the front end keeps   *)
(* the promise of MessageMatching.                                         *)
(***************************************************************************)
EXTENDS FrontEnd, FiniteSetTheorems, TLAPS

(***************************************************************************)
(* The first n entries of a list that are k.                               *)
(***************************************************************************)
Among(list, n, k) == {i \in 1 .. n : list[i] = k}

KeysOf(t) == {k \in Key : Token(k) = t}

TypeOK ==
    /\ rendezvous_enabled \in BOOLEAN
    /\ posted \in [Tokens -> [sends : Seq(Key), recvs : Seq(Key)]]
    /\ tokens \in [Tokens -> [left : Nat, arrived : Nat]]
    /\ network \in [Messages ->
                       [sends : Nat, recvs : Nat, sent : Nat, received : Nat]]

\* The lists of a token key hold keys that share the token.
OwnLists ==
    \A t \in Tokens :
        /\ \A i \in 1 .. Len(posted[t].sends) : posted[t].sends[i] \in KeysOf(t)
        /\ \A i \in 1 .. Len(posted[t].recvs) : posted[t].recvs[i] \in KeysOf(t)

\* Tokens are met in order: none arrives that has not left, and each that left or
\* arrived has its receive or its send.
TokenOrder ==
    \A t \in Tokens :
        /\ tokens[t].arrived <= tokens[t].left
        /\ tokens[t].left <= Len(posted[t].recvs)
        /\ tokens[t].arrived <= Len(posted[t].sends)

\* The entries of the lists that were handed to the network.
SendsReleased(t) ==
    IF rendezvous_enabled THEN tokens[t].arrived ELSE Len(posted[t].sends)

RecvsReleased(t) ==
    IF rendezvous_enabled THEN tokens[t].left ELSE Len(posted[t].recvs)

\* Of every key the network has exactly the calls that were released, although
\* keys share tokens; and no key is called for more often than the bound.
CallsReleased ==
    \A k \in Key :
        LET t == Token(k) IN
        /\ network[Message(k)].sends
             = Cardinality(Among(posted[t].sends, SendsReleased(t), k))
        /\ network[Message(k)].recvs
             = Cardinality(Among(posted[t].recvs, RecvsReleased(t), k))
        /\ Count(posted[t].sends, k) <= MaxPosts
        /\ Count(posted[t].recvs, k) <= MaxPosts

HandlersInOrder ==
    \A m \in Messages :
        /\ network[m].sent <= network[m].sends
        /\ network[m].received <= network[m].sent
        /\ network[m].received <= network[m].recvs

\* With rendezvous every message made has used up a token of its own.
MadeOnTokens ==
    rendezvous_enabled =>
        \A t \in Tokens :
            /\ IsFiniteSet(Made(t))
            /\ Cardinality(Made(t)) = tokens[t].arrived

IInv ==
    /\ TypeOK
    /\ OwnLists
    /\ TokenOrder
    /\ CallsReleased
    /\ HandlersInOrder
    /\ MadeOnTokens

-----------------------------------------------------------------------------
\* A key has a token and a message, and no other key has that message.
LEMMA KeyFacts ==
    ASSUME NEW k \in Key
    PROVE  /\ Token(k) \in Tokens /\ Message(k) \in Messages
           /\ \A l \in Key : Message(l) = Message(k) => l = k
  <1>1. Token(k) \in Tokens /\ Message(k) \in Messages
    BY DEF Tokens, Messages
  <1>2. ASSUME NEW l \in Key, Message(l) = Message(k)
        PROVE  l = k
    <2>1. /\ l.src = k.src /\ l.dst = k.dst /\ l.size = k.size /\ Tag(l) = Tag(k)
      BY <1>2 DEF Message
    <2>2. TagRange \in Nat \ {0} /\ k.tag \in Nat /\ l.tag \in Nat
      BY KeyAssumption
    <2>3. \A x \in Nat : x % TagRange \in 0 .. TagRange - 1
      BY <2>2
    <2>4. \A x \in {k, l} :
              Tag(x) = IF x.type = "NATIVE" THEN x.tag % TagRange
                       ELSE (x.tag % TagRange) + TagRange
      <3>1. COLLECTIVE - NATIVE = TagRange /\ RENDEZVOUS - COLLECTIVE = TagRange
            /\ COLLECTIVE = TagRange /\ NATIVE = 0
        BY <2>2 DEF COLLECTIVE, NATIVE, RENDEZVOUS
      <3> QED
        BY <2>2, <2>3, <3>1 DEF Tag
    <2>5. PICK p, q \in 0 .. TagRange - 1 : p = k.tag % TagRange /\ q = l.tag % TagRange
      BY <2>2, <2>3
    <2>6. l.type = k.type /\ p = q
      <3>1. l.type \in {"NATIVE", "COLLECTIVE"} /\ k.type \in {"NATIVE", "COLLECTIVE"}
        BY KeyAssumption
      <3> QED
        BY <2>1, <2>2, <2>4, <2>5, <3>1
    <2>7. l.tag = k.tag
      BY <2>5, <2>6, KeyAssumption
    <2>8. /\ l = [src |-> l.src, dst |-> l.dst, tag |-> l.tag, size |-> l.size,
                  type |-> l.type]
          /\ k = [src |-> k.src, dst |-> k.dst, tag |-> k.tag, size |-> k.size,
                  type |-> k.type]
      BY KeyAssumption
    <2> QED
      BY <2>1, <2>6, <2>7, <2>8
  <1> QED
    BY <1>1, <1>2

\* Entries of a list are finitely many.
LEMMA AmongFinite ==
    ASSUME NEW list, NEW n \in Nat, NEW k
    PROVE  IsFiniteSet(Among(list, n, k)) /\ Cardinality(Among(list, n, k)) \in Nat
  <1>1. IsFiniteSet(1 .. n)
    BY FS_Interval
  <1>2. Among(list, n, k) \subseteq 1 .. n
    BY DEF Among
  <1> QED
    BY <1>1, <1>2, FS_Subset, FS_CardinalityType

\* One more entry that may count.
LEMMA AmongNext ==
    ASSUME NEW list, NEW n \in Nat, NEW m, m = n + 1, NEW k
    PROVE  /\ list[m] = k =>
                 Cardinality(Among(list, m, k)) = Cardinality(Among(list, n, k)) + 1
           /\ list[m] # k => Among(list, m, k) = Among(list, n, k)
  <1>1. IsFiniteSet(Among(list, n, k)) /\ Cardinality(Among(list, n, k)) \in Nat
    BY AmongFinite
  <1>2. CASE list[m] = k
    <2>1. /\ Among(list, m, k) = Among(list, n, k) \cup {m}
          /\ m \notin Among(list, n, k)
      BY <1>2 DEF Among
    <2> QED
      BY <1>1, <1>2, <2>1, FS_AddElement
  <1>3. CASE list[m] # k
    <2>1. Among(list, m, k) = Among(list, n, k)
      BY <1>3 DEF Among
    <2> QED
      BY <1>1, <1>3, <2>1
  <1> QED
    BY <1>2, <1>3

\* The first n entries are at most as many as all entries.
LEMMA AmongAtMost ==
    ASSUME NEW list, NEW n \in Nat, NEW m \in Nat, n <= m, NEW k
    PROVE  Cardinality(Among(list, n, k)) <= Cardinality(Among(list, m, k))
  <1>1. Among(list, n, k) \subseteq Among(list, m, k)
    BY DEF Among
  <1>2. IsFiniteSet(Among(list, m, k))
    BY AmongFinite
  <1> QED
    BY <1>1, <1>2, FS_Subset

\* An entry at the end of a list changes no earlier one.
LEMMA AmongAppend ==
    ASSUME NEW S, NEW list \in Seq(S), NEW x \in S, NEW n \in 0 .. Len(list), NEW k
    PROVE  /\ Among(Append(list, x), n, k) = Among(list, n, k)
           /\ Len(Append(list, x)) = Len(list) + 1
           /\ Append(list, x)[Len(list) + 1] = x
           /\ Append(list, x) \in Seq(S)
  <1>1. \A i \in 1 .. n : Append(list, x)[i] = list[i]
    OBVIOUS
  <1> QED
    BY <1>1 DEF Among

\* Count counts all entries; one that is appended counts for its key.
LEMMA CountAppend ==
    ASSUME NEW S, NEW list \in Seq(S), NEW x \in S, NEW k
    PROVE  /\ Count(list, k) = Cardinality(Among(list, Len(list), k))
           /\ Count(list, k) \in Nat
           /\ Count(Append(list, x), k) = Count(list, k) + (IF x = k THEN 1 ELSE 0)
  <1>1. Len(list) \in Nat
    OBVIOUS
  <1>2. PICK more, n, m : /\ more = Append(list, x) /\ n = Len(list) /\ m = n + 1
                          /\ n \in Nat
    BY <1>1
  <1>3. Count(list, k) = Cardinality(Among(list, n, k))
    BY <1>2 DEF Count, Among
  <1>4. Len(more) = m /\ more[m] = x /\ Among(more, n, k) = Among(list, n, k)
    BY <1>2, AmongAppend
  <1>5. Count(more, k) = Cardinality(Among(more, m, k))
    BY <1>4 DEF Count, Among
  <1>6. /\ x = k => Cardinality(Among(more, m, k)) = Cardinality(Among(more, n, k)) + 1
        /\ x # k => Among(more, m, k) = Among(more, n, k)
    <2>1. n \in Nat /\ m = n + 1 /\ more[m] = x
      BY <1>2, <1>4
    <2> QED
      BY ONLY <2>1, AmongNext, Zenon
  <1>7. Cardinality(Among(list, n, k)) \in Nat
    BY <1>2, AmongFinite
  <1> QED
    BY <1>2, <1>3, <1>4, <1>5, <1>6, <1>7

-----------------------------------------------------------------------------
\* What IInv says of the types of one token key and of one message.
LEMMA Types ==
    ASSUME TypeOK
    PROVE  /\ \A t \in Tokens : /\ posted[t].sends \in Seq(Key)
                                /\ posted[t].recvs \in Seq(Key)
                                /\ Len(posted[t].sends) \in Nat
                                /\ Len(posted[t].recvs) \in Nat
                                /\ tokens[t].left \in Nat /\ tokens[t].arrived \in Nat
           /\ \A m \in Messages : /\ network[m].sends \in Nat
                                  /\ network[m].recvs \in Nat
                                  /\ network[m].sent \in Nat
                                  /\ network[m].received \in Nat
  <1>1. \A t \in Tokens : /\ posted[t].sends \in Seq(Key) /\ posted[t].recvs \in Seq(Key)
                          /\ tokens[t].left \in Nat /\ tokens[t].arrived \in Nat
    BY DEF TypeOK
  <1>2. \A t \in Tokens : Len(posted[t].sends) \in Nat /\ Len(posted[t].recvs) \in Nat
    BY <1>1
  <1>3. \A m \in Messages : /\ network[m].sends \in Nat /\ network[m].recvs \in Nat
                            /\ network[m].sent \in Nat /\ network[m].received \in Nat
    BY DEF TypeOK
  <1> QED
    BY <1>1, <1>2, <1>3

\* A counter of a message that is incremented stays a number.
LEMMA CountersTyped ==
    ASSUME NEW S, NEW m \in S,
           NEW net \in [S -> [sends : Nat, recvs : Nat, sent : Nat, received : Nat]]
    PROVE  /\ [net EXCEPT ![m].sends = @ + 1]
                \in [S -> [sends : Nat, recvs : Nat, sent : Nat, received : Nat]]
           /\ [net EXCEPT ![m].recvs = @ + 1]
                \in [S -> [sends : Nat, recvs : Nat, sent : Nat, received : Nat]]
           /\ [net EXCEPT ![m].sent = @ + 1]
                \in [S -> [sends : Nat, recvs : Nat, sent : Nat, received : Nat]]
           /\ [net EXCEPT ![m].received = @ + 1]
                \in [S -> [sends : Nat, recvs : Nat, sent : Nat, received : Nat]]
  OBVIOUS

\* A step that does not give or take messages keeps the messages made.
LEMMA MadeFrame ==
    ASSUME \A m \in Messages : network'[m].sends = network[m].sends
    PROVE  \A t \in Tokens : Made(t)' = Made(t)
  <1>1. \A k \in Key : network'[Message(k)].sends = network[Message(k)].sends
    BY KeyFacts
  <1>2. \A t \in Tokens : Made(t)' = UNION {{Message(k)} \X (1 .. network'[Message(k)].sends) :
                                                k \in {l \in Key : Token(l) = t}}
    BY DEF Made
  <1> QED
    BY <1>1, <1>2 DEF Made

\* A call of front_end_sim_send, with and without rendezvous.
LEMMA SendKeeps ==
    ASSUME IInv, NEW k \in Key, front_end_sim_send(k)
    PROVE  IInv' /\ Matching!PostSend(k)
  <1>0. PICK t \in Tokens : t = Token(k)
    BY KeyFacts
  <1>1. /\ posted' = [posted EXCEPT ![t].sends = Append(@, k)]
        /\ Count(posted[t].sends, k) < MaxPosts
        /\ tokens' = tokens /\ rendezvous_enabled' = rendezvous_enabled
        /\ IF rendezvous_enabled THEN network' = network
           ELSE network' = [network EXCEPT ![Message(k)].sends = @ + 1]
    BY <1>0 DEF front_end_sim_send, sim_send
  <1>2. TypeOK /\ Message(k) \in Messages /\ MaxPosts \in Nat
    BY KeyFacts, KeyAssumption DEF IInv
  <1>3. PICK more : more = Append(posted[t].sends, k)
    OBVIOUS
  <1>4. /\ posted[t].sends \in Seq(Key) /\ more \in Seq(Key)
        /\ Len(posted[t].sends) \in Nat /\ Len(more) = Len(posted[t].sends) + 1
        /\ \A i \in 1 .. Len(posted[t].sends) : more[i] = posted[t].sends[i]
        /\ more[Len(posted[t].sends) + 1] = k
    BY <1>2, <1>3, Types
  <1>5. ASSUME NEW u \in Tokens
        PROVE  /\ posted'[u].sends = IF u = t THEN more ELSE posted[u].sends
               /\ posted'[u].recvs = posted[u].recvs
    BY <1>1, <1>2, <1>3 DEF TypeOK
  <1>6. ASSUME NEW m \in Messages
        PROVE  /\ network'[m].sends = IF ~rendezvous_enabled /\ m = Message(k)
                                      THEN network[m].sends + 1 ELSE network[m].sends
               /\ network'[m].recvs = network[m].recvs
               /\ network'[m].sent = network[m].sent
               /\ network'[m].received = network[m].received
    BY <1>1, <1>2 DEF TypeOK
  <1>7. TypeOK'
    <2>1. posted' \in [Tokens -> [sends : Seq(Key), recvs : Seq(Key)]]
      <3>1. posted' = [posted EXCEPT ![t].sends = more]
        BY <1>1, <1>3
      <3> QED
        BY <1>2, <1>4, <3>1 DEF TypeOK
    <2>2. network' \in [Messages ->
                           [sends : Nat, recvs : Nat, sent : Nat, received : Nat]]
      <3>1. CASE rendezvous_enabled
        BY <1>1, <1>2, <3>1 DEF TypeOK
      <3>2. CASE ~rendezvous_enabled
        <4>1. network' = [network EXCEPT ![Message(k)].sends = @ + 1]
          BY <1>1, <3>2
        <4> QED
          BY <1>2, <4>1, CountersTyped DEF TypeOK
      <3> QED
        BY <3>1, <3>2
    <2> QED
      BY <1>1, <1>2, <2>1, <2>2 DEF TypeOK
  <1>8. OwnLists'
    <2>1. \A u \in Tokens :
              /\ \A i \in 1 .. Len(posted'[u].sends) : posted'[u].sends[i] \in KeysOf(u)
              /\ \A i \in 1 .. Len(posted'[u].recvs) : posted'[u].recvs[i] \in KeysOf(u)
      <3> SUFFICES ASSUME NEW u \in Tokens
                   PROVE  /\ \A i \in 1 .. Len(posted'[u].sends) :
                                 posted'[u].sends[i] \in KeysOf(u)
                          /\ \A i \in 1 .. Len(posted'[u].recvs) :
                                 posted'[u].recvs[i] \in KeysOf(u)
        OBVIOUS
      <3>1. /\ \A i \in 1 .. Len(posted[u].sends) : posted[u].sends[i] \in KeysOf(u)
            /\ \A i \in 1 .. Len(posted[u].recvs) : posted[u].recvs[i] \in KeysOf(u)
        BY DEF IInv, OwnLists
      <3>2. CASE u # t
        BY <1>5, <3>1, <3>2
      <3>3. CASE u = t
        <4>1. k \in KeysOf(t)
          BY <1>0 DEF KeysOf
        <4>2. \A i \in 1 .. Len(more) : more[i] \in KeysOf(t)
          <5> SUFFICES ASSUME NEW i \in 1 .. Len(more) PROVE more[i] \in KeysOf(t)
            OBVIOUS
          <5>1. CASE i = Len(posted[t].sends) + 1
            BY <1>4, <4>1, <5>1
          <5>2. CASE i \in 1 .. Len(posted[t].sends)
            BY <1>4, <3>1, <3>3, <5>2
          <5> QED
            BY <1>4, <5>1, <5>2
        <4> QED
          BY <1>5, <3>1, <3>3, <4>2
      <3> QED
        BY <3>2, <3>3
    <2> QED
      BY <2>1 DEF OwnLists, KeysOf, Token, Tokens, Tag, COLLECTIVE, NATIVE, RENDEZVOUS
  <1>9. TokenOrder'
    <2>1. ASSUME NEW u \in Tokens
          PROVE  /\ tokens'[u].arrived <= tokens'[u].left
                 /\ tokens'[u].left <= Len(posted'[u].recvs)
                 /\ tokens'[u].arrived <= Len(posted'[u].sends)
      <3>1. /\ tokens[u].arrived <= tokens[u].left
            /\ tokens[u].left <= Len(posted[u].recvs)
            /\ tokens[u].arrived <= Len(posted[u].sends)
            /\ tokens[u].arrived \in Nat /\ Len(posted[u].sends) \in Nat
        BY <1>2, Types DEF IInv, TokenOrder
      <3>2. Len(posted'[u].sends) \in {Len(posted[u].sends), Len(posted[u].sends) + 1}
        BY <1>4, <1>5
      <3> QED
        BY <1>1, <1>5, <3>1, <3>2
    <2> QED
      BY <2>1 DEF TokenOrder
  <1>10. ASSUME NEW j \in Key
         PROVE  /\ Count(posted'[Token(j)].sends, j)
                     = Count(posted[Token(j)].sends, j) + (IF j = k THEN 1 ELSE 0)
                /\ Count(posted[Token(j)].sends, j) \in Nat
    <2>1. PICK u \in Tokens : u = Token(j)
      BY KeyFacts
    <2>2. posted[u].sends \in Seq(Key)
      BY <1>2, Types
    <2>3. Count(posted[u].sends, j) \in Nat
      BY <2>2, CountAppend
    <2>4. CASE u # t
      BY <1>0, <1>5, <2>1, <2>3, <2>4
    <2>5. CASE u = t
      <3>1. Count(more, j) = Count(posted[t].sends, j) + (IF k = j THEN 1 ELSE 0)
        BY <1>3, <1>4, CountAppend
      <3> QED
        BY <1>5, <2>1, <2>3, <2>5, <3>1
    <2> QED
      BY <2>4, <2>5
  <1>11. ASSUME NEW j \in Key
         PROVE  network'[Message(j)].sends
                  = Cardinality(Among(posted'[Token(j)].sends, SendsReleased(Token(j))', j))
    <2>1. PICK u \in Tokens : u = Token(j)
      BY KeyFacts
    <2>2. /\ network[Message(j)].sends
               = Cardinality(Among(posted[u].sends, SendsReleased(u), j))
          /\ Message(j) \in Messages /\ (j # k => Message(j) # Message(k))
      BY <2>1, KeyFacts DEF IInv, CallsReleased
    <2>3. CASE u # t
      <3>1. SendsReleased(u)' = SendsReleased(u) /\ posted'[u].sends = posted[u].sends
        BY <1>1, <1>5, <2>3 DEF SendsReleased
      <3>2. network'[Message(j)].sends = network[Message(j)].sends
        BY <1>0, <1>6, <2>1, <2>2, <2>3
      <3> QED
        BY <2>1, <2>2, <3>1, <3>2
    <2>4. CASE u = t /\ rendezvous_enabled
      <3>1. SendsReleased(u)' = tokens[t].arrived /\ SendsReleased(u) = tokens[t].arrived
        BY <1>1, <2>4 DEF SendsReleased
      <3>2. tokens[t].arrived \in 0 .. Len(posted[t].sends)
        BY <1>2, Types DEF IInv, TokenOrder
      <3>3. Among(more, tokens[t].arrived, j) = Among(posted[t].sends, tokens[t].arrived, j)
        BY <1>3, <1>4, <3>2, AmongAppend
      <3>4. network'[Message(j)].sends = network[Message(j)].sends
        BY <1>6, <2>2, <2>4
      <3> QED
        BY <1>5, <2>1, <2>2, <2>4, <3>1, <3>3, <3>4
    <2>5. CASE u = t /\ ~rendezvous_enabled
      <3>1. SendsReleased(u)' = Len(more) /\ SendsReleased(u) = Len(posted[t].sends)
        BY <1>1, <1>5, <2>5 DEF SendsReleased
      <3>2. /\ Count(more, j) = Count(posted[t].sends, j) + (IF k = j THEN 1 ELSE 0)
            /\ Count(posted[t].sends, j) \in Nat
        BY <1>3, <1>4, CountAppend
      <3>3. /\ Count(more, j) = Cardinality(Among(more, Len(more), j))
            /\ Count(posted[t].sends, j)
                 = Cardinality(Among(posted[t].sends, Len(posted[t].sends), j))
        BY DEF Count, Among
      <3>4. network'[Message(j)].sends
              = network[Message(j)].sends + (IF k = j THEN 1 ELSE 0)
        BY <1>2, <1>6, <2>2, <2>5, Types
      <3> QED
        BY <1>5, <2>1, <2>2, <2>5, <3>1, <3>2, <3>3, <3>4
    <2> QED
      BY <2>3, <2>4, <2>5
  <1>12. CallsReleased'
    <2>1. ASSUME NEW j \in Key
          PROVE  /\ network'[Message(j)].recvs
                      = Cardinality(Among(posted'[Token(j)].recvs, RecvsReleased(Token(j))', j))
                 /\ Count(posted'[Token(j)].sends, j) <= MaxPosts
                 /\ Count(posted'[Token(j)].recvs, j) <= MaxPosts
      <3>1. PICK u \in Tokens : u = Token(j)
        BY KeyFacts
      <3>2. /\ network[Message(j)].recvs
                 = Cardinality(Among(posted[u].recvs, RecvsReleased(u), j))
            /\ Count(posted[u].sends, j) <= MaxPosts
            /\ Count(posted[u].recvs, j) <= MaxPosts
            /\ Message(j) \in Messages
        BY <3>1, KeyFacts DEF IInv, CallsReleased
      <3>3. RecvsReleased(u)' = RecvsReleased(u) /\ posted'[u].recvs = posted[u].recvs
        BY <1>1, <1>5 DEF RecvsReleased
      <3>4. network'[Message(j)].recvs = network[Message(j)].recvs
        BY <1>6, <3>2
      <3>5. Count(posted'[u].sends, j) <= MaxPosts
        BY <1>0, <1>1, <1>2, <1>10, <3>1, <3>2
      <3> QED
        BY <3>1, <3>2, <3>3, <3>4, <3>5
    <2> QED
      BY <1>11, <2>1 DEF CallsReleased, Among, Count, SendsReleased, RecvsReleased
  <1>13. HandlersInOrder'
    <2>1. \A m \in Messages : /\ network[m].sends \in Nat /\ network[m].sent \in Nat
                              /\ network[m].sent <= network[m].sends
                              /\ network[m].received <= network[m].sent
                              /\ network[m].received <= network[m].recvs
      BY <1>2, Types DEF IInv, HandlersInOrder
    <2>2. ASSUME NEW m \in Messages
          PROVE  /\ network'[m].sent <= network'[m].sends
                 /\ network'[m].received <= network'[m].sent
                 /\ network'[m].received <= network'[m].recvs
      BY <1>6, <2>1
    <2> QED
      BY <2>2 DEF HandlersInOrder
  <1>14. MadeOnTokens'
    <2>1. CASE rendezvous_enabled
      <3>1. \A u \in Tokens : Made(u)' = Made(u)
        BY <1>6, <2>1, MadeFrame
      <3> QED
        BY <1>1, <2>1, <3>1 DEF IInv, MadeOnTokens
    <2> QED
      BY <1>1, <2>1 DEF MadeOnTokens
  <1>15. Matching!PostSend(k)
    <2>1. [j \in Key |-> Count(posted'[Token(j)].sends, j)]
            = [[j \in Key |-> Count(posted[Token(j)].sends, j)] EXCEPT ![k] = @ + 1]
      <3>1. \A j \in Key : Count(posted'[Token(j)].sends, j)
                             = IF j = k THEN Count(posted[Token(j)].sends, j) + 1
                               ELSE Count(posted[Token(j)].sends, j)
        BY <1>10
      <3> QED
        BY <3>1
    <2>2. [j \in Key |-> Count(posted'[Token(j)].recvs, j)]
            = [j \in Key |-> Count(posted[Token(j)].recvs, j)]
      BY <1>5, KeyFacts
    <2>3. \A c \in Chunk : /\ network'[Message(c[1])].sent = network[Message(c[1])].sent
                           /\ network'[Message(c[1])].received
                                = network[Message(c[1])].received
      BY <1>6, KeyFacts DEF Chunk
    <2> QED
      BY <2>1, <2>2, <2>3 DEF Matching!PostSend, Count, Chunk
  <1> QED
    BY <1>7, <1>8, <1>9, <1>12, <1>13, <1>14, <1>15 DEF IInv

\* A call of front_end_sim_recv, with and without rendezvous.
LEMMA RecvKeeps ==
    ASSUME IInv, NEW k \in Key, front_end_sim_recv(k)
    PROVE  IInv' /\ Matching!PostRecv(k)
  <1>0. PICK t \in Tokens : t = Token(k)
    BY KeyFacts
  <1>1. /\ posted' = [posted EXCEPT ![t].recvs = Append(@, k)]
        /\ Count(posted[t].recvs, k) < MaxPosts
        /\ tokens' = tokens /\ rendezvous_enabled' = rendezvous_enabled
        /\ IF rendezvous_enabled THEN network' = network
           ELSE network' = [network EXCEPT ![Message(k)].recvs = @ + 1]
    BY <1>0 DEF front_end_sim_recv, sim_recv
  <1>2. TypeOK /\ Message(k) \in Messages /\ MaxPosts \in Nat
    BY KeyFacts, KeyAssumption DEF IInv
  <1>3. PICK more : more = Append(posted[t].recvs, k)
    OBVIOUS
  <1>4. /\ posted[t].recvs \in Seq(Key) /\ more \in Seq(Key)
        /\ Len(posted[t].recvs) \in Nat /\ Len(more) = Len(posted[t].recvs) + 1
        /\ \A i \in 1 .. Len(posted[t].recvs) : more[i] = posted[t].recvs[i]
        /\ more[Len(posted[t].recvs) + 1] = k
    BY <1>2, <1>3, Types
  <1>5. ASSUME NEW u \in Tokens
        PROVE  /\ posted'[u].recvs = IF u = t THEN more ELSE posted[u].recvs
               /\ posted'[u].sends = posted[u].sends
    BY <1>1, <1>2, <1>3 DEF TypeOK
  <1>6. ASSUME NEW m \in Messages
        PROVE  /\ network'[m].recvs = IF ~rendezvous_enabled /\ m = Message(k)
                                      THEN network[m].recvs + 1 ELSE network[m].recvs
               /\ network'[m].sends = network[m].sends
               /\ network'[m].sent = network[m].sent
               /\ network'[m].received = network[m].received
    BY <1>1, <1>2 DEF TypeOK
  <1>7. TypeOK'
    <2>1. posted' \in [Tokens -> [sends : Seq(Key), recvs : Seq(Key)]]
      <3>1. posted' = [posted EXCEPT ![t].recvs = more]
        BY <1>1, <1>3
      <3> QED
        BY <1>2, <1>4, <3>1 DEF TypeOK
    <2>2. network' \in [Messages ->
                           [sends : Nat, recvs : Nat, sent : Nat, received : Nat]]
      <3>1. CASE rendezvous_enabled
        BY <1>1, <1>2, <3>1 DEF TypeOK
      <3>2. CASE ~rendezvous_enabled
        <4>1. network' = [network EXCEPT ![Message(k)].recvs = @ + 1]
          BY <1>1, <3>2
        <4> QED
          BY <1>2, <4>1, CountersTyped DEF TypeOK
      <3> QED
        BY <3>1, <3>2
    <2> QED
      BY <1>1, <1>2, <2>1, <2>2 DEF TypeOK
  <1>8. OwnLists'
    <2>1. \A u \in Tokens :
              /\ \A i \in 1 .. Len(posted'[u].recvs) : posted'[u].recvs[i] \in KeysOf(u)
              /\ \A i \in 1 .. Len(posted'[u].sends) : posted'[u].sends[i] \in KeysOf(u)
      <3> SUFFICES ASSUME NEW u \in Tokens
                   PROVE  /\ \A i \in 1 .. Len(posted'[u].recvs) :
                                 posted'[u].recvs[i] \in KeysOf(u)
                          /\ \A i \in 1 .. Len(posted'[u].sends) :
                                 posted'[u].sends[i] \in KeysOf(u)
        OBVIOUS
      <3>1. /\ \A i \in 1 .. Len(posted[u].recvs) : posted[u].recvs[i] \in KeysOf(u)
            /\ \A i \in 1 .. Len(posted[u].sends) : posted[u].sends[i] \in KeysOf(u)
        BY DEF IInv, OwnLists
      <3>2. CASE u # t
        BY <1>5, <3>1, <3>2
      <3>3. CASE u = t
        <4>1. k \in KeysOf(t)
          BY <1>0 DEF KeysOf
        <4>2. \A i \in 1 .. Len(more) : more[i] \in KeysOf(t)
          <5> SUFFICES ASSUME NEW i \in 1 .. Len(more) PROVE more[i] \in KeysOf(t)
            OBVIOUS
          <5>1. CASE i = Len(posted[t].recvs) + 1
            BY <1>4, <4>1, <5>1
          <5>2. CASE i \in 1 .. Len(posted[t].recvs)
            BY <1>4, <3>1, <3>3, <5>2
          <5> QED
            BY <1>4, <5>1, <5>2
        <4> QED
          BY <1>5, <3>1, <3>3, <4>2
      <3> QED
        BY <3>2, <3>3
    <2> QED
      BY <2>1 DEF OwnLists, KeysOf, Token, Tokens, Tag, COLLECTIVE, NATIVE, RENDEZVOUS
  <1>9. TokenOrder'
    <2>1. ASSUME NEW u \in Tokens
          PROVE  /\ tokens'[u].arrived <= tokens'[u].left
                 /\ tokens'[u].left <= Len(posted'[u].recvs)
                 /\ tokens'[u].arrived <= Len(posted'[u].sends)
      <3>1. /\ tokens[u].arrived <= tokens[u].left
            /\ tokens[u].left <= Len(posted[u].recvs)
            /\ tokens[u].arrived <= Len(posted[u].sends)
            /\ tokens[u].left \in Nat /\ Len(posted[u].recvs) \in Nat
        BY <1>2, Types DEF IInv, TokenOrder
      <3>2. Len(posted'[u].recvs) \in {Len(posted[u].recvs), Len(posted[u].recvs) + 1}
        BY <1>4, <1>5
      <3> QED
        BY <1>1, <1>5, <3>1, <3>2
    <2> QED
      BY <2>1 DEF TokenOrder
  <1>10. ASSUME NEW j \in Key
         PROVE  /\ Count(posted'[Token(j)].recvs, j)
                     = Count(posted[Token(j)].recvs, j) + (IF j = k THEN 1 ELSE 0)
                /\ Count(posted[Token(j)].recvs, j) \in Nat
    <2>1. PICK u \in Tokens : u = Token(j)
      BY KeyFacts
    <2>2. posted[u].recvs \in Seq(Key)
      BY <1>2, Types
    <2>3. Count(posted[u].recvs, j) \in Nat
      BY <2>2, CountAppend
    <2>4. CASE u # t
      BY <1>0, <1>5, <2>1, <2>3, <2>4
    <2>5. CASE u = t
      <3>1. Count(more, j) = Count(posted[t].recvs, j) + (IF k = j THEN 1 ELSE 0)
        BY <1>3, <1>4, CountAppend
      <3> QED
        BY <1>5, <2>1, <2>3, <2>5, <3>1
    <2> QED
      BY <2>4, <2>5
  <1>11. ASSUME NEW j \in Key
         PROVE  network'[Message(j)].recvs
                  = Cardinality(Among(posted'[Token(j)].recvs, RecvsReleased(Token(j))', j))
    <2>1. PICK u \in Tokens : u = Token(j)
      BY KeyFacts
    <2>2. /\ network[Message(j)].recvs
               = Cardinality(Among(posted[u].recvs, RecvsReleased(u), j))
          /\ Message(j) \in Messages /\ (j # k => Message(j) # Message(k))
      BY <2>1, KeyFacts DEF IInv, CallsReleased
    <2>3. CASE u # t
      <3>1. RecvsReleased(u)' = RecvsReleased(u) /\ posted'[u].recvs = posted[u].recvs
        BY <1>1, <1>5, <2>3 DEF RecvsReleased
      <3>2. network'[Message(j)].recvs = network[Message(j)].recvs
        BY <1>0, <1>6, <2>1, <2>2, <2>3
      <3> QED
        BY <2>1, <2>2, <3>1, <3>2
    <2>4. CASE u = t /\ rendezvous_enabled
      <3>1. RecvsReleased(u)' = tokens[t].left /\ RecvsReleased(u) = tokens[t].left
        BY <1>1, <2>4 DEF RecvsReleased
      <3>2. tokens[t].left \in 0 .. Len(posted[t].recvs)
        BY <1>2, Types DEF IInv, TokenOrder
      <3>3. Among(more, tokens[t].left, j) = Among(posted[t].recvs, tokens[t].left, j)
        BY <1>3, <1>4, <3>2, AmongAppend
      <3>4. network'[Message(j)].recvs = network[Message(j)].recvs
        BY <1>6, <2>2, <2>4
      <3> QED
        BY <1>5, <2>1, <2>2, <2>4, <3>1, <3>3, <3>4
    <2>5. CASE u = t /\ ~rendezvous_enabled
      <3>1. RecvsReleased(u)' = Len(more) /\ RecvsReleased(u) = Len(posted[t].recvs)
        BY <1>1, <1>5, <2>5 DEF RecvsReleased
      <3>2. /\ Count(more, j) = Count(posted[t].recvs, j) + (IF k = j THEN 1 ELSE 0)
            /\ Count(posted[t].recvs, j) \in Nat
        BY <1>3, <1>4, CountAppend
      <3>3. /\ Count(more, j) = Cardinality(Among(more, Len(more), j))
            /\ Count(posted[t].recvs, j)
                 = Cardinality(Among(posted[t].recvs, Len(posted[t].recvs), j))
        BY DEF Count, Among
      <3>4. network'[Message(j)].recvs
              = network[Message(j)].recvs + (IF k = j THEN 1 ELSE 0)
        BY <1>2, <1>6, <2>2, <2>5, Types
      <3> QED
        BY <1>5, <2>1, <2>2, <2>5, <3>1, <3>2, <3>3, <3>4
    <2> QED
      BY <2>3, <2>4, <2>5
  <1>12. CallsReleased'
    <2>1. ASSUME NEW j \in Key
          PROVE  /\ network'[Message(j)].sends
                      = Cardinality(Among(posted'[Token(j)].sends, SendsReleased(Token(j))', j))
                 /\ Count(posted'[Token(j)].recvs, j) <= MaxPosts
                 /\ Count(posted'[Token(j)].sends, j) <= MaxPosts
      <3>1. PICK u \in Tokens : u = Token(j)
        BY KeyFacts
      <3>2. /\ network[Message(j)].sends
                 = Cardinality(Among(posted[u].sends, SendsReleased(u), j))
            /\ Count(posted[u].recvs, j) <= MaxPosts
            /\ Count(posted[u].sends, j) <= MaxPosts
            /\ Message(j) \in Messages
        BY <3>1, KeyFacts DEF IInv, CallsReleased
      <3>3. SendsReleased(u)' = SendsReleased(u) /\ posted'[u].sends = posted[u].sends
        BY <1>1, <1>5 DEF SendsReleased
      <3>4. network'[Message(j)].sends = network[Message(j)].sends
        BY <1>6, <3>2
      <3>5. Count(posted'[u].recvs, j) <= MaxPosts
        BY <1>0, <1>1, <1>2, <1>10, <3>1, <3>2
      <3> QED
        BY <3>1, <3>2, <3>3, <3>4, <3>5
    <2> QED
      BY <1>11, <2>1 DEF CallsReleased, Among, Count, RecvsReleased, SendsReleased
  <1>13. HandlersInOrder'
    <2>1. \A m \in Messages : /\ network[m].recvs \in Nat /\ network[m].received \in Nat
                              /\ network[m].sent <= network[m].sends
                              /\ network[m].received <= network[m].sent
                              /\ network[m].received <= network[m].recvs
      BY <1>2, Types DEF IInv, HandlersInOrder
    <2>2. ASSUME NEW m \in Messages
          PROVE  /\ network'[m].sent <= network'[m].sends
                 /\ network'[m].received <= network'[m].sent
                 /\ network'[m].received <= network'[m].recvs
      BY <1>6, <2>1
    <2> QED
      BY <2>2 DEF HandlersInOrder
  <1>14. MadeOnTokens'
    <2>1. \A u \in Tokens : Made(u)' = Made(u)
      BY <1>6, MadeFrame
    <2> QED
      BY <1>1, <2>1 DEF IInv, MadeOnTokens
  <1>15. Matching!PostRecv(k)
    <2>1. [j \in Key |-> Count(posted'[Token(j)].recvs, j)]
            = [[j \in Key |-> Count(posted[Token(j)].recvs, j)] EXCEPT ![k] = @ + 1]
      <3>1. \A j \in Key : Count(posted'[Token(j)].recvs, j)
                             = IF j = k THEN Count(posted[Token(j)].recvs, j) + 1
                               ELSE Count(posted[Token(j)].recvs, j)
        BY <1>10
      <3> QED
        BY <3>1
    <2>2. [j \in Key |-> Count(posted'[Token(j)].sends, j)]
            = [j \in Key |-> Count(posted[Token(j)].sends, j)]
      BY <1>5, KeyFacts
    <2>3. \A c \in Chunk : /\ network'[Message(c[1])].sent = network[Message(c[1])].sent
                           /\ network'[Message(c[1])].received
                                = network[Message(c[1])].received
      BY <1>6, KeyFacts DEF Chunk
    <2> QED
      BY <2>1, <2>2, <2>3 DEF Matching!PostRecv, Count, Chunk
  <1> QED
    BY <1>7, <1>8, <1>9, <1>12, <1>13, <1>14, <1>15 DEF IInv

\* A step that changes neither lists nor handlers is none to the callers.
LEMMA NothingSeen ==
    ASSUME posted' = posted,
           \A m \in Messages : /\ network'[m].sent = network[m].sent
                               /\ network'[m].received = network[m].received
    PROVE  UNCHANGED Matching!avars
  <1>1. \A c \in Chunk : /\ network'[Message(c[1])].sent = network[Message(c[1])].sent
                         /\ network'[Message(c[1])].received
                              = network[Message(c[1])].received
    BY KeyFacts DEF Chunk
  <1>2. [c \in Chunk |-> IF c[2] < network'[Message(c[1])].sent THEN 1 ELSE 0]
          = [c \in Chunk |-> IF c[2] < network[Message(c[1])].sent THEN 1 ELSE 0]
    BY <1>1
  <1>3. [c \in Chunk |-> IF c[2] < network'[Message(c[1])].received THEN 1 ELSE 0]
          = [c \in Chunk |-> IF c[2] < network[Message(c[1])].received THEN 1 ELSE 0]
    BY <1>1
  <1> QED
    BY <1>2, <1>3 DEF Matching!avars, Count, Chunk

\* The n-th token of a token key has met the n-th receive of one: the n-th send
\* is made, whatever its size.
LEMMA TokenSendKeeps ==
    ASSUME IInv, NEW t \in Tokens, RendezvousSend(t)
    PROVE  IInv' /\ UNCHANGED Matching!avars
  <1>0. PICK n, k : n = tokens[t].arrived + 1 /\ k = posted[t].sends[n]
    OBVIOUS
  <1>1. /\ rendezvous_enabled /\ n <= tokens[t].left /\ n <= Len(posted[t].sends)
        /\ tokens' = [tokens EXCEPT ![t].arrived = n]
        /\ network' = [network EXCEPT ![Message(k)].sends = @ + 1]
        /\ rendezvous_enabled' = rendezvous_enabled /\ posted' = posted
    BY <1>0 DEF RendezvousSend, sim_send
  <1>2. TypeOK
    BY DEF IInv
  <1>3. /\ tokens[t].arrived \in Nat /\ tokens[t].left \in Nat
        /\ Len(posted[t].sends) \in Nat /\ n \in Nat /\ n \in 1 .. Len(posted[t].sends)
    BY <1>0, <1>1, <1>2, Types
  <1>4. k \in Key /\ Token(k) = t
    BY <1>0, <1>3 DEF IInv, OwnLists, KeysOf
  <1>5. Message(k) \in Messages /\ \A j \in Key : Message(j) = Message(k) => j = k
    BY <1>4, KeyFacts
  <1>6. ASSUME NEW m \in Messages
        PROVE  /\ network'[m].sends = IF m = Message(k) THEN network[m].sends + 1
                                      ELSE network[m].sends
               /\ network'[m].recvs = network[m].recvs
               /\ network'[m].sent = network[m].sent
               /\ network'[m].received = network[m].received
    BY <1>1, <1>2, <1>5 DEF TypeOK
  <1>7. ASSUME NEW u \in Tokens
        PROVE  /\ tokens'[u].arrived = IF u = t THEN n ELSE tokens[u].arrived
               /\ tokens'[u].left = tokens[u].left
    BY <1>1, <1>2 DEF TypeOK
  <1>8. TypeOK'
    <2>1. network' \in [Messages ->
                           [sends : Nat, recvs : Nat, sent : Nat, received : Nat]]
      BY <1>1, <1>2, <1>5, CountersTyped DEF TypeOK
    <2>2. tokens' \in [Tokens -> [left : Nat, arrived : Nat]]
      BY <1>1, <1>2, <1>3 DEF TypeOK
    <2> QED
      BY <1>1, <1>2, <2>1, <2>2 DEF TypeOK
  <1>9. OwnLists'
    BY <1>1 DEF IInv, OwnLists, KeysOf, Token, Tokens, Tag, COLLECTIVE, NATIVE, RENDEZVOUS
  <1>10. TokenOrder'
    <2>1. ASSUME NEW u \in Tokens
          PROVE  /\ tokens'[u].arrived <= tokens'[u].left
                 /\ tokens'[u].left <= Len(posted'[u].recvs)
                 /\ tokens'[u].arrived <= Len(posted'[u].sends)
      <3>1. /\ tokens[u].arrived <= tokens[u].left
            /\ tokens[u].left <= Len(posted[u].recvs)
            /\ tokens[u].arrived <= Len(posted[u].sends)
        BY DEF IInv, TokenOrder
      <3> QED
        BY <1>1, <1>7, <3>1
    <2> QED
      BY <2>1 DEF TokenOrder
  <1>11. ASSUME NEW j \in Key
         PROVE  network'[Message(j)].sends
                  = Cardinality(Among(posted'[Token(j)].sends, SendsReleased(Token(j))', j))
    <2>1. PICK u \in Tokens : u = Token(j)
      BY KeyFacts
    <2>2. /\ network[Message(j)].sends
               = Cardinality(Among(posted[u].sends, SendsReleased(u), j))
          /\ Message(j) \in Messages
      BY <2>1, KeyFacts DEF IInv, CallsReleased
    <2>3. /\ SendsReleased(u) = tokens[u].arrived
          /\ SendsReleased(u)' = IF u = t THEN n ELSE tokens[u].arrived
      BY <1>1, <1>7 DEF SendsReleased
    <2>4. CASE u # t
      <3>1. network'[Message(j)].sends = network[Message(j)].sends
        BY <1>4, <1>5, <1>6, <2>1, <2>2, <2>4
      <3> QED
        BY <1>1, <2>1, <2>2, <2>3, <2>4, <3>1
    <2>5. CASE u = t
      <3>1. PICK list, a : a = tokens[t].arrived /\ list = posted[t].sends
        OBVIOUS
      <3>2. /\ j = k => Cardinality(Among(list, n, j)) = Cardinality(Among(list, a, j)) + 1
            /\ j # k => Among(list, n, j) = Among(list, a, j)
        <4>1. a \in Nat /\ n = a + 1 /\ list[n] = k
          BY <1>0, <1>3, <3>1
        <4> QED
          BY ONLY <4>1, AmongNext, Zenon
      <3>3. network'[Message(j)].sends
              = IF j = k THEN network[Message(j)].sends + 1 ELSE network[Message(j)].sends
        BY <1>5, <1>6, <2>2
      <3> QED
        BY <1>1, <2>1, <2>2, <2>3, <2>5, <3>1, <3>2, <3>3
    <2> QED
      BY <2>4, <2>5
  <1>12. CallsReleased'
    <2>1. ASSUME NEW j \in Key
          PROVE  /\ network'[Message(j)].recvs
                      = Cardinality(Among(posted'[Token(j)].recvs, RecvsReleased(Token(j))', j))
                 /\ Count(posted'[Token(j)].sends, j) <= MaxPosts
                 /\ Count(posted'[Token(j)].recvs, j) <= MaxPosts
      <3>1. PICK u \in Tokens : u = Token(j)
        BY KeyFacts
      <3>2. /\ network[Message(j)].recvs
                 = Cardinality(Among(posted[u].recvs, RecvsReleased(u), j))
            /\ Count(posted[u].sends, j) <= MaxPosts
            /\ Count(posted[u].recvs, j) <= MaxPosts
            /\ Message(j) \in Messages
        BY <3>1, KeyFacts DEF IInv, CallsReleased
      <3>3. RecvsReleased(u)' = RecvsReleased(u)
        BY <1>1, <1>7 DEF RecvsReleased
      <3>4. network'[Message(j)].recvs = network[Message(j)].recvs
        BY <1>6, <3>2
      <3> QED
        BY <1>1, <3>1, <3>2, <3>3, <3>4
    <2> QED
      BY <1>11, <2>1 DEF CallsReleased, Among, Count, SendsReleased, RecvsReleased
  <1>13. HandlersInOrder'
    <2>1. \A m \in Messages : /\ network[m].sends \in Nat /\ network[m].sent \in Nat
                              /\ network[m].sent <= network[m].sends
                              /\ network[m].received <= network[m].sent
                              /\ network[m].received <= network[m].recvs
      BY <1>2, Types DEF IInv, HandlersInOrder
    <2>2. ASSUME NEW m \in Messages
          PROVE  /\ network'[m].sent <= network'[m].sends
                 /\ network'[m].received <= network'[m].sent
                 /\ network'[m].received <= network'[m].recvs
      BY <1>6, <2>1
    <2> QED
      BY <2>2 DEF HandlersInOrder
  <1>14. MadeOnTokens'
    <2>1. PICK p, q \in Nat : p = network[Message(k)].sends /\ q = p + 1
      BY <1>2, <1>5, Types
    <2>2. \A u \in Tokens : Made(u)' = UNION {{Message(l)} \X (1 .. network'[Message(l)].sends) :
                                                 l \in {l \in Key : Token(l) = u}}
      BY DEF Made
    <2>3. \A l \in Key : network'[Message(l)].sends
                           = IF l = k THEN q ELSE network[Message(l)].sends
      BY <1>5, <1>6, <2>1, KeyFacts
    <2>4. ASSUME NEW u \in Tokens, u # t
          PROVE  Made(u)' = Made(u)
      BY <1>4, <2>2, <2>3, <2>4 DEF Made
    <2>5. Made(t)' = Made(t) \cup {<<Message(k), q>>} /\ <<Message(k), q>> \notin Made(t)
      <3>1. 1 .. q = (1 .. p) \cup {q} /\ q \notin 1 .. p
        BY <2>1
      <3>2. Made(t)' = Made(t) \cup {<<Message(k), q>>}
        <4>1. ASSUME NEW x
              PROVE  x \in Made(t)' <=> \E l \in Key : /\ Token(l) = t /\ x[1] = Message(l)
                                                       /\ x = <<x[1], x[2]>>
                                                       /\ x[2] \in 1 .. network'[Message(l)].sends
          BY <2>2
        <4>2. ASSUME NEW x
              PROVE  x \in Made(t) <=> \E l \in Key : /\ Token(l) = t /\ x[1] = Message(l)
                                                      /\ x = <<x[1], x[2]>>
                                                      /\ x[2] \in 1 .. network[Message(l)].sends
          BY DEF Made
        <4> QED
          BY <1>4, <2>1, <2>3, <3>1, <4>1, <4>2
      <3>3. <<Message(k), q>> \notin Made(t)
        BY <1>5, <2>1, <3>1 DEF Made
      <3> QED
        BY <3>2, <3>3
    <2>6. \A u \in Tokens : IsFiniteSet(Made(u)) /\ Cardinality(Made(u)) = tokens[u].arrived
      BY <1>1 DEF IInv, MadeOnTokens
    <2>7. IsFiniteSet(Made(t)') /\ Cardinality(Made(t)') = n
      <3>1. /\ IsFiniteSet(Made(t) \cup {<<Message(k), q>>})
            /\ Cardinality(Made(t) \cup {<<Message(k), q>>}) = Cardinality(Made(t)) + 1
        BY <2>5, <2>6, FS_AddElement
      <3> QED
        BY <1>0, <2>5, <2>6, <3>1
    <2>8. \A u \in Tokens : IsFiniteSet(Made(u)') /\ Cardinality(Made(u)') = tokens'[u].arrived
      BY <1>7, <2>4, <2>6, <2>7
    <2> QED
      BY <2>8 DEF MadeOnTokens
  <1>15. UNCHANGED Matching!avars
    BY <1>1, <1>6, NothingSeen
  <1> QED
    BY <1>8, <1>9, <1>10, <1>12, <1>13, <1>14, <1>15 DEF IInv

\* The n-th token of a token key has left: the n-th receive is posted.
LEMMA TokenRecvKeeps ==
    ASSUME IInv, NEW t \in Tokens, RendezvousRecv(t)
    PROVE  IInv' /\ UNCHANGED Matching!avars
  <1>0. PICK n, k : n = tokens[t].left + 1 /\ k = posted[t].recvs[n]
    OBVIOUS
  <1>1. /\ rendezvous_enabled /\ n <= Len(posted[t].recvs)
        /\ tokens' = [tokens EXCEPT ![t].left = n]
        /\ network' = [network EXCEPT ![Message(k)].recvs = @ + 1]
        /\ rendezvous_enabled' = rendezvous_enabled /\ posted' = posted
    BY <1>0 DEF RendezvousRecv, sim_recv
  <1>2. TypeOK
    BY DEF IInv
  <1>3. /\ tokens[t].left \in Nat /\ tokens[t].arrived \in Nat
        /\ Len(posted[t].recvs) \in Nat /\ n \in Nat /\ n \in 1 .. Len(posted[t].recvs)
    BY <1>0, <1>1, <1>2, Types
  <1>4. k \in Key /\ Token(k) = t
    BY <1>0, <1>3 DEF IInv, OwnLists, KeysOf
  <1>5. Message(k) \in Messages /\ \A j \in Key : Message(j) = Message(k) => j = k
    BY <1>4, KeyFacts
  <1>6. ASSUME NEW m \in Messages
        PROVE  /\ network'[m].recvs = IF m = Message(k) THEN network[m].recvs + 1
                                      ELSE network[m].recvs
               /\ network'[m].sends = network[m].sends
               /\ network'[m].sent = network[m].sent
               /\ network'[m].received = network[m].received
    BY <1>1, <1>2, <1>5 DEF TypeOK
  <1>7. ASSUME NEW u \in Tokens
        PROVE  /\ tokens'[u].left = IF u = t THEN n ELSE tokens[u].left
               /\ tokens'[u].arrived = tokens[u].arrived
    BY <1>1, <1>2 DEF TypeOK
  <1>8. TypeOK'
    <2>1. network' \in [Messages ->
                           [sends : Nat, recvs : Nat, sent : Nat, received : Nat]]
      BY <1>1, <1>2, <1>5, CountersTyped DEF TypeOK
    <2>2. tokens' \in [Tokens -> [left : Nat, arrived : Nat]]
      BY <1>1, <1>2, <1>3 DEF TypeOK
    <2> QED
      BY <1>1, <1>2, <2>1, <2>2 DEF TypeOK
  <1>9. OwnLists'
    BY <1>1 DEF IInv, OwnLists, KeysOf, Token, Tokens, Tag, COLLECTIVE, NATIVE, RENDEZVOUS
  <1>10. TokenOrder'
    <2>1. ASSUME NEW u \in Tokens
          PROVE  /\ tokens'[u].arrived <= tokens'[u].left
                 /\ tokens'[u].left <= Len(posted'[u].recvs)
                 /\ tokens'[u].arrived <= Len(posted'[u].sends)
      <3>1. /\ tokens[u].arrived <= tokens[u].left
            /\ tokens[u].left <= Len(posted[u].recvs)
            /\ tokens[u].arrived <= Len(posted[u].sends)
            /\ tokens[u].arrived \in Nat /\ tokens[u].left \in Nat
        BY <1>2, Types DEF IInv, TokenOrder
      <3> QED
        BY <1>0, <1>1, <1>7, <3>1
    <2> QED
      BY <2>1 DEF TokenOrder
  <1>11. ASSUME NEW j \in Key
         PROVE  network'[Message(j)].recvs
                  = Cardinality(Among(posted'[Token(j)].recvs, RecvsReleased(Token(j))', j))
    <2>1. PICK u \in Tokens : u = Token(j)
      BY KeyFacts
    <2>2. /\ network[Message(j)].recvs
               = Cardinality(Among(posted[u].recvs, RecvsReleased(u), j))
          /\ Message(j) \in Messages
      BY <2>1, KeyFacts DEF IInv, CallsReleased
    <2>3. /\ RecvsReleased(u) = tokens[u].left
          /\ RecvsReleased(u)' = IF u = t THEN n ELSE tokens[u].left
      BY <1>1, <1>7 DEF RecvsReleased
    <2>4. CASE u # t
      <3>1. network'[Message(j)].recvs = network[Message(j)].recvs
        BY <1>4, <1>5, <1>6, <2>1, <2>2, <2>4
      <3> QED
        BY <1>1, <2>1, <2>2, <2>3, <2>4, <3>1
    <2>5. CASE u = t
      <3>1. PICK list, a : a = tokens[t].left /\ list = posted[t].recvs
        OBVIOUS
      <3>2. /\ j = k => Cardinality(Among(list, n, j)) = Cardinality(Among(list, a, j)) + 1
            /\ j # k => Among(list, n, j) = Among(list, a, j)
        <4>1. a \in Nat /\ n = a + 1 /\ list[n] = k
          BY <1>0, <1>3, <3>1
        <4> QED
          BY ONLY <4>1, AmongNext, Zenon
      <3>3. network'[Message(j)].recvs
              = IF j = k THEN network[Message(j)].recvs + 1 ELSE network[Message(j)].recvs
        BY <1>5, <1>6, <2>2
      <3> QED
        BY <1>1, <2>1, <2>2, <2>3, <2>5, <3>1, <3>2, <3>3
    <2> QED
      BY <2>4, <2>5
  <1>12. CallsReleased'
    <2>1. ASSUME NEW j \in Key
          PROVE  /\ network'[Message(j)].sends
                      = Cardinality(Among(posted'[Token(j)].sends, SendsReleased(Token(j))', j))
                 /\ Count(posted'[Token(j)].recvs, j) <= MaxPosts
                 /\ Count(posted'[Token(j)].sends, j) <= MaxPosts
      <3>1. PICK u \in Tokens : u = Token(j)
        BY KeyFacts
      <3>2. /\ network[Message(j)].sends
                 = Cardinality(Among(posted[u].sends, SendsReleased(u), j))
            /\ Count(posted[u].recvs, j) <= MaxPosts
            /\ Count(posted[u].sends, j) <= MaxPosts
            /\ Message(j) \in Messages
        BY <3>1, KeyFacts DEF IInv, CallsReleased
      <3>3. SendsReleased(u)' = SendsReleased(u)
        BY <1>1, <1>7 DEF SendsReleased
      <3>4. network'[Message(j)].sends = network[Message(j)].sends
        BY <1>6, <3>2
      <3> QED
        BY <1>1, <3>1, <3>2, <3>3, <3>4
    <2> QED
      BY <1>11, <2>1 DEF CallsReleased, Among, Count, RecvsReleased, SendsReleased
  <1>13. HandlersInOrder'
    <2>1. \A m \in Messages : /\ network[m].recvs \in Nat /\ network[m].received \in Nat
                              /\ network[m].sent <= network[m].sends
                              /\ network[m].received <= network[m].sent
                              /\ network[m].received <= network[m].recvs
      BY <1>2, Types DEF IInv, HandlersInOrder
    <2>2. ASSUME NEW m \in Messages
          PROVE  /\ network'[m].sent <= network'[m].sends
                 /\ network'[m].received <= network'[m].sent
                 /\ network'[m].received <= network'[m].recvs
      BY <1>6, <2>1
    <2> QED
      BY <2>2 DEF HandlersInOrder
  <1>14. MadeOnTokens'
    <2>1. \A u \in Tokens : Made(u)' = Made(u)
      BY <1>6, MadeFrame
    <2> QED
      BY <1>1, <1>7, <2>1 DEF IInv, MadeOnTokens
  <1>15. UNCHANGED Matching!avars
    BY <1>1, <1>6, NothingSeen
  <1> QED
    BY <1>8, <1>9, <1>10, <1>12, <1>13, <1>14, <1>15 DEF IInv

\* A step that gives nothing to the network keeps what is said of the lists, the
\* tokens and the calls.
LEMMA ListsFrame ==
    ASSUME IInv, UNCHANGED <<rendezvous_enabled, posted, tokens>>,
           \A m \in Messages : /\ network'[m].sends = network[m].sends
                               /\ network'[m].recvs = network[m].recvs
    PROVE  OwnLists' /\ TokenOrder' /\ CallsReleased' /\ MadeOnTokens'
  <1>1. OwnLists' /\ TokenOrder'
    BY DEF IInv, OwnLists, TokenOrder, KeysOf, Token, Tokens, Tag, COLLECTIVE, NATIVE,
           RENDEZVOUS
  <1>2. \A t : /\ SendsReleased(t)' = SendsReleased(t)
               /\ RecvsReleased(t)' = RecvsReleased(t)
    BY DEF SendsReleased, RecvsReleased
  <1>3. \A k \in Key : /\ network'[Message(k)].sends = network[Message(k)].sends
                       /\ network'[Message(k)].recvs = network[Message(k)].recvs
    BY KeyFacts
  <1>4. CallsReleased'
    BY <1>2, <1>3 DEF IInv, CallsReleased, Among, Count
  <1>5. \A t \in Tokens : Made(t)' = Made(t)
    BY MadeFrame
  <1> QED
    BY <1>1, <1>4, <1>5 DEF IInv, MadeOnTokens

\* The bounds that the handlers of one message keep.
LEMMA HandlerBounds ==
    ASSUME IInv, NEW k \in Key
    PROVE  LET m == Message(k) IN
           /\ network[m].sends <= Count(posted[Token(k)].sends, k)
           /\ network[m].recvs <= Count(posted[Token(k)].recvs, k)
           /\ Count(posted[Token(k)].sends, k) \in 0 .. MaxPosts
           /\ Count(posted[Token(k)].recvs, k) \in 0 .. MaxPosts
  <1>1. PICK t \in Tokens : t = Token(k)
    BY KeyFacts
  <1>2. PICK s, r, a, b : /\ s = posted[t].sends /\ r = posted[t].recvs
                          /\ a = SendsReleased(t) /\ b = RecvsReleased(t)
    OBVIOUS
  <1>3. /\ s \in Seq(Key) /\ r \in Seq(Key) /\ Len(s) \in Nat /\ Len(r) \in Nat
        /\ a \in Nat /\ b \in Nat /\ a <= Len(s) /\ b <= Len(r)
    BY <1>2, Types DEF IInv, TokenOrder, SendsReleased, RecvsReleased
  <1>4. /\ network[Message(k)].sends = Cardinality(Among(s, a, k))
        /\ network[Message(k)].recvs = Cardinality(Among(r, b, k))
        /\ Count(s, k) <= MaxPosts /\ Count(r, k) <= MaxPosts
    BY <1>1, <1>2 DEF IInv, CallsReleased
  <1>5. /\ Count(s, k) = Cardinality(Among(s, Len(s), k))
        /\ Count(r, k) = Cardinality(Among(r, Len(r), k))
    BY DEF Count, Among
  <1>6. /\ Cardinality(Among(s, a, k)) <= Cardinality(Among(s, Len(s), k))
        /\ Cardinality(Among(r, b, k)) <= Cardinality(Among(r, Len(r), k))
    BY <1>3, AmongAtMost
  <1>7. Cardinality(Among(s, Len(s), k)) \in Nat /\ Cardinality(Among(r, Len(r), k)) \in Nat
    BY <1>3, AmongFinite
  <1>8. MaxPosts \in Nat
    BY KeyAssumption
  <1> QED
    BY <1>1, <1>2, <1>4, <1>5, <1>6, <1>7, <1>8

\* The network runs the handler of a send: the next one of its key.
LEMMA SendHandlerKeeps ==
    ASSUME IInv, NEW m \in Messages, send_handler(m)
    PROVE  IInv' /\ \E c \in Matching!ChunkOf : Matching!CompleteSend(c)
  <1>0. PICK k \in Key : m = Message(k)
    BY DEF Messages
  <1>1. /\ network[m].sent < network[m].sends
        /\ network' = [network EXCEPT ![m].sent = @ + 1]
        /\ UNCHANGED <<rendezvous_enabled, posted, tokens>>
    BY DEF send_handler
  <1>2. TypeOK
    BY DEF IInv
  <1>3. ASSUME NEW p \in Messages
        PROVE  /\ network'[p].sends = network[p].sends
               /\ network'[p].recvs = network[p].recvs
               /\ network'[p].sent = IF p = m THEN network[p].sent + 1 ELSE network[p].sent
               /\ network'[p].received = network[p].received
    BY <1>1, <1>2 DEF TypeOK
  <1>4. TypeOK'
    <2>1. network' \in [Messages ->
                           [sends : Nat, recvs : Nat, sent : Nat, received : Nat]]
      BY <1>1, <1>2, CountersTyped DEF TypeOK
    <2> QED
      BY <1>1, <1>2, <2>1 DEF TypeOK
  <1>5. OwnLists' /\ TokenOrder' /\ CallsReleased' /\ MadeOnTokens'
    BY <1>1, <1>3, ListsFrame
  <1>6. HandlersInOrder'
    <2>1. \A p \in Messages : /\ network[p].sends \in Nat /\ network[p].sent \in Nat
                              /\ network[p].received \in Nat
                              /\ network[p].sent <= network[p].sends
                              /\ network[p].received <= network[p].sent
                              /\ network[p].received <= network[p].recvs
      BY <1>2, Types DEF IInv, HandlersInOrder
    <2>2. ASSUME NEW p \in Messages
          PROVE  /\ network'[p].sent <= network'[p].sends
                 /\ network'[p].received <= network'[p].sent
                 /\ network'[p].received <= network'[p].recvs
      BY <1>1, <1>3, <2>1
    <2> QED
      BY <2>2 DEF HandlersInOrder
  <1>7. PICK n, c : n = network[m].sent /\ c = <<k, n>>
    OBVIOUS
  <1>8. /\ n \in Nat /\ n < Count(posted[Token(k)].sends, k) /\ n \in 0 .. MaxPosts - 1
    <2>1. /\ network[m].sends <= Count(posted[Token(k)].sends, k)
          /\ Count(posted[Token(k)].sends, k) \in 0 .. MaxPosts
      BY <1>0, HandlerBounds
    <2>2. network[m].sent \in Nat /\ network[m].sends \in Nat /\ MaxPosts \in Nat
      BY <1>2, Types, KeyAssumption
    <2> QED
      BY <1>1, <1>7, <2>1, <2>2
  <1>9. c \in Chunk /\ c[1] = k /\ c[2] = n /\ Matching!ChunkOf = Chunk
    BY <1>7, <1>8 DEF Chunk, Matching!ChunkOf
  <1>10. [d \in Chunk |-> IF d[2] < network'[Message(d[1])].sent THEN 1 ELSE 0]
           = [[d \in Chunk |-> IF d[2] < network[Message(d[1])].sent THEN 1 ELSE 0]
                 EXCEPT ![c] = 1]
    <2>1. ASSUME NEW d \in Chunk
          PROVE  (IF d[2] < network'[Message(d[1])].sent THEN 1 ELSE 0)
                   = IF d = c THEN 1
                     ELSE IF d[2] < network[Message(d[1])].sent THEN 1 ELSE 0
      <3>1. d[1] \in Key /\ d[2] \in Nat /\ d = <<d[1], d[2]>>
        BY DEF Chunk
      <3>2. Message(d[1]) \in Messages /\ (Message(d[1]) = m => d[1] = k)
        BY <1>0, <3>1, KeyFacts
      <3>3. CASE d[1] # k
        BY <1>3, <1>9, <3>2, <3>3
      <3>4. CASE d[1] = k
        <4>1. network'[Message(d[1])].sent = n + 1 /\ network[Message(d[1])].sent = n
          BY <1>0, <1>3, <1>7, <3>4
        <4>2. d = c <=> d[2] = n
          BY <1>7, <3>1, <3>4
        <4> QED
          BY <1>8, <3>1, <4>1, <4>2
      <3> QED
        BY <3>3, <3>4
    <2> QED
      BY <1>9, <2>1
  <1>11. [d \in Chunk |-> IF d[2] < network'[Message(d[1])].received THEN 1 ELSE 0]
           = [d \in Chunk |-> IF d[2] < network[Message(d[1])].received THEN 1 ELSE 0]
    <2>1. \A d \in Chunk : network'[Message(d[1])].received = network[Message(d[1])].received
      BY <1>3, KeyFacts DEF Chunk
    <2> QED
      BY <2>1
  <1>12. (IF c[2] < network[Message(c[1])].sent THEN 1 ELSE 0) = 0
    BY <1>0, <1>7, <1>8, <1>9
  <1>13. Matching!CompleteSend(c)
    BY <1>1, <1>8, <1>9, <1>10, <1>11, <1>12
    DEF Matching!CompleteSend, Matching!ChunkOf, Chunk, Count
  <1> QED
    BY <1>4, <1>5, <1>6, <1>9, <1>13 DEF IInv

\* The network runs the handler of a receive: the next one of its key, after the
\* sender's.
LEMMA RecvHandlerKeeps ==
    ASSUME IInv, NEW m \in Messages, recv_handler(m)
    PROVE  IInv' /\ \E c \in Matching!ChunkOf : Matching!CompleteRecv(c)
  <1>0. PICK k \in Key : m = Message(k)
    BY DEF Messages
  <1>1. /\ network[m].received < network[m].sent
        /\ network[m].received < network[m].recvs
        /\ network' = [network EXCEPT ![m].received = @ + 1]
        /\ UNCHANGED <<rendezvous_enabled, posted, tokens>>
    BY DEF recv_handler
  <1>2. TypeOK
    BY DEF IInv
  <1>3. ASSUME NEW p \in Messages
        PROVE  /\ network'[p].sends = network[p].sends
               /\ network'[p].recvs = network[p].recvs
               /\ network'[p].sent = network[p].sent
               /\ network'[p].received = IF p = m THEN network[p].received + 1
                                         ELSE network[p].received
    BY <1>1, <1>2 DEF TypeOK
  <1>4. TypeOK'
    <2>1. network' \in [Messages ->
                           [sends : Nat, recvs : Nat, sent : Nat, received : Nat]]
      BY <1>1, <1>2, CountersTyped DEF TypeOK
    <2> QED
      BY <1>1, <1>2, <2>1 DEF TypeOK
  <1>5. OwnLists' /\ TokenOrder' /\ CallsReleased' /\ MadeOnTokens'
    BY <1>1, <1>3, ListsFrame
  <1>6. HandlersInOrder'
    <2>1. \A p \in Messages : /\ network[p].recvs \in Nat /\ network[p].sent \in Nat
                              /\ network[p].received \in Nat
                              /\ network[p].sent <= network[p].sends
                              /\ network[p].received <= network[p].sent
                              /\ network[p].received <= network[p].recvs
      BY <1>2, Types DEF IInv, HandlersInOrder
    <2>2. ASSUME NEW p \in Messages
          PROVE  /\ network'[p].sent <= network'[p].sends
                 /\ network'[p].received <= network'[p].sent
                 /\ network'[p].received <= network'[p].recvs
      BY <1>1, <1>3, <2>1
    <2> QED
      BY <2>2 DEF HandlersInOrder
  <1>7. PICK n, c : n = network[m].received /\ c = <<k, n>>
    OBVIOUS
  <1>8. /\ n \in Nat /\ n < Count(posted[Token(k)].sends, k)
        /\ n < Count(posted[Token(k)].recvs, k) /\ n \in 0 .. MaxPosts - 1
        /\ n < network[m].sent
    <2>1. /\ network[m].sends <= Count(posted[Token(k)].sends, k)
          /\ network[m].recvs <= Count(posted[Token(k)].recvs, k)
          /\ Count(posted[Token(k)].sends, k) \in 0 .. MaxPosts
          /\ Count(posted[Token(k)].recvs, k) \in 0 .. MaxPosts
      BY <1>0, HandlerBounds
    <2>2. /\ network[m].sent \in Nat /\ network[m].sends \in Nat
          /\ network[m].received \in Nat /\ network[m].recvs \in Nat
          /\ MaxPosts \in Nat /\ network[m].sent <= network[m].sends
      BY <1>2, Types, KeyAssumption DEF IInv, HandlersInOrder
    <2> QED
      BY <1>1, <1>7, <2>1, <2>2
  <1>9. c \in Chunk /\ c[1] = k /\ c[2] = n /\ Matching!ChunkOf = Chunk
    BY <1>7, <1>8 DEF Chunk, Matching!ChunkOf
  <1>10. [d \in Chunk |-> IF d[2] < network'[Message(d[1])].received THEN 1 ELSE 0]
           = [[d \in Chunk |-> IF d[2] < network[Message(d[1])].received THEN 1 ELSE 0]
                 EXCEPT ![c] = 1]
    <2>1. ASSUME NEW d \in Chunk
          PROVE  (IF d[2] < network'[Message(d[1])].received THEN 1 ELSE 0)
                   = IF d = c THEN 1
                     ELSE IF d[2] < network[Message(d[1])].received THEN 1 ELSE 0
      <3>1. d[1] \in Key /\ d[2] \in Nat /\ d = <<d[1], d[2]>>
        BY DEF Chunk
      <3>2. Message(d[1]) \in Messages /\ (Message(d[1]) = m => d[1] = k)
        BY <1>0, <3>1, KeyFacts
      <3>3. CASE d[1] # k
        BY <1>3, <1>9, <3>2, <3>3
      <3>4. CASE d[1] = k
        <4>1. /\ network'[Message(d[1])].received = n + 1
              /\ network[Message(d[1])].received = n
          BY <1>0, <1>3, <1>7, <3>4
        <4>2. d = c <=> d[2] = n
          BY <1>7, <3>1, <3>4
        <4> QED
          BY <1>8, <3>1, <4>1, <4>2
      <3> QED
        BY <3>3, <3>4
    <2> QED
      BY <1>9, <2>1
  <1>11. [d \in Chunk |-> IF d[2] < network'[Message(d[1])].sent THEN 1 ELSE 0]
           = [d \in Chunk |-> IF d[2] < network[Message(d[1])].sent THEN 1 ELSE 0]
    <2>1. \A d \in Chunk : network'[Message(d[1])].sent = network[Message(d[1])].sent
      BY <1>3, KeyFacts DEF Chunk
    <2> QED
      BY <2>1
  <1>12. /\ (IF c[2] < network[Message(c[1])].received THEN 1 ELSE 0) = 0
         /\ (IF c[2] < network[Message(c[1])].sent THEN 1 ELSE 0) = 1
    BY <1>0, <1>7, <1>8, <1>9
  <1>13. Matching!CompleteRecv(c)
    BY <1>1, <1>8, <1>9, <1>10, <1>11, <1>12
    DEF Matching!CompleteRecv, Matching!ChunkOf, Chunk, Count
  <1> QED
    BY <1>4, <1>5, <1>6, <1>9, <1>13 DEF IInv

-----------------------------------------------------------------------------
\* Nothing is posted and the network has nothing at the start.
LEMMA InitIInv == Init => IInv /\ Matching!AInit
  <1> SUFFICES ASSUME Init PROVE IInv /\ Matching!AInit
    OBVIOUS
  <1>1. /\ rendezvous_enabled \in BOOLEAN
        /\ posted \in [Tokens -> [sends : Seq(Key), recvs : Seq(Key)]]
        /\ tokens \in [Tokens -> [left : Nat, arrived : Nat]]
        /\ network \in [Messages ->
                           [sends : Nat, recvs : Nat, sent : Nat, received : Nat]]
    BY DEF Init
  <1>2. \A t \in Tokens : /\ posted[t].sends = <<>> /\ posted[t].recvs = <<>>
                          /\ tokens[t].left = 0 /\ tokens[t].arrived = 0
    BY DEF Init
  <1>3. \A m \in Messages : /\ network[m].sends = 0 /\ network[m].recvs = 0
                            /\ network[m].sent = 0 /\ network[m].received = 0
    BY DEF Init
  <1>4. \A list, k : Among(list, 0, k) = {}
    BY DEF Among
  <1>5. IsFiniteSet({}) /\ Cardinality({}) = 0
    BY FS_EmptySet
  <1>6. \A k \in Key : /\ Token(k) \in Tokens /\ Message(k) \in Messages
                       /\ network[Message(k)].sends = 0 /\ network[Message(k)].recvs = 0
                       /\ network[Message(k)].sent = 0 /\ network[Message(k)].received = 0
    BY <1>3, KeyFacts
  <1>7. \A k : Count(<<>>, k) = 0
    <2>1. \A k : {i \in 1 .. Len(<<>>) : <<>>[i] = k} = {}
      OBVIOUS
    <2> QED
      BY <1>5, <2>1 DEF Count
  <1>8. TypeOK /\ OwnLists /\ TokenOrder /\ HandlersInOrder
    <2>1. TypeOK
      BY <1>1 DEF TypeOK
    <2>2. OwnLists /\ TokenOrder
      BY <1>2 DEF OwnLists, TokenOrder
    <2>3. HandlersInOrder
      BY <1>3 DEF HandlersInOrder
    <2> QED
      BY <2>1, <2>2, <2>3
  <1>9. CallsReleased
    <2>1. ASSUME NEW k \in Key
          PROVE  LET t == Token(k) IN
                 /\ network[Message(k)].sends
                      = Cardinality(Among(posted[t].sends, SendsReleased(t), k))
                 /\ network[Message(k)].recvs
                      = Cardinality(Among(posted[t].recvs, RecvsReleased(t), k))
                 /\ Count(posted[t].sends, k) <= MaxPosts
                 /\ Count(posted[t].recvs, k) <= MaxPosts
      <3>1. PICK t \in Tokens : t = Token(k)
        BY <1>6
      <3>2. SendsReleased(t) = 0 /\ RecvsReleased(t) = 0
        BY <1>2 DEF SendsReleased, RecvsReleased
      <3>3. 0 <= MaxPosts
        BY KeyAssumption
      <3>4. Count(posted[t].sends, k) = 0 /\ Count(posted[t].recvs, k) = 0
        BY <1>2, <1>7
      <3> QED
        BY <1>4, <1>5, <1>6, <3>1, <3>2, <3>3, <3>4
    <2> QED
      BY <2>1 DEF CallsReleased
  <1>10. MadeOnTokens
    <2>1. ASSUME NEW t \in Tokens PROVE Made(t) = {}
      BY <1>6 DEF Made
    <2> QED
      BY <1>2, <1>5, <2>1 DEF MadeOnTokens
  <1>11. Matching!AInit
    <2>1. \A k \in Key : /\ Count(posted[Token(k)].sends, k) = 0
                         /\ Count(posted[Token(k)].recvs, k) = 0
      BY <1>2, <1>6, <1>7
    <2>2. \A c \in Chunk : /\ network[Message(c[1])].sent = 0
                           /\ network[Message(c[1])].received = 0 /\ c[2] \in Nat
      BY <1>6 DEF Chunk
    <2>3. \A c \in Chunk : /\ (IF c[2] < network[Message(c[1])].sent THEN 1 ELSE 0) = 0
                           /\ (IF c[2] < network[Message(c[1])].received THEN 1 ELSE 0) = 0
      BY <2>2
    <2>4. Matching!ChunkOf = Chunk
      BY DEF Chunk, Matching!ChunkOf
    <2> QED
      BY <2>1, <2>3, <2>4 DEF Matching!AInit
  <1> QED
    BY <1>8, <1>9, <1>10, <1>11 DEF IInv

\* Every step keeps the invariant and is one that MessageMatching allows.
LEMMA NextIInv ==
    ASSUME IInv, [Next]_vars
    PROVE  IInv' /\ [Matching!ANext]_(Matching!avars)
  <1>1. ASSUME NEW k \in Key, front_end_sim_send(k)
        PROVE  IInv' /\ Matching!ANext
    BY <1>1, SendKeeps DEF Matching!ANext
  <1>2. ASSUME NEW k \in Key, front_end_sim_recv(k)
        PROVE  IInv' /\ Matching!ANext
    BY <1>2, RecvKeeps DEF Matching!ANext
  <1>3. ASSUME NEW t \in Tokens, RendezvousRecv(t)
        PROVE  IInv' /\ UNCHANGED Matching!avars
    BY <1>3, TokenRecvKeeps
  <1>4. ASSUME NEW t \in Tokens, RendezvousSend(t)
        PROVE  IInv' /\ UNCHANGED Matching!avars
    BY <1>4, TokenSendKeeps
  <1>5. ASSUME NEW m \in Messages, send_handler(m)
        PROVE  IInv' /\ Matching!ANext
    BY <1>5, SendHandlerKeeps DEF Matching!ANext
  <1>6. ASSUME NEW m \in Messages, recv_handler(m)
        PROVE  IInv' /\ Matching!ANext
    BY <1>6, RecvHandlerKeeps DEF Matching!ANext
  <1>7. ASSUME UNCHANGED vars
        PROVE  IInv' /\ UNCHANGED Matching!avars
    <2>1. UNCHANGED <<rendezvous_enabled, posted, tokens>> /\ network' = network
      BY <1>7 DEF vars
    <2>2. OwnLists' /\ TokenOrder' /\ CallsReleased' /\ MadeOnTokens'
      BY <2>1, ListsFrame
    <2>3. TypeOK' /\ HandlersInOrder'
      BY <2>1 DEF IInv, TypeOK, HandlersInOrder, Messages, Tokens, Message, Token, Tag,
                  COLLECTIVE, NATIVE, RENDEZVOUS
    <2>4. UNCHANGED Matching!avars
      BY <2>1, NothingSeen
    <2> QED
      BY <2>2, <2>3, <2>4 DEF IInv
  <1> QED
    BY <1>1, <1>2, <1>3, <1>4, <1>5, <1>6, <1>7 DEF Next, Deliver

\* In every state the calls that the network has are those that the tokens have
\* released, key by key.
THEOREM Invariance == Spec => []IInv
  <1>1. Init => IInv
    BY InitIInv
  <1>2. IInv /\ [Next]_vars => IInv'
    BY NextIInv
  <1> QED
    BY <1>1, <1>2, PTL DEF Spec

\* With rendezvous, front_end_sim_send never puts a message on the network that no
\* receive has asked for, for any number of keys that share a token.
THEOREM NothingUnsolicited == Spec => []NoUnsolicited
  <1>1. IInv => NoUnsolicited
    <2> SUFFICES ASSUME IInv, rendezvous_enabled, NEW t \in Tokens
                 PROVE  Cardinality(Made(t)) <= Len(posted[t].recvs)
      BY DEF NoUnsolicited
    <2>1. /\ tokens[t].arrived <= tokens[t].left /\ tokens[t].left <= Len(posted[t].recvs)
          /\ Cardinality(Made(t)) = tokens[t].arrived
      BY DEF IInv, TokenOrder, MadeOnTokens
    <2>2. /\ tokens[t].arrived \in Nat /\ tokens[t].left \in Nat
          /\ Len(posted[t].recvs) \in Nat
      BY Types DEF IInv
    <2> QED
      BY <2>1, <2>2
  <1> QED
    BY <1>1, Invariance, PTL

\* The front end, with or without rendezvous, keeps the promise of the network:
\* the n-th send of a key meets the n-th receive, and every handler runs once.
THEOREM Refinement == Spec => ImplementsMatching
  <1>1. Init => Matching!AInit
    BY InitIInv
  <1>2. IInv /\ [Next]_vars => [Matching!ANext]_(Matching!avars)
    BY NextIInv
  <1> QED
    BY <1>1, <1>2, Invariance, PTL DEF Spec, ImplementsMatching, Matching!ASpec
=============================================================================
