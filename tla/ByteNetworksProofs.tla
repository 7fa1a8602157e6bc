-------------------------- MODULE ByteNetworksProofs ---------------------------
(***************************************************************************)
(* Theorems about ByteNetworks, for every set of ranks, keys and sizes and *)
(* every bound on the calls: the two front ends that count bytes find the  *)
(* record of every send, end without losing anything, and answer receives  *)
(* as ByteMatching says.                                                   *)
(***************************************************************************)
EXTENDS ByteNetworks, FiniteSetTheorems, TLAPS

H == INSTANCE ByteHashes

Bytes == Nat \ {0}

-----------------------------------------------------------------------------
(***************************************************************************)
(* The maps of the receiving side.  For one key, Ledger relates what they  *)
(* hold to the receives posted and the bytes arrived: a receive waits for  *)
(* exactly what its bytes lack, or what arrived too early stands by.       *)
(***************************************************************************)
HashType ==
    [ waiting : [Key -> Int], handler : [Key -> Nat], standby : [Key -> Int],
      answered : [Key -> SUBSET Nat] ]

Increasing(list) == \A i, j \in 1 .. Len(list) : i < j => list[i] < list[j]

Total(list) == IF list = <<>> THEN 0 ELSE list[Len(list)]

Covered(list, bytes) == {n \in 1 .. Len(list) : list[n] <= bytes}

Ledger(w, hd, s, ans, list, bytes) ==
    /\ w = H!Absent \/ w \in Bytes
    /\ s = H!Absent \/ s \in Bytes
    /\ list \in Seq(Bytes) /\ Increasing(list)
    /\ bytes \in Nat
    /\ w # H!Absent =>
          /\ s = H!Absent /\ list # <<>> /\ hd = Len(list)
          /\ bytes + w = Total(list)
          /\ \A i \in 1 .. Len(list) - 1 : list[i] <= bytes
    /\ w = H!Absent =>
          bytes = Total(list) + (IF s = H!Absent THEN 0 ELSE s)
    /\ ans = Covered(list, bytes)

LedgerOf(h, p, a, k) ==
    Ledger(h.waiting[k], h.handler[k], h.standby[k], h.answered[k], p[k], a[k])

\* All receives of a list are covered by its total.
LEMMA TotalCovers ==
    ASSUME NEW list \in Seq(Bytes), Increasing(list)
    PROVE  /\ Total(list) \in Nat
           /\ \A i \in 1 .. Len(list) : list[i] <= Total(list) /\ list[i] \in Bytes
  <1>1. Len(list) \in Nat
    OBVIOUS
  <1>2. CASE list = <<>>
    BY <1>2 DEF Total
  <1>3. CASE list # <<>>
    <2>1. Len(list) \in 1 .. Len(list) /\ \A i \in 1 .. Len(list) : list[i] \in Bytes
      BY <1>1, <1>3
    <2> QED
      BY <1>1, <1>3, <2>1 DEF Total, Increasing, Bytes
  <1> QED
    BY <1>2, <1>3

\* One more receive at the end of a list.
LEMMA Appended ==
    ASSUME NEW list \in Seq(Bytes), Increasing(list), NEW size \in Bytes
    PROVE  LET more == Append(list, Total(list) + size) IN
           /\ more \in Seq(Bytes) /\ Increasing(more) /\ more # <<>>
           /\ Len(more) = Len(list) + 1 /\ Len(list) \in Nat
           /\ Total(more) = Total(list) + size
           /\ more[Len(list) + 1] = Total(list) + size
           /\ \A i \in 1 .. Len(list) : more[i] = list[i]
  <1> DEFINE v == Total(list) + size
  <1>1. /\ v \in Bytes /\ Total(list) \in Nat
        /\ \A i \in 1 .. Len(list) : list[i] < v /\ list[i] \in Bytes
    BY TotalCovers DEF Bytes
  <1> HIDE DEF v
  <1> DEFINE more == Append(list, v)
  <1>2. /\ more \in Seq(Bytes) /\ more # <<>>
        /\ Len(more) = Len(list) + 1 /\ Len(list) \in Nat
        /\ more[Len(list) + 1] = v
        /\ \A i \in 1 .. Len(list) : more[i] = list[i]
    BY <1>1
  <1>3. Increasing(more)
    <2> SUFFICES ASSUME NEW i \in 1 .. Len(more), NEW j \in 1 .. Len(more), i < j
                 PROVE  more[i] < more[j]
      BY DEF Increasing
    <2>1. i \in 1 .. Len(list)
      BY <1>2
    <2>2. CASE j = Len(list) + 1
      BY <1>1, <1>2, <2>1, <2>2
    <2>3. CASE j # Len(list) + 1
      <3>1. j \in 1 .. Len(list)
        BY <1>2, <2>3
      <3> QED
        BY <1>2, <2>1, <3>1 DEF Increasing
    <2> QED
      BY <2>2, <2>3
  <1>4. Total(more) = v
    BY <1>2 DEF Total
  <1> QED
    BY <1>2, <1>3, <1>4 DEF v

\* sim_recv keeps the ledger of its key, when no other receive of it waits.
LEMMA ExpectKeepsLedger ==
    ASSUME NEW h \in HashType, NEW k \in Key, NEW p, NEW a,
           LedgerOf(h, p, a, k), h.waiting[k] = H!Absent, NEW size \in Bytes
    PROVE  LET g == H!ExpectData(h, k, size, Len(p[k]) + 1)
               more == Append(p[k], Total(p[k]) + size)
           IN  Ledger(g.waiting[k], g.handler[k], g.standby[k], g.answered[k],
                      more, a[k])
  <1> DEFINE list == p[k]
             bytes == a[k]
             s == h.standby[k]
             n == Len(list) + 1
             g == H!ExpectData(h, k, size, n)
             more == Append(list, Total(list) + size)
  <1>1. /\ list \in Seq(Bytes) /\ Increasing(list) /\ bytes \in Nat
        /\ s = H!Absent \/ s \in Bytes
        /\ bytes = Total(list) + (IF s = H!Absent THEN 0 ELSE s)
        /\ h.answered[k] = Covered(list, bytes)
    BY DEF LedgerOf, Ledger
  <1>2. /\ Total(list) \in Nat /\ Len(list) \in Nat
        /\ \A i \in 1 .. Len(list) : list[i] <= Total(list) /\ list[i] \in Bytes
    BY <1>1, TotalCovers
  <1>3. /\ more \in Seq(Bytes) /\ Increasing(more) /\ more # <<>>
        /\ Len(more) = n /\ Total(more) = Total(list) + size
        /\ more[n] = Total(list) + size
        /\ \A i \in 1 .. Len(list) : more[i] = list[i]
    BY <1>1, Appended
  <1>4. Total(list) <= bytes /\ \A i \in 1 .. Len(list) : more[i] <= bytes
    <2> HIDE DEF more, list, bytes, s
    <2>1. Total(list) <= bytes
      BY <1>1, <1>2 DEF Bytes, H!Absent
    <2>2. ASSUME NEW i \in 1 .. Len(list)
          PROVE  more[i] <= bytes
      <3>1. more[i] = list[i] /\ list[i] <= Total(list) /\ list[i] \in Nat
        BY <1>2, <1>3 DEF Bytes
      <3> QED
        BY <1>1, <1>2, <2>1, <3>1
    <2> QED
      BY <2>1, <2>2
  <1>5. CASE s # H!Absent /\ s >= size
    <2>1. /\ g.waiting[k] = H!Absent
          /\ g.standby[k] = IF s = size THEN H!Absent ELSE s - size
          /\ g.answered[k] = Covered(list, bytes) \cup {n}
      BY <1>1, <1>5 DEF H!ExpectData, HashType
    <2>2. Covered(more, bytes) = Covered(list, bytes) \cup {n}
      <3> HIDE DEF more, list, bytes, s
      <3>1. more[n] <= bytes
        BY <1>1, <1>2, <1>3, <1>5 DEF Bytes
      <3>2. Covered(more, bytes) = 1 .. n /\ Covered(list, bytes) = 1 .. Len(list)
        BY <1>2, <1>3, <1>4, <3>1 DEF Covered
      <3> QED
        BY <1>2, <3>2
    <2>3. /\ g.standby[k] = H!Absent \/ g.standby[k] \in Bytes
          /\ bytes = Total(more) + (IF g.standby[k] = H!Absent THEN 0 ELSE g.standby[k])
      <3> HIDE DEF g, more, list, bytes, s, n
      <3> QED
        BY <1>1, <1>2, <1>3, <1>5, <2>1 DEF Bytes, H!Absent
    <2> HIDE DEF g, more, list, bytes, s, n
    <2>4. Ledger(g.waiting[k], g.handler[k], g.standby[k], g.answered[k], more, bytes)
      BY <1>1, <1>3, <2>1, <2>2, <2>3 DEF Ledger
    <2> QED
      BY <2>4 DEF g, more, list, bytes, n
  <1>6. CASE s = H!Absent \/ s < size
    <2>1. /\ g.waiting[k] = size - (IF s = H!Absent THEN 0 ELSE s)
          /\ g.standby[k] = H!Absent
          /\ g.handler[k] = n
          /\ g.answered[k] = Covered(list, bytes)
      BY <1>1, <1>6 DEF H!ExpectData, HashType, Bytes, H!Absent
    <2>2. g.waiting[k] \in Bytes /\ bytes + g.waiting[k] = Total(more)
      <3> HIDE DEF g, more, list, bytes, s, n
      <3> QED
        BY <1>1, <1>2, <1>3, <1>6, <2>1 DEF Bytes, H!Absent
    <2>3. Covered(more, bytes) = Covered(list, bytes)
      BY <1>1, <1>2, <1>3, <1>4, <2>2 DEF Covered, Bytes
    <2>4. \A i \in 1 .. Len(more) - 1 : more[i] <= bytes
      BY <1>2, <1>3, <1>4
    <2>5. g.waiting[k] # H!Absent
      BY <2>2 DEF Bytes, H!Absent
    <2> HIDE DEF g, more, list, bytes, s, n
    <2>6. Ledger(g.waiting[k], g.handler[k], g.standby[k], g.answered[k], more, bytes)
      BY <1>1, <1>3, <2>1, <2>2, <2>3, <2>4, <2>5 DEF Ledger
    <2> QED
      BY <2>6 DEF g, more, list, bytes, n
  <1> QED
    BY <1>1, <1>5, <1>6 DEF Bytes

\* Bytes that arrive keep the ledger of their key.
LEMMA ReceiveKeepsLedger ==
    ASSUME NEW h \in HashType, NEW k \in Key, NEW p, NEW a,
           LedgerOf(h, p, a, k), NEW size \in Bytes
    PROVE  LET g == H!ReceiveData(h, k, size) IN
           /\ Ledger(g.waiting[k], g.handler[k], g.standby[k], g.answered[k],
                     p[k], a[k] + size)
           /\ h.waiting[k] = H!Absent => g.waiting[k] = H!Absent
  <1> DEFINE list == p[k]
             bytes == a[k]
             more == bytes + size
             w == h.waiting[k]
             s == h.standby[k]
             hd == h.handler[k]
             g == H!ReceiveData(h, k, size)
  <1>1. Ledger(w, hd, s, h.answered[k], list, bytes)
    BY DEF LedgerOf
  <1>2. CASE w = H!Absent
    <2>1. /\ g.waiting[k] = H!Absent
          /\ g.standby[k] = IF s = H!Absent THEN size ELSE s + size
          /\ g.answered[k] = h.answered[k] /\ g.handler[k] = hd
      BY <1>2 DEF H!ReceiveData, HashType, Bytes, H!Absent
    <2> HIDE DEF list, bytes, w, s, hd, g
    <2>2. /\ list \in Seq(Bytes) /\ Increasing(list) /\ bytes \in Nat
          /\ s = H!Absent \/ s \in Bytes
          /\ bytes = Total(list) + (IF s = H!Absent THEN 0 ELSE s)
          /\ h.answered[k] = Covered(list, bytes)
      BY <1>1, <1>2 DEF Ledger
    <2>3. Total(list) \in Nat /\ \A i \in 1 .. Len(list) :
                                     list[i] <= Total(list) /\ list[i] \in Nat
      BY <2>2, TotalCovers DEF Bytes
    <2>4. Total(list) <= bytes /\ bytes <= more /\ more \in Nat
      BY <2>2, <2>3 DEF Bytes, H!Absent
    <2>5. Covered(list, bytes) = 1 .. Len(list) /\ Covered(list, more) = 1 .. Len(list)
      <3> HIDE DEF more
      <3> QED
        BY <2>2, <2>3, <2>4 DEF Covered
    <2>6. g.standby[k] \in Bytes /\ g.standby[k] # H!Absent /\ more = Total(list) + g.standby[k]
      BY <2>1, <2>2, <2>3 DEF Bytes, H!Absent
    <2> HIDE DEF more
    <2>7. Ledger(g.waiting[k], g.handler[k], g.standby[k], g.answered[k], list, more)
      BY <2>1, <2>2, <2>4, <2>5, <2>6 DEF Ledger
    <2> QED
      BY <2>1, <2>7 DEF g, list, more, bytes
  <1>3. CASE w # H!Absent
    <2>1. /\ list \in Seq(Bytes) /\ Increasing(list) /\ list # <<>> /\ bytes \in Nat
          /\ w \in Bytes /\ s = H!Absent /\ hd = Len(list)
          /\ bytes + w = Total(list)
          /\ \A i \in 1 .. Len(list) - 1 : list[i] <= bytes
          /\ h.answered[k] = Covered(list, bytes)
      BY <1>1, <1>3 DEF Ledger
    <2>2. /\ Len(list) \in Nat /\ Len(list) >= 1
          /\ list[Len(list)] = Total(list) /\ Total(list) \in Nat
          /\ \A i \in 1 .. Len(list) : list[i] <= Total(list) /\ list[i] \in Nat
      BY <2>1, TotalCovers DEF Total, Bytes
    <2>3. Covered(list, bytes) = 1 .. Len(list) - 1
      <3> HIDE DEF list, bytes, w
      <3>1. \A i \in 1 .. Len(list) : list[i] <= bytes <=> i # Len(list)
        BY <2>1, <2>2 DEF Bytes
      <3> QED
        BY <2>2, <3>1 DEF Covered
    <2>4. CASE size >= w
      <3>1. /\ g.waiting[k] = H!Absent
            /\ g.standby[k] = IF size = w THEN H!Absent ELSE size - w
            /\ g.answered[k] = h.answered[k] \cup {hd} /\ g.handler[k] = hd
        BY <1>3, <2>1, <2>4 DEF H!ReceiveData, H!Answer, HashType, Bytes
      <3> HIDE DEF list, bytes, w, s, hd, g
      <3>2. /\ more \in Nat /\ Total(list) <= more
            /\ g.standby[k] = H!Absent \/ g.standby[k] \in Bytes
            /\ more = Total(list) + (IF g.standby[k] = H!Absent THEN 0 ELSE g.standby[k])
        <4>1. /\ w \in Bytes /\ bytes \in Nat /\ bytes + w = Total(list)
              /\ Total(list) \in Nat
          BY <2>1, <2>2
        <4> QED
          BY <2>4, <3>1, <4>1 DEF Bytes, H!Absent
      <3> HIDE DEF more
      <3>3. \A i \in 1 .. Len(list) : list[i] <= more
        BY <2>2, <3>2
      <3>4. Covered(list, more) = 1 .. Len(list)
        BY <3>3 DEF Covered
      <3>5. g.answered[k] = 1 .. Len(list)
        BY <2>1, <2>2, <2>3, <3>1
      <3>6. Ledger(g.waiting[k], g.handler[k], g.standby[k], g.answered[k], list, more)
        BY <2>1, <3>1, <3>2, <3>4, <3>5 DEF Ledger
      <3> QED
        BY <1>3, <3>6 DEF g, list, more, bytes, w
    <2>5. CASE size < w
      <3>1. /\ g.waiting[k] = w - size
            /\ g.standby[k] = s /\ g.answered[k] = h.answered[k] /\ g.handler[k] = hd
        BY <1>3, <2>1, <2>5 DEF H!ReceiveData, HashType, Bytes
      <3> HIDE DEF list, bytes, w, s, hd, g
      <3>2. /\ more \in Nat /\ more + g.waiting[k] = Total(list) /\ bytes <= more
            /\ g.waiting[k] \in Bytes /\ g.waiting[k] # H!Absent
        <4>1. /\ w \in Bytes /\ bytes \in Nat /\ bytes + w = Total(list)
              /\ Total(list) \in Nat
          BY <2>1, <2>2
        <4> QED
          BY <2>5, <3>1, <4>1 DEF Bytes, H!Absent
      <3>3. more < Total(list)
        BY <2>2, <3>2 DEF Bytes
      <3> HIDE DEF more
      <3>4. \A i \in 1 .. Len(list) : list[i] <= more <=> i # Len(list)
        <4> SUFFICES ASSUME NEW i \in 1 .. Len(list)
                     PROVE  list[i] <= more <=> i # Len(list)
          OBVIOUS
        <4>1. CASE i = Len(list)
          BY <2>2, <3>2, <3>3, <4>1
        <4>2. CASE i # Len(list)
          <5>1. i \in 1 .. Len(list) - 1 /\ list[i] \in Nat
            BY <2>2, <4>2
          <5> QED
            BY <2>1, <3>2, <4>2, <5>1
        <4> QED
          BY <4>1, <4>2
      <3>5. Covered(list, more) = 1 .. Len(list) - 1
        BY <2>2, <3>4 DEF Covered
      <3>6. \A i \in 1 .. Len(list) - 1 : list[i] <= more
        BY <2>2, <3>4
      <3>7. Ledger(g.waiting[k], g.handler[k], g.standby[k], g.answered[k], list, more)
        BY <2>1, <2>3, <3>1, <3>2, <3>5, <3>6 DEF Ledger
      <3> QED
        BY <1>3, <3>7 DEF g, list, more, bytes, w
    <2> QED
      BY <2>1, <2>4, <2>5 DEF Bytes
  <1> QED
    BY <1>2, <1>3

(***************************************************************************)
(* Both operations keep the types of the maps and touch only their key.    *)
(***************************************************************************)
OnlyKey(g, h, k) ==
    /\ g \in HashType
    /\ \A j \in Key \ {k} :
           /\ g.waiting[j] = h.waiting[j] /\ g.handler[j] = h.handler[j]
           /\ g.standby[j] = h.standby[j] /\ g.answered[j] = h.answered[j]

\* A receive keeps the types and changes the maps at its key only.
LEMMA ExpectOnlyKey ==
    ASSUME NEW h \in HashType, NEW k \in Key, NEW size \in Bytes, NEW n \in Nat
    PROVE  OnlyKey(H!ExpectData(h, k, size, n), h, k)
  <1> DEFINE g == H!ExpectData(h, k, size, n)
  <1>1. size \in Int /\ H!Absent \in Int /\ h.standby[k] \in Int /\ h.waiting[k] \in Int
    BY DEF Bytes, H!Absent, HashType
  <1>2. CASE h.standby[k] # H!Absent /\ h.standby[k] >= size
    <2> DEFINE s == IF h.standby[k] = size THEN H!Absent ELSE h.standby[k] - size
    <2>1. g = [h EXCEPT !.standby[k] = s, !.answered[k] = @ \cup {n}] /\ s \in Int
      BY <1>1, <1>2 DEF H!ExpectData, HashType
    <2> HIDE DEF s, g
    <2>2. OnlyKey(g, h, k)
      BY <2>1 DEF OnlyKey, HashType
    <2> QED
      BY <2>2 DEF g
  <1>3. CASE h.standby[k] # H!Absent /\ ~(h.standby[k] >= size)
    <2> DEFINE w == size - h.standby[k]
    <2>1. /\ g = [h EXCEPT !.standby[k] = H!Absent, !.waiting[k] = w, !.handler[k] = n]
          /\ w \in Int
      BY <1>1, <1>3 DEF H!ExpectData, HashType
    <2> HIDE DEF w, g
    <2>2. OnlyKey(g, h, k)
      BY <1>1, <2>1 DEF OnlyKey, HashType
    <2> QED
      BY <2>2 DEF g
  <1>4. CASE h.standby[k] = H!Absent
    <2> DEFINE w == IF h.waiting[k] = H!Absent THEN size ELSE h.waiting[k] + size
    <2>1. g = [h EXCEPT !.waiting[k] = w, !.handler[k] = n] /\ w \in Int
      BY <1>1, <1>4 DEF H!ExpectData, HashType
    <2> HIDE DEF w, g
    <2>2. OnlyKey(g, h, k)
      BY <1>1, <2>1 DEF OnlyKey, HashType
    <2> QED
      BY <2>2 DEF g
  <1> QED
    BY <1>2, <1>3, <1>4

\* The arrival of a flow keeps the types and changes the maps at its key only.
LEMMA ReceiveOnlyKey ==
    ASSUME NEW h \in HashType, NEW k \in Key, NEW size \in Bytes
    PROVE  OnlyKey(H!ReceiveData(h, k, size), h, k)
  <1> DEFINE g == H!ReceiveData(h, k, size)
  <1>1. /\ size \in Int /\ size # H!Absent
        /\ H!Absent \in Int /\ h.standby[k] \in Int /\ h.waiting[k] \in Int
        /\ h.handler[k] \in Nat
    BY DEF Bytes, H!Absent, HashType
  <1>2. CASE h.waiting[k] = H!Absent
    <2> DEFINE s == IF h.standby[k] = H!Absent THEN size ELSE h.standby[k] + size
    <2>1. g = [h EXCEPT !.standby[k] = s] /\ s \in Int
      BY <1>1, <1>2 DEF H!ReceiveData, HashType
    <2> HIDE DEF s, g
    <2>2. OnlyKey(g, h, k)
      BY <2>1 DEF OnlyKey, HashType
    <2> QED
      BY <2>2 DEF g
  <1>3. CASE h.waiting[k] # H!Absent /\ h.waiting[k] = size
    <2>1. g = [h EXCEPT !.waiting[k] = H!Absent, !.answered[k] = @ \cup {h.handler[k]}]
      BY <1>1, <1>3 DEF H!ReceiveData, H!Answer, HashType
    <2> HIDE DEF g
    <2>2. OnlyKey(g, h, k)
      BY <1>1, <2>1 DEF OnlyKey, HashType
    <2> QED
      BY <2>2 DEF g
  <1>4. CASE h.waiting[k] # H!Absent /\ size > h.waiting[k]
    <2> DEFINE s == size - h.waiting[k]
               f == [h EXCEPT !.standby[k] = s]
    <2>1. g = H!Answer(f, k) /\ s \in Int
      BY <1>1, <1>4 DEF H!ReceiveData
    <2> HIDE DEF s, g
    <2>2. OnlyKey(f, h, k) /\ f.handler[k] = h.handler[k]
      BY <2>1 DEF OnlyKey, HashType
    <2> HIDE DEF f
    <2>3. g = [f EXCEPT !.waiting[k] = H!Absent, !.answered[k] = @ \cup {h.handler[k]}]
      BY <2>1, <2>2 DEF H!Answer
    <2>4. OnlyKey(g, f, k)
      BY <1>1, <2>2, <2>3 DEF OnlyKey, HashType
    <2>5. OnlyKey(g, h, k)
      BY <2>2, <2>4 DEF OnlyKey
    <2> QED
      BY <2>5 DEF g
  <1>5. CASE h.waiting[k] # H!Absent /\ size < h.waiting[k]
    <2> DEFINE w == h.waiting[k] - size
    <2>1. g = [h EXCEPT !.waiting[k] = w] /\ w \in Int
      BY <1>1, <1>5 DEF H!ReceiveData, HashType
    <2> HIDE DEF w, g
    <2>2. OnlyKey(g, h, k)
      BY <2>1 DEF OnlyKey, HashType
    <2> QED
      BY <2>2 DEF g
  <1> QED
    BY <1>1, <1>2, <1>3, <1>4, <1>5

-----------------------------------------------------------------------------
(***************************************************************************)
(* The books of all keys, and what sim_recv and an arrival do to them.     *)
(***************************************************************************)
Books(h, p, a) ==
    /\ h \in HashType
    /\ p \in [Key -> Seq(Bytes)]
    /\ a \in [Key -> Nat]
    /\ \A k \in Key : LedgerOf(h, p, a, k)

\* A receive that is posted is answered at once when what arrived covers it.
LEMMA PostKeepsBooks ==
    ASSUME NEW h, NEW p, NEW a, Books(h, p, a), NEW k \in Key, NEW size \in Bytes,
           h.waiting[k] = H!Absent,
           NEW g, g = H!ExpectData(h, k, size, Len(p[k]) + 1),
           NEW q, q = [p EXCEPT ![k] = Append(p[k], Total(p[k]) + size)]
    PROVE  Books(g, q, a)
  <1>1. /\ h \in HashType /\ p \in [Key -> Seq(Bytes)] /\ a \in [Key -> Nat]
        /\ \A j \in Key : LedgerOf(h, p, a, j)
    BY DEF Books
  <1>2. Len(p[k]) + 1 \in Nat
    BY <1>1
  <1>3. OnlyKey(g, h, k)
    BY <1>1, <1>2, ExpectOnlyKey
  <1>4. Append(p[k], Total(p[k]) + size) \in Seq(Bytes)
    BY <1>1, Appended DEF LedgerOf, Ledger
  <1>5. q \in [Key -> Seq(Bytes)] /\ q[k] = Append(p[k], Total(p[k]) + size)
    BY <1>1, <1>4
  <1>6. LedgerOf(g, q, a, k)
    <2>1. Ledger(g.waiting[k], g.handler[k], g.standby[k], g.answered[k],
                 Append(p[k], Total(p[k]) + size), a[k])
      BY <1>1, ExpectKeepsLedger
    <2> QED
      BY <1>5, <2>1 DEF LedgerOf
  <1>7. ASSUME NEW j \in Key, j # k
        PROVE  LedgerOf(g, q, a, j)
    <2>1. q[j] = p[j]
      BY <1>1, <1>7
    <2> QED
      BY <1>1, <1>3, <1>7, <2>1 DEF LedgerOf, OnlyKey
  <1> QED
    BY <1>1, <1>3, <1>5, <1>6, <1>7 DEF Books, OnlyKey

\* No receive waits that did not wait before.
NoNewWait(g, h) ==
    \A j \in Key : h.waiting[j] = H!Absent => g.waiting[j] = H!Absent

\* An arrival posts nothing.
LEMMA ArrivalAddsNoWait ==
    ASSUME NEW h \in HashType, NEW k \in Key, NEW size \in Bytes
    PROVE  NoNewWait(H!ReceiveData(h, k, size), h)
  <1> DEFINE g == H!ReceiveData(h, k, size)
  <1>1. OnlyKey(g, h, k)
    BY ReceiveOnlyKey
  <1>2. ASSUME h.waiting[k] = H!Absent PROVE g.waiting[k] = H!Absent
    BY <1>2 DEF H!ReceiveData, HashType, Bytes, H!Absent
  <1> QED
    BY <1>1, <1>2 DEF NoNewWait, OnlyKey

\* Bytes that arrive answer the receives that they complete.
LEMMA ArriveKeepsBooks ==
    ASSUME NEW h, NEW p, NEW a, Books(h, p, a), NEW k \in Key, NEW size \in Bytes,
           NEW g, g = H!ReceiveData(h, k, size),
           NEW total, total = a[k] + size, NEW b, b = [a EXCEPT ![k] = total]
    PROVE  /\ Books(g, p, b)
           /\ g.answered = [h.answered EXCEPT ![k] = Covered(p[k], total)]
  <1>1. /\ h \in HashType /\ p \in [Key -> Seq(Bytes)] /\ a \in [Key -> Nat]
        /\ \A j \in Key : LedgerOf(h, p, a, j)
    BY DEF Books
  <1>2. OnlyKey(g, h, k)
    BY <1>1, ReceiveOnlyKey
  <1>3. b \in [Key -> Nat] /\ b[k] = a[k] + size /\ \A j \in Key \ {k} : b[j] = a[j]
    BY <1>1 DEF Bytes
  <1>4. /\ Ledger(g.waiting[k], g.handler[k], g.standby[k], g.answered[k],
                  p[k], a[k] + size)
        /\ h.waiting[k] = H!Absent => g.waiting[k] = H!Absent
    BY <1>1, ReceiveKeepsLedger
  <1>5. LedgerOf(g, p, b, k)
    BY <1>3, <1>4 DEF LedgerOf
  <1>6. ASSUME NEW j \in Key, j # k
        PROVE  LedgerOf(g, p, b, j)
    BY <1>1, <1>2, <1>3, <1>6 DEF LedgerOf, OnlyKey
  <1>7. g.answered[k] = Covered(p[k], a[k] + size)
    BY <1>4 DEF Ledger
  <1>8. g.answered = [h.answered EXCEPT ![k] = Covered(p[k], a[k] + size)]
    BY <1>1, <1>2, <1>7 DEF OnlyKey, HashType
  <1>9. Books(g, p, b)
    BY <1>1, <1>2, <1>3, <1>5, <1>6 DEF Books, OnlyKey
  <1> QED
    BY <1>8, <1>9

\* The same of a step that posts a receive.
LEMMA PostStep ==
    ASSUME Books(hashes, posted, arrived), NEW k \in Key, NEW size \in Bytes,
           hashes.waiting[k] = H!Absent,
           hashes' = H!ExpectData(hashes, k, size, Len(posted[k]) + 1),
           posted' = [posted EXCEPT ![k] = Append(@, Total(posted[k]) + size)],
           arrived' = arrived
    PROVE  /\ Books(hashes, posted, arrived)'
           /\ hashes'.answered
                = [hashes.answered EXCEPT ![k] = Covered(posted'[k], arrived[k])]
           /\ \A j \in Key \ {k} : hashes'.waiting[j] = hashes.waiting[j]
  <1>1. PICK g, q : g = hashes' /\ q = posted'
    OBVIOUS
  <1>2. /\ g = H!ExpectData(hashes, k, size, Len(posted[k]) + 1)
        /\ q = [posted EXCEPT ![k] = Append(posted[k], Total(posted[k]) + size)]
    BY <1>1
  <1>3. Books(g, q, arrived)
    BY <1>2, PostKeepsBooks, Zenon
  <1>4. hashes \in HashType /\ OnlyKey(g, hashes, k)
    <2>1. hashes \in HashType /\ Len(posted[k]) + 1 \in Nat
      BY DEF Books
    <2> QED
      BY <1>2, <2>1, ExpectOnlyKey
  <1>5. /\ g.answered = [hashes.answered EXCEPT ![k] = Covered(q[k], arrived[k])]
        /\ \A j \in Key \ {k} : g.waiting[j] = hashes.waiting[j]
    <2>1. g.answered[k] = Covered(q[k], arrived[k])
      BY <1>3 DEF Books, LedgerOf, Ledger
    <2> QED
      BY <1>4, <2>1 DEF OnlyKey, HashType
  <1>6. Books(hashes', posted', arrived)
    BY <1>1, <1>3
  <1>7. Books(hashes, posted, arrived)'
    BY <1>6 DEF Books, HashType, LedgerOf, Ledger, Total, Covered, Increasing, Bytes,
                H!Absent
  <1> QED
    BY <1>1, <1>5, <1>7

\* The same of a step in which bytes arrive.
LEMMA ArrivalStep ==
    ASSUME Books(hashes, posted, arrived), NEW k \in Key, NEW size \in Bytes,
           hashes' = H!ReceiveData(hashes, k, size),
           arrived' = [arrived EXCEPT ![k] = arrived[k] + size],
           posted' = posted
    PROVE  /\ Books(hashes, posted, arrived)'
           /\ hashes'.answered
                = [hashes.answered EXCEPT ![k] = Covered(posted[k], arrived[k] + size)]
           /\ NoNewWait(hashes', hashes)
  <1>1. PICK g, b, total : g = hashes' /\ b = arrived' /\ total = arrived[k] + size
    OBVIOUS
  <1>2. /\ g = H!ReceiveData(hashes, k, size)
        /\ total = arrived[k] + size /\ b = [arrived EXCEPT ![k] = total]
    BY <1>1
  <1>3. Books(g, posted, b)
    BY <1>2, ArriveKeepsBooks, Zenon
  <1>4. g.answered = [hashes.answered EXCEPT ![k] = Covered(posted[k], total)]
    BY <1>2, ArriveKeepsBooks
  <1>5. NoNewWait(g, hashes)
    BY <1>2, ArrivalAddsNoWait DEF Books
  <1>6. Books(hashes', posted, arrived')
    BY <1>1, <1>3
  <1>7. Books(hashes, posted, arrived)'
    BY <1>6 DEF Books, HashType, LedgerOf, Ledger, Total, Covered, Increasing, Bytes,
                H!Absent
  <1> QED
    BY <1>1, <1>4, <1>5, <1>7

\* A step that leaves the receiving side alone keeps the books.
LEMMA BooksFrame ==
    ASSUME Books(hashes, posted, arrived), UNCHANGED <<hashes, posted, arrived>>
    PROVE  Books(hashes, posted, arrived)'
  BY DEF Books, HashType, LedgerOf, Ledger, Total, Covered, Increasing, Bytes, H!Absent

\* Nothing is posted and nothing has arrived at the start.
LEMMA EmptyBooks ==
    ASSUME NEW p, p = [k \in Key |-> <<>>], NEW a, a = [k \in Key |-> 0]
    PROVE  Books(H!NoHashes, p, a)
  <1>1. /\ p \in [Key -> Seq(Bytes)] /\ a \in [Key -> Nat]
        /\ \A k \in Key : p[k] = <<>> /\ a[k] = 0
    OBVIOUS
  <1>2. H!NoHashes \in HashType
    BY DEF H!NoHashes, H!Absent, HashType
  <1>3. ASSUME NEW k \in Key
        PROVE  Ledger(H!Absent, 0, H!Absent, {}, <<>>, 0)
    BY DEF Ledger, Total, Covered, Increasing
  <1>4. ASSUME NEW k \in Key
        PROVE  LedgerOf(H!NoHashes, p, a, k)
    BY <1>1, <1>3 DEF LedgerOf, H!NoHashes
  <1> QED
    BY <1>1, <1>2, <1>4 DEF Books

\* When the handlers of all receives of a key have run, none of it waits.
LEMMA AnsweredNoWait ==
    ASSUME NEW k \in Key, Books(hashes, posted, arrived),
           1 .. Len(posted[k]) \subseteq hashes.answered[k]
    PROVE  hashes.waiting[k] = H!Absent
  <1> DEFINE list == posted[k]
             bytes == arrived[k]
             w == hashes.waiting[k]
  <1>1. /\ w = H!Absent \/ w \in Bytes
        /\ list \in Seq(Bytes) /\ bytes \in Nat
        /\ w # H!Absent => list # <<>> /\ bytes + w = Total(list)
        /\ 1 .. Len(list) \subseteq Covered(list, bytes)
    BY DEF Books, LedgerOf, Ledger
  <1> HIDE DEF list, bytes, w
  <1> SUFFICES ASSUME w # H!Absent PROVE FALSE
    BY DEF w
  <1>2. Len(list) \in Nat /\ Len(list) \in 1 .. Len(list)
    BY <1>1
  <1>3. list[Len(list)] \in Bytes /\ list[Len(list)] <= bytes
    BY <1>1, <1>2 DEF Covered
  <1>4. bytes + w = list[Len(list)] /\ w \in Bytes
    BY <1>1 DEF Total
  <1> QED
    BY <1>1, <1>3, <1>4 DEF Bytes

(***************************************************************************)
(* The bytes of a set of flows, one cell for each, so that the number of   *)
(* bytes under way is the cardinality of a set.                            *)
(***************************************************************************)
Cells(F) == UNION {{f} \X (1 .. f.size) : f \in F}

\* A flow that starts adds as many bytes under way as it has.
LEMMA CellsAdded ==
    ASSUME NEW F, IsFiniteSet(Cells(F)), NEW f, f \notin F, f.size \in Nat
    PROVE  /\ IsFiniteSet(Cells(F \cup {f}))
           /\ Cardinality(Cells(F \cup {f})) = Cardinality(Cells(F)) + f.size
           /\ Cardinality(Cells(F)) \in Nat
  <1> DEFINE C == {f} \X (1 .. f.size)
  <1>1. IsFiniteSet({f}) /\ Cardinality({f}) = 1
    BY FS_Singleton
  <1>2. IsFiniteSet(1 .. f.size) /\ Cardinality(1 .. f.size) = f.size
    BY FS_Interval
  <1>3. IsFiniteSet(C) /\ Cardinality(C) = f.size
    <2>1. /\ IsFiniteSet(C)
          /\ Cardinality(C) = Cardinality({f}) * Cardinality(1 .. f.size)
      BY <1>1, <1>2, FS_Product, Zenon
    <2>2. 1 * f.size = f.size
      OBVIOUS
    <2> QED
      BY <1>1, <1>2, <2>1, <2>2
  <1>4. Cells(F \cup {f}) = Cells(F) \cup C
    BY DEF Cells
  <1>5. Cells(F) \cap C = {}
    BY DEF Cells
  <1> HIDE DEF C
  <1>6. Cardinality(Cells(F)) \in Nat /\ Cardinality(Cells(F) \cap C) = 0
    BY <1>5, FS_CardinalityType, FS_EmptySet
  <1>7. /\ IsFiniteSet(Cells(F) \cup C)
        /\ Cardinality(Cells(F) \cup C)
             = Cardinality(Cells(F)) + Cardinality(C) - Cardinality(Cells(F) \cap C)
    BY <1>3, FS_Union
  <1>8. Cardinality(Cells(F) \cup C) = Cardinality(Cells(F)) + f.size
    BY <1>3, <1>6, <1>7
  <1> QED
    BY <1>4, <1>6, <1>7, <1>8

\* A flow that arrives takes as many bytes away as it has.
LEMMA CellsRemoved ==
    ASSUME NEW F, IsFiniteSet(Cells(F)), NEW f \in F, f.size \in Nat
    PROVE  /\ IsFiniteSet(Cells(F \ {f}))
           /\ Cardinality(Cells(F)) = Cardinality(Cells(F \ {f})) + f.size
           /\ Cardinality(Cells(F \ {f})) \in Nat
  <1>1. Cells(F \ {f}) \subseteq Cells(F)
    BY DEF Cells
  <1>2. IsFiniteSet(Cells(F \ {f}))
    BY <1>1, FS_Subset
  <1>3. (F \ {f}) \cup {f} = F
    OBVIOUS
  <1> QED
    BY <1>2, <1>3, CellsAdded

-----------------------------------------------------------------------------
(***************************************************************************)
(* ns-3.  A flow has a port of its own below the next port of its pair, so *)
(* its tag and its MsgEvent are found; the calls of a key that are not     *)
(* answered are its open flows; and what was sent has arrived, is in the   *)
(* frame of qp_finish, or is in an open flow.                              *)
(***************************************************************************)
Ns3Flow == [src : Rank, dst : Rank, port : Nat, size : Size]

Ns3Type ==
    /\ status \in {"running", "done"}
    /\ portNumber \in [Rank \X Rank -> Nat]
    /\ sent \in [Key -> [calls : Nat, answers : Nat, bytes : Nat]]
    /\ finished \subseteq Rank
    /\ frame \in {Ns3!Idle} \cup [at : {"send_handler"}, key : Key, size : Size]
    /\ flows \subseteq Ns3Flow

OwnPorts ==
    /\ \A f \in flows :
          /\ f.port < portNumber[<<f.src, f.dst>>]
          /\ Ns3!Known(f) /\ Ns3!FlowKey(f) \in Key
    /\ \A f, g \in flows :
          f.port = g.port /\ f.src = g.src /\ f.dst = g.dst => f = g

OpenFlows(k) == {f \in flows : Ns3!FlowKey(f) = k}

BytesInFrame(k) == IF frame # Ns3!Idle /\ frame.key = k THEN frame.size ELSE 0

Ns3Accounts ==
    \A k \in Key :
        /\ IsFiniteSet(OpenFlows(k))
        /\ Cardinality(OpenFlows(k)) = sent[k].calls - sent[k].answers
        /\ IsFiniteSet(Cells(OpenFlows(k)))
        /\ arrived[k] + BytesInFrame(k) + Cardinality(Cells(OpenFlows(k)))
             = sent[k].bytes

\* What a finished rank has left: no receive, and only sends nobody waits for.
Ns3Quiet(r) ==
    /\ \A f \in flows : f.src = r => Ns3!FlowKey(f) \in FireAndForget
    /\ \A k \in Key : k.dst = r => hashes.waiting[k] = H!Absent

Ns3Ends ==
    /\ num_unfinished_ranks_ = Cardinality(Rank \ finished)
    /\ status = "done" => finished = Rank
    /\ \A r \in finished : Ns3Quiet(r)

Ns3Inv ==
    /\ Ns3Type
    /\ OwnPorts
    /\ Ns3Accounts
    /\ Ns3Ends
    /\ Books(hashes, posted, arrived)

(***************************************************************************)
(* htsim.  Flow ids are never used again, so a flow keeps its tag and its  *)
(* MsgEvent; the calls of a key that are not answered are its open flows;  *)
(* and what was sent has arrived, is in the frame of flow_finish_send, or  *)
(* is in a flow whose notifying callback is to come.                       *)
(***************************************************************************)
HtsimFlow == [src : Rank, dst : Rank, size : Size, id : Htsim!FlowId, sunk : BOOLEAN]

HtsimType ==
    /\ recv_flow_finish \in BOOLEAN /\ stopped \in BOOLEAN
    /\ flow_id \in 0 .. HtsimMaxSends
    /\ flow_id_to_tag \in [Htsim!FlowId -> Nat]
    /\ sent \in [Key -> [calls : Nat, answers : Nat, bytes : Nat]]
    /\ finished \subseteq Rank
    /\ frame \in {Htsim!Idle} \cup [at : {"send_handler"}, key : Key, size : Size]
    /\ flows \subseteq HtsimFlow

OwnIds ==
    /\ \A f \in flows : /\ f.id <= flow_id
                        /\ Htsim!FlowKey(f) \in Key /\ Htsim!Found(f)
    /\ \A f, g \in flows : f.id = g.id => f = g

ToNotify(k) ==
    {f \in flows : Htsim!FlowKey(f) = k /\ (recv_flow_finish => ~f.sunk)}

BytesHeld(k) ==
    IF frame # Htsim!Idle /\ ~recv_flow_finish /\ frame.key = k THEN frame.size ELSE 0

HtsimAccounts ==
    \A k \in Key :
        /\ IsFiniteSet(Cells(ToNotify(k)))
        /\ arrived[k] + BytesHeld(k) + Cardinality(Cells(ToNotify(k))) = sent[k].bytes

Unfinished(k) == {f \in flows : Htsim!FlowKey(f) = k}

HtsimCalls ==
    \A k \in Key : /\ IsFiniteSet(Unfinished(k))
                   /\ Cardinality(Unfinished(k)) = sent[k].calls - sent[k].answers

HtsimQuiet(r) ==
    /\ \A f \in flows : f.src = r => Htsim!FlowKey(f) \in FireAndForget
    /\ \A k \in Key : k.dst = r => hashes.waiting[k] = H!Absent

HtsimEnds ==
    /\ num_unfinished_ranks_ = Cardinality(Rank \ finished)
    /\ stopped => finished = Rank
    /\ \A r \in finished : HtsimQuiet(r)

HtsimInv ==
    /\ HtsimType
    /\ OwnIds
    /\ HtsimAccounts
    /\ HtsimCalls
    /\ HtsimEnds
    /\ Books(hashes, posted, arrived)

IInv ==
    /\ kind \in {"ns3", "htsim"}
    /\ kind = "ns3" => Ns3Inv
    /\ kind = "htsim" => HtsimInv

-----------------------------------------------------------------------------
\* What the assumptions on the constants say, once for both front ends.
LEMMA ConstantFacts ==
    /\ Size \subseteq Bytes
    /\ IsFiniteSet(Rank)
    /\ \A k \in Key : /\ k.tag \in Nat /\ k.src \in Rank /\ k.dst \in Rank
                      /\ k = [tag |-> k.tag, src |-> k.src, dst |-> k.dst]
  <1>1. Size \subseteq Bytes /\ IsFiniteSet(Rank)
    BY NetworkAssumption DEF Ns3!BoundAssumption, Bytes
  <1>2. Key \subseteq [tag : Nat, src : Rank, dst : Rank]
    BY NetworkAssumption DEF Ns3!KeyAssumption
  <1> QED
    BY <1>1, <1>2

\* The operators of ByteHashes and ByteMatching are the same everywhere.
LEMMA SameHashes ==
    /\ \A list : Matching!Total(list) = Total(list)
    /\ \A list, bytes : Matching!Covered(list, bytes) = Covered(list, bytes)
    /\ Ns3!Absent = H!Absent /\ Htsim!Absent = H!Absent
    /\ Ns3!NoHashes = H!NoHashes /\ Htsim!NoHashes = H!NoHashes
    /\ \A h, k, size, n :
          /\ Ns3!ExpectData(h, k, size, n) = H!ExpectData(h, k, size, n)
          /\ Htsim!ExpectData(h, k, size, n) = H!ExpectData(h, k, size, n)
          /\ Ns3!ReceiveData(h, k, size) = H!ReceiveData(h, k, size)
          /\ Htsim!ReceiveData(h, k, size) = H!ReceiveData(h, k, size)
  BY DEF Ns3!Absent, H!Absent, Htsim!Absent, Ns3!NoHashes, H!NoHashes,
         Htsim!NoHashes, Ns3!ExpectData, H!ExpectData, Htsim!ExpectData,
         Ns3!ReceiveData, H!ReceiveData, Htsim!ReceiveData, Ns3!Answer, H!Answer,
         Htsim!Answer, Matching!Total, Matching!Covered, Total, Covered

\* A rank that finishes is counted once; the count is 0 only when all have.
LEMMA RankCounted ==
    ASSUME NEW done, done \subseteq Rank, NEW r \in Rank, NEW left,
           left = Cardinality(Rank \ done) - (IF r \in done THEN 0 ELSE 1)
    PROVE  /\ left = Cardinality(Rank \ (done \cup {r}))
           /\ left = 0 => done \cup {r} = Rank
  <1>1. IsFiniteSet(Rank \ done)
    BY ConstantFacts, FS_Difference
  <1>2. Rank \ (done \cup {r}) = (Rank \ done) \ {r}
    OBVIOUS
  <1>3. IsFiniteSet((Rank \ done) \ {r}) /\ Cardinality(Rank \ done) \in Nat
    BY <1>1, FS_RemoveElement, FS_CardinalityType
  <1>4. Cardinality((Rank \ done) \ {r}) = left
    <2>1. Cardinality((Rank \ done) \ {r})
            = IF r \in Rank \ done THEN Cardinality(Rank \ done) - 1
              ELSE Cardinality(Rank \ done)
      BY <1>1, FS_RemoveElement
    <2> QED
      BY <1>3, <2>1
  <1>5. left = 0 => (Rank \ done) \ {r} = {}
    BY <1>3, <1>4, FS_EmptySet
  <1> QED
    BY <1>2, <1>4, <1>5

\* What a finished rank has left depends on its flows and the waiting map.
LEMMA Ns3QuietFrame ==
    ASSUME NEW r, Ns3Quiet(r),
           \A f \in flows' : f.src = r => f \in flows /\ Ns3!FlowKey(f)' = Ns3!FlowKey(f),
           \A k \in Key : k.dst = r /\ hashes.waiting[k] = H!Absent
                             => hashes'.waiting[k] = H!Absent
    PROVE  Ns3Quiet(r)'
  BY DEF Ns3Quiet, H!Absent

(***************************************************************************)
(* sim_send of ns-3: a new flow with the next port of its pair.            *)
(***************************************************************************)
LEMMA Ns3SendKeeps ==
    ASSUME Ns3Inv, kind = "ns3", kind' = kind, NEW k \in Key, NEW size \in Size,
           k.src \notin finished, Ns3!send_flow(k, size)
    PROVE  Ns3Inv' /\ Matching!Send(k, size)
  <1>0. PICK port : port = portNumber[<<k.src, k.dst>>]
    OBVIOUS
  <1> DEFINE e == [src |-> k.src, dst |-> k.dst, port |-> port, size |-> size]
  <1>1. /\ portNumber' = [portNumber EXCEPT ![<<k.src, k.dst>>] = @ + 1]
        /\ sender_src_port_map' =
              Ns3!Put(sender_src_port_map, <<port, k.src, k.dst>>, k.tag)
        /\ sim_send_waiting_hash' = Ns3!Put(sim_send_waiting_hash, <<k, port>>, size)
        /\ flows' = flows \cup {e}
        /\ sent' = [sent EXCEPT ![k].calls = @ + 1, ![k].bytes = @ + size]
        /\ hashes' = hashes /\ frame' = frame /\ posted' = posted /\ arrived' = arrived
        /\ finished' = finished /\ status' = status
        /\ num_unfinished_ranks_' = num_unfinished_ranks_
        /\ status = "running"
    BY <1>0 DEF Ns3!send_flow, Ns3!port_of, Ns3!tracker, Ns3!MayCall
  <1>2. /\ k.tag \in Nat /\ k.src \in Rank /\ k.dst \in Rank
        /\ k = [tag |-> k.tag, src |-> k.src, dst |-> k.dst]
        /\ size \in Bytes /\ size \in Nat
    BY ConstantFacts DEF Bytes
  <1>3. port \in Nat /\ e \in Ns3Flow
    BY <1>0, <1>2 DEF Ns3Inv, Ns3Type, Ns3Flow
  <1>4. /\ \A f \in flows : f \in Ns3Flow /\ f.port \in Nat
        /\ \A f \in flows : f.src = k.src /\ f.dst = k.dst => f.port < port
    BY <1>0 DEF Ns3Inv, Ns3Type, Ns3Flow, OwnPorts
  <1>5. e \notin flows
    BY <1>3, <1>4
  <1>6. \A f \in flows : f.port # port \/ f.src # k.src \/ f.dst # k.dst
    BY <1>3, <1>4
  <1>7. ASSUME NEW f \in flows
        PROVE  /\ Ns3!FlowKey(f)' = Ns3!FlowKey(f) /\ Ns3!Known(f)'
               /\ f.port < portNumber'[<<f.src, f.dst>>]
    <2>1. /\ <<f.port, f.src, f.dst>> \in DOMAIN sender_src_port_map
          /\ <<Ns3!FlowKey(f), f.port>> \in DOMAIN sim_send_waiting_hash
          /\ sim_send_waiting_hash[<<Ns3!FlowKey(f), f.port>>] = f.size
          /\ f.port < portNumber[<<f.src, f.dst>>]
      BY DEF Ns3Inv, OwnPorts, Ns3!Known
    <2>2. <<f.port, f.src, f.dst>> # <<port, k.src, k.dst>>
      BY <1>6
    <2>3. /\ <<f.port, f.src, f.dst>> \in DOMAIN sender_src_port_map'
          /\ sender_src_port_map'[<<f.port, f.src, f.dst>>]
               = sender_src_port_map[<<f.port, f.src, f.dst>>]
      BY <1>1, <2>1, <2>2 DEF Ns3!Put
    <2>4. Ns3!FlowKey(f)' = Ns3!FlowKey(f)
      BY <2>3 DEF Ns3!FlowKey
    <2>5. <<Ns3!FlowKey(f), f.port>> # <<k, port>>
      BY <1>2, <1>6 DEF Ns3!FlowKey
    <2>6. /\ <<Ns3!FlowKey(f), f.port>> \in DOMAIN sim_send_waiting_hash'
          /\ sim_send_waiting_hash'[<<Ns3!FlowKey(f), f.port>>] = f.size
      BY <1>1, <2>1, <2>5 DEF Ns3!Put
    <2>7. f.port < portNumber'[<<f.src, f.dst>>]
      <3>1. f.src \in Rank /\ f.dst \in Rank /\ f.port \in Nat
        BY <1>4 DEF Ns3Flow
      <3>2. /\ portNumber[<<f.src, f.dst>>] \in Nat
            /\ \/ portNumber'[<<f.src, f.dst>>] = portNumber[<<f.src, f.dst>>]
               \/ portNumber'[<<f.src, f.dst>>] = portNumber[<<f.src, f.dst>>] + 1
        BY <1>1, <1>2, <3>1 DEF Ns3Inv, Ns3Type
      <3> QED
        BY <2>1, <3>1, <3>2
    <2> QED
      BY <2>3, <2>4, <2>6, <2>7 DEF Ns3!Known
  <1>8. Ns3!FlowKey(e)' = k /\ Ns3!Known(e)' /\ e.port < portNumber'[<<e.src, e.dst>>]
    <2>1. /\ <<port, k.src, k.dst>> \in DOMAIN sender_src_port_map'
          /\ sender_src_port_map'[<<port, k.src, k.dst>>] = k.tag
          /\ <<k, port>> \in DOMAIN sim_send_waiting_hash'
          /\ sim_send_waiting_hash'[<<k, port>>] = size
      BY <1>1 DEF Ns3!Put
    <2>2. Ns3!FlowKey(e)' = k
      BY <1>2, <2>1 DEF Ns3!FlowKey
    <2>3. e.port < portNumber'[<<e.src, e.dst>>]
      BY <1>0, <1>1, <1>2, <1>3 DEF Ns3Inv, Ns3Type
    <2> QED
      BY <2>1, <2>2, <2>3 DEF Ns3!Known
  <1>9. e.port = port /\ e.src = k.src /\ e.dst = k.dst /\ e.size = size
    OBVIOUS
  <1> HIDE DEF e
  <1>10. Ns3Type'
    <2>1. portNumber' \in [Rank \X Rank -> Nat]
      BY <1>0, <1>1, <1>2, <1>3 DEF Ns3Inv, Ns3Type
    <2>2. sent' \in [Key -> [calls : Nat, answers : Nat, bytes : Nat]]
      <3>1. /\ sent \in [Key -> [calls : Nat, answers : Nat, bytes : Nat]]
            /\ sent[k] \in [calls : Nat, answers : Nat, bytes : Nat]
        BY DEF Ns3Inv, Ns3Type
      <3> DEFINE c == [sent EXCEPT ![k].calls = @ + 1]
      <3>2. c \in [Key -> [calls : Nat, answers : Nat, bytes : Nat]]
        BY <3>1
      <3>3. sent' = [c EXCEPT ![k].bytes = @ + size]
        BY <1>1
      <3> HIDE DEF c
      <3> QED
        BY <1>2, <3>2, <3>3
    <2> QED
      BY <1>1, <1>3, <2>1, <2>2 DEF Ns3Inv, Ns3Type, Ns3!Idle
  <1>11. OwnPorts'
    <2>1. \A f \in flows' : /\ f.port < portNumber'[<<f.src, f.dst>>]
                            /\ Ns3!Known(f)' /\ Ns3!FlowKey(f)' \in Key
      BY <1>1, <1>7, <1>8 DEF Ns3Inv, OwnPorts
    <2>2. \A f, g \in flows' :
              f.port = g.port /\ f.src = g.src /\ f.dst = g.dst => f = g
      BY <1>1, <1>6, <1>9 DEF Ns3Inv, OwnPorts
    <2> QED
      BY <2>1, <2>2 DEF OwnPorts
  <1>12. ASSUME NEW j \in Key
         PROVE  OpenFlows(j)' = IF j = k THEN OpenFlows(k) \cup {e} ELSE OpenFlows(j)
    BY <1>1, <1>5, <1>7, <1>8 DEF OpenFlows
  <1>13. ASSUME NEW j \in Key
         PROVE  /\ sent[j].calls \in Nat /\ sent[j].answers \in Nat /\ sent[j].bytes \in Nat
                /\ sent'[j].answers = sent[j].answers
                /\ sent'[j].calls = sent[j].calls + (IF j = k THEN 1 ELSE 0)
                /\ sent'[j].bytes = sent[j].bytes + (IF j = k THEN size ELSE 0)
    BY <1>1, <1>2 DEF Ns3Inv, Ns3Type
  <1>14. Ns3Accounts'
    <2> SUFFICES ASSUME NEW j \in Key
                 PROVE  /\ IsFiniteSet(OpenFlows(j)')
                        /\ Cardinality(OpenFlows(j)') = sent'[j].calls - sent'[j].answers
                        /\ IsFiniteSet(Cells(OpenFlows(j)'))
                        /\ arrived'[j] + BytesInFrame(j)' + Cardinality(Cells(OpenFlows(j)'))
                             = sent'[j].bytes
      BY DEF Ns3Accounts, Cells
    <2>1. /\ IsFiniteSet(OpenFlows(j))
          /\ Cardinality(OpenFlows(j)) = sent[j].calls - sent[j].answers
          /\ IsFiniteSet(Cells(OpenFlows(j)))
          /\ arrived[j] + BytesInFrame(j) + Cardinality(Cells(OpenFlows(j)))
               = sent[j].bytes
      BY DEF Ns3Inv, Ns3Accounts
    <2>2. arrived'[j] = arrived[j] /\ BytesInFrame(j)' = BytesInFrame(j)
      BY <1>1 DEF BytesInFrame, Ns3!Idle
    <2>3. CASE j # k
      BY <1>12, <1>13, <2>1, <2>2, <2>3
    <2>4. CASE j = k
      <3>1. e \notin OpenFlows(k) /\ OpenFlows(j)' = OpenFlows(k) \cup {e}
        BY <1>5, <1>12, <2>4 DEF OpenFlows
      <3>2. /\ IsFiniteSet(OpenFlows(k) \cup {e})
            /\ Cardinality(OpenFlows(k) \cup {e}) = Cardinality(OpenFlows(k)) + 1
        BY <2>1, <2>4, <3>1, FS_AddElement
      <3>3. /\ IsFiniteSet(Cells(OpenFlows(k) \cup {e}))
            /\ Cardinality(Cells(OpenFlows(k) \cup {e}))
                 = Cardinality(Cells(OpenFlows(k))) + size
            /\ Cardinality(Cells(OpenFlows(k))) \in Nat
        BY <1>2, <1>9, <2>1, <2>4, <3>1, CellsAdded
      <3>4. arrived[k] \in Nat /\ BytesInFrame(k) \in Nat
        BY ConstantFacts DEF Ns3Inv, Books, BytesInFrame, Ns3Type, Bytes
      <3>5. Cardinality(OpenFlows(j)') = sent'[j].calls - sent'[j].answers
        BY <1>13, <2>1, <2>4, <3>1, <3>2
      <3>6. arrived'[j] + BytesInFrame(j)' + Cardinality(Cells(OpenFlows(j)'))
              = sent'[j].bytes
        BY <1>2, <1>13, <2>1, <2>2, <2>4, <3>1, <3>3, <3>4
      <3> QED
        BY <3>1, <3>2, <3>3, <3>5, <3>6
    <2> QED
      BY <2>3, <2>4
  <1>15. Ns3Ends'
    <2>1. ASSUME NEW r \in finished
          PROVE  Ns3Quiet(r)'
      <3>1. Ns3Quiet(r) /\ r # k.src
        BY DEF Ns3Inv, Ns3Ends
      <3>2. \A f \in flows' : f.src = r => f \in flows /\ Ns3!FlowKey(f)' = Ns3!FlowKey(f)
        BY <1>1, <1>7, <1>9, <3>1
      <3> QED
        BY <1>1, <3>1, <3>2, Ns3QuietFrame
    <2> QED
      BY <1>1, <2>1 DEF Ns3Inv, Ns3Ends
  <1>16. Matching!Send(k, size)
    <2>1. [j \in Key |-> sent'[j].bytes]
            = [[j \in Key |-> sent[j].bytes] EXCEPT ![k] = @ + size]
      <3>1. \A j \in Key :
                sent'[j].bytes = IF j = k THEN sent[j].bytes + size ELSE sent[j].bytes
        BY <1>13
      <3> QED
        BY <3>1
    <2> QED
      BY <1>1, <2>1 DEF Matching!Send
  <1> QED
    BY <1>1, <1>10, <1>11, <1>14, <1>15, <1>16 DEF Ns3Inv

\* A step that leaves the sending side alone keeps what is said of the flows.
LEMMA Ns3FlowsFrame ==
    ASSUME Ns3Inv,
           UNCHANGED <<portNumber, sender_src_port_map, sim_send_waiting_hash, flows>>
    PROVE  /\ OwnPorts' /\ \A k \in Key : OpenFlows(k)' = OpenFlows(k)
           /\ \A f : Ns3!FlowKey(f)' = Ns3!FlowKey(f)
  <1>1. \A f : Ns3!FlowKey(f)' = Ns3!FlowKey(f)
    BY DEF Ns3!FlowKey
  <1>2. \A f : Ns3!Known(f)' <=> Ns3!Known(f)
    BY <1>1 DEF Ns3!Known
  <1> QED
    BY <1>1, <1>2 DEF Ns3Inv, OwnPorts, OpenFlows

(***************************************************************************)
(* sim_recv of ns-3.                                                       *)
(***************************************************************************)
LEMMA Ns3RecvKeeps ==
    ASSUME Ns3Inv, kind = "ns3", kind' = kind, NEW k \in Key, NEW size \in Size,
           k.dst \notin finished, Ns3!OneAtATime(k), Ns3!sim_recv(k, size)
    PROVE  Ns3Inv' /\ Matching!Post(k, size)
  <1>1. /\ posted' = [posted EXCEPT ![k] = Append(@, Total(posted[k]) + size)]
        /\ hashes' = H!ExpectData(hashes, k, size, Len(posted[k]) + 1)
        /\ UNCHANGED <<portNumber, sender_src_port_map, sim_send_waiting_hash, flows>>
        /\ UNCHANGED <<frame, finished, num_unfinished_ranks_, status, arrived, sent>>
    BY SameHashes DEF Ns3!sim_recv, Ns3!BytesPosted, Total, Ns3!sendside, Ns3!tracker
  <1>2. hashes.waiting[k] = H!Absent /\ size \in Bytes
    BY SameHashes, ConstantFacts DEF Ns3!OneAtATime
  <1>3. Books(hashes, posted, arrived)
    BY DEF Ns3Inv
  <1>4. /\ Books(hashes, posted, arrived)'
        /\ hashes'.answered = [hashes.answered EXCEPT ![k] = Covered(posted'[k], arrived[k])]
        /\ \A j \in Key \ {k} : hashes'.waiting[j] = hashes.waiting[j]
    BY <1>1, <1>2, <1>3, PostStep
  <1>5. /\ OwnPorts' /\ \A j \in Key : OpenFlows(j)' = OpenFlows(j)
        /\ \A f : Ns3!FlowKey(f)' = Ns3!FlowKey(f)
    BY <1>1, Ns3FlowsFrame
  <1>6. Ns3Type'
    BY <1>1 DEF Ns3Inv, Ns3Type, Ns3!Idle
  <1>7. Ns3Accounts'
    <2>1. \A j \in Key : Cells(OpenFlows(j)') = Cells(OpenFlows(j))
                         /\ BytesInFrame(j)' = BytesInFrame(j)
      BY <1>1, <1>5 DEF BytesInFrame, Ns3!Idle
    <2> QED
      BY <1>1, <1>5, <2>1 DEF Ns3Inv, Ns3Accounts, Cells
  <1>8. Ns3Ends'
    <2>1. ASSUME NEW r \in finished
          PROVE  Ns3Quiet(r)'
      <3>1. Ns3Quiet(r) /\ r # k.dst
        BY DEF Ns3Inv, Ns3Ends
      <3> QED
        BY <1>1, <1>4, <1>5, <3>1, Ns3QuietFrame
    <2> QED
      BY <1>1, <2>1 DEF Ns3Inv, Ns3Ends
  <1>10. Matching!Post(k, size)
    <2>1. posted[k] \in Seq(Bytes) /\ posted'[k] = Append(posted[k], Total(posted[k]) + size)
      BY <1>1, <1>3 DEF Books
    <2> QED
      BY <1>1, <1>4, <2>1, SameHashes DEF Matching!Post
  <1> QED
    BY <1>4, <1>5, <1>6, <1>7, <1>8, <1>10 DEF Ns3Inv

(***************************************************************************)
(* qp_finish up to the sender's handler: the bytes of the flow are in the  *)
(* frame.                                                                  *)
(***************************************************************************)
LEMMA Ns3FinishKeeps ==
    ASSUME Ns3Inv, kind = "ns3", kind' = kind, NEW e \in flows, Ns3!qp_finish(e)
    PROVE  Ns3Inv' /\ UNCHANGED Matching!bvars
  <1>0. PICK k \in Key : k = Ns3!FlowKey(e)
    BY DEF Ns3Inv, OwnPorts
  <1>1. /\ frame = Ns3!Idle /\ status = "running"
        /\ flows' = flows \ {e}
        /\ sender_src_port_map' = Ns3!Erase(sender_src_port_map, <<e.port, e.src, e.dst>>)
        /\ sim_send_waiting_hash' = Ns3!Erase(sim_send_waiting_hash, <<k, e.port>>)
        /\ frame' = [at |-> "send_handler", key |-> k, size |-> e.size]
        /\ sent' = [sent EXCEPT ![k].answers = @ + 1]
        /\ UNCHANGED <<portNumber, hashes, finished, num_unfinished_ranks_, status,
                       posted, arrived>>
    BY <1>0 DEF Ns3!qp_finish, Ns3!tracker
  <1>2. /\ e \in Ns3Flow /\ e.size \in Size /\ e.size \in Bytes /\ e.size \in Nat
        /\ k.src = e.src /\ k.dst = e.dst
    BY <1>0, ConstantFacts DEF Ns3Inv, Ns3Type, Ns3Flow, Ns3!FlowKey, Bytes
  <1>3. ASSUME NEW f \in flows, f # e
        PROVE  Ns3!FlowKey(f)' = Ns3!FlowKey(f) /\ Ns3!Known(f)'
    <2>1. /\ <<f.port, f.src, f.dst>> \in DOMAIN sender_src_port_map
          /\ <<Ns3!FlowKey(f), f.port>> \in DOMAIN sim_send_waiting_hash
          /\ sim_send_waiting_hash[<<Ns3!FlowKey(f), f.port>>] = f.size
      BY DEF Ns3Inv, OwnPorts, Ns3!Known
    <2>2. f.port # e.port \/ f.src # e.src \/ f.dst # e.dst
      BY <1>3 DEF Ns3Inv, OwnPorts
    <2>3. /\ <<f.port, f.src, f.dst>> \in DOMAIN sender_src_port_map'
          /\ sender_src_port_map'[<<f.port, f.src, f.dst>>]
               = sender_src_port_map[<<f.port, f.src, f.dst>>]
      BY <1>1, <2>1, <2>2 DEF Ns3!Erase
    <2>4. Ns3!FlowKey(f)' = Ns3!FlowKey(f)
      BY <2>3 DEF Ns3!FlowKey
    <2>5. <<Ns3!FlowKey(f), f.port>> # <<k, e.port>>
      BY <1>2, <2>2 DEF Ns3!FlowKey
    <2>6. /\ <<Ns3!FlowKey(f), f.port>> \in DOMAIN sim_send_waiting_hash'
          /\ sim_send_waiting_hash'[<<Ns3!FlowKey(f), f.port>>] = f.size
      BY <1>1, <2>1, <2>5 DEF Ns3!Erase
    <2> QED
      BY <2>3, <2>4, <2>6 DEF Ns3!Known
  <1>4. OwnPorts'
    BY <1>1, <1>3 DEF Ns3Inv, OwnPorts
  <1>5. Ns3Type'
    BY <1>1, <1>2 DEF Ns3Inv, Ns3Type, Ns3!Idle
  <1>6. ASSUME NEW j \in Key
        PROVE  OpenFlows(j)' = IF j = k THEN OpenFlows(k) \ {e} ELSE OpenFlows(j)
    BY <1>0, <1>1, <1>3 DEF OpenFlows
  <1>7. ASSUME NEW j \in Key
        PROVE  /\ sent[j].calls \in Nat /\ sent[j].answers \in Nat
               /\ sent'[j].calls = sent[j].calls /\ sent'[j].bytes = sent[j].bytes
               /\ sent'[j].answers = sent[j].answers + (IF j = k THEN 1 ELSE 0)
    BY <1>1 DEF Ns3Inv, Ns3Type
  <1>8. \A j \in Key : /\ BytesInFrame(j) = 0
                       /\ BytesInFrame(j)' = IF j = k THEN e.size ELSE 0
    BY <1>1 DEF BytesInFrame, Ns3!Idle
  <1>9. Ns3Accounts'
    <2> SUFFICES ASSUME NEW j \in Key
                 PROVE  /\ IsFiniteSet(OpenFlows(j)')
                        /\ Cardinality(OpenFlows(j)') = sent'[j].calls - sent'[j].answers
                        /\ IsFiniteSet(Cells(OpenFlows(j)'))
                        /\ arrived'[j] + BytesInFrame(j)' + Cardinality(Cells(OpenFlows(j)'))
                             = sent'[j].bytes
      BY DEF Ns3Accounts, Cells
    <2>1. /\ IsFiniteSet(OpenFlows(j))
          /\ Cardinality(OpenFlows(j)) = sent[j].calls - sent[j].answers
          /\ IsFiniteSet(Cells(OpenFlows(j)))
          /\ arrived[j] + BytesInFrame(j) + Cardinality(Cells(OpenFlows(j)))
               = sent[j].bytes
          /\ arrived' = arrived
      BY <1>1 DEF Ns3Inv, Ns3Accounts
    <2>2. CASE j # k
      BY <1>6, <1>7, <1>8, <2>1, <2>2
    <2>3. CASE j = k
      <3>1. e \in OpenFlows(k) /\ OpenFlows(j)' = OpenFlows(k) \ {e}
        BY <1>0, <1>6, <2>3 DEF OpenFlows
      <3>2. /\ IsFiniteSet(OpenFlows(k) \ {e})
            /\ Cardinality(OpenFlows(k) \ {e}) = Cardinality(OpenFlows(k)) - 1
        BY <2>1, <2>3, <3>1, FS_RemoveElement
      <3>3. /\ IsFiniteSet(Cells(OpenFlows(k) \ {e}))
            /\ Cardinality(Cells(OpenFlows(k)))
                 = Cardinality(Cells(OpenFlows(k) \ {e})) + e.size
            /\ Cardinality(Cells(OpenFlows(k) \ {e})) \in Nat
        BY <1>2, <2>1, <2>3, <3>1, CellsRemoved
      <3>4. arrived[k] \in Nat
        BY DEF Ns3Inv, Books
      <3>5. Cardinality(OpenFlows(j)') = sent'[j].calls - sent'[j].answers
        BY <1>7, <2>1, <2>3, <3>1, <3>2
      <3>6. arrived'[j] + BytesInFrame(j)' + Cardinality(Cells(OpenFlows(j)'))
              = sent'[j].bytes
        BY <1>2, <1>7, <1>8, <2>1, <2>3, <3>1, <3>3, <3>4
      <3> QED
        BY <3>1, <3>2, <3>3, <3>5, <3>6
    <2> QED
      BY <2>2, <2>3
  <1>10. Ns3Ends'
    <2>1. ASSUME NEW r \in finished
          PROVE  Ns3Quiet(r)'
      <3>1. Ns3Quiet(r)
        BY DEF Ns3Inv, Ns3Ends
      <3>2. \A f \in flows' : f \in flows /\ Ns3!FlowKey(f)' = Ns3!FlowKey(f)
        BY <1>1, <1>3
      <3> QED
        BY <1>1, <3>1, <3>2, Ns3QuietFrame
    <2> QED
      BY <1>1, <2>1 DEF Ns3Inv, Ns3Ends
  <1>11. Books(hashes, posted, arrived)'
    BY <1>1, BooksFrame DEF Ns3Inv
  <1>12. UNCHANGED Matching!bvars
    <2>1. [j \in Key |-> sent'[j].bytes] = [j \in Key |-> sent[j].bytes]
      BY <1>7
    <2> QED
      BY <1>1, <2>1 DEF Matching!bvars
  <1> QED
    BY <1>4, <1>5, <1>9, <1>10, <1>11, <1>12 DEF Ns3Inv

(***************************************************************************)
(* The rest of qp_finish: the bytes of the frame arrive.                   *)
(***************************************************************************)
LEMMA Ns3NotifyKeeps ==
    ASSUME Ns3Inv, kind = "ns3", kind' = kind, Ns3!notify_receiver
    PROVE  /\ Ns3Inv'
           /\ \E k \in Key, size \in Size : Matching!Arrive(k, size)
  <1>0. PICK k \in Key, size \in Size : k = frame.key /\ size = frame.size
    BY DEF Ns3!notify_receiver, Ns3Inv, Ns3Type
  <1>1. /\ hashes' = H!ReceiveData(hashes, k, size)
        /\ arrived' = [arrived EXCEPT ![k] = arrived[k] + size]
        /\ frame # Ns3!Idle /\ frame' = Ns3!Idle
        /\ UNCHANGED <<portNumber, sender_src_port_map, sim_send_waiting_hash, flows>>
        /\ UNCHANGED <<finished, num_unfinished_ranks_, status, posted, sent>>
    BY <1>0, SameHashes DEF Ns3!notify_receiver, Ns3!sendside, Ns3!tracker
  <1>2. size \in Bytes /\ size \in Nat
    BY ConstantFacts DEF Bytes
  <1>3. Books(hashes, posted, arrived) /\ arrived \in [Key -> Nat]
    BY DEF Ns3Inv, Books
  <1>4. /\ Books(hashes, posted, arrived)'
        /\ hashes'.answered
             = [hashes.answered EXCEPT ![k] = Covered(posted[k], arrived[k] + size)]
        /\ NoNewWait(hashes', hashes)
    BY <1>1, <1>2, <1>3, ArrivalStep
  <1>5. /\ OwnPorts' /\ \A j \in Key : OpenFlows(j)' = OpenFlows(j)
        /\ \A f : Ns3!FlowKey(f)' = Ns3!FlowKey(f)
    BY <1>1, Ns3FlowsFrame
  <1>6. Ns3Type'
    BY <1>1 DEF Ns3Inv, Ns3Type, Ns3!Idle
  <1>7. ASSUME NEW j \in Key
        PROVE  /\ BytesInFrame(j)' = 0
               /\ BytesInFrame(j) = IF j = k THEN size ELSE 0
               /\ arrived'[j] = arrived[j] + BytesInFrame(j)
               /\ arrived[j] \in Nat
    <2>1. /\ BytesInFrame(j)' = 0
          /\ BytesInFrame(j) = IF j = k THEN size ELSE 0
      BY <1>0, <1>1 DEF BytesInFrame, Ns3!Idle
    <2> QED
      BY <1>1, <1>2, <1>3, <2>1
  <1>8. ASSUME NEW j \in Key
        PROVE  /\ IsFiniteSet(OpenFlows(j))
               /\ Cardinality(OpenFlows(j)) = sent[j].calls - sent[j].answers
               /\ IsFiniteSet(Cells(OpenFlows(j)))
               /\ arrived[j] + BytesInFrame(j) + Cardinality(Cells(OpenFlows(j)))
                    = sent[j].bytes
               /\ Cardinality(Cells(OpenFlows(j))) \in Nat
    BY FS_CardinalityType DEF Ns3Inv, Ns3Accounts
  <1>9. Ns3Accounts'
    <2> SUFFICES ASSUME NEW j \in Key
                 PROVE  /\ IsFiniteSet(OpenFlows(j)')
                        /\ Cardinality(OpenFlows(j)') = sent'[j].calls - sent'[j].answers
                        /\ IsFiniteSet(Cells(OpenFlows(j)'))
                        /\ arrived'[j] + BytesInFrame(j)' + Cardinality(Cells(OpenFlows(j)'))
                             = sent'[j].bytes
      BY DEF Ns3Accounts, Cells
    <2>1. arrived[j] + BytesInFrame(j) \in Nat
      BY <1>2, <1>7
    <2> QED
      BY <1>1, <1>5, <1>7, <1>8, <2>1
  <1>10. Ns3Ends'
    <2>1. ASSUME NEW r \in finished
          PROVE  Ns3Quiet(r)'
      <3>1. Ns3Quiet(r)
        BY DEF Ns3Inv, Ns3Ends
      <3> QED
        BY <1>1, <1>4, <1>5, <3>1, Ns3QuietFrame DEF NoNewWait
    <2> QED
      BY <1>1, <2>1 DEF Ns3Inv, Ns3Ends
  <1>12. Matching!Arrive(k, size)
    <2>1. arrived[k] + size <= sent[k].bytes
      BY <1>2, <1>7, <1>8
    <2>2. [j \in Key |-> sent'[j].bytes] = [j \in Key |-> sent[j].bytes]
      BY <1>1
    <2> QED
      BY <1>1, <1>4, <2>1, <2>2, SameHashes DEF Matching!Arrive
  <1> QED
    BY <1>4, <1>5, <1>6, <1>9, <1>10, <1>12 DEF Ns3Inv

(***************************************************************************)
(* mark_rank_as_finished of ns-3.                                          *)
(***************************************************************************)
LEMMA Ns3MarkKeeps ==
    ASSUME Ns3Inv, kind = "ns3", kind' = kind, NEW r \in Rank,
           Ns3!mark_rank_as_finished(r)
    PROVE  Ns3Inv' /\ UNCHANGED Matching!bvars
  <1>1. /\ Ns3!HandlersRun(r) /\ finished' = finished \cup {r}
        /\ num_unfinished_ranks_'
             = num_unfinished_ranks_ - (IF r \in finished THEN 0 ELSE 1)
        /\ status' = IF num_unfinished_ranks_' = 0 THEN "done" ELSE "running"
        /\ UNCHANGED <<portNumber, sender_src_port_map, sim_send_waiting_hash, flows>>
        /\ UNCHANGED <<hashes, frame, posted, arrived, sent>>
    BY DEF Ns3!mark_rank_as_finished, Ns3!newly_finished, Ns3!sendside, Ns3!hist
  <1>2. /\ num_unfinished_ranks_' = Cardinality(Rank \ finished')
        /\ num_unfinished_ranks_' = 0 => finished' = Rank
    <2>1. PICK left : left = num_unfinished_ranks_'
      OBVIOUS
    <2>2. finished \subseteq Rank /\ num_unfinished_ranks_ = Cardinality(Rank \ finished)
      BY DEF Ns3Inv, Ns3Type, Ns3Ends
    <2>3. /\ left = Cardinality(Rank \ (finished \cup {r}))
          /\ left = 0 => finished \cup {r} = Rank
      BY <1>1, <2>1, <2>2, RankCounted
    <2> QED
      BY <1>1, <2>1, <2>3
  <1>3. /\ OwnPorts' /\ \A j \in Key : OpenFlows(j)' = OpenFlows(j)
        /\ \A f : Ns3!FlowKey(f)' = Ns3!FlowKey(f)
    BY <1>1, Ns3FlowsFrame
  <1>4. Ns3Type'
    BY <1>1 DEF Ns3Inv, Ns3Type, Ns3!Idle
  <1>5. Ns3Accounts'
    <2>1. \A j \in Key : BytesInFrame(j)' = BytesInFrame(j)
      BY <1>1 DEF BytesInFrame, Ns3!Idle
    <2> QED
      BY <1>1, <1>3, <2>1 DEF Ns3Inv, Ns3Accounts, Cells
  <1>6. Ns3Quiet(r)
    <2>1. ASSUME NEW k \in Key, k.dst = r
          PROVE  hashes.waiting[k] = H!Absent
      <3>1. 1 .. Len(posted[k]) \subseteq hashes.answered[k]
        BY <1>1, <2>1 DEF Ns3!HandlersRun
      <3> QED
        BY <3>1, AnsweredNoWait DEF Ns3Inv
    <2>2. ASSUME NEW f \in flows, f.src = r, Ns3!FlowKey(f) \notin FireAndForget
          PROVE  FALSE
      <3>1. PICK k \in Key : k = Ns3!FlowKey(f)
        BY DEF Ns3Inv, OwnPorts
      <3>2. k.src = r
        BY <2>2, <3>1 DEF Ns3!FlowKey
      <3>3. sent[k].answers = sent[k].calls /\ sent[k].calls \in Nat
        BY <1>1, <2>2, <3>1, <3>2 DEF Ns3!HandlersRun, Ns3Inv, Ns3Type
      <3>4. IsFiniteSet(OpenFlows(k)) /\ Cardinality(OpenFlows(k)) = 0
        BY <3>3 DEF Ns3Inv, Ns3Accounts
      <3> QED
        BY <3>1, <3>4, FS_EmptySet DEF OpenFlows
    <2> QED
      BY <2>1, <2>2 DEF Ns3Quiet
  <1>9. Ns3Ends'
    <2>1. ASSUME NEW q \in finished'
          PROVE  Ns3Quiet(q)'
      <3>1. Ns3Quiet(q)
        BY <1>1, <1>6 DEF Ns3Inv, Ns3Ends
      <3> QED
        BY <1>1, <1>3, <3>1, Ns3QuietFrame
    <2> QED
      BY <1>1, <1>2, <2>1 DEF Ns3Ends
  <1>7. Books(hashes, posted, arrived)'
    BY <1>1, BooksFrame DEF Ns3Inv
  <1>8. UNCHANGED Matching!bvars
    BY <1>1 DEF Matching!bvars
  <1> QED
    BY <1>3, <1>4, <1>5, <1>7, <1>8, <1>9 DEF Ns3Inv

\* ns-3 starts with no flow, nothing posted and no rank finished.
LEMMA Ns3InitInv == InitNs3 => Ns3Inv /\ Matching!BInit
  <1> SUFFICES ASSUME InitNs3 PROVE Ns3Inv /\ Matching!BInit
    OBVIOUS
  <1>1. /\ kind = "ns3" /\ status = "running" /\ finished = {} /\ flows = {}
        /\ portNumber = [p \in Rank \X Rank |-> 0]
        /\ hashes = H!NoHashes /\ frame = Ns3!Idle
        /\ num_unfinished_ranks_ = Cardinality(Rank)
        /\ posted = [k \in Key |-> <<>>] /\ arrived = [k \in Key |-> 0]
        /\ sent = [k \in Key |-> [calls |-> 0, answers |-> 0, bytes |-> 0]]
    BY SameHashes DEF InitNs3, Ns3!Init, Ns3!Pair, Ns3!Cardinality, Cardinality
  <1>2. Books(hashes, posted, arrived)
    BY <1>1, EmptyBooks
  <1>3. Ns3Type /\ OwnPorts
    BY <1>1 DEF Ns3Type, OwnPorts
  <1>4. Ns3Accounts
    <2>1. \A k \in Key : OpenFlows(k) = {} /\ Cells(OpenFlows(k)) = {} /\ BytesInFrame(k) = 0
      BY <1>1 DEF OpenFlows, Cells, BytesInFrame
    <2>2. IsFiniteSet({}) /\ Cardinality({}) = 0
      BY FS_EmptySet
    <2>3. \A k \in Key : /\ sent[k].calls = 0 /\ sent[k].answers = 0 /\ sent[k].bytes = 0
                         /\ arrived[k] = 0
      BY <1>1
    <2> QED
      BY <2>1, <2>2, <2>3 DEF Ns3Accounts
  <1>5. Ns3Ends
    <2>1. Rank \ {} = Rank
      OBVIOUS
    <2> QED
      BY <1>1, <2>1 DEF Ns3Ends
  <1>6. Matching!BInit
    BY <1>1 DEF Matching!BInit, H!NoHashes
  <1> QED
    BY <1>2, <1>3, <1>4, <1>5, <1>6 DEF Ns3Inv

\* Every step of ns-3 keeps its invariant and is one that ByteMatching allows.
LEMMA Ns3NextInv ==
    ASSUME Ns3Inv, NextNs3
    PROVE  Ns3Inv' /\ [Matching!BNext]_(Matching!bvars)
  <1>1. kind = "ns3" /\ kind' = kind /\ Ns3!Next
    BY DEF NextNs3
  <1>2. ASSUME NEW k \in Key, NEW size \in Size,
               k.src \notin finished, Ns3!send_flow(k, size)
        PROVE  Ns3Inv' /\ Matching!BNext
    BY <1>1, <1>2, Ns3SendKeeps DEF Matching!BNext
  <1>3. ASSUME NEW k \in Key, NEW size \in Size,
               k.dst \notin finished, Ns3!OneAtATime(k), Ns3!sim_recv(k, size)
        PROVE  Ns3Inv' /\ Matching!BNext
    BY <1>1, <1>3, Ns3RecvKeeps DEF Matching!BNext
  <1>4. ASSUME NEW f \in flows, Ns3!qp_finish(f)
        PROVE  Ns3Inv' /\ UNCHANGED Matching!bvars
    BY <1>1, <1>4, Ns3FinishKeeps
  <1>5. ASSUME Ns3!notify_receiver
        PROVE  Ns3Inv' /\ Matching!BNext
    BY <1>1, <1>5, Ns3NotifyKeeps DEF Matching!BNext
  <1>6. ASSUME NEW r \in Rank, Ns3!mark_rank_as_finished(r)
        PROVE  Ns3Inv' /\ UNCHANGED Matching!bvars
    BY <1>1, <1>6, Ns3MarkKeeps
  <1> QED
    BY <1>1, <1>2, <1>3, <1>4, <1>5, <1>6 DEF Ns3!Next

-----------------------------------------------------------------------------
\* A step of htsim that leaves the flows alone keeps what is said of them.
LEMMA HtsimFlowsFrame ==
    ASSUME HtsimInv,
           UNCHANGED <<flow_id, flow_id_to_tag, send_waiting, flows, recv_flow_finish>>
    PROVE  /\ OwnIds' /\ \A k \in Key : ToNotify(k)' = ToNotify(k)
           /\ \A k \in Key : Unfinished(k)' = Unfinished(k)
           /\ \A f : Htsim!FlowKey(f)' = Htsim!FlowKey(f)
  <1>1. \A f : Htsim!FlowKey(f)' = Htsim!FlowKey(f)
    BY DEF Htsim!FlowKey
  <1>2. \A f : Htsim!Found(f)' <=> Htsim!Found(f)
    BY <1>1 DEF Htsim!Found
  <1> QED
    BY <1>1, <1>2 DEF HtsimInv, OwnIds, ToNotify, Unfinished

\* What a finished rank has left depends on its flows and the waiting map.
LEMMA HtsimQuietFrame ==
    ASSUME NEW r, HtsimQuiet(r),
           \A f \in flows' :
               f.src = r => f \in flows /\ Htsim!FlowKey(f)' = Htsim!FlowKey(f),
           \A k \in Key : k.dst = r /\ hashes.waiting[k] = H!Absent
                             => hashes'.waiting[k] = H!Absent
    PROVE  HtsimQuiet(r)'
  BY DEF HtsimQuiet, H!Absent

(***************************************************************************)
(* sim_send of htsim: a new flow with an id that no flow has had.          *)
(***************************************************************************)
LEMMA HtsimSendKeeps ==
    ASSUME HtsimInv, kind = "htsim", kind' = kind, NEW k \in Key, NEW size \in Size,
           Htsim!sim_send(k, size)
    PROVE  HtsimInv' /\ Matching!Send(k, size)
  <1>0. PICK id : id = flow_id + 1
    OBVIOUS
  <1> DEFINE e == [src |-> k.src, dst |-> k.dst, size |-> size, id |-> id,
                   sunk |-> FALSE]
  <1>1. /\ k.src \notin finished
        /\ flow_id < HtsimMaxSends /\ flow_id' = id
        /\ flow_id_to_tag' = [flow_id_to_tag EXCEPT ![id] = k.tag]
        /\ send_waiting' = send_waiting \cup {<<k, id>>}
        /\ flows' = flows \cup {e}
        /\ sent' = [sent EXCEPT ![k].calls = @ + 1, ![k].bytes = @ + size]
        /\ UNCHANGED <<recv_flow_finish, hashes, frame, finished,
                       num_unfinished_ranks_, stopped, posted, arrived>>
    BY <1>0 DEF Htsim!sim_send, Htsim!MayCall, Htsim!send_flow,
                Htsim!schedule_htsim_event, Htsim!tracker
  <1>2. /\ k.tag \in Nat /\ k.src \in Rank /\ k.dst \in Rank
        /\ k = [tag |-> k.tag, src |-> k.src, dst |-> k.dst]
        /\ size \in Bytes /\ size \in Nat
    BY ConstantFacts DEF Bytes
  <1>3. /\ HtsimMaxSends \in Nat /\ flow_id \in Nat
        /\ id \in Htsim!FlowId /\ id \in 0 .. HtsimMaxSends
    BY <1>0, <1>1, NetworkAssumption
       DEF HtsimInv, HtsimType, Htsim!FlowId, Htsim!BoundAssumption
  <1>4. e \in HtsimFlow
    BY <1>2, <1>3 DEF HtsimFlow
  <1>5. ASSUME NEW f \in flows
        PROVE  /\ f.id \in Htsim!FlowId /\ f.id <= id /\ f.id # id
               /\ Htsim!FlowKey(f)' = Htsim!FlowKey(f) /\ Htsim!Found(f)'
    <2>1. f.id \in Htsim!FlowId /\ f.id \in Nat /\ f.id <= flow_id /\ Htsim!Found(f)
      BY DEF HtsimInv, HtsimType, HtsimFlow, OwnIds, Htsim!FlowId
    <2>2. f.id <= id /\ f.id # id
      BY <1>0, <1>3, <2>1
    <2>3. flow_id_to_tag'[f.id] = flow_id_to_tag[f.id]
      BY <1>1, <2>1, <2>2 DEF HtsimInv, HtsimType
    <2>4. Htsim!FlowKey(f)' = Htsim!FlowKey(f)
      BY <2>3 DEF Htsim!FlowKey
    <2> QED
      BY <1>1, <2>1, <2>2, <2>4 DEF Htsim!Found
  <1>6. Htsim!FlowKey(e)' = k /\ Htsim!Found(e)'
    <2>1. flow_id_to_tag'[id] = k.tag
      BY <1>1, <1>3 DEF HtsimInv, HtsimType
    <2>2. Htsim!FlowKey(e)' = k
      BY <1>2, <2>1 DEF Htsim!FlowKey
    <2> QED
      BY <1>1, <2>2 DEF Htsim!Found
  <1>7. e.id = id /\ e.src = k.src /\ e.size = size /\ e.sunk = FALSE
    OBVIOUS
  <1> HIDE DEF e
  <1>8. e \notin flows
    BY <1>5, <1>7
  <1>9. HtsimType'
    <2>1. flow_id_to_tag' \in [Htsim!FlowId -> Nat]
      BY <1>1, <1>2, <1>3 DEF HtsimInv, HtsimType
    <2>3. sent' \in [Key -> [calls : Nat, answers : Nat, bytes : Nat]]
      <3>1. /\ sent \in [Key -> [calls : Nat, answers : Nat, bytes : Nat]]
            /\ sent[k] \in [calls : Nat, answers : Nat, bytes : Nat]
        BY DEF HtsimInv, HtsimType
      <3> DEFINE c == [sent EXCEPT ![k].calls = @ + 1]
      <3>2. c \in [Key -> [calls : Nat, answers : Nat, bytes : Nat]]
        BY <3>1
      <3>3. sent' = [c EXCEPT ![k].bytes = @ + size]
        BY <1>1
      <3> HIDE DEF c
      <3> QED
        BY <1>2, <3>2, <3>3
    <2>2. flows' \subseteq HtsimFlow
      BY <1>1, <1>4 DEF HtsimInv, HtsimType
    <2> QED
      BY <1>1, <1>3, <2>1, <2>2, <2>3 DEF HtsimInv, HtsimType, HtsimFlow, Htsim!FlowId,
                                    Htsim!Idle
  <1>10. OwnIds'
    <2>1. \A f \in flows' : /\ f.id <= flow_id'
                            /\ Htsim!FlowKey(f)' \in Key /\ Htsim!Found(f)'
      <3>1. id <= id
        BY <1>3
      <3> QED
        BY <1>1, <1>5, <1>6, <1>7, <3>1 DEF HtsimInv, OwnIds
    <2>2. \A f, g \in flows' : f.id = g.id => f = g
      BY <1>1, <1>5, <1>7 DEF HtsimInv, OwnIds
    <2> QED
      BY <2>1, <2>2 DEF OwnIds
  <1>11. ASSUME NEW j \in Key
         PROVE  ToNotify(j)' = IF j = k THEN ToNotify(k) \cup {e} ELSE ToNotify(j)
    BY <1>1, <1>5, <1>6, <1>7 DEF ToNotify
  <1>16. ASSUME NEW j \in Key
         PROVE  /\ sent[j].calls \in Nat /\ sent[j].answers \in Nat /\ sent[j].bytes \in Nat
                /\ sent'[j].answers = sent[j].answers
                /\ sent'[j].calls = sent[j].calls + (IF j = k THEN 1 ELSE 0)
                /\ sent'[j].bytes = sent[j].bytes + (IF j = k THEN size ELSE 0)
    BY <1>1, <1>2 DEF HtsimInv, HtsimType
  <1>17. HtsimCalls'
    <2> SUFFICES ASSUME NEW j \in Key
                 PROVE  /\ IsFiniteSet(Unfinished(j)')
                        /\ Cardinality(Unfinished(j)') = sent'[j].calls - sent'[j].answers
      BY DEF HtsimCalls
    <2>1. /\ IsFiniteSet(Unfinished(j))
          /\ Cardinality(Unfinished(j)) = sent[j].calls - sent[j].answers
      BY DEF HtsimInv, HtsimCalls
    <2>2. /\ Unfinished(j)' = IF j = k THEN Unfinished(k) \cup {e} ELSE Unfinished(j)
          /\ e \notin Unfinished(k)
      BY <1>1, <1>5, <1>6, <1>8 DEF Unfinished
    <2>3. CASE j # k
      BY <1>16, <2>1, <2>2, <2>3
    <2>4. CASE j = k
      <3>1. /\ IsFiniteSet(Unfinished(k) \cup {e})
            /\ Cardinality(Unfinished(k) \cup {e}) = Cardinality(Unfinished(k)) + 1
        BY <2>1, <2>2, <2>4, FS_AddElement
      <3> QED
        BY <1>16, <2>1, <2>2, <2>4, <3>1
    <2> QED
      BY <2>3, <2>4
  <1>12. HtsimAccounts'
    <2> SUFFICES ASSUME NEW j \in Key
                 PROVE  /\ IsFiniteSet(Cells(ToNotify(j)'))
                        /\ arrived'[j] + BytesHeld(j)' + Cardinality(Cells(ToNotify(j)'))
                             = sent'[j].bytes
      BY DEF HtsimAccounts, Cells
    <2>1. /\ IsFiniteSet(Cells(ToNotify(j)))
          /\ arrived[j] + BytesHeld(j) + Cardinality(Cells(ToNotify(j))) = sent[j].bytes
      BY DEF HtsimInv, HtsimAccounts
    <2>2. arrived'[j] = arrived[j] /\ BytesHeld(j)' = BytesHeld(j)
      BY <1>1 DEF BytesHeld, Htsim!Idle
    <2>3. /\ sent[j].bytes \in Nat
          /\ sent'[j].bytes = sent[j].bytes + (IF j = k THEN size ELSE 0)
      BY <1>16
    <2>4. CASE j # k
      BY <1>11, <2>1, <2>2, <2>3, <2>4
    <2>5. CASE j = k
      <3>1. e \notin ToNotify(k) /\ ToNotify(j)' = ToNotify(k) \cup {e}
        BY <1>8, <1>11, <2>5 DEF ToNotify
      <3>2. /\ IsFiniteSet(Cells(ToNotify(k) \cup {e}))
            /\ Cardinality(Cells(ToNotify(k) \cup {e}))
                 = Cardinality(Cells(ToNotify(k))) + size
            /\ Cardinality(Cells(ToNotify(k))) \in Nat
        BY <1>2, <1>7, <2>1, <2>5, <3>1, CellsAdded
      <3>3. arrived[k] \in Nat /\ BytesHeld(k) \in Nat
        BY ConstantFacts DEF HtsimInv, Books, BytesHeld, HtsimType, Bytes
      <3>4. arrived'[j] + BytesHeld(j)' + Cardinality(Cells(ToNotify(j)')) = sent'[j].bytes
        BY <1>2, <2>1, <2>2, <2>3, <2>5, <3>1, <3>2, <3>3
      <3> QED
        BY <3>1, <3>2, <3>4
    <2> QED
      BY <2>4, <2>5
  <1>13. HtsimEnds'
    <2>1. ASSUME NEW r \in finished
          PROVE  HtsimQuiet(r)'
      <3>1. HtsimQuiet(r) /\ r # k.src
        BY <1>1 DEF HtsimInv, HtsimEnds
      <3>2. \A f \in flows' :
                f.src = r => f \in flows /\ Htsim!FlowKey(f)' = Htsim!FlowKey(f)
        BY <1>1, <1>5, <1>7, <3>1
      <3> QED
        BY <1>1, <3>1, <3>2, HtsimQuietFrame
    <2> QED
      BY <1>1, <2>1 DEF HtsimInv, HtsimEnds
  <1>14. Books(hashes, posted, arrived)'
    BY <1>1, BooksFrame DEF HtsimInv
  <1>15. Matching!Send(k, size)
    <2>1. [j \in Key |-> sent'[j].bytes]
            = [[j \in Key |-> sent[j].bytes] EXCEPT ![k] = @ + size]
      <3>1. \A j \in Key :
                sent'[j].bytes = IF j = k THEN sent[j].bytes + size ELSE sent[j].bytes
        BY <1>16
      <3> QED
        BY <3>1
    <2> QED
      BY <1>1, <2>1 DEF Matching!Send
  <1> QED
    BY <1>9, <1>10, <1>12, <1>13, <1>14, <1>15, <1>17 DEF HtsimInv

(***************************************************************************)
(* sim_recv of htsim.                                                      *)
(***************************************************************************)
LEMMA HtsimRecvKeeps ==
    ASSUME HtsimInv, kind = "htsim", kind' = kind, NEW k \in Key, NEW size \in Size,
           Htsim!OneAtATime(k), Htsim!sim_recv(k, size)
    PROVE  HtsimInv' /\ Matching!Post(k, size)
  <1>1. /\ k.dst \notin finished
        /\ posted' = [posted EXCEPT ![k] = Append(@, Total(posted[k]) + size)]
        /\ hashes' = H!ExpectData(hashes, k, size, Len(posted[k]) + 1)
        /\ UNCHANGED <<recv_flow_finish, flow_id, flow_id_to_tag, send_waiting, flows>>
        /\ UNCHANGED <<frame, finished, num_unfinished_ranks_, stopped, arrived, sent>>
    BY SameHashes DEF Htsim!sim_recv, Htsim!MayCall, Htsim!BytesPosted, Total,
                      Htsim!sendside, Htsim!tracker
  <1>2. hashes.waiting[k] = H!Absent /\ size \in Bytes
    BY SameHashes, ConstantFacts DEF Htsim!OneAtATime
  <1>3. Books(hashes, posted, arrived)
    BY DEF HtsimInv
  <1>4. /\ Books(hashes, posted, arrived)'
        /\ hashes'.answered = [hashes.answered EXCEPT ![k] = Covered(posted'[k], arrived[k])]
        /\ \A j \in Key \ {k} : hashes'.waiting[j] = hashes.waiting[j]
    BY <1>1, <1>2, <1>3, PostStep
  <1>5. /\ OwnIds' /\ \A j \in Key : ToNotify(j)' = ToNotify(j)
        /\ \A j \in Key : Unfinished(j)' = Unfinished(j)
        /\ \A f : Htsim!FlowKey(f)' = Htsim!FlowKey(f)
    BY <1>1, HtsimFlowsFrame
  <1>6. HtsimType'
    BY <1>1 DEF HtsimInv, HtsimType, HtsimFlow, Htsim!FlowId, Htsim!Idle
  <1>7. HtsimAccounts'
    <2>1. \A j \in Key : Cells(ToNotify(j)') = Cells(ToNotify(j))
                         /\ BytesHeld(j)' = BytesHeld(j)
      BY <1>1, <1>5 DEF BytesHeld, Htsim!Idle
    <2> QED
      BY <1>1, <1>5, <2>1 DEF HtsimInv, HtsimAccounts, Cells
  <1>8. HtsimEnds'
    <2>1. ASSUME NEW r \in finished
          PROVE  HtsimQuiet(r)'
      <3>1. HtsimQuiet(r) /\ r # k.dst
        BY <1>1 DEF HtsimInv, HtsimEnds
      <3> QED
        BY <1>1, <1>4, <1>5, <3>1, HtsimQuietFrame
    <2> QED
      BY <1>1, <2>1 DEF HtsimInv, HtsimEnds
  <1>10. HtsimCalls'
    BY <1>1, <1>5 DEF HtsimInv, HtsimCalls
  <1>9. Matching!Post(k, size)
    <2>1. posted[k] \in Seq(Bytes) /\ posted'[k] = Append(posted[k], Total(posted[k]) + size)
      BY <1>1, <1>3 DEF Books
    <2> QED
      BY <1>1, <1>4, <2>1, SameHashes DEF Matching!Post
  <1> QED
    BY <1>4, <1>5, <1>6, <1>7, <1>8, <1>9, <1>10 DEF HtsimInv

(***************************************************************************)
(* flow_finish_recv: the flow stays until its source is done.  Its bytes   *)
(* arrive now, or stay with the sunk flow.                                 *)
(***************************************************************************)
LEMMA HtsimSinkKeeps ==
    ASSUME HtsimInv, kind = "htsim", kind' = kind, NEW e \in flows,
           Htsim!flow_finish_recv(e)
    PROVE  /\ HtsimInv'
           /\ \/ \E k \in Key, size \in Size : Matching!Arrive(k, size)
              \/ UNCHANGED Matching!bvars
  <1>0. PICK k \in Key, size \in Size : k = Htsim!FlowKey(e) /\ size = e.size
    BY DEF HtsimInv, OwnIds, HtsimType, HtsimFlow
  <1> DEFINE d == [e EXCEPT !.sunk = TRUE]
  <1>1. /\ frame = Htsim!Idle /\ ~e.sunk
        /\ flows' = (flows \ {e}) \cup {d}
        /\ UNCHANGED <<recv_flow_finish, flow_id, flow_id_to_tag, send_waiting>>
        /\ UNCHANGED <<sent, frame, finished, num_unfinished_ranks_, stopped, posted>>
    BY DEF Htsim!flow_finish_recv, Htsim!tracker
  <1>2. IF recv_flow_finish
        THEN /\ hashes' = H!ReceiveData(hashes, k, size)
             /\ arrived' = [arrived EXCEPT ![k] = arrived[k] + size]
        ELSE hashes' = hashes /\ arrived' = arrived
    BY <1>0, SameHashes DEF Htsim!flow_finish_recv, Htsim!sink_notifies,
                            Htsim!notify_receiver_receive_data
  <1>3. /\ e \in HtsimFlow /\ d \in HtsimFlow /\ d.id = e.id /\ d.size = size
        /\ d.src = e.src /\ d.dst = e.dst /\ d.sunk = TRUE
        /\ size \in Bytes /\ size \in Nat
    BY <1>0, ConstantFacts DEF HtsimInv, HtsimType, HtsimFlow, Bytes
  <1> HIDE DEF d
  <1>4. d \notin flows
    BY <1>1, <1>3 DEF HtsimInv, OwnIds
  <1>5. \A f : Htsim!FlowKey(f)' = Htsim!FlowKey(f)
    BY <1>1 DEF Htsim!FlowKey
  <1>6. \A f : Htsim!Found(f)' <=> Htsim!Found(f)
    BY <1>1, <1>5 DEF Htsim!Found
  <1>7. Htsim!FlowKey(d) = k /\ Htsim!Found(d) /\ d.id <= flow_id
    <2>1. Htsim!FlowKey(d) = k
      BY <1>0, <1>3 DEF Htsim!FlowKey
    <2>2. <<k, e.id>> \in send_waiting /\ e.id <= flow_id
      BY <1>0 DEF HtsimInv, OwnIds, Htsim!Found
    <2> QED
      BY <1>3, <2>1, <2>2 DEF Htsim!Found
  <1>8. HtsimType'
    <2>1. flows' \subseteq HtsimFlow
      BY <1>1, <1>3 DEF HtsimInv, HtsimType
    <2> QED
      BY <1>1, <2>1 DEF HtsimInv, HtsimType, HtsimFlow, Htsim!FlowId, Htsim!Idle
  <1>9. OwnIds'
    <2>1. \A f \in flows' : /\ f.id <= flow_id'
                            /\ Htsim!FlowKey(f)' \in Key /\ Htsim!Found(f)'
      BY <1>1, <1>5, <1>6, <1>7 DEF HtsimInv, OwnIds
    <2>2. \A f, g \in flows' : f.id = g.id => f = g
      BY <1>1, <1>3 DEF HtsimInv, OwnIds
    <2> QED
      BY <2>1, <2>2 DEF OwnIds
  <1>10. /\ \A j \in Key : BytesHeld(j) = 0 /\ BytesHeld(j)' = 0
         /\ \A j \in Key : arrived[j] \in Nat
    BY <1>1 DEF BytesHeld, HtsimInv, Books
  <1>11. e \in ToNotify(k)
    BY <1>0, <1>1 DEF ToNotify
  <1>12. ASSUME NEW j \in Key
         PROVE  /\ IsFiniteSet(Cells(ToNotify(j)))
                /\ Cardinality(Cells(ToNotify(j))) \in Nat
                /\ arrived[j] + Cardinality(Cells(ToNotify(j))) = sent[j].bytes
    BY <1>10, FS_CardinalityType DEF HtsimInv, HtsimAccounts
  <1>13. /\ IsFiniteSet(Cells(ToNotify(k) \ {e}))
         /\ Cardinality(Cells(ToNotify(k))) = Cardinality(Cells(ToNotify(k) \ {e})) + size
         /\ Cardinality(Cells(ToNotify(k) \ {e})) \in Nat
    BY <1>0, <1>3, <1>11, <1>12, CellsRemoved
  <1>14. HtsimAccounts'
    <2> SUFFICES ASSUME NEW j \in Key
                 PROVE  /\ IsFiniteSet(Cells(ToNotify(j)'))
                        /\ arrived'[j] + BytesHeld(j)' + Cardinality(Cells(ToNotify(j)'))
                             = sent'[j].bytes
      BY DEF HtsimAccounts, Cells
    <2>1. CASE j # k
      <3>1. ToNotify(j)' = ToNotify(j)
        BY <1>0, <1>1, <1>5, <1>7, <2>1 DEF ToNotify
      <3>2. arrived'[j] = arrived[j]
        BY <1>2, <2>1 DEF HtsimInv, Books
      <3> QED
        BY <1>1, <1>10, <1>12, <3>1, <3>2
    <2>2. CASE j = k /\ recv_flow_finish
      <3>1. ToNotify(j)' = ToNotify(k) \ {e}
        BY <1>0, <1>1, <1>3, <1>5, <1>7, <2>2 DEF ToNotify
      <3>2. arrived'[j] = arrived[k] + size
        BY <1>2, <2>2 DEF HtsimInv, Books
      <3>3. arrived[k] + Cardinality(Cells(ToNotify(k))) = sent[k].bytes /\ sent' = sent
        BY <1>1, <1>12
      <3> QED
        BY <1>3, <1>10, <1>13, <2>2, <3>1, <3>2, <3>3
    <2>3. CASE j = k /\ ~recv_flow_finish
      <3>1. ToNotify(j)' = (ToNotify(k) \ {e}) \cup {d} /\ d \notin ToNotify(k) \ {e}
        BY <1>0, <1>1, <1>4, <1>5, <1>7, <2>3 DEF ToNotify
      <3>2. /\ IsFiniteSet(Cells((ToNotify(k) \ {e}) \cup {d}))
            /\ Cardinality(Cells((ToNotify(k) \ {e}) \cup {d}))
                 = Cardinality(Cells(ToNotify(k) \ {e})) + size
        BY <1>3, <1>13, <3>1, CellsAdded
      <3>3. arrived' = arrived /\ sent' = sent
        BY <1>1, <1>2, <2>3
      <3> QED
        BY <1>3, <1>10, <1>12, <1>13, <2>3, <3>1, <3>2, <3>3
    <2> QED
      BY <2>1, <2>2, <2>3
  <1>17. HtsimCalls'
    <2> SUFFICES ASSUME NEW j \in Key
                 PROVE  /\ IsFiniteSet(Unfinished(j)')
                        /\ Cardinality(Unfinished(j)') = sent[j].calls - sent[j].answers
      BY <1>1 DEF HtsimCalls
    <2>1. /\ IsFiniteSet(Unfinished(j))
          /\ Cardinality(Unfinished(j)) = sent[j].calls - sent[j].answers
          /\ Cardinality(Unfinished(j)) \in Nat
      BY FS_CardinalityType DEF HtsimInv, HtsimCalls
    <2>2. CASE j # k
      <3>1. Unfinished(j)' = Unfinished(j)
        BY <1>0, <1>1, <1>5, <1>7, <2>2 DEF Unfinished
      <3> QED
        BY <2>1, <3>1
    <2>3. CASE j = k
      <3>1. /\ Unfinished(j)' = (Unfinished(j) \ {e}) \cup {d}
            /\ e \in Unfinished(j) /\ d \notin Unfinished(j) \ {e}
        BY <1>0, <1>1, <1>4, <1>5, <1>7, <2>3 DEF Unfinished
      <3>2. /\ IsFiniteSet(Unfinished(j) \ {e})
            /\ Cardinality(Unfinished(j) \ {e}) = Cardinality(Unfinished(j)) - 1
        BY <2>1, <3>1, FS_RemoveElement
      <3>3. /\ IsFiniteSet((Unfinished(j) \ {e}) \cup {d})
            /\ Cardinality((Unfinished(j) \ {e}) \cup {d})
                 = Cardinality(Unfinished(j) \ {e}) + 1
        BY <3>1, <3>2, FS_AddElement
      <3>4. Cardinality((Unfinished(j) \ {e}) \cup {d}) = Cardinality(Unfinished(j))
        BY <2>1, <3>2, <3>3
      <3> QED
        BY <2>1, <3>1, <3>3, <3>4
    <2> QED
      BY <2>2, <2>3
  <1>18. ASSUME NEW r \in finished, HtsimQuiet(r),
                \A j \in Key : hashes.waiting[j] = H!Absent => hashes'.waiting[j] = H!Absent
         PROVE  HtsimQuiet(r)'
    <2>1. d.src = r => k \in FireAndForget
      BY <1>0, <1>3, <1>18 DEF HtsimQuiet
    <2>2. \A f \in flows' : f.src = r => Htsim!FlowKey(f)' \in FireAndForget
      BY <1>1, <1>5, <1>7, <1>18, <2>1 DEF HtsimQuiet
    <2>3. \A j \in Key : j.dst = r => hashes'.waiting[j] = H!Absent
      BY <1>18 DEF HtsimQuiet
    <2> QED
      BY <2>2, <2>3 DEF HtsimQuiet, H!Absent
  <1>15. CASE recv_flow_finish
    <2>1. Books(hashes, posted, arrived)
      BY DEF HtsimInv
    <2>2. /\ Books(hashes, posted, arrived)'
          /\ hashes'.answered
               = [hashes.answered EXCEPT ![k] = Covered(posted[k], arrived[k] + size)]
          /\ NoNewWait(hashes', hashes)
      BY <1>1, <1>2, <1>3, <1>15, <2>1, ArrivalStep
    <2>3. HtsimEnds'
      <3>1. ASSUME NEW r \in finished
            PROVE  HtsimQuiet(r)'
        <4>1. HtsimQuiet(r)
          BY DEF HtsimInv, HtsimEnds
        <4> QED
          BY <1>18, <2>2, <4>1 DEF NoNewWait
      <3> QED
        BY <1>1, <3>1 DEF HtsimInv, HtsimEnds
    <2>4. Matching!Arrive(k, size)
      <3>1. arrived[k] + size <= sent[k].bytes
        BY <1>3, <1>10, <1>12, <1>13
      <3> QED
        BY <1>1, <1>2, <1>15, <2>2, <3>1, SameHashes DEF Matching!Arrive
    <2> QED
      BY <1>8, <1>9, <1>14, <1>17, <2>2, <2>3, <2>4 DEF HtsimInv
  <1>16. CASE ~recv_flow_finish
    <2>1. UNCHANGED <<hashes, posted, arrived>>
      BY <1>1, <1>2, <1>16
    <2>2. Books(hashes, posted, arrived)'
      BY <2>1, BooksFrame DEF HtsimInv
    <2>3. HtsimEnds'
      <3>1. ASSUME NEW r \in finished
            PROVE  HtsimQuiet(r)'
        <4>1. HtsimQuiet(r)
          BY DEF HtsimInv, HtsimEnds
        <4> QED
          BY <1>18, <2>1, <4>1
      <3> QED
        BY <1>1, <3>1 DEF HtsimInv, HtsimEnds
    <2>4. UNCHANGED Matching!bvars
      BY <1>1, <2>1 DEF Matching!bvars
    <2> QED
      BY <1>8, <1>9, <1>14, <1>17, <2>2, <2>3, <2>4 DEF HtsimInv
  <1> QED
    BY <1>15, <1>16

(***************************************************************************)
(* flow_finish_send up to the sender's handler: if the sink has not        *)
(* notified the receiver, the bytes of the flow are in the frame.          *)
(***************************************************************************)
LEMMA HtsimFinishKeeps ==
    ASSUME HtsimInv, kind = "htsim", kind' = kind, NEW e \in flows,
           Htsim!flow_finish_send(e)
    PROVE  HtsimInv' /\ UNCHANGED Matching!bvars
  <1>0. PICK k \in Key, size \in Size : k = Htsim!FlowKey(e) /\ size = e.size
    BY DEF HtsimInv, OwnIds, HtsimType, HtsimFlow
  <1>1. /\ frame = Htsim!Idle /\ e.sunk
        /\ flows' = flows \ {e}
        /\ send_waiting' = send_waiting \ {<<k, e.id>>}
        /\ frame' = [at |-> "send_handler", key |-> k, size |-> size]
        /\ UNCHANGED <<recv_flow_finish, flow_id, flow_id_to_tag>>
        /\ sent' = [sent EXCEPT ![k].answers = @ + 1]
        /\ UNCHANGED <<hashes, finished, num_unfinished_ranks_, stopped, posted, arrived>>
    BY <1>0 DEF Htsim!flow_finish_send, Htsim!tracker
  <1>2. size \in Nat
    BY ConstantFacts DEF Bytes
  <1>3. \A f : Htsim!FlowKey(f)' = Htsim!FlowKey(f)
    BY <1>1 DEF Htsim!FlowKey
  <1>4. \A f \in flows' : f \in flows /\ Htsim!Found(f)'
    <2> SUFFICES ASSUME NEW f \in flows, f # e
                 PROVE  Htsim!Found(f)'
      BY <1>1
    <2>1. f.id # e.id /\ <<Htsim!FlowKey(f), f.id>> \in send_waiting
      BY DEF HtsimInv, OwnIds, Htsim!Found
    <2> QED
      BY <1>1, <1>3, <2>1 DEF Htsim!Found
  <1>5. OwnIds'
    BY <1>1, <1>3, <1>4 DEF HtsimInv, OwnIds
  <1>6. HtsimType'
    <2>1. sent' \in [Key -> [calls : Nat, answers : Nat, bytes : Nat]]
      BY <1>1 DEF HtsimInv, HtsimType
    <2> QED
      BY <1>1, <2>1 DEF HtsimInv, HtsimType, HtsimFlow, Htsim!FlowId, Htsim!Idle
  <1>11. ASSUME NEW j \in Key
         PROVE  /\ sent[j].calls \in Nat /\ sent[j].answers \in Nat
                /\ sent'[j].calls = sent[j].calls /\ sent'[j].bytes = sent[j].bytes
                /\ sent'[j].answers = sent[j].answers + (IF j = k THEN 1 ELSE 0)
    BY <1>1 DEF HtsimInv, HtsimType
  <1>12. HtsimCalls'
    <2> SUFFICES ASSUME NEW j \in Key
                 PROVE  /\ IsFiniteSet(Unfinished(j)')
                        /\ Cardinality(Unfinished(j)') = sent'[j].calls - sent'[j].answers
      BY DEF HtsimCalls
    <2>1. /\ IsFiniteSet(Unfinished(j))
          /\ Cardinality(Unfinished(j)) = sent[j].calls - sent[j].answers
      BY DEF HtsimInv, HtsimCalls
    <2>2. /\ Unfinished(j)' = IF j = k THEN Unfinished(k) \ {e} ELSE Unfinished(j)
          /\ e \in Unfinished(k)
      BY <1>0, <1>1, <1>3 DEF Unfinished
    <2>3. CASE j # k
      BY <1>11, <2>1, <2>2, <2>3
    <2>4. CASE j = k
      <3>1. /\ IsFiniteSet(Unfinished(k) \ {e})
            /\ Cardinality(Unfinished(k) \ {e}) = Cardinality(Unfinished(k)) - 1
        BY <2>1, <2>2, <2>4, FS_RemoveElement
      <3> QED
        BY <1>11, <2>1, <2>2, <2>4, <3>1
    <2> QED
      BY <2>3, <2>4
  <1>7. HtsimAccounts'
    <2> SUFFICES ASSUME NEW j \in Key
                 PROVE  /\ IsFiniteSet(Cells(ToNotify(j)'))
                        /\ arrived'[j] + BytesHeld(j)' + Cardinality(Cells(ToNotify(j)'))
                             = sent'[j].bytes
      BY DEF HtsimAccounts, Cells
    <2>1. /\ BytesHeld(j) = 0
          /\ BytesHeld(j)' = IF ~recv_flow_finish /\ j = k THEN size ELSE 0
      BY <1>1 DEF BytesHeld, Htsim!Idle
    <2>2. arrived[j] \in Nat
      BY DEF HtsimInv, Books
    <2>3. /\ IsFiniteSet(Cells(ToNotify(j)))
          /\ Cardinality(Cells(ToNotify(j))) \in Nat
          /\ arrived[j] + Cardinality(Cells(ToNotify(j))) = sent[j].bytes
      BY <2>1, <2>2, FS_CardinalityType DEF HtsimInv, HtsimAccounts
    <2>4. CASE recv_flow_finish \/ j # k
      <3>1. ToNotify(j)' = ToNotify(j)
        BY <1>0, <1>1, <1>3, <2>4 DEF ToNotify
      <3> QED
        BY <1>1, <1>11, <2>1, <2>2, <2>3, <2>4, <3>1
    <2>5. CASE ~recv_flow_finish /\ j = k
      <3>1. ToNotify(j)' = ToNotify(k) \ {e} /\ e \in ToNotify(k)
        BY <1>0, <1>1, <1>3, <2>5 DEF ToNotify
      <3>2. /\ IsFiniteSet(Cells(ToNotify(k) \ {e}))
            /\ Cardinality(Cells(ToNotify(k)))
                 = Cardinality(Cells(ToNotify(k) \ {e})) + size
            /\ Cardinality(Cells(ToNotify(k) \ {e})) \in Nat
        BY <1>0, <1>2, <2>3, <2>5, <3>1, CellsRemoved
      <3> QED
        BY <1>1, <1>2, <1>11, <2>1, <2>2, <2>3, <2>5, <3>1, <3>2
    <2> QED
      BY <2>4, <2>5
  <1>8. HtsimEnds'
    <2>1. ASSUME NEW r \in finished
          PROVE  HtsimQuiet(r)'
      <3>1. HtsimQuiet(r)
        BY DEF HtsimInv, HtsimEnds
      <3> QED
        BY <1>1, <1>3, <3>1, HtsimQuietFrame
    <2> QED
      BY <1>1, <2>1 DEF HtsimInv, HtsimEnds
  <1>9. Books(hashes, posted, arrived)'
    BY <1>1, BooksFrame DEF HtsimInv
  <1>10. UNCHANGED Matching!bvars
    <2>1. [j \in Key |-> sent'[j].bytes] = [j \in Key |-> sent[j].bytes]
      BY <1>11
    <2> QED
      BY <1>1, <2>1 DEF Matching!bvars
  <1> QED
    BY <1>5, <1>6, <1>7, <1>8, <1>9, <1>10, <1>12 DEF HtsimInv

(***************************************************************************)
(* The end of flow_finish_send: the bytes in the frame arrive, unless the  *)
(* sink has notified the receiver before.                                  *)
(***************************************************************************)
LEMMA HtsimReturnsKeeps ==
    ASSUME HtsimInv, kind = "htsim", kind' = kind, Htsim!send_handler_returns
    PROVE  /\ HtsimInv'
           /\ \/ \E k \in Key, size \in Size : Matching!Arrive(k, size)
              \/ UNCHANGED Matching!bvars
  <1>0. PICK k \in Key, size \in Size : k = frame.key /\ size = frame.size
    BY DEF Htsim!send_handler_returns, HtsimInv, HtsimType
  <1>1. /\ frame # Htsim!Idle /\ frame' = Htsim!Idle
        /\ UNCHANGED <<recv_flow_finish, flow_id, flow_id_to_tag, send_waiting, flows>>
        /\ UNCHANGED <<sent, finished, num_unfinished_ranks_, stopped, posted>>
    BY DEF Htsim!send_handler_returns, Htsim!sendside, Htsim!tracker
  <1>2. IF recv_flow_finish
        THEN hashes' = hashes /\ arrived' = arrived
        ELSE /\ hashes' = H!ReceiveData(hashes, k, size)
             /\ arrived' = [arrived EXCEPT ![k] = arrived[k] + size]
    BY <1>0, SameHashes DEF Htsim!send_handler_returns,
                            Htsim!notify_receiver_receive_data
  <1>3. size \in Bytes /\ size \in Nat
    BY ConstantFacts DEF Bytes
  <1>4. /\ OwnIds' /\ \A j \in Key : ToNotify(j)' = ToNotify(j)
        /\ \A j \in Key : Unfinished(j)' = Unfinished(j)
        /\ \A f : Htsim!FlowKey(f)' = Htsim!FlowKey(f)
    BY <1>1, HtsimFlowsFrame
  <1>5. HtsimType'
    BY <1>1 DEF HtsimInv, HtsimType, HtsimFlow, Htsim!FlowId, Htsim!Idle
  <1>6. ASSUME NEW j \in Key
        PROVE  /\ arrived[j] \in Nat
               /\ BytesHeld(j)' = 0
               /\ BytesHeld(j) = IF ~recv_flow_finish /\ j = k THEN size ELSE 0
               /\ arrived'[j] = arrived[j] + BytesHeld(j)
    <2>1. arrived \in [Key -> Nat]
      BY DEF HtsimInv, Books
    <2>2. /\ BytesHeld(j)' = 0
          /\ BytesHeld(j) = IF ~recv_flow_finish /\ j = k THEN size ELSE 0
      BY <1>0, <1>1 DEF BytesHeld
    <2> QED
      BY <1>2, <1>3, <2>1, <2>2
  <1>7. ASSUME NEW j \in Key
        PROVE  /\ IsFiniteSet(Cells(ToNotify(j)))
               /\ Cardinality(Cells(ToNotify(j))) \in Nat
               /\ arrived[j] + BytesHeld(j) + Cardinality(Cells(ToNotify(j))) = sent[j].bytes
    BY FS_CardinalityType DEF HtsimInv, HtsimAccounts
  <1>8. HtsimAccounts'
    <2> SUFFICES ASSUME NEW j \in Key
                 PROVE  /\ IsFiniteSet(Cells(ToNotify(j)'))
                        /\ arrived'[j] + BytesHeld(j)' + Cardinality(Cells(ToNotify(j)'))
                             = sent'[j].bytes
      BY DEF HtsimAccounts, Cells
    <2>1. arrived[j] + BytesHeld(j) \in Nat
      BY <1>3, <1>6
    <2> QED
      BY <1>1, <1>4, <1>6, <1>7, <2>1
  <1>11. HtsimCalls'
    BY <1>1, <1>4 DEF HtsimInv, HtsimCalls
  <1>9. CASE ~recv_flow_finish
    <2>1. Books(hashes, posted, arrived)
      BY DEF HtsimInv
    <2>2. /\ Books(hashes, posted, arrived)'
          /\ hashes'.answered
               = [hashes.answered EXCEPT ![k] = Covered(posted[k], arrived[k] + size)]
          /\ NoNewWait(hashes', hashes)
      BY <1>1, <1>2, <1>3, <1>9, <2>1, ArrivalStep
    <2>3. HtsimEnds'
      <3>1. ASSUME NEW r \in finished
            PROVE  HtsimQuiet(r)'
        <4>1. HtsimQuiet(r)
          BY DEF HtsimInv, HtsimEnds
        <4> QED
          BY <1>1, <1>4, <2>2, <4>1, HtsimQuietFrame DEF NoNewWait
      <3> QED
        BY <1>1, <3>1 DEF HtsimInv, HtsimEnds
    <2>4. Matching!Arrive(k, size)
      <3>1. arrived[k] + size <= sent[k].bytes
        BY <1>3, <1>6, <1>7, <1>9
      <3> QED
        BY <1>1, <1>2, <1>9, <2>2, <3>1, SameHashes DEF Matching!Arrive
    <2> QED
      BY <1>4, <1>5, <1>8, <1>11, <2>2, <2>3, <2>4 DEF HtsimInv
  <1>10. CASE recv_flow_finish
    <2>1. UNCHANGED <<hashes, posted, arrived>>
      BY <1>1, <1>2, <1>10
    <2>2. Books(hashes, posted, arrived)'
      BY <2>1, BooksFrame DEF HtsimInv
    <2>3. HtsimEnds'
      <3>1. ASSUME NEW r \in finished
            PROVE  HtsimQuiet(r)'
        <4>1. HtsimQuiet(r)
          BY DEF HtsimInv, HtsimEnds
        <4> QED
          BY <1>1, <1>4, <2>1, <4>1, HtsimQuietFrame
      <3> QED
        BY <1>1, <3>1 DEF HtsimInv, HtsimEnds
    <2>4. UNCHANGED Matching!bvars
      BY <1>1, <2>1 DEF Matching!bvars
    <2> QED
      BY <1>4, <1>5, <1>8, <1>11, <2>2, <2>3, <2>4 DEF HtsimInv
  <1> QED
    BY <1>9, <1>10

(***************************************************************************)
(* mark_rank_as_finished of htsim.                                         *)
(***************************************************************************)
LEMMA HtsimMarkKeeps ==
    ASSUME HtsimInv, kind = "htsim", kind' = kind, NEW r \in Rank,
           Htsim!mark_rank_as_finished(r)
    PROVE  HtsimInv' /\ UNCHANGED Matching!bvars
  <1>1. /\ Htsim!HandlersRun(r) /\ finished' = finished \cup {r}
        /\ num_unfinished_ranks_'
             = num_unfinished_ranks_ - (IF r \in finished THEN 0 ELSE 1)
        /\ stopped' = (num_unfinished_ranks_' = 0)
        /\ UNCHANGED <<flow_id, flow_id_to_tag, send_waiting, flows, recv_flow_finish>>
        /\ UNCHANGED <<hashes, frame, posted, arrived, sent>>
    BY DEF Htsim!mark_rank_as_finished, Htsim!newly_finished, Htsim!sendside
  <1>2. /\ num_unfinished_ranks_' = Cardinality(Rank \ finished')
        /\ num_unfinished_ranks_' = 0 => finished' = Rank
    <2>1. PICK left : left = num_unfinished_ranks_'
      OBVIOUS
    <2>2. finished \subseteq Rank /\ num_unfinished_ranks_ = Cardinality(Rank \ finished)
      BY DEF HtsimInv, HtsimType, HtsimEnds
    <2>3. /\ left = Cardinality(Rank \ (finished \cup {r}))
          /\ left = 0 => finished \cup {r} = Rank
      BY <1>1, <2>1, <2>2, RankCounted
    <2> QED
      BY <1>1, <2>1, <2>3
  <1>3. /\ OwnIds' /\ \A j \in Key : ToNotify(j)' = ToNotify(j)
        /\ \A j \in Key : Unfinished(j)' = Unfinished(j)
        /\ \A f : Htsim!FlowKey(f)' = Htsim!FlowKey(f)
    BY <1>1, HtsimFlowsFrame
  <1>4. HtsimType'
    <2>1. stopped' \in BOOLEAN
      BY <1>1
    <2> QED
      BY <1>1, <2>1 DEF HtsimInv, HtsimType, HtsimFlow, Htsim!FlowId, Htsim!Idle
  <1>5. HtsimAccounts'
    <2>1. \A j \in Key : BytesHeld(j)' = BytesHeld(j)
      BY <1>1 DEF BytesHeld, Htsim!Idle
    <2> QED
      BY <1>1, <1>3, <2>1 DEF HtsimInv, HtsimAccounts, Cells
  <1>6. HtsimQuiet(r)
    <2>1. ASSUME NEW k \in Key, k.dst = r
          PROVE  hashes.waiting[k] = H!Absent
      <3>1. 1 .. Len(posted[k]) \subseteq hashes.answered[k]
        BY <1>1, <2>1 DEF Htsim!HandlersRun
      <3> QED
        BY <3>1, AnsweredNoWait DEF HtsimInv
    <2>2. ASSUME NEW f \in flows, f.src = r, Htsim!FlowKey(f) \notin FireAndForget
          PROVE  FALSE
      <3>1. PICK k \in Key : k = Htsim!FlowKey(f)
        BY DEF HtsimInv, OwnIds
      <3>2. k.src = r
        BY <2>2, <3>1 DEF Htsim!FlowKey
      <3>3. sent[k].answers = sent[k].calls /\ sent[k].calls \in Nat
        BY <1>1, <2>2, <3>1, <3>2 DEF Htsim!HandlersRun, HtsimInv, HtsimType
      <3>4. IsFiniteSet(Unfinished(k)) /\ Cardinality(Unfinished(k)) = 0
        BY <3>3 DEF HtsimInv, HtsimCalls
      <3> QED
        BY <3>1, <3>4, FS_EmptySet DEF Unfinished
    <2> QED
      BY <2>1, <2>2 DEF HtsimQuiet
  <1>9. HtsimCalls'
    BY <1>1, <1>3 DEF HtsimInv, HtsimCalls
  <1>10. HtsimEnds'
    <2>1. ASSUME NEW q \in finished'
          PROVE  HtsimQuiet(q)'
      <3>1. HtsimQuiet(q)
        BY <1>1, <1>6 DEF HtsimInv, HtsimEnds
      <3> QED
        BY <1>1, <1>3, <3>1, HtsimQuietFrame
    <2> QED
      BY <1>1, <1>2, <2>1 DEF HtsimEnds
  <1>7. Books(hashes, posted, arrived)'
    BY <1>1, BooksFrame DEF HtsimInv
  <1>8. UNCHANGED Matching!bvars
    BY <1>1 DEF Matching!bvars
  <1> QED
    BY <1>3, <1>4, <1>5, <1>7, <1>8, <1>9, <1>10 DEF HtsimInv

\* htsim starts with no flow, nothing posted and no rank finished.
LEMMA HtsimInitInv == InitHtsim => HtsimInv /\ Matching!BInit
  <1> SUFFICES ASSUME InitHtsim PROVE HtsimInv /\ Matching!BInit
    OBVIOUS
  <1>1. /\ kind = "htsim" /\ stopped = FALSE /\ finished = {} /\ flows = {}
        /\ recv_flow_finish \in BOOLEAN /\ flow_id = 0
        /\ flow_id_to_tag = [i \in Htsim!FlowId |-> 0]
        /\ hashes = H!NoHashes /\ frame = Htsim!Idle
        /\ num_unfinished_ranks_ = Cardinality(Rank)
        /\ posted = [k \in Key |-> <<>>] /\ arrived = [k \in Key |-> 0]
        /\ sent = [k \in Key |-> [calls |-> 0, answers |-> 0, bytes |-> 0]]
    BY SameHashes DEF InitHtsim, Htsim!Init, Htsim!Cardinality, Cardinality
  <1>2. Books(hashes, posted, arrived)
    BY <1>1, EmptyBooks
  <1>3. HtsimMaxSends \in Nat
    BY NetworkAssumption DEF Htsim!BoundAssumption
  <1>4. HtsimType /\ OwnIds
    <2>1. recv_flow_finish \in BOOLEAN /\ stopped \in BOOLEAN
      BY <1>1
    <2>2. flow_id \in 0 .. HtsimMaxSends /\ flow_id_to_tag \in [Htsim!FlowId -> Nat]
      BY <1>1, <1>3
    <2>3. /\ sent \in [Key -> [calls : Nat, answers : Nat, bytes : Nat]]
          /\ finished \subseteq Rank /\ flows \subseteq HtsimFlow
      BY <1>1
    <2> QED
      BY <1>1, <2>1, <2>2, <2>3, Zenon DEF HtsimType, OwnIds
  <1>5. HtsimAccounts
    <2>1. \A k \in Key : Cells(ToNotify(k)) = {} /\ BytesHeld(k) = 0
      BY <1>1 DEF ToNotify, Cells, BytesHeld
    <2>2. IsFiniteSet({}) /\ Cardinality({}) = 0
      BY FS_EmptySet
    <2>3. \A k \in Key : sent[k].bytes = 0 /\ arrived[k] = 0
      BY <1>1
    <2>4. ASSUME NEW k \in Key
          PROVE  /\ IsFiniteSet(Cells(ToNotify(k)))
                 /\ arrived[k] + BytesHeld(k) + Cardinality(Cells(ToNotify(k)))
                      = sent[k].bytes
      BY <2>1, <2>2, <2>3
    <2> QED
      BY <2>4 DEF HtsimAccounts
  <1>6. HtsimEnds
    <2>1. Rank \ {} = Rank
      OBVIOUS
    <2> QED
      BY <1>1, <2>1 DEF HtsimEnds
  <1>7. Matching!BInit
    BY <1>1 DEF Matching!BInit, H!NoHashes
  <1>8. HtsimCalls
    <2>1. \A k \in Key : Unfinished(k) = {} /\ sent[k].calls = 0 /\ sent[k].answers = 0
      BY <1>1 DEF Unfinished
    <2> QED
      BY <2>1, FS_EmptySet DEF HtsimCalls
  <1> QED
    BY <1>2, <1>4, <1>5, <1>6, <1>7, <1>8 DEF HtsimInv

\* Every step of htsim keeps its invariant and is one that ByteMatching allows.
LEMMA HtsimNextInv ==
    ASSUME HtsimInv, NextHtsim
    PROVE  HtsimInv' /\ [Matching!BNext]_(Matching!bvars)
  <1>1. kind = "htsim" /\ kind' = kind /\ Htsim!Next
    BY DEF NextHtsim
  <1>2. ASSUME NEW k \in Key, NEW size \in Size, Htsim!sim_send(k, size)
        PROVE  HtsimInv' /\ Matching!BNext
    BY <1>1, <1>2, HtsimSendKeeps DEF Matching!BNext
  <1>3. ASSUME NEW k \in Key, NEW size \in Size,
               Htsim!OneAtATime(k), Htsim!sim_recv(k, size)
        PROVE  HtsimInv' /\ Matching!BNext
    BY <1>1, <1>3, HtsimRecvKeeps DEF Matching!BNext
  <1>4. ASSUME NEW f \in flows, Htsim!flow_finish_recv(f)
        PROVE  HtsimInv' /\ (Matching!BNext \/ UNCHANGED Matching!bvars)
    BY <1>1, <1>4, HtsimSinkKeeps DEF Matching!BNext
  <1>5. ASSUME NEW f \in flows, Htsim!flow_finish_send(f)
        PROVE  HtsimInv' /\ UNCHANGED Matching!bvars
    BY <1>1, <1>5, HtsimFinishKeeps
  <1>6. ASSUME Htsim!send_handler_returns
        PROVE  HtsimInv' /\ (Matching!BNext \/ UNCHANGED Matching!bvars)
    BY <1>1, <1>6, HtsimReturnsKeeps DEF Matching!BNext
  <1>7. ASSUME NEW r \in Rank, Htsim!mark_rank_as_finished(r)
        PROVE  HtsimInv' /\ UNCHANGED Matching!bvars
    BY <1>1, <1>7, HtsimMarkKeeps
  <1> QED
    BY <1>1, <1>2, <1>3, <1>4, <1>5, <1>6, <1>7 DEF Htsim!Next

-----------------------------------------------------------------------------
\* The invariant holds at the start, whichever front end was built.
LEMMA InitIInv == Init => IInv /\ Matching!BInit
  BY Ns3InitInv, HtsimInitInv DEF Init, InitNs3, InitHtsim, IInv

\* Every step keeps the invariant and is one that ByteMatching allows.
LEMMA NextIInv ==
    ASSUME IInv, [Next]_vars
    PROVE  IInv' /\ [Matching!BNext]_(Matching!bvars)
  <1>1. CASE NextNs3
    <2>1. kind = "ns3" /\ kind' = "ns3" /\ Ns3Inv
      BY <1>1 DEF NextNs3, IInv
    <2> QED
      BY <1>1, <2>1, Ns3NextInv DEF IInv
  <1>2. CASE NextHtsim
    <2>1. kind = "htsim" /\ kind' = "htsim" /\ HtsimInv
      BY <1>2 DEF NextHtsim, IInv
    <2> QED
      BY <1>2, <2>1, HtsimNextInv DEF IInv
  <1>3. CASE UNCHANGED vars
    <2>1. /\ UNCHANGED <<kind, hashes, flows, frame, finished, num_unfinished_ranks_>>
          /\ UNCHANGED <<posted, arrived, sent>>
          /\ UNCHANGED <<portNumber, sender_src_port_map, sim_send_waiting_hash>>
          /\ UNCHANGED <<recv_flow_finish, flow_id, flow_id_to_tag, send_waiting>>
          /\ UNCHANGED <<status, stopped>>
      BY <1>3 DEF vars, ns3vars, htsimvars
    <2>2. UNCHANGED Matching!bvars
      BY <2>1 DEF Matching!bvars
    <2>3. ASSUME Ns3Inv PROVE Ns3Inv'
      <3>1. /\ OwnPorts' /\ \A j \in Key : OpenFlows(j)' = OpenFlows(j)
            /\ \A f : Ns3!FlowKey(f)' = Ns3!FlowKey(f)
        BY <2>1, <2>3, Ns3FlowsFrame
      <3>2. Ns3Type'
        BY <2>1, <2>3 DEF Ns3Inv, Ns3Type, Ns3!Idle
      <3>3. Ns3Accounts'
        <4>1. \A j \in Key : BytesInFrame(j)' = BytesInFrame(j)
          BY <2>1 DEF BytesInFrame, Ns3!Idle
        <4> QED
          BY <2>1, <2>3, <3>1, <4>1 DEF Ns3Inv, Ns3Accounts, Cells
      <3>4. Ns3Ends'
        <4>1. ASSUME NEW q \in finished
              PROVE  Ns3Quiet(q)'
          <5>1. Ns3Quiet(q)
            BY <2>3 DEF Ns3Inv, Ns3Ends
          <5> QED
            BY <2>1, <3>1, <5>1, Ns3QuietFrame
        <4> QED
          BY <2>1, <2>3, <4>1 DEF Ns3Inv, Ns3Ends
      <3> QED
        BY <2>1, <2>3, <3>1, <3>2, <3>3, <3>4, BooksFrame DEF Ns3Inv
    <2>4. ASSUME HtsimInv PROVE HtsimInv'
      <3>1. /\ OwnIds' /\ \A j \in Key : ToNotify(j)' = ToNotify(j)
            /\ \A j \in Key : Unfinished(j)' = Unfinished(j)
            /\ \A f : Htsim!FlowKey(f)' = Htsim!FlowKey(f)
        BY <2>1, <2>4, HtsimFlowsFrame
      <3>2. HtsimType'
        BY <2>1, <2>4 DEF HtsimInv, HtsimType, HtsimFlow, Htsim!FlowId, Htsim!Idle
      <3>3. HtsimAccounts'
        <4>1. \A j \in Key : BytesHeld(j)' = BytesHeld(j)
          BY <2>1 DEF BytesHeld, Htsim!Idle
        <4> QED
          BY <2>1, <2>4, <3>1, <4>1 DEF HtsimInv, HtsimAccounts, Cells
      <3>5. HtsimCalls'
        BY <2>1, <2>4, <3>1 DEF HtsimInv, HtsimCalls
      <3>4. HtsimEnds'
        <4>1. ASSUME NEW q \in finished
              PROVE  HtsimQuiet(q)'
          <5>1. HtsimQuiet(q)
            BY <2>4 DEF HtsimInv, HtsimEnds
          <5> QED
            BY <2>1, <3>1, <5>1, HtsimQuietFrame
        <4> QED
          BY <2>1, <2>4, <4>1 DEF HtsimInv, HtsimEnds
      <3> QED
        BY <2>1, <2>4, <3>1, <3>2, <3>3, <3>4, <3>5, BooksFrame DEF HtsimInv
    <2> QED
      BY <2>1, <2>2, <2>3, <2>4 DEF IInv
  <1> QED
    BY <1>1, <1>2, <1>3 DEF Next

\* In every state of either front end its flows, maps, counters and books
\* agree: what sim_send, sim_recv and the flow callbacks rely on.
THEOREM Invariance == Spec => []IInv
  <1>1. Init => IInv
    BY InitIInv
  <1>2. IInv /\ [Next]_vars => IInv'
    BY NextIInv
  <1> QED
    BY <1>1, <1>2, PTL DEF Spec

\* The error exits of qp_finish and the assert of notify_sender_sending_finished
\* are never reached.
THEOREM EverySendFound == Spec => []SendsFound
  <1>1. IInv => SendsFound
    BY DEF IInv, SendsFound, Ns3Inv, OwnPorts, HtsimInv, OwnIds, Ns3!NoErrorExit,
           Htsim!SendsFound
  <1> QED
    BY <1>1, Invariance, PTL

\* mark_rank_as_finished ends the simulation only when no rank waits for a send
\* or a receive: ranks report when their handlers have run, with sends of native
\* collectives possibly under way, and the front end's maps and flows then hold
\* nothing else.
THEOREM NothingLostAtTheEnd == Spec => []EndLosesNothing
  <1>1. ASSUME IInv, kind = "ns3" PROVE Ns3!EndLosesNothing
    <2> SUFFICES ASSUME status = "done"
                 PROVE  /\ \A k \in Key : hashes.waiting[k] = H!Absent
                        /\ \A f \in flows : Ns3!FlowKey(f) \in FireAndForget
      BY SameHashes DEF Ns3!EndLosesNothing
    <2>1. \A r \in Rank : Ns3Quiet(r)
      BY <1>1 DEF IInv, Ns3Inv, Ns3Ends
    <2>2. \A f \in flows : f.src \in Rank
      BY <1>1 DEF IInv, Ns3Inv, Ns3Type, Ns3Flow
    <2> QED
      BY <2>1, <2>2, ConstantFacts DEF Ns3Quiet
  <1>2. ASSUME IInv, kind = "htsim" PROVE Htsim!StopLosesNothing
    <2> SUFFICES ASSUME stopped
                 PROVE  /\ \A k \in Key : hashes.waiting[k] = H!Absent
                        /\ \A f \in flows : Htsim!FlowKey(f) \in FireAndForget
      BY SameHashes DEF Htsim!StopLosesNothing
    <2>1. \A r \in Rank : HtsimQuiet(r)
      BY <1>2 DEF IInv, HtsimInv, HtsimEnds
    <2>2. \A f \in flows : f.src \in Rank
      BY <1>2 DEF IInv, HtsimInv, HtsimType, HtsimFlow
    <2> QED
      BY <2>1, <2>2, ConstantFacts DEF HtsimQuiet
  <1>3. IInv => EndLosesNothing
    BY <1>1, <1>2 DEF IInv, EndLosesNothing
  <1> QED
    BY <1>3, Invariance, PTL

\* Whichever front end is built, and whichever end of a flow notifies the
\* receiver, receives are answered as ByteMatching says.
THEOREM Refinement == Spec => ImplementsByteMatching
  <1>1. Init => Matching!BInit
    BY InitIInv
  <1>2. IInv /\ [Next]_vars => [Matching!BNext]_(Matching!bvars)
    BY NextIInv
  <1> QED
    BY <1>1, <1>2, Invariance, PTL DEF Spec, ImplementsByteMatching, Matching!BSpec
=============================================================================
