----------------------------- MODULE ByteMatching -----------------------------
(***************************************************************************)
(* What the ns-3 and htsim front ends promise.  They match messages and    *)
(* receives of a key (tag, source, destination) by counting bytes: the     *)
(* receives of a key are answered in the order of their calls, and the     *)
(* n-th one at the moment the bytes that have arrived cover the first n.   *)
(* No more arrives than was sent.                                          *)
(***************************************************************************)
EXTENDS Integers, Sequences

CONSTANTS Key,   \* the keys (tag, source, destination) in use
          Size   \* the sizes of messages and receives

VARIABLES
    sent,      \* [Key -> Nat]: bytes of the messages sent
    arrived,   \* [Key -> Nat]: bytes of the messages that have arrived
    posted,    \* [Key -> Seq(Nat)]: for each receive, bytes up to and with it
    answered   \* [Key -> SUBSET Nat]: the receives whose handler has run

bvars == <<sent, arrived, posted, answered>>

BInit ==
    /\ sent = [k \in Key |-> 0]
    /\ arrived = [k \in Key |-> 0]
    /\ posted = [k \in Key |-> <<>>]
    /\ answered = [k \in Key |-> {}]

Total(list) == IF list = <<>> THEN 0 ELSE list[Len(list)]

Covered(list, bytes) == {n \in 1 .. Len(list) : list[n] <= bytes}

Send(k, s) ==
    /\ sent' = [sent EXCEPT ![k] = @ + s]
    /\ UNCHANGED <<arrived, posted, answered>>

Arrive(k, s) ==
    /\ arrived[k] + s <= sent[k]
    /\ arrived' = [arrived EXCEPT ![k] = @ + s]
    /\ answered' = [answered EXCEPT ![k] = Covered(posted[k], arrived[k] + s)]
    /\ UNCHANGED <<sent, posted>>

Post(k, s) ==
    LET list == Append(posted[k], Total(posted[k]) + s) IN
    /\ posted' = [posted EXCEPT ![k] = list]
    /\ answered' = [answered EXCEPT ![k] = Covered(list, arrived[k])]
    /\ UNCHANGED <<sent, arrived>>

BNext == \E k \in Key, s \in Size : Send(k, s) \/ Arrive(k, s) \/ Post(k, s)

BSpec == BInit /\ [][BNext]_bvars
=============================================================================
