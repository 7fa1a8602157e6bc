------------------------------- MODULE FrontEnd --------------------------------
(***************************************************************************)
(* Sys::front_end_sim_send and front_end_sim_recv: how the system layer    *)
(* maps the sends and receives of the workload and the collectives to      *)
(* calls of the network, with and without the rendezvous protocol.         *)
(*                                                                         *)
(* With rendezvous, a receive first sends a token to the other rank and is *)
(* posted when the token has left; a send first receives a token and is    *)
(* made when the token has arrived.  Tokens have one size, so that all     *)
(* sends of a source, destination and tag share them, whatever their size. *)
(*                                                                         *)
(* The network is the one of MessageMatching, per source, destination, tag *)
(* and size, and completes what is alike in the order of the calls.  All   *)
(* callers pass a delay of 0, so the delayed calls are left out.           *)
(***************************************************************************)
EXTENDS Integers, Sequences, FiniteSetsExt

CONSTANTS
    Key,         \* what is sent: src, dst, tag, size and type
    TagRange,    \* tags per type (500000000 in Sys.hh)
    MaxPosts,    \* bound on the sends, and on the receives, of a key
    MaxTotal     \* bound on all sends, and on all receives

(***************************************************************************)
(* Tags of one type that are equal modulo TagRange are one tag to the       *)
(* network; no two keys considered here are.                               *)
(***************************************************************************)
ASSUME KeyAssumption ==
    /\ TagRange \in Nat \ {0} /\ MaxPosts \in Nat /\ MaxTotal \in Nat
    /\ \A k \in Key :
          /\ k = [src |-> k.src, dst |-> k.dst, tag |-> k.tag, size |-> k.size,
                  type |-> k.type]
          /\ k.type \in {"NATIVE", "COLLECTIVE"}
          /\ k.tag \in Nat /\ k.size \in Nat \ {0} /\ k.src # k.dst
    /\ \A k, l \in Key :
          k.type = l.type /\ k.tag % TagRange = l.tag % TagRange => k.tag = l.tag

VARIABLES
    rendezvous_enabled,
    posted,    \* the sends and receives of the front end, in order, per token key
    tokens,    \* per token key: tokens sent, sent completely and received
    network    \* per message of the network: sends and receives made and completed

vars == <<rendezvous_enabled, posted, tokens, network>>

-----------------------------------------------------------------------------
(***************************************************************************)
(* An operator named ..._Mut... is the operator it precedes with a         *)
(* plausible slip in it; no specification uses it.                         *)
(***************************************************************************)
NATIVE == 0
COLLECTIVE == NATIVE + TagRange
RENDEZVOUS == COLLECTIVE + TagRange

Tag(k) ==
    IF k.type = "NATIVE"
    THEN (k.tag % (COLLECTIVE - NATIVE)) + NATIVE
    ELSE (k.tag % (RENDEZVOUS - COLLECTIVE)) + COLLECTIVE

\* The message of k on the network, and its token, which goes the other way.
Message(k) == [src |-> k.src, dst |-> k.dst, tag |-> Tag(k), size |-> k.size]

Token(k) == [src |-> k.dst, dst |-> k.src, tag |-> Tag(k) + RENDEZVOUS]

Messages == {Message(k) : k \in Key}

Tokens == {Token(k) : k \in Key}

Init ==
    /\ rendezvous_enabled \in BOOLEAN
    /\ posted = [t \in Tokens |-> [sends |-> <<>>, recvs |-> <<>>]]
    /\ tokens = [t \in Tokens |-> [left |-> 0, arrived |-> 0]]
    /\ network = [m \in Messages |->
                     [sends |-> 0, recvs |-> 0, sent |-> 0, received |-> 0]]

sim_send(k) == network' = [network EXCEPT ![Message(k)].sends = @ + 1]

sim_recv(k) == network' = [network EXCEPT ![Message(k)].recvs = @ + 1]

Count(list, k) == Cardinality({i \in 1 .. Len(list) : list[i] = k})

Total(what) == MapThenSumSet(LAMBDA t : Len(posted[t][what]), Tokens)

(***************************************************************************)
(* front_end_sim_send: without rendezvous the send is made; with it, a     *)
(* receive of the token is posted, which keeps the send (RendezvousSend).  *)
(***************************************************************************)
front_end_sim_send(k) ==
    /\ Count(posted[Token(k)].sends, k) < MaxPosts /\ Total("sends") < MaxTotal
    /\ posted' = [posted EXCEPT ![Token(k)].sends = Append(@, k)]
    /\ IF rendezvous_enabled THEN UNCHANGED network ELSE sim_send(k)
    /\ UNCHANGED <<rendezvous_enabled, tokens>>

(***************************************************************************)
(* front_end_sim_recv: with rendezvous, the token is sent, and its handler *)
(* keeps the receive (RendezvousRecv).                                     *)
(***************************************************************************)
front_end_sim_recv(k) ==
    /\ Count(posted[Token(k)].recvs, k) < MaxPosts /\ Total("recvs") < MaxTotal
    /\ posted' = [posted EXCEPT ![Token(k)].recvs = Append(@, k)]
    /\ IF rendezvous_enabled THEN UNCHANGED network ELSE sim_recv(k)
    /\ UNCHANGED <<rendezvous_enabled, tokens>>

\* handleEvent(RendezvousRecv): the token has left, its receive is posted.
RendezvousRecv(t) ==
    LET n == tokens[t].left + 1 IN
    /\ rendezvous_enabled
    /\ n <= Len(posted[t].recvs)
    /\ tokens' = [tokens EXCEPT ![t].left = n]
    /\ sim_recv(posted[t].recvs[n])
    /\ UNCHANGED <<rendezvous_enabled, posted>>

\* handleEvent(RendezvousSend): the n-th token has met the n-th receive of one.
RendezvousSend_MutLatest(t) ==
    LET n == tokens[t].arrived + 1 IN
    /\ rendezvous_enabled
    /\ n <= tokens[t].left
    /\ n <= Len(posted[t].sends)
    /\ tokens' = [tokens EXCEPT ![t].arrived = n]
    /\ sim_send(posted[t].sends[Len(posted[t].sends)])
    /\ UNCHANGED <<rendezvous_enabled, posted>>

RendezvousSend_MutNoWait(t) ==
    LET n == tokens[t].arrived + 1 IN
    /\ rendezvous_enabled
    /\ n <= Len(posted[t].sends)
    /\ tokens' = [tokens EXCEPT ![t].arrived = n]
    /\ sim_send(posted[t].sends[n])
    /\ UNCHANGED <<rendezvous_enabled, posted>>

RendezvousSend_MutOneLess(t) ==
    LET n == tokens[t].arrived + 1 IN
    /\ rendezvous_enabled
    /\ n < tokens[t].left
    /\ n <= Len(posted[t].sends)
    /\ tokens' = [tokens EXCEPT ![t].arrived = n]
    /\ sim_send(posted[t].sends[n])
    /\ UNCHANGED <<rendezvous_enabled, posted>>

RendezvousSend(t) ==
    LET n == tokens[t].arrived + 1 IN
    /\ rendezvous_enabled
    /\ n <= tokens[t].left
    /\ n <= Len(posted[t].sends)
    /\ tokens' = [tokens EXCEPT ![t].arrived = n]
    /\ sim_send(posted[t].sends[n])
    /\ UNCHANGED <<rendezvous_enabled, posted>>

\* The network runs the handler of a send, and the handler of a receive.
send_handler(m) ==
    /\ network[m].sent < network[m].sends
    /\ network' = [network EXCEPT ![m].sent = @ + 1]
    /\ UNCHANGED <<rendezvous_enabled, posted, tokens>>

recv_handler(m) ==
    /\ network[m].received < network[m].sent
    /\ network[m].received < network[m].recvs
    /\ network' = [network EXCEPT ![m].received = @ + 1]
    /\ UNCHANGED <<rendezvous_enabled, posted, tokens>>

Deliver ==
    \/ \E t \in Tokens : RendezvousRecv(t) \/ RendezvousSend(t)
    \/ \E m \in Messages : send_handler(m) \/ recv_handler(m)

Next ==
    \/ \E k \in Key : front_end_sim_send(k) \/ front_end_sim_recv(k)
    \/ Deliver

\* The network delivers what it was given.
Spec == Init /\ [][Next]_vars /\ WF_vars(Deliver)

-----------------------------------------------------------------------------
(***************************************************************************)
(* Properties.                                                             *)
(***************************************************************************)
\* The messages of a source, destination and tag that were given to the network.
Made(t) ==
    UNION {{Message(k)} \X (1 .. network[Message(k)].sends) :
               k \in {l \in Key : Token(l) = t}}

\* With rendezvous nothing is sent that nobody has asked for: of a source,
\* destination and tag, the messages on the network never outnumber the receives.
NoUnsolicited ==
    rendezvous_enabled =>
        \A t \in Tokens : Cardinality(Made(t)) <= Len(posted[t].recvs)

\* The front end keeps the promise of the network to its callers, although sends
\* that differ in size share their tokens: the n-th send of a key meets the n-th
\* receive, every handler runs once, the receiver's after the sender's.
Chunk == Key \X (0 .. MaxPosts - 1)

Matching == INSTANCE MessageMatching WITH
    MaxChunks <- MaxPosts,
    sends <- [k \in Key |-> Count(posted[Token(k)].sends, k)],
    recvs <- [k \in Key |-> Count(posted[Token(k)].recvs, k)],
    sendCalls <- [c \in Chunk |-> IF c[2] < network[Message(c[1])].sent THEN 1 ELSE 0],
    recvCalls <-
        [c \in Chunk |-> IF c[2] < network[Message(c[1])].received THEN 1 ELSE 0]

ImplementsMatching == Matching!ASpec

\* A send and its receive complete.  With rendezvous the n-th send of a token key
\* is made on the n-th token, so a receive may have to wait until as many
\* receives are posted as there are sends up to its own.
Position(list, k, n) ==
    CHOOSE i \in 1 .. Len(list) : list[i] = k /\ Count(SubSeq(list, 1, i), k) = n

Due(k, n) ==
    LET p == posted[Token(k)] IN
    /\ Count(p.sends, k) >= n /\ Count(p.recvs, k) >= n
    /\ rendezvous_enabled => Position(p.sends, k, n) <= Len(p.recvs)

EveryPairCompletes ==
    \A k \in Key, n \in 1 .. MaxPosts :
        Due(k, n) ~> network[Message(k)].received >= n
=============================================================================
