--------------------------- MODULE MessageMatching ---------------------------
(***************************************************************************)
(* What a network back end promises the system layer: the n-th sim_send of *)
(* a key (tag, source, destination, size) is matched with the n-th         *)
(* sim_recv of that key, whichever is called first; the sender's handler   *)
(* runs once, after the call to sim_send; the receiver's handler runs      *)
(* once, after both calls and after the sender's handler.                  *)
(***************************************************************************)
EXTENDS Integers

CONSTANTS Key,        \* the keys (tag, source, destination, size) in use
          MaxChunks   \* bound on the sends, and on the receives, of a key

ChunkOf == Key \X (0 .. MaxChunks - 1)

VARIABLES sends,      \* [Key -> Nat]: calls of sim_send so far
          recvs,      \* [Key -> Nat]: calls of sim_recv so far
          sendCalls,  \* [ChunkOf -> Nat]: runs of the sender's handler
          recvCalls   \* [ChunkOf -> Nat]: runs of the receiver's handler

avars == <<sends, recvs, sendCalls, recvCalls>>

AInit ==
    /\ sends = [k \in Key |-> 0]
    /\ recvs = [k \in Key |-> 0]
    /\ sendCalls = [c \in ChunkOf |-> 0]
    /\ recvCalls = [c \in ChunkOf |-> 0]

PostSend(k) ==
    /\ sends' = [sends EXCEPT ![k] = @ + 1]
    /\ UNCHANGED <<recvs, sendCalls, recvCalls>>

PostRecv(k) ==
    /\ recvs' = [recvs EXCEPT ![k] = @ + 1]
    /\ UNCHANGED <<sends, sendCalls, recvCalls>>

CompleteSend(c) ==
    /\ c[2] < sends[c[1]]
    /\ sendCalls[c] = 0
    /\ sendCalls' = [sendCalls EXCEPT ![c] = 1]
    /\ UNCHANGED <<sends, recvs, recvCalls>>

CompleteRecv(c) ==
    /\ c[2] < sends[c[1]]
    /\ c[2] < recvs[c[1]]
    /\ sendCalls[c] = 1
    /\ recvCalls[c] = 0
    /\ recvCalls' = [recvCalls EXCEPT ![c] = 1]
    /\ UNCHANGED <<sends, recvs, sendCalls>>

ANext ==
    \/ \E k \in Key : PostSend(k) \/ PostRecv(k)
    \/ \E c \in ChunkOf : CompleteSend(c) \/ CompleteRecv(c)

ASpec == AInit /\ [][ANext]_avars
=============================================================================
