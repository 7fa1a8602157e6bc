------------------------------ MODULE ByteHashes ------------------------------
(***************************************************************************)
(* The two maps with which the ns-3 front end (and, in a copy, the htsim   *)
(* front end) pairs arrived bytes with receives, as one record:            *)
(*   waiting   sim_recv_waiting_hash: remaining_msg_bytes, or Absent       *)
(*   handler   which receive of the key the MsgEvent there belongs to      *)
(*   standby   received_msg_standby_hash: bytes, or Absent                 *)
(*   answered  history: the receives of a key whose handler was called     *)
(* A handler is called as the last step of an operation, after the maps    *)
(* are up to date, so what it calls in turn is a later operation.          *)
(***************************************************************************)
EXTENDS Integers, Sequences

CONSTANT Key

Absent == -1

NoHashes ==
    [ waiting  |-> [k \in Key |-> Absent],
      handler  |-> [k \in Key |-> 0],
      standby  |-> [k \in Key |-> Absent],
      answered |-> [k \in Key |-> {}] ]

(***************************************************************************)
(* An operator named ..._Mut... is the operator it precedes with a         *)
(* plausible slip in it; no specification uses it.                         *)
(***************************************************************************)

\* callHandler of the waiting MsgEvent, after its removal.
Answer(h, k) ==
    [h EXCEPT !.waiting[k] = Absent, !.answered[k] = @ \cup {h.handler[k]}]

(***************************************************************************)
(* notify_receiver_receive_data: size bytes of key k have arrived.         *)
(***************************************************************************)
ReceiveData(h, k, size) ==
    CASE h.waiting[k] = Absent ->
            [h EXCEPT !.standby[k] = IF @ = Absent THEN size ELSE @ + size]
      [] h.waiting[k] = size -> Answer(h, k)
      [] h.waiting[k] # Absent /\ size > h.waiting[k] ->
            Answer([h EXCEPT !.standby[k] = size - h.waiting[k]], k)
      [] OTHER -> [h EXCEPT !.waiting[k] = @ - size]

ExpectData_MutKeepStandby(h, k, size, n) ==
    IF h.standby[k] # Absent
    THEN IF h.standby[k] >= size
         THEN [h EXCEPT !.standby[k] = IF @ = size THEN Absent ELSE @ - size,
                        !.answered[k] = @ \cup {n}]
         ELSE [h EXCEPT !.waiting[k] = size - h.standby[k],
                        !.handler[k] = n]
    ELSE [h EXCEPT !.waiting[k] = IF @ = Absent THEN size ELSE @ + size,
                   !.handler[k] = n]

(***************************************************************************)
(* sim_recv, the n-th of key k.  A MsgEvent that waits already is replaced *)
(* by the new one, with the bytes of both.                                 *)
(***************************************************************************)
ExpectData(h, k, size, n) ==
    IF h.standby[k] # Absent
    THEN IF h.standby[k] >= size
         THEN [h EXCEPT !.standby[k] = IF @ = size THEN Absent ELSE @ - size,
                        !.answered[k] = @ \cup {n}]
         ELSE [h EXCEPT !.standby[k] = Absent,
                        !.waiting[k] = size - h.standby[k],
                        !.handler[k] = n]
    ELSE [h EXCEPT !.waiting[k] = IF @ = Absent THEN size ELSE @ + size,
                   !.handler[k] = n]
=============================================================================
