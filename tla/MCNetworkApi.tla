----------------------------- MODULE MCNetworkApi -----------------------------
(***************************************************************************)
(* Three keys over two ranks: two directions, and two sizes in one         *)
(* direction, so that chunks of different sizes under one tag are told     *)
(* apart and a handler can post the answer to the message it handles.      *)
(***************************************************************************)
EXTENDS NetworkApi

RankValue == 0 .. 1

KeyValue == { [tag |-> 0, src |-> 0, dest |-> 1, size |-> 1],
              [tag |-> 0, src |-> 0, dest |-> 1, size |-> 2],
              [tag |-> 0, src |-> 1, dest |-> 0, size |-> 1] }
=============================================================================
