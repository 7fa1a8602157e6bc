------------------------------ MODULE NetworkApi ------------------------------
(***************************************************************************)
(* The front end of the analytical network back ends: how sim_send and     *)
(* sim_recv calls, made in any order by different ranks, are paired and    *)
(* how their handlers are run.                                             *)
(*                                                                         *)
(* All ranks share one ChunkIdGenerator and one CallbackTracker (static    *)
(* members of CommonNetworkApi), and one event queue drives everything in  *)
(* one thread.  Handlers run synchronously inside process_chunk_arrival,   *)
(* so the rank a handler belongs to may call sim_send and sim_recv between *)
(* two statements of process_chunk_arrival.  The variable frame says where *)
(* a running process_chunk_arrival stands.                                 *)
(*                                                                         *)
(* Time is left out: the event queue may run its pending events in any     *)
(* order, which includes every order that simulated delays produce.        *)
(***************************************************************************)
EXTENDS Integers

CONSTANTS Rank,       \* the simulated NPUs
          Key,        \* the keys (tag, src, dest, chunk_size) in use
          MaxChunks   \* bound on the chunks of one key

(***************************************************************************)
(* The asserts of ChunkIdGenerator and CallbackTracker on tag and size,    *)
(* and one that nothing in the code states: no rank sends to itself.  The  *)
(* sender's handler runs before the transmission is marked finished, so a  *)
(* rank that is its own receiver could post the receive in between.        *)
(***************************************************************************)
ASSUME KeyAssumption ==
    /\ Key \subseteq [tag : Nat, src : Rank, dest : Rank, size : Nat \ {0}]
    /\ \A k \in Key : k.src # k.dest

ASSUME BoundAssumption == MaxChunks \in Nat

ChunkId == 0 .. MaxChunks - 1
Chunk == Key \X ChunkId

VARIABLES
    send_id,     \* ChunkIdGenerator: id of the last send of a key, or -1
    recv_id,     \* ChunkIdGenerator: id of the last receive of a key, or -1
    tracker,     \* CallbackTracker: a chunk's entry, for some of the chunks
    in_flight,   \* chunks whose process_chunk_arrival is in the event queue
    due,         \* chunks whose receive handler is in the event queue
    frame,       \* where process_chunk_arrival stands
    send_calls,  \* history: how often the send handler of a chunk has run
    recv_calls   \* history: how often the receive handler of a chunk has run

vars == <<send_id, recv_id, tracker, in_flight, due, frame,
          send_calls, recv_calls>>

(***************************************************************************)
(* A CallbackTrackerEntry: which events it has, and the flag.              *)
(***************************************************************************)
Entry == [send : BOOLEAN, recv : BOOLEAN, finished : BOOLEAN]

EmptyEntry == [send |-> FALSE, recv |-> FALSE, finished |-> FALSE]

(***************************************************************************)
(* Idle, or inside a handler that process_chunk_arrival invoked.  both is  *)
(* the outcome of both_callbacks_registered(), read before the handlers.   *)
(***************************************************************************)
Idle == [at |-> "idle"]

Frame == [at : {"send_handler"}, chunk : Chunk, both : BOOLEAN]
         \cup [at : {"recv_handler"}, chunk : Chunk]
         \cup {Idle}

Init ==
    /\ send_id = [k \in Key |-> -1]
    /\ recv_id = [k \in Key |-> -1]
    /\ tracker = [c \in {} |-> EmptyEntry]
    /\ in_flight = {}
    /\ due = {}
    /\ frame = Idle
    /\ send_calls = [c \in Chunk |-> 0]
    /\ recv_calls = [c \in Chunk |-> 0]

-----------------------------------------------------------------------------
(***************************************************************************)
(* An operator named ..._Mut... is the operator it precedes with a         *)
(* plausible slip in it; no specification uses it.  The properties below   *)
(* are known to fail when it replaces the original.                        *)
(***************************************************************************)

(***************************************************************************)
(* ChunkIdGenerator: the id after the increment.                           *)
(***************************************************************************)
create_send_chunk_id(k) == send_id[k] + 1

create_recv_chunk_id(k) == recv_id[k] + 1

(***************************************************************************)
(* CallbackTracker.  search_entry followed, when it finds nothing, by      *)
(* create_new_entry.                                                       *)
(***************************************************************************)
search_entry(c) == c \in DOMAIN tracker

EntryOf(c) == IF search_entry(c) THEN tracker[c] ELSE EmptyEntry

is_transmission_finished_MutFound(c) == search_entry(c)

is_transmission_finished(c) == search_entry(c) /\ tracker[c].finished

Store(c, e) == [d \in DOMAIN tracker \cup {c} |->
                    IF d = c THEN e ELSE tracker[d]]

pop_entry_MutKeep(c) == tracker

pop_entry(c) == [d \in DOMAIN tracker \ {c} |-> tracker[d]]

both_callbacks_registered_MutSendOnly(e) == e.send

both_callbacks_registered(e) == e.send /\ e.recv

(***************************************************************************)
(* Whose code runs: any rank's, from an event of its own, when the event   *)
(* loop is between two arrivals; the sender's while its handler runs; the  *)
(* receiver's while its handler runs.                                      *)
(***************************************************************************)
MayCall(r) ==
    \/ frame.at = "idle"
    \/ frame.at = "send_handler" /\ r = frame.chunk[1].src
    \/ frame.at = "recv_handler" /\ r = frame.chunk[1].dest

-----------------------------------------------------------------------------
(***************************************************************************)
(* sim_send: register the send callback with the chunk's entry and hand    *)
(* the chunk to the network, which will run process_chunk_arrival.         *)
(***************************************************************************)
sim_send(k) ==
    LET c == <<k, create_send_chunk_id(k)>> IN
    /\ MayCall(k.src)
    /\ send_id[k] < MaxChunks - 1
    /\ send_id' = [send_id EXCEPT ![k] = @ + 1]
    /\ tracker' = Store(c, [EntryOf(c) EXCEPT !.send = TRUE])
    /\ in_flight' = in_flight \cup {c}
    /\ UNCHANGED <<recv_id, due, frame, send_calls, recv_calls>>

sim_recv_MutNoSchedule(k) ==
    LET c == <<k, create_recv_chunk_id(k)>>
        late == is_transmission_finished(c)
    IN
    /\ MayCall(k.dest)
    /\ recv_id[k] < MaxChunks - 1
    /\ recv_id' = [recv_id EXCEPT ![k] = @ + 1]
    /\ tracker' = IF late THEN pop_entry(c)
                  ELSE Store(c, [EntryOf(c) EXCEPT !.recv = TRUE])
    /\ UNCHANGED <<send_id, in_flight, due, frame, send_calls, recv_calls>>

(***************************************************************************)
(* sim_recv: when the chunk has arrived, drop the entry and schedule the   *)
(* handler at the current time; otherwise register the handler.            *)
(***************************************************************************)
sim_recv(k) ==
    LET c == <<k, create_recv_chunk_id(k)>>
        late == is_transmission_finished(c)
    IN
    /\ MayCall(k.dest)
    /\ recv_id[k] < MaxChunks - 1
    /\ recv_id' = [recv_id EXCEPT ![k] = @ + 1]
    /\ \/ /\ late
          /\ tracker' = pop_entry(c)
          /\ due' = due \cup {c}
       \/ /\ ~late
          /\ tracker' = Store(c, [EntryOf(c) EXCEPT !.recv = TRUE])
          /\ UNCHANGED due
    /\ UNCHANGED <<send_id, in_flight, frame, send_calls, recv_calls>>

(***************************************************************************)
(* process_chunk_arrival, up to and including the call of the send         *)
(* handler.                                                                *)
(***************************************************************************)
process_chunk_arrival(c) ==
    /\ frame.at = "idle"
    /\ c \in in_flight
    /\ in_flight' = in_flight \ {c}
    /\ frame' = [at |-> "send_handler", chunk |-> c,
                 both |-> both_callbacks_registered(tracker[c])]
    /\ send_calls' = [send_calls EXCEPT ![c] = @ + 1]
    /\ UNCHANGED <<send_id, recv_id, tracker, due, recv_calls>>

send_handler_returns_MutNoMark ==
    /\ frame.at = "send_handler"
    /\ LET c == frame.chunk IN
       \/ /\ frame.both
          /\ frame' = [at |-> "recv_handler", chunk |-> c]
          /\ recv_calls' = [recv_calls EXCEPT ![c] = @ + 1]
       \/ /\ ~frame.both
          /\ frame' = Idle
          /\ UNCHANGED recv_calls
    /\ UNCHANGED <<send_id, recv_id, tracker, in_flight, due, send_calls>>

(***************************************************************************)
(* The send handler returns: run the receive handler if it was registered  *)
(* when the chunk arrived, else mark the transmission finished.            *)
(***************************************************************************)
send_handler_returns ==
    /\ frame.at = "send_handler"
    /\ LET c == frame.chunk IN
       \/ /\ frame.both
          /\ frame' = [at |-> "recv_handler", chunk |-> c]
          /\ recv_calls' = [recv_calls EXCEPT ![c] = @ + 1]
          /\ UNCHANGED tracker
       \/ /\ ~frame.both
          /\ frame' = Idle
          /\ tracker' = [tracker EXCEPT ![c].finished = TRUE]
          /\ UNCHANGED recv_calls
    /\ UNCHANGED <<send_id, recv_id, in_flight, due, send_calls>>

(***************************************************************************)
(* The receive handler returns: the entry is removed.                      *)
(***************************************************************************)
recv_handler_returns ==
    /\ frame.at = "recv_handler"
    /\ tracker' = pop_entry(frame.chunk)
    /\ frame' = Idle
    /\ UNCHANGED <<send_id, recv_id, in_flight, due, send_calls, recv_calls>>

(***************************************************************************)
(* The event queue runs a receive handler that sim_recv scheduled.  What   *)
(* the handler calls is a call from the idle state.                        *)
(***************************************************************************)
run_recv_event(c) ==
    /\ frame.at = "idle"
    /\ c \in due
    /\ due' = due \ {c}
    /\ recv_calls' = [recv_calls EXCEPT ![c] = @ + 1]
    /\ UNCHANGED <<send_id, recv_id, tracker, in_flight, frame, send_calls>>

Next ==
    \/ \E k \in Key : sim_send(k) \/ sim_recv(k)
    \/ \E c \in Chunk : process_chunk_arrival(c) \/ run_recv_event(c)
    \/ send_handler_returns
    \/ recv_handler_returns

(***************************************************************************)
(* The main loop runs events until the queue is empty, and handlers        *)
(* return.  Nothing obliges a rank to call.                                *)
(***************************************************************************)
Fairness ==
    /\ \A c \in Chunk : WF_vars(process_chunk_arrival(c))
                        /\ WF_vars(run_recv_event(c))
    /\ WF_vars(send_handler_returns)
    /\ WF_vars(recv_handler_returns)

Safety == Init /\ [][Next]_vars

Spec == Safety /\ Fairness

-----------------------------------------------------------------------------
(***************************************************************************)
(* Properties.                                                             *)
(***************************************************************************)
SendPosted(c) == c[2] <= send_id[c[1]]
RecvPosted(c) == c[2] <= recv_id[c[1]]

Running(c) == frame.at # "idle" /\ frame.chunk = c

\* Every variable of the front end keeps the type its declaration gives it;
\* ids never run past the bound.
TypeOK ==
    /\ send_id \in [Key -> -1 .. MaxChunks - 1]
    /\ recv_id \in [Key -> -1 .. MaxChunks - 1]
    /\ DOMAIN tracker \subseteq Chunk
    /\ tracker \in [DOMAIN tracker -> Entry]
    /\ in_flight \subseteq Chunk
    /\ due \subseteq Chunk
    /\ frame \in Frame
    /\ send_calls \in [Chunk -> Nat]
    /\ recv_calls \in [Chunk -> Nat]

\* The asserts of the front end hold and no pointer to an entry dangles: a
\* chunk in the network has an entry whose send callback is registered
\* (process_chunk_arrival, invoke_send_handler); the entry that
\* process_chunk_arrival works on survives the handlers it calls; the next
\* sim_send and the next sim_recv of a key find no callback of their own kind
\* registered (register_send_callback, register_recv_callback).
AssertsHold ==
    /\ \A c \in in_flight : c \in DOMAIN tracker /\ tracker[c].send
    /\ frame.at # "idle" =>
          /\ frame.chunk \in DOMAIN tracker
          /\ tracker[frame.chunk].send
          /\ frame.at = "send_handler" /\ frame.both
                => tracker[frame.chunk].recv
    /\ \A c \in DOMAIN tracker :
          /\ tracker[c].send => SendPosted(c)
          /\ tracker[c].recv => RecvPosted(c)

\* No receive is forgotten: once both sides of a chunk have called, its
\* receive handler has run, is running, or is certain to be run by an event
\* that is already in the queue.  The hazard is the window in
\* process_chunk_arrival between the test of both_callbacks_registered and
\* set_transmission_finished, in which the send handler may call back.
NoLostCallback ==
    \A c \in Chunk :
        SendPosted(c) /\ RecvPosted(c) =>
            \/ recv_calls[c] = 1
            \/ c \in due
            \/ c \in in_flight /\ both_callbacks_registered(tracker[c])
            \/ Running(c) /\ frame.at = "send_handler" /\ frame.both

\* The tracker does not leak: an entry is there exactly while one side of its
\* chunk has called and the chunk is not finished with, so a simulation whose
\* sends and receives all match ends with an empty tracker.
TrackerExact ==
    DOMAIN tracker =
        {c \in Chunk :
            \/ Running(c)
            \/ c \in in_flight
            \/ SendPosted(c) /\ ~RecvPosted(c)
            \/ ~SendPosted(c) /\ RecvPosted(c)}

\* The front end implements the matching that the system layer relies on: the
\* n-th send meets the n-th receive, each handler runs once, the receiver's
\* after the sender's and after both calls (CompleteSend, CompleteRecv).
Matching == INSTANCE MessageMatching WITH
    sends <- [k \in Key |-> send_id[k] + 1],
    recvs <- [k \in Key |-> recv_id[k] + 1],
    sendCalls <- send_calls,
    recvCalls <- recv_calls

ImplementsMatching == Matching!ASpec

\* Every receive whose send was also called is answered: the event loop gets
\* to its handler, whatever the order of the calls, the arrival and the other
\* handlers.
MatchedRecvRuns ==
    \A c \in Chunk :
        (SendPosted(c) /\ RecvPosted(c)) ~> (recv_calls[c] = 1)
=============================================================================
