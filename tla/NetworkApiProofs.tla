--------------------------- MODULE NetworkApiProofs ---------------------------
(***************************************************************************)
(* Theorems about NetworkApi, for every set of ranks, every set of keys    *)
(* without self-messages and every bound on the chunks.                    *)
(***************************************************************************)
EXTENDS NetworkApi, TLAPS

(***************************************************************************)
(* What is known of one chunk, in terms of who has called for it and where *)
(* its events are.  TypeOK and this, for every chunk, is the inductive     *)
(* invariant; the properties of NetworkApi are read off it.                *)
(***************************************************************************)
EntryMatches(c) ==
    /\ c \in DOMAIN tracker <=>
          \/ Running(c)
          \/ c \in in_flight
          \/ SendPosted(c) /\ ~RecvPosted(c)
          \/ ~SendPosted(c) /\ RecvPosted(c)
    /\ c \in DOMAIN tracker =>
          /\ tracker[c].send <=> SendPosted(c)
          /\ tracker[c].recv <=> RecvPosted(c)
          /\ tracker[c].finished <=>
                SendPosted(c) /\ c \notin in_flight /\ ~Running(c)

EventsMatch(c) ==
    /\ c \in in_flight => SendPosted(c)
    /\ c \in due => SendPosted(c) /\ RecvPosted(c) /\ c \notin in_flight
                    /\ ~Running(c)
    /\ Running(c) => SendPosted(c) /\ c \notin in_flight
    /\ Running(c) /\ frame.at = "send_handler" =>
          (frame.both <=> RecvPosted(c))
    /\ Running(c) /\ frame.at = "recv_handler" => RecvPosted(c)

HandlerDone(c) ==
    /\ SendPosted(c) /\ RecvPosted(c)
    /\ c \notin in_flight
    /\ c \notin due
    /\ Running(c) => frame.at = "recv_handler"

CallsMatch(c) ==
    /\ send_calls[c] = IF SendPosted(c) /\ c \notin in_flight THEN 1 ELSE 0
    /\ recv_calls[c] = IF HandlerDone(c) THEN 1 ELSE 0

ChunkInv(c) == EntryMatches(c) /\ EventsMatch(c) /\ CallsMatch(c)

IInv == TypeOK /\ \A c \in Chunk : ChunkInv(c)

-----------------------------------------------------------------------------
\* A chunk is a key and a chunk id.
LEMMA ChunkParts ==
    ASSUME NEW c \in Chunk
    PROVE  /\ c[1] \in Key
           /\ c[2] \in ChunkId
           /\ c = <<c[1], c[2]>>
  BY DEF Chunk

\* A key and a chunk id make a chunk, with these as its parts.
LEMMA ChunkMade ==
    ASSUME NEW k \in Key, NEW i \in ChunkId
    PROVE  <<k, i>> \in Chunk /\ <<k, i>>[1] = k /\ <<k, i>>[2] = i
  BY DEF Chunk

\* What create_new_entry returns is an entry.
LEMMA EmptyEntryType == EmptyEntry \in Entry
  BY DEF EmptyEntry, Entry

\* No chunk has been sent or received and the tracker is empty.
LEMMA InitIInv == Init => IInv
  <1> SUFFICES ASSUME Init PROVE IInv
    OBVIOUS
  <1>1. TypeOK
    BY BoundAssumption DEF Init, TypeOK, Frame, Idle, Entry, EmptyEntry
  <1>2. ASSUME NEW c \in Chunk PROVE ChunkInv(c)
    BY <1>2, ChunkParts, BoundAssumption
    DEF Init, ChunkInv, EntryMatches, EventsMatch, CallsMatch, HandlerDone,
        SendPosted, RecvPosted, Running, Idle, ChunkId
  <1> QED
    BY <1>1, <1>2 DEF IInv

\* sim_send takes a chunk no send was called for; its entry is new, or was
\* left by a receive that waits.
LEMMA SendKeeps ==
    ASSUME IInv, NEW k \in Key, sim_send(k)
    PROVE  IInv'
  <1>1. send_id[k] \in -1 .. MaxChunks - 1 /\ send_id[k] < MaxChunks - 1
    BY DEF IInv, TypeOK, sim_send
  <1>2. PICK x \in Chunk : x = <<k, create_send_chunk_id(k)>>
                          /\ x[1] = k /\ x[2] = send_id[k] + 1
    <2>1. create_send_chunk_id(k) = send_id[k] + 1 /\ send_id[k] + 1 \in ChunkId
      BY <1>1, BoundAssumption DEF create_send_chunk_id, ChunkId
    <2> QED
      BY <2>1, ChunkMade
  <1>3. EntryOf(x) \in Entry
    BY EmptyEntryType DEF IInv, TypeOK, EntryOf, search_entry
  <1>4. /\ send_id' = [send_id EXCEPT ![k] = @ + 1]
        /\ tracker' = Store(x, [EntryOf(x) EXCEPT !.send = TRUE])
        /\ in_flight' = in_flight \cup {x}
        /\ UNCHANGED <<recv_id, due, frame, send_calls, recv_calls>>
    BY <1>2 DEF sim_send
  <1>5. TypeOK'
    <2>1. [EntryOf(x) EXCEPT !.send = TRUE] \in Entry
      BY <1>3 DEF Entry
    <2>2. DOMAIN tracker' \subseteq Chunk /\ tracker' \in [DOMAIN tracker' -> Entry]
      BY <1>4, <2>1 DEF IInv, TypeOK, Store
    <2>3. send_id' \in [Key -> -1 .. MaxChunks - 1]
      BY <1>1, <1>4, BoundAssumption DEF IInv, TypeOK
    <2> QED
      BY <1>4, <2>2, <2>3 DEF IInv, TypeOK
  <1>6. ~SendPosted(x) /\ SendPosted(x)'
    BY <1>1, <1>2, <1>4 DEF SendPosted, IInv, TypeOK
  <1>7. ASSUME NEW c \in Chunk PROVE ChunkInv(c)'
    <2>1. ChunkInv(c) /\ ChunkInv(x)
      BY DEF IInv
    <2>2. RecvPosted(c)' = RecvPosted(c) /\ Running(c)' = Running(c)
      BY <1>4 DEF RecvPosted, Running
    <2>3. CASE c # x
      <3>1. SendPosted(c)' = SendPosted(c)
        BY <1>1, <1>2, <1>4, <2>3, ChunkParts
        DEF SendPosted, IInv, TypeOK, ChunkId
      <3> QED
        BY <1>4, <2>1, <2>2, <2>3, <3>1
        DEF ChunkInv, EntryMatches, EventsMatch, CallsMatch, HandlerDone, Store
    <2>4. CASE c = x
      <3>1. ~Running(x) /\ x \notin in_flight /\ x \notin due
        BY <1>6, <2>1 DEF ChunkInv, EventsMatch
      <3>2. (EntryOf(x).recv <=> RecvPosted(x)) /\ ~EntryOf(x).finished
        BY <1>6, <2>1, <3>1
        DEF ChunkInv, EntryMatches, EntryOf, search_entry, EmptyEntry
      <3> QED
        <4>1. x \in DOMAIN tracker' /\ x \in in_flight'
          BY <1>4 DEF Store
        <4>2. tracker'[x] = [EntryOf(x) EXCEPT !.send = TRUE]
          BY <1>4 DEF Store
        <4>3. tracker'[x].send = TRUE /\ tracker'[x].recv = EntryOf(x).recv
              /\ tracker'[x].finished = EntryOf(x).finished
          BY <1>3, <4>2 DEF Entry
        <4> QED
          BY <1>4, <1>6, <2>1, <2>2, <2>4, <3>1, <3>2, <4>1, <4>3
          DEF ChunkInv, EntryMatches, EventsMatch, CallsMatch, HandlerDone
    <2> QED
      BY <2>3, <2>4
  <1> QED
    BY <1>5, <1>7 DEF IInv

\* sim_recv takes a chunk no receive was called for; it finds no entry, one of
\* a send on its way, or a finished one, which it erases.
LEMMA RecvKeeps ==
    ASSUME IInv, NEW k \in Key, sim_recv(k)
    PROVE  IInv'
  <1>1. recv_id[k] \in -1 .. MaxChunks - 1 /\ recv_id[k] < MaxChunks - 1
    BY DEF IInv, TypeOK, sim_recv
  <1>2. PICK x \in Chunk : x = <<k, create_recv_chunk_id(k)>>
                          /\ x[1] = k /\ x[2] = recv_id[k] + 1
    <2>1. create_recv_chunk_id(k) = recv_id[k] + 1 /\ recv_id[k] + 1 \in ChunkId
      BY <1>1, BoundAssumption DEF create_recv_chunk_id, ChunkId
    <2> QED
      BY <2>1, ChunkMade
  <1>3. EntryOf(x) \in Entry
    BY EmptyEntryType DEF IInv, TypeOK, EntryOf, search_entry
  <1>4. /\ MayCall(k.dest)
        /\ recv_id' = [recv_id EXCEPT ![k] = @ + 1]
        /\ \/ /\ is_transmission_finished(x)
              /\ tracker' = pop_entry(x)
              /\ due' = due \cup {x}
           \/ /\ ~is_transmission_finished(x)
              /\ tracker' = Store(x, [EntryOf(x) EXCEPT !.recv = TRUE])
              /\ due' = due
        /\ UNCHANGED <<send_id, in_flight, frame, send_calls, recv_calls>>
    BY <1>2 DEF sim_recv
  <1>5. TypeOK'
    <2>1. [EntryOf(x) EXCEPT !.recv = TRUE] \in Entry
      BY <1>3 DEF Entry
    <2>2. DOMAIN tracker' \subseteq Chunk /\ tracker' \in [DOMAIN tracker' -> Entry]
      BY <1>4, <2>1 DEF IInv, TypeOK, Store, pop_entry
    <2>3. recv_id' \in [Key -> -1 .. MaxChunks - 1]
      BY <1>1, <1>4, BoundAssumption DEF IInv, TypeOK
    <2> QED
      BY <1>4, <2>2, <2>3 DEF IInv, TypeOK
  <1>6. ~RecvPosted(x) /\ RecvPosted(x)'
    BY <1>1, <1>2, <1>4 DEF RecvPosted, IInv, TypeOK
  <1>7. Running(x) => FALSE
    <2>1. ChunkInv(x)
      BY DEF IInv
    <2>2. Running(x) => frame.at = "send_handler"
      BY <1>6, <2>1 DEF ChunkInv, EventsMatch, Running, IInv, TypeOK, Frame, Idle
    <2>3. Running(x) => k.dest = k.src
      BY <1>2, <1>4, <2>2 DEF MayCall, Running
    <2> QED
      BY <2>3, KeyAssumption
  <1>8. ASSUME NEW c \in Chunk PROVE ChunkInv(c)'
    <2>1. ChunkInv(c) /\ ChunkInv(x)
      BY DEF IInv
    <2>2. SendPosted(c)' = SendPosted(c) /\ Running(c)' = Running(c)
      BY <1>4 DEF SendPosted, Running
    <2>3. CASE c # x
      <3>1. RecvPosted(c)' = RecvPosted(c)
        BY <1>1, <1>2, <1>4, <2>3, ChunkParts
        DEF RecvPosted, IInv, TypeOK, ChunkId
      <3> QED
        BY <1>4, <2>1, <2>2, <2>3, <3>1
        DEF ChunkInv, EntryMatches, EventsMatch, CallsMatch, HandlerDone, Store,
            pop_entry
    <2>4. CASE c = x /\ is_transmission_finished(x)
      <3>1. x \notin DOMAIN tracker' /\ x \in due'
        BY <1>4, <2>4 DEF pop_entry
      <3>2. SendPosted(x) /\ x \notin in_flight
        BY <2>1, <2>4
        DEF is_transmission_finished, search_entry, ChunkInv, EntryMatches
      <3> QED
        BY <1>4, <1>6, <1>7, <2>1, <2>2, <2>4, <3>1, <3>2
        DEF ChunkInv, EntryMatches, EventsMatch, CallsMatch, HandlerDone
    <2>5. CASE c = x /\ ~is_transmission_finished(x)
      <3>1. x \notin due
        BY <1>6, <2>1 DEF ChunkInv, EventsMatch
      <3>2. SendPosted(x) <=> x \in in_flight
        BY <1>6, <1>7, <2>1, <2>5
        DEF is_transmission_finished, search_entry, ChunkInv, EntryMatches,
            EventsMatch
      <3>3. (EntryOf(x).send <=> SendPosted(x)) /\ ~EntryOf(x).finished
        BY <1>6, <1>7, <2>1, <3>2
        DEF ChunkInv, EntryMatches, EntryOf, search_entry, EmptyEntry
      <3>4. x \in DOMAIN tracker'
            /\ tracker'[x] = [EntryOf(x) EXCEPT !.recv = TRUE]
        BY <1>4, <2>5 DEF Store
      <3>5. tracker'[x].recv = TRUE /\ tracker'[x].send = EntryOf(x).send
            /\ tracker'[x].finished = EntryOf(x).finished
        BY <1>3, <3>4 DEF Entry
      <3> QED
        BY <1>4, <1>6, <1>7, <2>1, <2>2, <2>5, <3>1, <3>2, <3>3, <3>4, <3>5
        DEF ChunkInv, EntryMatches, EventsMatch, CallsMatch, HandlerDone
    <2> QED
      BY <2>3, <2>4, <2>5
  <1> QED
    BY <1>5, <1>8 DEF IInv

\* process_chunk_arrival up to the sender's handler: the test for both callbacks
\* is right when it is made.
LEMMA ArrivalKeeps ==
    ASSUME IInv, NEW x \in Chunk, process_chunk_arrival(x)
    PROVE  IInv'
  <1> DEFINE b == both_callbacks_registered(tracker[x])
  <1>1. ChunkInv(x) /\ x \in in_flight /\ frame.at = "idle"
    BY DEF IInv, process_chunk_arrival
  <1>2. /\ frame' = [at |-> "send_handler", chunk |-> x, both |-> b]
        /\ in_flight' = in_flight \ {x}
        /\ send_calls' = [send_calls EXCEPT ![x] = @ + 1]
        /\ UNCHANGED <<send_id, recv_id, tracker, due, recv_calls>>
    BY DEF process_chunk_arrival
  <1>3. x \in DOMAIN tracker /\ (b <=> RecvPosted(x)) /\ b \in BOOLEAN
    BY <1>1 DEF ChunkInv, EntryMatches, EventsMatch, both_callbacks_registered
  <1>4. TypeOK'
    <2>1. frame' \in Frame
      BY <1>2, <1>3 DEF Frame
    <2> QED
      BY <1>2, <2>1 DEF IInv, TypeOK
  <1>5. ASSUME NEW c \in Chunk PROVE ChunkInv(c)'
    <2>1. ChunkInv(c) /\ ~Running(c)
      BY <1>1 DEF IInv, Running
    <2>2. SendPosted(c)' = SendPosted(c) /\ RecvPosted(c)' = RecvPosted(c)
      BY <1>2 DEF SendPosted, RecvPosted
    <2>3. Running(c)' <=> c = x
      BY <1>2 DEF Running
    <2>4. send_calls[x] \in Nat
      BY DEF IInv, TypeOK
    <2>5. CASE c # x
      BY <1>2, <2>1, <2>2, <2>3, <2>5
      DEF ChunkInv, EntryMatches, EventsMatch, CallsMatch, HandlerDone,
          IInv, TypeOK
    <2>6. CASE c = x
      <3>1. frame'.at = "send_handler" /\ frame'.both = b
        BY <1>2
      <3>2. SendPosted(x) /\ send_calls[x] = 0 /\ send_calls'[x] = 1
            /\ recv_calls[x] = 0
        BY <1>1, <1>2, <2>4
        DEF ChunkInv, CallsMatch, EventsMatch, HandlerDone, IInv, TypeOK
      <3>3. ~HandlerDone(x)'
        BY <2>3, <2>6, <3>1 DEF HandlerDone
      <3>4. (EntryMatches(x) /\ EventsMatch(x))'
        BY <1>1, <1>2, <1>3, <2>2, <2>3, <2>6, <3>1, <3>2
        DEF ChunkInv, EntryMatches, EventsMatch
      <3> QED
        BY <1>2, <2>2, <2>6, <3>2, <3>3, <3>4 DEF ChunkInv, CallsMatch
    <2> QED
      BY <2>5, <2>6
  <1> QED
    BY <1>4, <1>5 DEF IInv

\* The rest of process_chunk_arrival: the test is still right, because the
\* sender's rank, whose handler ran in between, is not the receiver.
LEMMA SendReturnsKeeps ==
    ASSUME IInv, send_handler_returns
    PROVE  IInv'
  <1>1. PICK x \in Chunk : frame.chunk = x
    BY DEF IInv, TypeOK, Frame, Idle, send_handler_returns
  <1>2. /\ frame.at = "send_handler" /\ frame.both \in BOOLEAN
        /\ Running(x) /\ ChunkInv(x)
    BY <1>1 DEF IInv, TypeOK, Frame, Idle, send_handler_returns, Running
  <1>3. x \in DOMAIN tracker /\ (frame.both <=> RecvPosted(x)) /\ SendPosted(x)
        /\ x \notin in_flight /\ x \notin due /\ tracker[x].send
        /\ (tracker[x].recv <=> RecvPosted(x))
    BY <1>2 DEF ChunkInv, EntryMatches, EventsMatch
  <1>4. ASSUME NEW c \in Chunk
        PROVE  /\ ChunkInv(c)
               /\ SendPosted(c)' = SendPosted(c)
               /\ RecvPosted(c)' = RecvPosted(c)
               /\ Running(c) <=> c = x
    BY <1>1, <1>2 DEF IInv, send_handler_returns, SendPosted, RecvPosted, Running
  <1>5. CASE frame.both
    <2>1. /\ frame' = [at |-> "recv_handler", chunk |-> x]
          /\ recv_calls' = [recv_calls EXCEPT ![x] = @ + 1]
          /\ UNCHANGED <<tracker, send_id, recv_id, in_flight, due, send_calls>>
      BY <1>1, <1>5 DEF send_handler_returns
    <2>2. frame' \in Frame
      BY <2>1 DEF Frame
    <2>3. TypeOK'
      BY <2>1, <2>2 DEF IInv, TypeOK
    <2>4. ASSUME NEW c \in Chunk PROVE ChunkInv(c)'
      <3>1. (Running(c)' <=> c = x) /\ frame'.at = "recv_handler"
        BY <2>1 DEF Running
      <3>2. CASE c # x
        BY <1>4, <2>1, <3>1, <3>2
        DEF ChunkInv, EntryMatches, EventsMatch, CallsMatch, HandlerDone,
            IInv, TypeOK
      <3>3. CASE c = x
        <4>1. recv_calls[x] = 0 /\ recv_calls'[x] = 1
          BY <1>2, <2>1
          DEF ChunkInv, CallsMatch, HandlerDone, IInv, TypeOK
        <4> QED
          BY <1>2, <1>3, <1>4, <1>5, <2>1, <3>1, <3>3, <4>1
          DEF ChunkInv, EntryMatches, EventsMatch, CallsMatch, HandlerDone
      <3> QED
        BY <3>2, <3>3
    <2> QED
      BY <2>3, <2>4 DEF IInv
  <1>6. CASE ~frame.both
    <2>1. /\ frame' = Idle
          /\ tracker' = [tracker EXCEPT ![x].finished = TRUE]
          /\ UNCHANGED <<recv_calls, send_id, recv_id, in_flight, due, send_calls>>
      BY <1>1, <1>6 DEF send_handler_returns
    <2>2. frame' \in Frame /\ frame'.at = "idle"
      BY <2>1 DEF Frame, Idle
    <2>3. tracker[x] \in Entry
      BY <1>3 DEF IInv, TypeOK
    <2>4. /\ DOMAIN tracker' = DOMAIN tracker
          /\ \A d \in DOMAIN tracker \ {x} : tracker'[d] = tracker[d]
          /\ tracker'[x] = [tracker[x] EXCEPT !.finished = TRUE]
      BY <1>3, <2>1
    <2>5. tracker'[x] \in Entry /\ tracker'[x].finished
          /\ tracker'[x].send = tracker[x].send
          /\ tracker'[x].recv = tracker[x].recv
      BY <2>3, <2>4 DEF Entry
    <2>6. tracker' \in [DOMAIN tracker' -> Entry]
      BY <2>1, <2>4, <2>5 DEF IInv, TypeOK
    <2>7. TypeOK'
      BY <2>1, <2>2, <2>4, <2>6 DEF IInv, TypeOK
    <2>8. ASSUME NEW c \in Chunk PROVE ChunkInv(c)'
      <3>1. ~Running(c)'
        BY <2>2 DEF Running
      <3>2. CASE c # x
        BY <1>4, <2>1, <2>4, <3>1, <3>2
        DEF ChunkInv, EntryMatches, EventsMatch, CallsMatch, HandlerDone
      <3>3. CASE c = x
        BY <1>2, <1>3, <1>4, <1>6, <2>1, <2>4, <2>5, <3>1, <3>3
        DEF ChunkInv, EntryMatches, EventsMatch, CallsMatch, HandlerDone
      <3> QED
        BY <3>2, <3>3
    <2> QED
      BY <2>7, <2>8 DEF IInv
  <1> QED
    BY <1>2, <1>5, <1>6

\* The receiver's handler has returned and the entry is erased.
LEMMA RecvReturnsKeeps ==
    ASSUME IInv, recv_handler_returns
    PROVE  IInv'
  <1>1. PICK x \in Chunk : frame.chunk = x
    BY DEF IInv, TypeOK, Frame, Idle, recv_handler_returns
  <1>2. /\ frame.at = "recv_handler" /\ frame' = Idle /\ Idle \in Frame
        /\ tracker' = pop_entry(x)
        /\ UNCHANGED <<send_id, recv_id, in_flight, due, send_calls, recv_calls>>
    BY <1>1 DEF recv_handler_returns, Frame
  <1>3. TypeOK'
    BY <1>2 DEF IInv, TypeOK, pop_entry
  <1>4. ASSUME NEW c \in Chunk PROVE ChunkInv(c)'
    <2>1. ChunkInv(c) /\ SendPosted(c)' = SendPosted(c)
          /\ RecvPosted(c)' = RecvPosted(c)
      BY <1>2 DEF IInv, SendPosted, RecvPosted
    <2>2. (Running(c) <=> c = x) /\ ~Running(c)'
      BY <1>1, <1>2 DEF Running, Idle
    <2> QED
      BY <1>2, <2>1, <2>2
      DEF ChunkInv, EntryMatches, EventsMatch, CallsMatch, HandlerDone, pop_entry
  <1> QED
    BY <1>3, <1>4 DEF IInv

\* A receive handler that sim_recv scheduled runs.
LEMMA RecvEventKeeps ==
    ASSUME IInv, NEW x \in Chunk, run_recv_event(x)
    PROVE  IInv'
  <1>1. /\ frame.at = "idle" /\ x \in due /\ due' = due \ {x}
        /\ recv_calls' = [recv_calls EXCEPT ![x] = @ + 1]
        /\ UNCHANGED <<send_id, recv_id, tracker, in_flight, frame, send_calls>>
    BY DEF run_recv_event
  <1>2. TypeOK'
    BY <1>1 DEF IInv, TypeOK
  <1>3. ASSUME NEW c \in Chunk PROVE ChunkInv(c)'
    <2>1. ChunkInv(c) /\ SendPosted(c)' = SendPosted(c)
          /\ RecvPosted(c)' = RecvPosted(c) /\ ~Running(c) /\ ~Running(c)'
      BY <1>1 DEF IInv, SendPosted, RecvPosted, Running
    <2>2. recv_calls'[c] = IF c = x THEN recv_calls[c] + 1 ELSE recv_calls[c]
      BY <1>1 DEF IInv, TypeOK
    <2> QED
      BY <1>1, <2>1, <2>2
      DEF ChunkInv, EntryMatches, EventsMatch, CallsMatch, HandlerDone
  <1> QED
    BY <1>2, <1>3 DEF IInv

\* Every step keeps the inductive invariant.
LEMMA NextIInv == IInv /\ [Next]_vars => IInv'
  <1> SUFFICES ASSUME IInv, [Next]_vars PROVE IInv'
    OBVIOUS
  <1>1. CASE UNCHANGED vars
    <2>1. TypeOK'
      BY <1>1 DEF vars, IInv, TypeOK
    <2>2. ASSUME NEW c \in Chunk PROVE ChunkInv(c)'
      BY <1>1
      DEF vars, IInv, ChunkInv, EntryMatches, EventsMatch, CallsMatch,
          HandlerDone, SendPosted, RecvPosted, Running
    <2> QED
      BY <2>1, <2>2 DEF IInv
  <1>2. CASE Next
    BY <1>2, SendKeeps, RecvKeeps, ArrivalKeeps, SendReturnsKeeps,
       RecvReturnsKeeps, RecvEventKeeps
    DEF Next
  <1> QED
    BY <1>1, <1>2

-----------------------------------------------------------------------------
\* The per-chunk invariant holds throughout: it is what the theorems below
\* are read from.
THEOREM Invariance == Safety => []IInv
  BY InitIInv, NextIInv, PTL DEF Safety

\* The variables of ChunkIdGenerator, CallbackTracker and the event queue
\* keep their types for any number of ranks, keys and chunks.
THEOREM TypeCorrect == Safety => []TypeOK
  <1>1. IInv => TypeOK
    BY DEF IInv
  <1> QED
    BY <1>1, Invariance, PTL

\* No assert of CallbackTracker, CallbackTrackerEntry or
\* process_chunk_arrival can fail, and process_chunk_arrival never uses an
\* entry that a handler it called has erased.
THEOREM AssertsNeverFail == Safety => []AssertsHold
  <1>1. IInv => AssertsHold
    <2> SUFFICES ASSUME IInv PROVE AssertsHold
      OBVIOUS
    <2>1. ASSUME NEW c \in in_flight PROVE c \in DOMAIN tracker /\ tracker[c].send
      BY DEF IInv, TypeOK, ChunkInv, EntryMatches, EventsMatch
    <2>2. ASSUME frame.at # "idle"
          PROVE  /\ frame.chunk \in DOMAIN tracker
                 /\ tracker[frame.chunk].send
                 /\ frame.at = "send_handler" /\ frame.both
                       => tracker[frame.chunk].recv
      <3>1. frame.chunk \in Chunk /\ Running(frame.chunk)
        BY <2>2 DEF IInv, TypeOK, Frame, Idle, Running
      <3> QED
        BY <3>1 DEF IInv, ChunkInv, EntryMatches, EventsMatch
    <2>3. ASSUME NEW c \in DOMAIN tracker
          PROVE  /\ tracker[c].send => SendPosted(c)
                 /\ tracker[c].recv => RecvPosted(c)
      BY DEF IInv, TypeOK, ChunkInv, EntryMatches
    <2> QED
      BY <2>1, <2>2, <2>3 DEF AssertsHold
  <1> QED
    BY <1>1, Invariance, PTL

\* A receive whose send was called is never forgotten, although
\* process_chunk_arrival runs the sender's handler between testing for the
\* receive and marking the chunk as arrived.
THEOREM NoCallbackIsLost == Safety => []NoLostCallback
  <1>1. IInv => NoLostCallback
    BY DEF IInv, TypeOK, ChunkInv, EntryMatches, EventsMatch, CallsMatch,
           HandlerDone, NoLostCallback, both_callbacks_registered, Running,
           Frame, Idle
  <1> QED
    BY <1>1, Invariance, PTL

\* The tracker holds an entry exactly for the chunks that still need one.
THEOREM TrackerNeverLeaks == Safety => []TrackerExact
  <1>1. IInv => TrackerExact
    BY DEF IInv, TypeOK, ChunkInv, EntryMatches, TrackerExact
  <1> QED
    BY <1>1, Invariance, PTL

\* The front end implements MessageMatching: sends and receives are paired in
\* order and each handler runs exactly once, the receiver's last.
THEOREM Refinement == Safety => ImplementsMatching
  <1> USE DEF Matching!ChunkOf, Matching!avars
  <1>0. Chunk = Matching!ChunkOf
    BY DEF Chunk, ChunkId
  <1>1. Init => Matching!AInit
    BY <1>0 DEF Init, Matching!AInit
  <1>2. IInv /\ IInv' /\ [Next]_vars => [Matching!ANext]_(Matching!avars)
    <2> SUFFICES ASSUME IInv, IInv', [Next]_vars
                 PROVE  Matching!ANext \/ UNCHANGED Matching!avars
      OBVIOUS
    <2>1. CASE UNCHANGED vars
      BY <2>1 DEF vars
    <2>2. ASSUME NEW k \in Key, sim_send(k) PROVE Matching!PostSend(k)
      BY <2>2 DEF sim_send, Matching!PostSend, IInv, TypeOK
    <2>3. ASSUME NEW k \in Key, sim_recv(k) PROVE Matching!PostRecv(k)
      BY <2>3 DEF sim_recv, Matching!PostRecv, IInv, TypeOK
    <2>0. ASSUME NEW c \in Chunk
          PROVE  /\ ChunkInv(c)
                 /\ SendPosted(c) => c[2] < [k \in Key |-> send_id[k] + 1][c[1]]
                 /\ RecvPosted(c) => c[2] < [k \in Key |-> recv_id[k] + 1][c[1]]
      BY ChunkParts DEF SendPosted, RecvPosted, IInv, TypeOK, ChunkId
    <2>4. ASSUME NEW c \in Chunk, process_chunk_arrival(c)
          PROVE  Matching!CompleteSend(c)
      <3>1. SendPosted(c) /\ send_calls[c] = 0
        BY <2>0, <2>4
        DEF process_chunk_arrival, ChunkInv, CallsMatch, EventsMatch
      <3>2. /\ send_calls' = [send_calls EXCEPT ![c] = 1]
            /\ UNCHANGED <<send_id, recv_id, recv_calls>>
        BY <2>4, <3>1 DEF process_chunk_arrival
      <3> QED
        BY <2>0, <3>1, <3>2 DEF Matching!CompleteSend
    <2>5. ASSUME NEW c \in Chunk, run_recv_event(c)
          PROVE  Matching!CompleteRecv(c)
      <3>1. SendPosted(c) /\ RecvPosted(c) /\ send_calls[c] = 1
            /\ recv_calls[c] = 0
        BY <2>0, <2>5
        DEF run_recv_event, ChunkInv, CallsMatch, EventsMatch, HandlerDone
      <3> QED
        BY <2>0, <2>5, <3>1 DEF run_recv_event, Matching!CompleteRecv
    <2>6. ASSUME send_handler_returns, frame.both
          PROVE  Matching!CompleteRecv(frame.chunk) /\ frame.chunk \in Chunk
      <3>1. PICK c \in Chunk : c = frame.chunk /\ Running(c)
        BY <2>6 DEF IInv, TypeOK, Frame, Idle, send_handler_returns, Running
      <3>2. SendPosted(c) /\ RecvPosted(c) /\ send_calls[c] = 1
            /\ recv_calls[c] = 0
        BY <2>0, <2>6, <3>1
        DEF send_handler_returns, ChunkInv, CallsMatch, EventsMatch, HandlerDone
      <3> QED
        BY <2>0, <2>6, <3>1, <3>2 DEF send_handler_returns, Matching!CompleteRecv
    <2>7. ASSUME send_handler_returns, ~frame.both PROVE UNCHANGED Matching!avars
      BY <2>7 DEF send_handler_returns
    <2>8. ASSUME recv_handler_returns PROVE UNCHANGED Matching!avars
      BY <2>8 DEF recv_handler_returns
    <2> QED
      BY <1>0, <2>1, <2>2, <2>3, <2>4, <2>5, <2>6, <2>7, <2>8
      DEF Next, Matching!ANext
  <1> QED
    BY <1>1, <1>2, Invariance, PTL DEF Safety, ImplementsMatching, Matching!ASpec
=============================================================================
