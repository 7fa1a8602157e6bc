-------------------------------- MODULE MemBus ---------------------------------
(***************************************************************************)
(* The memory bus of one NPU: the packet bundles of the collective         *)
(* algorithms, the two ends of the shared bus ("NPU", "MA") and the second *)
(* bus that hangs on the NPU end ("NPU2", "MA2"), with simulated time.     *)
(*                                                                         *)
(* A bundle becomes a request at one end, which is sent to the other end,  *)
(* perhaps processed there, perhaps sent back, and then calls its bundle.  *)
(* At the NPU end every step of a request first makes a round over the     *)
(* second bus: request_read and send_back wait in pre_send, processing in  *)
(* pre_process, completion in retirements.                                 *)
(*                                                                         *)
(* A handler is a function from states of the bus to states of the bus,    *)
(* because handlers call each other.  The delays of the four kinds of      *)
(* statistics of a request are kept in one number per bus (shared, mem).   *)
(***************************************************************************)
EXTENDS Integers, SequencesExt

CONSTANTS
    Param,       \* the settings considered
    Kind,        \* the bundles that the algorithms may make
    THRESHOLD,   \* sends of one end before the other gets its turn (8 in LogGP)
    MaxBundles,  \* bound on the bundles made
    MaxIdle      \* bound on the time at which an idle bus is used again

(***************************************************************************)
(* L, o, g, G as in LogGP; G2 is the G of the second bus; processing is    *)
(* the delay of LogGP's processing, reduction that of a bundle's, delay    *)
(* the delay of the simple bus.  Delays per byte count whole ticks.        *)
(***************************************************************************)
ASSUME ParamAssumption ==
    /\ \A p \in Param :
          /\ p \in [{"L", "o", "g", "G", "G2", "processing", "reduction",
                     "delay"} -> Nat]
    /\ \A k \in Kind :
          /\ k.size \in Nat \ {0}
          /\ k.to \in {"MA", "NPU"}
          /\ k.processed \in BOOLEAN /\ k.send_back \in BOOLEAN
          /\ k.shared \in BOOLEAN
    /\ THRESHOLD \in Nat /\ MaxBundles \in Nat /\ MaxIdle \in Nat

VARIABLES
    param,   \* the settings
    now,     \* Sys::boostedTick()
    events,  \* the pending events, in the order in which they will run
    end,     \* the four LogGP objects
    bundle   \* the PacketBundle objects, in the order of their creation

vars == <<param, now, events, end, bundle>>

End == {"NPU", "MA", "NPU2", "MA2"}

partner ==
    [e \in End |-> CASE e = "NPU" -> "MA" [] e = "MA" -> "NPU"
                     [] e = "NPU2" -> "MA2" [] e = "MA2" -> "NPU2"]

GapPerByte(e) == IF e \in {"NPU", "MA"} THEN param.G ELSE param.G2

Init ==
    /\ param \in Param
    /\ now = 0
    /\ events = <<>>
    /\ end = [e \in End |->
                 [ curState |-> "Free", prevState |-> "Free",
                   processing_state |-> "Free",
                   last_trans |-> 0, subsequent_reads |-> 0,
                   sends |-> <<>>, receives |-> <<>>, processing |-> <<>>,
                   pre_send |-> <<>>, pre_process |-> <<>>,
                   retirements |-> <<>> ]]
    /\ bundle = <<>>

Bus == [events |-> events, end |-> end, bundle |-> bundle]

\* Sys::register_event: behind everything that is due by then.
register_event(s, delay, what, e, id) ==
    LET ev  == [at |-> now + delay, what |-> what, end |-> e, id |-> id]
        due == SelectSeq(s.events, LAMBDA x : x.at <= ev.at)
    IN  [s EXCEPT !.events =
            due \o <<ev>> \o SubSeq(@, Len(due) + 1, Len(@))]

(***************************************************************************)
(* MemMovRequest.  id is the bundle it serves; callEvent tells, for a      *)
(* request on the second bus, which event of the NPU end its completion    *)
(* causes, and is "bundle" on the first bus.                               *)
(***************************************************************************)
MemMovRequest(id, size, processed, send_back, callEvent) ==
    [ id |-> id, size |-> size, processed |-> processed,
      send_back |-> send_back, callEvent |-> callEvent,
      created |-> now, start_time |-> now, shared |-> 0, mem |-> 0 ]

\* A waiting or a transfer ends: its time is added to the statistics.
Account(r) ==
    [r EXCEPT !.shared = @ + (now - r.start_time), !.start_time = now]

\* SharedBusStat, and its update_bus_stats for the delays of the second bus.
SharedBusStat(shared, mem) == [shared |-> shared, mem |-> mem]

update_bus_stats(r, stat) == [r EXCEPT !.mem = @ + stat.mem]

-----------------------------------------------------------------------------
(***************************************************************************)
(* LogGP.  An operator named ..._Mut... is the operator it precedes with a *)
(* plausible slip in it; no specification uses it.                         *)
(***************************************************************************)
switch_to_receiver(s, e, r, offset) ==
    register_event(
        [s EXCEPT !.end[e].receives = Append(@, [r EXCEPT !.start_time = now]),
                  !.end[e].prevState = s.end[e].curState,
                  !.end[e].curState = "Receiving",
                  !.end[e].subsequent_reads = 0],
        offset + (r.size - 1) * GapPerByte(e) + param.L + param.o,
        "Rec_Finished", e, 0)

Offset(a) ==
    IF a.prevState = "Sending" /\ param.o + (now - a.last_trans) <= param.g
    THEN param.g - (now - a.last_trans)
    ELSE param.o

process_next_read(s, e) ==
    LET r      == Account(Head(s.end[e].sends))
        offset == Offset(s.end[e])
        t      == switch_to_receiver(s, partner[e], r, offset)
    IN  register_event(
            [t EXCEPT !.end[e].sends = Tail(@), !.end[e].curState = "Sending"],
            offset + (r.size - 1) * GapPerByte(e), "Send_Finished", e, 0)

(***************************************************************************)
(* The end of call() and of request_read(): a free end sends, unless it    *)
(* has had its share and leaves the bus to the other end.                  *)
(***************************************************************************)
Yields(s, e) ==
    /\ s.end[e].subsequent_reads > THRESHOLD
    /\ s.end[partner[e]].sends # <<>>
    /\ s.end[partner[e]].subsequent_reads <= THRESHOLD

SendNext(s, e) ==
    IF s.end[e].curState # "Free" \/ s.end[e].sends = <<>> THEN s
    ELSE IF ~Yields(s, e) THEN process_next_read(s, e)
    ELSE IF s.end[partner[e]].curState = "Free"
         THEN process_next_read(s, partner[e])
    ELSE s

\* request_read at an end without a second bus.
request_read(s, e, r) ==
    SendNext([s EXCEPT !.end[e].sends = Append(@, r)], e)

(***************************************************************************)
(* The NPU end puts a request in one of its waiting lists and crosses the  *)
(* second bus, from MA2 when data is read, else from NPU2.                 *)
(***************************************************************************)
wait_for_mem_bus(s, list, r, from, send_back, callEvent) ==
    request_read([s EXCEPT !.end["NPU"][list] = Append(@, r)], from,
                 MemMovRequest(r.id, r.size, FALSE, send_back, callEvent))

(***************************************************************************)
(* PacketBundle: send_to_MA, send_to_NPU.                                  *)
(***************************************************************************)
send_bundle(s, id) ==
    LET k == s.bundle[id].kind
        r == MemMovRequest(id, k.size, k.processed, k.send_back, "bundle")
    IN  IF ~k.shared THEN register_event(s, param.delay, "bus", "none", id)
        ELSE IF k.to = "MA"
             THEN wait_for_mem_bus(s, "pre_send", r, "MA2", FALSE,
                                   "Consider_Send_Back")
        ELSE request_read(s, "MA", r)

\* A new bundle of the algorithm; none when spawn is empty.
Spawned(s, spawn) ==
    IF spawn = <<>> \/ Len(s.bundle) = MaxBundles THEN s
    ELSE send_bundle(
             [s EXCEPT !.bundle = Append(@,
                 [ kind |-> Head(spawn), needs_processing |-> Head(spawn).processed,
                   created |-> now, returned |-> FALSE,
                   calls |-> 0, left |-> 0, shared |-> 0, mem |-> 0 ])],
             Len(s.bundle) + 1)

(***************************************************************************)
(* PacketBundle::call: the reduction first, if there is one; then the      *)
(* stream's General event, in which the algorithm may make a bundle, and   *)
(* the bundle deletes itself.                                              *)
(***************************************************************************)
bundle_call(s, id, spawn) ==
    IF s.bundle[id].needs_processing
    THEN register_event([s EXCEPT !.bundle[id].needs_processing = FALSE],
             param.reduction, "CommProcessingFinished", "none", id)
    ELSE Spawned([s EXCEPT !.bundle[id].calls = @ + 1], spawn)

\* The bus returns the bundle, with its statistics.
Returned(s, id, stat, spawn) ==
    bundle_call([s EXCEPT !.bundle[id].returned = TRUE, !.bundle[id].left = now,
                          !.bundle[id].shared = stat.shared,
                          !.bundle[id].mem = stat.mem],
                id, spawn)

StartProcessing(s, e) ==
    IF s.end[e].processing_state = "Free" /\ s.end[e].processing # <<>>
    THEN register_event(
             [s EXCEPT !.end[e].processing_state = "Processing",
                       !.end[e].processing[1] = Account(@)],
             param.processing, "Processing_Finished", e, 0)
    ELSE s

(***************************************************************************)
(* MemMovRequest::call for the request id that waits in a list of the NPU  *)
(* end (talking_it), and the event it causes there.                        *)
(***************************************************************************)
Waiting(s, list, id, mem) ==
    LET i == CHOOSE j \in 1 .. Len(s.end["NPU"][list]) :
                 s.end["NPU"][list][j].id = id
    IN  update_bus_stats(s.end["NPU"][list][i], SharedBusStat(0, mem))

Without(s, list, id) ==
    [s EXCEPT !.end["NPU"][list] = SelectSeq(@, LAMBDA x : x.id # id)]

Consider_Send_Back(s, id, mem) ==
    LET t == Without(s, "pre_send", id) IN
    [t EXCEPT !.end["NPU"].sends = Append(@, Waiting(s, "pre_send", id, mem))]

Consider_Process_MutNoStart(s, id, mem) ==
    LET t == Without(s, "pre_process", id) IN
    [t EXCEPT !.end["NPU"].processing =
        Append(@, Waiting(s, "pre_process", id, mem))]

Consider_Process(s, id, mem) ==
    LET t == Without(s, "pre_process", id) IN
    StartProcessing(
        [t EXCEPT !.end["NPU"].processing =
            Append(@, Waiting(s, "pre_process", id, mem))], "NPU")

\* The statistics come from the front of the list, the rest from talking_it.
Consider_Retire_MutBack(s, id, mem, spawn) ==
    LET r == update_bus_stats(
                 SharedBusStat(Last(s.end["NPU"].retirements).shared, 0),
                 Waiting(s, "retirements", id, mem))
    IN  Without(Returned(s, id, r, spawn), "retirements", id)

Consider_Retire(s, id, mem, spawn) ==
    LET r == update_bus_stats(
                 SharedBusStat(Head(s.end["NPU"].retirements).shared, 0),
                 Waiting(s, "retirements", id, mem))
    IN  Without(Returned(s, id, r, spawn), "retirements", id)

NPU_call(s, callEvent, id, mem, spawn) ==
    SendNext(
        CASE callEvent = "Consider_Send_Back" -> Consider_Send_Back(s, id, mem)
          [] callEvent = "Consider_Process" -> Consider_Process(s, id, mem)
          [] callEvent = "Consider_Retire" -> Consider_Retire(s, id, mem, spawn),
        "NPU")

(***************************************************************************)
(* A request that is neither processed nor sent back any more is done at   *)
(* end e: its callable is called, at the NPU end after the second bus.     *)
(***************************************************************************)
Retire(s, e, r, spawn) ==
    CASE e = "MA" -> Returned(s, r.id, r, spawn)
      [] e = "NPU" -> wait_for_mem_bus(s, "retirements", r, "NPU2", FALSE,
                                       "Consider_Retire")
      [] e \in {"NPU2", "MA2"} -> NPU_call(s, r.callEvent, r.id, r.shared, spawn)

SendBack(s, e, r) ==
    IF e = "NPU"
    THEN wait_for_mem_bus(s, "pre_send", [r EXCEPT !.send_back = FALSE], "NPU2",
                          TRUE, "Consider_Send_Back")
    ELSE [s EXCEPT !.end[e].sends = Append(@, [r EXCEPT !.send_back = FALSE])]

Process(s, e, r) ==
    IF e = "NPU"
    THEN wait_for_mem_bus(s, "pre_process", [r EXCEPT !.processed = FALSE], "NPU2",
                          TRUE, "Consider_Process")
    ELSE [s EXCEPT !.end[e].processing = Append(@, [r EXCEPT !.processed = FALSE])]

-----------------------------------------------------------------------------
(***************************************************************************)
(* LogGP::call for the events of the queue.                                *)
(***************************************************************************)
Send_Finished_MutNoRetry(s, e) ==
    [s EXCEPT !.end[e].last_trans = now,
              !.end[e].prevState = s.end[e].curState,
              !.end[e].curState = "Free",
              !.end[e].subsequent_reads = @ + 1]

Send_Finished(s, e) ==
    SendNext([s EXCEPT !.end[e].last_trans = now,
                       !.end[e].prevState = s.end[e].curState,
                       !.end[e].curState = "Free",
                       !.end[e].subsequent_reads = @ + 1], e)

Received(a) ==
    [a EXCEPT !.receives = Tail(@), !.last_trans = now, !.prevState = a.curState,
              !.curState = IF Len(a.receives) < 2 THEN "Free" ELSE @]

Rec_Finished(s, e, spawn) ==
    LET r == Account(Head(s.end[e].receives))
        t == [s EXCEPT !.end[e] = Received(@)]
    IN  SendNext(
            IF r.processed THEN StartProcessing(Process(t, e, r), e)
            ELSE IF r.send_back THEN SendBack(t, e, r)
            ELSE Retire(t, e, r, spawn), e)

Processing_Finished(s, e, spawn) ==
    LET r == Account(Head(s.end[e].processing))
        t == [s EXCEPT !.end[e].processing = Tail(@),
                       !.end[e].processing_state = "Free"]
    IN  SendNext(StartProcessing(
            IF r.send_back THEN SendBack(t, e, r) ELSE Retire(t, e, r, spawn), e), e)

Handled(s, ev, spawn) ==
    CASE ev.what = "Send_Finished" -> Send_Finished(s, ev.end)
      [] ev.what = "Rec_Finished" -> Rec_Finished(s, ev.end, spawn)
      [] ev.what = "Processing_Finished" -> Processing_Finished(s, ev.end, spawn)
      [] ev.what = "bus" ->
            Returned(s, ev.id, SharedBusStat(param.delay, 0), spawn)
      [] ev.what = "CommProcessingFinished" -> bundle_call(s, ev.id, spawn)

Spawn == {<<>>} \cup {<<k>> : k \in Kind}

Become(s) == events' = s.events /\ end' = s.end /\ bundle' = s.bundle

\* Sys::call_events takes the next event that is due.
RunEvent ==
    /\ events # <<>> /\ Head(events).at = now
    /\ \E spawn \in Spawn :
          Become(Handled([Bus EXCEPT !.events = Tail(@)], Head(events), spawn))
    /\ UNCHANGED <<param, now>>

\* The algorithm makes a bundle on an event of the network or the scheduler.
MakeBundle ==
    /\ Len(bundle) < MaxBundles
    /\ \E k \in Kind : Become(Spawned(Bus, <<k>>))
    /\ UNCHANGED <<param, now>>

Advance ==
    /\ events = <<>> => now < MaxIdle /\ Len(bundle) < MaxBundles
    /\ events # <<>> => now < Head(events).at
    /\ now' = now + 1
    /\ UNCHANGED <<param, events, end, bundle>>

Next == RunEvent \/ MakeBundle \/ Advance

Spec == Init /\ [][Next]_vars

-----------------------------------------------------------------------------
(***************************************************************************)
(* Properties.                                                             *)
(***************************************************************************)
Pending(what, e) == SelectSeq(events, LAMBDA x : x.what = what /\ x.end = e)

Requests(e) ==
    LET a == end[e] IN
    a.sends \o a.receives \o a.processing \o a.pre_send \o a.pre_process
        \o a.retirements

\* Every event of a bus end finds its request, as the assertions of LogGP::call
\* demand, and no request waits without one: there is one Rec_Finished for every
\* request being received, one Processing_Finished exactly while something is
\* processed, and one request on the second bus for everything that waits for it.
\* No event is in the past: g minus the elapsed time, which is unsigned, does not
\* wrap around.  With a latency or an overhead, an end that is free neither sends
\* nor receives, and the two ends of a bus never send at the same time.  (With
\* L = o = 0 the receiver may finish before the sender does.)
EventsMatchRequests ==
    /\ \A i \in 1 .. Len(events) : events[i].at >= now
    /\ \A e \in End :
          /\ Len(Pending("Rec_Finished", e)) = Len(end[e].receives)
          /\ Len(Pending("Processing_Finished", e)) =
                (IF end[e].processing = <<>> THEN 0 ELSE 1)
          /\ (end[e].processing_state = "Processing") = (end[e].processing # <<>>)
    /\ Len(Requests("NPU2") \o Requests("MA2")) =
          Len(end["NPU"].pre_send \o end["NPU"].pre_process
                  \o end["NPU"].retirements)
    /\ param.L + param.o > 0 =>
          \A e \in End :
              /\ end[e].curState = "Free" =>
                    Pending("Send_Finished", e) \o Pending("Rec_Finished", e)
                        = <<>>
              /\ end[e].curState = "Sending" =>
                    Pending("Send_Finished", partner[e]) = <<>>

\* The delays that a request has collected are exactly the time it has spent
\* since its creation, up to the beginning of what it now waits for; and a bundle
\* gets the statistics of its own request, though Consider_Retire reads them from
\* the front of the list of retirements: the delays on the bus are no more than
\* the time it took, and with those on the second bus no less.
OwnStatistics ==
    /\ \A e \in End : \A i \in 1 .. Len(Requests(e)) :
          LET r == Requests(e)[i] IN r.shared = r.start_time - r.created
    /\ \A i \in 1 .. Len(bundle) : LET b == bundle[i] IN b.returned =>
          /\ b.shared <= b.left - b.created
          /\ b.left - b.created <= b.shared + b.mem
          /\ b.kind.to = "NPU" /\ b.kind.shared /\ ~b.kind.send_back
                /\ ~b.kind.processed =>
                   b.left - b.created = b.shared + b.mem

\* A bundle raises at most one General event, after the bus has returned it (it
\* deletes itself then), and when nothing is pending any more every bundle has
\* raised it: no end waits for the other for ever.
BundlesReturn ==
    \A i \in 1 .. Len(bundle) :
        /\ bundle[i].calls <= 1
        /\ bundle[i].calls = 1 => bundle[i].returned
        /\ events = <<>> => bundle[i].calls = 1
=============================================================================
