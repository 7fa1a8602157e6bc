----------------------------- MODULE SysEventQueue -----------------------------
(***************************************************************************)
(* The event queue of Sys: one list of events per tick, and one CallEvents *)
(* in the network's event queue per list.                                  *)
(*                                                                         *)
(* A handler that call_events runs may register further events, for the    *)
(* tick whose list is being walked too; so may any other event of the      *)
(* network, before or after the walk of that tick.  walk is the position   *)
(* of the event whose handler is running.  An exception in a handler is    *)
(* caught and the walk goes on, so it is a return like any other.          *)
(*                                                                         *)
(* An event is known by its number in the order of registration.           *)
(***************************************************************************)
EXTENDS Naturals, Sequences, FiniteSets

CONSTANTS MaxTick,    \* bound on the simulated time
          MaxEvents   \* bound on the events registered

ASSUME BoundAssumption == MaxTick \in Nat /\ MaxEvents \in Nat

Tick == 0 .. MaxTick

VARIABLES
    now,             \* Sys::boostedTick
    event_queue,     \* the lists, for the ticks that have one
    scheduled,       \* CallEvents of a tick in the network's event queue
    walk,            \* position of call_events in the list of now, or 0
    pending_events,  \* the counter of that name
    due,             \* history: the tick each event was registered for
    fired            \* history: the events whose call has begun

vars == <<now, event_queue, scheduled, walk, pending_events, due, fired>>

Event == 1 .. Len(due)

Init ==
    /\ now = 0
    /\ event_queue = [t \in {} |-> <<>>]
    /\ scheduled = [t \in Tick |-> 0]
    /\ walk = 0
    /\ pending_events = 0
    /\ due = <<>>
    /\ fired = {}

-----------------------------------------------------------------------------
(***************************************************************************)
(* An operator named ..._Mut... is the operator it precedes with a         *)
(* plausible slip in it; no specification uses it.                         *)
(***************************************************************************)

\* event_queue[t], which is empty when there is no list yet.
List(t) == IF t \in DOMAIN event_queue THEN event_queue[t] ELSE <<>>

(***************************************************************************)
(* try_register_event for tick t: append to the list of t; a new list      *)
(* needs a CallEvents.                                                     *)
(***************************************************************************)
ShouldSchedule_MutNotNow(t) == t \notin DOMAIN event_queue /\ t # now

ShouldSchedule_MutAlways(t) == TRUE

ShouldSchedule(t) == t \notin DOMAIN event_queue

PushBack_MutFront(q, e) == <<e>> \o q

PushBack(q, e) == Append(q, e)

try_register_event_MutCountLists(t) ==
    /\ Len(due) < MaxEvents
    /\ t >= now
    /\ due' = Append(due, t)
    /\ event_queue' = [u \in DOMAIN event_queue \cup {t} |->
                          IF u = t THEN PushBack(List(t), Len(due) + 1)
                          ELSE event_queue[u]]
    /\ \/ /\ ShouldSchedule(t)
          /\ scheduled' = [scheduled EXCEPT ![t] = @ + 1]
          /\ pending_events' = pending_events + 1
       \/ /\ ~ShouldSchedule(t)
          /\ UNCHANGED <<scheduled, pending_events>>
    /\ UNCHANGED <<now, walk, fired>>

try_register_event(t) ==
    /\ Len(due) < MaxEvents
    /\ t >= now
    /\ due' = Append(due, t)
    /\ event_queue' = [u \in DOMAIN event_queue \cup {t} |->
                          IF u = t THEN PushBack(List(t), Len(due) + 1)
                          ELSE event_queue[u]]
    /\ scheduled' = IF ShouldSchedule(t)
                    THEN [scheduled EXCEPT ![t] = @ + 1] ELSE scheduled
    /\ pending_events' = pending_events + 1
    /\ UNCHANGED <<now, walk, fired>>

(***************************************************************************)
(* The loop of call_events arrives at position k: the next event is        *)
(* called, or the list is erased.  The list is looked at anew, so events   *)
(* that were appended meanwhile are reached.                               *)
(***************************************************************************)
ArriveAt(k) ==
    \/ /\ k <= Len(List(now))
       /\ walk' = k
       /\ fired' = fired \cup {List(now)[k]}
       /\ pending_events' = pending_events - 1
       /\ UNCHANGED event_queue
    \/ /\ k > Len(List(now))
       /\ walk' = 0
       /\ event_queue' = [u \in DOMAIN event_queue \ {now} |-> event_queue[u]]
       /\ UNCHANGED <<fired, pending_events>>

call_events ==
    /\ walk = 0
    /\ scheduled[now] > 0
    /\ scheduled' = [scheduled EXCEPT ![now] = @ - 1]
    /\ ArriveAt(1)
    /\ UNCHANGED <<now, due>>

handler_returns ==
    /\ walk > 0
    /\ ArriveAt(walk + 1)
    /\ UNCHANGED <<now, scheduled, due>>

(***************************************************************************)
(* The network's event queue (external) goes on to a later tick when it    *)
(* has nothing left for this one.                                          *)
(***************************************************************************)
proceed ==
    /\ walk = 0
    /\ scheduled[now] = 0
    /\ now < MaxTick
    /\ now' = now + 1
    /\ UNCHANGED <<event_queue, scheduled, walk, pending_events, due, fired>>

Next ==
    \/ \E t \in Tick : try_register_event(t)
    \/ call_events
    \/ handler_returns
    \/ proceed

(***************************************************************************)
(* The network runs what it was given and handlers return.                 *)
(***************************************************************************)
Fairness == WF_vars(call_events) /\ WF_vars(handler_returns) /\ WF_vars(proceed)

Spec == Init /\ [][Next]_vars /\ Fairness

-----------------------------------------------------------------------------
(***************************************************************************)
(* Properties.                                                             *)
(***************************************************************************)

\* Lists belong to ticks and hold events, the walk stays inside its list and the
\* counter of pending events stays in range.
TypeOK ==
    /\ now \in Tick
    /\ DOMAIN event_queue \subseteq Tick
    /\ event_queue \in [DOMAIN event_queue -> Seq(1 .. MaxEvents)]
    /\ scheduled \in [Tick -> Nat]
    /\ walk \in 0 .. Len(List(now))
    /\ pending_events \in 0 .. Len(due)
    /\ due \in Seq(Tick) /\ Len(due) <= MaxEvents
    /\ fired \subseteq Event

\* Every list has exactly one CallEvents to come, or is being walked by the
\* one it had; a tick without a list has none.  With one too few a list would
\* never be called, with one too many call_events would run on no list.
OneCallPerList ==
    \A t \in Tick :
        scheduled[t] = IF t \in DOMAIN event_queue /\ ~(t = now /\ walk > 0)
                       THEN 1 ELSE 0

\* pending_events, an unsigned counter, is the number of events registered and
\* not called: it never goes below zero, also when handlers register events or
\* throw.
PendingExact == pending_events = Cardinality(Event \ fired)

\* The lists and the CallEvents together keep the promise of TimedEvents: each
\* event is called once, on time, in the order of registration.
Timed == INSTANCE TimedEvents

ImplementsTimedEvents == Timed!TSpec

\* Every event registered is called.
EveryEventCalled == \A e \in 1 .. MaxEvents : e \in Event ~> e \in fired
=============================================================================
