------------------------------ MODULE TimedEvents ------------------------------
(***************************************************************************)
(* What the simulator promises to whoever registers an event: the event is *)
(* called once, at the tick it was registered for, and after the events    *)
(* registered for that tick before it; no time passes over an event.       *)
(***************************************************************************)
EXTENDS Naturals, Sequences

CONSTANT MaxTick  \* bound on the simulated time

Tick == 0 .. MaxTick

VARIABLES
    now,    \* the simulated time
    due,    \* the tick of every event registered so far, in that order
    fired   \* the events called so far

Waiting(t) == {e \in DOMAIN due \ fired : due[e] = t}

TInit == now = 0 /\ due = <<>> /\ fired = {}

Register(t) ==
    /\ t >= now
    /\ due' = Append(due, t)
    /\ UNCHANGED <<now, fired>>

Fire(e) ==
    /\ e \in Waiting(now)
    /\ \A f \in Waiting(now) : e <= f
    /\ fired' = fired \cup {e}
    /\ UNCHANGED <<now, due>>

Pass ==
    /\ Waiting(now) = {}
    /\ now' \in Tick /\ now' = now + 1
    /\ UNCHANGED <<due, fired>>

TNext ==
    \/ \E t \in Tick : Register(t)
    \/ \E e \in DOMAIN due : Fire(e)
    \/ Pass

TSpec == TInit /\ [][TNext]_<<now, due, fired>>
=============================================================================
