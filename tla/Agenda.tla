------------------------------- MODULE Agenda -------------------------------
(***************************************************************************)
(* What the event queue of pic.cpp promises to the devices that use it: an *)
(* agenda in order of time, first come first served among equal times; an  *)
(* event starts only when its time has come, and emulated time never runs  *)
(* more than Slack cycles past the event at the head.                      *)
(*                                                                         *)
(* Times are in parts of a cycle, Sub parts to the cycle, counted from the *)
(* start of the current tick (one millisecond); the clock is in cycles.    *)
(***************************************************************************)
EXTENDS Integers, SequencesExt

CONSTANTS
    Handlers,    \* event handlers (C functions)
    Values,      \* arguments they are scheduled with
    Delays,      \* delays asked for, in parts of a cycle
    Sub,         \* parts of a cycle that an index distinguishes
    CycleMax,    \* cycles of a tick (CPU_CycleMax)
    PoolSize,    \* PIC_QUEUESIZE
    Slack        \* cycles by which the CPU may run past the head

VARIABLES
    agenda,      \* sequence of scheduled events
    running,     \* the event whose handler runs, or NoEvent
    clock        \* PIC_TickIndexND()
vars == <<agenda, running, clock>>

NoEvent == [handler |-> "none"]
Event == [handler : Handlers, value : Values, index : Int]

Init == agenda = <<>> /\ running = NoEvent /\ clock = 0

\* the time a delay counts from: the due time of the event being handled, or now
Base == IF running # NoEvent THEN running.index ELSE clock * Sub

\* behind the events that are due no later, before the others
Insert(e) ==
    \E i \in 1..(Len(agenda) + 1) :
        /\ \A j \in DOMAIN agenda : j < i <=> agenda[j].index <= e.index
        /\ agenda' = InsertAt(agenda, i, e)

\* Schedule; with the pool exhausted the request is forgotten.
Add ==
    /\ \E h \in Handlers, v \in Values, d \in Delays :
          Insert([handler |-> h, value |-> v, index |-> Base + d])
    /\ Len(agenda) + (IF running # NoEvent THEN 1 ELSE 0) < PoolSize
    /\ UNCHANGED <<running, clock>>

\* the events at these places remain, in the order they had
Keep(places) ==
    \E n \in 0..Len(agenda) : \E place \in [1..n -> places] :
        /\ \A i, j \in 1..n : i < j => place[i] < place[j]
        /\ {place[i] : i \in 1..n} = places
        /\ agenda' = [i \in 1..n |-> agenda[place[i]]]

\* Cancel a handler's events, or those with one value; never the running one.
Cancel ==
    /\ \E h \in Handlers, vs \in {Values} \cup {{v} : v \in Values} :
          Keep({i \in DOMAIN agenda :
                   ~(agenda[i].handler = h /\ agenda[i].value \in vs)})
    /\ UNCHANGED <<running, clock>>

Start ==
    /\ running = NoEvent
    /\ agenda # <<>>
    /\ Head(agenda).index <= clock * Sub
    /\ running' = Head(agenda)
    /\ agenda' = Tail(agenda)
    /\ UNCHANGED clock

Finish ==
    /\ running # NoEvent
    /\ running' = NoEvent
    /\ UNCHANGED <<agenda, clock>>

\* Time passes (an instruction may schedule an event as well).
Pass ==
    /\ running = NoEvent
    /\ clock' \in clock..(CycleMax + Slack)
    /\ agenda # <<>> => clock' * Sub <= Head(agenda).index + Slack * Sub
    /\ UNCHANGED <<agenda, running>>

\* A tick ends: the clock restarts, what was scheduled comes one tick nearer.
Tick ==
    /\ running = NoEvent
    /\ clock >= CycleMax
    /\ clock' = 0
    /\ agenda' = [i \in DOMAIN agenda |->
                     [agenda[i] EXCEPT !.index = @ - CycleMax * Sub]]
    /\ UNCHANGED running

Next == Add \/ Cancel \/ Start \/ Finish \/ Pass \/ Tick

Spec == Init /\ [][Next]_vars

-----------------------------------------------------------------------------
(* Properties.                                                             *)

\* Events wait in the order of their times.
Sorted ==
    \A i, j \in DOMAIN agenda : i < j => agenda[i].index <= agenda[j].index

\* No event is ever more than Slack cycles overdue, neither while it waits nor
\* when its handler runs; an event scheduled by a late handler, whose delay
\* counts from the handler's own due time, included.
NeverLate ==
    LET onTime(e) == clock * Sub <= e.index + Slack * Sub
    IN  /\ \A i \in DOMAIN agenda : onTime(agenda[i])
        /\ running # NoEvent => onTime(running)
=============================================================================
