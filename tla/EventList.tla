----------------------------- MODULE EventList -----------------------------
(***************************************************************************)
(* The event queue of dosbox/src/hardware/pic.cpp and the loop of          *)
(* dosbox.cpp that drives it: a pool of entries threaded on two singly     *)
(* linked lists, the budget of cycles handed to the CPU core, and the tick.*)
(* Implements Agenda.                                                      *)
(*                                                                         *)
(* PICEntry.index is a float in milliseconds; here it is an integer number *)
(* of parts of a cycle, Sub to the cycle, so that the conversions to whole *)
(* cycles still round as they do in the source.                            *)
(***************************************************************************)
EXTENDS Integers, SequencesExt

CONSTANTS Handlers, Values, Delays, Sub, CycleMax, PoolSize, Slack,
    Irqs,          \* interrupt lines that may be raised between two RunQueues
    MaxCost        \* most cycles one instruction takes from the budget

ASSUME EventListAssumption ==
    /\ \A d \in Delays : d \in Nat \ {0}
    /\ {Sub, CycleMax, PoolSize, MaxCost} \subseteq Nat \ {0}
    /\ IsFiniteSet(Irqs)

\* How far the CPU runs past an event.  Its grant is rounded up to a cycle, the
\* last instruction overruns what is left of it, each interrupt raised before
\* the grant is used up makes two cycles of the rest, and the loop of the core
\* takes one more.
ASSUME SlackAssumption ==
    /\ Slack \in Nat
    /\ Slack >= IF MaxCost = 1 THEN Max({2, Cardinality(Irqs) + 1})
                ELSE (MaxCost + 1) * (Cardinality(Irqs) + 1)

VARIABLES
    entries, next,             \* pic_queue.entries and their next pointers
    free_entry, next_entry,    \* heads of the two lists; 0 is the null pointer
    running,                   \* local variable entry of PIC_RunQueue, or 0
    InEventService, srv_lag,
    CPU_Cycles,                \* cycles the core may still spend
    CPU_CycleLeft,             \* cycles of this tick not handed out yet
    mode,                      \* where the emulator thread is
    irqs                       \* raised since the last PIC_runIRQs

lists == <<entries, next, free_entry, next_entry>>
service == <<running, InEventService, srv_lag>>
cycles == <<CPU_Cycles, CPU_CycleLeft>>
vars == <<lists, service, cycles, mode, irqs>>

Entries == 1..PoolSize
Blank == [handler |-> "none"]    \* a free entry: its fields are never read
Modes == {"loop",       \* Normal_Loop, about to call PIC_RunQueue
          "service",    \* its while loop, between two events
          "handler",    \* an event handler
          "fetch",      \* CPU core, between two instructions
          "execute",    \* CPU core or callback, inside an instruction
          "host",       \* GFX_Events: input from the host
          "ticker"}     \* tick handlers of TIMER_AddTick

\* the node reached from first over k next pointers
Node(nx, first) ==
    LET f[k \in 0..PoolSize] ==
            IF k = 0 THEN first
            ELSE LET p == f[k - 1] IN IF p = 0 THEN 0 ELSE nx[p]
    IN  f

Chain(nx, first) ==
    LET node == Node(nx, first)
    IN  [k \in {j \in Entries : node[j - 1] # 0} |-> node[k - 1]]

PIC_TickIndexND == CycleMax - CPU_CycleLeft - CPU_Cycles

\* whole cycles in so many parts: the cast to an integer drops the fraction
PIC_MakeCycles(parts) ==
    IF parts < 0 THEN -((-parts) \div Sub) ELSE parts \div Sub

\* cycles until the entry is due
Away(index) == PIC_MakeCycles(index - PIC_TickIndexND * Sub)

-----------------------------------------------------------------------------
(* Operations devices call, in any mode where device code runs.            *)

DeviceCode == mode \in {"handler", "execute", "host", "ticker"}

\* activate() and AddEntry: give the unspent cycles back, the core stops
StopCpu ==
    /\ CPU_CycleLeft' = CPU_CycleLeft + CPU_Cycles
    /\ CPU_Cycles' = 0

\* the entry after which AddEntry links one of this index: the first that is the
\* last of the queue or is followed by a later one
Predecessor(index) ==
    LET queue == Chain(next, next_entry)
        stops == {i \in DOMAIN queue :
                     next[queue[i]] = 0 \/ entries[next[queue[i]]].index > index}
    IN  queue[Min(stops)]

Link(new, event) ==
    LET pred == Predecessor(event.index)
    IN  /\ entries' = [entries EXCEPT ![new] = event]
        /\ IF next_entry = 0 \/ entries[next_entry].index > event.index
             THEN /\ next_entry' = new
                  /\ next' = [next EXCEPT ![new] = next_entry]
             ELSE /\ next' = [next EXCEPT ![new] = next[pred], ![pred] = new]
                  /\ UNCHANGED next_entry

\* Faulty variant: the core keeps its cycles whatever is scheduled.
AddEntry_keeps_cycles(new, event) == Link(new, event) /\ UNCHANGED cycles

AddEntry(new, event) ==
    /\ Link(new, event)
    /\ IF Away(entries'[next_entry'].index) < CPU_Cycles
         THEN StopCpu ELSE UNCHANGED cycles

\* Faulty variant: a handler's delays count from now, not from its due time.
DueTime_from_now(delay) == delay + PIC_TickIndexND * Sub

\* a delay counts from the due time of the event being served, or from now
DueTime(delay) ==
    delay + (IF InEventService THEN srv_lag ELSE PIC_TickIndexND * Sub)

PIC_AddEvent(handler, value, delay) ==
    /\ DeviceCode
    /\ free_entry # 0      \* else "Event queue full": nothing changes
    /\ AddEntry(free_entry, [handler |-> handler, value |-> value,
                             index |-> DueTime(delay)])
    /\ free_entry' = next[free_entry]
    /\ UNCHANGED <<service, mode, irqs>>

\* the removal loop: one visit of entry e, with the entry kept before it
Visit(doomed, list, e) ==
    IF e \notin doomed THEN [list EXCEPT !.prev = e]
    ELSE IF list.prev # 0
      THEN [list EXCEPT !.next[list.prev] = list.next[e],
                        !.next[e] = list.free, !.free = e]
      ELSE [list EXCEPT !.head = list.next[e],
                        !.next[e] = list.free, !.free = e]

RemoveAll(doomed) ==
    LET queue == Chain(next, next_entry)
        start == [next |-> next, head |-> next_entry, free |-> free_entry,
                  prev |-> 0]
        list[i \in 0..Len(queue)] ==
            IF i = 0 THEN start ELSE Visit(doomed, list[i - 1], queue[i])
        done  == list[Len(queue)]
    IN  /\ DeviceCode
        /\ doomed # {}
        /\ next' = done.next
        /\ next_entry' = done.head
        /\ free_entry' = done.free
        /\ entries' = [e \in Entries |-> IF e \in doomed THEN Blank ELSE entries[e]]
        /\ UNCHANGED <<service, cycles, mode, irqs>>

Queued == ToSet(Chain(next, next_entry))

PIC_RemoveEvents(handler) ==
    RemoveAll({e \in Queued : entries[e].handler = handler})

PIC_RemoveSpecificEvents(handler, value) ==
    RemoveAll({e \in Queued : entries[e].handler = handler
                             /\ entries[e].value = value})

\* An interrupt raised by an I/O write leaves the core two cycles, taken from
\* CPU_CycleLeft even when that makes it negative.
PIC_ActivateIRQ(irq) ==
    /\ DeviceCode
    /\ irq \notin irqs
    /\ irqs' = irqs \cup {irq}
    /\ IF CPU_Cycles # 0
         THEN /\ CPU_CycleLeft' = CPU_CycleLeft + CPU_Cycles - 2
              /\ CPU_Cycles' = 2
         ELSE UNCHANGED cycles
    /\ UNCHANGED <<lists, service, mode>>

-----------------------------------------------------------------------------
(* PIC_RunQueue.                                                           *)

RunQueue ==
    /\ mode = "loop"
    /\ StopCpu
    /\ IF CPU_CycleLeft' <= 0
         THEN mode' = "host" /\ UNCHANGED InEventService
         ELSE mode' = "service" /\ InEventService' = TRUE
    /\ UNCHANGED <<lists, running, srv_lag, irqs>>

Due == next_entry # 0 /\ entries[next_entry].index <= PIC_TickIndexND * Sub

StartEvent ==
    /\ mode = "service"
    /\ Due
    /\ running' = next_entry
    /\ next_entry' = next[next_entry]
    /\ srv_lag' = entries[next_entry].index
    /\ mode' = "handler"
    /\ UNCHANGED <<entries, next, free_entry, InEventService, cycles, irqs>>

\* Faulty variant: the served entry does not become the head of the free list.
FinishEvent_leaks ==
    /\ mode = "handler"
    /\ next' = [next EXCEPT ![running] = free_entry]
    /\ entries' = [entries EXCEPT ![running] = Blank]
    /\ running' = 0
    /\ mode' = "service"
    /\ UNCHANGED <<free_entry, next_entry, InEventService, srv_lag, cycles, irqs>>

FinishEvent ==
    /\ mode = "handler"
    /\ next' = [next EXCEPT ![running] = free_entry]
    /\ entries' = [entries EXCEPT ![running] = Blank]
    /\ free_entry' = running
    /\ running' = 0
    /\ mode' = "service"
    /\ UNCHANGED <<next_entry, InEventService, srv_lag, cycles, irqs>>

\* Hand the core the cycles to the next event, at least one, at most the rest
\* of the tick; then PIC_runIRQs, which may deliver what was raised.  srv_lag
\* is not read again before StartEvent sets it: its old value is forgotten.
EndService ==
    LET away  == Away(entries[next_entry].index)
        until == IF away = 0 THEN 1 ELSE away
        grant == IF next_entry # 0 /\ until < CPU_CycleLeft
                   THEN until ELSE CPU_CycleLeft
    IN  /\ mode = "service"
        /\ ~Due
        /\ CPU_Cycles' = grant
        /\ CPU_CycleLeft' = CPU_CycleLeft - grant
        /\ InEventService' = FALSE
        /\ srv_lag' = 0
        /\ mode' = "fetch"
        /\ irqs' \in {irqs, {}}
        /\ UNCHANGED <<lists, running>>

-----------------------------------------------------------------------------
(* The CPU core: while (CPU_Cycles-->0) { instruction }.                   *)

Fetch ==
    /\ mode = "fetch"
    /\ CPU_Cycles > 0
    /\ \E cost \in 1..MaxCost : CPU_Cycles' = CPU_Cycles - cost
    /\ mode' = "execute"
    /\ UNCHANGED <<lists, service, CPU_CycleLeft, irqs>>

\* port delays, string instructions and HLT use up part or all of the budget
Spend ==
    /\ mode = "execute"
    /\ CPU_Cycles > 0
    /\ CPU_Cycles' \in 0..(CPU_Cycles - 1)
    /\ UNCHANGED <<lists, service, CPU_CycleLeft, mode, irqs>>

\* an unmasked or acknowledged interrupt signals the CPU: activate()
Interrupt ==
    /\ mode = "execute"
    /\ CPU_Cycles # 0
    /\ StopCpu
    /\ UNCHANGED <<lists, service, mode, irqs>>

\* next instruction, or back to the loop to run a callback
Retire ==
    /\ mode = "execute"
    /\ mode' \in {"fetch", "loop"}
    /\ UNCHANGED <<lists, service, cycles, irqs>>

Exhausted ==
    /\ mode = "fetch"
    /\ CPU_Cycles <= 0
    /\ CPU_Cycles' = CPU_Cycles - 1
    /\ mode' = "loop"
    /\ UNCHANGED <<lists, service, CPU_CycleLeft, irqs>>

-----------------------------------------------------------------------------
(* The tick.                                                               *)

\* increaseticks: no millisecond of host time has passed
NoTickYet ==
    /\ mode = "host"
    /\ mode' = "loop"
    /\ UNCHANGED <<lists, service, cycles, irqs>>

\* Faulty variant: the indices do not move with the tick.
TIMER_AddTick_no_rebase ==
    /\ mode = "host"
    /\ CPU_CycleLeft' = CycleMax
    /\ CPU_Cycles' = 0
    /\ mode' = "ticker"
    /\ UNCHANGED <<lists, service, irqs>>

TIMER_AddTick ==
    /\ mode = "host"
    /\ CPU_CycleLeft' = CycleMax
    /\ CPU_Cycles' = 0
    /\ entries' = [e \in Entries |->
                     IF e \in Queued
                       THEN [entries[e] EXCEPT !.index = @ - CycleMax * Sub]
                       ELSE entries[e]]
    /\ mode' = "ticker"
    /\ UNCHANGED <<next, free_entry, next_entry, service, irqs>>

TickersDone ==
    /\ mode = "ticker"
    /\ mode' = "loop"
    /\ UNCHANGED <<lists, service, cycles, irqs>>

-----------------------------------------------------------------------------
\* Faulty variant: the free list is not terminated.
FreeList_unterminated == [e \in Entries |-> e + 1]

FreeList == [e \in Entries |-> IF e = PoolSize THEN 0 ELSE e + 1]

Init ==
    /\ entries = [e \in Entries |-> Blank]
    /\ next = FreeList
    /\ free_entry = 1
    /\ next_entry = 0
    /\ running = 0
    /\ InEventService = FALSE
    /\ srv_lag = 0
    /\ CPU_Cycles = 0
    /\ CPU_CycleLeft = CycleMax
    /\ mode = "loop"
    /\ irqs = {}

Device ==
    \/ \E h \in Handlers, v \in Values, d \in Delays : PIC_AddEvent(h, v, d)
    \/ \E h \in Handlers : PIC_RemoveEvents(h)
    \/ \E h \in Handlers, v \in Values : PIC_RemoveSpecificEvents(h, v)
    \/ \E irq \in Irqs : PIC_ActivateIRQ(irq)

Loop ==
    \/ RunQueue \/ StartEvent \/ FinishEvent \/ EndService
    \/ Fetch \/ Retire \/ Exhausted
    \/ TIMER_AddTick \/ TickersDone

Next == Device \/ Loop \/ Spend \/ Interrupt \/ NoTickYet

Spec == Init /\ [][Next]_vars

(* The loop never stops, instructions and handlers return, and host time   *)
(* goes on: increaseticks grants a tick again and again.                   *)
Fairness ==
    /\ WF_vars(RunQueue) /\ WF_vars(StartEvent) /\ WF_vars(FinishEvent)
    /\ WF_vars(EndService) /\ WF_vars(Fetch) /\ WF_vars(Retire)
    /\ WF_vars(Exhausted) /\ WF_vars(TickersDone)
    /\ SF_vars(TIMER_AddTick)

FairSpec == Spec /\ Fairness

-----------------------------------------------------------------------------
(* Properties.                                                             *)

Free == ToSet(Chain(next, free_entry))
Event == [handler : Handlers, value : Values, index : Int]

\* Pointers stay inside the pool, and queued entries hold events.
TypeOK ==
    /\ entries \in [Entries -> Event \cup {Blank}]
    /\ next \in [Entries -> 0..PoolSize]
    /\ {free_entry, next_entry, running} \subseteq 0..PoolSize
    /\ InEventService \in BOOLEAN
    /\ {srv_lag, CPU_Cycles, CPU_CycleLeft} \subseteq Int
    /\ mode \in Modes
    /\ irqs \subseteq Irqs

\* No entry is lost or on two lists at once: the free list, the queue and the
\* entry being served share the pool, and both lists end.
PoolIntact ==
    LET served == IF running = 0 THEN {} ELSE {running}
    IN  /\ Free \cup Queued \cup served = Entries
        /\ Free \cap Queued = {}
        /\ served \cap (Free \cup Queued) = {}
        /\ Node(next, free_entry)[PoolSize] = 0
        /\ Node(next, next_entry)[PoolSize] = 0

\* The core never holds more cycles than the next event is away, except one
\* cycle of rounding and the two that PIC_ActivateIRQ grants.
NoOversleep ==
    LET away  == entries[next_entry].index - PIC_TickIndexND * Sub
        grace == IF irqs = {} THEN 1 ELSE 2
    IN  next_entry # 0 => CPU_Cycles * Sub <= away \/ CPU_Cycles <= grace

\* A scheduled event does not stay queued for ever: it is served or removed.
EventsRun ==
    \A h \in Handlers, v \in Values :
        LET queued == \E e \in Queued :
                entries[e].handler = h /\ entries[e].value = v
            served == /\ running # 0
                      /\ entries[running].handler = h
                      /\ entries[running].value = v
        IN  queued ~> served \/ ~queued

\* The linked lists and the cycle budget implement the agenda: order of time,
\* first come first served, never early, no event more than Slack overdue.
EventAt(e) == IF e = 0 THEN [handler |-> "none"] ELSE entries[e]
Scheduled ==
    LET queue == Chain(next, next_entry)
    IN  [i \in DOMAIN queue |-> entries[queue[i]]]
A == INSTANCE Agenda WITH
        agenda  <- Scheduled,
        running <- EventAt(running),
        clock   <- PIC_TickIndexND
ImplementsAgenda == A!Spec /\ []A!Sorted /\ []A!NeverLate
=============================================================================
