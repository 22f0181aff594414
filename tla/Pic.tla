-------------------------------- MODULE Pic --------------------------------
(***************************************************************************)
(* The pair of 8259A interrupt controllers of dosbox/src/hardware/pic.cpp: *)
(* the master, whose output is the flag PIC_IRQCheck that stops the CPU    *)
(* core, and the slave, whose output is input 2 of the master.             *)
(*                                                                         *)
(* Registers are sets of input lines.  imrr and isrr, which the source     *)
(* assigns together with imr and isr, are their complements and are not    *)
(* kept; nor are request_issr and vector_base, which select what a port    *)
(* read returns and which vector a line has.  The cycle arithmetic of      *)
(* activate() and PIC_ActivateIRQ, which only decides how soon PIC_runIRQs *)
(* is called, belongs to EventList: here PIC_runIRQs may be called at any  *)
(* moment.                                                                 *)
(***************************************************************************)
EXTENDS Integers

CONSTANTS
    N,             \* inputs of one controller (8 in the source)
    DeviceLines,   \* [Chips -> SUBSET Lines]: inputs a device raises and lowers
    NonMaskable,   \* master inputs the PCjr never masks ({6} there, else {})
    Masks,         \* values the guest writes to a mask register
    GuestOps,      \* [Chips -> SUBSET Ops]: commands the guest program issues
    Icw1           \* the initialisations it starts: records [single, icw4]

Lines == 0..(N - 1)
Chips == {"master", "slave"}
Cascade == 2
NoIrq == N         \* active_irq == 8: nothing in service

Ops == {"icw", "auto eoi", "special", "rotate", "mask", "eoi",
        "specific eoi", "unsupported"}

ASSUME NAssumption == N \in Nat /\ N > Cascade
ASSUME ConfigAssumption ==
    /\ DeviceLines \in [Chips -> SUBSET Lines]
    /\ NonMaskable \subseteq Lines
    /\ Masks \subseteq SUBSET Lines
    /\ GuestOps \in [Chips -> SUBSET Ops]
    /\ Icw1 \subseteq [single : BOOLEAN, icw4 : BOOLEAN]

VARIABLES
    pics,          \* the two PIC_Controller records
    PIC_IRQCheck,  \* the master's output, polled by the CPU cores
    cpu,           \* "sti": IF set; "cli": IF clear; "trap": IF set, single step
    fatal,         \* "no", or the reason the emulator left through E_Exit
    plain          \* history: no controller was ever put in special mask or
                   \* auto-EOI mode
vars == <<pics, PIC_IRQCheck, cpu, fatal, plain>>

Controller ==
    [irr : SUBSET Lines, imr : SUBSET Lines, isr : SUBSET Lines,
     active_irq : 0..N, special : BOOLEAN, auto_eoi : BOOLEAN,
     rotate_on_auto_eoi : BOOLEAN, single : BOOLEAN,
     icw_index : 0..3, icw_words : {0, 2, 3}]

-----------------------------------------------------------------------------
(* The registers of one controller.  An operation that may move the        *)
(* output yields a pair: the new registers, and what it does to the output *)
(* ("activate", "deactivate" or "none").                                   *)

Highest(lines) ==
    IF lines = {} THEN NoIrq
    ELSE CHOOSE i \in lines : \A j \in lines : i <= j

Pending(c) == (c.irr \ c.imr) \ c.isr

\* Faulty variant: the interrupt in service blocks nothing.
Ceiling_flat(c) == N

Ceiling(c) == IF c.special THEN N ELSE c.active_irq

\* the requests PIC_runIRQs would start: those check_for_irq looks for
Servable(c) == {i \in Pending(c) : i < Ceiling(c)}

check_for_irq(c) == IF Servable(c) # {} THEN "activate" ELSE "deactivate"

\* Faulty variant: an EOI always leaves nothing active.
update_active_irq_clears(c) == [c EXCEPT !.active_irq = NoIrq]

update_active_irq(c) == [c EXCEPT !.active_irq = Highest(c.isr)]

\* Faulty variant: an EOI does not look for waiting requests.
check_after_EOI_silent(c) == <<update_active_irq(c), "none">>

check_after_EOI(c) ==
    LET d == update_active_irq(c)
    IN  <<d, IF Pending(d) # {} THEN check_for_irq(d) ELSE "none">>

raise_irq(c, line) ==
    LET d == [c EXCEPT !.irr = @ \cup {line}]
    IN  <<d, IF line \notin c.irr /\ line \in Servable(d)
               THEN "activate" ELSE "none">>

\* Faulty variant: the signal of a withdrawn request stays.
lower_irq_silent(c, line) == <<[c EXCEPT !.irr = @ \ {line}], "none">>

lower_irq(c, line) ==
    LET d == [c EXCEPT !.irr = @ \ {line}]
    IN  <<d, IF line \in Servable(c) THEN check_for_irq(d) ELSE "none">>

\* Faulty variants: masking does not withdraw a signal, unmasking does not
\* give one.
set_imr_sticky(c, val) ==
    LET d == [c EXCEPT !.imr = val]
    IN  <<d, IF Servable(d) # {} THEN "activate" ELSE "none">>
set_imr_masks_only(c, val) ==
    LET d == [c EXCEPT !.imr = val]
    IN  <<d, IF (c.irr \cap (val \ c.imr)) \ c.isr # {}
               THEN check_for_irq(d) ELSE "none">>

set_imr(c, val) ==
    LET d == [c EXCEPT !.imr = val]
        change == (c.imr \ val) \cup (val \ c.imr)
    IN  <<d, IF (c.irr \cap change) \ c.isr # {}
               THEN check_for_irq(d) ELSE "none">>

start_irq(c, line) ==
    IF c.auto_eoi
      THEN [c EXCEPT !.irr = @ \ {line}]
      ELSE [c EXCEPT !.irr = @ \ {line},
                     !.active_irq = line,
                     !.isr = @ \cup {line}]

-----------------------------------------------------------------------------
(* Outputs: the master's drives PIC_IRQCheck, the slave's drives input 2   *)
(* of the master.                                                          *)

Output(signal) ==
    CASE signal = "activate"   -> TRUE
      [] signal = "deactivate" -> FALSE
      [] OTHER                 -> PIC_IRQCheck

CascadeInput(signal) ==
    CASE signal = "activate"   -> raise_irq(pics.master, Cascade)
      [] signal = "deactivate" -> lower_irq(pics.master, Cascade)
      [] OTHER                 -> <<pics.master, "none">>

Commit(chip, result) ==
    IF chip = "master"
      THEN /\ pics' = [pics EXCEPT !.master = result[1]]
           /\ PIC_IRQCheck' = Output(result[2])
      ELSE LET up == CascadeInput(result[2])
           IN  /\ pics' = [master |-> up[1], slave |-> result[1]]
               /\ PIC_IRQCheck' = Output(up[2])

\* The emulator ends: what it had already changed is not looked at again.
E_Exit(reason) == fatal' = reason /\ UNCHANGED <<pics, PIC_IRQCheck, cpu>>

MaskValue(chip, val) == IF chip = "master" THEN val \ NonMaskable ELSE val

-----------------------------------------------------------------------------
(* Initial state: the constructor of PIC_8259A, after it has unmasked the  *)
(* timer, the keyboard, the cascade and the clock (IRQ 8).                 *)

Reset(unmasked) ==
    [irr |-> {}, imr |-> Lines \ unmasked, isr |-> {}, active_irq |-> NoIrq,
     special |-> FALSE, auto_eoi |-> FALSE, rotate_on_auto_eoi |-> FALSE,
     single |-> FALSE, icw_index |-> 0, icw_words |-> 0]

Init ==
    /\ pics = [master |-> Reset({0, 1, Cascade} \cup NonMaskable),
               slave  |-> Reset({0})]
    /\ PIC_IRQCheck = FALSE
    /\ cpu = "sti"
    /\ fatal = "no"
    /\ plain = TRUE

-----------------------------------------------------------------------------
(* Devices.                                                                *)

PIC_ActivateIRQ(chip, line) ==
    /\ Commit(chip, raise_irq(pics[chip], line))
    /\ UNCHANGED <<cpu, fatal>>

PIC_DeActivateIRQ(chip, line) ==
    /\ Commit(chip, lower_irq(pics[chip], line))
    /\ UNCHANGED <<cpu, fatal>>

\* PIC_SetIRQMask: the emulator itself masks or unmasks a line for the guest
PIC_SetIRQMask(chip, line, masked) ==
    LET newmask == IF masked THEN pics[chip].imr \cup {line}
                             ELSE pics[chip].imr \ {line}
    IN  /\ Commit(chip, set_imr(pics[chip], MaskValue(chip, newmask)))
        /\ UNCHANGED <<cpu, fatal>>

-----------------------------------------------------------------------------
(* Guest commands: bytes written to ports 20h/A0h (write_command) and      *)
(* 21h/A1h (write_data).                                                   *)

begin_icw(c, word) ==
    [c EXCEPT !.single = word.single, !.icw_index = 1,
              !.icw_words = IF word.icw4 THEN 3 ELSE 2]

WriteICW1(chip, word) ==
    /\ "icw" \in GuestOps[chip]
    /\ LET r == set_imr(pics[chip], MaskValue(chip, {}))
       IN  Commit(chip, <<begin_icw(r[1], word), r[2]>>)
    /\ UNCHANGED <<cpu, fatal>>

\* special mask select
WriteOCW3(chip, on) ==
    /\ "special" \in GuestOps[chip]
    /\ LET d == [pics[chip] EXCEPT !.special = on]
       IN  Commit(chip, <<d, check_for_irq(d)>>)
    /\ UNCHANGED <<cpu, fatal>>

SpecificEOI(chip, line) ==
    /\ "specific eoi" \in GuestOps[chip]
    /\ Commit(chip, check_after_EOI([pics[chip] EXCEPT !.isr = @ \ {line}]))
    /\ UNCHANGED <<cpu, fatal>>

NonspecificEOI(chip) ==
    /\ "eoi" \in GuestOps[chip]
    /\ pics[chip].active_irq # NoIrq
    /\ Commit(chip, check_after_EOI(
          [pics[chip] EXCEPT !.isr = @ \ {pics[chip].active_irq}]))
    /\ UNCHANGED <<cpu, fatal>>

WriteRotate(chip, rotate) ==
    /\ "rotate" \in GuestOps[chip]
    /\ Commit(chip, <<[pics[chip] EXCEPT !.rotate_on_auto_eoi = rotate],
                      "none">>)
    /\ UNCHANGED <<cpu, fatal>>

\* 4 byte interval, level triggered, 8080 mode, poll, rotate on EOI
WriteUnsupported(chip) ==
    /\ "unsupported" \in GuestOps[chip]
    /\ E_Exit("unsupported command")

WriteMask(chip, val) ==
    /\ pics[chip].icw_index = 0
    /\ "mask" \in GuestOps[chip]
    /\ Commit(chip, set_imr(pics[chip], MaskValue(chip, val)))
    /\ UNCHANGED <<cpu, fatal>>

\* Faulty variant: one word too many.
NextIndex_late(c) == IF c.icw_index > c.icw_words THEN 0 ELSE c.icw_index + 1

\* after the word of this index: the next one, or the mask register again
NextIndex(c) == IF c.icw_index >= c.icw_words THEN 0 ELSE c.icw_index + 1

WriteICW2(chip) ==
    /\ pics[chip].icw_index = 1
    /\ LET c == pics[chip]
           next == IF c.icw_index < c.icw_words /\ c.single
                     THEN 3 ELSE NextIndex(c)
       IN  Commit(chip, <<[c EXCEPT !.icw_index = next], "none">>)
    /\ UNCHANGED <<cpu, fatal>>

WriteICW3(chip) ==
    /\ pics[chip].icw_index = 2
    /\ Commit(chip, <<[pics[chip] EXCEPT !.icw_index = NextIndex(pics[chip])],
                      "none">>)
    /\ UNCHANGED <<cpu, fatal>>

WriteICW4(chip, auto) ==
    /\ pics[chip].icw_index = 3
    /\ auto => "auto eoi" \in GuestOps[chip]
    /\ Commit(chip, <<[pics[chip] EXCEPT !.auto_eoi = auto,
                                         !.icw_index = NextIndex(pics[chip])],
                      "none">>)
    /\ UNCHANGED <<cpu, fatal>>

\* bit 0 of ICW4 clear: the byte asks for 8085 mode
WriteICW4_8085(chip, auto) ==
    /\ pics[chip].icw_index = 3
    /\ pics' = [pics EXCEPT ![chip].auto_eoi = auto]
    /\ fatal' = "8085 mode"
    /\ UNCHANGED <<PIC_IRQCheck, cpu>>

-----------------------------------------------------------------------------
(* The CPU.                                                                *)

SetCpu(state) ==
    /\ cpu' = state
    /\ UNCHANGED <<pics, PIC_IRQCheck, fatal>>

CannotStart(c) == c.auto_eoi /\ c.rotate_on_auto_eoi

\* CPU_HW_Interrupt enters the handler with IF clear
master_startIRQ(line) ==
    IF CannotStart(pics.master)
      THEN E_Exit("rotate on auto EOI")
      ELSE /\ pics' = [pics EXCEPT !.master = start_irq(@, line)]
           /\ PIC_IRQCheck' = FALSE
           /\ cpu' = "cli"
           /\ UNCHANGED fatal

slave_startIRQ ==
    LET line == Highest(Servable(pics.slave))
    IN  IF line = NoIrq
          THEN E_Exit("no irq active on the slave")
        ELSE IF CannotStart(pics.slave) \/ CannotStart(pics.master)
          THEN E_Exit("rotate on auto EOI")
          ELSE /\ pics' = [master |-> start_irq(pics.master, Cascade),
                           slave  |-> start_irq(pics.slave, line)]
               /\ PIC_IRQCheck' = FALSE
               /\ cpu' = "cli"
               /\ UNCHANGED fatal

PIC_runIRQs ==
    /\ cpu = "sti"
    /\ PIC_IRQCheck
    /\ LET line == Highest(Servable(pics.master))
       IN  IF line = NoIrq
             THEN PIC_IRQCheck' = FALSE /\ UNCHANGED <<pics, cpu, fatal>>
           ELSE IF line = Cascade THEN slave_startIRQ
           ELSE master_startIRQ(line)

-----------------------------------------------------------------------------
Device ==
    \E chip \in Chips : \E line \in DeviceLines[chip] :
        \/ PIC_ActivateIRQ(chip, line)
        \/ PIC_DeActivateIRQ(chip, line)
        \/ \E masked \in BOOLEAN : PIC_SetIRQMask(chip, line, masked)

Command(chip) ==
    \/ \E word \in Icw1 : WriteICW1(chip, word)
    \/ \E on \in BOOLEAN : WriteOCW3(chip, on)
    \/ \E line \in Lines : SpecificEOI(chip, line)
    \/ NonspecificEOI(chip)
    \/ \E rotate \in BOOLEAN : WriteRotate(chip, rotate)
    \/ WriteUnsupported(chip)

Data(chip) ==
    \/ \E val \in Masks : WriteMask(chip, val)
    \/ WriteICW2(chip)
    \/ WriteICW3(chip)
    \/ \E auto \in BOOLEAN : WriteICW4(chip, auto)
    \/ \E auto \in BOOLEAN : WriteICW4_8085(chip, auto)

Guest == \E chip \in Chips : Command(chip) \/ Data(chip)

Step ==
    \/ Device
    \/ Guest
    \/ \E state \in {"sti", "cli", "trap"} : SetCpu(state)
    \/ PIC_runIRQs

SpecialModes == \E chip \in Chips : pics[chip].special \/ pics[chip].auto_eoi

Next ==
    /\ fatal = "no"
    /\ Step
    /\ plain' = (plain /\ ~SpecialModes')

Spec == Init /\ [][Next]_vars

-----------------------------------------------------------------------------
(* Properties.                                                             *)

\* Registers stay within their ranges; active_irq is a line or "none".
TypeOK ==
    /\ pics \in [master : Controller, slave : Controller]
    /\ PIC_IRQCheck \in BOOLEAN
    /\ cpu \in {"sti", "cli", "trap"}
    /\ fatal \in {"no", "unsupported command", "8085 mode",
                  "rotate on auto EOI", "no irq active on the slave"}
    /\ plain \in BOOLEAN

\* Whatever the modes, a raised output is backed by a request that can be
\* started: the CPU is never stopped by PIC_IRQCheck for nothing, and input 2
\* of the master is never raised while the slave has nothing to deliver.
NoSpuriousSignal ==
    /\ PIC_IRQCheck => Servable(pics.master) # {}
    /\ Cascade \in pics.master.irr => Servable(pics.slave) # {}

\* slave_startIRQ never meets a slave without a request (its E_Exit).
NoCascadePanic == fatal # "no irq active on the slave"

\* In fully nested mode no request waits unsignalled: a request that can be
\* started raises the output of its controller, on both levels.
ReadyIsSignalled ==
    /\ Servable(pics.master) # {} => PIC_IRQCheck
    /\ Servable(pics.slave) # {} => Cascade \in pics.master.irr
NestedSignal == plain => ReadyIsSignalled

\* Input 0 (the timer) is signalled in every mode: PIC_runIRQs clears the
\* flag unconditionally, but never past a request of the highest priority.
TimerSignalled == 0 \in Servable(pics.master) => PIC_IRQCheck

\* In fully nested mode active_irq is the highest request in service, so that
\* a nonspecific EOI ends the interrupt the guest is handling.
ActiveIsHighest ==
    plain => \A chip \in Chips :
        pics[chip].active_irq = Highest(pics[chip].isr)

\* In fully nested mode an interrupt is only started over ones of strictly
\* lower priority, on each controller.
Nesting ==
    \A chip \in Chips :
        \A i \in pics'[chip].isr \ pics[chip].isr :
            \A j \in pics[chip].isr : i < j
NestedPriority == [][plain => Nesting]_vars
=============================================================================
