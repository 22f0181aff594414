----------------------------- MODULE PicProofs -----------------------------
(***************************************************************************)
(* Proofs about Pic for every number of lines, every set of devices and    *)
(* every guest program.                                                    *)
(***************************************************************************)
EXTENDS Pic, TLAPS, WellFoundedInduction

Signals == {"activate", "deactivate", "none"}

(***************************************************************************)
(* What an operation on the registers c of one controller owes its output, *)
(* when its result is r: a signal tells whether a request can be started   *)
(* now, and silence means that what can be started has not changed.        *)
(***************************************************************************)
Honest(c, r) ==
    /\ r[2] = "activate"   => Servable(r[1]) # {}
    /\ r[2] = "deactivate" => Servable(r[1]) = {}
    /\ r[2] = "none"       => Servable(r[1]) = Servable(c)
    /\ r[2] \in Signals

-----------------------------------------------------------------------------
(* Highest is the least line of a set of lines, or N.                      *)

LEMMA HighestIsLeast ==
    ASSUME NEW S \in SUBSET Lines
    PROVE  /\ S = {} => Highest(S) = N
           /\ S # {} => Highest(S) \in S /\ \A j \in S : Highest(S) <= j
           /\ Highest(S) \in 0..N
<1>1. CASE S = {}
  BY <1>1, NAssumption DEF Highest, NoIrq
<1>2. CASE S # {}
  <2> DEFINE less == {ss \in Nat \X Nat : ss[1] < ss[2]}
  <2>1. S \subseteq Nat
    BY NAssumption DEF Lines
  <2>2. IsWellFoundedOn(less, Nat)
    BY NatLessThanWellFounded DEF OpToRel
  <2>3. PICK i \in S : \A j \in S : ~(<<j, i>> \in less)
    <3> HIDE DEF less
    <3> QED BY <1>2, <2>1, <2>2, WFMin
  <2>4. \A j \in S : i <= j
    <3> SUFFICES ASSUME NEW j \in S PROVE i <= j
      OBVIOUS
    <3>1. i \in Nat /\ j \in Nat
      BY <2>1
    <3>2. <<j, i>> \in Nat \X Nat /\ ~(j < i)
      BY <2>3, <3>1
    <3> QED BY <3>1, <3>2
  <2>5. Highest(S) \in S /\ \A j \in S : Highest(S) <= j
    BY <1>2, <2>4 DEF Highest
  <2>6. Highest(S) \in 0..N
    <3>1. \A h \in Lines : h \in 0..N
      BY NAssumption DEF Lines
    <3> QED BY <2>5, <3>1
  <2> QED
    BY <1>2, <2>5, <2>6
<1> QED
  BY <1>1, <1>2

LEMMA ServableLines ==
    ASSUME NEW c \in Controller
    PROVE  Servable(c) \in SUBSET Lines
BY DEF Servable, Pending, Controller

-----------------------------------------------------------------------------
(* Each operation yields registers and an honest signal.                   *)

LEMMA RaiseHonest ==
    ASSUME NEW c \in Controller, NEW line \in Lines
    PROVE  /\ raise_irq(c, line)[1] \in Controller
           /\ Honest(c, raise_irq(c, line))
BY DEF raise_irq, Honest, Signals, Controller, Servable, Pending, Ceiling

LEMMA CheckHonest ==
    ASSUME NEW c, NEW d
    PROVE  Honest(c, <<d, check_for_irq(d)>>)
BY DEF Honest, Signals, check_for_irq

LEMMA LowerHonest ==
    ASSUME NEW c \in Controller, NEW line \in Lines
    PROVE  /\ lower_irq(c, line)[1] \in Controller
           /\ Honest(c, lower_irq(c, line))
<1> DEFINE d == [c EXCEPT !.irr = @ \ {line}]
<1>1. d \in Controller
  BY DEF Controller
<1>2. line \notin Servable(c) => Servable(d) = Servable(c)
  BY DEF Controller, Servable, Pending, Ceiling
<1> QED
  BY <1>1, <1>2, CheckHonest DEF lower_irq, Honest, Signals

LEMMA MaskHonest ==
    ASSUME NEW c \in Controller, NEW val \in SUBSET Lines
    PROVE  /\ set_imr(c, val)[1] \in Controller
           /\ Honest(c, set_imr(c, val))
<1> DEFINE d == [c EXCEPT !.imr = val]
           change == (c.imr \ val) \cup (val \ c.imr)
<1>1. d \in Controller
  BY DEF Controller
<1>2. ASSUME (c.irr \cap change) \ c.isr = {}
      PROVE  Servable(d) = Servable(c)
  <2>1. Pending(d) = Pending(c)
    BY <1>2 DEF Controller, Pending
  <2> QED
    BY <2>1 DEF Controller, Servable, Ceiling
<1> QED
  BY <1>1, <1>2, CheckHonest DEF set_imr, Honest, Signals

\* An EOI removes lines from isr, and active_irq is computed anew.
LEMMA EoiHonest ==
    ASSUME NEW c \in Controller, NEW lines \in SUBSET Lines
    PROVE  LET r == check_after_EOI([c EXCEPT !.isr = @ \ lines])
           IN  /\ r[1] \in Controller
               /\ Honest(c, r)
               /\ r[1] = [c EXCEPT !.isr = @ \ lines,
                                   !.active_irq = Highest(c.isr \ lines)]
<1> DEFINE e == [c EXCEPT !.isr = @ \ lines]
           d == update_active_irq(e)
<1>1. c.isr \ lines \in SUBSET Lines
  BY DEF Controller
<1>2. d = [c EXCEPT !.isr = @ \ lines, !.active_irq = Highest(c.isr \ lines)]
  BY DEF update_active_irq, Controller
<1>3. d \in Controller
  <2>1. Highest(c.isr \ lines) \in 0..N
    BY <1>1, HighestIsLeast
  <2> HIDE DEF d
  <2> QED BY <1>1, <1>2, <2>1 DEF Controller
<1>4. ASSUME Pending(d) = {}
      PROVE  Servable(d) = Servable(c)
  BY <1>2, <1>4 DEF Servable, Pending, Controller
<1>5. check_after_EOI(e) =
        <<d, IF Pending(d) # {} THEN check_for_irq(d) ELSE "none">>
  BY DEF check_after_EOI
<1> HIDE DEF d
<1>6. Honest(c, check_after_EOI(e))
  BY <1>4, <1>5, CheckHonest DEF Honest, Signals
<1> QED
  BY <1>2, <1>3, <1>5, <1>6

-----------------------------------------------------------------------------
(***************************************************************************)
(* The inductive invariant.  Cascade is a line no device drives: the slave *)
(* owns it.  ModesOff says what the history variable plain remembers.      *)
(***************************************************************************)
ModesOff == plain => ~SpecialModes

IInv ==
    /\ TypeOK
    /\ NoSpuriousSignal
    /\ NoCascadePanic
    /\ TimerSignalled
    /\ ModesOff
    /\ ActiveIsHighest
    /\ NestedSignal

ActiveRight(c) == c.active_irq = Highest(c.isr)

\* The result r of a register operation on one chip that Commit may write.
Operation(chip, r) ==
    /\ r[1] \in Controller
    /\ Honest(pics[chip], r)
    /\ chip = "master" =>
          (Cascade \in r[1].irr <=> Cascade \in pics.master.irr)
    /\ ActiveRight(pics[chip]) => ActiveRight(r[1])

\* Raising and lowering the cascade input, as activate and deactivate of the
\* slave do.
LEMMA CascadeInputHonest ==
    ASSUME pics.master \in Controller, NEW signal \in Signals
    PROVE  LET up == CascadeInput(signal)
           IN  /\ up[1] \in Controller
               /\ Honest(pics.master, up)
               /\ signal = "activate" => Cascade \in up[1].irr
               /\ signal = "deactivate" => Cascade \notin up[1].irr
               /\ signal = "none" => up[1].irr = pics.master.irr
               /\ ActiveRight(pics.master) => ActiveRight(up[1])
<1>1. Cascade \in Lines
  BY NAssumption DEF Cascade, Lines
<1>2. CASE signal = "activate"
  <2>1. CascadeInput(signal) = raise_irq(pics.master, Cascade)
    BY <1>2 DEF CascadeInput
  <2>2. /\ Cascade \in raise_irq(pics.master, Cascade)[1].irr
        /\ ActiveRight(pics.master)
              => ActiveRight(raise_irq(pics.master, Cascade)[1])
    BY DEF raise_irq, Controller, ActiveRight
  <2> QED
    BY <1>1, <1>2, <2>1, <2>2, RaiseHonest
<1>3. CASE signal = "deactivate"
  <2>1. CascadeInput(signal) = lower_irq(pics.master, Cascade)
    BY <1>3 DEF CascadeInput
  <2>2. /\ Cascade \notin lower_irq(pics.master, Cascade)[1].irr
        /\ ActiveRight(pics.master)
              => ActiveRight(lower_irq(pics.master, Cascade)[1])
    BY DEF lower_irq, Controller, ActiveRight
  <2> QED
    BY <1>1, <1>3, <2>1, <2>2, LowerHonest
<1>4. CASE signal = "none"
  BY <1>4 DEF CascadeInput, Honest, Signals
<1> QED
  BY <1>2, <1>3, <1>4 DEF Signals

\* What an honest result makes of an output that was right before.
LEMMA OutputRight ==
    ASSUME NEW c \in Controller, NEW r, Honest(c, r),
           PIC_IRQCheck \in BOOLEAN
    PROVE  /\ Output(r[2]) \in BOOLEAN
           /\ (PIC_IRQCheck => Servable(c) # {})
                => (Output(r[2]) => Servable(r[1]) # {})
           /\ (Servable(c) # {} => PIC_IRQCheck)
                => (Servable(r[1]) # {} => Output(r[2]))
           /\ (0 \in Servable(c) => PIC_IRQCheck)
                => (0 \in Servable(r[1]) => Output(r[2]))
<1>1. CASE r[2] = "activate"
  BY <1>1 DEF Honest, Output
<1>2. CASE r[2] = "deactivate"
  BY <1>2 DEF Honest, Output
<1>3. CASE r[2] = "none"
  BY <1>3 DEF Honest, Output
<1> QED
  BY <1>1, <1>2, <1>3 DEF Honest, Signals

LEMMA CommitStep ==
    ASSUME IInv, NEW chip \in Chips, NEW r, Operation(chip, r),
           Commit(chip, r), UNCHANGED <<cpu, fatal>>,
           plain' = (plain /\ ~SpecialModes')
    PROVE  IInv'
<1> USE DEF Chips
<1>1. pics.master \in Controller /\ pics.slave \in Controller
  BY DEF IInv, TypeOK
<1>2. CASE chip = "master"
  <2>1. pics' = [pics EXCEPT !.master = r[1]] /\ PIC_IRQCheck' = Output(r[2])
    BY <1>2 DEF Commit
  <2>2. /\ pics' \in [master : Controller, slave : Controller]
        /\ pics'.master = r[1] /\ pics'.slave = pics.slave
    BY <1>2, <2>1 DEF IInv, TypeOK, Operation
  <2>3. Honest(pics.master, r)
    BY <1>2 DEF Operation
  <2>4. TypeOK'
    BY <1>1, <2>1, <2>2, <2>3, OutputRight DEF IInv, TypeOK
  <2>5. Cascade \in pics'.master.irr <=> Cascade \in pics.master.irr
    BY <1>2, <2>2 DEF Operation
  <2>6. NoSpuriousSignal' /\ TimerSignalled'
    <3>1. /\ PIC_IRQCheck' => Servable(r[1]) # {}
          /\ 0 \in Servable(r[1]) => PIC_IRQCheck'
      BY <1>1, <2>1, <2>3, OutputRight
      DEF IInv, TypeOK, NoSpuriousSignal, TimerSignalled
    <3> QED
      BY <2>2, <2>5, <3>1 DEF IInv, NoSpuriousSignal, TimerSignalled
  <2>7. ReadyIsSignalled => ReadyIsSignalled'
    BY <1>1, <2>1, <2>2, <2>3, <2>5, OutputRight
    DEF IInv, TypeOK, ReadyIsSignalled, Servable, Pending, Ceiling
  <2>8. ActiveIsHighest'
    BY <1>2, <2>2 DEF IInv, ActiveIsHighest, ActiveRight, Operation
  <2> QED
    BY <2>4, <2>6, <2>7, <2>8 DEF IInv, NoCascadePanic, ModesOff, NestedSignal
<1>3. CASE chip = "slave"
  <2> DEFINE up == CascadeInput(r[2])
  <2>1. pics' = [master |-> up[1], slave |-> r[1]] /\ PIC_IRQCheck' = Output(up[2])
    BY <1>3 DEF Commit
  <2>2. Honest(pics.slave, r) /\ r[1] \in Controller /\ r[2] \in Signals
    BY <1>3 DEF Operation, Honest
  <2>3. /\ up[1] \in Controller
        /\ Honest(pics.master, up)
        /\ r[2] = "activate" => Cascade \in up[1].irr
        /\ r[2] = "deactivate" => Cascade \notin up[1].irr
        /\ r[2] = "none" => up[1].irr = pics.master.irr
        /\ ActiveRight(pics.master) => ActiveRight(up[1])
    BY <1>1, <2>2, CascadeInputHonest
  <2> HIDE DEF up
  <2>4. pics'.master = up[1] /\ pics'.slave = r[1]
    BY <2>1
  <2>5. TypeOK'
    BY <1>1, <2>1, <2>2, <2>3, OutputRight DEF IInv, TypeOK
  <2>6. /\ Servable(pics'.master) = Servable(up[1])
        /\ Servable(pics'.slave) = Servable(r[1])
    BY <2>4
  <2>7. Cascade \in up[1].irr => Servable(r[1]) # {}
    BY <2>2, <2>3 DEF IInv, NoSpuriousSignal, Honest, Signals
  <2>8. NoSpuriousSignal' /\ TimerSignalled'
    <3>1. /\ PIC_IRQCheck' => Servable(up[1]) # {}
          /\ 0 \in Servable(up[1]) => PIC_IRQCheck'
      BY <1>1, <2>1, <2>3, OutputRight
      DEF IInv, TypeOK, NoSpuriousSignal, TimerSignalled
    <3> QED
      BY <2>4, <2>7, <3>1 DEF NoSpuriousSignal, TimerSignalled
  <2>9. ReadyIsSignalled => (Servable(r[1]) # {} => Cascade \in up[1].irr)
    BY <2>2, <2>3 DEF ReadyIsSignalled, Honest, Signals
  <2>10. ReadyIsSignalled => ReadyIsSignalled'
    BY <1>1, <2>1, <2>3, <2>4, <2>9, OutputRight
    DEF IInv, TypeOK, ReadyIsSignalled, Servable, Pending, Ceiling
  <2>11. ActiveIsHighest'
    BY <1>3, <2>3, <2>4 DEF IInv, ActiveIsHighest, ActiveRight, Operation
  <2> QED
    BY <2>5, <2>8, <2>10, <2>11 DEF IInv, NoCascadePanic, ModesOff, NestedSignal
<1> QED
  BY <1>2, <1>3

-----------------------------------------------------------------------------
(* The register operations of each action.                                 *)

LEMMA PicTyped ==
    ASSUME IInv, NEW chip \in Chips
    PROVE  pics[chip] \in Controller
BY DEF IInv, TypeOK, Chips

LEMMA MaskValueLines ==
    ASSUME NEW chip \in Chips, NEW val \in SUBSET Lines
    PROVE  MaskValue(chip, val) \in SUBSET Lines
BY DEF MaskValue

LEMMA DeviceStep ==
    ASSUME IInv, Cascade \notin DeviceLines["master"], Device,
           plain' = (plain /\ ~SpecialModes')
    PROVE  IInv'
<1>0. PICK chip \in Chips : \E line \in DeviceLines[chip] :
        \/ PIC_ActivateIRQ(chip, line)
        \/ PIC_DeActivateIRQ(chip, line)
        \/ \E masked \in BOOLEAN : PIC_SetIRQMask(chip, line, masked)
  BY DEF Device
<1>1. PICK line \in DeviceLines[chip] :
        \/ PIC_ActivateIRQ(chip, line)
        \/ PIC_DeActivateIRQ(chip, line)
        \/ \E masked \in BOOLEAN : PIC_SetIRQMask(chip, line, masked)
  BY <1>0
<1>2. line \in Lines /\ (chip = "master" => line # Cascade)
  BY ConfigAssumption DEF Chips
<1> DEFINE c == pics[chip]
<1>3. c \in Controller /\ (chip = "master" => c = pics.master)
  BY PicTyped
<1> HIDE DEF c
<1>4. CASE PIC_ActivateIRQ(chip, line)
  <2> DEFINE r == raise_irq(c, line)
  <2>1. Commit(chip, r) /\ UNCHANGED <<cpu, fatal>>
    BY <1>4 DEF PIC_ActivateIRQ, c
  <2>2. /\ Cascade \in r[1].irr <=> Cascade \in c.irr \/ line = Cascade
        /\ ActiveRight(c) => ActiveRight(r[1])
    BY <1>3 DEF raise_irq, Controller, ActiveRight
  <2>3. Operation(chip, r)
    BY <1>2, <1>3, <2>2, RaiseHonest DEF Operation, c
  <2> QED BY <2>1, <2>3, CommitStep
<1>5. CASE PIC_DeActivateIRQ(chip, line)
  <2> DEFINE r == lower_irq(c, line)
  <2>1. Commit(chip, r) /\ UNCHANGED <<cpu, fatal>>
    BY <1>5 DEF PIC_DeActivateIRQ, c
  <2>2. /\ Cascade \in r[1].irr <=> Cascade \in c.irr /\ line # Cascade
        /\ ActiveRight(c) => ActiveRight(r[1])
    BY <1>3 DEF lower_irq, Controller, ActiveRight
  <2>3. Operation(chip, r)
    BY <1>2, <1>3, <2>2, LowerHonest DEF Operation, c
  <2> QED BY <2>1, <2>3, CommitStep
<1>6. ASSUME NEW masked \in BOOLEAN, PIC_SetIRQMask(chip, line, masked)
      PROVE  IInv'
  <2>1. PICK val \in SUBSET Lines :
          /\ Commit(chip, set_imr(c, MaskValue(chip, val)))
          /\ UNCHANGED <<cpu, fatal>>
    <3>1. c.imr \cup {line} \in SUBSET Lines /\ c.imr \ {line} \in SUBSET Lines
      BY <1>2, <1>3 DEF Controller
    <3> QED BY <1>6, <3>1 DEF PIC_SetIRQMask, c
  <2> DEFINE r == set_imr(c, MaskValue(chip, val))
  <2>2. r[1].irr = c.irr /\ (ActiveRight(c) => ActiveRight(r[1]))
    BY <1>3 DEF set_imr, Controller, ActiveRight
  <2>3. Operation(chip, r)
    BY <1>3, <2>2, MaskHonest, MaskValueLines DEF Operation, c
  <2> QED BY <2>1, <2>3, CommitStep
<1> QED
  BY <1>1, <1>4, <1>5, <1>6

\* Fields a request does not depend on may change under an honest result.
LEMMA OtherFields ==
    ASSUME NEW c, NEW r, Honest(c, r), NEW d,
           d.irr = r[1].irr, d.imr = r[1].imr, d.isr = r[1].isr,
           d.active_irq = r[1].active_irq, d.special = r[1].special
    PROVE  Honest(c, <<d, r[2]>>)
<1>1. Servable(d) = Servable(r[1])
  BY DEF Servable, Pending, Ceiling
<1> QED
  BY <1>1 DEF Honest

LEMMA SilentHonest ==
    ASSUME NEW c, NEW d,
           d.irr = c.irr, d.imr = c.imr, d.isr = c.isr,
           d.active_irq = c.active_irq, d.special = c.special
    PROVE  Honest(c, <<d, "none">>)
BY DEF Honest, Signals, Servable, Pending, Ceiling

LEMMA Icw1Fields ==
    ASSUME NEW c \in Controller, NEW word \in [single : BOOLEAN, icw4 : BOOLEAN]
    PROVE  LET d == begin_icw(c, word)
           IN  /\ d \in Controller
               /\ d.irr = c.irr /\ d.imr = c.imr /\ d.isr = c.isr
               /\ d.active_irq = c.active_irq /\ d.special = c.special
<1> DEFINE words == IF word.icw4 THEN 3 ELSE 2
           d == begin_icw(c, word)
           d1 == [c EXCEPT !.single = word.single]
           d2 == [d1 EXCEPT !.icw_index = 1]
           d3 == [d2 EXCEPT !.icw_words = words]
<1>1. /\ d1 \in Controller
      /\ d1.irr = c.irr /\ d1.imr = c.imr /\ d1.isr = c.isr
      /\ d1.active_irq = c.active_irq /\ d1.special = c.special
  BY DEF Controller
<1>2. d = d3
  BY DEF Controller, begin_icw
<1>0. words \in {0, 2, 3}
  OBVIOUS
<1> HIDE DEF words, d
<1> HIDE DEF d1
<1>3. /\ d2 \in Controller
      /\ d2.irr = c.irr /\ d2.imr = c.imr /\ d2.isr = c.isr
      /\ d2.active_irq = c.active_irq /\ d2.special = c.special
  <2>1. 1 \in 0..3
    OBVIOUS
  <2> QED BY <1>1, <2>1 DEF Controller
<1> HIDE DEF d2
<1>4. /\ d3 \in Controller
      /\ d3.irr = c.irr /\ d3.imr = c.imr /\ d3.isr = c.isr
      /\ d3.active_irq = c.active_irq /\ d3.special = c.special
  BY <1>0, <1>3 DEF Controller
<1> QED
  BY <1>2, <1>4 DEF d

LEMMA CommandStep ==
    ASSUME IInv, NEW chip \in Chips, Command(chip),
           plain' = (plain /\ ~SpecialModes')
    PROVE  IInv'
<1> DEFINE c == pics[chip]
<1>1. c \in Controller /\ (chip = "master" => c = pics.master)
  BY PicTyped
<1> HIDE DEF c
<1>2. ASSUME NEW word \in Icw1, WriteICW1(chip, word) PROVE IInv'
  <2> DEFINE s == set_imr(c, MaskValue(chip, {}))
             d == begin_icw(s[1], word)
             r == <<d, s[2]>>
  <2>1. Commit(chip, r) /\ UNCHANGED <<cpu, fatal>>
    BY <1>2 DEF WriteICW1, c
  <2>2. s[1] \in Controller /\ Honest(c, s)
    BY <1>1, MaskHonest, MaskValueLines
  <2>3. s[1].irr = c.irr /\ s[1].isr = c.isr /\ s[1].active_irq = c.active_irq
    BY <1>1 DEF set_imr, Controller
  <2> HIDE DEF s
  <2>4. /\ d \in Controller
        /\ d.irr = s[1].irr /\ d.imr = s[1].imr /\ d.isr = s[1].isr
        /\ d.active_irq = s[1].active_irq /\ d.special = s[1].special
    BY <2>2, Icw1Fields, ConfigAssumption
  <2> HIDE DEF d
  <2>5. Honest(c, r)
    BY <2>2, <2>4, OtherFields
  <2>6. Operation(chip, r)
    BY <1>1, <2>3, <2>4, <2>5 DEF Operation, ActiveRight, c
  <2> QED BY <2>1, <2>6, CommitStep
<1>3. ASSUME NEW on \in BOOLEAN, WriteOCW3(chip, on) PROVE IInv'
  <2> DEFINE d == [c EXCEPT !.special = on]
             r == <<d, check_for_irq(d)>>
  <2>1. Commit(chip, r) /\ UNCHANGED <<cpu, fatal>>
    BY <1>3 DEF WriteOCW3, c
  <2>2. d \in Controller /\ d.irr = c.irr /\ (ActiveRight(c) => ActiveRight(d))
    BY <1>1 DEF Controller, ActiveRight
  <2> HIDE DEF d
  <2>3. Operation(chip, r)
    BY <1>1, <2>2, CheckHonest DEF Operation, c
  <2> QED BY <2>1, <2>3, CommitStep
<1>4. ASSUME NEW lines \in SUBSET Lines,
             Commit(chip, check_after_EOI([c EXCEPT !.isr = @ \ lines])),
             UNCHANGED <<cpu, fatal>>
      PROVE  IInv'
  <2> DEFINE r == check_after_EOI([c EXCEPT !.isr = @ \ lines])
  <2>1. /\ r[1] \in Controller /\ Honest(c, r)
        /\ r[1] = [c EXCEPT !.isr = @ \ lines,
                            !.active_irq = Highest(c.isr \ lines)]
    BY <1>1, EoiHonest
  <2> HIDE DEF r
  <2>2. r[1].irr = c.irr /\ ActiveRight(r[1])
    BY <1>1, <2>1 DEF Controller, ActiveRight
  <2>3. Operation(chip, r)
    BY <1>1, <2>1, <2>2 DEF Operation, c
  <2> QED BY <1>4, <2>3, CommitStep DEF r
<1>5. ASSUME NEW line \in Lines, SpecificEOI(chip, line) PROVE IInv'
  <2>1. /\ Commit(chip, check_after_EOI([c EXCEPT !.isr = @ \ {line}]))
        /\ UNCHANGED <<cpu, fatal>>
    BY <1>5 DEF SpecificEOI, c
  <2> QED BY <1>4, <2>1
<1>6. CASE NonspecificEOI(chip)
  <2>1. /\ Commit(chip, check_after_EOI([c EXCEPT !.isr = @ \ {c.active_irq}]))
        /\ UNCHANGED <<cpu, fatal>>
        /\ c.active_irq # NoIrq
    BY <1>6 DEF NonspecificEOI, c
  <2>2. {c.active_irq} \in SUBSET Lines
    BY <1>1, <2>1, NAssumption DEF Controller, Lines, NoIrq
  <2> QED BY <1>4, <2>1, <2>2
<1>7. ASSUME NEW rotate \in BOOLEAN, WriteRotate(chip, rotate) PROVE IInv'
  <2> DEFINE d == [c EXCEPT !.rotate_on_auto_eoi = rotate]
  <2>1. Commit(chip, <<d, "none">>) /\ UNCHANGED <<cpu, fatal>>
    BY <1>7 DEF WriteRotate, c
  <2>2. /\ d \in Controller
        /\ d.irr = c.irr /\ d.imr = c.imr /\ d.isr = c.isr
        /\ d.active_irq = c.active_irq /\ d.special = c.special
    BY <1>1 DEF Controller
  <2> HIDE DEF d
  <2>3. Operation(chip, <<d, "none">>)
    BY <1>1, <2>2, SilentHonest DEF Operation, ActiveRight, c
  <2> QED BY <2>1, <2>3, CommitStep
<1>8. CASE WriteUnsupported(chip)
  <2>1. UNCHANGED <<pics, PIC_IRQCheck, cpu>> /\ fatal' = "unsupported command"
    BY <1>8 DEF WriteUnsupported, E_Exit
  <2> QED
    BY <2>1 DEF IInv, TypeOK, NoSpuriousSignal, NoCascadePanic, TimerSignalled,
                ModesOff, SpecialModes, ActiveIsHighest, NestedSignal,
                ReadyIsSignalled
<1> QED
  BY <1>2, <1>3, <1>5, <1>6, <1>7, <1>8 DEF Command

\* The words of the initialisation move icw_index, ICW4 also auto_eoi.
LEMMA SilentStep ==
    ASSUME IInv, NEW chip \in Chips, NEW d \in Controller,
           d.irr = pics[chip].irr, d.imr = pics[chip].imr,
           d.isr = pics[chip].isr, d.active_irq = pics[chip].active_irq,
           d.special = pics[chip].special,
           Commit(chip, <<d, "none">>), UNCHANGED <<cpu, fatal>>,
           plain' = (plain /\ ~SpecialModes')
    PROVE  IInv'
<1>1. pics[chip] \in Controller /\ (chip = "master" => pics[chip] = pics.master)
  BY PicTyped
<1>2. Operation(chip, <<d, "none">>)
  BY <1>1, SilentHonest DEF Operation, ActiveRight
<1> QED BY <1>2, CommitStep

LEMMA DataStep ==
    ASSUME IInv, NEW chip \in Chips, Data(chip),
           plain' = (plain /\ ~SpecialModes')
    PROVE  IInv'
<1> DEFINE c == pics[chip]
<1>1. c \in Controller /\ (chip = "master" => c = pics.master)
  BY PicTyped
<1>2. NextIndex(c) \in 0..3
  BY <1>1 DEF NextIndex, Controller
<1> HIDE DEF c
<1>3. ASSUME NEW val \in Masks, WriteMask(chip, val) PROVE IInv'
  <2> DEFINE r == set_imr(c, MaskValue(chip, val))
  <2>1. Commit(chip, r) /\ UNCHANGED <<cpu, fatal>>
    BY <1>3 DEF WriteMask, c
  <2>2. r[1].irr = c.irr /\ (ActiveRight(c) => ActiveRight(r[1]))
    BY <1>1 DEF set_imr, Controller, ActiveRight
  <2>3. val \in SUBSET Lines
    BY ConfigAssumption
  <2>4. Operation(chip, r)
    BY <1>1, <2>2, <2>3, MaskHonest, MaskValueLines DEF Operation, c
  <2> QED BY <2>1, <2>4, CommitStep
<1>4. CASE WriteICW2(chip)
  <2>1. PICK next \in 0..3 :
          /\ Commit(chip, <<[c EXCEPT !.icw_index = next], "none">>)
          /\ UNCHANGED <<cpu, fatal>>
    BY <1>2, <1>4 DEF WriteICW2, c
  <2> DEFINE d == [c EXCEPT !.icw_index = next]
  <2>2. /\ d \in Controller
        /\ d.irr = c.irr /\ d.imr = c.imr /\ d.isr = c.isr
        /\ d.active_irq = c.active_irq /\ d.special = c.special
    BY <1>1 DEF Controller
  <2> HIDE DEF d
  <2> QED BY <2>1, <2>2, SilentStep DEF c, d
<1>5. CASE WriteICW3(chip)
  <2> DEFINE d == [c EXCEPT !.icw_index = NextIndex(c)]
  <2>1. Commit(chip, <<d, "none">>) /\ UNCHANGED <<cpu, fatal>>
    BY <1>5 DEF WriteICW3, c
  <2>2. /\ d \in Controller
        /\ d.irr = c.irr /\ d.imr = c.imr /\ d.isr = c.isr
        /\ d.active_irq = c.active_irq /\ d.special = c.special
    BY <1>1, <1>2 DEF Controller
  <2> HIDE DEF d
  <2> QED BY <2>1, <2>2, SilentStep DEF c
<1>6. ASSUME NEW auto \in BOOLEAN, WriteICW4(chip, auto) PROVE IInv'
  <2> DEFINE d == [c EXCEPT !.auto_eoi = auto, !.icw_index = NextIndex(c)]
  <2>1. Commit(chip, <<d, "none">>) /\ UNCHANGED <<cpu, fatal>>
    BY <1>6 DEF WriteICW4, c
  <2>2. /\ d \in Controller
        /\ d.irr = c.irr /\ d.imr = c.imr /\ d.isr = c.isr
        /\ d.active_irq = c.active_irq /\ d.special = c.special
    BY <1>1, <1>2 DEF Controller
  <2> HIDE DEF d
  <2> QED BY <2>1, <2>2, SilentStep DEF c
<1>7. ASSUME NEW auto \in BOOLEAN, WriteICW4_8085(chip, auto) PROVE IInv'
  <2>1. /\ pics' = [pics EXCEPT ![chip].auto_eoi = auto]
        /\ fatal' = "8085 mode" /\ UNCHANGED <<PIC_IRQCheck, cpu>>
    BY <1>7 DEF WriteICW4_8085
  <2>2. /\ pics' \in [master : Controller, slave : Controller]
        /\ \A x \in Chips :
              /\ pics'[x].irr = pics[x].irr /\ pics'[x].imr = pics[x].imr
              /\ pics'[x].isr = pics[x].isr
              /\ pics'[x].active_irq = pics[x].active_irq
              /\ pics'[x].special = pics[x].special
    BY <2>1 DEF IInv, TypeOK, Controller, Chips
  <2>3. \A x \in Chips : Servable(pics'[x]) = Servable(pics[x])
    BY <2>2 DEF Servable, Pending, Ceiling
  <2>4. TypeOK'
    BY <2>1, <2>2 DEF IInv, TypeOK
  <2>5. NoSpuriousSignal' /\ TimerSignalled' /\ (ReadyIsSignalled => ReadyIsSignalled')
    BY <2>1, <2>2, <2>3
    DEF IInv, NoSpuriousSignal, TimerSignalled, ReadyIsSignalled, Chips
  <2>6. ActiveIsHighest'
    BY <2>2 DEF IInv, ActiveIsHighest
  <2> QED
    BY <2>1, <2>4, <2>5, <2>6 DEF IInv, NoCascadePanic, ModesOff, NestedSignal
<1> QED
  BY <1>3, <1>4, <1>5, <1>6, <1>7 DEF Data

-----------------------------------------------------------------------------
(* The CPU takes an interrupt.                                             *)

\* start_irq on the highest request that can be started: nothing of the
\* highest priority is left behind, and in fully nested mode nothing at all.
LEMMA StartIrq ==
    ASSUME NEW c \in Controller, NEW line, line = Highest(Servable(c)),
           line # NoIrq
    PROVE  LET d == start_irq(c, line)
           IN  /\ line \in Servable(c) /\ line \in Lines
               /\ d \in Controller
               /\ d.irr = c.irr \ {line}
               /\ 0 \notin Servable(d)
               /\ d.special = c.special /\ d.auto_eoi = c.auto_eoi
               /\ ~c.special /\ ~c.auto_eoi =>
                    /\ Servable(d) = {}
                    /\ ActiveRight(c) => ActiveRight(d)
                    /\ d.isr = c.isr \cup {line}
                    /\ ActiveRight(c) => \A j \in c.isr : line < j
<1> DEFINE d == start_irq(c, line)
<1>1. /\ line \in Servable(c) /\ line \in Lines
      /\ \A j \in Servable(c) : line <= j
  BY ServableLines, HighestIsLeast DEF NoIrq
<1>2. line \in c.irr /\ line < Ceiling(c)
  BY <1>1 DEF Servable, Pending
<1>3. /\ d \in Controller
      /\ d.irr = c.irr \ {line}
      /\ d.special = c.special /\ d.auto_eoi = c.auto_eoi
  <2>1. line \in 0..N
    BY <1>1, NAssumption DEF Lines
  <2> QED BY <1>1, <2>1 DEF start_irq, Controller
<1>4. c.isr \subseteq d.isr /\ d.imr = c.imr
  BY DEF start_irq, Controller
<1>5. Pending(d) \subseteq Pending(c) \ {line}
  BY <1>3, <1>4 DEF Pending
<1>6. line \in Nat /\ Lines \subseteq Nat /\ Ceiling(c) \in Nat
  BY <1>1, NAssumption DEF Lines, Ceiling, Controller
<1>7. ASSUME NEW j \in Servable(d), j <= line PROVE FALSE
  <2>1. j \in Pending(c) /\ j # line
    BY <1>5, <1>7 DEF Servable
  <2>2. j \in Lines
    BY <2>1 DEF Pending, Controller
  <2>3. j < Ceiling(c)
    BY <1>2, <1>6, <1>7, <2>2
  <2>4. j \in Servable(c)
    BY <2>1, <2>3 DEF Servable
  <2> QED BY <1>1, <1>6, <1>7, <2>1, <2>2, <2>4
<1>8. 0 \notin Servable(d)
  BY <1>6, <1>7
<1>9. ASSUME ~c.special, ~c.auto_eoi
      PROVE  /\ Servable(d) = {}
             /\ d.isr = c.isr \cup {line}
             /\ ActiveRight(c) => ActiveRight(d)
             /\ ActiveRight(c) => \A j \in c.isr : line < j
  <2>1. d.active_irq = line /\ d.isr = c.isr \cup {line}
    BY <1>9 DEF start_irq, Controller
  <2>2. Ceiling(d) = line /\ Ceiling(c) = c.active_irq
    BY <1>3, <1>9, <2>1 DEF Ceiling
  <2>3. Servable(d) = {}
    <3> SUFFICES ASSUME NEW j \in Servable(d) PROVE FALSE
      OBVIOUS
    <3>1. j \in Nat
      BY <1>3, <1>6, ServableLines
    <3>2. j < line
      BY <2>2 DEF Servable
    <3> HIDE DEF d
    <3>3. j <= line
      BY <1>6, <3>1, <3>2
    <3> QED BY <1>7, <3>3
  <2>4. c.isr \in SUBSET Lines /\ d.isr \in SUBSET Lines
    BY <1>3 DEF Controller
  <2>5. ASSUME ActiveRight(c) PROVE \A j \in c.isr : line < j
    <3>1. line < Highest(c.isr)
      BY <1>2, <2>2, <2>5 DEF ActiveRight
    <3> SUFFICES ASSUME NEW j \in c.isr PROVE line < j
      OBVIOUS
    <3>2. Highest(c.isr) <= j /\ Highest(c.isr) \in 0..N /\ j \in Nat
      BY <1>6, <2>4, HighestIsLeast
    <3> QED BY <1>6, <3>1, <3>2, NAssumption
  <2>6. ASSUME ActiveRight(c) PROVE Highest(d.isr) = line
    <3>1. /\ Highest(d.isr) \in d.isr
          /\ \A j \in d.isr : Highest(d.isr) <= j
      BY <2>1, <2>4, HighestIsLeast
    <3>2. ASSUME NEW j \in d.isr PROVE line <= j
      <4>1. j \in Nat /\ (j = line \/ j \in c.isr)
        BY <1>6, <2>1, <2>4
      <4>2. j \in c.isr => line < j
        BY <2>5, <2>6
      <4> HIDE DEF d
      <4> QED BY <1>6, <4>1, <4>2
    <3>3. Highest(d.isr) \in Nat
      BY <1>6, <2>4, <3>1
    <3> QED BY <1>6, <2>1, <3>1, <3>2, <3>3
  <2> QED BY <2>1, <2>3, <2>5, <2>6 DEF ActiveRight
<1> QED
  BY <1>1, <1>3, <1>8, <1>9

\* Steps that leave both controllers and the output alone.
LEMMA QuietStep ==
    ASSUME IInv, UNCHANGED <<pics, PIC_IRQCheck>>,
           cpu' \in {"sti", "cli", "trap"},
           \/ fatal' = fatal
           \/ fatal' \in {"unsupported command", "rotate on auto EOI"},
           plain' = (plain /\ ~SpecialModes')
    PROVE  IInv'
<1>1. TypeOK'
  BY DEF IInv, TypeOK
<1>2. NoSpuriousSignal' /\ TimerSignalled' /\ NoCascadePanic'
  BY DEF IInv, NoSpuriousSignal, TimerSignalled, NoCascadePanic
<1>3. ModesOff' /\ ActiveIsHighest' /\ NestedSignal'
  BY DEF IInv, ModesOff, ActiveIsHighest, NestedSignal, ReadyIsSignalled
<1> QED
  BY <1>1, <1>2, <1>3 DEF IInv

LEMMA MasterStart ==
    ASSUME IInv, NEW line, line = Highest(Servable(pics.master)),
           line # NoIrq, line # Cascade, master_startIRQ(line),
           plain' = (plain /\ ~SpecialModes')
    PROVE  IInv'
<1>1. CASE CannotStart(pics.master)
  BY <1>1, QuietStep DEF master_startIRQ, E_Exit, IInv, TypeOK
<1>2. CASE ~CannotStart(pics.master)
  <2> DEFINE c == pics.master
             d == start_irq(c, line)
  <2>1. /\ pics' = [pics EXCEPT !.master = d]
        /\ PIC_IRQCheck' = FALSE /\ cpu' = "cli" /\ fatal' = fatal
    BY <1>2 DEF master_startIRQ
  <2>2. c \in Controller
    BY DEF IInv, TypeOK
  <2>3. /\ d \in Controller
        /\ d.irr = c.irr \ {line}
        /\ 0 \notin Servable(d)
        /\ d.special = c.special /\ d.auto_eoi = c.auto_eoi
        /\ ~c.special /\ ~c.auto_eoi =>
             /\ Servable(d) = {}
             /\ ActiveRight(c) => ActiveRight(d)
    BY <2>2, StartIrq
  <2> HIDE DEF d
  <2>4. /\ pics' \in [master : Controller, slave : Controller]
        /\ pics'.master = d /\ pics'.slave = pics.slave
    BY <2>1, <2>3 DEF IInv, TypeOK
  <2>5. TypeOK'
    BY <2>1, <2>4 DEF IInv, TypeOK
  <2>6. NoSpuriousSignal' /\ TimerSignalled' /\ NoCascadePanic'
    BY <2>1, <2>3, <2>4
    DEF IInv, NoSpuriousSignal, TimerSignalled, NoCascadePanic
  <2>7. plain' => plain /\ ~c.special /\ ~c.auto_eoi
    BY <2>3, <2>4 DEF SpecialModes, Chips
  <2>8. ActiveIsHighest'
    BY <2>3, <2>4, <2>7 DEF IInv, ActiveIsHighest, ActiveRight, Chips
  <2>9. NestedSignal'
    BY <2>3, <2>4, <2>7 DEF IInv, NestedSignal, ReadyIsSignalled
  <2> QED
    BY <2>5, <2>6, <2>8, <2>9 DEF IInv, ModesOff
<1> QED
  BY <1>1, <1>2

LEMMA SlaveStart ==
    ASSUME IInv, Cascade = Highest(Servable(pics.master)), slave_startIRQ,
           plain' = (plain /\ ~SpecialModes')
    PROVE  IInv'
<1> DEFINE c == pics.master
           s == pics.slave
           line == Highest(Servable(s))
<1>1. c \in Controller /\ s \in Controller
  BY DEF IInv, TypeOK
<1>2. Cascade # NoIrq
  BY NAssumption DEF Cascade, NoIrq
<1>3. Servable(s) # {}
  <2>1. Cascade \in Servable(c)
    BY <1>1, <1>2, StartIrq
  <2> QED BY <2>1 DEF IInv, NoSpuriousSignal, Servable, Pending
<1>4. line # NoIrq
  <2>1. line \in Lines
    BY <1>1, <1>3, ServableLines, HighestIsLeast
  <2> HIDE DEF line
  <2> QED BY <2>1, NAssumption DEF Lines, NoIrq
<1>5. CASE CannotStart(s) \/ CannotStart(c)
  BY <1>4, <1>5, QuietStep DEF slave_startIRQ, E_Exit, IInv, TypeOK
<1>6. CASE ~(CannotStart(s) \/ CannotStart(c))
  <2> DEFINE d == start_irq(c, Cascade)
             e == start_irq(s, line)
  <2>1. /\ pics' = [master |-> d, slave |-> e]
        /\ PIC_IRQCheck' = FALSE /\ cpu' = "cli" /\ fatal' = fatal
    BY <1>4, <1>6 DEF slave_startIRQ
  <2>2. /\ d \in Controller
        /\ d.irr = c.irr \ {Cascade}
        /\ 0 \notin Servable(d)
        /\ d.special = c.special /\ d.auto_eoi = c.auto_eoi
        /\ ~c.special /\ ~c.auto_eoi =>
             /\ Servable(d) = {}
             /\ ActiveRight(c) => ActiveRight(d)
    BY <1>1, <1>2, StartIrq
  <2>3. /\ e \in Controller
        /\ e.special = s.special /\ e.auto_eoi = s.auto_eoi
        /\ ~s.special /\ ~s.auto_eoi =>
             /\ Servable(e) = {}
             /\ ActiveRight(s) => ActiveRight(e)
    BY <1>1, <1>4, StartIrq
  <2> HIDE DEF d, e
  <2>4. pics'.master = d /\ pics'.slave = e
    BY <2>1
  <2>5. TypeOK'
    BY <2>1, <2>2, <2>3 DEF IInv, TypeOK
  <2>6. NoSpuriousSignal' /\ TimerSignalled' /\ NoCascadePanic'
    BY <2>1, <2>2, <2>4
    DEF IInv, NoSpuriousSignal, TimerSignalled, NoCascadePanic
  <2>7. plain' => /\ plain
                  /\ ~c.special /\ ~c.auto_eoi /\ ~s.special /\ ~s.auto_eoi
    BY <2>2, <2>3, <2>4 DEF SpecialModes, Chips
  <2>8. ActiveIsHighest'
    BY <2>2, <2>3, <2>4, <2>7 DEF IInv, ActiveIsHighest, ActiveRight, Chips
  <2>9. NestedSignal'
    BY <2>2, <2>3, <2>4, <2>7 DEF NestedSignal, ReadyIsSignalled
  <2> QED
    BY <2>5, <2>6, <2>8, <2>9 DEF IInv, ModesOff
<1> QED
  BY <1>5, <1>6

LEMMA RunStep ==
    ASSUME IInv, PIC_runIRQs, plain' = (plain /\ ~SpecialModes')
    PROVE  IInv'
<1> DEFINE line == Highest(Servable(pics.master))
<1>1. CASE line = NoIrq
  <2>1. Servable(pics.master) = {}
    <3>1. pics.master \in Controller
      BY DEF IInv, TypeOK
    <3>2. Servable(pics.master) # {} => line \in Lines
      BY <3>1, ServableLines, HighestIsLeast
    <3> HIDE DEF line
    <3> QED BY <1>1, <3>2, NAssumption DEF Lines, NoIrq
  <2> QED
    BY <2>1 DEF PIC_runIRQs, IInv, NoSpuriousSignal
<1>2. CASE line # NoIrq /\ line = Cascade
  BY <1>2, SlaveStart DEF PIC_runIRQs
<1>3. CASE line # NoIrq /\ line # Cascade
  BY <1>3, MasterStart DEF PIC_runIRQs
<1> QED
  BY <1>1, <1>2, <1>3

-----------------------------------------------------------------------------
(* The invariant holds initially and at every step.                        *)

LEMMA InitIInv == Init => IInv
<1> SUFFICES ASSUME Init PROVE IInv
  OBVIOUS
<1> DEFINE m == pics.master
           s == pics.slave
<1>1. /\ m = Reset({0, 1, Cascade} \cup NonMaskable)
      /\ s = Reset({0})
  BY DEF Init
<1>2. ASSUME NEW u
      PROVE  /\ Reset(u) \in Controller
             /\ Reset(u).irr = {} /\ Reset(u).isr = {}
             /\ Reset(u).active_irq = NoIrq
             /\ ~Reset(u).special /\ ~Reset(u).auto_eoi
  BY NAssumption DEF Reset, Controller, NoIrq
<1>3. \A c \in {m, s} : /\ c \in Controller
                        /\ Servable(c) = {} /\ c.irr = {}
                        /\ ActiveRight(c)
                        /\ ~c.special /\ ~c.auto_eoi
  BY <1>1, <1>2 DEF Servable, Pending, ActiveRight, Highest
<1>4. TypeOK
  BY <1>1, <1>3 DEF Init, TypeOK
<1>5. NoSpuriousSignal /\ TimerSignalled /\ NoCascadePanic
  BY <1>3 DEF Init, NoSpuriousSignal, TimerSignalled, NoCascadePanic
<1>6. ModesOff /\ ActiveIsHighest
  BY <1>3 DEF ModesOff, SpecialModes, ActiveIsHighest, ActiveRight, Chips
<1>7. NestedSignal
  BY <1>3 DEF NestedSignal, ReadyIsSignalled
<1> QED
  BY <1>4, <1>5, <1>6, <1>7 DEF IInv

LEMMA NextIInv ==
    ASSUME Cascade \notin DeviceLines["master"], IInv, [Next]_vars
    PROVE  IInv'
<1>1. CASE Next
  <2>1. plain' = (plain /\ ~SpecialModes')
    BY <1>1 DEF Next
  <2>2. CASE Device
    BY <2>1, <2>2, DeviceStep
  <2>3. CASE Guest
    BY <2>1, <2>3, CommandStep, DataStep DEF Guest
  <2>4. CASE \E state \in {"sti", "cli", "trap"} : SetCpu(state)
    BY <2>1, <2>4, QuietStep DEF SetCpu
  <2>5. CASE PIC_runIRQs
    BY <2>1, <2>5, RunStep
  <2> QED
    BY <1>1, <2>2, <2>3, <2>4, <2>5 DEF Next, Step
<1>2. CASE UNCHANGED vars
  <2>1. TypeOK'
    BY <1>2 DEF vars, IInv, TypeOK
  <2>2. NoSpuriousSignal' /\ TimerSignalled' /\ NoCascadePanic'
    BY <1>2 DEF vars, IInv, NoSpuriousSignal, TimerSignalled, NoCascadePanic
  <2>3. ModesOff' /\ ActiveIsHighest' /\ NestedSignal'
    BY <1>2 DEF vars, IInv, ModesOff, SpecialModes, ActiveIsHighest,
                NestedSignal, ReadyIsSignalled
  <2> QED
    BY <2>1, <2>2, <2>3 DEF IInv
<1> QED
  BY <1>1, <1>2

LEMMA SpecIInv ==
    ASSUME Cascade \notin DeviceLines["master"]
    PROVE  Spec => []IInv
<1>1. Init => IInv
  BY InitIInv
<1>2. IInv /\ [Next]_vars => IInv'
  BY NextIInv
<1> QED
  BY <1>1, <1>2, PTL DEF Spec

-----------------------------------------------------------------------------
(* The theorems.  Their one hypothesis about the machine is that input 2   *)
(* of the master is left to the slave; the run pic_irq2 shows why it is    *)
(* needed.                                                                 *)

\* The registers of both controllers (pic.cpp:29-47) stay within their ranges.
THEOREM Typed ==
    ASSUME Cascade \notin DeviceLines["master"]
    PROVE  Spec => []TypeOK
BY SpecIInv, PTL DEF IInv

\* activate() and deactivate() (pic.cpp:133-153) never leave the CPU signalled,
\* or the cascade input raised, without a request to start.
THEOREM SignalsBacked ==
    ASSUME Cascade \notin DeviceLines["master"]
    PROVE  Spec => []NoSpuriousSignal
BY SpecIInv, PTL DEF IInv

\* slave_startIRQ (pic.cpp:318-334) never leaves through its E_Exit.
THEOREM CascadeNeverPanics ==
    ASSUME Cascade \notin DeviceLines["master"]
    PROVE  Spec => []NoCascadePanic
BY SpecIInv, PTL DEF IInv

\* PIC_runIRQs (pic.cpp:341-360), which clears PIC_IRQCheck after one interrupt
\* whatever else waits, never forgets the timer.
THEOREM TimerNeverLost ==
    ASSUME Cascade \notin DeviceLines["master"]
    PROVE  Spec => []TimerSignalled
BY SpecIInv, PTL DEF IInv

\* In fully nested mode no request that can be started waits unsignalled.
THEOREM NothingLostWhenNested ==
    ASSUME Cascade \notin DeviceLines["master"]
    PROVE  Spec => []NestedSignal
BY SpecIInv, PTL DEF IInv

\* In fully nested mode a nonspecific EOI (pic.cpp:209-217) ends the interrupt
\* being handled: active_irq is the highest one in service.
THEOREM EoiEndsHighest ==
    ASSUME Cascade \notin DeviceLines["master"]
    PROVE  Spec => []ActiveIsHighest
BY SpecIInv, PTL DEF IInv

-----------------------------------------------------------------------------
(* Nesting: only start_irq adds to the interrupts in service, and it does  *)
(* so below all of them.                                                   *)

LEMMA CommitKeeps ==
    ASSUME IInv, NEW chip \in Chips, NEW r, r[1].isr \subseteq pics[chip].isr,
           Commit(chip, r)
    PROVE  Nesting
<1> DEFINE up == CascadeInput(r[2])
<1>1. pics \in [master : Controller, slave : Controller]
  BY DEF IInv, TypeOK
<1>2. up[1].isr = pics.master.isr
  BY <1>1 DEF CascadeInput, raise_irq, lower_irq, Controller
<1> HIDE DEF up
<1>3. /\ pics'.master.isr \subseteq pics.master.isr
      /\ pics'.slave.isr \subseteq pics.slave.isr
  <2>1. CASE chip = "master"
    <3>1. pics' = [pics EXCEPT !.master = r[1]]
      BY <2>1 DEF Commit
    <3> QED BY <1>1, <2>1, <3>1
  <2>2. CASE chip = "slave"
    <3>1. pics' = [master |-> up[1], slave |-> r[1]]
      BY <2>2 DEF Commit, up
    <3> QED BY <1>2, <2>2, <3>1
  <2> QED BY <2>1, <2>2 DEF Chips
<1> QED
  BY <1>3 DEF Nesting, Chips

LEMMA DeviceKeeps ==
    ASSUME IInv, Device
    PROVE  Nesting
<1>1. PICK chip \in Chips : \E line \in DeviceLines[chip] :
        \/ PIC_ActivateIRQ(chip, line)
        \/ PIC_DeActivateIRQ(chip, line)
        \/ \E masked \in BOOLEAN : PIC_SetIRQMask(chip, line, masked)
  BY DEF Device
<1> DEFINE c == pics[chip]
<1>2. c \in Controller
  BY PicTyped
<1> HIDE DEF c
<1>3. /\ \A line : raise_irq(c, line)[1].isr = c.isr
      /\ \A line : lower_irq(c, line)[1].isr = c.isr
      /\ \A val : set_imr(c, val)[1].isr = c.isr
  BY <1>2 DEF raise_irq, lower_irq, set_imr, Controller
<1>4. PICK r : r[1].isr = c.isr /\ Commit(chip, r)
  BY <1>1, <1>3 DEF PIC_ActivateIRQ, PIC_DeActivateIRQ, PIC_SetIRQMask, c
<1> QED
  BY <1>4, CommitKeeps DEF c

LEMMA CommandKeeps ==
    ASSUME IInv, NEW chip \in Chips, Command(chip)
    PROVE  Nesting
<1> DEFINE c == pics[chip]
<1>1. c \in Controller
  BY PicTyped
<1> HIDE DEF c
<1>2. ASSUME NEW word \in Icw1, WriteICW1(chip, word) PROVE Nesting
  <2> DEFINE s == set_imr(c, MaskValue(chip, {}))
  <2>1. s[1] \in Controller /\ s[1].isr = c.isr
    <3>1. s[1] \in Controller
      BY <1>1, MaskHonest, MaskValueLines
    <3> QED BY <1>1, <3>1 DEF set_imr, Controller
  <2>2. Commit(chip, <<begin_icw(s[1], word), s[2]>>)
    BY <1>2 DEF WriteICW1, c
  <2> HIDE DEF s
  <2>3. begin_icw(s[1], word).isr = c.isr
    BY <2>1, Icw1Fields, ConfigAssumption
  <2> QED BY <2>2, <2>3, CommitKeeps DEF c
<1>3. ASSUME NEW on \in BOOLEAN, WriteOCW3(chip, on) PROVE Nesting
  <2> DEFINE d == [c EXCEPT !.special = on]
  <2>1. d.isr = c.isr
    BY <1>1 DEF Controller
  <2>2. Commit(chip, <<d, check_for_irq(d)>>)
    BY <1>3 DEF WriteOCW3, c
  <2> HIDE DEF d
  <2> QED BY <2>1, <2>2, CommitKeeps DEF c
<1>4. ASSUME NEW lines \in SUBSET Lines,
             Commit(chip, check_after_EOI([c EXCEPT !.isr = @ \ lines]))
      PROVE  Nesting
  <2> DEFINE r == check_after_EOI([c EXCEPT !.isr = @ \ lines])
  <2>1. r[1] = [c EXCEPT !.isr = @ \ lines,
                         !.active_irq = Highest(c.isr \ lines)]
    BY <1>1, EoiHonest
  <2>2. r[1].isr = c.isr \ lines
    <3> HIDE DEF r
    <3> QED BY <1>1, <2>1 DEF Controller
  <2> HIDE DEF r
  <2> QED BY <1>4, <2>2, CommitKeeps DEF c, r
<1>5. ASSUME NEW line \in Lines, SpecificEOI(chip, line) PROVE Nesting
  BY <1>4, <1>5 DEF SpecificEOI, c
<1>6. CASE NonspecificEOI(chip)
  <2>1. {c.active_irq} \in SUBSET Lines
    BY <1>1, <1>6, NAssumption DEF NonspecificEOI, Controller, Lines, NoIrq, c
  <2> QED BY <1>4, <1>6, <2>1 DEF NonspecificEOI, c
<1>7. ASSUME NEW rotate \in BOOLEAN, WriteRotate(chip, rotate) PROVE Nesting
  <2> DEFINE d == [c EXCEPT !.rotate_on_auto_eoi = rotate]
  <2>1. d.isr = c.isr
    BY <1>1 DEF Controller
  <2>2. Commit(chip, <<d, "none">>)
    BY <1>7 DEF WriteRotate, c
  <2> HIDE DEF d
  <2> QED BY <2>1, <2>2, CommitKeeps DEF c
<1>8. CASE WriteUnsupported(chip)
  BY <1>8 DEF WriteUnsupported, E_Exit, Nesting
<1> QED
  BY <1>2, <1>3, <1>5, <1>6, <1>7, <1>8 DEF Command

LEMMA DataKeeps ==
    ASSUME IInv, NEW chip \in Chips, Data(chip)
    PROVE  Nesting
<1> DEFINE c == pics[chip]
<1>1. c \in Controller
  BY PicTyped
<1> HIDE DEF c
<1>2. ASSUME NEW val \in Masks, WriteMask(chip, val) PROVE Nesting
  <2> DEFINE r == set_imr(c, MaskValue(chip, val))
  <2>1. r[1].isr = c.isr
    BY <1>1 DEF set_imr, Controller
  <2>2. Commit(chip, r)
    BY <1>2 DEF WriteMask, c
  <2> HIDE DEF r
  <2> QED BY <2>1, <2>2, CommitKeeps DEF c
<1>3. ASSUME NEW d, d.isr = c.isr, Commit(chip, <<d, "none">>) PROVE Nesting
  BY <1>3, CommitKeeps DEF c
<1>4. CASE WriteICW2(chip) \/ WriteICW3(chip)
  <2>1. PICK next : Commit(chip, <<[c EXCEPT !.icw_index = next], "none">>)
    BY <1>4 DEF WriteICW2, WriteICW3, c
  <2> DEFINE d == [c EXCEPT !.icw_index = next]
  <2>2. d.isr = c.isr
    BY <1>1 DEF Controller
  <2> HIDE DEF d
  <2> QED BY <1>3, <2>1, <2>2 DEF d
<1>5. ASSUME NEW auto \in BOOLEAN, WriteICW4(chip, auto) PROVE Nesting
  <2> DEFINE d == [c EXCEPT !.auto_eoi = auto, !.icw_index = NextIndex(c)]
  <2>1. d.isr = c.isr
    BY <1>1 DEF Controller
  <2>2. Commit(chip, <<d, "none">>)
    BY <1>5 DEF WriteICW4, c
  <2> HIDE DEF d
  <2> QED BY <1>3, <2>1, <2>2
<1>6. ASSUME NEW auto \in BOOLEAN, WriteICW4_8085(chip, auto) PROVE Nesting
  <2>1. pics' = [pics EXCEPT ![chip].auto_eoi = auto]
    BY <1>6 DEF WriteICW4_8085
  <2>2. \A x \in Chips : pics'[x].isr = pics[x].isr
    BY <2>1 DEF IInv, TypeOK, Controller, Chips
  <2> QED BY <2>2 DEF Nesting
<1> QED
  BY <1>2, <1>4, <1>5, <1>6 DEF Data

LEMMA RunNests ==
    ASSUME IInv, PIC_runIRQs, plain
    PROVE  Nesting
<1> DEFINE m == pics.master
           s == pics.slave
           line == Highest(Servable(m))
           below == Highest(Servable(s))
<1>1. m \in Controller /\ s \in Controller
  BY DEF IInv, TypeOK
<1>2. /\ ActiveRight(m) /\ ~m.special /\ ~m.auto_eoi
      /\ ActiveRight(s) /\ ~s.special /\ ~s.auto_eoi
  BY DEF IInv, ModesOff, SpecialModes, ActiveIsHighest, ActiveRight, Chips
<1>3. line # NoIrq => /\ start_irq(m, line).isr = m.isr \cup {line}
                      /\ \A j \in m.isr : line < j
  BY <1>1, <1>2, StartIrq
<1>4. below # NoIrq => /\ start_irq(s, below).isr = s.isr \cup {below}
                       /\ \A j \in s.isr : below < j
  BY <1>1, <1>2, StartIrq
<1>5. CASE UNCHANGED pics
  BY <1>5 DEF Nesting
<1>6. CASE /\ line # NoIrq
           /\ pics' = [pics EXCEPT !.master = start_irq(m, line)]
  <2>1. /\ pics'.master.isr = m.isr \cup {line}
        /\ pics'.slave.isr = s.isr
    BY <1>3, <1>6 DEF IInv, TypeOK
  <2> QED BY <1>3, <1>6, <2>1 DEF Nesting, Chips
<1>7. CASE /\ line # NoIrq /\ below # NoIrq
           /\ pics' = [master |-> start_irq(m, line),
                       slave  |-> start_irq(s, below)]
  <2>1. /\ pics'.master.isr = m.isr \cup {line}
        /\ pics'.slave.isr = s.isr \cup {below}
    BY <1>3, <1>4, <1>7
  <2> QED BY <1>3, <1>4, <1>7, <2>1 DEF Nesting, Chips
<1> QED
  BY <1>5, <1>6, <1>7
  DEF PIC_runIRQs, master_startIRQ, slave_startIRQ, E_Exit

\* In fully nested mode PIC_runIRQs starts an interrupt only over ones of
\* strictly lower priority, on the master and on the slave.
THEOREM NestedByPriority ==
    ASSUME Cascade \notin DeviceLines["master"]
    PROVE  Spec => NestedPriority
<1>1. Init => IInv
  BY InitIInv
<1>2. IInv /\ [Next]_vars => IInv'
  BY NextIInv
<1>3. IInv /\ [Next]_vars => [plain => Nesting]_vars
  <2> SUFFICES ASSUME IInv, Next, plain PROVE Nesting
    OBVIOUS
  <2>1. CASE Device
    BY <2>1, DeviceKeeps
  <2>2. CASE Guest
    BY <2>2, CommandKeeps, DataKeeps DEF Guest
  <2>3. CASE \E state \in {"sti", "cli", "trap"} : SetCpu(state)
    BY <2>3 DEF SetCpu, Nesting
  <2>4. CASE PIC_runIRQs
    BY <2>4, RunNests
  <2> QED
    BY <2>1, <2>2, <2>3, <2>4 DEF Next, Step
<1> QED
  BY <1>1, <1>2, <1>3, PTL DEF Spec, NestedPriority
=============================================================================
