---------------------------- MODULE SoundBlaster ----------------------------
(***************************************************************************)
(* The Sound Blaster of dosbox/src/hardware/sblaster.cpp over two channels *)
(* of Dma: the transfers of its DSP, pulled by the mixer, ended by events  *)
(* of the queue (EventList), and stopped and started by the callbacks of   *)
(* the DMA controller.                                                     *)
(*                                                                         *)
(* All of it runs on the emulator thread, but the C functions nest: a read *)
(* of the channel may call back into the card.  They are operators from    *)
(* the whole state s of the card to its next state; an amount that depends *)
(* on the time is a parameter.  An event may fire at any moment after it   *)
(* is queued, and the mixer may pull at any moment.                        *)
(*                                                                         *)
(* Sizes are in units of the channel.  Left out: ADPCM and the aliased     *)
(* 16-bit mode, which only change how units become samples; the ADC and    *)
(* DMA identification commands, whose callbacks replace the card's own;    *)
(* changes of rate during a transfer; the card's own mixer and MIDI.       *)
(*                                                                         *)
(* The guest keeps to what the programming guides of the card ask: it      *)
(* starts a transfer when none is running (or asks an autoinit transfer to *)
(* go on as a single-cycle one), on a channel it has just programmed.      *)
(***************************************************************************)
EXTENDS Dma, Bags

CONSTANTS
    Types,       \* of the card: "pro" (SBT_PRO2), "sb16" (SBT_16)
    Sizes,       \* of the blocks the guest plays
    Pulls,       \* how much the mixer may ask for at once
    DmaMin,      \* sb.dma.min: three milliseconds of the transfer
    MinSize,     \* min_size, the least a masked transfer leaves
    WordSize,    \* the scaled modulus of sb.dma.left
    MaxCalls     \* bound: what the guest does

Links == {8, 16}                                  \* hw.dma8, hw.dma16
Modes == {"NONE", "DAC", "DMA", "PAUSE", "MASKED"}

ASSUME CardAssumption ==
    /\ Types \subseteq {"pro", "sb16"}
    /\ Sizes \subseteq 1..(CountMax + 1) /\ Pulls \subseteq Nat \ {0}
    /\ {DmaMin, MinSize, WordSize, MaxCalls} \subseteq Nat \ {0}
    /\ \A n \in Sizes : n < WordSize

VARIABLES
    sb,        \* the struct sb, the DMA channels and the card's queued events
    type,      \* sb.type
    calls,     \* what the guest has done so far
    inStep,    \* history: the block of the transfer, if it started on a channel
               \* of as many blocks with no other block left waiting, or 0
    dropped    \* history: the speaker was turned off during the transfer
vars == <<sb, type, calls, inStep, dropped>>

Dmas == {"NONE", "8", "16"}                       \* sb.dma.mode
Link(dma) == IF dma = "16" THEN 16 ELSE 8

\* the events of the card in the queue
End(n) == <<"END_DMA_Event", n>>
Silent(n) == <<"DMA_Silent_Event", n>>
RaiseIRQEvent == <<"DSP_RaiseIRQEvent", 0>>
FinishReset == <<"DSP_FinishReset", 0>>

PIC_AddEvent(s, event) == [s EXCEPT !.queue = @ (+) SetToBag({event})]
PIC_RemoveEvents(s, name) ==
    LET kept == {e \in BagToSet(s.queue) : e[1] # name}
    IN [s EXCEPT !.queue = [e \in kept |-> s.queue[e]]]

Least(a, b) == IF a < b THEN a ELSE b
Audible(s) == type = "sb16" \/ s.speaker          \* sb.chan is enabled
Current(s) == s.channels[s.chan]
Transferring(s) == s.mode \in {"DMA", "PAUSE", "MASKED"}   \* >= MODE_DMA

-----------------------------------------------------------------------------
(* The functions of the card.                                              *)

SB_RaiseIRQ(s, bits) ==
    IF bits = 16 THEN [s EXCEPT !.pending16 = TRUE] ELSE [s EXCEPT !.pending8 = TRUE]

RaiseEnd(s) == SB_RaiseIRQ(s, Link(s.dma))

\* a transfer that moved done units
Moved(s, done) == [s EXCEPT !.left = (@ - done) % WordSize]

\* how much to read when size is asked for
GenerateSize(s, size) ==
    IF s.autoinit THEN Least(s.left, size)
    ELSE IF s.left <= DmaMin THEN s.left ELSE size

\* the end of a block that is played
BlockEnds(s) ==
    LET t == RaiseEnd(PIC_RemoveEvents(s, "END_DMA_Event"))
    IN IF t.autoinit
           THEN [t EXCEPT !.left = t.autosize, !.mode = IF t.autosize = 0 THEN "NONE" ELSE @]
       ELSE IF t.singlesize = 0 THEN [t EXCEPT !.mode = "NONE", !.dma = "NONE"]
       ELSE [t EXCEPT !.left = t.singlesize, !.singlesize = 0]

\* The callback that a read at terminal count makes finds the time of the last
\* read just taken, so that it only masks.
GenerateDMASound(s, size) ==
    IF s.dma = "NONE" THEN [s EXCEPT !.mode = "NONE"]
    ELSE LET r == Read(Current(s), GenerateSize(s, size))
             read == [s EXCEPT !.channels[s.chan] = r.chan,
                               !.mode = IF r.masks /\ r.chan.hooked /\ @ = "DMA"
                                            THEN "MASKED" ELSE @]
             t == Moved(read, r.done)
         IN IF t.left = 0 THEN BlockEnds(t) ELSE t

\* DSP_DMA_CallBack, DMA_MASKED: the time allows for late units
CatchUp(s, late) ==
    IF s.left <= MinSize \/ (~s.autoinit /\ s.left <= DmaMin) THEN 0
    ELSE Least(Least(late, DmaMin), s.left - MinSize)
Masked(s, late) ==
    IF s.mode # "DMA" THEN s
    ELSE LET n == CatchUp(s, late)
         IN [(IF n = 0 THEN s ELSE GenerateDMASound(s, n)) EXCEPT !.mode = "MASKED"]

\* Faulty variant: nothing is queued for a card that plays in silence.
CheckDMAEnd_loud(s) ==
    IF s.left > 0 /\ s.left < DmaMin THEN PIC_AddEvent(s, End(s.left)) ELSE s

CheckDMAEnd(s) ==
    IF s.left = 0 THEN s
    ELSE IF ~Audible(s) THEN PIC_AddEvent(s, Silent(Least(s.left, DmaMin)))
    ELSE IF s.left < DmaMin THEN PIC_AddEvent(s, End(s.left))
    ELSE s

\* DSP_DMA_CallBack, DMA_UNMASKED (a masked card has nothing to fill up with)
Unmasked(s) ==
    IF s.mode = "MASKED" /\ s.dma # "NONE" THEN CheckDMAEnd([s EXCEPT !.mode = "DMA"])
    ELSE s

SetMask(s, link, mask, late) ==
    LET t == [s EXCEPT !.channels[link].masked = mask]
    IN IF link # t.chan \/ ~t.channels[link].hooked THEN t
       ELSE IF mask THEN Masked(t, late) ELSE Unmasked(t)

\* the card is masked when it registers
Register_Callback(s) ==
    LET t == [s EXCEPT !.channels[s.chan].hooked = TRUE]
    IN IF Current(t).masked THEN t ELSE Unmasked(t)

\* Faulty variant: a silent block is not cut at the end of the transfer.
DMA_Silent_Event_uncut(s, val, late) ==
    LET r == Read(Current(s), val)
        moved == [s EXCEPT !.channels[s.chan] = r.chan]
        read == IF r.masks /\ r.chan.hooked THEN Masked(moved, late) ELSE moved
        t == Moved(read, r.done)
        ended == IF t.left > 0 THEN t
                 ELSE IF t.autoinit THEN [RaiseEnd(t) EXCEPT !.left = t.autosize]
                 ELSE [RaiseEnd(t) EXCEPT !.mode = "NONE", !.dma = "NONE"]
    IN IF ended.left = 0 THEN ended
       ELSE PIC_AddEvent(ended, Silent(Least(ended.left, DmaMin)))

DMA_Silent_Event(s, val, late) ==
    LET r == Read(Current(s), Least(s.left, val))
        moved == [s EXCEPT !.channels[s.chan] = r.chan]
        read == IF r.masks /\ r.chan.hooked THEN Masked(moved, late) ELSE moved
        t == Moved(read, r.done)
        ended == IF t.left > 0 THEN t
                 ELSE IF t.autoinit THEN [RaiseEnd(t) EXCEPT !.left = t.autosize]
                 ELSE [RaiseEnd(t) EXCEPT !.mode = "NONE", !.dma = "NONE"]
    IN IF ended.left = 0 THEN ended
       ELSE PIC_AddEvent(ended, Silent(Least(ended.left, DmaMin)))

\* SBLASTER_CallBack, asked for len units
SBLASTER_CallBack(s, len) ==
    CASE s.mode = "DMA" -> GenerateDMASound(s, Least(len, s.left))
      [] s.mode = "DAC" -> [s EXCEPT !.mode = IF s.dac THEN @ ELSE "NONE", !.dac = FALSE]
      [] OTHER          -> s

\* sb.chan->FillUp: the mixer pulls up to twice
FillUp(s) ==
    IF ~Audible(s) THEN {s}
    ELSE LET Once(t) == {SBLASTER_CallBack(t, len) : len \in Pulls}
         IN {s} \cup Once(s) \cup UNION {Once(t) : t \in Once(s)}
DSP_ChangeMode(s, mode) ==
    {[t EXCEPT !.mode = mode] : t \in IF s.mode = mode THEN {s} ELSE FillUp(s)}

\* A single-cycle transfer that takes over from an autoinit one waits for the
\* end of its block.
DSP_DoDMATransfer(s, dma, autoinit) ==
    {LET quiet == [t EXCEPT !.pending8 = FALSE, !.pending16 = FALSE]
         sized == IF Transferring(quiet) /\ quiet.autoinit /\ ~autoinit THEN quiet
                  ELSE IF autoinit THEN [quiet EXCEPT !.left = quiet.autosize]
                  ELSE [quiet EXCEPT !.left = quiet.singlesize, !.singlesize = 0]
     IN Register_Callback(PIC_RemoveEvents(
            [sized EXCEPT !.autoinit = autoinit, !.dma = dma, !.mode = "MASKED"],
            "END_DMA_Event"))
     : t \in FillUp(s)}

DSP_PrepareDMA_Old(s, autoinit, length) ==
    DSP_DoDMATransfer([s EXCEPT !.singlesize = IF autoinit THEN @ ELSE length,
                                !.chan = 8], "8", autoinit)
DSP_PrepareDMA_New(s, dma, length, autoinit) ==
    DSP_DoDMATransfer([s EXCEPT !.singlesize = IF autoinit THEN @ ELSE length,
                                !.autosize = IF autoinit THEN length ELSE @,
                                !.chan = Link(dma)], dma, autoinit)

DSP_Reset(s) ==
    {[PIC_RemoveEvents(PIC_RemoveEvents(t, "DSP_FinishReset"), "END_DMA_Event")
        EXCEPT !.left = 0, !.singlesize = 0, !.autosize = 0, !.autoinit = FALSE,
               !.dma = "NONE", !.dac = FALSE, !.pending8 = FALSE, !.pending16 = FALSE]
     : t \in DSP_ChangeMode(s, "NONE")}

DSP_SetSpeaker(s, how) ==
    LET t == [s EXCEPT !.speaker = how]
    IN IF s.speaker = how \/ type = "sb16" \/ ~how THEN t
       ELSE CheckDMAEnd(PIC_RemoveEvents(t, "DMA_Silent_Event"))

-----------------------------------------------------------------------------
(* The initial state and the steps.                                        *)

NewCard == [mode |-> "NONE", dma |-> "NONE", chan |-> 0, left |-> 0,
            singlesize |-> 0, autosize |-> 0, autoinit |-> FALSE,
            pending8 |-> FALSE, pending16 |-> FALSE, speaker |-> FALSE,
            dac |-> FALSE, state |-> "NORMAL", queue |-> EmptyBag,
            channels |-> [link \in Links |-> NewChannel]]

Init ==
    /\ type \in Types
    /\ sb = NewCard
    /\ calls = 0 /\ inStep = 0 /\ dropped = FALSE

Guest == calls < MaxCalls /\ calls' = calls + 1
Becomes(s) == sb' = s /\ UNCHANGED type
Keeps == UNCHANGED <<inStep, dropped>>

\* a single-cycle channel that runs holds what is left of the transfer, with
\* what waits for the end of its block
Covers(s, link) ==
    \/ link # s.chan
    \/ s.channels[link].autoinit
    \/ ~s.autoinit /\ s.left + s.singlesize <= Left(s.channels[link])
\* no transfer moves the channel
Free(s, link) == link # s.chan \/ s.mode \in {"NONE", "DAC", "PAUSE"}
\* the channel has blocks of n units, some of them left
Programmed(s, link, n, autoinit) ==
    LET chan == s.channels[link]
    IN /\ Left(chan) % n = 0 /\ (chan.basecnt + 1) % n = 0
       /\ chan.currcnt <= chan.basecnt
       /\ autoinit => chan.autoinit
\* no transfer is under way, or a stopped single-cycle one is given up
Startable(s) ==
    s.mode \in {"NONE", "DAC"} \/ (s.mode \in {"PAUSE", "MASKED"} /\ ~s.autoinit)
TakesOver(s, link, autoinit) ==
    Transferring(s) /\ s.autoinit /\ ~autoinit /\ s.chan = link /\ Current(s).autoinit

\* the ports of the DMA controller
WriteChannel(link, n, autoinit) ==
    /\ Guest /\ Free(sb, link)
    /\ Becomes([sb EXCEPT !.channels[link] = WriteCount(WriteMode(@, autoinit), n - 1)])
    /\ inStep' = (IF link = sb.chan THEN 0 ELSE inStep) /\ UNCHANGED dropped
WriteMask(link, mask, late) ==
    /\ Guest /\ (mask \/ Covers(sb, link))
    /\ Becomes(SetMask(sb, link, mask, late))
    /\ Keeps

\* commands 14h (single-cycle) and 1Ch (autoinit), B0h-CFh
Starts(link, n, autoinit) ==
    /\ Guest
    /\ \/ /\ Startable(sb) /\ Programmed(sb, link, n, autoinit)
          /\ inStep' = (IF autoinit /\ sb.singlesize > 0 THEN 0 ELSE n)
       \/ TakesOver(sb, link, autoinit) /\ inStep' = 0
    /\ dropped' = FALSE
StartOld(n, autoinit) ==
    /\ autoinit => sb.autosize = n
    /\ Starts(8, n, autoinit)
    /\ \E s \in DSP_PrepareDMA_Old(sb, autoinit, n) : Becomes(s)
StartNew(dma, n, autoinit) ==
    /\ type = "sb16"
    /\ Starts(Link(dma), n, autoinit)
    /\ \E s \in DSP_PrepareDMA_New(sb, dma, n, autoinit) : Becomes(s)
\* 48h
SetBlockSize(n) ==
    /\ Guest
    /\ Becomes([sb EXCEPT !.autosize = n])
    /\ inStep' = (IF n = sb.autosize THEN inStep ELSE 0) /\ UNCHANGED dropped

\* Faulty variant: the end event stays in the queue.
Halt_keeps ==
    /\ Guest
    /\ Becomes([sb EXCEPT !.mode = "PAUSE"])
    /\ Keeps
\* D0h, D5h
Halt ==
    /\ Guest
    /\ Becomes(PIC_RemoveEvents([sb EXCEPT !.mode = "PAUSE"], "END_DMA_Event"))
    /\ Keeps
\* D4h, D6h
Continue ==
    /\ Guest
    /\ sb.chan # 0 => Covers(sb, sb.chan)
    /\ Becomes(IF sb.mode # "PAUSE" THEN sb
               ELSE IF sb.chan = 0 THEN [sb EXCEPT !.mode = "MASKED"]
               ELSE Register_Callback([sb EXCEPT !.mode = "MASKED"]))
    /\ Keeps
\* DAh, D9h
ExitAutoinit ==
    Guest /\ Becomes([sb EXCEPT !.autoinit = FALSE]) /\ Keeps
\* D1h, D3h
Speaker(how) ==
    /\ Guest
    /\ Becomes(DSP_SetSpeaker(sb, how))
    /\ dropped' = (~how /\ (dropped \/ (type = "pro" /\ sb.speaker /\ sb.mode = "DMA")))
    /\ UNCHANGED inStep
\* 10h
DirectDAC ==
    /\ Guest
    /\ \E s \in DSP_ChangeMode(sb, "DAC") : Becomes([s EXCEPT !.dac = TRUE])
    /\ Keeps

\* 80h and F2h
RequestIRQ ==
    Guest /\ Becomes(PIC_AddEvent(sb, RaiseIRQEvent)) /\ Keeps
\* F3h
TriggerIRQ16 ==
    Guest /\ type = "sb16" /\ Becomes(SB_RaiseIRQ(sb, 16)) /\ Keeps

\* the reset port, DSP_DoReset
ResetOn ==
    /\ Guest
    /\ IF sb.state = "RESET" THEN Becomes(sb)
       ELSE \E s \in DSP_Reset(sb) : Becomes([s EXCEPT !.state = "RESET"])
    /\ Keeps
ResetOff ==
    /\ Guest /\ sb.state = "RESET"
    /\ Becomes(PIC_AddEvent(PIC_RemoveEvents([sb EXCEPT !.state = "RESET_WAIT"],
                                             "DSP_FinishReset"), FinishReset))
    /\ Keeps

\* reads of the ports DSP_READ_STATUS and DSP_ACK_16BIT
ReadStatus == Guest /\ Becomes([sb EXCEPT !.pending8 = FALSE]) /\ Keeps
Ack16 == Guest /\ Becomes([sb EXCEPT !.pending16 = FALSE]) /\ Keeps

GuestStep ==
    \/ \E link \in Links, n \in Sizes, autoinit \in BOOLEAN :
           WriteChannel(link, n, autoinit)
    \/ \E link \in Links, mask \in BOOLEAN, late \in 0..DmaMin :
           WriteMask(link, mask, late)
    \/ \E n \in Sizes, autoinit \in BOOLEAN :
           \/ StartOld(n, autoinit)
           \/ \E dma \in {"8", "16"} : StartNew(dma, n, autoinit)
    \/ \E n \in Sizes : SetBlockSize(n)
    \/ \E how \in BOOLEAN : Speaker(how)
    \/ Halt \/ Continue \/ ExitAutoinit \/ DirectDAC \/ RequestIRQ \/ TriggerIRQ16
    \/ ResetOn \/ ResetOff \/ ReadStatus \/ Ack16

\* MIXER_Mix, for the channel of the card
Pull(len) ==
    Audible(sb) /\ Becomes(SBLASTER_CallBack(sb, len)) /\ Keeps /\ UNCHANGED calls

Fired(name) ==
    {[event |-> e, rest |-> [sb EXCEPT !.queue = @ (-) SetToBag({e})]]
     : e \in {x \in BagToSet(sb.queue) : x[1] = name}}
EndEvent ==
    /\ \E f \in Fired("END_DMA_Event") : Becomes(GenerateDMASound(f.rest, f.event[2]))
    /\ Keeps /\ UNCHANGED calls
SilentEvent(late) ==
    /\ \E f \in Fired("DMA_Silent_Event") :
           Becomes(DMA_Silent_Event(f.rest, f.event[2], late))
    /\ Keeps /\ UNCHANGED calls
IRQEvent ==
    /\ \E f \in Fired("DSP_RaiseIRQEvent") : Becomes(SB_RaiseIRQ(f.rest, 8))
    /\ Keeps /\ UNCHANGED calls
ResetEvent ==
    /\ \E f \in Fired("DSP_FinishReset") : Becomes([f.rest EXCEPT !.state = "NORMAL"])
    /\ Keeps /\ UNCHANGED calls

Mix == \E len \in Pulls : Pull(len)
Silence == \E late \in 0..DmaMin : SilentEvent(late)

Next == GuestStep \/ Mix \/ EndEvent \/ Silence \/ IRQEvent \/ ResetEvent

Spec == Init /\ [][Next]_vars

\* The mixer pulls every millisecond and a queued event comes due: PIC_RunQueue
\* and TIMER_AddTick run as long as the emulator does.
FairSpec == Spec /\ WF_vars(Mix) /\ WF_vars(EndEvent) /\ WF_vars(Silence)

-----------------------------------------------------------------------------
(* Properties.                                                             *)

TypeOK ==
    /\ sb.mode \in Modes /\ sb.dma \in Dmas
    /\ sb.chan \in Links \cup {0} /\ (sb.chan = 0 => sb.dma = "NONE")
    /\ sb.left \in 0..(WordSize - 1)
    /\ {sb.singlesize, sb.autosize} \subseteq {0} \cup Sizes
    /\ {sb.autoinit, sb.pending8, sb.pending16, sb.speaker, sb.dac} \subseteq BOOLEAN
    /\ sb.state \in {"NORMAL", "RESET", "RESET_WAIT"}
    /\ sb.channels \in [Links -> Channel]
    /\ IsABag(sb.queue)
    /\ inStep \in {0} \cup Sizes

\* left counts down within a block and is never taken below zero, whatever stale
\* end and silence events are still queued when a transfer is halted, masked,
\* replaced or reset: it stays at most the largest block the guest asked for.
LeftInCycle == sb.left = 0 \/ \E n \in Sizes : sb.left <= n

\* A transfer started on a channel of as many blocks ends each block where the
\* channel does: what the card still wants and what the channel still has differ
\* by whole blocks, over pulls, events, silence, masks that catch up, halts and
\* terminal counts.  A program that refills half of its buffer at each interrupt
\* relies on it.
InStep ==
    inStep > 0 /\ Transferring(sb) /\ sb.dma # "NONE"
        => (Left(Current(sb)) - sb.left) % inStep = 0

\* Halted with D0h, a Sound Blaster 16 does not move until the guest acts.
PauseHolds ==
    [][type = "sb16" /\ sb.mode = "PAUSE" /\ calls' = calls => sb'.left = sb.left]_vars

\* A running transfer comes to an end, or its block to an interrupt, in sound or
\* in silence, unless the guest turned the speaker off while it played.
TransferEnds ==
    (sb.mode = "DMA" /\ sb.left > 0)
        ~> (sb.mode # "DMA" \/ sb.pending8 \/ sb.pending16 \/ dropped)
=============================================================================
