-------------------------------- MODULE Dma --------------------------------
(***************************************************************************)
(* One channel of the DMA controllers of dosbox/src/hardware/dma.cpp, as   *)
(* its device and the guest see it: the mask, the mode's autoinit bit, the *)
(* base and current counts and the registered callback.                    *)
(*                                                                         *)
(* A count n stands for n + 1 units, as on the chip.  CountMax is the      *)
(* scaled 0xffff, the current count after terminal count.  Addresses,      *)
(* pages, the flip-flop of the byte-wide registers and the data moved are  *)
(* left out: the guest writes both halves of a count together.             *)
(***************************************************************************)
EXTENDS Integers

CONSTANT CountMax

ASSUME DmaAssumption == CountMax \in Nat \ {0}

Counts == 0..CountMax
Channel == [masked : BOOLEAN, autoinit : BOOLEAN, hooked : BOOLEAN,
            basecnt : Counts, currcnt : Counts]

\* DmaChannel::DmaChannel
NewChannel == [masked |-> TRUE, autoinit |-> FALSE, hooked |-> FALSE,
               basecnt |-> 0, currcnt |-> 0]

Left(chan) == chan.currcnt + 1

WriteMode(chan, autoinit) == [chan EXCEPT !.autoinit = autoinit]
WriteCount(chan, n) == [chan EXCEPT !.basecnt = n, !.currcnt = n]

\* Faulty variant: terminal count leaves the current count below zero.
Spent_underflow(chan) == [chan EXCEPT !.currcnt = -1, !.masked = TRUE]

\* terminal count without autoinit
Spent(chan) == [chan EXCEPT !.currcnt = CountMax, !.masked = TRUE]

\* Faulty variant: the block starts again one unit in.
Restarted_late(chan, past) ==
    [chan EXCEPT !.currcnt = chan.basecnt - ((past + 1) % (chan.basecnt + 1))]

\* terminal count with autoinit, met again as often as past units take
Restarted(chan, past) ==
    [chan EXCEPT !.currcnt = chan.basecnt - (past % (chan.basecnt + 1))]

\* the channel after want units, how many it moved, and whether terminal
\* count masked it
Read(chan, want) ==
    IF want < Left(chan)
        THEN [chan |-> [chan EXCEPT !.currcnt = @ - want], done |-> want, masks |-> FALSE]
    ELSE IF chan.autoinit
        THEN [chan |-> Restarted(chan, want - Left(chan)), done |-> want, masks |-> FALSE]
    ELSE [chan |-> Spent(chan), done |-> Left(chan), masks |-> TRUE]
=============================================================================
