----------------------------- MODULE DosMemory -----------------------------
(***************************************************************************)
(* The chain of memory control blocks of dosbox/src/dos/dos_memory.cpp:    *)
(* conventional memory from FirstMCB, upper memory from UmbStart, linked   *)
(* into one chain or not.                                                  *)
(*                                                                         *)
(* mcb maps the segment of each header of the chain to its fields.  The    *)
(* headers that joining leaves behind inside a larger block are not kept:  *)
(* the chain never reaches them, and a new header is written in full.      *)
(* The emulated machine has upper memory (umb=true, the default), no       *)
(* Tandy or PCjr video memory in the way, and program names are left out.  *)
(***************************************************************************)
EXTENDS Integers

CONSTANTS
    FirstMCB,    \* dos.firstMCB
    UmbStart,    \* UMB_START_SEG, the block that covers the video memory
    Top          \* the first segment after upper memory

MCB_FREE == 0
MCB_DOS == 8
Fits == {"first", "best", "last"}    \* memAllocStrategy & 3Fh
Highs == {"low", "only", "before"}   \* neither bit, bit 6, bit 7

ASSUME MemoryAssumption ==
    /\ {FirstMCB, UmbStart, Top} \subseteq Nat
    /\ MCB_DOS < FirstMCB /\ FirstMCB + 6 < UmbStart /\ UmbStart + 2 < Top

VARIABLES
    mcb,         \* the headers of both chains
    linked,      \* dos_infoblock: upper memory is linked to the chain
    strategy     \* memAllocStrategy
memoryVars == <<mcb, linked, strategy>>

-----------------------------------------------------------------------------
(* A chain c: what the headers say.                                        *)

Heads(c) == DOMAIN c
EndOf(c, h) == h + c[h].size + 1
IsFree(c, h) == c[h].psp = MCB_FREE

\* the headers met from start on, up to the first that ends a chain
Chain(c, start) ==
    {h \in Heads(c) : /\ start <= h
                      /\ \A g \in Heads(c) : start <= g /\ g < h => c[g].type = "M"}

\* the last of the free blocks that follow one another from h on
RunEnd(c, h) ==
    CHOOSE e \in Chain(c, h) :
        /\ \A g \in Chain(c, h) : g <= e => IsFree(c, g)
        /\ \A g \in Chain(c, h) : g = EndOf(c, e) => ~IsFree(c, g)

\* free blocks of the first chain that follow a free one
Joined(c) ==
    {h \in Chain(c, FirstMCB) :
        /\ IsFree(c, h)
        /\ \E g \in Chain(c, FirstMCB) : IsFree(c, g) /\ EndOf(c, g) = h}

-----------------------------------------------------------------------------
(* What the functions do to a chain.                                       *)

Own(c, h, psp) == [c EXCEPT ![h].psp = psp]

\* Faulty variant: the block cut off loses the header's paragraph.
SplitAt_short(c, h, p) ==
    [x \in Heads(c) \cup {p} |->
        IF x = h THEN [c[h] EXCEPT !.type = "M", !.size = p - h - 1]
        ELSE IF x = p THEN [type |-> c[h].type, psp |-> MCB_FREE,
                            size |-> EndOf(c, h) - p - 2]
        ELSE c[x]]

\* a free block is cut off the block at h, with its header at p
SplitAt(c, h, p) ==
    [x \in Heads(c) \cup {p} |->
        IF x = h THEN [c[h] EXCEPT !.type = "M", !.size = p - h - 1]
        ELSE IF x = p THEN [type |-> c[h].type, psp |-> MCB_FREE,
                            size |-> EndOf(c, h) - p - 1]
        ELSE c[x]]

\* the block after h becomes part of it
JoinNext(c, h) ==
    LET next == EndOf(c, h)
    IN  [x \in Heads(c) \ {next} |->
            IF x = h THEN [c[h] EXCEPT !.type = c[next].type,
                                       !.size = @ + c[next].size + 1]
            ELSE c[x]]

\* Faulty variant: a joined block keeps the type of its first part.
Compress_keeps_type(c) ==
    [h \in Heads(c) \ Joined(c) |->
        IF h \in Chain(c, FirstMCB) /\ IsFree(c, h)
          THEN [c[h] EXCEPT !.size = EndOf(c, RunEnd(c, h)) - h - 1]
          ELSE c[h]]

\* DOS_CompressMemory, once its loop is done
Compress(c) ==
    [h \in Heads(c) \ Joined(c) |->
        IF h \in Chain(c, FirstMCB) /\ IsFree(c, h)
          THEN [c[h] EXCEPT !.size = EndOf(c, RunEnd(c, h)) - h - 1,
                            !.type = c[RunEnd(c, h)].type]
          ELSE c[h]]

\* one turn of its loop, which is at the block s.at; nothing once it is done
Turn(s) ==
    LET next == EndOf(s.mcb, s.at)
    IN  IF s.mcb[s.at].type = "Z" THEN s
        ELSE IF IsFree(s.mcb, s.at) /\ IsFree(s.mcb, next)
          THEN [mcb |-> JoinNext(s.mcb, s.at), at |-> s.at]
          ELSE [mcb |-> s.mcb, at |-> next]

\* the loop: each turn takes in at least one paragraph more, so Top turns do
CompressLoop(c) ==
    LET turn[k \in 0..Top] ==
            IF k = 0 THEN [mcb |-> c, at |-> FirstMCB] ELSE Turn(turn[k - 1])
    IN  turn[Top].mcb

-----------------------------------------------------------------------------
(* DOS_AllocateMemory.  It visits the chain from upper memory, if the      *)
(* strategy asks for it, and with bit 7 then from FirstMCB; a visit is a   *)
(* pair of the pass and the header.                                        *)

Visits(c, strat) ==
    IF strat.high = "low" THEN {1} \X Chain(c, FirstMCB)
    ELSE ({1} \X Chain(c, UmbStart))
         \cup (IF strat.high = "before" THEN {2} \X Chain(c, FirstMCB) ELSE {})

Sooner(v, w) == v[1] < w[1] \/ (v[1] = w[1] /\ v[2] < w[2])

Candidates(c, strat, n) ==
    {v \in Visits(c, strat) : IsFree(c, v[2]) /\ c[v[2]].size >= n}

Found(c, strat, n) ==
    LET cand == Candidates(c, strat, n)
    IN  CASE strat.fit = "first" ->
               CHOOSE v \in cand : \A w \in cand \ {v} : Sooner(v, w)
          [] strat.fit = "best" ->
               CHOOSE v \in cand : \A w \in cand \ {v} :
                   \/ c[v[2]].size < c[w[2]].size
                   \/ c[v[2]].size = c[w[2]].size /\ Sooner(v, w)
          [] strat.fit = "last" ->
               CHOOSE v \in cand : \A w \in cand \ {v} : Sooner(w, v)

\* Faulty variant: the largest free block anywhere, searched or not.
BigSize_anywhere(c, strat) ==
    CHOOSE n \in 0..Top : \E h \in Heads(c) :
        /\ IsFree(c, h) /\ c[h].size = n
        /\ \A g \in Heads(c) : IsFree(c, g) => c[g].size <= n

\* what a call that finds nothing reports; 0 if no block is free
BigSize(c, strat) ==
    LET sizes == {0} \cup {c[v[2]].size : v \in {w \in Visits(c, strat) : IsFree(c, w[2])}}
    IN  CHOOSE n \in sizes : \A m \in sizes : m <= n

\* n paragraphs of the free block h, at its end for last fit
Take(c, strat, h, n, psp) ==
    IF c[h].size = n THEN Own(c, h, psp)
    ELSE IF strat.fit = "last"
      THEN Own(SplitAt(c, h, h + c[h].size - n), h + c[h].size - n, psp)
      ELSE Own(SplitAt(c, h, h + n + 1), h, psp)

\* the result: whether it succeeds, the chain, the header of the block
Allocate(chain, strat, n, psp) ==
    LET c == Compress(chain)
    IN  IF Candidates(c, strat, n) = {}
          THEN [ok |-> FALSE, mcb |-> c, head |-> Top]
          ELSE LET h == Found(c, strat, n)[2]
               IN  [ok |-> TRUE, mcb |-> Take(c, strat, h, n, psp),
                    head |-> IF strat.fit = "last" THEN h + c[h].size - n ELSE h]

-----------------------------------------------------------------------------
(* The other functions.                                                    *)

\* Faulty variant: a block grows over the next one whether that is free or not.
Resize_grabs(chain, h, n, psp) ==
    LET c == Compress(chain)
        grown == IF c[h].type = "M" THEN JoinNext(c, h) ELSE c
    IN  IF n = c[h].size THEN c
        ELSE IF n < c[h].size
          THEN Compress(Own(SplitAt(c, h, h + n + 1), h, psp))
        ELSE IF n < grown[h].size
          THEN Own(SplitAt(grown, h, h + n + 1), h, psp)
        ELSE Own(grown, h, psp)

\* DOS_ResizeMemory on the block at h, for psp: what does not fit is taken
\* as far as it goes.
Resize(chain, h, n, psp) ==
    LET c == Compress(chain)
        grown == IF c[h].type = "M" /\ IsFree(c, EndOf(c, h))
                   THEN JoinNext(c, h) ELSE c
    IN  IF n = c[h].size THEN c
        ELSE IF n < c[h].size
          THEN Compress(Own(SplitAt(c, h, h + n + 1), h, psp))
        ELSE IF n < grown[h].size
          THEN Own(SplitAt(grown, h, h + n + 1), h, psp)
        ELSE Own(grown, h, psp)

\* whether Resize returns true
Resizes(chain, h, n) ==
    LET c == Compress(chain)
        room == IF c[h].type = "M" /\ IsFree(c, EndOf(c, h))
                  THEN c[EndOf(c, h)].size + 1 ELSE 0
    IN  n <= c[h].size + room

\* Faulty variant: only the chain from FirstMCB is searched.
FreeProcess_low(c, psp) ==
    Compress([h \in Heads(c) |->
        IF c[h].psp = psp /\ h \in Chain(c, FirstMCB) THEN [c[h] EXCEPT !.psp = MCB_FREE]
        ELSE c[h]])

\* DOS_FreeProcessMemory, which searches both chains
FreeProcess(c, psp) ==
    Compress([h \in Heads(c) |->
        IF c[h].psp = psp THEN [c[h] EXCEPT !.psp = MCB_FREE] ELSE c[h]])

\* DOS_LinkUMBsToMemChain: the last block before upper memory ends the chain
\* or not
LinkUMBs(c, on) ==
    [h \in Heads(c) |->
        IF EndOf(c, h) = UmbStart THEN [c[h] EXCEPT !.type = IF on THEN "M" ELSE "Z"]
        ELSE c[h]]

-----------------------------------------------------------------------------
(* The functions of interrupt 21h, called by the process psp.              *)

DOS_AllocateMemory(psp, n) ==
    /\ mcb' = Allocate(mcb, strategy, n, psp).mcb
    /\ UNCHANGED <<linked, strategy>>

DOS_ResizeMemory(psp, h, n) ==
    /\ mcb' = Resize(mcb, h, n, psp)
    /\ UNCHANGED <<linked, strategy>>

\* no compression here
DOS_FreeMemory(h) ==
    /\ mcb' = Own(mcb, h, MCB_FREE)
    /\ UNCHANGED <<linked, strategy>>

DOS_SetMemAllocStrategy(strat) ==
    /\ strategy' = strat
    /\ UNCHANGED <<mcb, linked>>

DOS_LinkUMBsToMemChain(on) ==
    /\ linked' = on
    /\ mcb' = IF on = linked THEN mcb ELSE LinkUMBs(mcb, on)
    /\ UNCHANGED strategy

\* the headers that DOS_SetupMemory and DOS_BuildUMBChain leave, sizes
\* scaled down: a block of DOS, a free one locked in by another, free memory;
\* the block that covers the video memory, free upper memory
Free == FirstMCB + 6
MemoryInit ==
    /\ mcb = [h \in {FirstMCB, FirstMCB + 2, FirstMCB + 4, Free, UmbStart, UmbStart + 2} |->
                [type |-> IF h \in {Free, UmbStart + 2} THEN "Z" ELSE "M",
                 psp  |-> IF h \in {FirstMCB, FirstMCB + 4, UmbStart}
                            THEN MCB_DOS ELSE MCB_FREE,
                 size |-> CASE h = Free         -> UmbStart - Free - 1
                            [] h = UmbStart + 2 -> Top - UmbStart - 3
                            [] OTHER            -> 1]]
    /\ linked = FALSE
    /\ strategy = [fit |-> "first", high |-> "low"]
=============================================================================
