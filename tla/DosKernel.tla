----------------------------- MODULE DosKernel -----------------------------
(***************************************************************************)
(* Processes of the emulated DOS (dosbox/src/dos/dos_execute.cpp): a       *)
(* program is loaded by EXEC, given memory (DosMemory) and the handles it  *)
(* inherits (DosFiles), and ends or stays resident; the shell runs         *)
(* programs for the user and for the commands of the user interface        *)
(* (CommandBridge).                                                        *)
(*                                                                         *)
(* A process is named by the segment of its PSP.  Everything runs on the   *)
(* emulator thread, one call of interrupt 21h at a time.  A program        *)
(* changes only its own blocks, and does not free that of its own PSP.     *)
(* PSPs a program builds by hand (functions 26h, 50h and 55h) and programs *)
(* loaded without being run or as overlays are left out.                   *)
(***************************************************************************)
EXTENDS DosMemory, DosFiles, CommandBridge

CONSTANTS
    Shell,       \* the PSP of the shell, outside the chain
    Sizes,       \* sizes programs ask for
    Strategies,  \* values programs set memAllocStrategy to
    Programs,    \* executables: records of minsize and maxsize, in paragraphs
    EnvSize,     \* paragraphs of an environment block
    Workloads,   \* which calls the programs of a behaviour make
    MaxCalls,    \* bound: calls of programs and lines of batch files
    MaxProcs,    \* bound: processes, resident ones too
    MaxLost      \* bound: lost references of a file

ASSUME KernelAssumption ==
    /\ Shell \in Nat /\ MCB_DOS < Shell /\ Shell < FirstMCB
    /\ Sizes \subseteq Nat
    /\ Strategies \subseteq [fit : Fits, high : Highs]
    /\ Programs \subseteq [minsize : Nat \ {0}, maxsize : Nat \ {0}]
    /\ \A prog \in Programs : prog.minsize <= prog.maxsize
    /\ {EnvSize, MaxCalls, MaxProcs, MaxLost} \subseteq Nat
    /\ Workloads \subseteq {"memory", "files", "shell"}

VARIABLES
    psp,         \* dos.psp(): the process that runs
    parents,     \* the parent of each process that has not ended
    resident,    \* processes that ended and stayed resident
    fatal,       \* left through E_Exit("DOS:Exec error in memory")
    workload,
    calls        \* calls made by programs and lines read of batch files
processVars == <<psp, parents, resident, fatal>>
vars == <<memoryVars, fileVars, bridgeVars, processVars, workload, calls>>

Running == DOMAIN parents

-----------------------------------------------------------------------------
(* EXEC and the end of a program.                                          *)

\* the process at the header head has been loaded, with its environment at env
\* (SetupPSP); its parent is the caller
Start(chain, env, head) ==
    LET child == head + 1
    IN  /\ mcb' = Own(Own(chain, head, child), env, child)
        /\ InheritFiles(psp, child)
        /\ parents' = [p \in Running \cup {child} |-> IF p = child THEN psp ELSE parents[p]]
        /\ psp' = child
        /\ UNCHANGED <<resident, fatal>>

\* Faulty variant: the environment stays allocated when the program does not fit.
Load_leaks(prog) ==
    LET env == Allocate(mcb, strategy, EnvSize, psp)
        maxfree == BigSize(Compress(env.mcb), strategy)
        size == IF maxfree < prog.maxsize THEN maxfree ELSE prog.maxsize
        block == Allocate(Compress(env.mcb), strategy, size, psp)
    IN  IF ~env.ok \/ maxfree < prog.minsize
          THEN mcb' = env.mcb /\ UNCHANGED <<processVars, fileVars>>
        ELSE IF ~block.ok
          THEN fatal' = TRUE /\ UNCHANGED <<mcb, psp, parents, resident, fileVars>>
          ELSE Start(block.mcb, env.head, block.head)

\* the environment, then a call that must fail to learn the largest free
\* block, then the program
Load(prog) ==
    LET env == Allocate(mcb, strategy, EnvSize, psp)
        free == Compress(env.mcb)
        maxfree == BigSize(free, strategy)
        size == IF maxfree < prog.maxsize THEN maxfree ELSE prog.maxsize
        block == Allocate(free, strategy, size, psp)
    IN  IF ~env.ok
          THEN mcb' = env.mcb /\ UNCHANGED <<processVars, fileVars>>
        ELSE IF maxfree < prog.minsize
          THEN mcb' = Own(free, env.head, MCB_FREE) /\ UNCHANGED <<processVars, fileVars>>
        ELSE IF ~block.ok
          THEN fatal' = TRUE /\ UNCHANGED <<mcb, psp, parents, resident, fileVars>>
          ELSE Start(block.mcb, env.head, block.head)

\* the program's file is open while it is loaded
DOS_Execute(prog) ==
    /\ Cardinality(Running \cup resident) < MaxProcs
    /\ IF CanOpen(psp) THEN Load(prog)
       ELSE UNCHANGED <<mcb, processVars, fileVars>>
    /\ UNCHANGED <<linked, strategy>>

\* the process leaves the tree; its parent runs again
Leave ==
    /\ psp' = parents[psp]
    /\ parents' = [p \in Running \ {psp} |-> parents[p]]
    /\ UNCHANGED fatal

\* DOS_Terminate does nothing for a process that is its own parent
Terminate ==
    /\ parents[psp] # psp
    /\ CloseFiles(psp)
    /\ mcb' = FreeProcess(mcb, psp)
    /\ Leave
    /\ UNCHANGED <<linked, strategy, resident>>

\* function 31h: n paragraphs stay, or all the block can have, and the files
\* stay open
TerminateStayResident(n) ==
    /\ parents[psp] # psp
    /\ mcb' = Resize(mcb, psp - 1, n, psp)
    /\ resident' = resident \cup {psp}
    /\ Leave
    /\ UNCHANGED <<linked, strategy, fileVars>>

\* interrupt 27h does so only if they fit
Interrupt27(n) ==
    /\ parents[psp] # psp
    /\ IF Resizes(mcb, psp - 1, n)
         THEN TerminateStayResident(n)
         ELSE /\ mcb' = Resize(mcb, psp - 1, n, psp)
              /\ UNCHANGED <<linked, strategy, fileVars, processVars>>

-----------------------------------------------------------------------------
(* What programs do.                                                       *)

OwnBlocks == {h \in Heads(mcb) : mcb[h].psp = psp}

MemoryCall ==
    /\ \/ \E n \in Sizes : DOS_AllocateMemory(psp, n)
       \/ \E h \in OwnBlocks, n \in Sizes : DOS_ResizeMemory(psp, h, n)
       \/ \E h \in OwnBlocks \ {psp - 1} : DOS_FreeMemory(h)
       \/ \E strat \in Strategies : DOS_SetMemAllocStrategy(strat)
       \/ \E on \in BOOLEAN : DOS_LinkUMBsToMemChain(on)
    /\ UNCHANGED <<processVars, fileVars>>

FileCall ==
    /\ \/ \E inherit \in BOOLEAN : DOS_OpenFile(psp, inherit)
       \/ \E i \in DOMAIN tables[psp] : DOS_CloseFile(psp, i) \/ DOS_DuplicateEntry(psp, i)
       \/ \E i \in DOMAIN tables[psp], j \in DOMAIN tables[psp] \cup {Closed} :
             DOS_ForceDuplicateEntry(psp, i, j)
       \/ \E n \in LongTables \cup {TableSize} : SetNumFiles(psp, n)
    /\ \A f \in Entries : lost'[f] <= MaxLost
    /\ UNCHANGED <<processVars, memoryVars>>

Program == ~fatal /\ psp # Shell /\ UNCHANGED workload
Counted == calls < MaxCalls /\ calls' = calls + 1

Call ==
    /\ Program /\ Counted
    /\ \/ workload = "memory" /\ MemoryCall
       \/ workload = "files" /\ FileCall
    /\ UNCHANGED bridgeVars

\* a program runs another, which the shell does only from its loop
ProgramExecutes ==
    /\ Program /\ Counted
    /\ \E prog \in Programs : DOS_Execute(prog)
    /\ UNCHANGED bridgeVars

ProgramEnds ==
    /\ Program
    /\ Terminate
    /\ UNCHANGED <<bridgeVars, calls>>

ProgramStays ==
    /\ Program /\ Counted
    /\ \E n \in Sizes : TerminateStayResident(n) \/ Interrupt27(n)
    /\ UNCHANGED bridgeVars

\* or a command of the shell does (PAUSE, CHOICE)
ProgramReadsKey ==
    /\ ~fatal /\ (psp # Shell \/ at # "input")
    /\ SwallowReturn
    /\ UNCHANGED <<memoryVars, fileVars, processVars, workload, calls>>

-----------------------------------------------------------------------------
(* The shell.                                                              *)

\* ParseLine, but for bf: a command of the shell itself, or a program; a batch
\* file runs nothing yet, but must open (the emulator ends, in an E_Exit that is
\* no step here, if it does not)
ParseLine(line) ==
    \/ /\ line # "command" => CanOpen(Shell)
       /\ UNCHANGED <<memoryVars, fileVars, processVars>>
    \/ line = "command" /\ \E prog \in Programs : DOS_Execute(prog)

Shells == ~fatal /\ psp = Shell /\ UNCHANGED workload
ShellAlone == Shells /\ UNCHANGED calls

ShellGets == ShellAlone /\ \E line \in Lines : GetCommand(line) /\ ParseLine(line)
ShellReads(own) == ShellAlone /\ \E line \in Lines : InputCommand(own, line) /\ ParseLine(line)

\* the batch file is open while a line of it is read
ShellReadsBatch ==
    /\ Shells /\ Counted /\ CanOpen(Shell)
    /\ \E line \in Lines : ReadLine(line) /\ ParseLine(line)

ShellMoves ==
    /\ ShellAlone
    /\ EndAutomount \/ EndBatch \/ NoBatch \/ Prompt
    /\ UNCHANGED <<memoryVars, fileVars, processVars>>

UserInterface ==
    /\ workload = "shell"
    /\ sendCommand \/ sendReturn
    /\ UNCHANGED <<memoryVars, fileVars, processVars, workload, calls>>

Init ==
    /\ MemoryInit
    /\ FilesInit(Shell)
    /\ BridgeInit
    /\ psp = Shell
    /\ parents = [p \in {Shell} |-> Shell]
    /\ resident = {}
    /\ fatal = FALSE
    /\ workload \in Workloads
    /\ calls = 0

Next ==
    \/ Call
    \/ ProgramExecutes
    \/ ProgramEnds
    \/ ProgramStays
    \/ ProgramReadsKey
    \/ ShellGets
    \/ \E own \in BOOLEAN : ShellReads(own)
    \/ ShellReadsBatch
    \/ ShellMoves
    \/ UserInterface

Spec == Init /\ [][Next]_vars

(* The shell goes on, to the end of its batch files; the user interface's  *)
(* thread finishes what it began; and programs end, which the commands     *)
(* behind them wait for.                                                   *)
Fairness ==
    /\ WF_vars(ShellGets) /\ WF_vars(ShellMoves) /\ WF_vars(ShellReads(FALSE))
    /\ WF_vars(UserInterface /\ sending)
    /\ WF_vars(ProgramEnds)

FairSpec == Spec /\ Fairness

-----------------------------------------------------------------------------
(* Properties.                                                             *)

Segments == FirstMCB..(Top - 1)
Fields == [type : {"M", "Z"}, psp : Nat, size : Nat]

TypeOK ==
    /\ Heads(mcb) \subseteq Segments
    /\ mcb \in [Heads(mcb) -> Fields]
    /\ linked \in BOOLEAN
    /\ strategy \in [fit : Fits, high : Highs]
    /\ Files \in [Entries -> [refs : Nat, open : BOOLEAN, inherit : BOOLEAN]]
    /\ DOMAIN tables = Running \cup resident
    /\ \A p \in DOMAIN tables : \E n \in {TableSize} \cup {m + 2 : m \in LongTables} \cup LongTables :
          tables[p] \in [0..(n - 1) -> Entries \cup {Closed}]
    /\ lost \in [Entries -> Nat]
    /\ psp \in Running /\ parents \in [Running -> Running]
    /\ fatal \in BOOLEAN /\ ready \in BOOLEAN /\ sending \in BOOLEAN
    /\ at \in {"automount", "loop", "drain", "input"}
    /\ bf \in Seq({"unread", "begun"})
    /\ {returns, accepted, taken} \subseteq Nat
    /\ commandList \in Seq(Nat)

\* The headers form one unbroken chain: each block ends where the next begins,
\* the blocks cover all memory from FirstMCB to Top and do not overlap, and
\* exactly the ends of the two areas are marked as ends, whatever calls were
\* made in whatever order.
Tiles(c, link) ==
    /\ {FirstMCB, UmbStart} \subseteq Heads(c)
    /\ \A h \in Heads(c) :
          /\ EndOf(c, h) = Top \/ EndOf(c, h) \in Heads(c)
          /\ \A g \in Heads(c) : h < g => EndOf(c, h) <= g
          /\ c[h].type = "Z" <=> EndOf(c, h) = Top \/ (EndOf(c, h) = UmbStart /\ ~link)
Tiling == Tiles(mcb, linked)

\* The closed form of DOS_CompressMemory that the other operators use is what its
\* loop computes, on every chain programs can bring about.
CompressIsLoop == Compress(mcb) = CompressLoop(mcb)

\* Memory belongs to DOS or to a program that can still give it back: what a
\* program held is free once it has ended, in upper memory too, and an EXEC that
\* fails leaves nothing to the shell, which would never give it back.
OwnersLive ==
    \A h \in Heads(mcb) :
        mcb[h].psp \in {MCB_FREE, MCB_DOS} \cup ((Running \cup resident) \ {Shell})

\* The block of a process's PSP is its own as long as the process is there: EXEC
\* and its environment never put a program over another's PSP.
PspKept ==
    \A p \in (Running \cup resident) \ {Shell} : p - 1 \in Heads(mcb) /\ mcb[p - 1].psp = p

\* EXEC asks for as much as the failing call reported, and gets it.
NoExecPanic == ~fatal

\* A call of one process takes no paragraph from another.
Paragraphs(c, p) == UNION {(h + 1)..(EndOf(c, h) - 1) : h \in {g \in Heads(c) : c[g].psp = p}}
NoTheft ==
    [][\A p \in ((Running \cup resident) \ {psp}) \cup {MCB_DOS} :
          Paragraphs(mcb, p) \subseteq Paragraphs(mcb', p)]_vars

\* The chain of blocks implements an allocator of paragraphs to processes: whatever
\* is allocated, joined, resized, freed or handed to a program that starts, what one
\* step changes is the memory of one process, and what that gains was nobody's.
Processes == Nat \ {MCB_FREE}
Holdings ==
    UNION {{mcb[h].psp} \X ((h + 1)..(EndOf(mcb, h) - 1)) :
              h \in {g \in Heads(mcb) : ~IsFree(mcb, g)}}
Memory == INSTANCE Allocator WITH Users <- Processes, Units <- Segments, held <- Holdings
ImplementsAllocator == Memory!Spec
=============================================================================
