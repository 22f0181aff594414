-------------------------- MODULE DosKernelProofs --------------------------
(***************************************************************************)
(* Proofs about the kernel: memory stays tiled, belongs to processes that  *)
(* are there, and a call of one process takes nothing from another; an     *)
(* entry of Files counts the handles that name it, in whichever tables     *)
(* they are.  For every layout of memory, every set of programs and any    *)
(* number of processes, files and calls.                                   *)
(*                                                                         *)
(* The invariant of memory ties the chain of blocks to the tree of         *)
(* processes: which block belongs to whom, and that a process that ends or *)
(* stays resident is nobody's parent.  New processes get an identity that  *)
(* no other has because the identity is an address, and DosMemoryProofs    *)
(* shows that the address of a new block is that of no allocated one.      *)
(*                                                                         *)
(* The invariant of files has handles to count.  A step changes the table  *)
(* of at most one process.  So the handles that name a file are counted in *)
(* two parts, those of that process and those of the others, and a step is *)
(* right when the count it keeps in Files moves by as much as the first    *)
(* part and the lost references do.                                        *)
(***************************************************************************)
EXTENDS DosMemoryProofs, SequenceTheorems, FiniteSetTheorems

Procs == Running \cup resident

\* Memory is well-formed, and so is the strategy.
MemoryInv ==
    /\ linked \in BOOLEAN
    /\ strategy \in Strategy
    /\ Chained(mcb, linked)

\* The processes that have not ended: each but the shell has a parent among
\* them, no two have the same one, and the one that runs is nobody's.
TreeInv ==
    /\ Running \cap resident = {}
    /\ \A p \in Procs : p \in Nat /\ MCB_DOS < p
    /\ Shell \in Running /\ psp \in Running
    /\ parents \in [Running -> Running]
    /\ parents[Shell] = Shell
    /\ \A p \in Running \ {Shell} : parents[p] # psp
    /\ \A p, q \in Running \ {Shell} : parents[p] = parents[q] => p = q

KernelInv == MemoryInv /\ TreeInv /\ OwnersLive /\ PspKept /\ NoExecPanic

\* The blocks of others: not free, and not those of the process that runs.
Foreign(c, p, h) == PspAt(c, h) # MCB_FREE /\ PspAt(c, h) # p

\* The process that runs leaves the blocks of others as they are.
Respects ==
    \A h \in Heads(mcb) : Foreign(mcb, psp, h) =>
        h \in Heads(mcb') /\ PspAt(mcb', h) = PspAt(mcb, h) /\ SizeAt(mcb', h) = SizeAt(mcb, h)

\* A step may change the blocks at S: they are free or the running process's.
May(S) == \A h \in S : h \in Heads(mcb) => ~Foreign(mcb, psp, h)

\* A step is about the blocks of u: another's were its before, and still are.
Alone(u) ==
    /\ \A h \in Heads(mcb) : Foreign(mcb, u, h) =>
          h \in Heads(mcb') /\ PspAt(mcb', h) = PspAt(mcb, h) /\ SizeAt(mcb', h) = SizeAt(mcb, h)
    /\ \A h \in Heads(mcb') : Foreign(mcb', u, h) =>
          h \in Heads(mcb) /\ PspAt(mcb', h) = PspAt(mcb, h)

\* A step is about the blocks of one process: the one that runs, or the one it starts.
OneUser == \E u \in Processes : Alone(u)

-----------------------------------------------------------------------------
(* What steps of any kind preserve.                                        *)

\* A step is about u if the blocks it changed were free or of u, and are.
LEMMA AloneIs ==
    ASSUME NEW S, Same(mcb, mcb', S), NEW u \in Processes,
           \A h \in S : h \in Heads(mcb) => PspAt(mcb, h) \in {MCB_FREE, u},
           \A h \in S : h \in Heads(mcb') => PspAt(mcb', h) \in {MCB_FREE, u}
    PROVE  OneUser
<1>1. \A h \in Heads(mcb) : Foreign(mcb, u, h) =>
          h \in Heads(mcb') /\ PspAt(mcb', h) = PspAt(mcb, h) /\ SizeAt(mcb', h) = SizeAt(mcb, h)
    BY FreeIs DEF Same, Foreign
<1>2. \A h \in Heads(mcb') : Foreign(mcb', u, h) =>
          h \in Heads(mcb) /\ PspAt(mcb', h) = PspAt(mcb, h)
    BY FreeIs DEF Same, Foreign
<1> QED BY <1>1, <1>2 DEF Alone, OneUser

\* A step that only changes what it may respects the blocks of others.
LEMMA MayRespects ==
    ASSUME NEW S, May(S), Same(mcb, mcb', S)
    PROVE  Respects
BY FreeIs DEF May, Same, Respects, Foreign

\* The others keep the blocks of their PSPs.
LEMMA OthersKeep ==
    ASSUME KernelInv, Respects, NEW p \in Procs \ {Shell, psp}
    PROVE  p - 1 \in Heads(mcb') /\ PspAt(mcb', p - 1) = p
<1>1. p - 1 \in Heads(mcb) /\ PspAt(mcb, p - 1) = p
    BY DEF KernelInv, PspKept, PspAt, Procs
<1>2. p # MCB_FREE
    BY DEF KernelInv, TreeInv, MCB_FREE, MCB_DOS
<1> QED BY <1>1, <1>2 DEF Respects, Foreign

\* Outside the blocks that changed, an allocated block had its owner before.
LEMMA OwnersStay ==
    ASSUME KernelInv, NEW S, Same(mcb, mcb', S), NEW h \in Heads(mcb') \ S
    PROVE  \/ PspAt(mcb', h) \in {MCB_FREE, MCB_DOS}
           \/ /\ PspAt(mcb', h) \in Procs \ {Shell}
              /\ h \in Heads(mcb) /\ PspAt(mcb, h) = PspAt(mcb', h)
<1>1. CASE IsFree(mcb', h)
    BY <1>1, FreeIs
<1>2. CASE ~IsFree(mcb', h)
    <2>1. h \in Heads(mcb) /\ PspAt(mcb', h) = PspAt(mcb, h)
        BY <1>2 DEF Same
    <2>2. PspAt(mcb, h) \in {MCB_FREE, MCB_DOS} \cup (Procs \ {Shell})
        BY <2>1 DEF KernelInv, OwnersLive, PspAt, Procs
    <2> QED BY <2>1, <2>2
<1> QED BY <1>1, <1>2

\* A call that changes no process.
LEMMA QuietStep ==
    ASSUME KernelInv, MemoryInv', UNCHANGED processVars,
           NEW S, May(S), Same(mcb, mcb', S),
           \A h \in S : h \in Heads(mcb') =>
               PspAt(mcb', h) \in {MCB_FREE} \cup ({psp} \ {Shell}),
           psp # Shell => psp - 1 \in Heads(mcb') /\ PspAt(mcb', psp - 1) = psp
    PROVE  KernelInv' /\ Respects /\ OneUser
<1>1. Respects
    BY MayRespects
<1>2. psp' = psp /\ parents' = parents /\ resident' = resident /\ fatal' = fatal
    BY DEF processVars
<1>3. Running' = Running /\ Procs' = Procs
    BY <1>2 DEF Running, Procs
<1>4. TreeInv'
    BY <1>2, <1>3 DEF KernelInv, TreeInv
<1>5. OwnersLive'
    <2>1. ASSUME NEW h \in Heads(mcb')
          PROVE  PspAt(mcb', h) \in {MCB_FREE, MCB_DOS} \cup (Procs \ {Shell})
        <3>1. CASE h \in S
            <4>1. psp \in Procs
                BY DEF KernelInv, TreeInv, Procs
            <4> QED BY <3>1, <4>1
        <3>2. CASE h \notin S
            BY <3>2, OwnersStay
        <3> QED BY <3>1, <3>2
    <2> QED BY <2>1, <1>3 DEF OwnersLive, PspAt, Procs
<1>6. PspKept'
    <2>1. \A p \in Procs \ {Shell} : p - 1 \in Heads(mcb') /\ PspAt(mcb', p - 1) = p
        BY <1>1, OthersKeep
    <2> QED BY <2>1, <1>3 DEF PspKept, PspAt, Procs
<1>7. OneUser
    <2>1. psp \in Processes
        BY DEF KernelInv, TreeInv, Procs, Processes, MCB_FREE, MCB_DOS
    <2>2. \A h \in S : h \in Heads(mcb) => PspAt(mcb, h) \in {MCB_FREE, psp}
        BY DEF May, Foreign
    <2>3. \A h \in S : h \in Heads(mcb') => PspAt(mcb', h) \in {MCB_FREE, psp}
        OBVIOUS
    <2> QED BY <2>1, <2>2, <2>3, AloneIs
<1> QED BY <1>1, <1>2, <1>4, <1>5, <1>6, <1>7 DEF KernelInv, NoExecPanic

\* What the invariant says of the process that runs.
LEMMA RunningFacts ==
    ASSUME KernelInv
    PROVE  /\ psp \in Nat /\ psp # MCB_FREE /\ psp # MCB_DOS /\ psp \in Running
           /\ psp # Shell => psp - 1 \in Heads(mcb) /\ PspAt(mcb, psp - 1) = psp
           /\ psp - 1 # UmbStart \/ psp = Shell
           /\ linked \in BOOLEAN /\ strategy \in Strategy /\ Chained(mcb, linked)
<1>1. psp \in Nat /\ psp # MCB_FREE /\ psp # MCB_DOS /\ psp \in Running
    BY DEF KernelInv, TreeInv, Procs, MCB_FREE, MCB_DOS
<1>2. psp # Shell => psp - 1 \in Heads(mcb) /\ PspAt(mcb, psp - 1) = psp
    BY <1>1 DEF KernelInv, PspKept, PspAt, Procs
<1>3. linked \in BOOLEAN /\ strategy \in Strategy /\ Chained(mcb, linked)
    BY DEF KernelInv, MemoryInv
<1>4. PspAt(mcb, UmbStart) = MCB_DOS
    BY <1>3 DEF Chained, PspAt
<1> QED BY <1>1, <1>2, <1>3, <1>4

-----------------------------------------------------------------------------
(* The calls of interrupt 21h that change memory.                          *)

\* Function 48h: the caller gets a block nobody had.
LEMMA AllocateStep ==
    ASSUME KernelInv, psp # Shell, NEW n \in Nat,
           DOS_AllocateMemory(psp, n), UNCHANGED processVars
    PROVE  KernelInv' /\ Respects /\ OneUser
<1> DEFINE r == Allocate(mcb, strategy, n, psp)
<1>1. mcb' = r.mcb /\ linked' = linked /\ strategy' = strategy
    BY DEF DOS_AllocateMemory
<1>2. /\ Chained(r.mcb, linked) /\ r.ok \in BOOLEAN
      /\ ~r.ok => Same(mcb, r.mcb, {})
      /\ r.ok => /\ r.head \in Heads(r.mcb) /\ PspAt(r.mcb, r.head) = psp
                 /\ r.head \in Heads(mcb) => IsFree(mcb, r.head)
                 /\ Same(mcb, r.mcb, {r.head})
    BY RunningFacts, AllocateFacts
<1> HIDE DEF r
<1>3. MemoryInv'
    BY <1>1, <1>2, RunningFacts DEF MemoryInv
<1>4. CASE ~r.ok
    <2>1. Same(mcb, mcb', {}) /\ May({})
        BY <1>1, <1>2, <1>4 DEF May
    <2>2. psp - 1 \in Heads(mcb') /\ PspAt(mcb', psp - 1) = psp
        BY <2>1, RunningFacts, FreeIs DEF Same
    <2> QED BY <1>3, <2>1, <2>2, QuietStep
<1>5. CASE r.ok
    <2> DEFINE S == {r.head}
    <2>1. Same(mcb, mcb', S) /\ May(S)
        BY <1>1, <1>2, <1>5, FreeIs DEF May, Foreign
    <2>2. \A h \in S : h \in Heads(mcb') =>
               PspAt(mcb', h) \in {MCB_FREE} \cup ({psp} \ {Shell})
        BY <1>1, <1>2, <1>5
    <2>3. r.head # psp - 1
        BY <1>2, <1>5, RunningFacts, FreeIs
    <2>4. psp - 1 \in Heads(mcb') /\ PspAt(mcb', psp - 1) = psp
        BY <2>1, <2>3, RunningFacts, FreeIs DEF Same
    <2> HIDE DEF S
    <2> QED BY <1>3, <2>1, <2>2, <2>4, QuietStep
<1> QED BY <1>2, <1>4, <1>5

\* Function 4Ah, and the ends of programs that stay: the caller's block is made
\* shorter or longer in place.
LEMMA ResizeChain ==
    ASSUME KernelInv, psp # Shell, NEW h \in OwnBlocks, NEW n \in Nat,
           mcb' = Resize(mcb, h, n, psp), linked' = linked, strategy' = strategy
    PROVE  /\ MemoryInv' /\ Same(mcb, mcb', {h}) /\ May({h})
           /\ h \in Heads(mcb') /\ PspAt(mcb', h) = psp
           /\ psp - 1 \in Heads(mcb') /\ PspAt(mcb', psp - 1) = psp
<1>1. h \in Heads(mcb) /\ PspAt(mcb, h) = psp
    BY DEF OwnBlocks, PspAt
<1>2. ~IsFree(mcb, h)
    BY <1>1, RunningFacts, FreeIs
<1>3. h # UmbStart
    <2>1. PspAt(mcb, UmbStart) = MCB_DOS
        BY RunningFacts DEF Chained, PspAt
    <2> QED BY <2>1, <1>1, RunningFacts
<1> DEFINE d == Resize(mcb, h, n, psp)
<1>4. Chained(d, linked) /\ h \in Heads(d) /\ PspAt(d, h) = psp /\ Same(mcb, d, {h})
    BY <1>1, <1>2, <1>3, RunningFacts, ResizeFacts
<1> HIDE DEF d
<1>5. mcb' = d
    BY DEF d
<1>6. MemoryInv'
    BY <1>4, <1>5, RunningFacts DEF MemoryInv
<1>7. May({h})
    BY <1>1 DEF May, Foreign
<1>8. psp - 1 \in Heads(d) /\ PspAt(d, psp - 1) = psp
    <2>1. CASE h = psp - 1
        BY <2>1, <1>4
    <2>2. CASE h # psp - 1
        BY <2>2, <1>4, RunningFacts, FreeIs DEF Same
    <2> QED BY <2>1, <2>2
<1> QED BY <1>4, <1>5, <1>6, <1>7, <1>8

\* See ResizeChain; the caller goes on.
LEMMA ResizeStep ==
    ASSUME KernelInv, psp # Shell, NEW h \in OwnBlocks, NEW n \in Nat,
           DOS_ResizeMemory(psp, h, n), UNCHANGED processVars
    PROVE  KernelInv' /\ Respects /\ OneUser
<1>1. mcb' = Resize(mcb, h, n, psp) /\ linked' = linked /\ strategy' = strategy
    BY DEF DOS_ResizeMemory
<1>2. /\ MemoryInv' /\ Same(mcb, mcb', {h}) /\ May({h})
      /\ h \in Heads(mcb') /\ PspAt(mcb', h) = psp
      /\ psp - 1 \in Heads(mcb') /\ PspAt(mcb', psp - 1) = psp
    BY <1>1, ResizeChain
<1> DEFINE S == {h}
<1>3. Same(mcb, mcb', S) /\ May(S)
    BY <1>2
<1>4. \A x \in S : x \in Heads(mcb') => PspAt(mcb', x) \in {MCB_FREE} \cup ({psp} \ {Shell})
    BY <1>2
<1> HIDE DEF S
<1> QED BY <1>2, <1>3, <1>4, QuietStep

\* Function 49h: the caller frees a block, and not that of its PSP.
LEMMA FreeStep ==
    ASSUME KernelInv, psp # Shell, NEW h \in OwnBlocks \ {psp - 1},
           DOS_FreeMemory(h), UNCHANGED processVars
    PROVE  KernelInv' /\ Respects /\ OneUser
<1>1. h \in Heads(mcb) /\ PspAt(mcb, h) = psp
    BY DEF OwnBlocks, PspAt
<1>2. h # UmbStart /\ MCB_FREE \in Nat
    <2>1. PspAt(mcb, UmbStart) = MCB_DOS
        BY RunningFacts DEF Chained, PspAt
    <2> QED BY <2>1, <1>1, RunningFacts DEF MCB_FREE
<1> DEFINE d == Own(mcb, h, MCB_FREE)
           S == {h}
<1>3. Heads(d) = Heads(mcb) /\ PspAt(d, h) = MCB_FREE /\ Same(mcb, d, S)
    BY <1>1, <1>2, RunningFacts, OwnFacts
<1>4. Chained(d, linked)
    BY <1>1, <1>2, RunningFacts, OwnChained
<1> HIDE DEF d
<1>5. mcb' = d /\ linked' = linked /\ strategy' = strategy
    BY DEF DOS_FreeMemory, d
<1>6. MemoryInv'
    BY <1>4, <1>5, RunningFacts DEF MemoryInv
<1>7. May(S)
    BY <1>1 DEF May, Foreign
<1>8. psp - 1 \in Heads(mcb') /\ PspAt(mcb', psp - 1) = psp
    BY <1>3, <1>5, RunningFacts, FreeIs DEF Same
<1>9. \A x \in S : x \in Heads(mcb') => PspAt(mcb', x) \in {MCB_FREE} \cup ({psp} \ {Shell})
    BY <1>3, <1>5
<1> HIDE DEF S
<1> QED BY <1>3, <1>5, <1>6, <1>7, <1>8, <1>9, QuietStep

\* Functions 5801h and 5803h: no block changes hands.
LEMMA StrategyStep ==
    ASSUME KernelInv, psp # Shell, UNCHANGED processVars,
           \/ \E strat \in Strategies : DOS_SetMemAllocStrategy(strat)
           \/ \E on \in BOOLEAN : DOS_LinkUMBsToMemChain(on)
    PROVE  KernelInv' /\ Respects /\ OneUser
<1>1. MemoryInv' /\ Same(mcb, mcb', {})
    <2>1. ASSUME NEW strat \in Strategies, DOS_SetMemAllocStrategy(strat)
          PROVE  MemoryInv' /\ Same(mcb, mcb', {})
        <3>1. mcb' = mcb /\ linked' = linked /\ strategy' \in Strategy
            BY <2>1, KernelAssumption DEF DOS_SetMemAllocStrategy, Strategy
        <3>2. Same(mcb, mcb, {})
            BY DEF Same
        <3> QED BY <3>1, <3>2, RunningFacts DEF MemoryInv
    <2>2. ASSUME NEW on \in BOOLEAN, DOS_LinkUMBsToMemChain(on)
          PROVE  MemoryInv' /\ Same(mcb, mcb', {})
        <3>1. linked' = on /\ strategy' = strategy
              /\ mcb' = IF on = linked THEN mcb ELSE LinkUMBs(mcb, on)
            BY <2>2 DEF DOS_LinkUMBsToMemChain
        <3>2. Same(mcb, mcb, {})
            BY DEF Same
        <3>3. Chained(LinkUMBs(mcb, on), on) /\ Same(mcb, LinkUMBs(mcb, on), {})
            BY RunningFacts, LinkFacts
        <3> QED BY <3>1, <3>2, <3>3, RunningFacts DEF MemoryInv
    <2> QED BY <2>1, <2>2
<1>2. May({})
    BY DEF May
<1>3. psp - 1 \in Heads(mcb') /\ PspAt(mcb', psp - 1) = psp
    BY <1>1, RunningFacts, FreeIs DEF Same
<1> QED BY <1>1, <1>2, <1>3, QuietStep

\* No call of a program that is about memory does harm.
LEMMA MemoryCallStep ==
    ASSUME KernelInv, psp # Shell, MemoryCall
    PROVE  KernelInv' /\ Respects /\ OneUser
<1>1. UNCHANGED processVars
    BY DEF MemoryCall
<1>2. \A n \in Sizes : n \in Nat
    BY KernelAssumption
<1> QED BY <1>1, <1>2, AllocateStep, ResizeStep, FreeStep, StrategyStep DEF MemoryCall

-----------------------------------------------------------------------------
(* EXEC.                                                                   *)

\* What EXEC does to the processes when it starts a program: a new one, with
\* an identity nobody has, becomes the one that runs.
Spawns(child) ==
    /\ child \in Nat /\ MCB_DOS < child /\ child \notin Procs
    /\ parents' = [p \in Running \cup {child} |-> IF p = child THEN psp ELSE parents[p]]
    /\ psp' = child
    /\ UNCHANGED <<resident, fatal>>

\* Nothing is allocated at S.
Unused(S) == \A h \in S : h \in Heads(mcb) => IsFree(mcb, h)

\* The environment: a block that nobody had, which is left after the call that
\* must fail.
LEMMA EnvironmentFacts ==
    ASSUME KernelInv, Allocate(mcb, strategy, EnvSize, psp).ok
    PROVE  LET env == Allocate(mcb, strategy, EnvSize, psp)
               free == Compress(env.mcb)
           IN  /\ Chained(env.mcb, linked) /\ Chained(free, linked)
               /\ env.head \in Heads(free) /\ PspAt(free, env.head) = psp
               /\ env.head # UmbStart
               /\ env.head \in Heads(mcb) => IsFree(mcb, env.head)
               /\ Same(mcb, free, {env.head})
<1> DEFINE env == Allocate(mcb, strategy, EnvSize, psp)
           free == Compress(env.mcb)
<1>1. EnvSize \in Nat
    BY KernelAssumption
<1>2. /\ Chained(env.mcb, linked)
      /\ env.head \in Heads(env.mcb) /\ PspAt(env.mcb, env.head) = psp
      /\ env.head \in Heads(mcb) => IsFree(mcb, env.head)
      /\ Same(mcb, env.mcb, {env.head})
    BY <1>1, RunningFacts, AllocateFacts
<1>3. env.head # UmbStart
    BY <1>2, RunningFacts, Ends
<1> HIDE DEF env
<1>4. Chained(free, linked)
    BY <1>2, RunningFacts, CompressChained
<1>5. /\ Same(env.mcb, free, {})
      /\ env.head \in Heads(free) /\ PspAt(free, env.head) = psp
    BY <1>2, RunningFacts, CompressSame, FreeIs
<1> HIDE DEF free
<1>6. Same(mcb, free, {env.head})
    BY <1>2, <1>5, SameTransitive
<1> QED BY <1>2, <1>3, <1>4, <1>5, <1>6 DEF env, free

\* A program is started: its blocks come from free memory.
LEMMA StartFacts ==
    ASSUME KernelInv, NEW free, Chained(free, linked),
           NEW env \in Heads(free), PspAt(free, env) = psp, env # UmbStart,
           env \in Heads(mcb) => IsFree(mcb, env), Same(mcb, free, {env}),
           NEW size \in Nat, NEW block, block = Allocate(free, strategy, size, psp), block.ok,
           Start(block.mcb, env, block.head), linked' = linked, strategy' = strategy
    PROVE  /\ MemoryInv' /\ Spawns(block.head + 1)
           /\ Same(mcb, mcb', {env, block.head}) /\ Unused({env, block.head})
           /\ block.head \in Heads(mcb') /\ PspAt(mcb', block.head) = block.head + 1
           /\ PspAt(mcb', env) = block.head + 1
<1> DEFINE head == block.head
           child == head + 1
           one == Own(block.mcb, head, child)
           two == Own(one, env, child)
<1>1. /\ Chained(block.mcb, linked)
      /\ head \in Heads(block.mcb) /\ PspAt(block.mcb, head) = psp
      /\ head \in Heads(free) => IsFree(free, head)
      /\ Same(free, block.mcb, {head})
    BY RunningFacts, AllocateFacts
<1>2. ~IsFree(free, env) /\ head # env /\ head # UmbStart
    <2>1. ~IsFree(free, env)
        BY RunningFacts, FreeIs
    <2>2. head # UmbStart
        BY <1>1, Ends
    <2> QED BY <2>1, <2>2, <1>1
<1>3. env \in Heads(block.mcb)
    BY <1>1, <1>2 DEF Same
<1>4. Same(mcb, block.mcb, {env, head})
    <2> HIDE DEF head
    <2>1. {env} \subseteq {env, head} /\ {head} \subseteq {env, head}
        OBVIOUS
    <2> QED BY <1>1, <2>1, SameTransitive
<1>5. head \in Nat /\ FirstMCB <= head /\ FirstMCB \in Nat
    BY <1>1, HeadFacts
<1>6. child \in Nat /\ MCB_DOS < child /\ child # Shell
    BY <1>5, KernelAssumption, MemoryAssumption DEF MCB_DOS
<1> HIDE DEF child, one, two
<1>7. Heads(one) = Heads(block.mcb) /\ PspAt(one, head) = child /\ Same(block.mcb, one, {head})
    <2> DEFINE c == block.mcb
    <2>1. Chained(c, linked) /\ head \in Heads(c) /\ head # UmbStart /\ child \in Nat
          /\ linked \in BOOLEAN
        BY <1>1, <1>2, <1>6, RunningFacts
    <2> HIDE DEF c, head
    <2>2. /\ Heads(Own(c, head, child)) = Heads(c)
          /\ PspAt(Own(c, head, child), head) = child
          /\ Same(c, Own(c, head, child), {head})
        BY <2>1, OwnFacts
    <2> QED BY <2>2 DEF one, c
<1>8. Chained(one, linked)
    BY <1>1, <1>2, <1>6, RunningFacts, OwnChained DEF one
<1>9. /\ Heads(two) = Heads(one) /\ PspAt(two, env) = child /\ Same(one, two, {env})
      /\ \A x \in Heads(one) \ {env} : PspAt(two, x) = PspAt(one, x)
    BY <1>3, <1>6, <1>7, <1>8, RunningFacts, OwnFacts DEF two
<1>10. Chained(two, linked)
    BY <1>3, <1>6, <1>7, <1>8, RunningFacts, OwnChained DEF two
<1>11. mcb' = two
    BY DEF Start, child, one, two
<1>12. MemoryInv'
    BY <1>10, <1>11, RunningFacts DEF MemoryInv
<1>13. PspAt(mcb', head) = child /\ head \in Heads(mcb')
    BY <1>1, <1>2, <1>7, <1>9, <1>11
<1>14. Same(mcb, mcb', {env, head})
    <2> HIDE DEF head
    <2> DEFINE S == {env, head}
    <2>1. {head} \subseteq S /\ {env} \subseteq S /\ Same(mcb, block.mcb, S)
        BY <1>4
    <2> HIDE DEF S
    <2>2. Same(mcb, one, S)
        BY <1>7, <2>1, SameTransitive
    <2>3. Same(mcb, two, S)
        BY <1>9, <2>1, <2>2, SameTransitive
    <2> QED BY <2>3, <1>11 DEF S
<1>15. head \in Heads(mcb) => IsFree(mcb, head)
    <2>1. ASSUME head \in Heads(mcb), ~IsFree(mcb, head)
          PROVE  FALSE
        <3>1. head \in Heads(free) /\ PspAt(free, head) = PspAt(mcb, head)
            BY <2>1, <1>2 DEF Same
        <3>2. ~IsFree(free, head)
            BY <3>1, <2>1, FreeIs
        <3> QED BY <3>1, <3>2, <1>1
    <2> QED BY <2>1
<1>16. Unused({env, head})
    BY <1>15 DEF Unused
<1>17. child \notin Procs
    <2>1. ASSUME child \in Procs
          PROVE  FALSE
        <3>1. child - 1 \in Heads(mcb) /\ PspAt(mcb, child - 1) = child
            BY <2>1, <1>6 DEF KernelInv, PspKept, PspAt, Procs
        <3>2. child - 1 = head
            BY <1>5 DEF child
        <3> QED BY <3>1, <3>2, <1>6, <1>15, FreeIs DEF MCB_DOS, MCB_FREE
    <2> QED BY <2>1
<1>18. Spawns(child)
    BY <1>6, <1>17 DEF Spawns, Start, child
<1> QED BY <1>9, <1>11, <1>12, <1>13, <1>14, <1>16, <1>18 DEF child

\* A program that has been started is in the tree, and has its blocks.
LEMMA SpawnStep ==
    ASSUME KernelInv, NEW env, NEW head, head \in Nat, MemoryInv', Spawns(head + 1),
           Same(mcb, mcb', {env, head}), Unused({env, head}),
           head \in Heads(mcb'), PspAt(mcb', head) = head + 1, PspAt(mcb', env) = head + 1
    PROVE  KernelInv' /\ Respects /\ OneUser
<1> DEFINE child == head + 1
           S == {env, head}
<1>1. Respects
    <2>1. Same(mcb, mcb', S) /\ May(S)
        BY FreeIs DEF Unused, May, Foreign
    <2> HIDE DEF S
    <2> QED BY <2>1, MayRespects
<1>2. /\ child \in Nat /\ MCB_DOS < child /\ child \notin Procs /\ child - 1 = head
      /\ Running' = Running \cup {child} /\ resident' = resident /\ fatal' = fatal
      /\ Procs' = Procs \cup {child} /\ psp' = child
      /\ parents' = [p \in Running \cup {child} |-> IF p = child THEN psp ELSE parents[p]]
    BY DEF Spawns, Running, Procs
<1>3. PspAt(mcb', head) = child /\ PspAt(mcb', env) = child
    OBVIOUS
<1> HIDE DEF child
<1>4. child # Shell /\ Shell \in Procs /\ child \notin Running
    BY <1>2 DEF KernelInv, TreeInv, Procs
<1>5. TreeInv'
    <2>1. Running' \cap resident' = {}
        BY <1>2 DEF KernelInv, TreeInv, Procs
    <2>2. \A p \in Procs' : p \in Nat /\ MCB_DOS < p
        BY <1>2 DEF KernelInv, TreeInv
    <2>3. Shell \in Running' /\ psp' \in Running'
        BY <1>2 DEF KernelInv, TreeInv
    <2>4. parents' \in [Running' -> Running'] /\ parents'[Shell] = Shell
        BY <1>2, <1>4 DEF KernelInv, TreeInv
    <2>5. \A p \in Running : parents'[p] = parents[p] /\ parents[p] \in Running
        BY <1>2, <1>4 DEF KernelInv, TreeInv
    <2>6. parents'[child] = psp
        BY <1>2
    <2>7. \A p \in Running' \ {Shell} : parents'[p] # psp'
        BY <1>2, <1>4, <2>5, <2>6 DEF KernelInv, TreeInv
    <2>8. \A p, q \in Running' \ {Shell} : parents'[p] = parents'[q] => p = q
        BY <1>2, <1>4, <2>5, <2>6 DEF KernelInv, TreeInv
    <2> QED BY <2>1, <2>2, <2>3, <2>4, <2>7, <2>8 DEF TreeInv
<1>6. OwnersLive'
    <2>1. ASSUME NEW h \in Heads(mcb')
          PROVE  PspAt(mcb', h) \in {MCB_FREE, MCB_DOS} \cup (Procs' \ {Shell})
        <3>1. CASE h \in S
            BY <3>1, <1>2, <1>3, <1>4
        <3>2. CASE h \notin S
            <4>1. Same(mcb, mcb', S)
                OBVIOUS
            <4> HIDE DEF S
            <4> QED BY <3>2, <4>1, <1>2, OwnersStay
        <3> QED BY <3>1, <3>2
    <2> QED BY <2>1 DEF OwnersLive, PspAt, Procs
<1>7. PspKept'
    <2>1. ASSUME NEW p \in Procs' \ {Shell}
          PROVE  p - 1 \in Heads(mcb') /\ PspAt(mcb', p - 1) = p
        <3>1. CASE p = child
            BY <3>1, <1>2, <1>3
        <3>2. CASE p = psp
            <4>1. psp - 1 \in Heads(mcb) /\ PspAt(mcb, psp - 1) = psp /\ ~IsFree(mcb, psp - 1)
                BY <3>2, RunningFacts, FreeIs
            <4>2. psp - 1 \notin {env, head}
                BY <4>1 DEF Unused
            <4> QED BY <3>2, <4>1, <4>2 DEF Same
        <3>3. CASE p # child /\ p # psp
            BY <3>3, <1>1, <1>2, OthersKeep
        <3> QED BY <3>1, <3>2, <3>3
    <2> QED BY <2>1 DEF PspKept, PspAt, Procs
<1>8. OneUser
    <2>1. child \in Processes /\ MCB_FREE \notin {child}
        BY <1>2 DEF Processes, MCB_FREE, MCB_DOS
    <2>2. \A h \in S : h \in Heads(mcb) => PspAt(mcb, h) \in {MCB_FREE, child}
        BY FreeIs DEF Unused
    <2>3. \A h \in S : h \in Heads(mcb') => PspAt(mcb', h) \in {MCB_FREE, child}
        BY <1>3
    <2>4. Same(mcb, mcb', S)
        OBVIOUS
    <2> HIDE DEF S
    <2> QED BY <2>1, <2>2, <2>3, <2>4, AloneIs
<1> QED BY <1>1, <1>2, <1>5, <1>6, <1>7, <1>8 DEF KernelInv, NoExecPanic

\* A step that leaves memory and the processes alone.
LEMMA IdleStep ==
    ASSUME KernelInv, UNCHANGED <<memoryVars, processVars>>
    PROVE  KernelInv' /\ Respects /\ OneUser
<1>1. mcb' = mcb /\ linked' = linked /\ strategy' = strategy /\ UNCHANGED processVars
    BY DEF memoryVars
<1>2. MemoryInv'
    BY <1>1 DEF KernelInv, MemoryInv
<1>3. Same(mcb, mcb, {}) /\ May({})
    BY DEF Same, May
<1> QED BY <1>1, <1>2, <1>3, RunningFacts, QuietStep

\* A step of EXEC that starts nothing: what it took it gives back.
LEMMA GivesBack ==
    ASSUME KernelInv, UNCHANGED processVars, NEW S, Unused(S), MemoryInv',
           Same(mcb, mcb', S), \A h \in S : PspAt(mcb', h) = MCB_FREE
    PROVE  KernelInv' /\ Respects /\ OneUser
<1>1. May(S)
    BY FreeIs DEF Unused, May, Foreign
<1>2. psp # Shell => psp - 1 \in Heads(mcb') /\ PspAt(mcb', psp - 1) = psp
    <2>1. ASSUME psp # Shell
          PROVE  psp - 1 \in Heads(mcb') /\ PspAt(mcb', psp - 1) = psp
        <3>1. psp - 1 \in Heads(mcb) /\ PspAt(mcb, psp - 1) = psp /\ ~IsFree(mcb, psp - 1)
            BY <2>1, RunningFacts, FreeIs
        <3>2. psp - 1 \notin S
            BY <3>1 DEF Unused
        <3> QED BY <3>1, <3>2 DEF Same
    <2> QED BY <2>1
<1> QED BY <1>1, <1>2, QuietStep

\* EXEC starts the program or changes no process, and it never leaves DOSBox
\* through the error that its second allocation cannot fail.
LEMMA LoadStep ==
    ASSUME KernelInv, NEW prog \in Programs, Load(prog),
           linked' = linked, strategy' = strategy
    PROVE  /\ KernelInv' /\ Respects /\ OneUser
           /\ \/ UNCHANGED processVars /\ UNCHANGED fileVars
              \/ \E child : Spawns(child) /\ InheritFiles(psp, child)
<1> DEFINE env == Allocate(mcb, strategy, EnvSize, psp)
           free == Compress(env.mcb)
           maxfree == BigSize(free, strategy)
           size == IF maxfree < prog.maxsize THEN maxfree ELSE prog.maxsize
           block == Allocate(free, strategy, size, psp)
<1>1. EnvSize \in Nat /\ prog.minsize \in Nat /\ prog.minsize # 0 /\ prog.maxsize \in Nat
    BY KernelAssumption
<1>2. CASE ~env.ok
    <2>1. mcb' = env.mcb /\ UNCHANGED <<processVars, fileVars>>
        BY <1>2 DEF Load
    <2>2. Chained(env.mcb, linked) /\ Same(mcb, env.mcb, {})
        BY <1>1, <1>2, RunningFacts, AllocateFacts
    <2> HIDE DEF env
    <2>3. MemoryInv'
        BY <2>1, <2>2, RunningFacts DEF MemoryInv
    <2>4. Unused({}) /\ \A h \in {} : PspAt(mcb', h) = MCB_FREE
        BY DEF Unused
    <2>5. KernelInv' /\ Respects /\ OneUser
        BY <2>1, <2>2, <2>3, <2>4, GivesBack
    <2> QED BY <2>1, <2>5
<1>3. CASE env.ok
    <2>1. /\ Chained(env.mcb, linked) /\ Chained(free, linked)
          /\ env.head \in Heads(free) /\ PspAt(free, env.head) = psp
          /\ env.head # UmbStart
          /\ env.head \in Heads(mcb) => IsFree(mcb, env.head)
          /\ Same(mcb, free, {env.head})
        BY <1>3, EnvironmentFacts
    <2>2. Load(prog) = IF maxfree < prog.minsize
                         THEN mcb' = Own(free, env.head, MCB_FREE) /\ UNCHANGED <<processVars, fileVars>>
                       ELSE IF ~block.ok
                         THEN fatal' = TRUE /\ UNCHANGED <<mcb, psp, parents, resident, fileVars>>
                       ELSE Start(block.mcb, env.head, block.head)
        BY <1>3 DEF Load
    <2>3. maxfree \in Nat
        <3> HIDE DEF free
        <3> QED BY <2>1, RunningFacts, BigSizeFacts
    <2>4. CASE maxfree < prog.minsize
        <3>1. mcb' = Own(free, env.head, MCB_FREE) /\ UNCHANGED <<processVars, fileVars>>
            BY <2>2, <2>4
        <3> HIDE DEF free, env, maxfree
        <3> DEFINE S == {env.head}
                   e == env.head
                   d == Own(free, e, MCB_FREE)
        <3>2. MCB_FREE \in Nat
            BY DEF MCB_FREE
        <3>3. PspAt(d, e) = MCB_FREE /\ Same(free, d, {e})
            <4> HIDE DEF e
            <4> QED BY <2>1, <3>2, RunningFacts, OwnFacts DEF e
        <3>4. Chained(d, linked)
            <4> HIDE DEF e
            <4> QED BY <2>1, <3>2, RunningFacts, OwnChained DEF e
        <3>5. mcb' = d
            BY <3>1
        <3> HIDE DEF d
        <3>6. MemoryInv'
            BY <3>4, <3>5, RunningFacts DEF MemoryInv
        <3>7. Same(mcb, mcb', S)
            BY <2>1, <3>3, <3>5, SameTransitive
        <3>8. Unused(S) /\ \A h \in S : PspAt(mcb', h) = MCB_FREE
            BY <2>1, <3>3, <3>5 DEF Unused
        <3> HIDE DEF S
        <3>9. KernelInv' /\ Respects /\ OneUser
            BY <3>1, <3>6, <3>7, <3>8, GivesBack
        <3> QED BY <3>1, <3>9
    <2>5. CASE ~(maxfree < prog.minsize)
        <3>1. size \in Nat /\ maxfree # 0 /\ size <= maxfree
            BY <1>1, <2>3, <2>5
        <3>2. block.ok
            <4> DEFINE before == env.mcb
            <4>1. Candidates(Compress(free), strategy, size) # {}
                <5>1. Chained(before, linked) /\ free = Compress(before)
                      /\ maxfree = BigSize(Compress(before), strategy)
                    BY <2>1
                <5> HIDE DEF env, free, before, maxfree, size
                <5> QED BY <5>1, <3>1, RunningFacts, AllocateSucceeds
            <4> HIDE DEF env, free, size, maxfree
            <4> QED BY <4>1, <2>1, <3>1, RunningFacts, AllocateFacts
        <3>3. Start(block.mcb, env.head, block.head)
            BY <2>2, <2>5, <3>2
        <3>4. block = Allocate(free, strategy, size, psp)
            OBVIOUS
        <3> HIDE DEF env, free, size, maxfree, block
        <3>5. /\ MemoryInv' /\ Spawns(block.head + 1)
              /\ Same(mcb, mcb', {env.head, block.head}) /\ Unused({env.head, block.head})
              /\ block.head \in Heads(mcb') /\ PspAt(mcb', block.head) = block.head + 1
              /\ PspAt(mcb', env.head) = block.head + 1
            BY <2>1, <3>1, <3>2, <3>3, <3>4, StartFacts
        <3>6. block.head \in Nat
            BY <3>5, HeadFacts DEF MemoryInv
        <3>7. KernelInv' /\ Respects /\ OneUser
            BY <3>5, <3>6, SpawnStep
        <3>8. InheritFiles(psp, block.head + 1)
            BY <3>3 DEF Start
        <3> QED BY <3>5, <3>7, <3>8
    <2> QED BY <2>4, <2>5
<1> QED BY <1>2, <1>3

\* See LoadStep.
LEMMA ExecuteStep ==
    ASSUME KernelInv, NEW prog \in Programs, DOS_Execute(prog)
    PROVE  /\ KernelInv' /\ Respects /\ OneUser
           /\ \/ UNCHANGED processVars /\ UNCHANGED fileVars
              \/ \E child : Spawns(child) /\ InheritFiles(psp, child)
<1>1. linked' = linked /\ strategy' = strategy
    BY DEF DOS_Execute
<1>2. CASE CanOpen(psp)
    BY <1>1, <1>2, LoadStep DEF DOS_Execute
<1>3. CASE ~CanOpen(psp)
    <2>1. UNCHANGED <<memoryVars, processVars>> /\ UNCHANGED processVars /\ UNCHANGED fileVars
        BY <1>1, <1>3 DEF DOS_Execute, memoryVars
    <2> QED BY <2>1, IdleStep
<1> QED BY <1>2, <1>3

-----------------------------------------------------------------------------
(* The ends of programs.                                                   *)

\* The tree without the process that ran: its parent, which had no other
\* child, runs again.
LEMMA LeaveTree ==
    ASSUME KernelInv, parents[psp] # psp, Leave,
           resident' \in {resident, resident \cup {psp}}
    PROVE  /\ TreeInv' /\ psp # Shell /\ fatal' = fatal
           /\ Running' = Running \ {psp}
<1>1. TreeInv /\ psp # Shell /\ psp \in Running
    BY DEF KernelInv, TreeInv
<1>2. /\ Running' = Running \ {psp} /\ psp' = parents[psp] /\ fatal' = fatal
      /\ parents' = [p \in Running \ {psp} |-> parents[p]]
    BY DEF Leave, Running
<1>3. psp' \in Running' /\ Shell \in Running' /\ parents'[Shell] = Shell
    BY <1>1, <1>2 DEF TreeInv
<1>4. \A p \in Running' : parents'[p] = parents[p] /\ parents'[p] \in Running'
    BY <1>1, <1>2 DEF TreeInv
<1>5. parents' \in [Running' -> Running']
    BY <1>2, <1>4
<1>6. \A p \in Running' \ {Shell} : parents'[p] # psp'
    BY <1>1, <1>2, <1>4 DEF TreeInv
<1>7. \A p, q \in Running' \ {Shell} : parents'[p] = parents'[q] => p = q
    BY <1>1, <1>2, <1>4 DEF TreeInv
<1>8. Running' \cap resident' = {} /\ \A p \in Procs' : p \in Nat /\ MCB_DOS < p
    BY <1>1, <1>2 DEF TreeInv, Procs
<1> QED BY <1>1, <1>2, <1>3, <1>5, <1>6, <1>7, <1>8 DEF TreeInv

\* Function 4Ch: all the process had is free, in both chains.
LEMMA TerminateStep ==
    ASSUME KernelInv, Terminate
    PROVE  KernelInv' /\ Respects /\ OneUser
<1>1. /\ parents[psp] # psp /\ Leave /\ linked' = linked /\ strategy' = strategy
      /\ resident' = resident /\ mcb' = FreeProcess(mcb, psp)
    BY DEF Terminate
<1>2. TreeInv' /\ psp # Shell /\ fatal' = fatal /\ Running' = Running \ {psp}
    BY <1>1, LeaveTree
<1>3. Procs' = Procs \ {psp}
    BY <1>1, <1>2 DEF Procs, KernelInv, TreeInv
<1> DEFINE d == FreeProcess(mcb, psp)
           S == {h \in Heads(mcb) : PspAt(mcb, h) = psp}
<1>4. /\ Chained(d, linked) /\ Same(mcb, d, S)
      /\ \A h \in Heads(d) : PspAt(d, h) # psp /\ (h \in S => IsFree(d, h))
    BY RunningFacts, FreeProcessFacts
<1>5. mcb' = d
    BY <1>1
<1>6. May(S)
    BY DEF May, Foreign
<1>7. \A h \in S : PspAt(mcb, h) = psp
    OBVIOUS
<1> HIDE DEF d, S
<1>8. MemoryInv'
    BY <1>1, <1>4, <1>5, RunningFacts DEF MemoryInv
<1>9. Respects
    BY <1>4, <1>5, <1>6, MayRespects
<1>10. OwnersLive'
    <2>1. ASSUME NEW h \in Heads(mcb')
          PROVE  PspAt(mcb', h) \in {MCB_FREE, MCB_DOS} \cup (Procs' \ {Shell})
        <3>1. CASE h \in S
            <4>1. h \in Heads(d) /\ IsFree(d, h)
                BY <1>4, <1>5, <3>1
            <4> QED BY <4>1, <1>5, FreeIs
        <3>2. CASE h \notin S
            BY <3>2, <1>3, <1>4, <1>5, OwnersStay
        <3> QED BY <3>1, <3>2
    <2> QED BY <2>1 DEF OwnersLive, PspAt, Procs
<1>11. PspKept'
    <2>1. \A p \in Procs' \ {Shell} : p - 1 \in Heads(mcb') /\ PspAt(mcb', p - 1) = p
        BY <1>3, <1>9, OthersKeep
    <2> QED BY <2>1 DEF PspKept, PspAt, Procs
<1>12. OneUser
    <2>1. psp \in Processes
        BY RunningFacts DEF Processes
    <2>2. \A h \in S : h \in Heads(mcb') => PspAt(mcb', h) \in {MCB_FREE, psp}
        BY <1>4, <1>5, FreeIs
    <2> QED BY <1>4, <1>5, <1>7, <2>1, <2>2, AloneIs
<1> QED BY <1>2, <1>8, <1>9, <1>10, <1>11, <1>12 DEF KernelInv, NoExecPanic

\* Function 31h: the process leaves the tree and keeps its block.
LEMMA StayStep ==
    ASSUME KernelInv, NEW n \in Nat, TerminateStayResident(n)
    PROVE  KernelInv' /\ Respects /\ OneUser
<1>1. /\ parents[psp] # psp /\ Leave /\ linked' = linked /\ strategy' = strategy
      /\ resident' = resident \cup {psp} /\ mcb' = Resize(mcb, psp - 1, n, psp)
    BY DEF TerminateStayResident
<1>2. TreeInv' /\ psp # Shell /\ fatal' = fatal /\ Running' = Running \ {psp}
    BY <1>1, LeaveTree
<1>3. Procs' = Procs
    BY <1>1, <1>2 DEF Procs, KernelInv, TreeInv
<1> DEFINE h == psp - 1
           S == {h}
<1>4. h \in OwnBlocks
    BY <1>2, RunningFacts DEF OwnBlocks, PspAt
<1>5. /\ MemoryInv' /\ Same(mcb, mcb', S) /\ May(S)
      /\ h \in Heads(mcb') /\ PspAt(mcb', h) = psp
    <2> HIDE DEF h
    <2>1. mcb' = Resize(mcb, h, n, psp)
        BY <1>1 DEF h
    <2> QED BY <1>1, <1>2, <1>4, <2>1, ResizeChain
<1>6. Respects
    <2> HIDE DEF S
    <2> QED BY <1>5, MayRespects
<1>7. OwnersLive'
    <2>1. ASSUME NEW x \in Heads(mcb')
          PROVE  PspAt(mcb', x) \in {MCB_FREE, MCB_DOS} \cup (Procs' \ {Shell})
        <3>1. CASE x \in S
            BY <3>1, <1>2, <1>3, <1>5, RunningFacts DEF Procs
        <3>2. CASE x \notin S
            <4> HIDE DEF S
            <4> QED BY <3>2, <1>3, <1>5, OwnersStay
        <3> QED BY <3>1, <3>2
    <2> QED BY <2>1 DEF OwnersLive, PspAt, Procs
<1>8. PspKept'
    <2>1. ASSUME NEW p \in Procs' \ {Shell}
          PROVE  p - 1 \in Heads(mcb') /\ PspAt(mcb', p - 1) = p
        <3>1. CASE p = psp
            BY <3>1, <1>5
        <3>2. CASE p # psp
            BY <3>2, <1>3, <1>6, OthersKeep
        <3> QED BY <3>1, <3>2
    <2> QED BY <2>1 DEF PspKept, PspAt, Procs
<1>9. OneUser
    <2>1. psp \in Processes
        BY RunningFacts DEF Processes
    <2>2. \A x \in S : x \in Heads(mcb) => PspAt(mcb, x) \in {MCB_FREE, psp}
        BY <1>5 DEF May, Foreign
    <2>3. \A x \in S : x \in Heads(mcb') => PspAt(mcb', x) \in {MCB_FREE, psp}
        BY <1>5
    <2> HIDE DEF S
    <2> QED BY <1>5, <2>1, <2>2, <2>3, AloneIs
<1> QED BY <1>2, <1>5, <1>6, <1>7, <1>8, <1>9 DEF KernelInv, NoExecPanic

\* Interrupt 27h: as function 31h, or the block grows as far as it can and
\* the program goes on.
LEMMA Interrupt27Step ==
    ASSUME KernelInv, NEW n \in Nat, Interrupt27(n)
    PROVE  KernelInv' /\ Respects /\ OneUser
<1>1. CASE TerminateStayResident(n)
    BY <1>1, StayStep
<1>2. CASE ~TerminateStayResident(n)
    <2>1. /\ parents[psp] # psp /\ mcb' = Resize(mcb, psp - 1, n, psp)
          /\ linked' = linked /\ strategy' = strategy /\ UNCHANGED processVars
        BY <1>2 DEF Interrupt27
    <2>2. psp # Shell
        BY <2>1 DEF KernelInv, TreeInv
    <2> DEFINE h == psp - 1
    <2>3. h \in OwnBlocks
        BY <2>2, RunningFacts DEF OwnBlocks, PspAt
    <2>4. DOS_ResizeMemory(psp, h, n)
        BY <2>1 DEF DOS_ResizeMemory
    <2> HIDE DEF h
    <2> QED BY <2>1, <2>2, <2>3, <2>4, ResizeStep
<1> QED BY <1>1, <1>2

-----------------------------------------------------------------------------
(* The theorems.                                                           *)

\* The invariant holds of the headers that DOS_SetupMemory leaves.
LEMMA KernelInit ==
    Init => KernelInv
<1> SUFFICES ASSUME Init PROVE KernelInv
    OBVIOUS
<1> DEFINE S == {FirstMCB, FirstMCB + 2, FirstMCB + 4, Free, UmbStart, UmbStart + 2}
<1>1. /\ FirstMCB \in Nat /\ UmbStart \in Nat /\ Top \in Nat
      /\ 8 < FirstMCB /\ FirstMCB + 6 < UmbStart /\ UmbStart + 2 < Top
      /\ Free = FirstMCB + 6
    BY MemoryAssumption DEF MCB_DOS, Free
<1>2. mcb = [h \in S |->
                [type |-> IF h \in {Free, UmbStart + 2} THEN "Z" ELSE "M",
                 psp  |-> IF h \in {FirstMCB, FirstMCB + 4, UmbStart}
                            THEN MCB_DOS ELSE MCB_FREE,
                 size |-> CASE h = Free         -> UmbStart - Free - 1
                            [] h = UmbStart + 2 -> Top - UmbStart - 3
                            [] OTHER            -> 1]]
      /\ linked = FALSE /\ strategy = [fit |-> "first", high |-> "low"]
    BY DEF Init, MemoryInit
<1>3. Heads(mcb) = S
    BY <1>2 DEF Heads
<1>4. ASSUME NEW h \in S
      PROVE  /\ h \in Segments
             /\ mcb[h].psp = IF h \in {FirstMCB, FirstMCB + 4, UmbStart} THEN 8 ELSE 0
             /\ mcb[h].type = IF h \in {Free, UmbStart + 2} THEN "Z" ELSE "M"
             /\ mcb[h].size \in Nat
             /\ EndOf(mcb, h) = CASE h = Free -> UmbStart
                                  [] h = UmbStart + 2 -> Top
                                  [] OTHER -> h + 2
             /\ mcb[h] \in Fields
    <2>1. h \in Segments
        BY <1>1 DEF Segments
    <2>2. mcb[h].psp = IF h \in {FirstMCB, FirstMCB + 4, UmbStart} THEN 8 ELSE 0
        BY <1>2 DEF MCB_DOS, MCB_FREE
    <2>3. mcb[h].type = IF h \in {Free, UmbStart + 2} THEN "Z" ELSE "M"
        BY <1>2
    <2>4. CASE h = Free
        <3>1. mcb[h].size = UmbStart - Free - 1 /\ h # UmbStart + 2
            BY <1>1, <1>2, <2>4
        <3>2. mcb[h].size \in Nat /\ EndOf(mcb, h) = UmbStart
            BY <1>1, <2>4, <3>1 DEF EndOf
        <3>3. mcb[h] \in Fields
            BY <1>2, <2>4, <3>1, <3>2 DEF Fields, MCB_DOS, MCB_FREE
        <3> QED BY <2>1, <2>2, <2>3, <2>4, <3>1, <3>2, <3>3
    <2>5. CASE h = UmbStart + 2
        <3>1. h # Free
            BY <1>1, <2>5
        <3>2. mcb[h].size = Top - UmbStart - 3
            BY <1>2, <2>5, <3>1
        <3>3. mcb[h].size \in Nat /\ EndOf(mcb, h) = Top
            BY <1>1, <2>5, <3>2 DEF EndOf
        <3>4. mcb[h] \in Fields
            BY <1>2, <2>5, <3>2, <3>3 DEF Fields, MCB_DOS, MCB_FREE
        <3> QED BY <2>1, <2>2, <2>3, <2>5, <3>1, <3>3, <3>4
    <2>6. CASE h # Free /\ h # UmbStart + 2
        <3>1. mcb[h].size = 1
            BY <1>2, <2>6
        <3>2. mcb[h].size \in Nat /\ EndOf(mcb, h) = h + 2
            BY <1>1, <3>1 DEF EndOf
        <3>3. mcb[h] \in Fields
            BY <1>2, <2>6, <3>1 DEF Fields, MCB_DOS, MCB_FREE
        <3> QED BY <2>1, <2>2, <2>3, <2>6, <3>2, <3>3
    <2> QED BY <2>4, <2>5, <2>6
<1>5. mcb = [h \in Heads(mcb) |-> mcb[h]]
    BY <1>2, <1>3
<1> HIDE DEF S
<1>6. Tiles(mcb, FALSE)
    <2>1. ASSUME NEW h \in S
          PROVE  /\ EndOf(mcb, h) = Top \/ EndOf(mcb, h) \in S
                 /\ \A g \in S : h < g => EndOf(mcb, h) <= g
                 /\ mcb[h].type = "Z" <=> EndOf(mcb, h) = Top \/ EndOf(mcb, h) = UmbStart
        BY <1>1, <1>4 DEF S
    <2>2. FirstMCB \in S /\ UmbStart \in S
        BY DEF S
    <2> QED BY <1>3, <2>1, <2>2 DEF Tiles
<1>7. MemoryInv
    <2>1. mcb[UmbStart].psp = MCB_DOS
        BY <1>4 DEF S, MCB_DOS
    <2>2. Chained(mcb, FALSE)
        BY <1>3, <1>4, <1>5, <1>6, <2>1 DEF Chained
    <2>3. strategy \in Strategy
        BY <1>2 DEF Strategy, Fits, Highs
    <2> QED BY <1>2, <2>2, <2>3 DEF MemoryInv
<1>8. Running = {Shell} /\ Procs = {Shell} /\ psp = Shell /\ parents = [p \in {Shell} |-> Shell]
      /\ resident = {} /\ fatal = FALSE
    BY DEF Init, Running, Procs
<1>9. TreeInv
    BY <1>8, KernelAssumption DEF TreeInv
<1>10. OwnersLive
    BY <1>3, <1>4 DEF OwnersLive, MCB_FREE, MCB_DOS
<1>11. PspKept
    BY <1>8 DEF PspKept, Procs
<1> QED BY <1>7, <1>8, <1>9, <1>10, <1>11 DEF KernelInv, NoExecPanic

\* Every step of the system keeps the invariant and respects the blocks of
\* others.
LEMMA KernelStep ==
    ASSUME KernelInv, [Next]_vars
    PROVE  KernelInv' /\ Respects /\ OneUser
<1>1. CASE Call
    <2>1. psp # Shell /\ (MemoryCall \/ FileCall)
        BY <1>1 DEF Call, Program
    <2>2. CASE MemoryCall
        BY <2>1, <2>2, MemoryCallStep
    <2>3. CASE FileCall
        BY <2>3, IdleStep DEF FileCall
    <2> QED BY <2>1, <2>2, <2>3
<1>2. CASE ProgramExecutes
    BY <1>2, ExecuteStep DEF ProgramExecutes
<1>3. CASE ProgramEnds
    BY <1>3, TerminateStep DEF ProgramEnds
<1>4. CASE ProgramStays
    <2>1. \A n \in Sizes : n \in Nat
        BY KernelAssumption
    <2> QED BY <1>4, <2>1, StayStep, Interrupt27Step DEF ProgramStays
<1>5. CASE ProgramReadsKey \/ ShellMoves \/ UserInterface
    BY <1>5, IdleStep DEF ProgramReadsKey, ShellMoves, UserInterface
<1>6. ASSUME NEW line \in Lines, ParseLine(line)
      PROVE  KernelInv' /\ Respects /\ OneUser
    BY <1>6, IdleStep, ExecuteStep DEF ParseLine
<1>7. CASE ShellGets \/ ShellReadsBatch \/ \E own \in BOOLEAN : ShellReads(own)
    BY <1>6, <1>7 DEF ShellGets, ShellReads, ShellReadsBatch
<1>8. CASE UNCHANGED vars
    BY <1>8, IdleStep DEF vars
<1> QED BY <1>1, <1>2, <1>3, <1>4, <1>5, <1>7, <1>8 DEF Next

\* The invariant holds in every state.
THEOREM KernelInvariant == Spec => []KernelInv
<1>1. Init => KernelInv
    BY KernelInit
<1>2. KernelInv /\ [Next]_vars => KernelInv'
    BY KernelStep
<1> QED BY <1>1, <1>2, PTL DEF Spec

\* The blocks always tile memory: DOS_CompressMemory, DOS_AllocateMemory,
\* DOS_ResizeMemory and the rest lose no paragraph and find the end of the
\* chain, for any sizes and any order of calls.
THEOREM TilingHolds == Spec => []Tiling
<1>1. KernelInv => Tiling
    BY DEF KernelInv, MemoryInv, Chained, Tiling
<1> QED BY <1>1, KernelInvariant, PTL

\* CompressIsLoop: the loop of DOS_CompressMemory computes the closed form, on every
\* chain the calls of programs can bring about.
THEOREM CompressIsLoopHolds == Spec => []CompressIsLoop
<1>1. KernelInv => CompressIsLoop
    <2> SUFFICES ASSUME KernelInv PROVE CompressIsLoop
        OBVIOUS
    <2>1. linked \in BOOLEAN /\ Chained(mcb, linked)
        BY DEF KernelInv, MemoryInv
    <2>2. CompressLoop(mcb) = Compress(mcb)
        BY <2>1, LoopCompresses
    <2> QED BY <2>2 DEF CompressIsLoop
<1> QED BY <1>1, KernelInvariant, PTL

\* A block belongs to nobody, to DOS or to a program that can give it back.
THEOREM OwnersLiveHolds == Spec => []OwnersLive
<1>1. KernelInv => OwnersLive
    BY DEF KernelInv
<1> QED BY <1>1, KernelInvariant, PTL

\* The block of a program's PSP is its own while the program is there.
THEOREM PspKeptHolds == Spec => []PspKept
<1>1. KernelInv => PspKept
    BY DEF KernelInv
<1> QED BY <1>1, KernelInvariant, PTL

\* EXEC never fails to get what it was told was free.
THEOREM NoExecPanicHolds == Spec => []NoExecPanic
<1>1. KernelInv => NoExecPanic
    BY DEF KernelInv
<1> QED BY <1>1, KernelInvariant, PTL

\* A step that respects the blocks of others takes no paragraph from them.
LEMMA RespectsParagraphs ==
    ASSUME KernelInv, Respects
    PROVE  \A p \in ((Running \cup resident) \ {psp}) \cup {MCB_DOS} :
              Paragraphs(mcb, p) \subseteq Paragraphs(mcb', p)
<1> SUFFICES ASSUME NEW p \in (Procs \ {psp}) \cup {MCB_DOS},
                    NEW h \in Heads(mcb), mcb[h].psp = p
             PROVE  /\ h \in Heads(mcb') /\ mcb'[h].psp = p
                    /\ EndOf(mcb', h) = EndOf(mcb, h)
    BY DEF Paragraphs, Procs
<1>1. p # psp /\ p # MCB_FREE
    BY RunningFacts DEF KernelInv, TreeInv, MCB_FREE, MCB_DOS
<1>2. Foreign(mcb, psp, h)
    BY <1>1 DEF Foreign, PspAt
<1>3. h \in Heads(mcb') /\ PspAt(mcb', h) = PspAt(mcb, h) /\ SizeAt(mcb', h) = SizeAt(mcb, h)
    BY <1>2 DEF Respects
<1> QED BY <1>3 DEF PspAt, SizeAt, EndOf

\* No call of a process takes a paragraph from another, from a resident one or
\* from DOS.
THEOREM NoTheftHolds == Spec => NoTheft
<1> DEFINE Keeps == \A p \in ((Running \cup resident) \ {psp}) \cup {MCB_DOS} :
                        Paragraphs(mcb, p) \subseteq Paragraphs(mcb', p)
<1>1. KernelInv /\ [Next]_vars => [Keeps]_vars
    BY KernelStep, RespectsParagraphs
<1> QED BY <1>1, KernelInvariant, PTL DEF Spec, NoTheft

-----------------------------------------------------------------------------
(* The chain as an allocator of paragraphs: what is held is what allocated *)
(* blocks cover, by their owners.                                          *)

\* The process p has the paragraph x, in a block of its own.
Has(c, p, x) ==
    \E h \in Heads(c) : PspAt(c, h) = p /\ ~IsFree(c, h) /\ x \in (h + 1)..(EndOf(c, h) - 1)

\* The holdings of a chain.
HeldIn(c) ==
    UNION {{c[h].psp} \X ((h + 1)..(EndOf(c, h) - 1)) : h \in {g \in Heads(c) : ~IsFree(c, g)}}

\* What they are, pair by pair.
LEMMA HoldingsAre ==
    ASSUME NEW c, NEW a
    PROVE  a \in HeldIn(c) <=> a = <<a[1], a[2]>> /\ Has(c, a[1], a[2])
<1> DEFINE Block(h) == (h + 1)..(EndOf(c, h) - 1)
<1>1. ASSUME a \in HeldIn(c)
      PROVE  a = <<a[1], a[2]>> /\ Has(c, a[1], a[2])
    <2>1. PICK h \in Heads(c) : ~IsFree(c, h) /\ a \in {c[h].psp} \X Block(h)
        BY <1>1 DEF HeldIn
    <2>2. a = <<a[1], a[2]>> /\ a[1] = c[h].psp /\ a[2] \in Block(h)
        <3> DEFINE B == Block(h)
                   p == c[h].psp
        <3>1. a \in {p} \X B
            BY <2>1
        <3> HIDE DEF B, p
        <3>2. a = <<a[1], a[2]>> /\ a[1] = p /\ a[2] \in B
            BY <3>1
        <3> QED BY <3>2 DEF B, p
    <2> QED BY <2>1, <2>2 DEF Has, PspAt
<1>2. ASSUME a = <<a[1], a[2]>>, Has(c, a[1], a[2])
      PROVE  a \in HeldIn(c)
    <2>1. PICK h \in Heads(c) : PspAt(c, h) = a[1] /\ ~IsFree(c, h) /\ a[2] \in Block(h)
        BY <1>2 DEF Has
    <2>2. a \in {c[h].psp} \X Block(h)
        <3> DEFINE B == Block(h)
                   p == c[h].psp
        <3>1. a[1] = p /\ a[2] \in B
            BY <2>1 DEF PspAt
        <3> HIDE DEF B, p
        <3>2. a \in {p} \X B
            BY <3>1, <1>2
        <3> QED BY <3>2 DEF B, p
    <2> HIDE DEF Block
    <2> QED BY <2>1, <2>2 DEF HeldIn, Block
<1> QED BY <1>1, <1>2

\* Nobody has a paragraph that another has: blocks are apart.
LEMMA HasDisjoint ==
    ASSUME NEW c, NEW link, Chained(c, link),
           NEW p, NEW q, NEW x, Has(c, p, x), Has(c, q, x)
    PROVE  p = q /\ p \in Processes /\ x \in Segments
<1>1. PICK g \in Heads(c) : PspAt(c, g) = p /\ ~IsFree(c, g) /\ x \in (g + 1)..(EndOf(c, g) - 1)
    BY DEF Has
<1>2. PICK h \in Heads(c) : PspAt(c, h) = q /\ ~IsFree(c, h) /\ x \in (h + 1)..(EndOf(c, h) - 1)
    BY DEF Has
<1>3. /\ g \in Nat /\ EndOf(c, g) \in Nat /\ FirstMCB <= g /\ EndOf(c, g) <= Top
      /\ h \in Nat /\ EndOf(c, h) \in Nat
      /\ FirstMCB \in Nat /\ Top \in Nat
    BY HeadFacts
<1>4. g = h
    <2>1. ~(g < h) /\ ~(h < g)
        BY <1>1, <1>2, <1>3, Apart
    <2> QED BY <2>1, <1>3
<1>5. p \in Nat /\ p # MCB_FREE
    BY <1>1, FieldFacts, FreeIs
<1>6. x \in FirstMCB..(Top - 1)
    BY <1>1, <1>3
<1> QED BY <1>1, <1>2, <1>4, <1>5, <1>6 DEF Processes, Segments

\* A step about u changes what nobody else has.
LEMMA AloneHas ==
    ASSUME NEW u, Alone(u), NEW p, p # u, NEW x
    PROVE  Has(mcb, p, x) <=> Has(mcb', p, x)
<1>1. ASSUME Has(mcb, p, x) PROVE Has(mcb', p, x)
    <2>1. PICK h \in Heads(mcb) :
              PspAt(mcb, h) = p /\ ~IsFree(mcb, h) /\ x \in (h + 1)..(EndOf(mcb, h) - 1)
        BY <1>1 DEF Has
    <2>2. /\ h \in Heads(mcb') /\ PspAt(mcb', h) = PspAt(mcb, h)
          /\ SizeAt(mcb', h) = SizeAt(mcb, h)
        BY <2>1, FreeIs DEF Alone, Foreign
    <2>3. EndOf(mcb', h) = EndOf(mcb, h) /\ ~IsFree(mcb', h)
        BY <2>1, <2>2, FreeIs DEF EndOf, SizeAt
    <2> QED BY <2>1, <2>2, <2>3 DEF Has
<1>2. ASSUME Has(mcb', p, x) PROVE Has(mcb, p, x)
    <2>1. PICK h \in Heads(mcb') :
              PspAt(mcb', h) = p /\ ~IsFree(mcb', h) /\ x \in (h + 1)..(EndOf(mcb', h) - 1)
        BY <1>2 DEF Has
    <2>2. h \in Heads(mcb) /\ PspAt(mcb', h) = PspAt(mcb, h)
        BY <2>1, FreeIs DEF Alone, Foreign
    <2>3. SizeAt(mcb', h) = SizeAt(mcb, h) /\ ~IsFree(mcb, h)
        BY <2>1, <2>2, FreeIs DEF Alone, Foreign
    <2>4. EndOf(mcb', h) = EndOf(mcb, h)
        BY <2>3 DEF EndOf, SizeAt
    <2> QED BY <2>1, <2>2, <2>3, <2>4 DEF Has
<1> QED BY <1>1, <1>2

\* Apportioned by processes, and no paragraph by two.
Apportioned(H) ==
    /\ H \subseteq Processes \X Segments
    /\ \A a, b \in H : a[2] = b[2] => a = b

\* The holdings of a well-formed chain are those of an allocator.
LEMMA HoldingsApportioned ==
    ASSUME NEW c, NEW link, Chained(c, link)
    PROVE  Apportioned(HeldIn(c))
<1>1. ASSUME NEW a \in HeldIn(c)
      PROVE  a = <<a[1], a[2]>> /\ Has(c, a[1], a[2])
    BY HoldingsAre
<1>2. ASSUME NEW a \in HeldIn(c) PROVE a \in Processes \X Segments
    <2>1. a[1] \in Processes /\ a[2] \in Segments
        BY <1>1, HasDisjoint
    <2> QED BY <2>1, <1>1
<1>3. ASSUME NEW a \in HeldIn(c), NEW b \in HeldIn(c), a[2] = b[2] PROVE a = b
    <2>1. a[1] = b[1]
        BY <1>1, <1>3, HasDisjoint
    <2> QED BY <2>1, <1>1, <1>3
<1> QED BY <1>2, <1>3 DEF Apportioned

\* What one user alone gains and loses is a step of the allocator.
LEMMA OneUserGains ==
    ASSUME NEW before, NEW after, Apportioned(before), Apportioned(after), NEW u,
           \A a \in before \cup after : a[1] # u => a \in before /\ a \in after
    PROVE  /\ after \ before \subseteq Processes \X Segments
           /\ \A a, b \in (after \ before) \cup (before \ after) : a[1] = b[1]
           /\ \A a \in after \ before, b \in before : a[2] # b[2]
<1>1. \A a \in (after \ before) \cup (before \ after) : a[1] = u
    OBVIOUS
<1>2. ASSUME NEW a \in after \ before, NEW b \in before, a[2] = b[2]
      PROVE  FALSE
    <2>1. CASE b[1] # u
        BY <1>2, <2>1 DEF Apportioned
    <2>2. CASE b[1] = u
        <3>1. a \in Processes \X Segments /\ b \in Processes \X Segments /\ a[1] = b[1]
            BY <1>1, <2>2 DEF Apportioned
        <3>2. a = b
            BY <3>1, <1>2
        <3> QED BY <3>2, <1>2
    <2> QED BY <2>1, <2>2
<1> QED BY <1>1, <1>2 DEF Apportioned

\* A step of the kernel is a step of the allocator.
LEMMA AllocatorStep ==
    ASSUME KernelInv, KernelInv', OneUser
    PROVE  Memory!Next
<1>1. PICK u \in Processes : Alone(u)
    BY DEF OneUser
<1>2. Holdings = HeldIn(mcb) /\ Holdings' = HeldIn(mcb')
    BY DEF Holdings, HeldIn
<1>3. Apportioned(HeldIn(mcb)) /\ Apportioned(HeldIn(mcb'))
    BY HoldingsApportioned DEF KernelInv, MemoryInv
<1>4. ASSUME NEW a \in HeldIn(mcb) \cup HeldIn(mcb'), a[1] # u
      PROVE  a \in HeldIn(mcb) /\ a \in HeldIn(mcb')
    BY <1>1, <1>4, HoldingsAre, AloneHas
<1> DEFINE before == HeldIn(mcb)
           after == HeldIn(mcb')
<1>5. Apportioned(before) /\ Apportioned(after)
      /\ \A a \in before \cup after : a[1] # u => a \in before /\ a \in after
    BY <1>3, <1>4
<1> HIDE DEF before, after
<1>6. /\ after \ before \subseteq Processes \X Segments
      /\ \A a, b \in (after \ before) \cup (before \ after) : a[1] = b[1]
      /\ \A a \in after \ before, b \in before : a[2] # b[2]
    BY <1>5, OneUserGains
<1> QED BY <1>2, <1>6 DEF before, after, Memory!Next

\* ImplementsAllocator: the chain of memory control blocks gives paragraphs to one
\* process at a time, takes them from the process that runs only, and gives only what
\* nobody had, in any order of the calls of any number of processes.
THEOREM AllocatorImplemented == Spec => ImplementsAllocator
<1>1. Init => Memory!Init
    <2>1. ASSUME Init PROVE Apportioned(Holdings)
        <3>1. Apportioned(HeldIn(mcb))
            BY <2>1, KernelInit, HoldingsApportioned DEF KernelInv, MemoryInv
        <3>2. Holdings = HeldIn(mcb)
            BY DEF Holdings, HeldIn
        <3> QED BY <3>1, <3>2
    <2> QED BY <2>1 DEF Memory!Init, Memory!Disjoint, Apportioned
<1>2. KernelInv /\ KernelInv' /\ [Next]_vars => [Memory!Next]_Holdings
    BY KernelStep, AllocatorStep
<1> QED BY <1>1, <1>2, KernelInvariant, PTL DEF Spec, ImplementsAllocator, Memory!Spec

-----------------------------------------------------------------------------
(* The command list between the user interface and the shell, within the   *)
(* whole of DosKernel: whatever programs and batch files run meanwhile,    *)
(* commands are taken in the order they were listed, for any number of     *)
(* them, and between batch files only.                                     *)
(*                                                                         *)
(* The list is written as the automount commands left, the mark, and the   *)
(* commands behind it (Expected); lemmas say what Append and Tail make of  *)
(* these.                                                                  *)

\* what the steps of the kernel do to the bridge
BridgeNext ==
    \/ sendCommand \/ sendReturn \/ SwallowReturn
    \/ EndAutomount \/ EndBatch \/ NoBatch \/ Prompt
    \/ \E line \in Lines : GetCommand(line) \/ ReadLine(line)
    \/ \E own \in BOOLEAN, line \in Lines : InputCommand(own, line)
    \/ UNCHANGED bridgeVars

\* A step of the kernel is one of the bridge, or leaves it alone.
LEMMA BridgeSteps == [Next]_vars => BridgeNext
<1>1. ASSUME Call \/ ProgramExecutes \/ ProgramEnds \/ ProgramStays \/ ProgramReadsKey
      PROVE  BridgeNext
    BY <1>1 DEF Call, ProgramExecutes, ProgramEnds, ProgramStays, ProgramReadsKey, BridgeNext
<1>2. ASSUME ShellGets \/ ShellReadsBatch \/ \E own \in BOOLEAN : ShellReads(own)
      PROVE  BridgeNext
    BY <1>2 DEF ShellGets, ShellReadsBatch, ShellReads, BridgeNext
<1>3. ASSUME ShellMoves \/ UserInterface
      PROVE  BridgeNext
    BY <1>3 DEF ShellMoves, UserInterface, BridgeNext
<1>4. ASSUME UNCHANGED vars
      PROVE  BridgeNext
    BY <1>4 DEF vars, BridgeNext
<1> QED BY <1>1, <1>2, <1>3, <1>4 DEF Next

\* the part of TakenInOrder about the list
ListInOrder ==
    commandList =
        IF at = "automount"
          THEN Numbers(taken + 1, Automount) \o <<END>> \o Numbers(Automount + 1, accepted)
          ELSE Numbers(taken + 1, accepted)

\* The order, with the fact that the mark is met before the commands behind it:
\* while the automount loop runs, no command behind the mark has been taken.
BridgeInv ==
    /\ ListInOrder
    /\ taken \in Nat /\ accepted \in Nat /\ taken <= accepted
    /\ Automount <= accepted
    /\ at = "automount" => taken <= Automount

\* The lengths of the two parts of the list that start() makes are numbers.
LEMMA Counts == Automount \in Nat /\ Autostart \in Nat
    BY BridgeAssumption

\* the commands that follow the one numbered last, up to the one numbered to
After(last, to) == Numbers(last + 1, to)

\* Commands waiting are a sequence of numbers.
LEMMA AfterType ==
    ASSUME NEW last \in Nat, NEW to \in Nat
    PROVE  After(last, to) \in Seq(Nat)
    BY DEF After, Numbers

\* A command listed at the end is the next in number.
LEMMA AfterAppend ==
    ASSUME NEW last \in Nat, NEW to \in Nat, last <= to, NEW next \in Nat, next = to + 1
    PROVE  Append(After(last, to), next) = After(last, next)
<1>1. PICK n \in Nat : n = to - last
    OBVIOUS
<1>2. After(last, to) = [i \in 1..n |-> last + i]
    BY <1>1 DEF After, Numbers
<1>3. After(last, next) = [i \in 1..(n + 1) |-> last + i]
    BY <1>1 DEF After, Numbers
<1> QED BY <1>1, <1>2, <1>3

\* The first that waits is the one after the last taken.
LEMMA AfterTail ==
    ASSUME NEW last \in Nat, NEW to \in Nat, last < to, NEW next \in Nat, next = last + 1
    PROVE  /\ After(last, to) # <<>> /\ Head(After(last, to)) = next
           /\ Tail(After(last, to)) = After(next, to)
<1>1. PICK n \in Nat : n = to - last /\ n > 0
    OBVIOUS
<1>2. After(last, to) = [i \in 1..n |-> last + i]
    BY <1>1 DEF After, Numbers
<1>3. After(next, to) = [i \in 1..(n - 1) |-> last + i + 1]
    BY <1>1 DEF After, Numbers
<1>4. Tail(After(last, to)) = [i \in 1..(n - 1) |-> last + (i + 1)]
    BY <1>1, <1>2
<1>5. \A i \in 1..(n - 1) : last + (i + 1) = last + i + 1
    BY <1>1
<1>6. Tail(After(last, to)) = After(next, to)
    BY <1>3, <1>4, <1>5, Zenon
<1>7. After(last, to) # <<>> /\ Head(After(last, to)) = next
    BY <1>1, <1>2
<1> QED BY <1>6, <1>7

\* None waits once all have been taken.
LEMMA AfterLast ==
    ASSUME NEW last \in Nat
    PROVE  After(last, last) = <<>>
    BY DEF After, Numbers

\* Appending to two parts appends to the second.
LEMMA AppendBehind ==
    ASSUME NEW s \in Seq(Nat), NEW t \in Seq(Nat), NEW x \in Nat
    PROVE  Append(s \o t, x) = s \o Append(t, x)
<1>1. <<x>> \in Seq(Nat) /\ s \o t \in Seq(Nat)
    OBVIOUS
<1>2. Append(s \o t, x) = (s \o t) \o <<x>>
    BY <1>1, AppendIsConcat
<1>3. Append(t, x) = t \o <<x>>
    BY AppendIsConcat
<1>4. (s \o t) \o <<x>> = s \o (t \o <<x>>)
    BY <1>1, ConcatAssociative
<1> QED BY <1>2, <1>3, <1>4

\* Taking the first of two parts takes it from the first.
LEMMA TailBefore ==
    ASSUME NEW s \in Seq(Nat), NEW t \in Seq(Nat), s # <<>>
    PROVE  s \o t # <<>> /\ Head(s \o t) = Head(s) /\ Tail(s \o t) = Tail(s) \o t
    OBVIOUS

\* the mark and the commands behind it
Marked(listed) == <<END>> \o After(Automount, listed)

\* Behind the mark are the commands after the automount ones.
LEMMA MarkedTail ==
    ASSUME NEW listed \in Nat
    PROVE  /\ Marked(listed) \in Seq(Nat) /\ Marked(listed) # <<>>
           /\ Head(Marked(listed)) = END /\ Tail(Marked(listed)) = After(Automount, listed)
<1>1. /\ <<END>> \in Seq(Nat) /\ <<END>> # <<>> /\ Head(<<END>>) = END
      /\ Tail(<<END>>) = <<>>
    BY DEF END
<1>2. After(Automount, listed) \in Seq(Nat)
    BY Counts, AfterType
<1>3. /\ Marked(listed) \in Seq(Nat) /\ Marked(listed) # <<>> /\ Head(Marked(listed)) = END
      /\ Tail(Marked(listed)) = <<>> \o After(Automount, listed)
    BY <1>1, <1>2, TailBefore DEF Marked
<1> QED BY <1>2, <1>3, ConcatEmptySeq

\* A command listed goes behind the mark.
LEMMA MarkedAppend ==
    ASSUME NEW listed \in Nat, Automount <= listed, NEW next \in Nat, next = listed + 1
    PROVE  Append(Marked(listed), next) = Marked(next)
<1>1. <<END>> \in Seq(Nat) /\ After(Automount, listed) \in Seq(Nat)
    BY Counts, AfterType DEF END
<1>2. Append(Marked(listed), next) = <<END>> \o Append(After(Automount, listed), next)
    BY <1>1, AppendBehind DEF Marked
<1> QED BY <1>2, Counts, AfterAppend DEF Marked

\* the list that belongs to a state of the bridge
Expected(where, last, listed) ==
    IF where = "automount" THEN After(last, Automount) \o Marked(listed)
    ELSE After(last, listed)

\* Expected is the list that the property describes,
LEMMA ExpectedIs ==
    ASSUME NEW where, NEW last \in Nat, NEW listed \in Nat
    PROVE  Expected(where, last, listed) =
              IF where = "automount"
                THEN Numbers(last + 1, Automount) \o <<END>> \o Numbers(Automount + 1, listed)
                ELSE Numbers(last + 1, listed)
<1>1. PICK f \in Seq(Nat), m \in Seq(Nat), r \in Seq(Nat) :
          f = After(last, Automount) /\ m = <<END>> /\ r = After(Automount, listed)
    <2>1. /\ After(last, Automount) \in Seq(Nat) /\ After(Automount, listed) \in Seq(Nat)
          /\ <<END>> \in Seq(Nat)
        BY Counts, AfterType DEF END
    <2> QED BY <2>1
<1>2. (f \o m) \o r = f \o (m \o r)
    BY ConcatAssociative
<1> QED BY <1>1, <1>2 DEF Expected, Marked, After

\* so that the property says that the list is the expected one.
LEMMA InOrderIsExpected ==
    ASSUME taken \in Nat, accepted \in Nat
    PROVE  ListInOrder <=> commandList = Expected(at, taken, accepted)
    BY ExpectedIs DEF ListInOrder

\* sendCommand appends the next number, before or after the mark is taken.
LEMMA sendCommandKeeps ==
    ASSUME BridgeInv, sendCommand
    PROVE  BridgeInv'
<1>1. /\ taken \in Nat /\ accepted \in Nat /\ taken <= accepted /\ Automount <= accepted
      /\ commandList = Expected(at, taken, accepted)
    BY InOrderIsExpected DEF BridgeInv
<1>2. PICK next \in Nat : next = accepted + 1
    BY <1>1
<1>3. /\ accepted' = next /\ taken' = taken /\ at' = at
      /\ commandList' = Append(commandList, next)
    BY <1>2 DEF sendCommand
<1>4. commandList' = Expected(at, taken, next)
    <2>1. CASE at = "automount"
        <3>1. After(taken, Automount) \in Seq(Nat) /\ Marked(accepted) \in Seq(Nat)
            BY <1>1, Counts, AfterType, MarkedTail
        <3>2. Append(Marked(accepted), next) = Marked(next)
            BY <1>1, <1>2, MarkedAppend
        <3>3. Append(After(taken, Automount) \o Marked(accepted), next)
                = After(taken, Automount) \o Append(Marked(accepted), next)
            BY <3>1, AppendBehind
        <3> QED BY <1>1, <1>3, <2>1, <3>2, <3>3 DEF Expected
    <2>2. CASE at # "automount"
        BY <1>1, <1>2, <1>3, <2>2, AfterAppend DEF Expected
    <2> QED BY <2>1, <2>2
<1>5. commandList' = Expected(at', taken', accepted') /\ taken' \in Nat /\ accepted' \in Nat
    BY <1>1, <1>3, <1>4
<1>6. ListInOrder'
    BY <1>5, ExpectedIs DEF ListInOrder
<1> QED BY <1>1, <1>2, <1>3, <1>6, Counts DEF BridgeInv

\* The shell takes the number after the last it taken; the mark stops it before
\* a command behind it.
LEMMA GetCommandKeeps ==
    ASSUME BridgeInv, NEW line, GetCommand(line)
    PROVE  BridgeInv'
<1>1. /\ taken \in Nat /\ accepted \in Nat /\ taken <= accepted /\ Automount <= accepted
      /\ commandList = Expected(at, taken, accepted)
    BY InOrderIsExpected DEF BridgeInv
<1>2. /\ commandList # <<>> /\ Head(commandList) # END
      /\ commandList' = Tail(commandList) /\ taken' = Head(commandList)
      /\ accepted' = accepted /\ at' = at
    BY DEF GetCommand, Taking
<1>3. PICK next \in Nat : next = taken + 1
    BY <1>1
<1>4. /\ taken' = next /\ next <= accepted /\ commandList' = Expected(at, next, accepted)
      /\ at = "automount" => next <= Automount
    <2>1. CASE at = "automount"
        <3>1. /\ After(taken, Automount) \in Seq(Nat) /\ Marked(accepted) \in Seq(Nat)
              /\ Head(Marked(accepted)) = END
              /\ commandList = After(taken, Automount) \o Marked(accepted)
            BY <1>1, <2>1, Counts, AfterType, MarkedTail DEF Expected
        <3>2. taken < Automount
            <4>1. SUFFICES ASSUME taken = Automount PROVE FALSE
                BY <1>1, <2>1, Counts DEF BridgeInv
            <4>2. commandList = Marked(accepted)
                BY <1>1, <3>1, <4>1, AfterLast, ConcatEmptySeq
            <4> QED BY <1>2, <3>1, <4>2
        <3>3. /\ After(taken, Automount) # <<>> /\ Head(After(taken, Automount)) = next
              /\ Tail(After(taken, Automount)) = After(next, Automount)
            BY <1>1, <1>3, <3>2, Counts, AfterTail
        <3>4. /\ Head(commandList) = next
              /\ Tail(commandList) = After(next, Automount) \o Marked(accepted)
            BY <3>1, <3>3, TailBefore
        <3>5. next <= Automount /\ next <= accepted
            BY <1>1, <1>3, <3>2, Counts
        <3>6. taken' = next /\ commandList' = Expected(at, next, accepted)
            BY <1>2, <2>1, <3>4 DEF Expected
        <3> QED BY <3>5, <3>6
    <2>2. CASE at # "automount"
        <3>1. commandList = After(taken, accepted)
            BY <1>1, <2>2 DEF Expected
        <3>2. taken < accepted
            BY <1>1, <1>2, <3>1, AfterLast
        <3> QED BY <1>1, <1>2, <1>3, <2>2, <3>1, <3>2, AfterTail DEF Expected
    <2> QED BY <2>1, <2>2
<1>5. commandList' = Expected(at', taken', accepted') /\ taken' \in Nat /\ accepted' \in Nat
    BY <1>1, <1>2, <1>3, <1>4
<1>6. ListInOrder'
    BY <1>5, ExpectedIs DEF ListInOrder
<1> QED BY <1>1, <1>2, <1>3, <1>4, <1>6 DEF BridgeInv

\* The automount loop ends at the mark only with all automount commands taken,
\* and the list is never empty before the mark.
LEMMA EndAutomountKeeps ==
    ASSUME BridgeInv, EndAutomount
    PROVE  BridgeInv'
<1>1. /\ taken \in Nat /\ accepted \in Nat /\ taken <= accepted /\ Automount <= accepted
      /\ taken <= Automount /\ at = "automount" /\ at' = "loop"
      /\ commandList = Expected(at, taken, accepted) /\ accepted' = accepted /\ taken' = taken
    BY InOrderIsExpected DEF BridgeInv, EndAutomount
<1>2. /\ After(taken, Automount) \in Seq(Nat) /\ Marked(accepted) \in Seq(Nat)
      /\ Marked(accepted) # <<>> /\ Tail(Marked(accepted)) = After(Automount, accepted)
      /\ commandList = After(taken, Automount) \o Marked(accepted)
    BY <1>1, Counts, AfterType, MarkedTail DEF Expected
<1>3. taken = Automount
    <2>1. SUFFICES ASSUME taken < Automount PROVE FALSE
        BY <1>1, Counts
    <2>2. PICK next \in Nat : next = taken + 1
        BY <1>1
    <2>3. After(taken, Automount) # <<>> /\ Head(After(taken, Automount)) = next
        BY <1>1, <2>1, <2>2, Counts, AfterTail
    <2>4. commandList # <<>> /\ Head(commandList) = next
        BY <1>2, <2>3, TailBefore
    <2> QED BY <1>1, <2>2, <2>4 DEF EndAutomount, END
<1>4. commandList = Marked(accepted)
    BY <1>1, <1>2, <1>3, AfterLast, ConcatEmptySeq
<1>5. commandList' = Expected(at', taken', accepted')
    BY <1>1, <1>2, <1>3, <1>4 DEF EndAutomount, Expected
<1>6. ListInOrder'
    BY <1>1, <1>5, ExpectedIs DEF ListInOrder
<1> QED BY <1>1, <1>6 DEF BridgeInv

\* No other step touches the list.
LEMMA BridgeStep == BridgeInv /\ [Next]_vars => BridgeInv'
<1> SUFFICES ASSUME BridgeInv, BridgeNext PROVE BridgeInv'
    BY BridgeSteps
<1>1. CASE sendCommand
    BY <1>1, sendCommandKeeps
<1>2. ASSUME NEW line \in Lines, GetCommand(line)
      PROVE  BridgeInv'
    BY <1>2, GetCommandKeeps
<1>3. CASE EndAutomount
    BY <1>3, EndAutomountKeeps
<1>4. ASSUME commandList' = commandList, accepted' = accepted, taken' = taken,
             at' = at \/ (at # "automount" /\ at' # "automount")
      PROVE  BridgeInv'
    BY <1>4 DEF BridgeInv, ListInOrder
<1>5. CASE NoBatch \/ Prompt
    BY <1>4, <1>5 DEF NoBatch, Prompt
<1>6. ASSUME NEW own \in BOOLEAN, NEW line \in Lines, InputCommand(own, line)
      PROVE  BridgeInv'
    BY <1>4, <1>6 DEF InputCommand
<1>7. CASE sendReturn \/ SwallowReturn \/ EndBatch \/ (\E line \in Lines : ReadLine(line))
           \/ UNCHANGED bridgeVars
    BY <1>4, <1>7 DEF sendReturn, SwallowReturn, EndBatch, ReadLine, bridgeVars
<1> QED BY <1>1, <1>2, <1>3, <1>5, <1>6, <1>7 DEF BridgeNext

\* The list that start() makes is the expected one.
LEMMA BridgeInitially ==
    Init => BridgeInv
<1> SUFFICES ASSUME BridgeInit PROVE BridgeInv
    BY DEF Init
<1>1. Numbers(0 + 1, Automount) = Numbers(1, Automount)
    OBVIOUS
<1> QED BY <1>1, Counts DEF BridgeInit, BridgeInv, ListInOrder

\* The batch files: what the list or the user sets waits unread until the head of
\* the loop reads it, and the shell leaves the head of the loop with none left.
BatchInv ==
    /\ bf \in Seq({"unread", "begun"})
    /\ at = "automount" => bf = <<"unread">>
    /\ at # "loop" => bf \in Seq({"unread"})

\* ParseLine sets a batch file of which no line has been read.
LEMMA ParsedType ==
    ASSUME NEW S, "unread" \in S, NEW files \in Seq(S), NEW line
    PROVE  Parsed(files, line) \in Seq(S)
<1>1. <<"unread">> \o files \in Seq(S)
    OBVIOUS
<1>2. ASSUME files # <<>>
      PROVE  <<"unread">> \o Tail(files) \in Seq(S)
    BY <1>2
<1> QED BY <1>1, <1>2 DEF Parsed

\* Only the head of the loop reads batch files, and it goes on when none is left.
LEMMA BatchStep == BatchInv /\ [Next]_vars => BatchInv'
<1> SUFFICES ASSUME BatchInv, BridgeNext PROVE BatchInv'
    BY BridgeSteps
<1>1. ASSUME NEW line \in Lines, GetCommand(line)
      PROVE  BatchInv'
    <2>1. /\ at \in {"automount", "drain"} /\ at' = at /\ bf' = Parsed(bf, line)
          /\ at = "automount" => line = "command"
        BY <1>1 DEF GetCommand, Taking
    <2>2. /\ Parsed(bf, line) \in Seq({"unread", "begun"})
          /\ Parsed(bf, line) \in Seq({"unread"})
        BY <2>1, ParsedType DEF BatchInv
    <2>3. at = "automount" => Parsed(bf, line) = bf
        BY <2>1 DEF Parsed
    <2> QED BY <2>1, <2>2, <2>3 DEF BatchInv
<1>2. ASSUME NEW line \in Lines, ReadLine(line)
      PROVE  BatchInv'
    <2>1. /\ at = "loop" /\ at' = at /\ bf # <<>>
          /\ bf' = Parsed(<<"begun">> \o Tail(bf), line)
        BY <1>2 DEF ReadLine
    <2>2. <<"begun">> \o Tail(bf) \in Seq({"unread", "begun"})
        BY <2>1 DEF BatchInv
    <2>3. bf' \in Seq({"unread", "begun"})
        BY <2>1, <2>2, ParsedType
    <2> QED BY <2>1, <2>3 DEF BatchInv
<1>3. ASSUME NEW own \in BOOLEAN, NEW line \in Lines, InputCommand(own, line)
      PROVE  BatchInv'
    <2>1. at' = "loop" /\ bf' = Parsed(bf, line)
        BY <1>3 DEF InputCommand
    <2>2. Parsed(bf, line) \in Seq({"unread", "begun"})
        BY ParsedType DEF BatchInv
    <2> QED BY <2>1, <2>2 DEF BatchInv
<1>4. CASE EndBatch
    BY <1>4 DEF EndBatch, BatchInv
<1>5. CASE EndAutomount \/ Prompt
    BY <1>5 DEF EndAutomount, Prompt, BatchInv
<1>6. CASE NoBatch
    BY <1>6 DEF NoBatch, BatchInv
<1>7. CASE sendCommand \/ sendReturn \/ SwallowReturn \/ UNCHANGED bridgeVars
    BY <1>7 DEF sendCommand, sendReturn, SwallowReturn, bridgeVars, BatchInv
<1> QED BY <1>1, <1>2, <1>3, <1>4, <1>5, <1>6, <1>7 DEF BridgeNext

\* Before the first step only AUTOEXEC.BAT is set.
LEMMA BatchInitially == Init => BatchInv
    BY DEF Init, BridgeInit, BatchInv

\* Commands from start() and sendCommand (DOSPadEmulator.m) are taken by the two
\* loops of DOS_Shell::Run (shell.cpp) in the order they were listed, each once,
\* and never between two lines of a batch file.
THEOREM TakenInOrderHolds == Spec => []TakenInOrder
<1>1. Init => BridgeInv /\ BatchInv
    BY BridgeInitially, BatchInitially
<1>2. BridgeInv /\ BatchInv /\ [Next]_vars => BridgeInv' /\ BatchInv'
    BY BridgeStep, BatchStep
<1>3. BridgeInv /\ BatchInv => TakenInOrder
    BY DEF BridgeInv, BatchInv, ListInOrder, TakenInOrder
<1> QED BY <1>1, <1>2, <1>3, PTL DEF Spec

-----------------------------------------------------------------------------
(* Files and the handles that name them.                                   *)

TableSizes == {TableSize} \cup {m + 2 : m \in LongTables} \cup LongTables
FileType == [refs : Nat, open : BOOLEAN, inherit : BOOLEAN]

TableOK(table) == \E n \in TableSizes : table \in [0..(n - 1) -> Entries \cup {Closed}]

\* NamesOf, of any tables
Names(t, f) ==
    {h \in UNION {{q} \X DOMAIN t[q] : q \in DOMAIN t} : t[h[1]][h[2]] = f}

\* its two parts, those in the table of p and the others
Count(t, p, f) == IF p \in DOMAIN t THEN Cardinality(Named(t[p], f)) ELSE 0
Others(t, p, f) == {h \in Names(t, f) : h[1] # p}

\* one, if they are the same
One(g, f) == IF g = f THEN 1 ELSE 0

\* An entry is free, or open and counts something.
EntryOK(file) == file = NoFile \/ (file.open /\ file.refs > 0)

Typed ==
    /\ Files \in [Entries -> FileType]
    /\ lost \in [Entries -> Nat]
    /\ DOMAIN tables = Procs
    /\ \A p \in DOMAIN tables : TableOK(tables[p])

FileInv ==
    /\ Typed
    /\ \A f \in Entries : IsFiniteSet(NamesOf(f)) /\ EntryOK(Files[f])
    /\ RefsCounted

-----------------------------------------------------------------------------
(* Tables and the handles in them.                                         *)

\* The parameters are numbers, and no entry is the closed handle.
LEMMA FileNumbers ==
    /\ DOS_FILES \in Nat /\ TableSize \in Nat /\ 0 < TableSize /\ 0 \in Entries
    /\ Entries \subseteq Nat /\ Closed \notin Entries
    /\ \A n \in TableSizes : n \in Nat /\ TableSize <= n
    BY FilesAssumption DEF Entries, Closed, TableSizes

\* The handles of a table that name a file are finitely many.
LEMMA NamedFinite ==
    ASSUME NEW table, TableOK(table), NEW f
    PROVE  IsFiniteSet(Named(table, f)) /\ Cardinality(Named(table, f)) \in Nat
<1>1. PICK n \in TableSizes : DOMAIN table = 0..(n - 1)
    BY DEF TableOK
<1>2. IsFiniteSet(0..(n - 1))
    <2>1. 0 \in Int /\ n - 1 \in Int
        BY FileNumbers
    <2> QED BY <2>1, FS_Interval
<1>3. Named(table, f) \in SUBSET (0..(n - 1))
    BY <1>1 DEF Named
<1> QED BY <1>2, <1>3, FS_Subset, FS_CardinalityType

\* A handle that names a file counts.
LEMMA NamedSome ==
    ASSUME NEW table, TableOK(table), NEW i \in DOMAIN table
    PROVE  Cardinality(Named(table, table[i])) > 0
<1>1. Named(table, table[i]) # {}
    BY DEF Named
<1>2. Cardinality(Named(table, table[i])) # 0
    BY <1>1, NamedFinite, FS_EmptySet
<1> QED BY <1>2, NamedFinite

\* Two handles that name it count twice.
LEMMA NamedTwice ==
    ASSUME NEW table, TableOK(table), NEW i \in DOMAIN table, NEW j \in DOMAIN table,
           i # j, table[i] = table[j]
    PROVE  Cardinality(Named(table, table[i])) > 1
<1> DEFINE S == Named(table, table[i])
<1>1. IsFiniteSet(S) /\ Cardinality(S) \in Nat /\ i \in S /\ j \in S
    BY NamedFinite DEF Named
<1> HIDE DEF S
<1>2. IsFiniteSet(S \ {j}) /\ Cardinality(S \ {j}) = Cardinality(S) - 1 /\ S \ {j} # {}
    BY <1>1, FS_RemoveElement
<1>3. Cardinality(S \ {j}) # 0 /\ Cardinality(S \ {j}) \in Nat
    BY <1>2, FS_EmptySet, FS_CardinalityType
<1>4. Cardinality(S) > 1
    BY <1>1, <1>2, <1>3
<1> QED BY <1>4 DEF S

\* new is the table with the handle i set to g.
Sets(table, new, i, g) ==
    /\ TableOK(new) /\ DOMAIN new = DOMAIN table /\ i \in DOMAIN table /\ new[i] = g
    /\ \A j \in DOMAIN table : j # i => new[j] = table[j]

\* EXCEPT sets a handle.
LEMMA SetsIs ==
    ASSUME NEW table, TableOK(table), NEW i \in DOMAIN table, NEW g \in Entries \cup {Closed}
    PROVE  Sets(table, [table EXCEPT ![i] = g], i, g)
BY DEF Sets, TableOK

\* A handle that is set to g names what it named no more, and g.
LEMMA SetHandle ==
    ASSUME NEW table, TableOK(table), NEW new, NEW i, NEW g, Sets(table, new, i, g), NEW f
    PROVE  Cardinality(Named(new, f)) + One(table[i], f)
              = Cardinality(Named(table, f)) + One(g, f)
<1>1. /\ DOMAIN new = DOMAIN table /\ new[i] = g /\ i \in DOMAIN table
      /\ \A j \in DOMAIN table : j # i => new[j] = table[j]
    BY DEF Sets
<1> DEFINE S == Named(table, f)
           N == Named(new, f)
<1>2. IsFiniteSet(S) /\ Cardinality(S) \in Nat /\ (i \in S <=> table[i] = f)
    BY <1>1, NamedFinite DEF Named
<1>3. /\ i \in N <=> g = f
      /\ N \ {i} = S \ {i}
      /\ i \in N => N = (S \ {i}) \cup {i}
      /\ i \notin N => N = S \ {i}
    BY <1>1 DEF Named
<1> HIDE DEF S, N
<1>4. /\ IsFiniteSet(S \ {i}) /\ i \notin S \ {i}
      /\ Cardinality(S \ {i}) = IF i \in S THEN Cardinality(S) - 1 ELSE Cardinality(S)
    BY <1>2, FS_RemoveElement
<1>5. Cardinality((S \ {i}) \cup {i}) = Cardinality(S \ {i}) + 1
    BY <1>4, FS_AddElement
<1>6. Cardinality(N) = Cardinality(S \ {i}) + One(g, f)
    <2>1. Cardinality(S \ {i}) \in Nat
        BY <1>4, FS_CardinalityType
    <2>2. CASE g = f
        <3>1. N = (S \ {i}) \cup {i}
            BY <1>3, <2>2
        <3> QED BY <1>5, <2>2, <3>1 DEF One
    <2>3. CASE g # f
        <3>1. N = S \ {i}
            BY <1>3, <2>3
        <3> QED BY <2>1, <2>3, <3>1 DEF One
    <2> QED BY <2>2, <2>3
<1>7. Cardinality(N) + One(table[i], f)
        = Cardinality(S) + One(g, f)
    BY <1>2, <1>4, <1>6 DEF One
<1> QED BY <1>7 DEF S, N

\* The handles that name a file, in two parts.
LEMMA NamesSplit ==
    ASSUME NEW t, NEW p, NEW f, p \in DOMAIN t => TableOK(t[p]), IsFiniteSet(Others(t, p, f))
    PROVE  /\ IsFiniteSet(Names(t, f))
           /\ Cardinality(Names(t, f)) = Cardinality(Others(t, p, f)) + Count(t, p, f)
           /\ Cardinality(Others(t, p, f)) \in Nat /\ Count(t, p, f) \in Nat
<1> DEFINE O == Others(t, p, f)
<1>1. IsFiniteSet(O) /\ Cardinality(O) \in Nat
    BY FS_CardinalityType
<1>2. CASE p \in DOMAIN t
    <2> DEFINE N == Named(t[p], f)
               M == {p} \X N
    <2>1. IsFiniteSet(N) /\ Cardinality(N) \in Nat
        BY <1>2, NamedFinite
    <2>2. IsFiniteSet(M) /\ Cardinality(M) = Cardinality(N)
        <3> HIDE DEF N
        <3>1. IsFiniteSet({p}) /\ Cardinality({p}) = 1
            BY FS_Singleton
        <3>2. IsFiniteSet(M) /\ Cardinality(M) = Cardinality({p}) * Cardinality(N)
            BY <2>1, <3>1, FS_Product
        <3> QED BY <2>1, <3>1, <3>2
    <2>3. Names(t, f) = O \cup M /\ O \cap M = {}
        <3>1. \A i \in DOMAIN t[p] : <<p, i>> \in UNION {{q} \X DOMAIN t[q] : q \in DOMAIN t}
            BY <1>2
        <3>2. M \subseteq Names(t, f)
            BY <3>1 DEF Names, Named
        <3>3. ASSUME NEW h \in Names(t, f), h \notin O
              PROVE  h \in M
            <4>1. h[1] = p
                BY <3>3 DEF Others
            <4>2. PICK q \in DOMAIN t : h \in {q} \X DOMAIN t[q]
                BY DEF Names
            <4>3. t[h[1]][h[2]] = f
                BY DEF Names
            <4> QED BY <4>1, <4>2, <4>3 DEF Named
        <3> QED BY <3>2, <3>3 DEF Others
    <2>4. Count(t, p, f) = Cardinality(N)
        BY <1>2 DEF Count
    <2> HIDE DEF O, M, N
    <2>5. IsFiniteSet(O \cup M) /\ Cardinality(O \cup M) = Cardinality(O) + Cardinality(M) - 0
        BY <1>1, <2>2, <2>3, FS_Union, FS_EmptySet
    <2> QED BY <1>1, <2>1, <2>2, <2>3, <2>4, <2>5 DEF O
<1>3. CASE p \notin DOMAIN t
    <2>1. Names(t, f) = O
        BY <1>3 DEF Names, Others
    <2> QED BY <1>1, <1>3, <2>1 DEF Count
<1> QED BY <1>2, <1>3

\* The other part, of tables that differ in one process only.
LEMMA OthersSame ==
    ASSUME NEW t, NEW u, NEW p, NEW f, DOMAIN t \ {p} = DOMAIN u \ {p},
           \A q \in DOMAIN t \ {p} : t[q] = u[q]
    PROVE  Others(t, p, f) = Others(u, p, f)
<1>1. ASSUME NEW v, NEW w, DOMAIN v \ {p} = DOMAIN w \ {p},
             \A q \in DOMAIN v \ {p} : v[q] = w[q], NEW h \in Others(v, p, f)
      PROVE  h \in Others(w, p, f)
    <2>1. h \in Names(v, f) /\ h[1] # p
        BY DEF Others
    <2>2. PICK q \in DOMAIN v : h \in {q} \X DOMAIN v[q]
        BY <2>1 DEF Names
    <2>3. q # p /\ q \in DOMAIN w /\ w[q] = v[q]
        BY <1>1, <2>1, <2>2
    <2>4. h[1] = q /\ v[h[1]][h[2]] = f
        BY <2>1, <2>2 DEF Names
    <2> QED BY <2>1, <2>2, <2>3, <2>4 DEF Others, Names
<1>2. Others(t, p, f) \subseteq Others(u, p, f)
    BY <1>1
<1>3. \A q \in DOMAIN u \ {p} : u[q] = t[q]
    OBVIOUS
<1>4. Others(u, p, f) \subseteq Others(t, p, f)
    BY <1>1, <1>3
<1> QED BY <1>2, <1>4

\* The names are those of the state's tables.
LEMMA NamesAre == \A f : NamesOf(f) = Names(tables, f)
    BY DEF NamesOf, Names, Handles

-----------------------------------------------------------------------------
(* Steps that change one table.                                            *)

\* Every handle that names a file is counted by its entry.
LEMMA Held ==
    ASSUME FileInv, NEW p \in Procs, NEW f \in Entries
    PROVE  /\ Files[f] \in FileType /\ lost[f] \in Nat /\ Count(tables, p, f) \in Nat
           /\ Count(tables, p, f) = Cardinality(Named(tables[p], f))
           /\ Count(tables, p, f) <= Files[f].refs
<1>1. TableOK(tables[p]) /\ p \in DOMAIN tables /\ IsFiniteSet(Names(tables, f))
    BY NamesAre DEF FileInv, Typed
<1>2. IsFiniteSet(Others(tables, p, f))
    BY <1>1, FS_Subset DEF Others
<1>3. /\ Cardinality(Names(tables, f)) = Cardinality(Others(tables, p, f)) + Count(tables, p, f)
      /\ Cardinality(Others(tables, p, f)) \in Nat /\ Count(tables, p, f) \in Nat
    BY <1>1, <1>2, NamesSplit
<1>4. Files[f] \in FileType /\ lost[f] \in Nat
    BY DEF FileInv, Typed
<1>5. Files[f].refs = Cardinality(Names(tables, f)) + lost[f]
    BY NamesAre DEF FileInv, RefsCounted
<1> QED BY <1>1, <1>3, <1>4, <1>5 DEF Count, FileType

\* A step that changes the table of one process, and the counts by as much.
LEMMA OneTable ==
    ASSUME FileInv, Typed', NEW p,
           DOMAIN tables' \ {p} = DOMAIN tables \ {p},
           \A q \in DOMAIN tables \ {p} : tables'[q] = tables[q],
           \A f \in Entries :
               /\ EntryOK(Files'[f])
               /\ Files'[f].refs + lost[f] + Count(tables, p, f)
                    = Files[f].refs + lost'[f] + Count(tables', p, f)
    PROVE  FileInv'
<1> SUFFICES ASSUME NEW f \in Entries
             PROVE  /\ IsFiniteSet(NamesOf(f))' 
                    /\ Files'[f].refs = Cardinality(NamesOf(f))' + lost'[f]
    BY DEF FileInv, RefsCounted
<1>1. IsFiniteSet(Names(tables, f))
    BY NamesAre DEF FileInv
<1>2. IsFiniteSet(Others(tables, p, f))
    BY <1>1, FS_Subset DEF Others
<1>3. Others(tables', p, f) = Others(tables, p, f)
    BY OthersSame
<1>4. /\ Cardinality(Names(tables, f)) = Cardinality(Others(tables, p, f)) + Count(tables, p, f)
      /\ Count(tables, p, f) \in Nat /\ Cardinality(Others(tables, p, f)) \in Nat
    BY <1>2, NamesSplit DEF FileInv, Typed
<1>5. /\ IsFiniteSet(Names(tables', f))
      /\ Cardinality(Names(tables', f)) = Cardinality(Others(tables, p, f)) + Count(tables', p, f)
      /\ Count(tables', p, f) \in Nat
    <2>1. p \in DOMAIN tables' => TableOK(tables'[p])
        BY DEF Typed, TableOK, TableSizes, Entries, Closed
    <2> QED BY <1>2, <1>3, <2>1, NamesSplit
<1>6. Files[f].refs = Cardinality(Names(tables, f)) + lost[f]
    BY NamesAre DEF FileInv, RefsCounted
<1>7. NamesOf(f)' = Names(tables', f)
    BY DEF NamesOf, Names, Handles
<1>8. Files[f].refs \in Nat /\ Files'[f].refs \in Nat /\ lost[f] \in Nat /\ lost'[f] \in Nat
    BY DEF FileInv, Typed, FileType, Entries
<1>9. Files'[f].refs = Cardinality(Names(tables', f)) + lost'[f]
    <2>1. Files'[f].refs + lost[f] + Count(tables, p, f)
            = Files[f].refs + lost'[f] + Count(tables', p, f)
        OBVIOUS
    <2>2. Files[f].refs = Cardinality(Others(tables, p, f)) + Count(tables, p, f) + lost[f]
        BY <1>4, <1>6
    <2>3. Files'[f].refs = Cardinality(Others(tables, p, f)) + Count(tables', p, f) + lost'[f]
        BY <1>4, <1>5, <1>8, <2>1, <2>2
    <2> QED BY <1>5, <2>3
<1>10. IsFiniteSet(NamesOf(f)')
    BY <1>5, <1>7
<1>11. Files'[f].refs = Cardinality(NamesOf(f)') + lost'[f]
    BY <1>7, <1>9
<1> QED BY <1>10, <1>11

-----------------------------------------------------------------------------
(* The calls of interrupt 21h that change handles.                         *)

FilesOK(files) == files \in [Entries -> FileType] /\ \A f \in Entries : EntryOK(files[f])

\* An entry in use that loses some of its references: it has the rest.
LEMMA ReleaseFacts ==
    ASSUME NEW file \in FileType, EntryOK(file), NEW n \in Nat, 0 < n, n <= file.refs
    PROVE  /\ Release(file, n) \in FileType /\ EntryOK(Release(file, n))
           /\ Release(file, n).refs = file.refs - n
<1> DEFINE new == Release(file, n)
<1>1. CASE file.refs = n
    <2>1. new = NoFile
        BY <1>1 DEF Release
    <2> HIDE DEF new
    <2>2. /\ new \in FileType /\ EntryOK(new) /\ new.refs = file.refs - n
        BY <1>1, <2>1 DEF NoFile, FileType, EntryOK
    <2> QED BY <2>2 DEF new
<1>2. CASE n < file.refs
    <2>1. new = [file EXCEPT !.refs = file.refs - n]
        BY <1>2 DEF Release, FileType
    <2>2. file.open
        BY <1>2 DEF EntryOK, NoFile
    <2> HIDE DEF new
    <2>3. /\ new \in FileType /\ EntryOK(new) /\ new.refs = file.refs - n
        BY <1>2, <2>1, <2>2 DEF FileType, EntryOK
    <2> QED BY <2>3 DEF new
<1> QED BY <1>1, <1>2 DEF FileType

\* One reference more to an entry that is in use.
LEMMA AddRefFacts ==
    ASSUME NEW files, FilesOK(files), NEW g \in Entries, files[g].refs > 0
    PROVE  /\ FilesOK(AddRef(files, g))
           /\ \A f \in Entries :
                 AddRef(files, g)[f].refs = files[f].refs + One(g, f)
<1> DEFINE new == AddRef(files, g)
<1>1. DOMAIN new = Entries
    BY DEF FilesOK, AddRef
<1>2. ASSUME NEW f \in Entries
      PROVE  /\ new[f] \in FileType /\ EntryOK(new[f])
             /\ new[f].refs = files[f].refs + One(g, f)
    <2>1. files[f] \in FileType /\ EntryOK(files[f])
        BY DEF FilesOK
    <2>2. CASE f = g
        <3>1. new[f] = [files[f] EXCEPT !.refs = files[f].refs + 1]
            BY <2>2 DEF FilesOK, AddRef
        <3>2. files[f].open /\ files[f].refs > 0
            BY <2>1, <2>2 DEF EntryOK, NoFile
        <3> HIDE DEF new
        <3> QED BY <2>1, <2>2, <3>1, <3>2 DEF FileType, EntryOK, One
    <2>3. CASE f # g
        <3>1. new[f] = files[f]
            BY <2>3 DEF FilesOK, AddRef
        <3> HIDE DEF new
        <3> QED BY <2>1, <2>3, <3>1 DEF FileType, One
    <2> QED BY <2>2, <2>3
<1>3. new = [f \in Entries |-> new[f]]
    BY <1>1 DEF FilesOK, AddRef
<1> HIDE DEF new
<1>4. FilesOK(new)
    BY <1>2, <1>3 DEF FilesOK
<1> QED BY <1>2, <1>4 DEF new

\* One less; the entry is free with the last.
LEMMA RemoveRefFacts ==
    ASSUME NEW files, FilesOK(files), NEW g \in Entries, files[g].refs > 0
    PROVE  /\ FilesOK(RemoveRef(files, g))
           /\ \A f \in Entries :
                 RemoveRef(files, g)[f].refs + One(g, f) = files[f].refs
<1> DEFINE new == RemoveRef(files, g)
<1>1. DOMAIN new = Entries
    BY DEF FilesOK, RemoveRef
<1>2. ASSUME NEW f \in Entries
      PROVE  /\ new[f] \in FileType /\ EntryOK(new[f])
             /\ new[f].refs + One(g, f) = files[f].refs
    <2>1. files[f] \in FileType /\ EntryOK(files[f])
        BY DEF FilesOK
    <2>2. CASE f = g
        <3>1. new[f] = Release(files[f], 1)
            BY <2>2 DEF FilesOK, RemoveRef
        <3>2. 1 \in Nat /\ 0 < 1 /\ 1 <= files[f].refs
            BY <2>1, <2>2 DEF FileType
        <3> HIDE DEF new
        <3>3. new[f] \in FileType /\ EntryOK(new[f]) /\ new[f].refs = files[f].refs - 1
            BY <2>1, <3>1, <3>2, ReleaseFacts
        <3> QED BY <2>1, <2>2, <3>3 DEF FileType, One
    <2>3. CASE f # g
        <3>1. new[f] = files[f]
            BY <2>3 DEF FilesOK, RemoveRef
        <3> HIDE DEF new
        <3> QED BY <2>1, <2>3, <3>1 DEF FileType, One
    <2> QED BY <2>2, <2>3
<1>3. new = [f \in Entries |-> new[f]]
    BY <1>1 DEF FilesOK, RemoveRef
<1> HIDE DEF new
<1>4. FilesOK(new)
    BY <1>2, <1>3 DEF FilesOK
<1> QED BY <1>2, <1>4 DEF new

\* What the invariant says of the process that calls.
LEMMA CallerFacts ==
    ASSUME FileInv, psp \in Procs
    PROVE  /\ FilesOK(Files) /\ TableOK(tables[psp]) /\ psp \in DOMAIN tables
           /\ \A i \in DOMAIN tables[psp] : tables[psp][i] # Closed =>
                 tables[psp][i] \in Entries /\ Files[tables[psp][i]].refs > 0
<1>1. FilesOK(Files) /\ TableOK(tables[psp]) /\ psp \in DOMAIN tables
    BY DEF FileInv, Typed, FilesOK
<1>2. ASSUME NEW i \in DOMAIN tables[psp], tables[psp][i] # Closed
      PROVE  tables[psp][i] \in Entries /\ Files[tables[psp][i]].refs > 0
    <2>1. tables[psp][i] \in Entries
        BY <1>1, <1>2 DEF TableOK
    <2>2. Cardinality(Named(tables[psp], tables[psp][i])) > 0
        BY <1>1, NamedSome
    <2> DEFINE f == tables[psp][i]
    <2>3. /\ Files[f] \in FileType /\ Count(tables, psp, f) \in Nat
          /\ Count(tables, psp, f) = Cardinality(Named(tables[psp], f))
          /\ Count(tables, psp, f) <= Files[f].refs
        <3> HIDE DEF f
        <3> QED BY <2>1, Held DEF f
    <2> HIDE DEF f
    <2>4. Files[f].refs > 0
        BY <2>2, <2>3 DEF FileType, f
    <2> QED BY <2>1, <2>4 DEF f
<1> QED BY <1>1, <1>2

\* A call that changes the caller's table.
LEMMA CallTable ==
    ASSUME FileInv, psp \in Procs, Procs' = Procs, NEW new, TableOK(new),
           tables' = [tables EXCEPT ![psp] = new],
           FilesOK(Files'), lost' \in [Entries -> Nat],
           \A f \in Entries :
               Files'[f].refs + lost[f] + Cardinality(Named(tables[psp], f))
                 = Files[f].refs + lost'[f] + Cardinality(Named(new, f))
    PROVE  FileInv'
<1>1. /\ DOMAIN tables = Procs /\ DOMAIN tables' = Procs /\ tables'[psp] = new
      /\ \A q \in Procs \ {psp} : tables'[q] = tables[q]
    BY DEF FileInv, Typed
<1>2. \A q \in Procs : TableOK(tables'[q])
    <2>1. \A q \in Procs : TableOK(tables[q])
        BY DEF FileInv, Typed
    <2> QED BY <1>1, <2>1
<1>3. Typed'
    BY <1>1, <1>2 DEF Typed, FilesOK, TableOK, TableSizes, Entries, FileType, Closed
<1>4. \A f \in Entries :
          /\ Count(tables, psp, f) = Cardinality(Named(tables[psp], f))
          /\ Count(tables', psp, f) = Cardinality(Named(new, f))
    BY <1>1 DEF Count
<1>5. \A f \in Entries : EntryOK(Files'[f])
    BY DEF FilesOK
<1> QED BY <1>1, <1>3, <1>4, <1>5, OneTable

\* A call that changes no table.
LEMMA CallKeeps ==
    ASSUME FileInv, psp \in Procs, Procs' = Procs, tables' = tables,
           FilesOK(Files'), lost' \in [Entries -> Nat],
           \A f \in Entries : Files'[f].refs + lost[f] = Files[f].refs + lost'[f]
    PROVE  FileInv'
<1>1. Typed'
    BY DEF FileInv, Typed, FilesOK, TableOK, TableSizes, Entries, FileType, Closed
<1>2. ASSUME NEW f \in Entries
      PROVE  /\ EntryOK(Files'[f])
             /\ Files'[f].refs + lost[f] + Count(tables, psp, f)
                   = Files[f].refs + lost'[f] + Count(tables', psp, f)
    <2>1. Count(tables', psp, f) = Count(tables, psp, f) /\ Count(tables, psp, f) \in Nat
        BY Held
    <2> QED BY <2>1 DEF FilesOK
<1> QED BY <1>1, <1>2, OneTable

\* A call that sets one handle of the caller.
LEMMA CallSets ==
    ASSUME FileInv, psp \in Procs, Procs' = Procs,
           NEW i \in DOMAIN tables[psp], NEW g \in Entries \cup {Closed},
           tables' = [tables EXCEPT ![psp][i] = g],
           FilesOK(Files'), lost' = lost,
           \A f \in Entries :
               Files'[f].refs + One(tables[psp][i], f) = Files[f].refs + One(g, f)
    PROVE  FileInv'
<1>1. FilesOK(Files) /\ TableOK(tables[psp])
    BY CallerFacts
<1>2. PICK new : new = [tables[psp] EXCEPT ![i] = g] /\ tables' = [tables EXCEPT ![psp] = new]
    OBVIOUS
<1>3. Sets(tables[psp], new, i, g)
    BY <1>1, <1>2, SetsIs
<1>4. /\ TableOK(new)
      /\ \A f : Cardinality(Named(new, f)) + One(tables[psp][i], f)
                   = Cardinality(Named(tables[psp], f)) + One(g, f)
    <2> DEFINE table == tables[psp]
    <2>1. TableOK(table) /\ Sets(table, new, i, g)
        BY <1>1, <1>3
    <2> HIDE DEF table
    <2>2. \A f : Cardinality(Named(new, f)) + One(table[i], f)
                    = Cardinality(Named(table, f)) + One(g, f)
        BY <2>1, SetHandle
    <2> QED BY <2>1, <2>2 DEF Sets, table
<1>5. ASSUME NEW f \in Entries
      PROVE  Files'[f].refs + lost[f] + Cardinality(Named(tables[psp], f))
                = Files[f].refs + lost'[f] + Cardinality(Named(new, f))
    <2>1. Cardinality(Named(new, f)) \in Nat /\ Cardinality(Named(tables[psp], f)) \in Nat
        BY <1>1, <1>4, NamedFinite
    <2>2. lost[f] \in Nat /\ Files[f].refs \in Nat /\ Files'[f].refs \in Nat
        BY <1>1 DEF FileInv, Typed, FilesOK, FileType
    <2>3. /\ Files'[f].refs + One(tables[psp][i], f) = Files[f].refs + One(g, f)
          /\ Cardinality(Named(new, f)) + One(tables[psp][i], f)
                = Cardinality(Named(tables[psp], f)) + One(g, f)
          /\ lost'[f] = lost[f]
        BY <1>4
    <2>4. One(tables[psp][i], f) \in {0, 1} /\ One(g, f) \in {0, 1}
        BY DEF One
    <2> QED BY <2>1, <2>2, <2>3, <2>4
<1>6. lost' \in [Entries -> Nat]
    BY DEF FileInv, Typed
<1> QED BY <1>2, <1>4, <1>5, <1>6, CallTable

\* Functions 3Ch and 3Dh: a free entry, with one reference.
LEMMA OpenStep ==
    ASSUME FileInv, psp \in Procs, Procs' = Procs, NEW inherit \in BOOLEAN,
           DOS_OpenFile(psp, inherit)
    PROVE  FileInv'
<1>1. PICK g \in FreeFile, i \in FreeHandle(tables[psp]) :
          /\ Files' = [Files EXCEPT ![g] = [refs |-> 1, open |-> TRUE, inherit |-> inherit]]
          /\ tables' = [tables EXCEPT ![psp][i] = g]
          /\ lost' = lost
    BY DEF DOS_OpenFile
<1>2. /\ g \in Entries /\ Files[g] = NoFile /\ i \in DOMAIN tables[psp]
      /\ tables[psp][i] = Closed
    BY DEF FreeFile, FreeHandle
<1>3. FilesOK(Files)
    BY CallerFacts
<1>4. ASSUME NEW f \in Entries
      PROVE  /\ Files'[f] \in FileType /\ EntryOK(Files'[f])
             /\ Files'[f].refs + One(tables[psp][i], f) = Files[f].refs + One(g, f)
    <2>1. Files[f] \in FileType /\ EntryOK(Files[f]) /\ One(tables[psp][i], f) = 0
        BY <1>2, <1>3, FileNumbers DEF FilesOK, One
    <2>2. CASE f = g
        <3>1. Files'[f] = [refs |-> 1, open |-> TRUE, inherit |-> inherit] /\ Files[f] = NoFile
            BY <1>1, <1>2, <1>3, <2>2 DEF FilesOK
        <3> QED BY <2>1, <2>2, <3>1 DEF FileType, EntryOK, NoFile, One
    <2>3. CASE f # g
        <3>1. Files'[f] = Files[f]
            BY <1>1, <1>3, <2>3 DEF FilesOK
        <3> QED BY <2>1, <2>3, <3>1 DEF FileType, One
    <2> QED BY <2>2, <2>3
<1>5. FilesOK(Files')
    <2>1. Files' = [f \in Entries |-> Files'[f]]
        BY <1>1, <1>3 DEF FilesOK
    <2> QED BY <1>4, <2>1 DEF FilesOK
<1> QED BY <1>1, <1>2, <1>4, <1>5, CallSets

\* Function 3Eh: the handle and the reference go.
LEMMA CloseStep ==
    ASSUME FileInv, psp \in Procs, Procs' = Procs, NEW i \in DOMAIN tables[psp],
           DOS_CloseFile(psp, i)
    PROVE  FileInv'
<1>1. PICK g : g = tables[psp][i]
    OBVIOUS
<1>2. /\ g # Closed /\ Files' = RemoveRef(Files, g) /\ lost' = lost
      /\ tables' = [tables EXCEPT ![psp][i] = Closed]
    BY <1>1 DEF DOS_CloseFile
<1>3. FilesOK(Files) /\ g \in Entries /\ Files[g].refs > 0
    BY <1>1, <1>2, CallerFacts
<1>4. FilesOK(Files') /\ \A f \in Entries : Files'[f].refs + One(g, f) = Files[f].refs
    BY <1>2, <1>3, RemoveRefFacts
<1>5. ASSUME NEW f \in Entries
      PROVE  Files'[f].refs + One(tables[psp][i], f) = Files[f].refs + One(Closed, f)
    BY <1>1, <1>3, <1>4, FileNumbers DEF One, FilesOK, FileType
<1> QED BY <1>2, <1>4, <1>5, CallSets

\* Function 45h: another handle, another reference.
LEMMA DuplicateStep ==
    ASSUME FileInv, psp \in Procs, Procs' = Procs, NEW i \in DOMAIN tables[psp],
           DOS_DuplicateEntry(psp, i)
    PROVE  FileInv'
<1>1. PICK g : g = tables[psp][i]
    OBVIOUS
<1>2. PICK j \in FreeHandle(tables[psp]) :
          /\ g # Closed /\ Files' = AddRef(Files, g) /\ lost' = lost
          /\ tables' = [tables EXCEPT ![psp][j] = g]
    BY <1>1 DEF DOS_DuplicateEntry
<1>3. FilesOK(Files) /\ g \in Entries /\ Files[g].refs > 0
    BY <1>1, <1>2, CallerFacts
<1>4. FilesOK(Files') /\ \A f \in Entries : Files'[f].refs = Files[f].refs + One(g, f)
    BY <1>2, <1>3, AddRefFacts
<1>5. j \in DOMAIN tables[psp] /\ tables[psp][j] = Closed
    BY DEF FreeHandle
<1>6. ASSUME NEW f \in Entries
      PROVE  Files'[f].refs + One(tables[psp][j], f) = Files[f].refs + One(g, f)
    BY <1>3, <1>4, <1>5, FileNumbers DEF One, FilesOK, FileType
<1>7. tables' = [tables EXCEPT ![psp][j] = g] /\ lost' = lost /\ FilesOK(Files')
    BY <1>2, <1>4
<1> QED BY <1>3, <1>5, <1>6, <1>7, CallSets

\* Function 46h: the handle j is closed first, and then names the file of i,
\* which is another handle of the same file if it was before.
LEMMA ForceDuplicateStep ==
    ASSUME FileInv, psp \in Procs, Procs' = Procs, NEW i \in DOMAIN tables[psp], NEW j,
           DOS_ForceDuplicateEntry(psp, i, j)
    PROVE  FileInv'
<1>1. PICK g : g = tables[psp][i]
    OBVIOUS
<1>2. g # Closed /\ i # j
    BY <1>1 DEF DOS_ForceDuplicateEntry
<1>3. FilesOK(Files) /\ TableOK(tables[psp]) /\ g \in Entries /\ Files[g].refs > 0
    BY <1>1, <1>2, CallerFacts
<1>4. CASE j \in DOMAIN tables[psp] /\ tables[psp][j] # Closed
    <2>1. PICK old : old = tables[psp][j]
        OBVIOUS
    <2>2. /\ Files' = AddRef(RemoveRef(Files, old), g) /\ lost' = lost
          /\ tables' = [tables EXCEPT ![psp][j] = g]
        BY <1>1, <1>4, <2>1 DEF DOS_ForceDuplicateEntry
    <2>3. old \in Entries /\ Files[old].refs > 0
        BY <1>4, <2>1, CallerFacts
    <2>4. PICK rest : rest = RemoveRef(Files, old)
        OBVIOUS
    <2>5. FilesOK(rest) /\ \A f \in Entries : rest[f].refs + One(old, f) = Files[f].refs
        BY <1>3, <2>3, <2>4, RemoveRefFacts
    <2>6. rest[g].refs > 0
        <3>1. CASE old = g
            <4>1. Cardinality(Named(tables[psp], g)) > 1
                BY <1>1, <1>2, <1>3, <1>4, <2>1, <3>1, NamedTwice
            <4>2. /\ Count(tables, psp, g) = Cardinality(Named(tables[psp], g))
                  /\ Count(tables, psp, g) \in Nat /\ Count(tables, psp, g) <= Files[g].refs
                  /\ Files[g].refs \in Nat
                BY <1>3, Held DEF FileType
            <4> QED BY <1>3, <2>5, <3>1, <4>1, <4>2 DEF One, FilesOK, FileType
        <3>2. CASE old # g
            BY <1>3, <2>5, <3>2 DEF One, FilesOK, FileType
        <3> QED BY <3>1, <3>2
    <2>7. FilesOK(Files') /\ \A f \in Entries : Files'[f].refs = rest[f].refs + One(g, f)
        BY <1>3, <2>2, <2>4, <2>5, <2>6, AddRefFacts
    <2>8. ASSUME NEW f \in Entries
          PROVE  Files'[f].refs + One(tables[psp][j], f) = Files[f].refs + One(g, f)
        BY <2>1, <2>5, <2>7 DEF One, FilesOK, FileType
    <2>9. tables' = [tables EXCEPT ![psp][j] = g] /\ lost' = lost /\ FilesOK(Files')
        BY <2>2, <2>7
    <2> QED BY <1>3, <1>4, <2>8, <2>9, CallSets
<1>5. CASE ~(j \in DOMAIN tables[psp] /\ tables[psp][j] # Closed)
    <2>1. /\ Files' = AddRef(Files, g)
          /\ IF j \in DOMAIN tables[psp]
               THEN tables' = [tables EXCEPT ![psp][j] = g] /\ lost' = lost
               ELSE lost' = [lost EXCEPT ![g] = @ + 1] /\ tables' = tables
        BY <1>1, <1>5 DEF DOS_ForceDuplicateEntry
    <2>2. FilesOK(Files') /\ \A f \in Entries : Files'[f].refs = Files[f].refs + One(g, f)
        BY <1>3, <2>1, AddRefFacts
    <2>3. CASE j \in DOMAIN tables[psp]
        <3>1. ASSUME NEW f \in Entries
              PROVE  Files'[f].refs + One(tables[psp][j], f) = Files[f].refs + One(g, f)
            BY <1>3, <1>5, <2>2, <2>3, FileNumbers DEF One, FilesOK, FileType
        <3> QED BY <1>3, <2>1, <2>2, <2>3, <3>1, CallSets
    <2>4. CASE j \notin DOMAIN tables[psp]
        <3>1. lost \in [Entries -> Nat] /\ lost' = [lost EXCEPT ![g] = @ + 1]
            BY <2>1, <2>4 DEF FileInv, Typed
        <3>2. lost' \in [Entries -> Nat] /\ \A f \in Entries : lost'[f] = lost[f] + One(g, f)
            BY <1>3, <3>1 DEF One
        <3>3. ASSUME NEW f \in Entries
              PROVE  Files'[f].refs + lost[f] = Files[f].refs + lost'[f]
            <4>1. Files[f].refs \in Nat /\ lost[f] \in Nat /\ One(g, f) \in Nat
                BY <1>3, <3>1 DEF One, FilesOK, FileType
            <4>2. Files'[f].refs = Files[f].refs + One(g, f) /\ lost'[f] = lost[f] + One(g, f)
                BY <2>2, <3>2
            <4> QED BY <4>1, <4>2
        <3> QED BY <2>1, <2>2, <2>4, <3>2, <3>3, CallKeeps
    <2> QED BY <2>3, <2>4
<1> QED BY <1>4, <1>5

\* Function 67h: the handles beyond those kept are lost, and counted so.
LEMMA SetNumFilesStep ==
    ASSUME FileInv, psp \in Procs, Procs' = Procs, NEW asked \in LongTables \cup {TableSize},
           SetNumFiles(psp, asked)
    PROVE  FileInv'
<1> DEFINE n == IF asked < TableSize THEN TableSize ELSE asked
           grows == n > TableSize /\ n + 2 > Cardinality(DOMAIN tables[psp])
           kept == 0..((IF grows THEN TableSize ELSE n) - 1)
           size == IF grows THEN n + 2 ELSE n
<1>1. /\ TableSize \in Nat /\ 0 < TableSize /\ asked \in Nat /\ TableSize <= asked
      /\ asked # TableSize => asked \in LongTables
    BY FilesAssumption
<1>2. n = asked
    BY <1>1
<1>3. size \in TableSizes /\ size \in Nat /\ kept \subseteq 0..(size - 1)
    <2>1. CASE grows
        <3>1. size = asked + 2 /\ kept = 0..(TableSize - 1)
            BY <1>2, <2>1
        <3>2. asked \in LongTables
            BY <1>1, <1>2, <2>1
        <3> HIDE DEF size, kept
        <3> QED BY <1>1, <3>1, <3>2 DEF TableSizes
    <2>2. CASE ~grows
        <3>1. size = asked /\ kept = 0..(asked - 1)
            BY <1>2, <2>2
        <3> HIDE DEF size, kept
        <3> QED BY <1>1, <3>1 DEF TableSizes
    <2> QED BY <2>1, <2>2
<1>4. PICK table : table = tables[psp]
    OBVIOUS
<1>5. PICK new : new = [i \in 0..(size - 1) |->
                           IF i \in kept /\ i \in DOMAIN table THEN table[i] ELSE Closed]
    OBVIOUS
<1>6. /\ tables' = [tables EXCEPT ![psp] = new] /\ Files' = Files
      /\ lost' = [f \in Entries |->
                     lost[f] + Cardinality({i \in Named(table, f) : i \notin kept})]
    BY <1>4, <1>5 DEF SetNumFiles
<1> HIDE DEF n, grows, kept, size
<1>7. FilesOK(Files) /\ TableOK(table) /\ lost \in [Entries -> Nat]
    BY <1>4, CallerFacts DEF FileInv, Typed
<1>8. TableOK(new)
    <2>1. \A i \in DOMAIN table : table[i] \in Entries \cup {Closed}
        BY <1>7 DEF TableOK
    <2>2. new \in [0..(size - 1) -> Entries \cup {Closed}]
        BY <1>5, <2>1
    <2> QED BY <1>3, <2>2 DEF TableOK
<1>9. ASSUME NEW f \in Entries
      PROVE  /\ lost'[f] \in Nat
             /\ Files'[f].refs + lost[f] + Cardinality(Named(tables[psp], f))
                   = Files[f].refs + lost'[f] + Cardinality(Named(new, f))
    <2> DEFINE S == Named(table, f)
               D == {i \in Named(table, f) : i \notin kept}
    <2>1. IsFiniteSet(S) /\ Cardinality(S) \in Nat
        BY <1>7, NamedFinite
    <2>2. Named(new, f) = S \ D
        <3>1. f # Closed
            BY FileNumbers
        <3> QED BY <1>3, <1>5, <3>1 DEF Named
    <2>3. S \cap D = D /\ D \in SUBSET S
        OBVIOUS
    <2> HIDE DEF S, D
    <2>4. IsFiniteSet(D) /\ Cardinality(D) \in Nat
        BY <2>1, <2>3, FS_Subset, FS_CardinalityType
    <2>5. Cardinality(S \ D) = Cardinality(S) - Cardinality(D)
        BY <2>1, <2>3, FS_Difference
    <2>6. lost'[f] = lost[f] + Cardinality(D) /\ lost[f] \in Nat
        BY <1>6, <1>7 DEF D
    <2>7. Files'[f].refs = Files[f].refs /\ Files[f].refs \in Nat
        BY <1>6, <1>7 DEF FilesOK, FileType
    <2>8. Files'[f].refs + lost[f] + Cardinality(S)
            = Files[f].refs + lost'[f] + Cardinality(S \ D)
        BY <2>1, <2>4, <2>5, <2>6, <2>7
    <2> QED BY <1>4, <2>2, <2>4, <2>6, <2>8 DEF S
<1>10. lost' \in [Entries -> Nat]
    BY <1>6, <1>9
<1>11. FilesOK(Files')
    BY <1>6, <1>7
<1> QED BY <1>6, <1>8, <1>9, <1>10, <1>11, CallTable

\* The functions of interrupt 21h on files.
LEMMA FileCallStep ==
    ASSUME FileInv, psp \in Procs, FileCall
    PROVE  FileInv'
<1>1. Procs' = Procs
    BY DEF FileCall, processVars, Procs, Running
<1> QED BY <1>1, OpenStep, CloseStep, DuplicateStep, ForceDuplicateStep, SetNumFilesStep
    DEF FileCall

-----------------------------------------------------------------------------
(* Processes that begin and end, and the theorems.                         *)

\* EXEC: a child has the handles it inherits, and each counts.
LEMMA InheritStep ==
    ASSUME FileInv, psp \in Procs, NEW child, child \notin Procs, Procs' = Procs \cup {child},
           InheritFiles(psp, child)
    PROVE  FileInv'
<1>1. PICK table : table = Inherited(tables[psp])
    OBVIOUS
<1>2. /\ Files' = InheritRefs(Files, table) /\ lost' = lost /\ DOMAIN tables = Procs
      /\ tables' = [p \in Procs \cup {child} |-> IF p = child THEN table ELSE tables[p]]
    BY <1>1 DEF InheritFiles, FileInv, Typed
<1>3. FilesOK(Files) /\ TableOK(tables[psp])
    BY CallerFacts
<1>4. /\ TableOK(table)
      /\ \A i \in DOMAIN table : table[i] # Closed =>
            i \in DOMAIN tables[psp] /\ table[i] = tables[psp][i]
    <2>1. PICK n \in TableSizes : tables[psp] \in [0..(n - 1) -> Entries \cup {Closed}]
        BY <1>3 DEF TableOK
    <2>2. TableSize \in Nat /\ n \in Nat /\ TableSize <= n /\ TableSize \in TableSizes
        BY FileNumbers DEF TableSizes
    <2>3. table = [i \in 0..(TableSize - 1) |->
                      IF tables[psp][i] # Closed /\ Files[tables[psp][i]].inherit
                        THEN tables[psp][i] ELSE Closed]
        BY <1>1 DEF Inherited, NewTable
    <2>4. \A i \in 0..(TableSize - 1) : i \in 0..(n - 1)
        BY <2>2
    <2>5. table \in [0..(TableSize - 1) -> Entries \cup {Closed}]
        BY <2>1, <2>3, <2>4
    <2> QED BY <2>1, <2>2, <2>3, <2>4, <2>5 DEF TableOK
<1>5. ASSUME NEW f \in Entries
      PROVE  /\ Files'[f] \in FileType /\ EntryOK(Files'[f])
             /\ Files'[f].refs = Files[f].refs + Cardinality(Named(table, f))
             /\ Cardinality(Named(table, f)) \in Nat /\ Files[f].refs \in Nat
    <2> DEFINE n == Cardinality(Named(table, f))
    <2>1. n \in Nat
        BY <1>4, NamedFinite
    <2>2. Files[f] \in FileType /\ EntryOK(Files[f])
        BY <1>3 DEF FilesOK
    <2>3. Files'[f] = [Files[f] EXCEPT !.refs = Files[f].refs + n]
        BY <1>2 DEF InheritRefs
    <2>4. n <= Files[f].refs
        <3>1. Named(table, f) \in SUBSET Named(tables[psp], f)
            BY <1>4, FileNumbers DEF Named
        <3>2. n <= Cardinality(Named(tables[psp], f)) /\ Cardinality(Named(tables[psp], f)) \in Nat
            BY <1>3, <3>1, NamedFinite, FS_Subset
        <3>3. Cardinality(Named(tables[psp], f)) <= Files[f].refs
            BY Held
        <3> HIDE DEF n
        <3> QED BY <2>1, <2>2, <3>2, <3>3 DEF FileType
    <2> HIDE DEF n
    <2>5. CASE Files[f] = NoFile
        <3>1. n = 0
            BY <2>1, <2>4, <2>5 DEF NoFile
        <3>2. Files'[f] = Files[f]
            BY <2>2, <2>3, <3>1 DEF FileType
        <3> QED BY <2>2, <3>1, <3>2 DEF FileType, n
    <2>6. CASE Files[f].open /\ Files[f].refs > 0
        BY <2>1, <2>2, <2>3, <2>6 DEF FileType, EntryOK, n
    <2> QED BY <2>2, <2>5, <2>6 DEF EntryOK
<1>6. Typed'
    <2>1. \A p \in Procs \cup {child} : TableOK(tables'[p])
        BY <1>2, <1>4 DEF FileInv, Typed
    <2>2. DOMAIN tables' = Procs'
        BY <1>2
    <2>3. Files' \in [Entries -> FileType]
        <3>1. Files' = [f \in Entries |-> Files'[f]]
            BY <1>2 DEF InheritRefs
        <3> QED BY <1>5, <3>1
    <2>4. lost' \in [Entries -> Nat]
        BY <1>2 DEF FileInv, Typed
    <2> QED BY <2>1, <2>2, <2>3, <2>4
        DEF Typed, TableOK, TableSizes, Entries, FileType, Closed
<1>7. ASSUME NEW f \in Entries
      PROVE  Files'[f].refs + lost[f] + Count(tables, child, f)
                = Files[f].refs + lost'[f] + Count(tables', child, f)
    <2>1. Count(tables, child, f) = 0 /\ Count(tables', child, f) = Cardinality(Named(table, f))
        BY <1>2 DEF Count
    <2>2. lost'[f] = lost[f] /\ lost[f] \in Nat
        BY <1>2 DEF FileInv, Typed
    <2> QED BY <1>5, <2>1, <2>2
<1>8. /\ DOMAIN tables' \ {child} = DOMAIN tables \ {child}
      /\ \A q \in DOMAIN tables \ {child} : tables'[q] = tables[q]
    BY <1>2
<1> QED BY <1>5, <1>6, <1>7, <1>8, OneTable

\* Function 4Ch: all its handles go, and their references.
LEMMA CloseFilesStep ==
    ASSUME FileInv, psp \in Procs, Procs' = Procs \ {psp}, CloseFiles(psp)
    PROVE  FileInv'
<1>1. PICK table : table = tables[psp]
    OBVIOUS
<1>2. /\ Files' = CloseRefs(Files, table) /\ lost' = lost /\ DOMAIN tables = Procs
      /\ tables' = [p \in Procs \ {psp} |-> tables[p]]
    BY <1>1 DEF CloseFiles, FileInv, Typed
<1>3. FilesOK(Files) /\ TableOK(table)
    BY <1>1, CallerFacts
<1>4. ASSUME NEW f \in Entries
      PROVE  /\ Files'[f] \in FileType /\ EntryOK(Files'[f])
             /\ Files'[f].refs = Files[f].refs - Cardinality(Named(table, f))
             /\ Cardinality(Named(table, f)) \in Nat /\ Files[f].refs \in Nat
    <2> DEFINE n == Cardinality(Named(table, f))
    <2>1. n \in Nat
        BY <1>3, NamedFinite
    <2>2. Files[f] \in FileType /\ EntryOK(Files[f])
        BY <1>3 DEF FilesOK
    <2>3. Files'[f] = IF n = 0 THEN Files[f] ELSE Release(Files[f], n)
        BY <1>2 DEF CloseRefs
    <2>4. n <= Files[f].refs
        BY <1>1, Held
    <2> HIDE DEF n
    <2>5. CASE n = 0
        BY <2>2, <2>3, <2>5 DEF FileType, n
    <2>6. CASE n # 0
        <3>1. 0 < n
            BY <2>1, <2>6
        <3>2. /\ Files'[f] \in FileType /\ EntryOK(Files'[f]) /\ Files'[f].refs = Files[f].refs - n
            BY <2>1, <2>2, <2>3, <2>4, <2>6, <3>1, ReleaseFacts
        <3> QED BY <2>1, <2>2, <3>2 DEF FileType, n
    <2> QED BY <2>5, <2>6
<1>5. Typed'
    <2>1. \A p \in Procs \ {psp} : TableOK(tables'[p])
        BY <1>2 DEF FileInv, Typed
    <2>2. DOMAIN tables' = Procs'
        BY <1>2
    <2>3. Files' \in [Entries -> FileType]
        <3>1. Files' = [f \in Entries |-> Files'[f]]
            BY <1>2 DEF CloseRefs
        <3> QED BY <1>4, <3>1
    <2>4. lost' \in [Entries -> Nat]
        BY <1>2 DEF FileInv, Typed
    <2> QED BY <2>1, <2>2, <2>3, <2>4
        DEF Typed, TableOK, TableSizes, Entries, FileType, Closed
<1>6. ASSUME NEW f \in Entries
      PROVE  Files'[f].refs + lost[f] + Count(tables, psp, f)
                = Files[f].refs + lost'[f] + Count(tables', psp, f)
    <2>1. Count(tables, psp, f) = Cardinality(Named(table, f)) /\ Count(tables', psp, f) = 0
        BY <1>1, <1>2 DEF Count
    <2>2. lost'[f] = lost[f] /\ lost[f] \in Nat
        BY <1>2 DEF FileInv, Typed
    <2> QED BY <1>4, <2>1, <2>2
<1>7. /\ DOMAIN tables' \ {psp} = DOMAIN tables \ {psp}
      /\ \A q \in DOMAIN tables \ {psp} : tables'[q] = tables[q]
    BY <1>2
<1> QED BY <1>4, <1>5, <1>6, <1>7, OneTable

\* A step that leaves files alone, and ends or starts no process.
LEMMA FilesKept ==
    ASSUME FileInv, psp \in Procs, Procs' = Procs, UNCHANGED fileVars
    PROVE  FileInv'
<1>1. Files' = Files /\ tables' = tables /\ lost' = lost
    BY DEF fileVars
<1>2. FilesOK(Files) /\ lost \in [Entries -> Nat]
    BY CallerFacts DEF FileInv, Typed
<1> QED BY <1>1, <1>2, CallKeeps

\* A program that is executed, or is not.
LEMMA FilesExecute ==
    ASSUME KernelInv, FileInv, NEW prog \in Programs, DOS_Execute(prog)
    PROVE  FileInv'
<1>1. psp \in Procs
    BY RunningFacts DEF Procs
<1>2. CASE UNCHANGED processVars /\ UNCHANGED fileVars
    <2>1. Procs' = Procs
        BY <1>2 DEF processVars, Procs, Running
    <2> QED BY <1>1, <1>2, <2>1, FilesKept
<1>3. ASSUME NEW child, Spawns(child), InheritFiles(psp, child)
      PROVE  FileInv'
    <2>1. child \notin Procs /\ Procs' = Procs \cup {child}
        BY <1>3 DEF Spawns, Procs, Running
    <2> QED BY <1>1, <1>3, <2>1, InheritStep
<1> QED BY <1>2, <1>3, ExecuteStep

\* A program that ends or stays resident.
LEMMA FilesEnd ==
    ASSUME KernelInv, FileInv, ProgramEnds \/ ProgramStays
    PROVE  FileInv'
<1>1. psp \in Procs /\ Running \cap resident = {} /\ psp \in Running
    BY RunningFacts DEF Procs, KernelInv, TreeInv
<1>2. CASE Terminate
    <2>1. parents[psp] # psp /\ Leave /\ resident' = resident /\ CloseFiles(psp)
        BY <1>2 DEF Terminate
    <2>2. Procs' = Procs \ {psp}
        <3>1. Running' = Running \ {psp}
            BY <2>1, LeaveTree
        <3> QED BY <1>1, <2>1, <3>1 DEF Procs
    <2> QED BY <1>1, <2>1, <2>2, CloseFilesStep
<1>3. ASSUME NEW n \in Sizes, TerminateStayResident(n)
      PROVE  FileInv'
    <2>1. /\ parents[psp] # psp /\ Leave /\ resident' = resident \cup {psp}
          /\ UNCHANGED fileVars
        BY <1>3 DEF TerminateStayResident
    <2>2. Procs' = Procs
        <3>1. Running' = Running \ {psp}
            BY <2>1, LeaveTree
        <3> QED BY <1>1, <2>1, <3>1 DEF Procs
    <2> QED BY <1>1, <2>1, <2>2, FilesKept
<1>4. ASSUME NEW n \in Sizes, Interrupt27(n), ~TerminateStayResident(n)
      PROVE  FileInv'
    <2>1. UNCHANGED fileVars /\ UNCHANGED processVars
        BY <1>4 DEF Interrupt27
    <2>2. Procs' = Procs
        BY <2>1 DEF processVars, Procs, Running
    <2> QED BY <1>1, <2>1, <2>2, FilesKept
<1> QED BY <1>2, <1>3, <1>4 DEF ProgramEnds, ProgramStays

\* Every step keeps the counts.
LEMMA FilesStep ==
    ASSUME KernelInv, FileInv, [Next]_vars
    PROVE  FileInv'
<1>1. psp \in Procs
    BY RunningFacts DEF Procs
<1>2. ASSUME UNCHANGED <<fileVars, processVars>>
      PROVE  FileInv'
    <2>1. UNCHANGED fileVars /\ Procs' = Procs
        BY <1>2 DEF processVars, Procs, Running
    <2> QED BY <1>1, <2>1, FilesKept
<1>3. CASE Call
    <2>1. MemoryCall \/ FileCall
        BY <1>3 DEF Call
    <2> QED BY <1>1, <1>2, <2>1, FileCallStep DEF MemoryCall
<1>4. CASE ProgramExecutes
    BY <1>4, FilesExecute DEF ProgramExecutes
<1>5. CASE ProgramEnds \/ ProgramStays
    BY <1>5, FilesEnd
<1>6. CASE ProgramReadsKey \/ ShellMoves \/ UserInterface
    BY <1>2, <1>6 DEF ProgramReadsKey, ShellMoves, UserInterface
<1>7. ASSUME NEW line \in Lines, ParseLine(line)
      PROVE  FileInv'
    BY <1>2, <1>7, FilesExecute DEF ParseLine
<1>8. CASE ShellGets \/ ShellReadsBatch \/ \E own \in BOOLEAN : ShellReads(own)
    BY <1>7, <1>8 DEF ShellGets, ShellReads, ShellReadsBatch
<1>9. CASE UNCHANGED vars
    BY <1>2, <1>9 DEF vars
<1> QED BY <1>3, <1>4, <1>5, <1>6, <1>8, <1>9 DEF Next

\* At first only the shell's standard input is open.
LEMMA FilesInitially ==
    Init => FileInv
<1> SUFFICES ASSUME Init PROVE FileInv
    OBVIOUS
<1>1. /\ Files = [f \in Entries |-> IF f = 0 THEN [refs |-> 1, open |-> TRUE, inherit |-> TRUE]
                                    ELSE NoFile]
      /\ lost = [f \in Entries |-> 0] /\ Procs = {Shell}
    BY DEF Init, FilesInit, Procs, Running
<1>2. PICK table : table = [NewTable EXCEPT ![0] = 0] /\ tables = [p \in {Shell} |-> table]
    BY DEF Init, FilesInit
<1>3. TableOK(NewTable) /\ 0 \in DOMAIN NewTable /\ NewTable[0] = Closed
    <2>1. NewTable \in [0..(TableSize - 1) -> Entries \cup {Closed}]
        BY DEF NewTable
    <2>2. TableSize \in TableSizes
        BY DEF TableSizes
    <2> QED BY <2>1, <2>2, FileNumbers DEF TableOK, NewTable
<1>4. Sets(NewTable, table, 0, 0)
    <2>1. 0 \in Entries \cup {Closed}
        BY FileNumbers
    <2> QED BY <1>2, <1>3, <2>1, SetsIs
<1>5. Typed
    <2>1. Files \in [Entries -> FileType]
        BY <1>1 DEF FileType, NoFile
    <2> QED BY <1>1, <1>2, <1>4, <2>1 DEF Typed, Sets
<1>6. ASSUME NEW f \in Entries
      PROVE  /\ IsFiniteSet(NamesOf(f)) /\ EntryOK(Files[f])
             /\ Files[f].refs = Cardinality(NamesOf(f)) + lost[f]
    <2>1. Others(tables, Shell, f) = {}
        BY <1>2 DEF Others, Names
    <2>2. /\ IsFiniteSet(Names(tables, f))
          /\ Cardinality(Names(tables, f)) = 0 + Count(tables, Shell, f)
          /\ Count(tables, Shell, f) \in Nat
        <3>1. Shell \in DOMAIN tables /\ tables[Shell] = table
            BY <1>2
        <3>2. IsFiniteSet(Others(tables, Shell, f)) /\ Cardinality(Others(tables, Shell, f)) = 0
            BY <2>1, FS_EmptySet
        <3>3. TableOK(table)
            BY <1>4 DEF Sets
        <3> QED BY <3>1, <3>2, <3>3, NamesSplit
    <2>3. Count(tables, Shell, f) = Cardinality(Named(table, f))
        BY <1>2 DEF Count
    <2>4. Cardinality(Named(table, f)) = One(0, f)
        <3>1. f # Closed
            BY FileNumbers
        <3>2. Named(NewTable, f) = {}
            BY <3>1 DEF Named, NewTable
        <3>3. Cardinality(Named(NewTable, f)) = 0
            BY <3>2, FS_EmptySet
        <3>4. One(NewTable[0], f) = 0 /\ One(0, f) \in Nat
            BY <1>3, <3>1 DEF One
        <3>5. Cardinality(Named(table, f)) + 0 = 0 + One(0, f)
            <4>1. Cardinality(Named(table, f)) + One(NewTable[0], f)
                    = Cardinality(Named(NewTable, f)) + One(0, f)
                BY <1>3, <1>4, SetHandle
            <4> QED BY <3>3, <3>4, <4>1
        <3>6. Cardinality(Named(table, f)) \in Nat
            BY <1>4, NamedFinite DEF Sets
        <3> QED BY <3>4, <3>5, <3>6
    <2>5. Files[f].refs = One(0, f) /\ EntryOK(Files[f]) /\ lost[f] = 0
        BY <1>1 DEF One, EntryOK, NoFile
    <2>6. One(0, f) \in Nat
        BY DEF One
    <2> QED BY <2>2, <2>3, <2>4, <2>5, <2>6, NamesAre
<1> QED BY <1>5, <1>6 DEF FileInv, RefsCounted

\* The counts are right in every state.
THEOREM FileInvariant == Spec => []FileInv
<1>1. Init => FileInv
    BY FilesInitially
<1>2. KernelInv /\ FileInv /\ [Next]_vars => FileInv'
    BY FilesStep
<1> QED BY <1>1, <1>2, KernelInvariant, PTL DEF Spec

\* No entry of Files (dos_files.cpp) is freed while a handle of any process
\* names it, and none stays taken without one, save for the references that
\* are known to be dropped.
THEOREM RefsCountedHolds == Spec => []RefsCounted
<1>1. FileInv => RefsCounted
    BY DEF FileInv
<1> QED BY <1>1, FileInvariant, PTL

\* A file that any handle of any process names is open on the host.
THEOREM SharedStaysOpenHolds == Spec => []SharedStaysOpen
<1>1. FileInv => SharedStaysOpen
    <2> SUFFICES ASSUME FileInv, NEW f \in Entries, NamesOf(f) # {}
                 PROVE  Files[f].open
        BY DEF SharedStaysOpen
    <2>1. /\ IsFiniteSet(NamesOf(f)) /\ lost[f] \in Nat
          /\ Files[f].refs = Cardinality(NamesOf(f)) + lost[f]
        BY DEF FileInv, Typed, RefsCounted
    <2>2. Cardinality(NamesOf(f)) \in Nat /\ Cardinality(NamesOf(f)) # 0
        BY <2>1, FS_EmptySet, FS_CardinalityType
    <2>3. Files[f].refs # 0
        BY <2>1, <2>2
    <2>4. EntryOK(Files[f])
        BY DEF FileInv
    <2> QED BY <2>3, <2>4 DEF EntryOK, NoFile
<1> QED BY <1>1, FileInvariant, PTL

\* The rest of the types: flags, the place in the shell's loop, waiting keys.
FlagsTyped == ready \in BOOLEAN /\ sending \in BOOLEAN /\ fatal \in BOOLEAN
LoopTyped == at \in {"automount", "loop", "drain", "input"} /\ returns \in Nat

\* The steps of the bridge keep them.
LEMMA BridgeTypes ==
    ASSUME ready \in BOOLEAN, sending \in BOOLEAN, LoopTyped, BridgeNext
    PROVE  ready' \in BOOLEAN /\ sending' \in BOOLEAN /\ LoopTyped'
<1>1. CASE sendCommand
    <2>1. LoopTyped'
        BY <1>1 DEF sendCommand, LoopTyped
    <2> QED BY <1>1, <2>1, Zenon DEF sendCommand
<1>2. CASE sendReturn
    <2>1. LoopTyped'
        BY <1>2 DEF sendReturn, LoopTyped
    <2> QED BY <1>2, <2>1, Zenon DEF sendReturn
<1>3. CASE SwallowReturn
    <2>1. LoopTyped'
        BY <1>3 DEF SwallowReturn, LoopTyped
    <2> QED BY <1>3, <2>1, Zenon DEF SwallowReturn
<1>4. CASE EndAutomount
    <2>1. LoopTyped'
        BY <1>4 DEF EndAutomount, LoopTyped
    <2> QED BY <1>4, <2>1, Zenon DEF EndAutomount
<1>5. CASE EndBatch
    <2>1. LoopTyped'
        BY <1>5 DEF EndBatch, LoopTyped
    <2> QED BY <1>5, <2>1, Zenon DEF EndBatch
<1>6. CASE NoBatch
    <2>1. LoopTyped'
        BY <1>6 DEF NoBatch, LoopTyped
    <2> QED BY <1>6, <2>1, Zenon DEF NoBatch
<1>7. CASE Prompt
    <2>1. LoopTyped'
        BY <1>7 DEF Prompt, LoopTyped
    <2> QED BY <1>7, <2>1, Zenon DEF Prompt
<1>8. ASSUME NEW line \in Lines, GetCommand(line)
      PROVE  ready' \in BOOLEAN /\ sending' \in BOOLEAN /\ LoopTyped'
    <2>1. LoopTyped'
        BY <1>8 DEF GetCommand, Taking, LoopTyped
    <2> QED BY <1>8, <2>1, Zenon DEF GetCommand, Taking
<1>9. ASSUME NEW line \in Lines, ReadLine(line)
      PROVE  ready' \in BOOLEAN /\ sending' \in BOOLEAN /\ LoopTyped'
    <2>1. LoopTyped'
        BY <1>9 DEF ReadLine, LoopTyped
    <2> QED BY <1>9, <2>1, Zenon DEF ReadLine
<1>10. ASSUME NEW own \in BOOLEAN, NEW line \in Lines, InputCommand(own, line)
       PROVE  ready' \in BOOLEAN /\ sending' \in BOOLEAN /\ LoopTyped'
    <2>1. LoopTyped'
        BY <1>10 DEF InputCommand, LoopTyped
    <2> QED BY <1>10, <2>1, Zenon DEF InputCommand
<1>11. CASE UNCHANGED bridgeVars
    <2>1. ready' = ready /\ sending' = sending /\ at' = at /\ returns' = returns
        BY <1>11 DEF bridgeVars
    <2>2. LoopTyped'
        BY <2>1 DEF LoopTyped
    <2> QED BY <2>1, <2>2, Zenon
<1> QED BY <1>1, <1>2, <1>3, <1>4, <1>5, <1>6, <1>7, <1>8, <1>9, <1>10, <1>11, Zenon DEF BridgeNext

\* The programs' steps leave the flag of a failed EXEC as it is.
LEMMA FatalKept ==
    ASSUME KernelInv, [Next]_vars
    PROVE  fatal' = fatal
<1>1. ASSUME NEW prog \in Programs, DOS_Execute(prog)
      PROVE  fatal' = fatal
    BY <1>1, ExecuteStep DEF processVars, Spawns
<1>2. CASE Call \/ ProgramReadsKey \/ ShellMoves \/ UserInterface
    BY <1>2 DEF Call, MemoryCall, FileCall, ProgramReadsKey, ShellMoves, UserInterface, processVars
<1>3. CASE ProgramExecutes
    BY <1>1, <1>3 DEF ProgramExecutes
<1>4. CASE ProgramEnds
    BY <1>4 DEF ProgramEnds, Terminate, Leave
<1>5. CASE ProgramStays
    BY <1>5 DEF ProgramStays, TerminateStayResident, Interrupt27, Leave, processVars
<1>6. CASE ShellGets \/ ShellReadsBatch \/ \E own \in BOOLEAN : ShellReads(own)
    BY <1>1, <1>6 DEF ShellGets, ShellReads, ShellReadsBatch, ParseLine, processVars
<1>7. CASE UNCHANGED vars
    BY <1>7 DEF vars, processVars
<1> QED BY <1>2, <1>3, <1>4, <1>5, <1>6, <1>7 DEF Next

\* Every step keeps the flags and the place in the loop.
LEMMA FlagsStep ==
    ASSUME KernelInv, FlagsTyped, LoopTyped, [Next]_vars
    PROVE  FlagsTyped' /\ LoopTyped'
<1>1. BridgeNext
    BY BridgeSteps
<1>2. ready' \in BOOLEAN /\ sending' \in BOOLEAN /\ LoopTyped'
    BY <1>1, BridgeTypes, Zenon DEF FlagsTyped
<1>3. fatal' \in BOOLEAN
    BY FatalKept, Zenon DEF FlagsTyped
<1> QED BY <1>2, <1>3, Zenon DEF FlagsTyped

\* The list of commands is a sequence of numbers.
LEMMA ListType ==
    ASSUME BridgeInv
    PROVE  commandList \in Seq(Nat)
<1>1. taken \in Nat /\ accepted \in Nat /\ commandList = Expected(at, taken, accepted)
    BY InOrderIsExpected DEF BridgeInv
<1>2. /\ After(taken, Automount) \in Seq(Nat) /\ Marked(accepted) \in Seq(Nat)
      /\ After(taken, accepted) \in Seq(Nat)
    BY <1>1, Counts, AfterType, MarkedTail
<1>3. After(taken, Automount) \o Marked(accepted) \in Seq(Nat)
    BY <1>2
<1> QED BY <1>1, <1>2, <1>3 DEF Expected

\* All variables keep their types, with any number of processes and commands.
THEOREM KernelTypeOK == Spec => []TypeOK
<1>1. Init => FlagsTyped /\ LoopTyped
    <2>1. Init => FlagsTyped
        BY Zenon DEF Init, BridgeInit, FlagsTyped
    <2>2. Init => LoopTyped
        BY DEF Init, BridgeInit, LoopTyped
    <2> QED BY <2>1, <2>2
<1>2. KernelInv /\ FlagsTyped /\ LoopTyped /\ [Next]_vars => FlagsTyped' /\ LoopTyped'
    BY FlagsStep
<1>3. KernelInv /\ FileInv /\ BridgeInv /\ BatchInv /\ FlagsTyped /\ LoopTyped => TypeOK
    <2> SUFFICES ASSUME KernelInv, FileInv, BridgeInv, BatchInv, FlagsTyped, LoopTyped
                 PROVE  TypeOK
        OBVIOUS
    <2>1. Heads(mcb) \subseteq Segments /\ mcb \in [Heads(mcb) -> Fields]
        <3>1. Chained(mcb, linked)
            BY DEF KernelInv, MemoryInv
        <3>2. \A h \in Heads(mcb) : h \in Segments /\ mcb[h] \in Fields
            BY <3>1 DEF Chained
        <3>3. mcb = [h \in Heads(mcb) |-> mcb[h]]
            BY <3>1 DEF Chained
        <3> QED BY <3>2, <3>3
    <2>2. linked \in BOOLEAN /\ strategy \in [fit : Fits, high : Highs]
        BY DEF KernelInv, MemoryInv, Strategy
    <2>3. /\ Files \in [Entries -> [refs : Nat, open : BOOLEAN, inherit : BOOLEAN]]
          /\ lost \in [Entries -> Nat] /\ DOMAIN tables = Running \cup resident
          /\ \A p \in DOMAIN tables :
                \E n \in {TableSize} \cup {m + 2 : m \in LongTables} \cup LongTables :
                    tables[p] \in [0..(n - 1) -> Entries \cup {Closed}]
        BY DEF FileInv, Typed, FileType, Procs, TableOK, TableSizes
    <2>4. psp \in Running /\ parents \in [Running -> Running]
        BY DEF KernelInv, TreeInv
    <2>5. /\ at \in {"automount", "loop", "drain", "input"}
          /\ {returns, accepted, taken} \subseteq Nat /\ commandList \in Seq(Nat)
          /\ bf \in Seq({"unread", "begun"})
        BY ListType DEF LoopTyped, BridgeInv, BatchInv
    <2>6. ready \in BOOLEAN /\ sending \in BOOLEAN /\ fatal \in BOOLEAN
        BY Zenon DEF FlagsTyped
    <2> QED BY <2>1, <2>2, <2>3, <2>4, <2>5, <2>6, Zenon DEF TypeOK
<1>4. Spec => [](BridgeInv /\ BatchInv)
    <2>1. Init => BridgeInv /\ BatchInv
        BY BridgeInitially, BatchInitially
    <2>2. BridgeInv /\ BatchInv /\ [Next]_vars => BridgeInv' /\ BatchInv'
        BY BridgeStep, BatchStep
    <2> QED BY <2>1, <2>2, PTL DEF Spec
<1> QED BY <1>1, <1>2, <1>3, <1>4, KernelInvariant, FileInvariant, PTL DEF Spec

=============================================================================
