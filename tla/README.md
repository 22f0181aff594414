# TLA+ models of DOSPad

DOSPad is DOSBox with an iOS user interface. This directory holds TLA+ models of
the parts of it in which many steps, of several actors, decide what happens: the
interrupt controllers, the event queue with the loop that drives it, the keyboard
controller, the mixer with its two threads, the Sound Blaster over the DMA
controller, the memory above the first megabyte with its three users, and the kernel of
the emulated DOS with the bridge from the iOS user interface. Each model is translated from
the source and checked by TLC on small instances; the safety properties of all of them, and
the refinement of two abstract specifications, of the event queue and of an allocator, are
also proved with TLAPS, for every value of the constants.

Paths below are relative to `src/dosbox/src/` unless they say otherwise.

## The system

One thread, the emulator thread, runs `Normal_Loop` (`dosbox.cpp:133`). It serves
the event queue, hands the CPU core a budget of cycles up to the next event, lets
it run, and starts over; when the budget of a tick (one millisecond) is used up
it polls the host for input and, if host time allows, starts the next tick. All
devices run on this thread, called from port reads and writes of the guest, from
events, from tick handlers or from host input. Two other threads touch its
state: the audio callback (mixer) and the user interface (command list, pause
flag).

| Component | State | Operations | What is hard | What makes it correct |
|---|---|---|---|---|
| Interrupt controllers (`hardware/pic.cpp:29-371`) | per chip: request, mask and in-service registers, `active_irq`, modes, initialisation index; `PIC_IRQCheck` | raise, lower, mask, command and data writes, `PIC_runIRQs` | devices, guest and CPU interleaved; a cascade of two chips kept consistent by signals; modes | a signal if and only if a request can be started; nesting by priority; EOI ends the right interrupt |
| Event queue and loop (`hardware/pic.cpp:165-558`, `dosbox.cpp:133`) | pool of entries on two linked lists, `CPU_Cycles`, `CPU_CycleLeft`, `srv_lag` | add, remove, serve, tick, hand out cycles | handlers and instructions that change the queue while it is served; budget revoked in mid-instruction; rounding | order, no early and no very late event, no lost entry, every event served |
| Keyboard controller (`hardware/keyboard.cpp`) | ring of scancodes, port 60h, command state, repeat countdown | key events, transfer event, port reads and writes, tick | ring full, clear with a transfer queued, repeat against release, full event queue | bytes in order, none overwritten or stranded, only held keys repeat |
| Mixer (`hardware/mixer.cpp`) | `done`, `needed`, `pos`, channels | mix per tick, fill up, audio callback | two threads, unsigned arithmetic | counters ordered, positions within what was mixed |
| DMA (`hardware/dma.cpp`) | channel registers, flip-flop, mask, terminal count | port writes, block read and write, callbacks | autoinit, wrap, masking inside a transfer | amounts moved agree with the registers |
| Sound Blaster (`hardware/sblaster.cpp`) | DSP state, DMA mode, pending interrupts | commands, end-of-block event, callbacks | reset and reprogramming against a queued event | one interrupt per block |
| DOS memory (`dos/dos_memory.cpp`) | chain of MCBs in guest memory, link flag, strategy | allocate, resize, free, compress, link upper memory | strategies, upper memory, order of calls | one unbroken chain that covers memory; no block taken from its owner, none left behind |
| DOS programs, EXEC, shell (`dos/dos_execute.cpp`, `shell/`) | PSP chain, the running process, the batch files `bf` | EXEC, terminate, stay resident; read a line of a batch file | partial failure of EXEC, nesting, blocks of upper memory | a process keeps the block of its PSP; nothing is left to the shell |
| DOS files (`dos/dos_files.cpp`, `dos/dos_classes.cpp`) | `Files` with reference counts, a handle table per process | open, close, duplicate, lengthen the table, inherit | inherited and duplicated handles, dropped handles | counts agree with the tables; a shared file stays open |
| Memory handles (`hardware/memory.cpp`) | `mhandles`, an array of links | allocate in a row or scattered, resize, release | blocks that move, scattered pages, three users | every page free or in one block |
| XMS (`ints/xms.cpp`) | handle table | allocate, resize, lock, free | a locked block's address is known to its owner | a locked block stays |
| EMS and VCPI (`ints/ems.cpp`) | handle table, mappings, the page table of the first megabyte, saved page maps | allocate, resize, release, map, save and restore | mappings, saved maps and what the page table shows are kept apart | a slot shows the page recorded for it |
| DOSPad bridge (`src/dospad/Main/DOSPadEmulator.m`, `shell/shell.cpp`) | `commandList`, `dospad_command_line_ready`, the Return key | send, next command | two threads without a lock; a program may take the key; a command may name a batch file | commands taken once, in order, all of them, between batch files |
| CPU cores, VGA, sound synthesis, BIOS, configuration, SDL, MT-32 | instruction set, pixels, samples | - | - | outside what TLC can check usefully |

`PROJECT.json` lists the components with their status and, under `hazards`, what
in this code a test would hardly reach.

## Modules

| Module | Models | Composition |
|---|---|---|
| `Pic` | the two controllers, with devices, guest and CPU as its environment | - |
| `MCPic` | instances of `Pic`: lines, guest programs, masks | extends `Pic` |
| `PicProofs` | the inductive invariant of `Pic` and the theorems | extends `Pic` |
| `Agenda` | what the event queue promises its clients | abstract specification |
| `EventList` | linked lists, cycle budget, loop and tick | implements `Agenda` (`INSTANCE ... WITH`) |
| `EventListProofs` | the lists, the budget of cycles and the refinement: invariant and theorems | extends `EventList` |
| `Keyboard` | the controller between host and guest | uses of the event queue reduced to what `EventList` guarantees |
| `KeyboardProofs` | its inductive invariant and theorems | extends `Keyboard` |
| `Mixer` | the counters shared by emulator thread and audio callback | - |
| `MixerProofs` | their inductive invariant and theorems | extends `Mixer` |
| `Dma` | a channel of the DMA controller: operators on its value | used by `SoundBlaster` |
| `SoundBlaster` | the DSP, its events, its callbacks from channel and mixer | extends `Dma` |
| `SoundBlasterProofs` | the card's inductive invariant and theorems | extends `SoundBlaster` |
| `Allocator` | what a memory manager promises its users | abstract specification |
| `DosMemory`, `DosFiles`, `CommandBridge` | memory, files and the command list: variables and one action per function | composed by `DosKernel` |
| `DosKernel` | processes: EXEC, termination, programs, the shell | extends the three; implements `Allocator` |
| `MCDosKernel` | instance for TLC | extends `DosKernel` |
| `MemHandles` | the array of pages and the functions on it | used by `Xms` and `Ems` |
| `Xms`, `Ems` | handle tables of extended and expanded memory, mappings of the first megabyte | extend `MemHandles` |
| `ExtendedMemory` | both and VCPI over the same pages | extends `Xms` and `Ems`; implements `Allocator` |
| `DosMemoryProofs` | lemmas: what each operator of `DosMemory` does to a well-formed chain | extends `DosKernel` |
| `DosKernelProofs` | memory and the tree of processes, the order of commands, reference counts, `TypeOK` of the whole kernel: inductive invariants and theorems | extends `DosMemoryProofs` |
| `ExtendedMemoryProofs` | the array of pages and its three users: the inductive invariant and theorems | extends `ExtendedMemory` |

Definitions whose comment begins with *Faulty variant* are not part of a model:
each is a plausible mistake in the definition that follows it, kept to confirm
that the properties notice it (`mutants` in `PROJECT.json`).

### Pic

Registers are sets of lines. `imrr` and `isrr` are complements and not kept.
`pics` holds the two records, `PIC_IRQCheck` the flag polled by the cores, `cpu`
whether interrupts are enabled and whether the single-step core runs (in which
`PIC_runIRQs` does nothing), `fatal` whether the emulator left through `E_Exit`,
and `plain` remembers that no special mask or auto-EOI mode was ever set.

A register operation (`raise_irq`, `lower_irq`, `set_imr`, `check_after_EOI`) is
an operator that returns the new registers and what it does to the output of its
chip: `activate`, `deactivate` or nothing. `Commit` applies it: the master's
output is `PIC_IRQCheck`, the slave's raises or lowers input 2 of the master,
whose own output follows. Each write to ports 20h, 21h, A0h and A1h is an
action; so are the three functions that devices call and `PIC_runIRQs`. Port reads
change nothing and are left out, as are the vector base and the register selected
for reading. When the emulator ends through `E_Exit`, what the failing call had
already changed is not tracked.

### Agenda and EventList

`EventList` keeps the C structure: entries with `next` pointers, the heads of the
free list and of the queue, the entry being served. `mode` says where the emulator
thread is; devices may act in an event handler, inside an instruction, on host
input and in a tick handler. `AddEntry` and `PIC_RunQueue` share the cycle
accounting of the source, including its two roundings and the two cycles that
`PIC_ActivateIRQ` takes. An index is a whole number of parts of a cycle, `Sub` to
the cycle; the source has a float in milliseconds, whose rounding is not modelled.
A CPU instruction takes one cycle from the budget and may spend more of it, up to
all (port delays, `HLT`).

The refinement maps the queue to a sequence in order, the entry being served to
`running`, and `PIC_TickIndexND()` to `clock`.

### Keyboard

The ring, the flags and the repeat countdown are the struct `keyb`. `transfers`
counts the transfer events really in the queue, apart from `scheduled`, which
says what the controller believes; the two differ only after the event queue was
full (`MayOverflow`, remembered in `dropped`). Bytes are named for their meaning.
The transfer event fires at any later moment, which covers every delay.

### Mixer

An action is what happens under one `SDL_LockAudio`. `MixerChannel::Enable` sets
`enabled` before it takes the lock, so it is two actions (`Enable`, `BringUp`). `pos`
is a slot of the ring; `done` and `needed` count from it, as in the source. Each
channel's handler may add up to `Surplus` more than it is asked for, or disable its
channel. How many samples a tick adds (`tick_add`, which the callback steers) is any
of `Adds`. Until `MIXER_Init` has set the limits the callback may already run:
`FinishInit` is a step of its own.

### Dma and SoundBlaster

The C functions of the card nest: a read of a channel may reach terminal count and
call back into the card, which may catch up with a read of its own. So the card, its
channels and its queued events are one record `s`, and each function is an operator
from it to the next; an action of the guest, the mixer or the queue applies one.
Amounts that the source computes from the time (`late`, `len`) are parameters that
range over what can occur. Events are a bag, since equal ones can be queued twice;
each may come due at any later moment.

The guest keeps to the programming guides: `Programmed` (it programs a channel before
it starts a transfer on it), `Covers` (a single-cycle channel is at least as long as what the
DSP is still to play, a block that waits for the end of the present one included), `Free` (it does not rewrite the channel under a running transfer), `Startable`
and `TakesOver` (it starts a transfer when none runs, or lets an autoinit transfer go
on as a single-cycle one). Without `Programmed` and `Covers` three calls lead to a
`left` that wraps, through a callback nested in a silent read (`sblaster.cpp:588`).

### DosMemory, DosFiles, CommandBridge and DosKernel

`mcb` maps the segment of each header to its fields, so that a header that joining
leaves inside a larger block is gone. `Compress` gives the result of the loop of
`DOS_CompressMemory` in closed form; `CompressLoop` is the loop as it is written, turn by
turn, and `CompressIsLoop` says that both come to the same chain. `Allocate` searches as the strategies say: upper memory first,
only, or not at all, first, best or last fit. EXEC (`Load`) is the sequence of the
source: the environment, a call made to fail, the program. A process is named by its
PSP. A program changes only blocks it owns and does not free that of its own PSP: the
source does not check either (`dos_memory.cpp:284`).

`DosFiles` keeps reference counts and handle tables; `lost` counts the references that
`SetNumFiles` and a duplicate onto a handle beyond the table drop, so that `RefsCounted`
can say exactly what the counts are.

`CommandBridge` numbers the commands in the order they are listed; 0 is `REM END AUTOMOUNT`.
`at` is where `DOS_Shell::Run` (`shell/shell.cpp:323-403`) is. The automount loop takes
commands up to the mark. At the head of the do-loop the shell reads a line of the batch file
set last (`ReadLine`), finds its end and deletes it (`EndBatch`), or, if there is none, goes on to
the loop over the list (`NoBatch`) and, with the list empty, to `InputCommand` (`Prompt`); from there it comes
back to the head. `bf` is the stack of batch files that `BatchFile::prev` links.
A line is a command of the shell or a program, a batch file, or `CALL` and a batch file (`Lines`), whichever
source it comes from; only the automount commands name no batch file. ParseLine runs
the first at once: the step is that of EXEC, and the shell goes on when the program has ended.
Of a batch file it runs nothing: it sets `bf`, and deletes the one set before unless it was called
(`Parsed`, `shell_misc.cpp:452-459`). So to take a command is not to run it. What
a batch file says is not modelled: each line is any line, and the end may come after any.
The first shell has parsed `AUTOEXEC.BAT` before the automount loop, so `bf` starts with it.
`DosKernel` adds what a batch file needs to be opened (`CanOpen`): when `ReadLine` cannot open it
the batch file is deleted like one that has ended, and when the constructor cannot the emulator
leaves through an `E_Exit`, which is no step of the model.

### MemHandles, Xms, Ems and ExtendedMemory

`mhandles` is the array of the source: 0 for a free page, -1 at the end of a block, else
the next page. The functions on it are operators from an array to the next. The inner loop
of a scattered allocation has no bound, so the model has the word after the array as one
more cell, which is 0 or somebody else's (`Foreign`), and in the first case may be handed
out.

An XMS block is a handle with the first page of a run; a lock says that its owner knows the
address. `emm_mappings` (the frame and the other segments) is what is recorded for a slot,
`firstmb` what the page table shows there; the two are apart in the source too. A saved page
map is a record of mappings, inside the handle (47h) or in the guest's memory (4Eh, 4Fh:
`context`). The emulator leaves through `E_Exit` when a handle without pages cannot be given
any (`exited`). A guest gives back only VCPI pages it has, and asks for no XMS block of size
0 (`NoEmptyBlocks`), whose handle is a page that stays free. Calls that return an error
change nothing and are no steps.

### Allocator

The emulator manages memory twice, once as a chain of headers inside the memory it
hands out (`dos_memory.cpp`) and once as an array of links beside it (`memory.cpp`). Both promise the
same: a unit of memory has one user at most; a call changes what one user holds; what it
gains was nobody's. `Allocator` says so of one variable, the set of pairs of a user and a
unit. `Holdings` is the refinement mapping: in `DosKernel` a process has the paragraphs
of the blocks that carry its PSP, headers excluded, so that a whole EXEC or
termination is one step of one process; in `ExtendedMemory` a handle of XMS or EMS has the pages of its
chain, VCPI has its own, and what is neither free nor theirs belongs to the rest of
the machine. It is more than `Tiling` or `PagesAccounted`: those say that the books
balance after a step, this says also that the step took nothing from anybody, for
instance by moving a block onto another and giving its owner something else.

## Runs

| Run | Checks | Instance, and why it suffices |
|---|---|---|
| `pic_nested` | `NestedSignal`, `ActiveIsHighest`, `NestedPriority` | N = 4; a device above and one below the cascade, two on the slave, so that interrupts nest on both chips and across them; masks that hide the timer, the cascade or nothing; nonspecific and specific EOI |
| `pic_modes` | `TypeOK`, `NoSpuriousSignal`, `NoCascadePanic`, `TimerSignalled` | N = 3; every command on the master, every ICW1, special mask and EOI on the slave |
| `pic_auto_eoi` | `ReadyIsSignalled` fails | auto-EOI on the master |
| `pic_irq2` | `NoCascadePanic` fails | a device on input 2 |
| `event_list` | `TypeOK`, `PoolIntact`, `NoOversleep`, `ImplementsAgenda` (with `Sorted` and `NeverLate` of `Agenda`), `EventsRun` | pool of three, so that it is exhausted and both lists change at head, middle and end; a tick of three cycles of two parts; delays below one cycle and across ticks |
| `keyboard` | `TypeOK`, `NoStall`, `RepeatHeld`, `InOrder`, `NoOverwrite`, `Drains` | ring of three bytes, one key of one byte and one of two, so that the ring wraps, fills and tears a code; a full event queue |
| `mixer` | `TypeOK`, `ChannelsKeepUp`, `NoSkip` | two channels, so that one is behind while the other is ahead; a ring of 16 that wraps, blocks of 4, so that each of the five cases of the callback occurs, with sound and without |
| `sound_blaster` | `TypeOK`, `LeftInCycle`, `InStep`, `PauseHolds`, `TransferEnds` | both card types, an 8-bit and a 16-bit channel, blocks of 3 and 6 so that DSP block and channel may differ, pulls of 1 and 4 so that they end inside and past a block, six calls of the guest |
| `dos_kernel` | `TypeOK`, `Tiling`, `OwnersLive`, `NoExecPanic`, `CompressIsLoop`, `RefsCounted`, `SharedStaysOpen`, `TakenInOrder`, `NoTheft`, `CommandsTaken`, `ImplementsAllocator` | 18 paragraphs, 6 of them upper memory; a program that must fit and one that takes all there is; three strategies that differ in fit and in the areas searched; three entries of `Files`, tables of two handles and of more; one automount, one autostart and one sent command, the last two of any kind, and `AUTOEXEC.BAT`; four calls of programs and lines of batch files |
| `startup_batch` | `StartupRuns` fails | the commands alone (`Workloads`), one automount and one autostart command, two calls |
| `extended_memory` | `PagesAccounted`, `LockedStays`, `FrameKept` | seven pages, two of them the system handle's, so that blocks meet, move and fragment what is left; logical pages of two pages, so that one may be torn; two XMS handles, two EMS handles and the system's, one VCPI page; a slot in the frame and one outside; six calls |
| `vcpi_address` | `VcpiTellsAddress` fails | the same |

Deadlock is checked where the loop must always go on: `event_list`, `mixer`
and `dos_kernel`. It is not in the runs of `Pic` and `Keyboard`, where the emulator may
end (`fatal`), nor in those of `SoundBlaster` and `ExtendedMemory`, where an idle
device waits for the guest, whose calls are bounded.

### What the failing runs show

* `pic_auto_eoi`: `PIC_runIRQs` clears `PIC_IRQCheck` after one interrupt. In
  fully nested mode the interrupts left over are found again at the EOI, and the
  theorems show that nothing is lost. In auto-EOI mode there is no EOI, so a second
  request stays unsignalled though interrupts are enabled. Special mask mode has
  the same gap. The timer, of highest priority, is never affected.
* `pic_irq2`: input 2 of the master belongs to the slave. A card configured for
  IRQ 2 raises it too, and the emulator ends in `slave_startIRQ`.
* `startup_batch`: `start()` lists the commands that "Go to startup program folder and run the
  program" (`src/dospad/Main/DOSPadEmulator.m:215`), by default `autorun.bat`. The loop over the list
  only sets `bf` for a batch file and goes on to `InputCommand`, which waits for a line with
  the batch file unread. It runs once somebody presses Return. A command sent later fares the same:
  its own Return brings the shell back to the list, and only the next one to the batch file.
  Of two batch files in the list the second deletes the first. That every batch
  file left is one that waits at the prompt is part of `CommandsTaken`.
* `vcpi_address`: VCPI function 06h is to return the physical address of what a page of the
  frame shows. It adds the number of the page inside the 16 KB to the first page of memory,
  as if the four followed one another; EMS pages are allocated scattered, and after a page
  between two blocks was freed they do not.

### Bounds

* `Pic`: `N` (lines), `DeviceLines`, `Masks`, `GuestOps`, `Icw1`. The state is
  finite without further bounds.
* `EventList`: `PoolSize` (512 in the source), `CycleMax`, `Sub`, `Delays`, and
  `Slack`, the number of cycles by which the clock may pass the head of the queue.
  `SlackAssumption` says how many the promise needs: one comes from rounding a distance
  of less than a cycle up to one, one from the `CPU_Cycles--` that ends the core's loop,
  and each interrupt raised before the grant is used up one more instruction. The theorems hold for all `Slack` that satisfy it; TLC finds the
  refinement violated one below it, in the run's instance and with `MaxCost = 2` or two
  interrupts. `MaxCost = 1` is the cost of an instruction; the interrupt lines `Irqs` are
  only distinguished as raised or not.
* `Keyboard`: `KEYBUFSIZE` (32 in the source), one pause and one rate, which are in
  ticks.
  `LongKeys` is empty in the run: the model has the two keys of several codes
  (pause and print screen), the instance does not, since their codes alone would fill
  the ring of three bytes.

* `Mixer`: `MaxNeeded`, the backlog at which a tick still mixes when the device has
  stopped taking samples; the source's ring is of 64 KB, and the theorems have no bound
  other than this constant.
* `SoundBlaster`: `MaxCalls` (calls of the guest), `CountMax` and `WordSize` (65535 and
  2^32 in the source). The sizes are chosen so that a block that does not fit its channel,
  a terminal count inside a block and a wrapped `left` all differ from the legal values.
* `DosKernel`: `MaxCalls` (calls of programs and lines of batch files), `MaxProcs` (processes with resident ones),
  `MaxLost`, `MaxCommands`, `MaxReturns`. `Workloads` splits the instance: in one
  behaviour programs make memory calls, or file calls, or the user sends commands; EXEC,
  termination and staying resident are in all of them. Memory and files meet nowhere but
  in EXEC and termination, so nothing is hidden by the split. Four calls are enough to
  allocate, free and resize in every order over two processes.

* `ExtendedMemory`: `MaxCalls`, `MaxVcpi`, `MaxSaved` (page maps saved at a time, in handles
  and by the guest together), `MaxLock` (255 in the source), and one cell after the array.
  `Workloads` splits the instance: in one behaviour the guest calls XMS, or maps EMS pages and
  saves maps; EMS blocks and VCPI pages are allocated, resized and freed in both. XMS and the
  mappings have no state in common but the pages, which both compete for. Six calls are
  enough to fragment memory, grow a block around the gap and map, save, shrink and restore it.

### Fairness

`EventList!Fairness` says that the loop goes on: every step of it is weakly fair,
since `Normal_Loop` never blocks, handlers and instructions return, and a core
leaves its loop when the cycles are spent. The start of a tick is strongly fair:
between two polls the loop may find that no millisecond has passed (`NoTickYet`)
any number of times, but host time advances, so it cannot be refused for ever.
Removals, additions and interrupts are not fair.

`Keyboard!Fairness`: a scheduled transfer fires (that is `EventList!EventsRun`), and
the guest reads port 60h while a byte waits there. The second is a demand on the
guest, whose interrupt handler does that; without it the ring rightly stays full.

`SoundBlaster!FairSpec`: the mixer pulls every millisecond and queued events come due,
which `TIMER_AddTick` and `PIC_RunQueue` see to as long as the emulator runs. The guest
is not fair. `TransferEnds` excepts a guest that turned the speaker off during the
transfer (`dropped`): on an SB Pro, D3h then leaves a transfer that no event ends.

`DosKernel!Fairness`: the shell goes on whenever it is the current process, the user
interface's thread finishes the `sendCommand` it is in, and programs end. The last is a
demand on programs, which the commands behind one wait for; that batch files end is another, which
the bound on their lines and the fairness of `EndBatch` bring about. A line the user types is not
fair, so `CommandsTaken` rests on the Return key of `sendCommand` alone, and shows that the
key may be taken by a program, or by a `PAUSE`, without a command being lost: the shell looks at its list
again when that program or batch file ends. It does not say that a batch file the command names is
run: with the shell at its prompt that takes another Return, which nobody owes
(`startup_batch`).

## Proofs

All theorems are stated for every value of the constants that the named assumptions of
the modules allow.

### PicProofs

For every `N > 2`, every set of devices and every guest program, on the assumption that
no device drives input 2 of the master:

| Theorem | Property |
|---|---|
| `Typed` | `TypeOK` |
| `SignalsBacked` | `NoSpuriousSignal` |
| `CascadeNeverPanics` | `NoCascadePanic` |
| `TimerNeverLost` | `TimerSignalled` |
| `NothingLostWhenNested` | `NestedSignal` |
| `EoiEndsHighest` | `ActiveIsHighest` |
| `NestedByPriority` | `NestedPriority` |

`pic_irq2` shows that the assumption is needed, `pic_auto_eoi` that `NestedSignal`
cannot be had in every mode.

The argument: a register operation is *honest* (`Honest`) when a signal it sends
tells whether a request can be started, and its silence means that what can be
started has not changed. `raise_irq`, `lower_irq`, `set_imr` and the EOI are honest
(`RaiseHonest` ... `EoiHonest`), and so are the writes built from them. If the output
was right before an honest operation it is right after (`OutputRight`); for the slave
this is applied twice, since its output is an operation on the master
(`CascadeInputHonest`, `CommitStep`). `PIC_runIRQs` is the exception: it clears the
output without asking. `StartIrq` shows why that is harmless in fully nested mode
(the interrupt it starts is the highest, and blocks all others) and for the timer.
The inductive invariant `IInv` joins these properties with `ModesOff`, which ties the
history variable `plain` to the mode bits; `ActiveIsHighest` is needed because
`StartIrq` must know that the ceiling of a chip is the highest line in service.
`NestedPriority` follows from `IInv` and the fact that only `start_irq` adds to the
interrupts in service.

### EventListProofs

For every pool, set of delays, length of tick, parts of a cycle, cost of instructions and
finite set of interrupts:

| Theorem | Property |
|---|---|
| `Typed` | `TypeOK` |
| `PoolKept` | `PoolIntact` |
| `NeverOversleeps` | `NoOversleep` |
| `Refines` | `ImplementsAgenda`, with `Sorted` and `NeverLate` of `Agenda` |

*The lists.* `Listed(nx, first, s, n)` says that the pointers `nx` from `first` thread the
first `n` elements of `s` and no others, without repetition; `ListFound` that `Chain` then
returns `s`. What the C code does to pointers is shown to be what it should do to sequences:
`ListedPush`, `ListedPop`, `ListedSplice`, `ListedCut`, and `WalkEnds` for the removal loop,
with the loop's invariant in `Walked`. `Pooled` says that queue, free list and the entry being
served share the pool, `Ordered` that the queue is in order of time.

*The time.* In whole cycles, so that both roundings are arithmetic (`MakeCycles`,
`WholeFrom`). `Timely` bounds the cycles the core holds by the distance of the head
(`InGrant`) and of the end of the tick (`InTick`), each with what the rounding, the overrun of the last
instruction and the interrupts raised since the grant add (`Backlog`). `NoOversleep` alone is not
inductive: an interrupt leaves the core two cycles whatever the head's distance, and
the clock's bound is needed to know that the distance is never too far below zero. From
`Timely` follow `NoOversleep`, `NeverLate`, and the bound of the clock in `Agenda!Pass`.

*The invariant* is `Inv == TypeOK /\ PoolInv /\ ModeInv /\ TimeInv`, with one lemma per
action. *The refinement*: `Scheduled` is the queue as a sequence of events (`ViewIs`), and
each action is a step of the agenda or leaves it as it is: `AddRefines` (insertion before the
first later event is behind all that are due no later), `CancelRefines`, `StartRefines`,
`FinishRefines`, `PassRefines` and `ClockRefines`, `TickRefines`.

The definitions of the model that recurse over a list are functions on `0..n`; what they
compute for every argument is proved with the least element of the set of arguments for which
it fails (`Smallest`, `UpTo`), in place of an induction theorem, which would need an operator
as a parameter.

The proof found that the bound on lateness, two cycles, was one of the instance and not of the
code: it grows with the cost of the last instruction and with the number of interrupts
raised in one grant, which `SlackAssumption` now says.

### KeyboardProofs

For a ring of any size, any keys (those of several codes too, which the run leaves out),
any delays, rates and commands, and an event queue that may be full:

| Theorem | Property |
|---|---|
| `Typed` | `TypeOK` |
| `NothingStalls` | `NoStall` |
| `OnlyHeldRepeats` | `RepeatHeld` |
| `NoPanic` | `NoUnsupportedKey` (proved only: no run checks it) |
| `NothingOverwritten` | `NoOverwrite` |
| `BytesInOrder` | `InOrder` |

The invariant `IInv` adds what the code relies on without saying so: a ring that is not
empty has a transfer announced or an unread byte before it (`Fed`); a queued transfer is
always announced (`Queued`); and an announced transfer meets an unread byte only if command
D0h put it there (`Unread`). The lemmas about `AddBuffer`, `ClrBuffer`, `AddScancode` and
the rest say what each does to the invariant and to the bytes that wait (`Contents`), a
sequence read off the ring modulo its size; the order of bytes follows from them.

### MixerProofs

For every ring, block size, stretch, prebuffer and surplus:

| Theorem | Property |
|---|---|
| `CountersNeverWrap` | `TypeOK` |
| `ChannelsStayAhead` | `ChannelsKeepUp` |
| `NothingSkipped` | `NoSkip` |

`ReduceInBounds` is the core: in each of the five cases of `MIXER_CallBack` the amount
taken is between zero and `done`. That needs `max_needed` to be at least twice
`min_needed` plus a block, which `IInv` carries from `MIXER_Init`, and the quotient of the
fourth case to be at most two (`AtMostTwo`), hence a block of at least three. `NoSkip` is
then arithmetic modulo the ring (`SlotStays`), given that an enabled channel has at least
what is taken, which is `ChannelsKeepUp`.

### SoundBlasterProofs

For any block sizes, amounts the mixer pulls, scaled limits and number of calls of the guest:

| Theorem | Property |
|---|---|
| `Typed` | `TypeOK` |
| `LeftCountsDown` | `LeftInCycle` |
| `StaysInStep` | `InStep` |
| `PauseIsQuiet` | `PauseHolds` |

Since the C functions nest, the invariant (`Good`) is one of the record `s`, and each
operator is shown to keep it. What it adds: a running card has a channel with enough for it (`Supplied`,
what `Covers` asks of the guest at the moment it unmasks); a card without a channel has
nothing left and no silent event (`Wired`); a Sound Blaster 16 never has a silent event, and
halted no end event (`Quiet`); and what `InStep` needs when a block ends (`Stepping`): the
size of the next block and of the channel. `TerminalCount` is the core: if a read of a running or
synchronised transfer reaches the end of a single-cycle channel, then the block ends with it, so
that the callback nested in the read has nothing to catch up with. The rest is arithmetic
modulo the block (`MultiplesAdd`, `SmallMultiple`).

`LeftInCycle` was not provable with `Covers` as it stood, which compared the channel with
`left` alone. A block that waits behind an abandoned autoinit transfer (`singlesize`) is
then not covered, and after eleven calls of the guest a silent event takes `left` below
zero; the run, at six calls, does not get there. `Covers` now counts it.

### DosMemoryProofs and DosKernelProofs

For every layout of memory that `MemoryAssumption` allows, every set of strategies and
programs and any number of processes and calls:

| Theorem | Property |
|---|---|
| `KernelInvariant` | `KernelInv`, the inductive invariant |
| `TilingHolds` | `Tiling` |
| `CompressIsLoopHolds` | `CompressIsLoop` |
| `OwnersLiveHolds` | `OwnersLive` |
| `PspKeptHolds` | `PspKept` (proved only: no run checks it) |
| `NoExecPanicHolds` | `NoExecPanic` |
| `NoTheftHolds` | `NoTheft` |
| `TakenInOrderHolds` | `TakenInOrder` |
| `AllocatorImplemented` | `ImplementsAllocator` |

`DosMemoryProofs` knows nothing of processes. It shows of each function of `DosMemory` that
it keeps the chain well-formed (`Chained`) and which headers it changes: `CompressFacts`,
`SplitFacts`, `JoinFacts`, then `AllocateFacts`, `ResizeFacts`, `FreeProcessFacts` built from
them. A chain has as many blocks as it likes, and the proofs never walk it: `Predecessor`
says that every header but the first is the end of one block, and the least or greatest
block of a kind exists because a set of naturals has a least element (`LeastExists`).
`CompressTwice` says that joining free blocks twice is joining them once.

`LoopCompresses` shows that the loop of `DOS_CompressMemory` comes to `Compress`. Its invariant
(`LoopAt`) is that the chain is the old one with some free neighbours joined (`Partly`), that
none are left to join up to the block the loop is at, and that with each turn that block
ends one paragraph higher or the loop is done. `CompressOnly` is the rest: of the chains that are
partly joined only one has nothing left to join, since the headers decide where blocks end,
and where they end decides their type.

`PspAt` and `SizeAt`, which the leaves do not unfold, keep the update of one header from
the provers where only the fields of others matter.

`KernelInv` adds to the properties a fact the code relies on without stating it: the processes that
have not ended form a tree in which each is the parent of at most one, and the one that runs
of none (`TreeInv`). Hence the end of the running process leaves no process without a parent, and what it
gives back is nobody else's. A process is named by the address of its PSP, and the
address of a new block is that of no allocated one (`AllocateFacts`), so a new
process is never taken for an old one (`SpawnStep`). `NoExecPanicHolds` rests on
`AllocateSucceeds`: a block of the largest size that the failed call reported is there. `NoTheft` is shown
through `Respects`: each call leaves the headers of other processes as they are.

`AllocatorImplemented`, last in `DosKernelProofs`, rests on two facts. `KernelInv` gives that
no paragraph is in two blocks (`HasDisjoint`), before a step and after it. And each
step is about one process (`OneUser`), which is proved along with `KernelInv`: the blocks of all others
are the same and end where they did (`Alone`), whatever free blocks are joined or split
between them. What a process gains by such a step cannot have been another's, since
the other has it still (`OneUserGains`, `AllocatorStep`).

`TakenInOrderHolds` is about any number of commands before and after the mark and any sent later,
any batch files, nested as they may be, and whatever programs run meanwhile. `BridgeInv` adds that no command behind the mark has been taken while the
automount loop is at work. `Expected` writes the list that a state of the bridge must have
as the automount commands left, the mark and the rest. `BatchInv` is the part about batch files:
what the list or the prompt sets is unread (`ParsedType`), only the head of the loop reads, and it goes on only
when no batch file is left. Taken is not run: that a command which is a batch file runs
later, and perhaps not at all, is what `startup_batch` shows.

### Files, in DosKernelProofs

For any number of entries of `Files`, handles, processes and calls:

| Theorem | Property |
|---|---|
| `RefsCountedHolds` | `RefsCounted` |
| `SharedStaysOpenHolds` | `SharedStaysOpen` |
| `KernelTypeOK` | `TypeOK` of `DosKernel` |

`FileInv` adds that an entry in use is open and counts something, and that the
handles naming it are finitely many, without which `Cardinality` says nothing. A
step changes the table of one process at most, so the handles that name a file are counted in
two parts, those of that process and those of the others (`NamesSplit`, `OthersSame`), and a
step is right when the count in `Files` moves by as much as the first part and `lost` do
(`OneTable`). Handles are then counted one at a time: `SetHandle` for a handle that is set,
`InheritStep` and `CloseFilesStep` for a whole table that is copied or closed.
`KernelTypeOK` joins the invariants of memory, files, commands and batch files.

The proof found that `FilesAssumption` was too weak: without an entry and a handle
there is nothing for the shell's console, and `Init` no longer opens what it counts. It now asks for
one of each, as the constants of the source grant.

### ExtendedMemoryProofs

For any size of the memory, any number of handles, logical pages, slots and saved maps, and
any sizes of blocks but 0 (`NoEmptyBlocks`, see below):

| Theorem | Property |
|---|---|
| `BooksKept` | `IInv`, the inductive invariant |
| `PagesAccountedHolds` | `PagesAccounted` |
| `LockedStaysHolds` | `LockedStays` |
| `FrameKeptHolds` | `FrameKept` |
| `AllocatorImplemented` | `ImplementsAllocator` (proved only: no run checks it) |

`IInv` consists of the types (`Typed`), of the books (`Books`) and of `XmsRows`: an XMS block
is a row of pages, and a free handle has none. The books are one ledger over all owners, the
handles of XMS and of EMS and the pages of VCPI: each owner's chain of links is a block of
the size it asked for, no two share a page, and a page in none of them is free or foreign.
`PagesAccounted` is what the ledger says counted page by page (`Counted`). By itself it is not
inductive: it does not say that a chain ends in -1 rather than in a circle, that a handle not
in use holds nothing, or that the entries of the tables are numbers.

The proof goes in three layers.

* `Chain` follows links for as many steps as there are pages. `Block` says without steps that
  a handle leads along a sequence of distinct pages that ends in -1, and `WalkIs` shows
  that there is only one such sequence, so that a block is found again after every change
  (`ChainFound`).
  A scattered allocation is a function on the number of pages taken: `OneLeft` shows that
  one is left while fewer than were free are taken, which is why
  `E_Exit("MEM:corruption during allocate")` is no step of the model.
* Each function of `memory.cpp` replaces one block by another and takes only free pages for it
  (`Replaces`): `AllocateGives`, `ReleaseGives`, `ShrinkGives`, `ExtendGives`, `ChainedGives`, and
  `ReAllocateGives` for all cases of `MEM_ReAllocatePages`, with what they promise of rows
  and of the pages that a scattered block keeps.
* A call of XMS, EMS or VCPI is one posting in the ledger (`LedgerKept`): the owner has the new
  block, everybody else has the old one. With it comes what a step may not do: a locked block
  is nobody's to replace (`LockedStep`), and a slot whose mapping stands shows pages that
  `ChainedGives` left at the head of their handle (`FrameStep`).

`AllocatorImplemented` follows the same way as for the chain of DOS: the ledger says that a page has one
owner (`KeepsApart`), and a posting is about one handle, or about VCPI (`OneUser`), while the
pages of others, `Foreign` ones included, stay theirs (`ForeignKept`).

`NoEmptyBlocks` is a promise of the guest and none of the code: without it `PagesAccounted`
is false (`ints/xms.cpp:146`, below). `Chain` and `Scatter` are functions on numbers, not
recursions on sequences, so that what they compute can be described step by step.

### Only model-checked

Liveness (`EventsRun`, `Drains`, `TransferEnds`, `CommandsTaken`), since the prover does not
handle fairness. Every other property of a passing run is a theorem.

The other way round, `NoUnsupportedKey`, `PspKept` and `ImplementsAllocator` of
`ExtendedMemory` are proved and in no run: the first two say little that other properties of their
runs do not, and the holdings of all handles, found page by page for every step, cost TLC
more time than the rest of `extended_memory`.

## Observations

Found while reading and checking, and not counted as disagreements with a document or a
test:

* `dos/dos_memory.cpp:154`: with bit 7 of the strategy, last fit searches low memory after
  upper memory and takes the block found last, so it prefers low memory.
* `dos/dos_execute.cpp:87`: `DOS_Terminate` closes handles through `dos.psp()`.
* `dos/dos_classes.cpp:263`: function 26h copies the handles of a PSP without adding
  references.
* `dos/dos_files.cpp:609`: `DOS_OpenFileExtended` can fail with the handle left open.
* `hardware/sblaster.cpp:428`, `:535`: an end event computed for an old time constant meets
  a lower `min` after command 40h.
* `hardware/sblaster.cpp:700`: `DSP_DoDMATransfer` removes end events but not silent ones, so
  two chains of them may run. `:775-807`: reset leaves silent and interrupt events queued, so
  that an interrupt may follow a reset.
* `hardware/sblaster.cpp:243`: D1h while halted queues an end event, which moves a halted SB
  Pro: `PauseHolds` is about the SB16.
* `hardware/sblaster.cpp:679-686`: a single-cycle size left by a take-over that was abandoned
  is used by a later transfer after it leaves autoinit.
* `hardware/sblaster.cpp:1509`, `:1516`: reading the 8-bit status lowers the line while a
  16-bit interrupt is pending, and the 16-bit acknowledge does not lower it.
* `hardware/keyboard.cpp:138-141`: command F6h, "enable scanning" in its comment, clears
  `keyb.scanning`, as F5h does.
* `hardware/keyboard.cpp:82`: a ring with one place left takes the prefix E0h of an extended
  key and drops its code, which `Keyboard` models and no document excludes. `:212`: command
  D0h writes its answer over a byte not yet read, which `NoOverwrite` excepts.
* `hardware/pic.cpp:168`: an index is a 32-bit float in milliseconds; events closer than its
  precision change order or come together. `cpu/cpu.cpp:1573-1578`, `:2110`, `:2136`,
  `dos/dos_execute.cpp:124-128`: a new `CPU_CycleMax` in the middle of a tick makes
  `PIC_TickIndexND` jump.
* `hardware/sblaster.cpp:719`: `DSP_PrepareDMA_Old` stores the new size before
  `DSP_DoDMATransfer` fills up; a running single-cycle transfer that ends in that `FillUp`
  takes it, and the new transfer starts with none. `dos/dos_execute.cpp:182`: when
  `DOS_Canonicalize` fails in `MakeEnv`, EXEC does not free the environment.
* `hardware/memory.cpp:304-308`: the loop of a scattered allocation runs past the end of
  `mhandles` when the page after the last is asked for.
* `ints/xms.cpp:146`: an XMS block of size 0 gets a free page for its handle without taking
  it; freeing it later frees the page of whoever has got it since, and resizing it to one
  page reserves nothing. `:157`: a locked block is freed like any other.
* `ints/ems.cpp:288-289`: a handle of no pages that is given none, or more than there are,
  ends the emulator. `:399-420`: a release, like a shrink, leaves the frame showing pages
  that are free. `:413`, "OS handle is NEVER deallocated": its pages are, and they hold
  VCPI's private area. `EMM_MapSegment` takes a segment that is no multiple of 0x400, and
  those from 0xDC01 to 0xDFFF come to slot 0 of the frame.
* `hardware/pic.cpp:241-242`: in single mode the controller goes on to ICW4 even when ICW1 did not
  announce it ("=3 if ICW4 needed", `:190`), takes the next mask for it, and leaves through
  `E_Exit` if bit 0 of that mask is clear. A PC has its controllers cascaded.
* `shell/shell_misc.cpp:457`: a batch file that is not called deletes the one set before it,
  unread or not. `shell/shell_batch.cpp:37-39`: a batch file that exists but cannot be opened,
  because `Files` is full, ends the emulator; one that cannot be opened for its next line is
  dropped without a message on the screen.
* `hardware/mixer.cpp:93-133`: channels are added to and removed from the list without the
  lock under which the audio thread walks it.

## Not modelled

* CPU cores, VGA, synthesis, BIOS services, configuration, host file systems: data and
  arithmetic rather than control, or out of TLC's reach. SDL, SDL_net, SDL_sound and the MT-32
  emulator are third-party and make up most of the tree; so the models cover a small share of
  its lines.
* The interval timer, the BIOS key ring: candidates below.
* Of XMS and EMS: moves of memory, names and attributes, upper memory through XMS (which works
  on the chain of `DosMemory`), the A20 calls, the protected mode side of VCPI; of memory
  handles: page handlers and the wrap of the A20 line.
* Inside modelled components: samples and volumes; DMA addresses and pages, writes to memory;
  ADPCM, the ADC and identification commands of the card; FCBs, paths, devices; PSPs a program
  builds by hand, overlays; the text of batch files, shells within the shell, redirection; the pause flag; what `NSMutableArray` does when two
  threads are inside it. `PROJECT.json` says it per component, and per hazard.

## Plan

1. Done: `Pic`, `Agenda`, `EventList`, `Keyboard`, `Mixer`, `Dma`, `SoundBlaster`, `DosMemory`,
   `DosFiles`, `CommandBridge`, `DosKernel`, `MemHandles`, `Xms`, `Ems`, `ExtendedMemory`, `Allocator`; proofs about `Pic`,
   `EventList` with its refinement, `Keyboard`, `Mixer`, `SoundBlaster`, `ExtendedMemory` and the
   whole of `DosKernel`, the last two with the refinement of `Allocator`.
2. If room is left: the calls of XMS for upper memory, over `DosMemory`; a changing
   `CPU_CycleMax` in `EventList`; and a composition of `Keyboard` with `Pic` for interrupts left
   raised after a polled read.
