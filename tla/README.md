# Yalnix kernel: TLA+ models, checks and proofs

Models of the Yalnix kernel of this repository (COMP 421 lab 2): the scheduler,
the process table with Fork, Wait, Exit and Delay, the terminals, memory from
frames and page tables to Exec, Brk and stack growth, boot, and the process table
and memory together. TLC checks them on small instances; TLAPS proves every
safety property of the passing runs and both refinements for all values of the
constants. Everything is written from the C files; file and line of each definition
are in `PROJECT.json` under `map`.

## 1. The system

The kernel runs on a simulated machine with one CPU. It is entered by traps
(system calls and errors of the running process) and interrupts (clock, terminal
receive, terminal transmit). Handlers run with interrupts off and are not
preempted; they give the CPU away only by calling `scheduleProcess`, which
calls the simulator's `ContextSwitch`. So the concurrency of this program is
cooperative inside the kernel and arbitrary outside: between any two
instructions of a user program an interrupt may come, and a handler that called
`scheduleProcess` goes on at that point only after any number of steps of
others. The data a handler read before that call may be stale afterwards.

| Component | State | Operations | Hard behaviour | What makes it correct |
|---|---|---|---|---|
| Process scheduler (`processScheduling.c`) | list `head`, `isIdleRunning`, `lastClockTickPID`, `nextPid`, `processExitingNow` | `scheduleProcess`, `decreaseDelay`, `removeExitingProcess`, `tryFreeSwitchedAwayExitingProcess`, `getWritingPCB`, `wakeUpReader`, `wakeUpWriter` | list surgery in every order; idle, which is not on the list, as the runner; freeing a process that still owns the running stack | nobody lost or doubled; the runner is ready; ready processes run; exited ones freed before the next exit |
| Context switch (`contextSwitch.c`) | the saved context of each process | `switchToExistingProcess`, `cloneAndSwitchToProcess`, `copyMemory` | both halves of a fork resume at one point | each resumes where it left |
| Process control blocks (`processControlBlock.c`) | delay, flags, parent, child count, exit queue | `createNewProcess`, `getPCB`, `appendChildExitNode`, `popChildExitNode` | counters and links kept beside each other | counts exact, reports FIFO |
| System calls and traps (`trapHandlers.c`) | none of its own | the handlers | check, block, resume, use | no lost wakeup; no NULL used |
| Terminals (`terminal.c`) | per terminal: ring buffer, read and write index, count | `writeBuffer`, `readBuffer`, `isNewLineInBuffer`, the two interrupts | readers and writers waiting in loops, interrupts that come for processes that are gone | waiting processes are woken; one transmission at a time; lines are read once |
| Frames and kernel heap (`memoryManagement.c`) | frame array, `kernelBrk` | `getFreePhysicalPage`, `freePhysicalPage`, `SetKernelBrk`, `growUserStack`, `brkHandler` | counts checked before, frames taken after | each frame has one owner; a lost one never gets a second |
| Page tables (`pageTableManagement.c`) | list of half-page records, kernel page table | `createPageTable`, `fillPageTable`, `freePageTable` | two tables share a page; records go at the end only | a live table's page is mapped and kept |
| Exec (`loadProgram.c`) | the page table of the caller | `LoadProgram` | fails before or after the old image is freed | the old image is intact or the process ends |
| Boot (`kernelStart.c`) | order of initialisation, `isInit` | `KernelStart` | idle is cloned in the middle of it | idle and init each finish it once |
| `idle.c`, `init.c`, tests, template, Makefile | – | user programs, build | – | – |

How they interact: every blocking call sets a field of the caller's PCB and calls
`scheduleProcess(0)`; other handlers (exit, clock, the terminal interrupts)
clear that field; the scheduler looks at nothing else (`isThisProcessBlocked`).
Exit reaches into the parent's PCB and into the children's. The terminals look
for the process to wake on the scheduler's list. The PCB's page table is freed by
the process that runs after the exit.

## 2. The modules

| Module | Models |
|---|---|
| `Scheduling` | the list, idle, `scheduleProcess`, the clock interrupt, the end of a context switch |
| `ProcessControl` | extends it with Fork, Wait, Exit, Delay and program errors; properties of the process table |
| `ChildLifecycle` | abstract: births, deaths, collection of exits, without a scheduler |
| `ProcessRefinement` | the mapping by which `ProcessControl` implements `ChildLifecycle` |
| `Terminals` | extends `ProcessControl` with TtyRead, TtyWrite and the terminal interrupts |
| `IdleTurn` | extends `Terminals` with a history of who a terminal made ready since the last tick; states when idle gives the CPU up |
| `Memory` | the frame array, the kernel heap, page tables and their records; Fork's copy, LoadProgram, Exec, Exit, Brk, the memory trap |
| `Boot` | extends it with the end of `KernelStart` and with processes that make these calls in any order; properties of memory |
| `FrameAllocator` | abstract: each frame is a process's, the kernel's, free, or lost for good |
| `MemoryRefinement` | the mapping by which `Boot` implements `FrameAllocator` |
| `Kernel` | composes `ProcessControl` (extended) and `Boot` (instantiated): one step of a handler is one step of both |
| `MCProcessControl`, `MCTerminals`, `MCIdleTurn`, `MCMemory`, `MCKernel` | values of the constants for TLC |
| `ProcessControl_proof`, `ProcessCalls_proof` | theorems about `ProcessControl` |
| `ProcessRefinement_proof` | `ProcessControl` implements `ChildLifecycle` |
| `Terminals_proof` | theorems about `Terminals` and `IdleTurn` |
| `FrameAllocator` (second half), `Frames_proof`, `Memory_proof` | theorems about `Memory` and `Boot`, and that `Boot` implements `FrameAllocator` |
| `Kernel_proof` | theorems about `Kernel` |

**Atomicity.** A handler is one action up to the point where it gives the CPU
away. What is left to do is the process's *continuation*, kept in the
`savedContext` field of its PCB: `user` (in user mode), `return` (nothing left but
to return), `fork`, `wait`, `read`, `write` (the tail of these handlers). The
scheduler's choice happens in the action that calls it; the tail is an action of
the process that was switched to, enabled when that process is the runner.
`UserMode` and `KernelMode` say which kind the runner is in; system calls and
interrupts need `UserMode`. A tail begins with what `switchToExistingProcess`
does after `ContextSwitch`: freeing the process that exited (`BackToUser`,
`FreeExiting`).

**State.** `queue` is the list from `head`; `pcb` maps the pids of allocated PCBs
to records with the fields of `struct processControlBlock` that matter here
(`isReading` is left out: no code ever sets it). `machine` turns to `halted` where
the code calls `Halt`, and to `faulted` where it would use a NULL (a parent's PCB
not found, an empty exit queue): both are reachable by the actions, and
`HaltsOnlyWithLastExit` says that only the intended halt is reached.

**History variables.** `forked`, `exitLog`, `waitLog` (`ProcessControl`) record
what Fork and Wait returned and which children exited; `unread` (`Terminals`)
records the characters stored and not yet returned, and starts with an unset cell for
each one that a positive `count` claims at boot; `woken` (`IdleTurn`) records whom the
terminals made ready since the last tick. No action's guard reads them.

**Memory.** Addresses are counted in pages. `space[p]` has the fields of a PCB that
concern memory: where its page table is (`page`, `half`), the frame of each valid
entry (`pageTable`), `readOnly` (entries whose `uprot` lacks PROT_WRITE), `brk` and
`limit` (`userStackLimit`). `occupied` is the frame array, `records` the list of page table
records, `kernelPageTable` the frames of Region 1. `Fresh` gives the frames that
repeated calls of `getFreePhysicalPage` find, in the order the code asks for them.
A handler is one action here too; it is taken only in user mode and after an exited
process was freed (`Running`), which `Kernel` shows to be so (`ReleasedBeforeUser`);
that `Kernel` takes no other steps on memory than `Boot` does is `MemoryIsBoots`.
`halt` says why the model stops. The code halts where no frame is left (`frames`), where
`SetKernelBrk` meets the page tables (`heapAtTables`), at a high frame (`highFrame`), and
so on. In two cases it goes on and its behaviour is undefined: it uses the NULL of a
failed malloc (`malloc`), or it has put a page of page tables on a page of the heap
(`heapOverwritten`). The step that does the latter is taken as the code takes it, and
the properties of memory hold in the state after it; what the kernel does without
that page of its data is not modelled.

**malloc.** What malloc does inside the heap is not known from here; the model keeps what
reaches the kernel's own code: it may call `SetKernelBrk`. A handler that calls malloc
has a parameter `n`, the pages by which the heap grows, from 0 on. Several mallocs
of one handler are one growth, at the first of them. The heap of the model never
shrinks; if free ever lowered the break, `SetKernelBrk` would move `kernelBrk` and keep the
pages valid, and halt when the heap grows again.

**Boot.** `BootInit` is the state in which virtual memory goes on: everything before is one
thread without a choice. `LoadIdle`, `CloneInit` and `LoadInit` follow `KernelStart`, each
with its failures. `UnclearedMarks` stands for the part of the frame array that
`memset` leaves as it was.

**Composition.** `Kernel` conjoins each handler's action on the process table with its
action on memory; what one of them decides alone (which process resumes, whether
the kernel halts) the other has to match, and the properties of `Kernel` say that it
does. `machine` turns to `faulted` with the reasons in `Undefined`, to `halted` with the
others. The terminals are left out of it, except for the memory of the receive
interrupt: they share with memory nothing but malloc.

**External.** Terminal hardware: `transmitting[t]` counts `TtyTransmit` calls whose
interrupt has not come; a receive interrupt brings one of `InputLines`. The
buffers' `count` is never initialised by `initTerminalBuffers`, so `TermInit`
takes it from `InitialCounts`, any integers. `terminal_readers`, whose property is about
what the buffers hold, has -1, 0 and 1; the other runs have `{0}`: for the violations one
start is enough, and no other property reads the buffers. The theorems about terminals
hold for any integers. Overflow of `count` itself is not modelled. A `TtyTransmit` of no characters
(a full buffer stores nothing) is taken to cause an interrupt like any other. User programs:
any process may make any call at any time it is in user mode, or be killed.

Faulty variants (`X_Something`, just before `X`) are the code with one plausible
slip. They are used by nothing; each property was seen to fail when the variant
named under `mutants` in `PROJECT.json` takes the place of the definition.

## 3. What TLC checks

| Run (cfg) | Instance | Distinct states | Shows |
|---|---|---|---|
| `process_table` (`MCProcessControl.cfg`) | 4 pids, delays to 2 | 138 thousand | type invariant; no process lost by list surgery; parents alive; child counts exact; no lost wakeup in Wait; reports in order; Wait returns only own children; the exited process is freed first; no NULL used and no early halt; the runner is ready; `ProcessControl` implements `ChildLifecycle`; ready processes run, delays end, reports are collected |
| `terminal_writers` (`MCWriters.cfg`) | 3 pids, 2 terminals, up to 2 transmissions each | 483 thousand | at most one marked writer per terminal, with an interrupt to come; no NULL used, no early halt |
| `terminal_readers` (`MCReaders.cfg`) | 3 pids, 1 terminal, buffer of 2, lines and output, counts from -1 to 1 | 1.36 million | reads see unstored cells only because of the count malloc left; idle gives the CPU up at the next tick, unless a terminal woke the process that the last tick hit; Wait is unaffected |
| `terminal_liveness` (`MCTermLiveness.cfg`) | 3 pids, 1 terminal, 3 transmissions, lines that arrive at any time | 65 thousand | also with readers between the writers: marks go away; waiting writers are woken; with two of them each has a waker, and one is marked at a time |
| `memory` (`MCMemory.cfg`) | 3 pids, 32 frames, 5 calls after boot | 115 thousand | type invariant; one owner per frame, also for the kernel's; records match tables; what is below the break is mapped; nothing is freed twice; `Boot` implements `FrameAllocator` |
| `kernel` (`MCKernel.cfg`) | 3 pids, 32 frames, 4 memory calls | 223 thousand | process table and memory agree on who exists and who is to be freed; an exited process is freed before a program runs; nothing in the process table stops the kernel, memory does; `Kernel` implements `Boot`; every exited process is released |
| `overlapping_writes` (`MCOverlap.cfg`) | 2 terminals | – | violation, see 4 |
| `lost_reader` (`MCLostReader.cfg`) | 3 pids, 1 terminal | – | violation, see 4 |
| `stale_read` (`MCStaleRead.cfg`) | 1 terminal, 2 lines | – | violation, see 4 |
| `copy_runs_out` (`MCCopyRunsOut.cfg`) | as `memory`, no heap growth | – | violation, see 4 |
| `exit_halts` (`MCExitHalts.cfg`) | as `memory`, no heap growth | – | violation, see 4 |
| `tables_meet_heap` (`MCTablesMeetHeap.cfg`) | as `memory` | – | violation, see 4 |

**Bounds.** `MaxPid` ends forking (in the code memory does, with the same ERROR);
pids are not reused, so it also bounds each run. Four pids give a grandparent, a
parent, and two siblings, so that orphaning, two reports in one queue, a wait
beside a delay and idle all occur; three suffice for one writer and two waiting,
or two readers and a third process. `MaxDelay` 2 makes delays of different
processes overlap. `MaxTransmissions` bounds the TtyWrite calls under way at a
terminal by the guard at the call, so that no process is stuck inside one because
of the bound. In `terminal_readers` the buffer has 2 cells, a line is a newline and an
output one character: the third store finds the buffer full and is dropped, or, after a
read, goes to cell 0 again. `terminal_liveness` has one terminal; that a writer is not forgotten when the one
before it moved to another terminal rests on the theorem `NoWriterForgotten`.
Memory: Region 0 has 16 pages with one page of kernel stack, Region 1 has 16 of which one
is left between the heap and the top page, and there are 32 frames, 16 of them free
at first. So a fork of two processes needs a second page of page tables, which may
meet a heap that grew; two programs of 3 and 5 pages and a stack that can grow over
the heap use the frames up; freed pages are found again. `MaxCalls` bounds the calls
after boot: with 5, every reason to halt occurs (frames and pages used up, the heap
overwritten, high frames, the last exit). `Growths` is how much malloc may ask for.
`BrkPages` has a break below, at and above the one the programs start with,
`AccessPages` one at the start of the text, one that makes the stack grow and one outside
of Region 0. One word of the frame array past the cleared part may be set. In `kernel`
only calls that use memory count against `MaxCalls`; ticks, waits, delays and
resumptions are not bounded.
Deadlock is checked in every run; a stopped machine stutters (`Stopped`, `Halted`,
`KernelStopped`).

**Fairness.** `ProcFairSpec`: weak fairness of `Tick` (the clock keeps ticking) and
of `Resume` (a handler switched to runs on). No process is obliged to make any
call. `TermFairSpec` adds strong fairness of each terminal's transmit interrupt:
the device finishes, and a pending interrupt is taken once user mode is entered,
although the kernel is entered and left in between. Nothing is assumed of input.
`KernelFairSpec` needs only that a handler that was switched to runs on (`KernelResume`).
The liveness results are for bounded forking. With unbounded pids a process that
forks a child which forks and exits, for ever, puts each new child at the head
of the list; the bounded instances do not show what that does to the others.

## 4. Findings

- **Overlapping transmissions.** `ttyWriteHandler` starts a transmission, sets
  `isWriting` and returns without waiting. The field holds one terminal: after a
  write to another one, nothing marks the first as busy, and the next TtyWrite to
  it transmits while the device is busy, against `terminal.c:25`.
- **A reader sleeps beside a line.** Readers are woken only when a line arrives, one
  per line. With two waiting and a partial read by the first, the second sleeps
  with a line in the buffer, against `terminal.c:62`.
- **Old lines are read again.** `readBuffer` does not store its index back: `read` stays
  0 while `write` moves, so a later TtyRead returns the characters of the first
  line, against `terminal.c:73`.
- **Fork's copy runs out of frames.** Fork's check leaves out the frame `createPageTable`
  takes when all half pages are in use. With exactly as many frames as the check
  wants, the copy finds none and the kernel halts, against `contextSwitch.c:35`.
- **A high frame halts the kernel at exit.** `freePageTable` refuses every frame
  numbered from the kernel stack's page on as one of idle's kernel stack
  (`pageTableManagement.c:191`). The frames above are handed out like any others, so
  with enough memory in use the next exit of their owner stops the kernel.
- **A page of page tables on the heap.** `createPageTable` makes the page below the last
  one valid with a new frame and does not look whether the heap has come that far. The
  check is commented out (`pageTableManagement.c:116-119`); without it the fork
  replaces a page of the kernel's own heap.

Also seen while modelling memory, without a text that says otherwise: growing the stack takes
new frames for the pages that Exec had put in place, as `userStackLimit` starts at the top
of the stack, and may take over pages of the heap; the old frames stay marked
and are lost (`ImplementsAllocator` has lost frames for this, and shows they never come
back to anybody). `SetKernelBrk` marks the frames with the numbers of the new heap
pages besides those it took. The entry cleared for a freed page of page tables lies
outside of the kernel page table; the page's own entry stays valid, so the heap
cannot grow there. A receive interrupt never frees its buffer. A failure to load idle
is reported as halting but boot goes on.

Noted in passing, without a run: `processControlBlock.h:21` wants the exit queue freed
when its process exits, and the loop that did it is commented out
(`processScheduling.c:188-195`); the model has no state for the nodes malloc gave out.
`processScheduling.c:152` says idle is left at the next tick. With terminals it may take
two: a tick hits p, p blocks in TtyRead and idle runs, the receive interrupt makes
p ready, and the next tick finds p's pid in `lastClockTickPID`, not idle's, and only
records idle's (lines 44-51). `IdleYieldsSoon` says that this is the only exception.

A waiting writer can be passed over for ever. The first waiting
process on the list is woken, and while idle runs the list does not turn, so a
process that writes in a loop can be first again each time. No text of the
repository promises otherwise, so the property checked is that *some* waiting
writer is woken. `processScheduling.c:163` says that an exit may find the previous
exit not cleaned up, for pid 2; `ExitingIsFreedFirst` says this cannot happen. The
repository's `README.md` calls pid 0 init and pid 1 idle; `processScheduling.h:5-6`
has it the other way round.

## 5. What is proved

Every theorem is for all values of the constants that satisfy the assumptions of
the modules, which TLC evaluates for the instances of the runs. A theorem
`Spec => []P` is listed by its name and `P`.

| Module | Theorem | States |
|---|---|---|
| `ProcessControl_proof` | `TypeCorrect` | `TypeOK` |
| | `ListIsSound` | `NoLostProcess` |
| | `FamilyIsSound` | `ParentAlive` |
| | `ChildCountIsExact` | `ChildCountExact` |
| | `NoLostWakeup` | `WaitIsWokenByReport` |
| | `ReportsAreDelivered` | `ReportsInOrder` |
| | `ExitedIsFreedFirst` | `ExitingIsFreedFirst` |
| | `KernelSurvives` | `HaltsOnlyWithLastExit` |
| `ProcessCalls_proof` | `OwnChildrenOnly` | `WaitReturnsOwnChild` |
| | `OnlyReadyRun` | `RunningIsReady` |
| `ProcessRefinement_proof` | `ProcessControlImplementsLifecycle` | `ProcSpec => ImplementsLifecycle` |
| `Terminals_proof` | `TerminalsTyped` | `TermTypeOK` |
| | `WriterIsAlone` | `OneWriterTransmitting` |
| | `NoWriterForgotten` | `WaitingWriterHasWaker` |
| | `OnlyMallocShowsUnstored` | `UnstoredOnlyFromMalloc` |
| | `IdleYields` | `TurnSpec => []IdleYieldsSoon` |
| | `NoLostWakeupWithTerminals` | `TermSpec => []WaitIsWokenByReport` |
| | `KernelSurvivesWithTerminals` | `TermSpec => []HaltsOnlyWithLastExit` |
| `FrameAllocator` | `AlwaysExclusive` | `Exclusive` of the abstract allocator |
| `Memory_proof` | `MemoryTyped` | `MemTypeOK` |
| | `NoFrameIsShared` | `SingleOwner` |
| | `PageTablesKept` | `TablesSound` |
| | `BreakIsBacked` | `BrkMapped` |
| | `NothingFreedTwice` | `NeverFreedTwice` |
| | `MemoryImplementsAllocator` | `BootSpec => ImplementsAllocator` |
| `Kernel_proof` | `TablesAgree` | `SpacesMatch` |
| | `MemoryIsBack` | `ReleasedBeforeUser` |
| | `HaltIsShared` | `OnlyMemoryStops` |
| | `KernelImplementsBoot` | `KernelSpec => MemoryIsBoots` |
| | `KernelMemoryIsSound` | `KernelSpec => []` of the four properties of `Memory_proof` after the first |
| | `CallsKeepTheirPromise` | `KernelSpec => []` of `ParentAlive`, `ChildCountExact`, `WaitIsWokenByReport`, `ReportsInOrder` |

**The process table** (`SchedulingAssumption`, `ProcessControlAssumption`). None of the
properties is inductive alone, and they need each other: that exit finds its parent
needs `ParentAlive`, which needs every child to be on the list (`NoLostProcess`), and
that nobody but idle runs while an exited process is still allocated
(`ExitingIsFreedFirst`); that a woken Wait finds a report needs that the process with
the CPU does not sleep and that a sleeping parent has a live child
(`ChildCountExact`). So the invariant `IInv` is their conjunction, strengthened by
`OneInUserMode` (only the runner is in user mode) and `Auxiliary`: pids in use are
below `nextPid`, so that a new one is fresh; a parent's pid is below its child's, so
that no two processes report to each other; idle's continuation is only ever `user`
or `return`; logs of pids not yet handed out are empty.

`IInv` is an invariant of three specifications: of `ProcSpec`, of `TermSpec` and of
`KernelSpec`. For this it has `RunnerAwake` in place of `RunningIsReady`: TtyWrite
marks its process as writing and returns, and the process runs on although
`isThisProcessBlocked` would call it blocked, so that with terminals the
runner is only known not to be *asleep* (`IsAsleep`: in a delay or in a wait of its
own), and that is what the proofs use. `HaltsOnlyWithLastExit` is proved beside it, as
`Kernel` halts for other reasons too; without terminals and memory both
are theorems.

The file goes from lemmas about lists (`RotateElement`, `RotatePermutes`,
`ConsElements`, `TailElements`), over lemmas about groups of actions (`ScheduleStep`:
any handler that changes PCBs quietly and calls the scheduler; `InterruptStep`: any
interrupt that wakes and blocks nobody by force; `BackToUserStep`: any handler tail
that leaves the kernel), to one lemma per action, `NextStep` and `Invariance`.

**What calls return, and the lifecycle.** `ProcessCalls_proof` tells four kinds of steps
apart (`FamilySteps`): a birth, a death, a report taken, and steps that keep the
family. `WaitReturnsOwnChild` needs the pids that Fork *is about to* return as well
as those it returned: a child may exit, and be on its parent's queue, before its
parent's Fork is back (`Known`, `FamilyKnown`). `ProcessRefinement_proof` maps
each of the four kinds to a step or a stutter of `ChildLifecycle`.

**Terminals** (`TerminalsAssumption`; texts are sequences of characters of which none is
the mark `Unset` that the model has for a cell nobody wrote). The invariant `TermInv` is `IInv` with
`BuffersTyped` and four statements about writing: `WritersWaitInside` (who waits to
write is inside TtyWrite), `OneWriter`, `TransmissionsBounded` (the interrupts to
come and the processes inside TtyWrite are, together, no more than the model
allows) and `WaitingWriterHasWaker`. Every step is shown to be quiet
(`TtyQuiet`), to start a transmission (`Transmits`), to make a writer wait (`Parks`) or to end a
transmission (`Ends`), and each of the four to keep them. `UnstoredOnlyFromMalloc`
holds by `StoredFirst`: the unread characters begin with some g cells that only malloc's
count claims, and until all cells of a buffer are stored, those below its write index
are, and the count exceeds that index by no more than g. There is no hypothesis about
`InitialCounts`.

`IdleYieldsSoon` needs two facts. When a step gives the CPU to idle with the last tick not
idle's, every process on the list is blocked (`IdleStarts`): `scheduleProcess` turns to
idle only then, and the exit that turns to idle without looking at the others clears `lastClockTickPID`. While
idle runs, a process becomes ready by a tick, which either calls the scheduler or records idle, or
by a terminal, and is then in `woken` (`IdleKeeps`): Fork, Exit and Wait
are made by processes, and idle makes none of them.

**Memory** (`MemoryAssumption`, `BootAssumption`). `Frames_proof` shows that `Fresh` and
`FreshDown` give different pages different free frames, from the ranks of the
elements of a finite set. The invariant `MemOK` has these parts: `MemTypes`; `Owners`, which
is the abstract allocator's `Exclusive` for the frames of each page table and of the
kernel, with one page per frame in each table; `PagesDescend` and `HalvesMatch`, the records
of page tables; `BreaksMapped`. `PagesDescend` includes that the heap ends below the last record's
page (`HeapBelow`). A fork can break that part, so the invariant is `MemInv`: all
the others always (`MemSound`), and `MemOK` as long as `halt` is not `heapOverwritten`;
`TablesSound` says nothing of the heap and holds also in the state after it. `BootInv` adds that the kernel never stopped for a
frame freed twice, and how far boot has come. Each handler is shown to be one step
`Handler` of `FrameAllocator` and to leave the tables one-to-one; `Owners` then follows
from `HandlerKeepsExclusive`, which is proved once in `FrameAllocator`, so the
refinement and `SingleOwner` come from the same lemmas. That the handlers which may
free a frame always may (`AlwaysCanFree`, `BrkNeverStops`, `TableAlwaysSound`) gives
`NeverFreedTwice`.

**The kernel** (`KernelAssumption`: memory has the constants it is built for). `KernelInv` is
`IInv`, `SpacesMatch`, `HaltsTogether` (the machine runs exactly while `halt` is `no`, and
`OnlyMemoryStops`) and their form during boot (`SpacesDuringBoot`). A
step of the kernel is one of the process table, leaves it alone or halts the
machine, so `IInv` is kept; that the list is down to one process exactly when
idle's is the only other address space comes from `NoLostProcess` and `SpacesMatch`
(`CallerIsListed`, `LeavingJoined`). With these, every step is one of `Boot` or leaves
memory alone (`KernelStepIsBoots`): the pid of a child is above all pids in use, and
the process that is freed is the one that memory has as exiting. So what is
proved of `BootSpec` holds in every interleaving of the scheduler's (`KernelMemoryIsSound`). `Kernel`
and the proof know `Boot` by two instances; `SameBoot` goes through its
operators to show that they are the same.

**Only model-checked.** All liveness (`ReadyRuns`, `DelayEnds`, `ReportIsCollected`,
`WaitingWriterIsWoken`, `WriterIsUnmarked`, `ExitedIsReleased`): TLAPS proves no
liveness under fairness and has no ENABLED. The six violations of section 4 are
counterexamples of TLC's.

## 6. Not modelled, and what could follow

Left out: the contents of memory, executables and argument lists; kernel protections,
the TLB and the registers REG_PTR0 and REG_PTR1, which follow from who runs; what
malloc and free do inside the heap, and which nodes stay allocated there; overflow of the
terminals' counts; faults of the kernel itself on pointers a program passes;
growth of the heap between `initKernelPT` and the start of virtual memory; user programs
(subsumed by "any call at any time"); GetPid (changes nothing); trace output; the
terminal number `NUM_TERMINALS`, which passes the handlers' check and indexes behind the
buffers; memory behind arrays in general.

What could follow: the terminals composed with the kernel's memory, beyond the buffer of the
receive interrupt; unbounded pids (`MaxPid` infinite), for which the liveness of the
scheduler would have to be looked at again; the protection of pages (`readOnly`) after an Exec
and a Brk, about which nothing is stated.
