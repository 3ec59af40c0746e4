------------------------------- MODULE Memory -------------------------------
(***************************************************************************)
(* Physical frames, the kernel heap, page tables and the address spaces of *)
(* the processes (memoryManagement.c, pageTableManagement.c,               *)
(* loadProgram.c, copyMemory of contextSwitch.c).                          *)
(*                                                                         *)
(* Memory is counted in pages.  A page of Region 0 is its number, from 0;  *)
(* a page of Region 1 has the numbers that follow, which are also those of *)
(* the frames that back it while virtual memory is off.                    *)
(*                                                                         *)
(* An operator with a parameter n describes a handler that calls malloc;   *)
(* n is the number of pages by which malloc makes the kernel heap grow     *)
(* through SetKernelBrk.  A handler's calls of malloc are taken together,  *)
(* at the first.                                                           *)
(***************************************************************************)
EXTENDS Integers, Sequences, FiniteSets

CONSTANTS
  PAGE_TABLE_LEN,       \* pages of a region
  KERNEL_STACK_BASE,    \* first page of the kernel stack, end of user stacks
  MEM_INVALID_PAGES,    \* pages at the start of Region 0 that stay unmapped
  NumFrames,            \* numPhysicalPages
  UserPids,             \* pids of processes other than idle
  MaxKernelBrk          \* bound: the page the kernel heap grows up to

TopPage == 2 * PAGE_TABLE_LEN - 1

ASSUME MemoryAssumption ==
  /\ PAGE_TABLE_LEN \in Nat /\ KERNEL_STACK_BASE \in Nat
  /\ MEM_INVALID_PAGES \in Nat \ {0} /\ NumFrames \in Nat
  /\ MEM_INVALID_PAGES < KERNEL_STACK_BASE
  /\ KERNEL_STACK_BASE < PAGE_TABLE_LEN
  /\ TopPage < NumFrames
  /\ UserPids \subseteq Nat \ {0} /\ 1 \in UserPids
  /\ MaxKernelBrk \in PAGE_TABLE_LEN .. TopPage + 1

IDLE_PID == 0
INIT_PID == 1
NoFrame == -1          \* the entry is not valid
NoProcess == -1        \* processExitingNow == NULL

Frames == 0 .. NumFrames - 1
Vpns == 0 .. PAGE_TABLE_LEN - 1
UserVpns == 0 .. KERNEL_STACK_BASE - 1
KernelStackVpns == KERNEL_STACK_BASE .. PAGE_TABLE_LEN - 1
KernelPages == PAGE_TABLE_LEN .. TopPage
Halves == {"top", "bottom"}

VARIABLES
  occupied,          \* frames whose isPhysicalPageOccupied is not 0
  kernelBrk,         \* the page after the kernel heap
  kernelPageTable,   \* the frame of each page of Region 1
  records,           \* the list of pageTableRecords: [page, frame, halves]
  space,             \* the address spaces, by pid
  exiting,           \* the process whose page table is to be freed
  halt               \* why the kernel stopped, or "no"

memVars == <<occupied, kernelBrk, kernelPageTable, records, space, exiting,
             halt>>

Stop(reason) == /\ halt' = reason
                /\ UNCHANGED <<occupied, kernelBrk, kernelPageTable, records,
                               space, exiting>>

-----------------------------------------------------------------------------
(* The frame array.                                                        *)

NumFree(occ) == Cardinality(Frames \ occ)

\* The element of S with k smaller ones in S: what the search from frame 0
\* finds when S is what is free and the first k were just taken.
Nth(S, k) == CHOOSE f \in S : Cardinality({g \in S : g < f}) = k

\* Frames for the pages V, by calls of getFreePhysicalPage in page order.
Fresh(occ, V) ==
  [v \in V |-> Nth(Frames \ occ, Cardinality({w \in V : w < v}))]

\* The same for the stack, which is grown from its top page down.
FreshDown(occ, V) ==
  [v \in V |-> Nth(Frames \ occ, Cardinality({w \in V : w > v}))]

ImageOf(f) == {f[v] : v \in DOMAIN f}

Overlay(f, g) == [v \in DOMAIN f |-> IF v \in DOMAIN g THEN g[v] ELSE f[v]]

\* The valid entries among V of the page table pt, and their frames.
Valid(pt, V) == {v \in V : pt[v] # NoFrame}
FramesIn(pt, V) == {pt[v] : v \in Valid(pt, V)}

\* freePhysicalPage halts when the frame is free already.
CanFree(pt, V, occ) ==
  \A v, w \in Valid(pt, V) : pt[v] \in occ /\ (pt[v] = pt[w] => v = w)

-----------------------------------------------------------------------------
(* malloc in the kernel: SetKernelBrk with virtual memory on.              *)

HeapPages(n) == kernelBrk .. kernelBrk + n - 1

MeetsTables(n) == \E v \in HeapPages(n) : kernelPageTable[v] # NoFrame

CanMalloc(n) == /\ kernelBrk + n <= MaxKernelBrk
                /\ n <= NumFree(occupied)
                /\ ~MeetsTables(n)

\* Faulty variant: only the frames with the pages' numbers are marked.
AfterMalloc_ByNumber(n) == occupied \cup HeapPages(n)

\* markKernelPagesTo marks the frames that have the new pages' numbers, on
\* top of those that were found for them.
AfterMalloc(n) == occupied \cup ImageOf(Fresh(occupied, HeapPages(n)))
                           \cup HeapPages(n)

MallocTable(n) == Overlay(kernelPageTable, Fresh(occupied, HeapPages(n)))

\* Without frames malloc returns NULL, which the handlers use: what they do then
\* is undefined.  A page that is valid already makes SetKernelBrk halt.
MallocStops(n) ==
  /\ kernelBrk + n <= MaxKernelBrk
  /\ \/ n > NumFree(occupied) /\ Stop("malloc")
     \/ n <= NumFree(occupied) /\ MeetsTables(n) /\ Stop("heapAtTables")

Malloc(n) == CanMalloc(n) /\ kernelBrk' = kernelBrk + n

-----------------------------------------------------------------------------
(* Page tables, two to a page, in pages that descend from the top.         *)

WithFreeHalf == {i \in DOMAIN records : records[i].halves # Halves}

NextHalf(r) == IF "top" \in r.halves THEN "bottom" ELSE "top"

\* createPageTable, when the frames occ are occupied: where the table goes,
\* the frame of a new page (NoFrame when an old one has room), the records.
NewTable(occ) ==
  IF WithFreeHalf # {}
  THEN LET i == CHOOSE i \in WithFreeHalf : \A j \in WithFreeHalf : i <= j
       IN [page |-> records[i].page, half |-> NextHalf(records[i]),
           frame |-> NoFrame,
           records |-> [records EXCEPT ![i].halves = @ \cup
                                                     {NextHalf(records[i])}]]
  ELSE LET page == records[Len(records)].page - 1
           frame == Nth(Frames \ occ, 0)
       IN [page |-> page, half |-> "top", frame |-> frame,
           records |-> Append(records, [page |-> page, frame |-> frame,
                                        halves |-> {"top"}])]

\* Frames createPageTable and copyMemory take for a copy of p.
CloneNeeds(p) == (IF WithFreeHalf = {} THEN 1 ELSE 0)
                   + Cardinality(Valid(space[p].pageTable, Vpns))

\* createPageTable does not look whether the heap has reached the page.
TableMeetsHeap(n) == /\ WithFreeHalf = {}
                     /\ records[Len(records)].page - 1 < kernelBrk + n

\* createNewProcess and cloneAndSwitchToProcess: c becomes a copy of p, with
\* frames of its own for every valid page, the kernel stack included.  The
\* protection of the copies is that of fillPageTable: all is allowed.  A new
\* page of page tables takes the place of a page of the heap if the heap has
\* come that far; with what was there gone, the model ends after this step.
CloneInto(p, c, n) ==
  LET table == NewTable(AfterMalloc(n))
      occ == AfterMalloc(n) \cup ({table.frame} \ {NoFrame})
      copy == Fresh(occ, Valid(space[p].pageTable, Vpns))
      child == [page |-> table.page, half |-> table.half,
                pageTable |-> Overlay([v \in Vpns |-> NoFrame], copy),
                readOnly |-> {}, brk |-> space[p].brk,
                limit |-> space[p].limit]
  IN /\ Malloc(n)
     /\ CloneNeeds(p) <= NumFree(AfterMalloc(n))
     /\ occupied' = occ \cup ImageOf(copy)
     /\ records' = table.records
     /\ kernelPageTable' = IF table.frame = NoFrame THEN MallocTable(n)
                           ELSE [MallocTable(n) EXCEPT ![table.page] =
                                                               table.frame]
     /\ space' = [q \in DOMAIN space \cup {c} |->
                    IF q = c THEN child ELSE space[q]]
     /\ halt' = IF TableMeetsHeap(n) THEN "heapOverwritten" ELSE halt
     /\ UNCHANGED exiting

\* getFreePhysicalPage finds nothing and halts.
CloneStops(p, n) == /\ CanMalloc(n)
                    /\ CloneNeeds(p) > NumFree(AfterMalloc(n))
                    /\ Stop("frames")

-----------------------------------------------------------------------------
(* Fork                                                                    *)

\* A process in user mode.
Running(p) == /\ halt = "no" /\ exiting = NoProcess
              /\ p \in DOMAIN space \ {IDLE_PID}

\* The check of forkTrapHandler: the pages in use and the kernel stack's.
ForkFits(p) ==
  Cardinality(Valid(space[p].pageTable, UserVpns))
    + Cardinality(KernelStackVpns) <= NumFree(occupied)

ForkRefused(p) == Running(p) /\ ~ForkFits(p) /\ UNCHANGED memVars

ForkCopies(p, c, n) == Running(p) /\ ForkFits(p) /\ CloneInto(p, c, n)

ForkStops(p, n) == /\ Running(p) /\ ForkFits(p)
                   /\ MallocStops(n) \/ CloneStops(p, n)

-----------------------------------------------------------------------------
(* LoadProgram.  A program is [text, data, stack], the numbers of pages its *)
(* text, its data and bss, and its arguments on the stack take.             *)

TextPages(prog) == MEM_INVALID_PAGES .. MEM_INVALID_PAGES + prog.text - 1
HeapStart(prog) == MEM_INVALID_PAGES + prog.text + prog.data
StackPages(prog) == KERNEL_STACK_BASE - prog.stack .. KERNEL_STACK_BASE - 1
ImagePages(prog) == (MEM_INVALID_PAGES .. HeapStart(prog) - 1)
                      \cup StackPages(prog)

FitsVirtual(prog) == HeapStart(prog) + 1 + prog.stack + 1
                       + Cardinality(KernelStackVpns) <= PAGE_TABLE_LEN

FitsPhysical(p, prog, occ) ==
  prog.text + prog.data + prog.stack
    - Cardinality(Valid(space[p].pageTable, UserVpns)) <= NumFree(occ)

\* The arguments were saved before the checks, in memory from malloc.
LoadRefused(p, prog, n) ==
  /\ Malloc(n)
  /\ ~FitsVirtual(prog) \/ ~FitsPhysical(p, prog, AfterMalloc(n))
  /\ occupied' = AfterMalloc(n)
  /\ kernelPageTable' = MallocTable(n)
  /\ UNCHANGED <<records, space, exiting, halt>>

\* Faulty variant: the break is one page too high.
Loaded_BreakTooHigh(p, prog, frames) ==
  [space[p] EXCEPT
     !.pageTable = [v \in Vpns |-> CASE v \in DOMAIN frames -> frames[v]
                                     [] v \in UserVpns \ DOMAIN frames -> NoFrame
                                     [] OTHER -> space[p].pageTable[v]],
     !.readOnly = (@ \ ImagePages(prog)) \cup TextPages(prog),
     !.brk = HeapStart(prog) + 1,
     !.limit = KERNEL_STACK_BASE]

\* The old pages are freed, then text, data and stack are given frames.  The
\* stack limit is set to the end of the stack.  Protections outside the new
\* image stay what they were.  The break set is the running process's, which
\* is not idle when idle is loaded.
Loaded(p, prog, frames) ==
  LET s == space[p]
  IN [s EXCEPT
        !.pageTable = [v \in Vpns |-> CASE v \in DOMAIN frames -> frames[v]
                                        [] v \in UserVpns \ DOMAIN frames -> NoFrame
                                        [] OTHER -> s.pageTable[v]],
        !.readOnly = (@ \ ImagePages(prog)) \cup TextPages(prog),
        !.brk = IF p = IDLE_PID THEN @ ELSE HeapStart(prog),
        !.limit = KERNEL_STACK_BASE]

\* Faulty variant: the kernel stack is given back too.
Replaced_AllPages(p) == FramesIn(space[p].pageTable, Vpns)

\* The frames of the old image.
Replaced(p) == FramesIn(space[p].pageTable, UserVpns)

LoadReplaces(p, prog, n) ==
  LET kept == AfterMalloc(n) \ Replaced(p)
      frames == Fresh(kept, ImagePages(prog))
  IN /\ Malloc(n)
     /\ FitsVirtual(prog) /\ FitsPhysical(p, prog, AfterMalloc(n))
     /\ CanFree(space[p].pageTable, UserVpns, AfterMalloc(n))
     /\ occupied' = kept \cup ImageOf(frames)
     /\ kernelPageTable' = MallocTable(n)
     /\ space' = [space EXCEPT ![p] = Loaded(p, prog, frames)]
     /\ UNCHANGED records

LoadStops(p, prog, n) ==
  \/ MallocStops(n)
  \/ /\ CanMalloc(n)
     /\ FitsVirtual(prog) /\ FitsPhysical(p, prog, AfterMalloc(n))
     /\ ~CanFree(space[p].pageTable, UserVpns, AfterMalloc(n))
     /\ Stop("freedTwice")

-----------------------------------------------------------------------------
(* Exec                                                                    *)

\* LoadProgram returns -1: no such program, or it does not fit.
ExecRefused(p, prog, n) ==
  Running(p) /\ (UNCHANGED memVars \/ LoadRefused(p, prog, n))

ExecLoads(p, prog, n) ==
  Running(p) /\ LoadReplaces(p, prog, n) /\ UNCHANGED <<exiting, halt>>

ExecStops(p, prog, n) == Running(p) /\ LoadStops(p, prog, n)

-----------------------------------------------------------------------------
(* Exit                                                                    *)

\* removeExitingProcess: the kernel halts with the last process.
Leaves(p) == IF DOMAIN space = {IDLE_PID, p}
             THEN halt' = "lastExit" /\ UNCHANGED exiting
             ELSE exiting' = p /\ UNCHANGED halt

\* LoadProgram returns -2, once the old image is gone: the process exits.
ExecKills(p, prog, n) ==
  Running(p) /\ LoadReplaces(p, prog, n) /\ Leaves(p)

\* The exit node comes from malloc.
Exit(p, n) == /\ Running(p)
              /\ Malloc(n)
              /\ occupied' = AfterMalloc(n)
              /\ kernelPageTable' = MallocTable(n)
              /\ Leaves(p)
              /\ UNCHANGED <<records, space>>

ExitStops(p, n) == Running(p) /\ MallocStops(n)

\* Faulty variant: a page goes when its top half does.
ClearedRecords_TopOnly(i, half) ==
  LET cleared == [records EXCEPT ![i].halves = @ \ {half}]
  IN IF i = Len(records) /\ "top" \notin cleared[i].halves
     THEN SubSeq(cleared, 1, i - 1)
     ELSE cleared

\* The record of a page, once one of its halves is given back; the last one
\* goes with its second half.
ClearedRecords(i, half) ==
  LET cleared == [records EXCEPT ![i].halves = @ \ {half}]
  IN IF i = Len(records) /\ cleared[i].halves = {}
     THEN SubSeq(cleared, 1, i - 1)
     ELSE cleared

RecordOf(p) == {i \in DOMAIN records : records[i].page = space[p].page}

\* The frame of a page of page tables that is freed with the table of p.
TableFrame(i, half) == IF Len(ClearedRecords(i, half)) = Len(records)
                       THEN {} ELSE {records[i].frame}

HasHighFrame(p) ==
  \E v \in Vpns : space[p].pageTable[v] >= KERNEL_STACK_BASE

\* Every page is freed once; the table is found in a record, whose page goes
\* only if it is not the first, which would have no predecessor.
TableIsSound(p) ==
  /\ CanFree(space[p].pageTable, Vpns, occupied)
  /\ \E i \in RecordOf(p) :
       /\ TableFrame(i, space[p].half) \subseteq occupied
       /\ i = 1 => TableFrame(i, space[p].half) = {}

\* freePageTable.  The entry of the kernel page table that is cleared for the
\* page lies outside of the table; the page's own entry stays.
FreePageTable(p) ==
  /\ ~HasHighFrame(p) /\ TableIsSound(p)
  /\ \E i \in RecordOf(p) :
       /\ records' = ClearedRecords(i, space[p].half)
       /\ occupied' = occupied \ (FramesIn(space[p].pageTable, Vpns)
                                    \cup TableFrame(i, space[p].half))
  /\ space' = [q \in DOMAIN space \ {p} |-> space[q]]
  /\ exiting' = NoProcess
  /\ UNCHANGED <<kernelBrk, kernelPageTable, halt>>

\* A frame with a number from the kernel stack's up is refused, as idle's.
FreePageTableStops(p) ==
  \/ HasHighFrame(p) /\ Stop("highFrame")
  \/ ~HasHighFrame(p) /\ ~TableIsSound(p) /\ Stop("freedTwice")

\* tryFreeSwitchedAwayExitingProcess, in the process that runs next.
FreeExited == /\ halt = "no" /\ exiting # NoProcess
              /\ FreePageTable(exiting) \/ FreePageTableStops(exiting)

-----------------------------------------------------------------------------
(* Brk.  page is the requested break, rounded up to a page.                *)

BrkRefused(p, page) ==
  /\ Running(p)
  /\ \/ page <= MEM_INVALID_PAGES
     \/ page >= space[p].limit
     \/ page - space[p].brk > NumFree(occupied)
  /\ UNCHANGED memVars

BrkAllowed(p, page) == /\ Running(p)
                       /\ MEM_INVALID_PAGES < page /\ page < space[p].limit

\* Entries between the break and the limit that are valid are replaced.
BrkGrows(p, page) ==
  LET frames == Fresh(occupied, space[p].brk .. page - 1)
  IN /\ BrkAllowed(p, page)
     /\ page >= space[p].brk /\ page - space[p].brk <= NumFree(occupied)
     /\ occupied' = occupied \cup ImageOf(frames)
     /\ space' = [space EXCEPT ![p].pageTable = Overlay(@, frames),
                               ![p].brk = page]
     /\ UNCHANGED <<kernelBrk, kernelPageTable, records, exiting, halt>>

\* Every page given back is expected to be valid.
CanShrink(p, page) ==
  LET given == page .. space[p].brk - 1
  IN Valid(space[p].pageTable, given) = given
       /\ CanFree(space[p].pageTable, given, occupied)

\* Faulty variant: the entries of the pages given back stay valid.
BrkShrinks_KeepsValid(p, page) ==
  /\ BrkAllowed(p, page) /\ page < space[p].brk
  /\ CanShrink(p, page)
  /\ occupied' = occupied \ FramesIn(space[p].pageTable,
                                     page .. space[p].brk - 1)
  /\ space' = [space EXCEPT ![p].brk = page]
  /\ UNCHANGED <<kernelBrk, kernelPageTable, records, exiting, halt>>

BrkShrinks(p, page) ==
  LET given == page .. space[p].brk - 1
  IN /\ BrkAllowed(p, page) /\ page < space[p].brk
     /\ CanShrink(p, page)
     /\ occupied' = occupied \ FramesIn(space[p].pageTable, given)
     /\ space' = [space EXCEPT ![p].pageTable =
                                 Overlay(@, [v \in given |-> NoFrame]),
                               ![p].brk = page]
     /\ UNCHANGED <<kernelBrk, kernelPageTable, records, exiting, halt>>

BrkStops(p, page) == /\ BrkAllowed(p, page) /\ page < space[p].brk
                     /\ ~CanShrink(p, page)
                     /\ Stop("freedTwice")

-----------------------------------------------------------------------------
(* The memory trap, for an access to a page that the process may not make. *)

Faults(p, page) ==
  page \in UserVpns => \/ space[p].pageTable[page] = NoFrame
                       \/ page \in space[p].readOnly

\* Faulty variant: the limit is not compared with the page.
MayGrow_AnyPage(p, page) == /\ MEM_INVALID_PAGES <= page
                            /\ space[p].limit > space[p].brk
                            /\ space[p].limit - page <= NumFree(occupied)

\* growUserStack: whether there is room is asked of the present limit.
MayGrow(p, page) == /\ MEM_INVALID_PAGES <= page /\ page < space[p].limit
                    /\ space[p].limit > space[p].brk
                    /\ space[p].limit - page <= NumFree(occupied)

\* All pages from the one accessed to the limit get new frames, also those
\* that were valid.
StackGrows(p, page) ==
  LET grown == page .. space[p].limit - 1
      frames == FreshDown(occupied, grown)
  IN /\ Running(p) /\ Faults(p, page) /\ MayGrow(p, page)
     /\ occupied' = occupied \cup ImageOf(frames)
     /\ space' = [space EXCEPT ![p].pageTable = Overlay(@, frames),
                               ![p].readOnly = @ \ grown,
                               ![p].limit = page]
     /\ UNCHANGED <<kernelBrk, kernelPageTable, records, exiting, halt>>

\* Otherwise the process exits; so it does for the first byte after the
\* invalid pages, which the check leaves out.
IsFatal(p, page) == /\ Faults(p, page)
                    /\ ~MayGrow(p, page) \/ page = MEM_INVALID_PAGES

AccessKills(p, page, n) == Exit(p, n) /\ IsFatal(p, page)

AccessStops(p, page, n) == ExitStops(p, n) /\ IsFatal(p, page)

-----------------------------------------------------------------------------
(* The terminal receive interrupt: its buffer comes from malloc and is     *)
(* never given back.                                                       *)

ReceiveMallocs(n) == /\ halt = "no" /\ exiting = NoProcess
                     /\ Malloc(n)
                     /\ occupied' = AfterMalloc(n)
                     /\ kernelPageTable' = MallocTable(n)
                     /\ UNCHANGED <<records, space, exiting, halt>>

ReceiveStops(n) == halt = "no" /\ exiting = NoProcess /\ MallocStops(n)
=============================================================================
