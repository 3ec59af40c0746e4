-------------------------------- MODULE Boot --------------------------------
(***************************************************************************)
(* The end of KernelStart (kernelStart.c), from the moment virtual memory  *)
(* is on: idle is loaded, cloned into init, and init is loaded.  Then the  *)
(* processes use memory as Memory describes, in any order.                 *)
(***************************************************************************)
EXTENDS Memory

CONSTANTS
  KernelHeapEnd,    \* the page the kernel heap has reached
  UnclearedMarks,   \* sets of frames that may look occupied from the start
  IdleProgram,      \* the program idle
  Programs,         \* the programs the processes may load
  Growths,          \* numbers of pages by which malloc may extend the heap
  MaxCalls,         \* bound: traps and interrupts after boot
  BrkPages,         \* the breaks and the accesses the processes may try
  AccessPages

Program == [text : Nat, data : Nat, stack : Nat \ {0}]

\* The kernel's own text and data are at the start of Region 1, below its heap.
\* memset clears as many bytes as there are frames, of an array of ints of four
\* bytes; the rest is as malloc found it.  (If the top frame's cell holds a 1,
\* getTopFreePhysicalPage halts at once.)
ASSUME BootAssumption ==
  /\ KernelHeapEnd \in PAGE_TABLE_LEN + 1 .. MaxKernelBrk
  /\ KernelHeapEnd <= TopPage
  /\ UnclearedMarks \subseteq SUBSET ((NumFrames \div 4 .. NumFrames - 1)
                                        \ {TopPage})
  /\ IdleProgram \in Program /\ Programs \subseteq Program
  /\ Growths \subseteq Nat /\ 0 \in Growths
  /\ MaxCalls \in Nat
  /\ BrkPages \subseteq Nat /\ AccessPages \subseteq Nat

VARIABLES
  stage,      \* "loadIdle", "clone", "loadInit", "up"
  calls       \* traps and interrupts since boot, counted for the bound only

bootVars == <<occupied, kernelBrk, kernelPageTable, records, space, exiting,
              halt, stage, calls>>

-----------------------------------------------------------------------------
(* Up to initVM there is one thread and no choice: the kernel's image and   *)
(* heap, its stack and the top page, for page tables, are marked; Region 1  *)
(* is mapped to the frames with its pages' numbers, and so is idle's stack. *)

IdleSpace == [page |-> TopPage, half |-> "top",
              pageTable |-> [v \in Vpns |-> IF v \in KernelStackVpns THEN v
                                            ELSE NoFrame],
              readOnly |-> {}, brk |-> 0, limit |-> 0]

\* initPhysicalPageArray, the kernel stack, and the mallocs up to here.
BootFrames(marks) == marks \cup KernelStackVpns
                       \cup (PAGE_TABLE_LEN .. KernelHeapEnd - 1) \cup {TopPage}

\* initKernelPT, and the entry of the top page.
BootKernelTable == [v \in KernelPages |->
                      IF v < KernelHeapEnd \/ v = TopPage THEN v ELSE NoFrame]

\* initFirstPTRecord, and the half that createPageTable gave to idle.
FirstRecord == [page |-> TopPage, frame |-> TopPage, halves |-> {"top"}]

BootInit ==
  /\ \E marks \in UnclearedMarks : occupied = BootFrames(marks)
  /\ kernelBrk = KernelHeapEnd
  /\ kernelPageTable = BootKernelTable
  /\ records = <<FirstRecord>>
  /\ space = [p \in {IDLE_PID} |-> IdleSpace]
  /\ exiting = NoProcess
  /\ halt = "no"
  /\ stage = "loadIdle"
  /\ calls = 0

At(s) == halt = "no" /\ stage = s

\* The swap space and the terminal buffers are allocated on the way.  A failure
\* is reported as halting, and boot goes on; it may also come after the pages
\* are in place, when the program cannot be read.
LoadIdle ==
  /\ At("loadIdle")
  /\ \E n \in Growths :
       \/ /\ \/ UNCHANGED memVars
             \/ LoadReplaces(IDLE_PID, IdleProgram, n) /\ UNCHANGED <<exiting, halt>>
             \/ LoadRefused(IDLE_PID, IdleProgram, n)
          /\ stage' = "clone"
       \/ LoadStops(IDLE_PID, IdleProgram, n) /\ UNCHANGED stage

\* createNewProcess for init and cloneAndSwitchToProcess, with no check before.
\* createNewProcess comes before idle is loaded; it only takes the other half of
\* the first page, and init's brk and limit are not used until init is loaded.
CloneInit ==
  /\ At("clone")
  /\ \E n \in Growths :
       \/ CloneInto(IDLE_PID, INIT_PID, n) /\ stage' = "loadInit"
       \/ (MallocStops(n) \/ CloneStops(IDLE_PID, n)) /\ UNCHANGED stage

\* init, or the program on the command line; if it cannot be loaded, the
\* kernel halts.
LoadInit ==
  /\ At("loadInit")
  /\ \/ /\ \E n \in Growths, prog \in Programs :
             LoadReplaces(INIT_PID, prog, n) /\ UNCHANGED <<exiting, halt>>
        /\ stage' = "up"
     \/ /\ Stop("noInit") \/ \E n \in Growths, prog \in Programs :
                               LoadStops(INIT_PID, prog, n)
        /\ UNCHANGED stage

BootStep == (LoadIdle \/ CloneInit \/ LoadInit) /\ UNCHANGED calls

-----------------------------------------------------------------------------
(* What the processes do.                                                  *)

ForkStep(p) == \/ ForkRefused(p)
               \/ \E n \in Growths : \/ ForkStops(p, n)
                                     \/ \E c \in UserPids \ DOMAIN space :
                                          ForkCopies(p, c, n)

ExecStep(p) == \E n \in Growths, prog \in Programs :
                 \/ ExecRefused(p, prog, n) \/ ExecLoads(p, prog, n)
                 \/ ExecKills(p, prog, n) \/ ExecStops(p, prog, n)

ExitStep(p) == \E n \in Growths : Exit(p, n) \/ ExitStops(p, n)

BrkStep(p) == \E page \in BrkPages :
                \/ BrkRefused(p, page) \/ BrkGrows(p, page)
                \/ BrkShrinks(p, page) \/ BrkStops(p, page)

AccessStep(p) == \E page \in AccessPages :
                   \/ StackGrows(p, page)
                   \/ \E n \in Growths : \/ AccessKills(p, page, n)
                                         \/ AccessStops(p, page, n)

UserStep == \E p \in UserPids : \/ ForkStep(p) \/ ExecStep(p) \/ ExitStep(p)
                                \/ BrkStep(p) \/ AccessStep(p)

ReceiveStep == \E n \in Growths : ReceiveMallocs(n) \/ ReceiveStops(n)

Call == /\ stage = "up" /\ calls < MaxCalls
        /\ UserStep \/ ReceiveStep
        /\ calls' = calls + 1
        /\ UNCHANGED stage

Release == FreeExited /\ UNCHANGED <<stage, calls>>

Halted == (halt # "no" \/ calls = MaxCalls) /\ UNCHANGED bootVars

BootNext == BootStep \/ Call \/ Release \/ Halted

BootSpec == BootInit /\ [][BootNext]_bootVars

-----------------------------------------------------------------------------
(* Properties.                                                             *)

\* Every variable has the type the code gives it.
MemTypeOK ==
  /\ occupied \subseteq Frames
  /\ kernelBrk \in PAGE_TABLE_LEN .. MaxKernelBrk
  /\ kernelPageTable \in [KernelPages -> Frames \cup {NoFrame}]
  /\ records \in Seq([page : KernelPages, frame : Frames,
                      halves : SUBSET Halves])
  /\ IDLE_PID \in DOMAIN space /\ DOMAIN space \subseteq UserPids \cup {IDLE_PID}
  /\ space \in [DOMAIN space ->
                  [page : KernelPages, half : Halves,
                   pageTable : [Vpns -> Frames \cup {NoFrame}],
                   readOnly : SUBSET Vpns, brk : 0 .. KERNEL_STACK_BASE,
                   limit : 0 .. KERNEL_STACK_BASE]]
  /\ exiting \in (DOMAIN space \ {IDLE_PID}) \cup {NoProcess}
  /\ halt \in {"no", "malloc", "heapAtTables", "frames",
               "heapOverwritten", "highFrame", "freedTwice", "lastExit",
               "noInit"}
  /\ stage \in {"loadIdle", "clone", "loadInit", "up"}
  /\ calls \in Nat

\* Pages of the kernel that are in use: its image, its heap, its page tables.
KernelUses == {v \in KernelPages :
                 v < kernelBrk \/ \E i \in DOMAIN records : records[i].page = v}

\* No frame backs two pages, of one process, of two, or of the kernel, and each
\* frame that backs one is marked occupied: whatever the order in which
\* processes fork, load, move their break, grow their stack and exit, nobody
\* writes into another's memory.
SingleOwner ==
  /\ \A p, q \in DOMAIN space :
       \A v \in Valid(space[p].pageTable, Vpns),
          w \in Valid(space[q].pageTable, Vpns) :
         /\ space[p].pageTable[v] \in occupied
         /\ space[p].pageTable[v] = space[q].pageTable[w] => p = q /\ v = w
  /\ \A v, w \in KernelUses :
       /\ kernelPageTable[v] \in occupied
       /\ kernelPageTable[v] = kernelPageTable[w] => v = w
  /\ \A p \in DOMAIN space :
       \A v \in Valid(space[p].pageTable, Vpns), w \in KernelUses :
         space[p].pageTable[v] # kernelPageTable[w]

\* The halves marked full are those that hold a process's page table, no two
\* processes have the same, their pages descend from the top without a gap, are
\* mapped to the frames recorded for them, and the first keeps idle's.
TablesSound ==
  /\ records # << >> /\ records[1].page = TopPage
  /\ space[IDLE_PID].page = TopPage /\ space[IDLE_PID].half = "top"
  /\ \A i \in 1 .. Len(records) - 1 : records[i + 1].page = records[i].page - 1
  /\ \A i \in DOMAIN records : kernelPageTable[records[i].page] = records[i].frame
  /\ \A p, q \in DOMAIN space :
       (space[p].page = space[q].page /\ space[p].half = space[q].half) => p = q
  /\ \A i \in DOMAIN records, half \in Halves :
       half \in records[i].halves <=>
         \E p \in DOMAIN space : space[p].page = records[i].page
                                   /\ space[p].half = half
  /\ \A p \in DOMAIN space : RecordOf(p) # {}

\* The pages below a process's break are there, so that lowering it frees what
\* it has, and raising it adds what it lacks.
BrkMapped ==
  \A p \in DOMAIN space \ {IDLE_PID} :
    \A v \in MEM_INVALID_PAGES .. space[p].brk - 1 :
      space[p].pageTable[v] # NoFrame

\* pageTableManagement.c:116-119 (commented out) holds the kernel to this: a page
\* of page tables is never put where the kernel heap has grown to.
TablesAboveHeap == kernelBrk <= records[Len(records)].page

\* copyMemory "assumes that there are enough free physical pages available to
\* make the copy" (contextSwitch.c:35), which Fork checks before.  The page of
\* page tables that createPageTable takes in between is not in Fork's count.
CopyNeverRunsOut == stage = "up" => halt # "frames"

\* Freeing a page table halts for a frame "which belongs to idle's kernel stack"
\* (pageTableManagement.c:191).  The test is for all frames that have a number
\* at or above KERNEL_STACK_BASE.
OnlyIdleStackIsRefused ==
  halt = "highFrame" =>
    FramesIn(space[exiting].pageTable, Vpns) \cap KernelStackVpns # {}

\* The kernel never finds a frame it frees free already, and never a page table
\* without its record.
NeverFreedTwice == halt # "freedTwice"
=============================================================================
